------------------------------ MODULE EventStream ------------------------------
(***************************************************************************)
(* What the pages expect of an EventSource, whichever code is behind it:   *)
(* it connects, and connects again after it lost the connection, until it  *)
(* is closed; a listener hears of what the server sent, each event at most *)
(* once, in the order sent and nothing else, and nothing after close().    *)
(***************************************************************************)
EXTENDS Integers, Sequences

CONSTANT MaxEvents  \* events the server sends

VARIABLES state,  \* "connecting", "open" or "closed"
          sent,   \* number of events sent so far
          heard   \* what the listener heard: of each event the numbers its data is made of

vars == <<state, sent, heard>>

Init == state = "connecting" /\ sent = 0 /\ heard = <<>>

LastHeard == IF heard = <<>> THEN 0 ELSE heard[Len(heard)][1]

Increasing(numbers) == \A i, j \in DOMAIN numbers : i < j => numbers[i] < numbers[j]

Send == sent < MaxEvents /\ sent' = sent + 1 /\ UNCHANGED <<state, heard>>

\* Some of the events sent since the last one heard, each by itself.
Hear ==
    /\ state # "closed"
    /\ state' = "open"
    /\ \E n \in 0 .. sent - LastHeard :
           \E new \in [1 .. n -> LastHeard + 1 .. sent] :
               Increasing(new) /\ heard' = heard \o [i \in 1 .. n |-> <<new[i]>>]
    /\ UNCHANGED sent

Lose == state # "closed" /\ state' = "connecting" /\ UNCHANGED <<sent, heard>>

Close == state' = "closed" /\ UNCHANGED <<sent, heard>>

Next == Send \/ Hear \/ Lose \/ Close

Spec == Init /\ [][Next]_vars
=============================================================================
