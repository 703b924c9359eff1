------------------------------ MODULE ShowAndHide ------------------------------
(***************************************************************************)
(* What a page relies on that listens to the events of something that is   *)
(* shown and hidden with a transition: show, shown, hide, hidden, in this  *)
(* order and each once, with the thing there when it is said to be shown   *)
(* and gone when it is said to be hidden, and every transition with an end.*)
(***************************************************************************)
VARIABLES told,  \* the last event
          there  \* is the thing there

vars == <<told, there>>

Init == told = "hidden" /\ ~there

Begin(from, to) == told = from /\ told' = to /\ there' \in BOOLEAN
During == told \in {"show", "hide"} /\ told' = told /\ there' \in BOOLEAN
Shown  == told = "show" /\ told' = "shown" /\ there'
Hidden == told = "hide" /\ told' = "hidden" /\ ~there'

Next == Begin("hidden", "show") \/ Begin("shown", "hide") \/ During \/ Shown \/ Hidden

Ends == told \in {"show", "hide"} ~> told \in {"shown", "hidden"}

Spec == Init /\ [][Next]_vars /\ Ends
=============================================================================
