------------------------------ MODULE EventSource ------------------------------
(***************************************************************************)
(* The EventSource that static/eventsource/eventsource.js gives a browser  *)
(* without one of its own: requests one after another for the same URL,    *)
(* whose answer is read while it grows.                                    *)
(*                                                                         *)
(* An answer is a sequence of units: the text of a line, or the newline    *)
(* after it.  The network may cut it between any two units, so that a line *)
(* is cut in two as well as an event; `whole' says that it never cuts      *)
(* within an event, as the handlers of the streams flush them.             *)
(***************************************************************************)
EXTENDS Integers, Sequences, SequencesExt

CONSTANTS MaxEvents,   \* events the server sends
          MaxFailures  \* answers that end, are refused, are cut off or take too long

NL       == [kind |-> "newline"]
Error    == [kind |-> "error"]              \* the page of an answer that is not a stream
Named(n) == [kind |-> "event", n |-> n]
Data(n)  == [kind |-> "data", n |-> n]

VARIABLES readyState, \* "CONNECTING", "OPEN" or "CLOSED"
          pollTimer,  \* is a call of poll() scheduled
          xhr,        \* the latest request: is it pending, its status, the answer, how much
                      \* of it has arrived and how much is in the cache
          listening,  \* is the page's listener registered for the name of the events
          sent,       \* number of events published, on this stream or before it was there
          failures,
          whole,
          heard,      \* history: data of the events the listener was called with
          arrived     \* history: data of the events that arrived, whole ones, while it listened

vars == <<readyState, pollTimer, xhr, listening, sent, failures, whole, heard, arrived>>

-----------------------------------------------------------------------------
(***************************************************************************)
(* Reading an answer.                                                      *)
(***************************************************************************)
EventText(n) == <<Named(n), NL, Data(n), NL, NL>>

\* One part of the text that was split at newlines: what it does to the event being read.
\* A blank one dispatches it, by its name.
\* Faulty variant: the data is kept for the next event.
KeepData(acc) ==
    CASE acc.line.kind = "event" -> [acc EXCEPT !.named = TRUE]
      [] acc.line.kind = "data"  -> [acc EXCEPT !.data = Append(@, acc.line.n)]
      [] acc.line.kind = "empty" /\ acc.data # <<>> ->
             [acc EXCEPT !.events = IF acc.named THEN Append(@, acc.data) ELSE @, !.named = FALSE]
      [] OTHER -> acc

ReadLine(acc) ==
    CASE acc.line.kind = "event" -> [acc EXCEPT !.named = TRUE]
      [] acc.line.kind = "data"  -> [acc EXCEPT !.data = Append(@, acc.line.n)]
      [] acc.line.kind = "empty" /\ acc.data # <<>> ->
             [acc EXCEPT !.events = IF acc.named THEN Append(@, acc.data) ELSE @,
                         !.data = <<>>, !.named = FALSE]
      [] OTHER -> acc

Empty == [kind |-> "empty"]

ReadUnit(acc, unit) ==
    IF unit = NL THEN [ReadLine(acc) EXCEPT !.line = Empty] ELSE [acc EXCEPT !.line = unit]

Unread == [line |-> Empty, named |-> FALSE, data |-> <<>>, events |-> <<>>]

\* The data of the named events in the text that came since the last call; every call
\* starts afresh.
ReadText(text) == FoldLeft(ReadUnit, Unread, Append(text, NL)).events

\* dispatchEvent: the listener is called for events of its name.
Heard(text) == IF listening THEN ReadText(text) ELSE <<>>

\* The data of the events that a text of whole ones consists of.
Arrived(text) ==
    IF whole /\ listening THEN [i \in 1 .. Len(text) \div Len(EventText(1)) |-> <<text[5 * i - 2].n>>]
                         ELSE <<>>

-----------------------------------------------------------------------------
NoRequest == [pending |-> FALSE, status |-> 0, answer |-> <<>>, got |-> 0]
NewRequest == [NoRequest EXCEPT !.pending = TRUE]

\* The constructor polls at once.
Init ==
    /\ readyState = "CONNECTING"
    /\ pollTimer = FALSE
    /\ xhr = NewRequest
    /\ listening = FALSE
    /\ sent = 0
    /\ failures = 0
    /\ whole \in BOOLEAN
    /\ heard = <<>>
    /\ arrived = <<>>

Poll ==
    /\ pollTimer
    /\ pollTimer' = FALSE
    /\ IF readyState = "CLOSED" THEN UNCHANGED xhr ELSE xhr' = NewRequest
    /\ UNCHANGED <<readyState, listening, sent, failures, whole, heard, arrived>>

\* onreadystatechange with readyState 3, or 4 and status 200, when the first n units of the
\* answer are there.  The cache is what the last call had, and so what has arrived.
\* Faulty variant: the text is read from its beginning.
OnTextUncached(n, last) ==
    /\ readyState' = IF readyState = "CONNECTING" THEN "OPEN" ELSE readyState
    /\ heard' = heard \o Heard(SubSeq(xhr.answer, 1, n))
    /\ arrived' = arrived \o Arrived(SubSeq(xhr.answer, xhr.got + 1, n))
    /\ xhr' = [xhr EXCEPT !.got = n, !.pending = ~last]
    /\ pollTimer' = (pollTimer \/ last)

OnText(n, last) ==
    LET text == SubSeq(xhr.answer, xhr.got + 1, n)
    IN  /\ readyState' = IF readyState = "CONNECTING" THEN "OPEN" ELSE readyState
        /\ heard' = heard \o Heard(text)
        /\ arrived' = arrived \o Arrived(text)
        /\ xhr' = [xhr EXCEPT !.got = n, !.pending = ~last]
        /\ pollTimer' = (pollTimer \/ last)

\* onreadystatechange with readyState 4 and another status, 0 for an error or an abort.
\* Faulty variant: only a request that had been open is repeated.
RetryOpenOnly ==
    /\ xhr' = [xhr EXCEPT !.pending = FALSE]
    /\ readyState' = IF readyState = "CLOSED" THEN "CLOSED" ELSE "CONNECTING"
    /\ pollTimer' = (pollTimer \/ readyState = "OPEN")
    /\ UNCHANGED <<heard, arrived>>

OnError ==
    /\ xhr' = [xhr EXCEPT !.pending = FALSE]
    /\ readyState' = IF readyState = "CLOSED" THEN "CLOSED" ELSE "CONNECTING"
    /\ pollTimer' = (pollTimer \/ readyState # "CLOSED")
    /\ UNCHANGED <<heard, arrived>>

-----------------------------------------------------------------------------
(***************************************************************************)
(* The server and the network.                                             *)
(***************************************************************************)
Streaming == xhr.pending /\ xhr.status # 500

\* A datapoint: written to the answer there is, lost without one.
Publish ==
    /\ sent < MaxEvents
    /\ sent' = sent + 1
    /\ IF Streaming
       THEN xhr' = [xhr EXCEPT !.status = 200, !.answer = @ \o EventText(sent + 1)]
       ELSE UNCHANGED xhr
    /\ UNCHANGED <<readyState, pollTimer, listening, failures, whole, heard, arrived>>

\* More of the answer arrives.
Chunk ==
    /\ xhr.pending
    /\ \E n \in xhr.got + 1 .. Len(xhr.answer) :
           /\ whole /\ xhr.status = 200 => n % Len(EventText(1)) = 0
           /\ OnText(n, FALSE)
    /\ UNCHANGED <<listening, sent, failures, whole>>

Fails == failures < MaxFailures /\ failures' = failures + 1

\* The server answers with an error, which has a text.
Refuse ==
    /\ xhr.pending /\ xhr.answer = <<>>
    /\ Fails
    /\ xhr' = [xhr EXCEPT !.status = 500, !.answer = <<Error>>]
    /\ UNCHANGED <<readyState, pollTimer, listening, sent, whole, heard, arrived>>

\* That answer is complete.
Refused ==
    /\ xhr.pending /\ xhr.status = 500 /\ xhr.got = Len(xhr.answer)
    /\ OnError
    /\ UNCHANGED <<listening, sent, failures, whole>>

\* The server ends the stream, as a handler does that returns; what is left arrives with it.
End ==
    /\ Streaming
    /\ Fails
    /\ OnText(Len(xhr.answer), TRUE)
    /\ UNCHANGED <<listening, sent, whole>>

\* The connection breaks, or the timer of 50 seconds aborts a request that goes on well.
BreakOrTimeout ==
    /\ xhr.pending
    /\ Fails
    /\ OnError
    /\ UNCHANGED <<listening, sent, whole>>

-----------------------------------------------------------------------------
(***************************************************************************)
(* The page.                                                               *)
(***************************************************************************)
\* abort() makes the request complete with status 0, which OnError ignores by then.
\* Faulty variant: close leaves the timer of the next poll.
CloseOnly ==
    /\ readyState' = "CLOSED"
    /\ xhr' = [xhr EXCEPT !.pending = FALSE]
    /\ UNCHANGED <<pollTimer, listening, sent, failures, whole, heard, arrived>>

Close ==
    /\ readyState' = "CLOSED"
    /\ pollTimer' = FALSE
    /\ xhr' = [xhr EXCEPT !.pending = FALSE]
    /\ UNCHANGED <<listening, sent, failures, whole, heard, arrived>>

AddEventListener ==
    /\ ~listening
    /\ listening' = TRUE
    /\ UNCHANGED <<readyState, pollTimer, xhr, sent, failures, whole, heard, arrived>>

RemoveEventListener ==
    /\ listening
    /\ listening' = FALSE
    /\ UNCHANGED <<readyState, pollTimer, xhr, sent, failures, whole, heard, arrived>>

Next ==
    \/ Poll \/ Publish \/ Chunk \/ Refuse \/ Refused \/ End \/ BreakOrTimeout
    \/ Close \/ AddEventListener \/ RemoveEventListener

\* Timers run out, and what the server wrote arrives.
Spec == Init /\ [][Next]_vars /\ WF_vars(Poll) /\ WF_vars(Chunk) /\ WF_vars(Refused)

-----------------------------------------------------------------------------
(***************************************************************************)
(* Properties.                                                             *)
(***************************************************************************)
\* Whatever ends a request, exactly one thing will go on with an EventSource that is not
\* closed, a request or the timer of the next one; with a closed one nothing will.
OneGoesOn ==
    IF readyState = "CLOSED" THEN ~xhr.pending /\ ~pollTimer
                             ELSE xhr.pending # pollTimer

\* Events that arrive whole are all heard, by their name and with their own data, even
\* when a request ends with some or a chunk brings several.
WholeEventsAreHeard == whole => heard = arrived

\* A stream that was lost is asked for again, unless the page closes it.
StreamIsAskedForAgain == []<>(xhr.pending \/ readyState = "CLOSED")

\* The EventSource keeps what pages expect of one, however the network cuts the answers.
state == CASE readyState = "CONNECTING" -> "connecting"
           [] readyState = "OPEN"       -> "open"
           [] readyState = "CLOSED"     -> "closed"
Stream == INSTANCE EventStream
IsEventStream == Stream!Spec
=============================================================================
