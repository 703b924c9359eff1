------------------------------- MODULE LogsPager -------------------------------
(***************************************************************************)
(* The list of logs of templates/logs/list.html.tmpl: ResourcedMaster.     *)
(* logs.render of static/resourced-master/js/dashboard.js, called with     *)
(* "older" when the logs arrive and by the left arrow, with "newer" by the *)
(* right one.  Logs are numbered from 0, the way the array of the answer   *)
(* is; what the list remembers is what the page keeps in the ul's data.    *)
(***************************************************************************)
EXTENDS Integers, FiniteSets

CONSTANTS ItemsPerPage, MaxLogs,
          Arrows   \* arrows a user may press: she may only ever want older logs

ASSUME PagerAssumption == ItemsPerPage \in Nat \ {0} /\ MaxLogs \in Nat

Unset == "undefined"

VARIABLES logs,   \* number of logs of the answer
          arrows, \* the arrows this user presses
          index,  \* data('index')
          older,  \* data('older-or-newer')
          page,   \* the logs the list shows
          before  \* history: the page before this one, if the same arrow led there

pagerVars == <<logs, arrows, index, older, page, before>>

Min2(a, b) == IF a <= b THEN a ELSE b
Max2(a, b) == IF a >= b THEN a ELSE b

\* Array.slice: an index below 0 counts from the end.
Slice(from, to) ==
    LET Place(i) == IF i < 0 THEN Max2(logs + i, 0) ELSE Min2(i, logs)
    IN  Place(from) .. Place(to) - 1

\* The remainder of JavaScript has the sign of its left operand.
Remainder(i, n) == IF n = 0 THEN 0 ELSE IF i < 0 THEN -((-i) % n) ELSE i % n

\* Faulty variant: the index stays at the last log.
IndexStays(i) == IF i >= logs THEN logs - 1 ELSE i

Index(i) == Remainder(i, logs)

\* Faulty variant: switching back and forth goes no step further.
NeverTurned(arrow) == FALSE

Turned(arrow) == older # arrow

Render(arrow) ==
    LET step == IF arrow = "newer" THEN -ItemsPerPage ELSE ItemsPerPage
        i == Index(index)
        from == IF Turned(arrow) THEN i + step ELSE i
        to == IF Turned(arrow) THEN from + step ELSE Max2(i + step, 0)
    IN  /\ index' = to
        /\ older' = arrow
        /\ page' = IF logs >= ItemsPerPage THEN Slice(Min2(from, to), Max2(from, to))
                   ELSE 0 .. logs - 1
        /\ before' = IF Turned(arrow) THEN {} ELSE page
        /\ UNCHANGED <<logs, arrows>>

Arrive == older = Unset /\ Render("older")

Press(arrow) == older # Unset /\ arrow \in arrows /\ Render(arrow)

PagerInit ==
    /\ logs \in 0 .. MaxLogs
    /\ arrows \in Arrows
    /\ index = 0
    /\ older = Unset
    /\ page = {}
    /\ before = {}

PagerNext == Arrive \/ \E arrow \in {"older", "newer"} : Press(arrow)

\* Who wants older logs presses the arrow again and again.
PagerFairness == WF_pagerVars(Press("older"))

-----------------------------------------------------------------------------
\* Who only goes on to older logs sees each of them again and again (logs.render, index).
EveryLogIsSeen == \A i \in 0 .. MaxLogs :
    []<>(arrows = {"older"} => older = Unset \/ i \in page \/ i >= logs)

\* After two steps to older logs, one to newer logs shows the page before again, when the
\* logs fill two pages and none of the last page's is of the first (logs.render, "paginate one
\* step further").
NewerGoesBack ==
    [][/\ older = "older" /\ older' = "newer" /\ before # {}
       /\ logs >= 2 * ItemsPerPage /\ page \cap 0 .. ItemsPerPage - 1 = {}
       => page' = before]_pagerVars

\* The first page has the first log: only switching back and forth goes one step further
\* (the comment in logs.render).
FirstPageIsFirst == [][older = Unset /\ logs > 0 => 0 \in page']_pagerVars
=============================================================================
