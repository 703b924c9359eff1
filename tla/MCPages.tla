-------------------------------- MODULE MCPages --------------------------------
(***************************************************************************)
(* What dashboard.js does on the pages: the dialog with a chart on a page  *)
(* of hosts, the list of a page of logs, and the colours of the events.    *)
(* They share nothing, so a behaviour is one of them.                      *)
(***************************************************************************)
EXTENDS GraphDialog, LogsPager, RandomColor

AllDraws == 0 .. Grain - 1

VARIABLE part

allVars == <<part, vars, pagerVars, color>>

PagesInit ==
    /\ part \in {"dialog", "logs", "color"}
    /\ Init
    /\ PagerInit /\ (part # "logs" => logs = 0 /\ arrows = {"older"})
    /\ ColorInit /\ (part # "color" => color.use = "line")

PagesNext ==
    /\ UNCHANGED part
    /\ \/ part = "dialog" /\ Next /\ UNCHANGED <<pagerVars, color>>
       \/ part = "logs" /\ PagerNext /\ UNCHANGED <<vars, color>>
       \/ part = "color" /\ ColorNext /\ UNCHANGED <<vars, pagerVars>>

PagesSpec ==
    /\ PagesInit /\ [][PagesNext]_allVars
    /\ Fairness /\ PagerFairness

=============================================================================
