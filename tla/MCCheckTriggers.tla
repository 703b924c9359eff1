---------------------------- MODULE MCCheckTriggers ----------------------------
(***************************************************************************)
(* Instances of CheckTriggers for TLC.                                     *)
(***************************************************************************)
EXTENDS CheckTriggers, TLC

\* Two triggers with bounds that exclude each other and different windows, one of
\* them longer than the smallest retention.
MCTriggers == <<[low |-> 0, high |-> 1, interval |-> 2], [low |-> 2, high |-> 3, interval |-> 3]>>

\* Runners of a check differ in nothing but what they do.
RunnersAreAlike == Permutations(Runners)

=============================================================================
