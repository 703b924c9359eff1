----------------------------- MODULE CheckTriggers -----------------------------
(***************************************************************************)
(* What a runner of CheckAndRunTriggers does at every tick: evaluate the   *)
(* check, store the result in ts_checks with the date it may be deleted,   *)
(* and for every trigger count the violations since the last good marker   *)
(* and send a message when the count is within the trigger's bounds.       *)
(* Around it, other runners of the same check, the cluster's retention,    *)
(* the pruner and the mute button.                                         *)
(*                                                                         *)
(* application/application_checker.go, application_pruner.go,              *)
(* models/pg/check.go, ts_check.go, ts_base.go, cluster.go,                *)
(* handlers/checks.go.  One cluster with one check; the outcome of its     *)
(* expressions is chosen freely (CheckExpressions says how it is made).    *)
(* A result that is TRUE is a violation.                                   *)
(***************************************************************************)
EXTENDS Integers, Sequences, FiniteSets, FiniteSetsExt

CONSTANTS
    Runners,           \* the goroutines that run the check, on any daemon
    Triggers,          \* the triggers of the row: [low, high, interval]
    Retentions,        \* the data retention the cluster may have
    MaxTime,           \* bound: the last moment
    PrunerRunning,     \* whether main starts PruneAll
    QueriesMayFail     \* whether a query or the evaluation may return an error

ASSUME TriggersAssumption ==
    /\ Triggers \in Seq([low : Nat, high : Nat, interval : Nat])
    /\ Retentions \subseteq Nat /\ Retentions # {}
    /\ MaxTime \in Nat
    /\ {PrunerRunning, QueriesMayFail} \subseteq BOOLEAN

Times == 0 .. MaxTime

VARIABLES
    now,         \* the clock
    retention,   \* the data retention for ts_checks in PostgreSQL's row of the cluster,
                 \* which no handler changes: PutClusterID writes Cassandra's
    silenced,    \* is_silenced of the checks row
    ts,          \* ts_checks: [created, deleted, result]
    log,         \* history: every result that was ever stored, [created, result]
    runner       \* the goroutines

vars == <<now, retention, silenced, ts, log, runner>>

\* The locals of a goroutine between two ticks, and after them the model's: when
\* this tick stored its result, when its first query for the trigger at hand was
\* made, and the triggers whose message went out or could not be sent.
Idle(muted) ==
    [pc |-> "idle", muted |-> muted, result |-> FALSE, from |-> 0, lastGood |-> 0, k |-> 1,
     begun |-> 0, asked |-> 0, sent |-> {}, failed |-> {}]

Init ==
    /\ now = 0
    /\ retention \in Retentions
    /\ silenced = FALSE
    /\ ts = {}
    /\ log = {}
    /\ runner = [r \in Runners |-> Idle(FALSE)]

-----------------------------------------------------------------------------
(* Around the runner.                                                       *)

TimePasses ==
    /\ now < MaxTime
    /\ now' = now + 1
    /\ UNCHANGED <<retention, silenced, ts, log, runner>>

\* The mute button writes the row; the runners keep the row they have.
PostCheckIDSilence ==
    /\ silenced' = ~silenced
    /\ UNCHANGED <<now, retention, ts, log, runner>>

\* PruneTSCheckOnce: DELETE ... WHERE deleted < now.
Prune ==
    /\ PrunerRunning
    /\ ts' = {row \in ts : row.deleted >= now}
    /\ UNCHANGED <<now, retention, silenced, log, runner>>

\* A refetch starts a goroutine with the row as it is then.
StartRunner(r) ==
    /\ runner[r].pc = "ended"
    /\ runner' = [runner EXCEPT ![r] = Idle(silenced)]
    /\ UNCHANGED <<now, retention, silenced, ts, log>>

-----------------------------------------------------------------------------
(* A tick.                                                                  *)

\* EvalExpressions.
Evaluate(r) ==
    /\ runner[r].pc = "idle"
    /\ \E result \in BOOLEAN :
          runner' = [runner EXCEPT ![r] =
                        [Idle(runner[r].muted) EXCEPT !.pc = "insert", !.result = result]]
    /\ UNCHANGED <<now, retention, silenced, ts, log>>

\* GetDeletedFromUNIXTimestampForInsert, and Create: the database dates the row.
\* No two rows are created at the same moment.
Store(r) ==
    /\ runner[r].pc = "insert"
    /\ now < MaxTime
    /\ now' = now + 1
    /\ LET row == [created |-> now + 1, deleted |-> now + retention, result |-> runner[r].result]
       IN  /\ ts' = ts \cup {row}
           /\ log' = log \cup {[created |-> row.created, result |-> row.result]}
    /\ runner' = [runner EXCEPT
                     ![r].pc = IF runner[r].muted \/ Triggers = <<>> THEN "idle" ELSE "triggers",
                     ![r].begun = now + 1]
    /\ UNCHANGED <<retention, silenced>>

\* RunTriggers: the cluster, and GetDeletedFromUNIXTimestampForSelect.
RunTriggers(r) ==
    /\ runner[r].pc = "triggers"
    /\ runner' = [runner EXCEPT ![r].pc = "lastGood", ![r].from = now - retention, ![r].k = 1]
    /\ UNCHANGED <<now, retention, silenced, ts, log>>

\* Faulty variant: the oldest good marker.
OldestGood ==
    LET good == {row.created : row \in {x \in ts : ~x.result}}
    IN  IF good = {} THEN 0 ELSE Min(good)

\* LastByClusterIDCheckIDAndResult(..., false): when the last good one was
\* created, 0 when there is none.
LastGood ==
    LET good == {row.created : row \in {x \in ts : ~x.result}}
    IN  IF good = {} THEN 0 ELSE Max(good)

ReadLastGood(r) ==
    /\ runner[r].pc = "lastGood"
    /\ runner' = [runner EXCEPT ![r].pc = "read", ![r].lastGood = LastGood, ![r].asked = now]
    /\ UNCHANGED <<now, retention, silenced, ts, log>>

\* The second query of AllViolationsByClusterIDCheckIDAndInterval.
Violations(r, k) ==
    {row \in ts : /\ row.result
                  /\ row.created > runner[r].lastGood
                  /\ row.created > now - Triggers[k].interval
                  /\ row.deleted >= runner[r].from}

InRange(k, n) == Triggers[k].low <= n /\ n <= Triggers[k].high

Due(k, n) == n # 0 /\ InRange(k, n)

\* In any case the next trigger has its turn, and after the last one the tick is over.
GoOn(r, sent, failed) ==
    /\ runner' = [runner EXCEPT ![r] =
                     IF runner[r].k < Len(Triggers)
                     THEN [runner[r] EXCEPT !.pc = "lastGood", !.k = runner[r].k + 1,
                                            !.lastGood = 0, !.asked = 0,
                                            !.sent = sent, !.failed = failed]
                     ELSE [Idle(runner[r].muted) EXCEPT !.sent = sent, !.failed = failed]]
    /\ UNCHANGED <<now, retention, silenced, ts, log>>

\* The count is within the bounds: the trigger acts, which takes its time.
Act(r) ==
    /\ runner[r].pc = "read"
    /\ Due(runner[r].k, Cardinality(Violations(r, runner[r].k)))
    /\ runner' = [runner EXCEPT ![r].pc = "acting"]
    /\ UNCHANGED <<now, retention, silenced, ts, log>>

NotDue(r) ==
    /\ runner[r].pc = "read"
    /\ ~Due(runner[r].k, Cardinality(Violations(r, runner[r].k)))
    /\ GoOn(r, runner[r].sent, runner[r].failed)

\* The e-mail, SMS or PagerDuty event is out (nothing is what the transport
\* "nothing" sends).
MessageSent(r) ==
    /\ runner[r].pc = "acting"
    /\ GoOn(r, runner[r].sent \cup {runner[r].k}, runner[r].failed)

\* Faulty variant: a message that cannot be sent ends the loop, as the error of a
\* query does.
FailureEndsTick(r) ==
    /\ runner[r].pc = "acting"
    /\ runner' = [runner EXCEPT ![r].pc = "idle", ![r].failed = @ \cup {runner[r].k}]
    /\ UNCHANGED <<now, retention, silenced, ts, log>>

\* No address, no gateway for the carrier, no answer: the error is logged.
MessageFails(r) ==
    /\ runner[r].pc = "acting"
    /\ GoOn(r, runner[r].sent, runner[r].failed \cup {runner[r].k})

\* Any error of the evaluation or of a query ends the goroutine.
TickFails(r) ==
    /\ QueriesMayFail
    /\ runner[r].pc \notin {"acting", "ended"}
    /\ runner' = [runner EXCEPT ![r] = [Idle(FALSE) EXCEPT !.pc = "ended"]]
    /\ UNCHANGED <<now, retention, silenced, ts, log>>

-----------------------------------------------------------------------------
TickStep(r) ==
    \/ Evaluate(r) \/ Store(r) \/ RunTriggers(r) \/ ReadLastGood(r) \/ Act(r) \/ NotDue(r)
    \/ MessageSent(r) \/ MessageFails(r) \/ TickFails(r) \/ StartRunner(r)

Next ==
    \/ TimePasses \/ PostCheckIDSilence \/ Prune
    \/ \E r \in Runners : TickStep(r)

Spec == Init /\ [][Next]_vars

-----------------------------------------------------------------------------
(* Properties.                                                              *)

\* What should be counted, by everything that was ever stored: the violations of the
\* trigger's window, when that ends at moment `at`, which no good result followed
\* up to the moment `good`.
Streak(k, at, good) ==
    {x.created : x \in {y \in log :
        /\ y.result
        /\ at - Triggers[k].interval < y.created /\ y.created <= at
        /\ \A g \in log : ~g.result /\ g.created <= good => g.created < y.created}}

\* Those that are not old enough to be pruned.
Kept(moments) == {c \in moments : c + retention > now}

\* Whatever the other runners of the check store between the two queries of a
\* trigger's turn, whatever is pruned and whichever ticks were cut short, the trigger
\* acts on a number of violations that is right for some moment of its turn: no
\* violation is counted that a good result followed when the turn began, and none
\* is missed that no good result followed until now, but for those old enough to
\* be pruned (ts_check.go:104-147, check.go:329-340).  Where no good result comes
\* between the queries and the window is kept, that is the exact number.
ActsOnExactCounts ==
    [][\A r \in Runners, k \in DOMAIN Triggers :
          runner[r].pc = "read" /\ runner[r].k = k /\ runner'[r].pc \in {"acting", "lastGood", "idle"} =>
              \E n \in Cardinality(Kept(Streak(k, now, now)))
                         .. Cardinality(Streak(k, now, runner[r].asked)) :
                  runner'[r].pc = "acting" <=> Due(k, n)]_vars

\* The trigger is due whenever its turn may come in the tick of r, or never.
DueIn(r, k, due) ==
    \A good, at \in runner[r].begun .. now :
        good <= at => (Due(k, Cardinality(Streak(k, at, good))) <=> due)

\* A tick that ends without an error acted for every trigger that was due since its
\* result was stored, and for none that was not: time that messages of other
\* triggers take, their failures and results stored by other runners cost no
\* trigger its turn and give none a second one (check.go:329-364).  For triggers
\* whose window is within the time results are kept.
TicksActForEveryTrigger ==
    [][\A r \in Runners :
          runner[r].pc \in {"read", "acting"} /\ runner'[r].pc = "idle" =>
              \A k \in DOMAIN Triggers : Triggers[k].interval <= retention =>
                  LET acted == k \in runner'[r].sent \cup runner'[r].failed
                  IN  (DueIn(r, k, TRUE) => acted) /\ (DueIn(r, k, FALSE) => ~acted)]_vars

\* templates/checks/list.html.tmpl:51, the button "Mute!": a muted check sends
\* nothing.
MutedIsQuiet ==
    [][\A r \in Runners : ~(runner'[r].sent \subseteq runner[r].sent) => ~silenced]_vars

=============================================================================
