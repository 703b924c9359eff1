--------------------------- MODULE CheckTriggersProofs ---------------------------
(***************************************************************************)
(* Proofs about CheckTriggers for any triggers, retentions, windows and    *)
(* number of runners and ticks: a trigger acts on a number of violations   *)
(* that is right for some moment of its turn, although it is counted by    *)
(* two queries between which others store results and rows are pruned, and *)
(* a tick acts for every trigger that was due throughout, whatever became  *)
(* of the messages of the others.                                          *)
(***************************************************************************)
EXTENDS CheckTriggers, FiniteSetTheorems, WellFoundedInduction, TLAPS

(***************************************************************************)
(* The invariant.                                                          *)
(***************************************************************************)
RunnerStates ==
    [pc : {"idle", "insert", "triggers", "lastGood", "read", "acting", "ended"},
     muted : BOOLEAN, result : BOOLEAN, from : Int, lastGood : Nat, k : Nat,
     begun : Nat, asked : Nat, sent : SUBSET Nat, failed : SUBSET Nat]

Stored(x) == [created |-> x.created, deleted |-> x.created - 1 + retention, result |-> x.result]
Logged(row) == [created |-> row.created, result |-> row.result]

Acted(r) == runner[r].sent \cup runner[r].failed

TypeInv ==
    /\ now \in Nat /\ retention \in Nat /\ silenced \in BOOLEAN
    /\ ts \subseteq [created : Nat, deleted : Int, result : BOOLEAN] /\ IsFiniteSet(ts)
    /\ log \subseteq [created : Nat, result : BOOLEAN]
    /\ runner \in [Runners -> RunnerStates]

\* The triggers are read one after another, and only those before it were acted for.
TurnOf(r) ==
    /\ runner[r].pc \in {"insert", "triggers"} => Acted(r) = {}
    /\ runner[r].pc = "triggers" => Triggers # <<>>
    /\ runner[r].pc \in {"lastGood", "read", "acting"} =>
           /\ runner[r].k \in DOMAIN Triggers
           /\ Acted(r) \subseteq 1 .. runner[r].k - 1

TurnInv == \A r \in Runners : TurnOf(r)

\* The table has what was stored, but for what is older than the retention; and what is
\* older than something that is missing is missing too.
HistoryInv ==
    /\ \A row \in ts : Logged(row) \in log /\ row = Stored(row)
    /\ \A x \in log : x.created \in 1 .. now
    /\ \A x \in log : x.created > now - retention => Stored(x) \in ts
    /\ \A row \in ts, x \in log : row.created <= x.created => Stored(x) \in ts

\* Between the two queries the runner keeps the time of the last good result there was
\* when it asked, but for good results that are no more in the table.
MarkerOf(r) ==
    /\ runner[r].pc \in {"lastGood", "read", "acting"} => runner[r].from <= now - retention
    /\ runner[r].pc \in {"triggers", "lastGood", "read", "acting"} => runner[r].begun <= now
    /\ runner[r].pc = "read" =>
           /\ runner[r].asked \in runner[r].begun .. now
           /\ \/ runner[r].lastGood = 0
              \/ \E good \in log : /\ ~good.result /\ good.created = runner[r].lastGood
                                    /\ good.created <= runner[r].asked
           /\ \A good \in log :
                  ~good.result /\ good.created <= runner[r].asked
                      => good.created <= runner[r].lastGood \/ Stored(good) \notin ts

MarkerInv == \A r \in Runners : MarkerOf(r)

\* The tick has answered a trigger when it acted if the trigger was due all the time, and
\* did not if it never was.
Answered(r, j) ==
    Triggers[j].interval <= retention =>
        /\ DueIn(r, j, TRUE) => j \in Acted(r)
        /\ DueIn(r, j, FALSE) => j \notin Acted(r)

\* It has answered those before the one at hand, and acts for none that was never due.
DoneOf(r) ==
    runner[r].pc \in {"lastGood", "read", "acting"} =>
        /\ \A j \in 1 .. runner[r].k - 1 : Answered(r, j)
        /\ \A k \in DOMAIN Triggers :
               k = runner[r].k /\ runner[r].pc = "acting" /\ Triggers[k].interval <= retention
                   => ~DueIn(r, k, FALSE)

DoneInv == \A r \in Runners : DoneOf(r)

TickInv == TypeInv /\ TurnInv
TriggersInv == TickInv /\ HistoryInv /\ MarkerInv /\ DoneInv

-----------------------------------------------------------------------------
(***************************************************************************)
(* Types and turns.                                                        *)
(***************************************************************************)
\* The triggers of the row are a sequence
LEMMA TriggersAreASeq == DOMAIN Triggers = 1 .. Len(Triggers) /\ Len(Triggers) \in Nat
  BY TriggersAssumption

\* of triggers.
LEMMA TriggersAreRecords ==
    \A k \in DOMAIN Triggers : Triggers[k] \in [low : Nat, high : Nat, interval : Nat]
<1>1. ASSUME NEW S, NEW q \in Seq(S), NEW k \in DOMAIN q PROVE q[k] \in S
  OBVIOUS
<1> QED
  BY <1>1, TriggersAssumption

\* Runners begin between two ticks.
LEMMA InitTickInv == Init => TickInv
<1> SUFFICES ASSUME Init PROVE TickInv
  OBVIOUS
<1>1. Idle(FALSE) \in RunnerStates /\ Idle(FALSE).pc = "idle"
  BY DEF Idle, RunnerStates
<1>2. runner = [r \in Runners |-> Idle(FALSE)]
  BY DEF Init
<1>3. runner \in [Runners -> RunnerStates] /\ TurnInv
  BY <1>1, <1>2 DEF TurnInv, TurnOf
<1>4. ts = {} /\ log = {} /\ now = 0 /\ retention \in Retentions /\ silenced = FALSE
  BY DEF Init
<1>5. retention \in Nat /\ now \in Nat
  BY <1>4, TriggersAssumption
<1> QED
  BY <1>3, <1>4, <1>5, FS_EmptySet DEF TickInv, TypeInv

\* Any state of one runner that keeps the turns, while the others stay as they are.
Fits(x) ==
    /\ x \in RunnerStates
    /\ x.pc \in {"insert", "triggers"} => x.sent \cup x.failed = {}
    /\ x.pc = "triggers" => Triggers # <<>>
    /\ x.pc \in {"lastGood", "read", "acting"} =>
           x.k \in DOMAIN Triggers /\ x.sent \cup x.failed \subseteq 1 .. x.k - 1

LEMMA OneRunnerChanges ==
    ASSUME TickInv, NEW r \in Runners, NEW x, Fits(x), runner' = [runner EXCEPT ![r] = x]
    PROVE  runner' \in [Runners -> RunnerStates] /\ TurnInv' /\ runner'[r] = x
<1>1. \A s \in Runners : runner'[s] = IF s = r THEN x ELSE runner[s]
  BY DEF TickInv, TypeInv
<1>2. runner' \in [Runners -> RunnerStates]
  BY <1>1 DEF TickInv, TypeInv, Fits
<1>3. \A s \in Runners : TurnOf(s)'
  <2> SUFFICES ASSUME NEW s \in Runners PROVE TurnOf(s)'
    OBVIOUS
  <2>1. CASE s = r
    BY <1>1, <2>1 DEF Fits, TurnOf, Acted
  <2>2. CASE s # r
    BY <1>1, <2>2 DEF TickInv, TurnInv, TurnOf, Acted
  <2> QED
    BY <2>1, <2>2
<1> QED
  BY <1>1, <1>2, <1>3 DEF TurnInv


\* A goroutine between two ticks.
LEMMA IdleIs ==
    ASSUME NEW muted \in BOOLEAN
    PROVE  /\ Idle(muted) \in RunnerStates /\ Idle(muted).pc = "idle"
           /\ Idle(muted).sent = {} /\ Idle(muted).failed = {}
<1>1. {} \in SUBSET Nat /\ 0 \in Nat /\ 0 \in Int /\ 1 \in Nat
  OBVIOUS
<1> QED
  BY <1>1 DEF Idle, RunnerStates

\* The next trigger has its turn, or the tick is over after the last one.
LEMMA GoOnGoesOn ==
    ASSUME TickInv, NEW r \in Runners, runner[r].pc \in {"read", "acting"},
           NEW sent \in SUBSET Nat, NEW failed \in SUBSET Nat,
           sent \cup failed \subseteq 1 .. runner[r].k, GoOn(r, sent, failed)
    PROVE  /\ runner' \in [Runners -> RunnerStates] /\ TurnInv'
           /\ runner'[r].sent = sent /\ runner'[r].failed = failed
           /\ \/ /\ runner'[r].pc = "lastGood" /\ runner'[r].k = runner[r].k + 1
                 /\ runner'[r].begun = runner[r].begun /\ runner'[r].from = runner[r].from
              \/ runner'[r].pc = "idle" /\ runner[r].k = Len(Triggers)
<1> DEFINE next == [runner[r] EXCEPT !.pc = "lastGood", !.k = runner[r].k + 1, !.lastGood = 0,
                                     !.asked = 0, !.sent = sent, !.failed = failed]
           over == [Idle(runner[r].muted) EXCEPT !.sent = sent, !.failed = failed]
<1>1. /\ runner[r] \in RunnerStates /\ runner[r].k \in 1 .. Len(Triggers)
      /\ Len(Triggers) \in Nat /\ runner[r].muted \in BOOLEAN
  BY TriggersAreASeq DEF TickInv, TypeInv, TurnInv, TurnOf, RunnerStates
<1>2. runner[r].k + 1 \in Nat
  BY <1>1
<1>3. runner' = [runner EXCEPT ![r] = IF runner[r].k < Len(Triggers) THEN next ELSE over]
  BY DEF GoOn
<1>4. /\ next \in RunnerStates /\ next.pc = "lastGood" /\ next.k = runner[r].k + 1
      /\ next.sent = sent /\ next.failed = failed
      /\ next.begun = runner[r].begun /\ next.from = runner[r].from
  BY <1>1, <1>2 DEF RunnerStates
<1>5. over \in RunnerStates /\ over.pc = "idle" /\ over.sent = sent /\ over.failed = failed
  <2>1. Idle(runner[r].muted) \in RunnerStates /\ Idle(runner[r].muted).pc = "idle"
    BY <1>1, IdleIs
  <2> QED
    BY <2>1 DEF RunnerStates
<1> HIDE DEF next, over
<1>6. CASE runner[r].k < Len(Triggers)
  <2>1. next.k \in DOMAIN Triggers /\ next.sent \cup next.failed \subseteq 1 .. next.k - 1
    BY <1>1, <1>4, <1>6, TriggersAreASeq
  <2>2. Fits(next)
    BY <1>4, <2>1 DEF Fits
  <2> QED
    BY <1>3, <1>4, <1>6, <2>2, OneRunnerChanges
<1>7. CASE ~(runner[r].k < Len(Triggers))
  <2>1. Fits(over)
    BY <1>5 DEF Fits
  <2>2. runner[r].k = Len(Triggers)
    BY <1>1, <1>7
  <2> QED
    BY <1>3, <1>5, <1>7, <2>1, <2>2, OneRunnerChanges
<1> QED
  BY <1>6, <1>7

\* The steps that end a turn.
EndsTurn(r) == NotDue(r) \/ MessageSent(r) \/ MessageFails(r)

\* The trigger at hand was acted for unless it was not due.
LEMMA TurnEnds ==
    ASSUME TickInv, NEW r \in Runners, EndsTurn(r)
    PROVE  /\ runner' \in [Runners -> RunnerStates] /\ TurnInv'
           /\ Acted(r)' = IF runner[r].pc = "acting" THEN Acted(r) \cup {runner[r].k} ELSE Acted(r)
           /\ \/ /\ runner'[r].pc = "lastGood" /\ runner'[r].k = runner[r].k + 1
                 /\ runner'[r].begun = runner[r].begun /\ runner'[r].from = runner[r].from
              \/ runner'[r].pc = "idle" /\ runner[r].k = Len(Triggers)
           /\ UNCHANGED <<now, retention, silenced, ts, log>>
<1>1. /\ runner[r] \in RunnerStates /\ runner[r].k \in 1 .. Len(Triggers)
      /\ Len(Triggers) \in Nat /\ Acted(r) \subseteq 1 .. runner[r].k - 1
  BY TriggersAreASeq DEF TickInv, TypeInv, TurnInv, TurnOf, EndsTurn, NotDue, MessageSent,
                         MessageFails
<1>2. runner[r].sent \in SUBSET Nat /\ runner[r].failed \in SUBSET Nat /\ runner[r].k \in Nat
  BY <1>1 DEF RunnerStates
<1>3. Acted(r) \cup {runner[r].k} \subseteq 1 .. runner[r].k /\ Acted(r) \subseteq 1 .. runner[r].k
  BY <1>1, <1>2
<1>4. UNCHANGED <<now, retention, silenced, ts, log>>
  BY DEF EndsTurn, NotDue, MessageSent, MessageFails, GoOn
<1>5. CASE NotDue(r)
  <2>1. runner[r].pc = "read" /\ GoOn(r, runner[r].sent, runner[r].failed)
    BY <1>5 DEF NotDue
  <2> QED
    BY <1>2, <1>3, <1>4, <2>1, GoOnGoesOn DEF Acted
<1>6. CASE MessageSent(r)
  <2> DEFINE more == runner[r].sent \cup {runner[r].k}
  <2>1. /\ runner[r].pc = "acting" /\ GoOn(r, more, runner[r].failed)
        /\ more \in SUBSET Nat /\ more \cup runner[r].failed = Acted(r) \cup {runner[r].k}
    BY <1>2, <1>6 DEF MessageSent, Acted
  <2> HIDE DEF more
  <2>2. /\ runner' \in [Runners -> RunnerStates] /\ TurnInv'
        /\ runner'[r].sent = more /\ runner'[r].failed = runner[r].failed
        /\ \/ /\ runner'[r].pc = "lastGood" /\ runner'[r].k = runner[r].k + 1
              /\ runner'[r].begun = runner[r].begun /\ runner'[r].from = runner[r].from
           \/ runner'[r].pc = "idle" /\ runner[r].k = Len(Triggers)
    BY <1>2, <1>3, <2>1, GoOnGoesOn
  <2>3. Acted(r)' = Acted(r) \cup {runner[r].k}
    BY <2>1, <2>2 DEF Acted
  <2> QED
    BY <1>4, <2>1, <2>2, <2>3
<1>7. CASE MessageFails(r)
  <2> DEFINE more == runner[r].failed \cup {runner[r].k}
  <2>1. /\ runner[r].pc = "acting" /\ GoOn(r, runner[r].sent, more)
        /\ more \in SUBSET Nat /\ runner[r].sent \cup more = Acted(r) \cup {runner[r].k}
    BY <1>2, <1>7 DEF MessageFails, Acted
  <2> HIDE DEF more
  <2>2. /\ runner' \in [Runners -> RunnerStates] /\ TurnInv'
        /\ runner'[r].sent = runner[r].sent /\ runner'[r].failed = more
        /\ \/ /\ runner'[r].pc = "lastGood" /\ runner'[r].k = runner[r].k + 1
              /\ runner'[r].begun = runner[r].begun /\ runner'[r].from = runner[r].from
           \/ runner'[r].pc = "idle" /\ runner[r].k = Len(Triggers)
    BY <1>2, <1>3, <2>1, GoOnGoesOn
  <2>3. Acted(r)' = Acted(r) \cup {runner[r].k}
    BY <2>1, <2>2 DEF Acted
  <2> QED
    BY <1>4, <2>1, <2>2, <2>3
<1> QED
  BY <1>5, <1>6, <1>7 DEF EndsTurn

\* The row that is stored is a row.
LEMMA StoreKeepsTypes ==
    ASSUME TickInv, NEW r \in Runners, Store(r)
    PROVE  TickInv' /\ runner'[r].pc \in {"idle", "triggers"} /\ runner'[r].begun = now'
<1> DEFINE row == [created |-> now + 1, deleted |-> now + retention, result |-> runner[r].result]
           x == [runner[r] EXCEPT !.pc = IF runner[r].muted \/ Triggers = <<>>
                                         THEN "idle" ELSE "triggers",
                                  !.begun = now + 1]
<1>1. runner[r] \in RunnerStates /\ Acted(r) = {} /\ now + 1 \in Nat
  BY DEF TickInv, TypeInv, TurnInv, TurnOf, Store
<1>2. /\ x \in RunnerStates /\ x.sent \cup x.failed = {} /\ x.pc \in {"idle", "triggers"}
      /\ x.pc = "triggers" => Triggers # <<>>
      /\ x.begun = now + 1
  BY <1>1 DEF RunnerStates, Acted
<1>3. runner' = [runner EXCEPT ![r] = x]
  BY DEF Store
<1> HIDE DEF x
<1>4. runner' \in [Runners -> RunnerStates] /\ TurnInv' /\ runner'[r] = x
  BY <1>2, <1>3, OneRunnerChanges DEF Fits
<1>5. ts' = ts \cup {row} /\ log' = log \cup {[created |-> now + 1, result |-> runner[r].result]}
  BY DEF Store
<1>6. row \in [created : Nat, deleted : Int, result : BOOLEAN]
  BY <1>1 DEF TickInv, TypeInv, RunnerStates
<1>7. [created |-> now + 1, result |-> runner[r].result] \in [created : Nat, result : BOOLEAN]
  BY <1>1 DEF TickInv, TypeInv, RunnerStates
<1> HIDE DEF row
<1>8. IsFiniteSet(ts')
  BY <1>5, FS_AddElement DEF TickInv, TypeInv
<1>9. now' = now + 1 /\ now' \in Nat /\ UNCHANGED <<retention, silenced>>
  BY DEF Store, TickInv, TypeInv
<1> QED
  BY <1>2, <1>4, <1>5, <1>6, <1>7, <1>8, <1>9 DEF TickInv, TypeInv

\* A tick begins.
LEMMA EvaluateKeeps ==
    ASSUME TickInv, NEW r \in Runners, Evaluate(r)
    PROVE  TickInv' /\ runner'[r].pc = "insert"
<1>1. PICK result \in BOOLEAN :
          runner' = [runner EXCEPT ![r] =
                        [Idle(runner[r].muted) EXCEPT !.pc = "insert", !.result = result]]
  BY DEF Evaluate
<1> DEFINE x == [Idle(runner[r].muted) EXCEPT !.pc = "insert", !.result = result]
<1>2. runner[r].muted \in BOOLEAN
  BY DEF TickInv, TypeInv, RunnerStates
<1>3. Fits(x) /\ x.pc = "insert"
  <2>1. /\ Idle(runner[r].muted) \in RunnerStates
        /\ Idle(runner[r].muted).sent = {} /\ Idle(runner[r].muted).failed = {}
    BY <1>2, IdleIs
  <2>2. x \in RunnerStates /\ x.pc = "insert" /\ x.sent = {} /\ x.failed = {}
    BY <2>1 DEF RunnerStates
  <2> QED
    BY <2>2 DEF Fits
<1> HIDE DEF x
<1>4. runner' = [runner EXCEPT ![r] = x]
  BY <1>1 DEF x
<1> QED
  BY <1>3, <1>4, OneRunnerChanges DEF TickInv, TypeInv, Evaluate

\* The triggers begin with the first one.
LEMMA RunTriggersKeeps ==
    ASSUME TickInv, NEW r \in Runners, RunTriggers(r)
    PROVE  /\ TickInv' /\ Acted(r) = {}
           /\ runner'[r].pc = "lastGood" /\ runner'[r].k = 1
           /\ runner'[r].from = now - retention /\ runner'[r].begun = runner[r].begun
<1> DEFINE x == [runner[r] EXCEPT !.pc = "lastGood", !.from = now - retention, !.k = 1]
<1>1. runner[r] \in RunnerStates /\ now \in Nat /\ retention \in Nat /\ TurnOf(r)
  BY DEF TickInv, TypeInv, TurnInv
<1>2. runner' = [runner EXCEPT ![r] = x] /\ runner[r].pc = "triggers"
  BY DEF RunTriggers
<1>3. now - retention \in Int /\ 1 \in Nat
  BY <1>1
<1>4. /\ x \in RunnerStates /\ x.pc = "lastGood" /\ x.k = 1 /\ x.sent = runner[r].sent
      /\ x.failed = runner[r].failed /\ x.from = now - retention /\ x.begun = runner[r].begun
  BY <1>1, <1>3 DEF RunnerStates
<1>5. Acted(r) = {} /\ Triggers # <<>>
  BY <1>1, <1>2 DEF TurnOf
<1>6. 1 \in DOMAIN Triggers
  BY <1>5, TriggersAssumption
<1> HIDE DEF x
<1>7. Fits(x)
  BY <1>4, <1>5, <1>6 DEF Fits, Acted
<1>8. runner' \in [Runners -> RunnerStates] /\ TurnInv' /\ runner'[r] = x
  BY <1>2, <1>7, OneRunnerChanges
<1>9. TickInv'
  BY <1>8 DEF TickInv, TypeInv, RunTriggers
<1> QED
  BY <1>4, <1>5, <1>8, <1>9

\* The first query of a turn.
LEMMA ReadLastGoodKeeps ==
    ASSUME TickInv, NEW r \in Runners, ReadLastGood(r), LastGood \in Nat
    PROVE  /\ TickInv' /\ Acted(r)' = Acted(r)
           /\ runner'[r].pc = "read" /\ runner'[r].k = runner[r].k
           /\ runner'[r].from = runner[r].from /\ runner'[r].begun = runner[r].begun
           /\ runner'[r].lastGood = LastGood /\ runner'[r].asked = now
<1> DEFINE x == [runner[r] EXCEPT !.pc = "read", !.lastGood = LastGood, !.asked = now]
<1>1. runner[r] \in RunnerStates /\ now \in Nat /\ TurnOf(r)
  BY DEF TickInv, TypeInv, TurnInv
<1>2. runner' = [runner EXCEPT ![r] = x] /\ runner[r].pc = "lastGood"
  BY DEF ReadLastGood
<1>3. /\ x \in RunnerStates /\ x.pc = "read" /\ x.k = runner[r].k /\ x.sent = runner[r].sent
      /\ x.failed = runner[r].failed /\ x.from = runner[r].from /\ x.begun = runner[r].begun
      /\ x.lastGood = LastGood /\ x.asked = now
  BY <1>1 DEF RunnerStates
<1>4. runner[r].k \in DOMAIN Triggers /\ Acted(r) \subseteq 1 .. runner[r].k - 1
  BY <1>1, <1>2 DEF TurnOf
<1> HIDE DEF x
<1>5. Fits(x)
  BY <1>3, <1>4 DEF Fits, Acted
<1>6. runner' \in [Runners -> RunnerStates] /\ TurnInv' /\ runner'[r] = x
  BY <1>2, <1>5, OneRunnerChanges
<1>7. TickInv'
  BY <1>6 DEF TickInv, TypeInv, ReadLastGood
<1> QED
  BY <1>3, <1>6, <1>7 DEF Acted

\* A trigger that acts keeps its turn.
LEMMA ActKeeps ==
    ASSUME TickInv, NEW r \in Runners, Act(r)
    PROVE  /\ TickInv' /\ Acted(r)' = Acted(r)
           /\ runner'[r].pc = "acting" /\ runner'[r].k = runner[r].k
           /\ runner'[r].from = runner[r].from /\ runner'[r].begun = runner[r].begun
<1> DEFINE x == [runner[r] EXCEPT !.pc = "acting"]
<1>1. runner[r] \in RunnerStates /\ TurnOf(r)
  BY DEF TickInv, TypeInv, TurnInv
<1>2. runner' = [runner EXCEPT ![r] = x] /\ runner[r].pc = "read"
  BY DEF Act
<1>3. /\ x \in RunnerStates /\ x.pc = "acting" /\ x.k = runner[r].k /\ x.sent = runner[r].sent
      /\ x.failed = runner[r].failed /\ x.from = runner[r].from /\ x.begun = runner[r].begun
  BY <1>1 DEF RunnerStates
<1>4. runner[r].k \in DOMAIN Triggers /\ Acted(r) \subseteq 1 .. runner[r].k - 1
  BY <1>1, <1>2 DEF TurnOf
<1> HIDE DEF x
<1>5. Fits(x)
  BY <1>3, <1>4 DEF Fits, Acted
<1>6. runner' \in [Runners -> RunnerStates] /\ TurnInv' /\ runner'[r] = x
  BY <1>2, <1>5, OneRunnerChanges
<1>7. TickInv'
  BY <1>6 DEF TickInv, TypeInv, Act
<1> QED
  BY <1>3, <1>6, <1>7 DEF Acted

\* The goroutine ends, and another one is started.
LEMMA EndAndStartKeep ==
    ASSUME TickInv, NEW r \in Runners, TickFails(r) \/ StartRunner(r)
    PROVE  /\ TickInv' /\ runner'[r].pc \in {"ended", "idle"}
           /\ TickFails(r) => runner'[r].pc = "ended"
<1>1. UNCHANGED <<now, retention, silenced, ts, log>> /\ silenced \in BOOLEAN
  BY DEF TickFails, StartRunner, TickInv, TypeInv
<1>2. PICK x : /\ Fits(x) /\ runner' = [runner EXCEPT ![r] = x] /\ x.pc \in {"ended", "idle"}
               /\ TickFails(r) => x.pc = "ended"
  <2>1. CASE TickFails(r)
    <3> DEFINE x == [Idle(FALSE) EXCEPT !.pc = "ended"]
    <3>1. Idle(FALSE) \in RunnerStates
      BY IdleIs
    <3>2. x \in RunnerStates /\ x.pc = "ended"
      BY <3>1 DEF RunnerStates
    <3>3. Fits(x)
      BY <3>2 DEF Fits
    <3> QED
      BY <2>1, <3>2, <3>3 DEF TickFails
  <2>2. CASE ~TickFails(r)
    <3>1. Idle(silenced) \in RunnerStates /\ Idle(silenced).pc = "idle"
      BY <1>1, IdleIs
    <3>2. Fits(Idle(silenced))
      BY <3>1 DEF Fits
    <3> QED
      BY <2>2, <3>1, <3>2 DEF StartRunner
  <2> QED
    BY <2>1, <2>2
<1>3. runner' \in [Runners -> RunnerStates] /\ TurnInv' /\ runner'[r] = x
  BY <1>2, OneRunnerChanges
<1> QED
  BY <1>1, <1>2, <1>3 DEF TickInv, TypeInv

-----------------------------------------------------------------------------
(***************************************************************************)
(* What is in the table.                                                   *)
(***************************************************************************)
\* A set of moments up to now has a latest one.
LEMMA LatestExists ==
    ASSUME NEW n \in Nat, NEW S \in SUBSET (1 .. n), S # {}
    PROVE  Max(S) \in S /\ \A y \in S : Max(S) >= y
<1> DEFINE T == {x .. n : x \in S}
<1>1. T \subseteq FiniteSubsetsOf(Nat) /\ T # {}
  <2> SUFFICES ASSUME NEW x \in S PROVE x .. n \in FiniteSubsetsOf(Nat)
    OBVIOUS
  <2> QED
    BY FS_Interval DEF FiniteSubsetsOf
<1>2. PICK U \in T : \A V \in T : ~(<<V, U>> \in StrictSubsetOrdering(Nat))
  BY <1>1, FS_StrictSubsetOrderingWellFounded, WFMin
<1>3. PICK x \in S : U = x .. n
  OBVIOUS
<1>4. \A y \in S : x >= y
  <2> SUFFICES ASSUME NEW y \in S, x < y PROVE FALSE
    OBVIOUS
  <2>1. y .. n \in T /\ y .. n \subseteq x .. n /\ y .. n # x .. n
    OBVIOUS
  <2>2. y .. n \in SUBSET Nat /\ x .. n \in SUBSET Nat
    OBVIOUS
  <2>3. <<y .. n, x .. n>> \in StrictSubsetOrdering(Nat)
    BY <2>1, <2>2 DEF StrictSubsetOrdering
  <2> QED
    BY <1>2, <1>3, <2>1, <2>3
<1> QED
  BY <1>4 DEF Max

\* What the first query finds: a good result or 0, and a good result that is later is no
\* more in the table.
LEMMA LastGoodIs ==
    ASSUME TypeInv, HistoryInv
    PROVE  /\ LastGood \in Nat
           /\ \/ LastGood = 0
              \/ \E good \in log : ~good.result /\ good.created = LastGood /\ good.created <= now
           /\ \A good \in log : ~good.result => good.created <= LastGood \/ Stored(good) \notin ts
<1> DEFINE good == {row.created : row \in {x \in ts : ~x.result}}
<1>1. \A row \in ts : row.created \in 1 .. now
  BY DEF TypeInv, HistoryInv, Logged
<1>2. good \in SUBSET (1 .. now) /\ now \in Nat
  BY <1>1 DEF TypeInv
<1>3. \A x \in log : ~x.result /\ Stored(x) \in ts => x.created \in good
  <2> SUFFICES ASSUME NEW x \in log, ~x.result, Stored(x) \in ts PROVE x.created \in good
    OBVIOUS
  <2>1. Stored(x).created = x.created /\ Stored(x).result = x.result
    BY DEF Stored
  <2> QED
    BY <2>1
<1>4. \A c \in good : \E x \in log : ~x.result /\ x.created = c
  <2> SUFFICES ASSUME NEW row \in ts, ~row.result
               PROVE  \E x \in log : ~x.result /\ x.created = row.created
    OBVIOUS
  <2>1. Logged(row) \in log /\ Logged(row).result = row.result /\ Logged(row).created = row.created
    BY DEF HistoryInv, Logged
  <2> QED
    BY <2>1
<1>5. LastGood = IF good = {} THEN 0 ELSE Max(good)
  BY DEF LastGood
<1> HIDE DEF good
<1>6. CASE good = {}
  BY <1>3, <1>5, <1>6
<1>7. CASE good # {}
  <2>1. Max(good) \in good /\ \A y \in good : Max(good) >= y
    BY <1>2, <1>7, LatestExists
  <2>2. LastGood = Max(good) /\ LastGood \in good
    BY <1>5, <1>7, <2>1
  <2>3. LastGood \in Nat /\ LastGood <= now /\ \A y \in good : y <= LastGood
    BY <1>2, <2>1, <2>2
  <2>4. \E x \in log : ~x.result /\ x.created = LastGood
    BY <1>4, <2>2
  <2> QED
    BY <1>3, <2>3, <2>4
<1> QED
  BY <1>6, <1>7

\* A new row is as old as nothing else and lasts for the retention.
LEMMA StoreKeepsHistory ==
    ASSUME TypeInv, HistoryInv, NEW r \in Runners, Store(r) PROVE HistoryInv'
<1> DEFINE row == [created |-> now + 1, deleted |-> now + retention, result |-> runner[r].result]
           entry == [created |-> now + 1, result |-> runner[r].result]
<1>1. /\ ts' = ts \cup {row} /\ log' = log \cup {entry}
      /\ now' = now + 1 /\ retention' = retention
  BY DEF Store
<1>2. now \in Nat /\ retention \in Nat /\ \A x \in ts : x.created \in Nat
  BY DEF TypeInv
<1>3. /\ Logged(row) = entry /\ row = Stored(row) /\ Stored(entry) = row
      /\ entry.created = now + 1 /\ row.created = now + 1
  BY <1>2 DEF Logged, Stored
<1> HIDE DEF row, entry
<1>4. /\ \A x \in ts : Logged(x) \in log /\ x = Stored(x)
      /\ \A x \in log : x.created \in 1 .. now
      /\ \A x \in log : x.created > now - retention => Stored(x) \in ts
      /\ \A y \in ts, x \in log : y.created <= x.created => Stored(x) \in ts
  BY DEF HistoryInv
<1>5. /\ \A x \in ts' : Logged(x) \in log' /\ x = Stored(x)
      /\ \A x \in log' : x.created \in 1 .. now'
  BY <1>1, <1>2, <1>3, <1>4
<1>6. \A x \in log' : x.created > now' - retention' => Stored(x) \in ts'
  BY <1>1, <1>2, <1>3, <1>4
<1>7. ASSUME NEW y \in ts', NEW x \in log', y.created <= x.created PROVE Stored(x) \in ts'
  <2>1. CASE x = entry
    BY <1>1, <1>3, <2>1
  <2>2. CASE x # entry
    <3>1. x \in log /\ x.created \in 1 .. now
      BY <1>1, <1>4, <2>2
    <3>2. y # row
      BY <1>2, <1>3, <1>7, <3>1
    <3>3. y \in ts
      BY <1>1, <3>2
    <3> QED
      BY <1>1, <1>4, <1>7, <3>1, <3>3
  <2> QED
    BY <2>1, <2>2
<1> QED
  BY <1>1, <1>5, <1>6, <1>7 DEF HistoryInv, Stored, Logged

\* The pruner deletes nothing that is younger than the retention, and the oldest first.
LEMMA PruneKeepsHistory == ASSUME TypeInv, HistoryInv, Prune PROVE HistoryInv'
<1>1. /\ ts' = {row \in ts : row.deleted >= now}
      /\ UNCHANGED <<now, retention, log>>
  BY DEF Prune
<1>2. now \in Nat /\ retention \in Nat
  BY DEF TypeInv
<1>3. \A x \in log : x.created \in Nat /\ Stored(x).deleted = x.created - 1 + retention
  BY DEF TypeInv, Stored
<1>4. \A x \in log : x.created > now - retention => Stored(x) \in ts'
  <2> SUFFICES ASSUME NEW x \in log, x.created > now - retention PROVE Stored(x) \in ts'
    OBVIOUS
  <2>1. Stored(x) \in ts
    BY DEF HistoryInv
  <2> QED
    BY <1>1, <1>2, <1>3, <2>1
<1>5. ASSUME NEW row \in ts', NEW x \in log, row.created <= x.created PROVE Stored(x) \in ts'
  <2>1. row \in ts /\ row.deleted >= now /\ row.created \in Nat
    BY <1>1 DEF TypeInv
  <2>2. Stored(x) \in ts /\ row = Stored(row)
    BY <1>5, <2>1 DEF HistoryInv
  <2>3. row.deleted = row.created - 1 + retention
    BY <2>2 DEF Stored
  <2> QED
    BY <1>1, <1>2, <1>3, <1>5, <2>1, <2>2, <2>3
<1> QED
  BY <1>1, <1>4, <1>5 DEF HistoryInv, Stored, Logged

\* So the table keeps what the history has of the retention.
LEMMA HistoryStep == ASSUME TypeInv, HistoryInv, Next PROVE HistoryInv'
<1>1. CASE TimePasses
  <2>1. now' = now + 1 /\ UNCHANGED <<retention, ts, log>> /\ now \in Nat /\ retention \in Nat
    BY <1>1 DEF TimePasses, TypeInv
  <2>2. \A x \in log : x.created \in Nat
    BY DEF TypeInv
  <2> QED
    BY <2>1, <2>2 DEF HistoryInv, Stored, Logged
<1>2. CASE Prune
  BY <1>2, PruneKeepsHistory
<1>3. ASSUME NEW r \in Runners, Store(r) PROVE HistoryInv'
  BY <1>3, StoreKeepsHistory
<1>4. CASE UNCHANGED <<now, retention, ts, log>>
  BY <1>4 DEF HistoryInv, Stored, Logged
<1>5. \/ TimePasses \/ Prune \/ UNCHANGED <<now, retention, ts, log>>
      \/ \E r \in Runners : Store(r)
  BY DEF Next, TickStep, PostCheckIDSilence, Evaluate, RunTriggers, ReadLastGood, Act, NotDue,
         MessageSent, MessageFails, GoOn, TickFails, StartRunner
<1> QED
  BY <1>1, <1>2, <1>3, <1>4, <1>5

\* Every step keeps the types and the turns.
LEMMA TickStepKeepsTypes == ASSUME TickInv, HistoryInv, Next PROVE TickInv'
<1>1. CASE TimePasses \/ PostCheckIDSilence \/ Prune
  <2>1. ts' \subseteq ts /\ now' \in Nat /\ silenced' \in BOOLEAN
    <3>1. now \in Nat /\ silenced \in BOOLEAN
      BY DEF TickInv, TypeInv
    <3>2. ts' \subseteq ts /\ now' \in {now, now + 1} /\ silenced' \in {silenced, ~silenced}
      BY <1>1 DEF TimePasses, PostCheckIDSilence, Prune
    <3>3. now' \in Nat
      BY <3>1, <3>2
    <3>4. silenced' \in BOOLEAN
      BY <3>1, <3>2, Zenon
    <3> QED
      BY <3>2, <3>3, <3>4
  <2>2. IsFiniteSet(ts')
    BY <2>1, FS_Subset DEF TickInv, TypeInv
  <2>3. UNCHANGED <<retention, log, runner>>
    BY <1>1 DEF TimePasses, PostCheckIDSilence, Prune
  <2> QED
    BY <2>1, <2>2, <2>3 DEF TickInv, TypeInv, TurnInv, TurnOf, Acted
<1>2. LastGood \in Nat
  BY LastGoodIs DEF TickInv
<1>3. ASSUME NEW r \in Runners, TickStep(r) PROVE TickInv'
  <2>1. CASE EndsTurn(r)
    BY <2>1, TurnEnds DEF TickInv, TypeInv
  <2>2. CASE Evaluate(r) \/ Store(r) \/ RunTriggers(r)
    BY <2>2, EvaluateKeeps, StoreKeepsTypes, RunTriggersKeeps
  <2>3. CASE ReadLastGood(r) \/ Act(r)
    BY <1>2, <2>3, ReadLastGoodKeeps, ActKeeps
  <2>4. CASE TickFails(r) \/ StartRunner(r)
    BY <2>4, EndAndStartKeep
  <2> QED
    BY <1>3, <2>1, <2>2, <2>3, <2>4 DEF TickStep, EndsTurn
<1> QED
  BY <1>1, <1>3 DEF Next

-----------------------------------------------------------------------------
(***************************************************************************)
(* Between the two queries.                                                *)
(***************************************************************************)
\* The clock and the history only grow, and what is pruned stays pruned.
LEMMA Growth ==
    ASSUME TypeInv, HistoryInv, Next
    PROVE  /\ now' >= now /\ retention' = retention /\ log \subseteq log'
           /\ \A x \in log' : x \in log \/ x.created = now + 1
           /\ \A x \in log : Stored(x) \notin ts => Stored(x) \notin ts'
<1>1. /\ now \in Nat /\ retention \in Nat
      /\ \A x \in log : x.created \in 1 .. now /\ Stored(x).created = x.created
  BY DEF TypeInv, HistoryInv, Stored
<1>2. CASE \E r \in Runners : Store(r)
  <2>1. PICK r \in Runners : Store(r)
    BY <1>2
  <2> DEFINE row == [created |-> now + 1, deleted |-> now + retention,
                     result |-> runner[r].result]
             entry == [created |-> now + 1, result |-> runner[r].result]
  <2>2. /\ ts' = ts \cup {row} /\ log' = log \cup {entry}
        /\ now' = now + 1 /\ retention' = retention
    BY <2>1 DEF Store
  <2>3. row.created = now + 1 /\ entry.created = now + 1
    OBVIOUS
  <2> HIDE DEF row, entry
  <2>4. \A x \in log : Stored(x) # row
    BY <1>1, <2>3
  <2> QED
    BY <1>1, <2>2, <2>3, <2>4
<1>3. CASE ~\E r \in Runners : Store(r)
  <2>1. now' \in {now, now + 1} /\ UNCHANGED <<retention, log>> /\ ts' \subseteq ts
    BY <1>3 DEF Next, TimePasses, PostCheckIDSilence, Prune, TickStep, Evaluate, RunTriggers,
                ReadLastGood, Act, NotDue, MessageSent, MessageFails, GoOn, TickFails, StartRunner
  <2> QED
    BY <1>1, <2>1
<1> QED
  BY <1>2, <1>3

\* Only one runner takes a step, and it is one of its tick.
LEMMA OwnStep ==
    ASSUME TypeInv, Next, NEW r \in Runners
    PROVE  runner'[r] = runner[r] \/ TickStep(r)
<1>1. runner \in [Runners -> RunnerStates]
  BY DEF TypeInv
<1>2. ASSUME NEW s \in Runners, s # r, TickStep(s) PROVE runner'[r] = runner[r]
  <2>1. \E x : runner' = [runner EXCEPT ![s] = x]
    BY <1>2 DEF TickStep, Evaluate, RunTriggers, ReadLastGood, Act, NotDue, MessageSent,
                MessageFails, GoOn, TickFails, StartRunner, Store
  <2> QED
    BY <1>1, <1>2, <2>1
<1> QED
  BY <1>2 DEF Next, TimePasses, PostCheckIDSilence, Prune

\* The time of the marker is kept or read again.
LEMMA MarkerStep == ASSUME TriggersInv, Next PROVE MarkerInv'
<1> SUFFICES ASSUME NEW r \in Runners PROVE MarkerOf(r)'
  BY DEF MarkerInv
<1>1. /\ now \in Nat /\ retention \in Nat /\ runner[r] \in RunnerStates
      /\ \A x \in log : x.created \in 1 .. now
      /\ TypeInv /\ HistoryInv /\ TickInv /\ MarkerOf(r)
  BY DEF TriggersInv, TickInv, TypeInv, HistoryInv, MarkerInv
<1>2. /\ now' >= now /\ retention' = retention /\ log \subseteq log' /\ now' \in Nat
      /\ \A x \in log' : x \in log \/ x.created = now + 1
      /\ \A x \in log : Stored(x) \notin ts => Stored(x) \notin ts'
  <2>1. now' \in Nat
    BY <1>1, TickStepKeepsTypes DEF TickInv, TypeInv
  <2> QED
    BY <1>1, <2>1, Growth
<1>3. /\ runner[r].from \in Int /\ runner[r].begun \in Nat /\ runner[r].asked \in Nat
      /\ runner[r].lastGood \in Nat
  BY <1>1 DEF RunnerStates
<1>4. now - retention <= now' - retention'
  <2>1. now \in Nat /\ now' \in Nat /\ retention \in Nat
    BY <1>1, <1>2
  <2>2. now' >= now /\ retention' = retention
    BY <1>2
  <2>3. \A a, b, c \in Nat : b >= a => a - c <= b - c
    OBVIOUS
  <2>4. now - retention <= now' - retention
    BY <2>1, <2>2, <2>3
  <2> QED
    BY <2>2, <2>4
<1>5. CASE runner'[r] = runner[r]
  <2>1. runner[r].pc \in {"lastGood", "read", "acting"} => runner'[r].from <= now' - retention'
    BY <1>1, <1>2, <1>3, <1>4, <1>5 DEF MarkerOf
  <2>2. runner[r].pc \in {"triggers", "lastGood", "read", "acting"} => runner'[r].begun <= now'
    BY <1>1, <1>2, <1>3, <1>5 DEF MarkerOf
  <2>3. ASSUME runner[r].pc = "read"
        PROVE  /\ runner'[r].asked \in runner'[r].begun .. now'
               /\ \/ runner'[r].lastGood = 0
                  \/ \E good \in log' : /\ ~good.result /\ good.created = runner'[r].lastGood
                                         /\ good.created <= runner'[r].asked
    <3>1. /\ runner[r].asked \in runner[r].begun .. now
          /\ \/ runner[r].lastGood = 0
             \/ \E good \in log : /\ ~good.result /\ good.created = runner[r].lastGood
                                   /\ good.created <= runner[r].asked
      BY <1>1, <2>3 DEF MarkerOf
    <3> QED
      BY <1>1, <1>2, <1>3, <1>5, <3>1
  <2>4. ASSUME runner[r].pc = "read", NEW good \in log', ~good.result,
               good.created <= runner'[r].asked
        PROVE  good.created <= runner'[r].lastGood \/ Stored(good)' \notin ts'
    <3>1. runner[r].asked \in runner[r].begun .. now
      BY <1>1, <2>4 DEF MarkerOf
    <3>2. good \in log
      BY <1>1, <1>2, <1>3, <1>5, <2>4, <3>1
    <3>3. good.created <= runner[r].lastGood \/ Stored(good) \notin ts
      BY <1>1, <1>5, <2>4, <3>2 DEF MarkerOf
    <3>4. Stored(good)' = Stored(good)
      BY <1>2 DEF Stored
    <3> QED
      BY <1>2, <1>5, <3>2, <3>3, <3>4
  <2> QED
    BY <1>5, <2>1, <2>2, <2>3, <2>4 DEF MarkerOf
<1>6. CASE Evaluate(r) \/ TickFails(r) \/ StartRunner(r)
  <2>1. runner'[r].pc \in {"insert", "ended", "idle"}
    BY <1>1, <1>6, EvaluateKeeps, EndAndStartKeep
  <2> QED
    BY <2>1 DEF MarkerOf
<1>7. CASE Store(r)
  <2>1. runner'[r].pc \in {"idle", "triggers"} /\ runner'[r].begun = now'
    BY <1>1, <1>7, StoreKeepsTypes
  <2> QED
    BY <1>2, <2>1 DEF MarkerOf
<1>8. CASE RunTriggers(r)
  <2>1. /\ runner'[r].pc = "lastGood" /\ runner'[r].from = now - retention
        /\ runner'[r].begun = runner[r].begun
    BY <1>1, <1>8, RunTriggersKeeps
  <2>2. runner[r].begun <= now
    BY <1>1, <1>8 DEF MarkerOf, RunTriggers
  <2>3. UNCHANGED <<now, retention>> /\ now - retention \in Int
    BY <1>1, <1>8 DEF RunTriggers
  <2>4. now - retention <= now - retention
    BY <2>3
  <2> QED
    BY <2>1, <2>2, <2>3, <2>4 DEF MarkerOf
<1>9. CASE ReadLastGood(r)
  <2>1. LastGood \in Nat
    BY <1>1, LastGoodIs
  <2>2. /\ runner'[r].pc = "read" /\ runner'[r].from = runner[r].from
        /\ runner'[r].begun = runner[r].begun
        /\ runner'[r].lastGood = LastGood /\ runner'[r].asked = now
    BY <1>1, <1>9, <2>1, ReadLastGoodKeeps
  <2>3. UNCHANGED <<now, retention, log, ts>> /\ runner[r].pc = "lastGood"
    BY <1>9 DEF ReadLastGood
  <2>4. runner[r].from <= now - retention /\ runner[r].begun <= now
    BY <1>1, <2>3 DEF MarkerOf
  <2>5. /\ \/ LastGood = 0
           \/ \E good \in log : ~good.result /\ good.created = LastGood /\ good.created <= now
        /\ \A good \in log : ~good.result => good.created <= LastGood \/ Stored(good) \notin ts
    BY <1>1, LastGoodIs
  <2>6. now \in runner[r].begun .. now
    BY <1>1, <1>3, <2>4
  <2>7. \A good \in log : Stored(good)' = Stored(good)
    BY <2>3 DEF Stored
  <2>8. /\ runner'[r].from <= now' - retention' /\ runner'[r].begun <= now'
        /\ runner'[r].asked \in runner'[r].begun .. now'
    BY <2>2, <2>3, <2>4, <2>6
  <2>9. \/ runner'[r].lastGood = 0
        \/ \E good \in log' : /\ ~good.result /\ good.created = runner'[r].lastGood
                               /\ good.created <= runner'[r].asked
    BY <2>2, <2>3, <2>5
  <2>10. \A good \in log' :
             ~good.result => good.created <= runner'[r].lastGood \/ Stored(good)' \notin ts'
    BY <2>2, <2>3, <2>5, <2>7
  <2> QED
    BY <2>2, <2>8, <2>9, <2>10 DEF MarkerOf
<1>10. CASE Act(r)
  <2>1. /\ runner'[r].pc = "acting" /\ runner'[r].from = runner[r].from
        /\ runner'[r].begun = runner[r].begun /\ runner[r].pc = "read"
    BY <1>1, <1>10, ActKeeps DEF Act
  <2>2. UNCHANGED <<now, retention>>
    BY <1>10 DEF Act
  <2> QED
    BY <1>1, <2>1, <2>2 DEF MarkerOf
<1>11. CASE EndsTurn(r)
  <2>1. /\ UNCHANGED <<now, retention>>
        /\ \/ /\ runner'[r].pc = "lastGood" /\ runner'[r].from = runner[r].from
              /\ runner'[r].begun = runner[r].begun
           \/ runner'[r].pc = "idle"
    BY <1>1, <1>11, TurnEnds
  <2>2. runner[r].pc \in {"read", "acting"}
    BY <1>11 DEF EndsTurn, NotDue, MessageSent, MessageFails
  <2> QED
    BY <1>1, <2>1, <2>2 DEF MarkerOf
<1> QED
  BY <1>1, <1>5, <1>6, <1>7, <1>8, <1>9, <1>10, <1>11, OwnStep DEF TickStep, EndsTurn

-----------------------------------------------------------------------------
(***************************************************************************)
(* What is counted.                                                        *)
(***************************************************************************)
\* A count is an exact one when the runner asked, but for what is old enough to be pruned.
LEMMA CountIsBetween ==
    ASSUME TriggersInv, NEW r \in Runners, runner[r].pc = "read"
    PROVE  LET k == runner[r].k
               n == Cardinality(Violations(r, k))
           IN  /\ n \in Cardinality(Kept(Streak(k, now, now)))
                            .. Cardinality(Streak(k, now, runner[r].asked))
               /\ Triggers[k].interval <= retention
                      => n = Cardinality(Streak(k, now, runner[r].asked))
<1> DEFINE k == runner[r].k
           V == Violations(r, k)
           C == {row.created : row \in V}
           R == Streak(k, now, runner[r].asked)
           K == Kept(Streak(k, now, now))
           f == [row \in V |-> row.created]
<1>1. /\ now \in Nat /\ retention \in Nat /\ TypeInv /\ HistoryInv /\ MarkerOf(r)
      /\ k \in DOMAIN Triggers
      /\ \A x \in log : x.created \in 1 .. now
  BY DEF TriggersInv, TickInv, TypeInv, TurnInv, TurnOf, MarkerInv, HistoryInv
<1>2. Triggers[k].interval \in Nat
  <2>1. Triggers[k] \in [low : Nat, high : Nat, interval : Nat]
    BY <1>1, TriggersAreRecords
  <2> HIDE DEF k
  <2> QED
    BY <2>1
<1>3. /\ runner[r].from \in Int /\ runner[r].lastGood \in Nat /\ runner[r].asked \in Nat
      /\ runner[r].begun \in Nat
  BY <1>1 DEF TypeInv, RunnerStates
<1>4. /\ runner[r].from <= now - retention /\ runner[r].asked <= now
      /\ \/ runner[r].lastGood = 0
         \/ \E good \in log : /\ ~good.result /\ good.created = runner[r].lastGood
                               /\ good.created <= runner[r].asked
      /\ \A good \in log : ~good.result /\ good.created <= runner[r].asked
                               => good.created <= runner[r].lastGood \/ Stored(good) \notin ts
  BY <1>1, <1>3 DEF MarkerOf
\* Each row that is counted stands for a violation that no good result followed.
<1>5. \A row \in V : row.created \in R
  <2> SUFFICES ASSUME NEW row \in V PROVE row.created \in R
    OBVIOUS
  <2>1. /\ row \in ts /\ row.result /\ row.created > runner[r].lastGood
        /\ row.created > now - Triggers[k].interval
    BY DEF Violations
  <2>2. Logged(row) \in log /\ Logged(row).created = row.created /\ Logged(row).result
    BY <1>1, <2>1 DEF HistoryInv, Logged
  <2>3. row.created \in Nat /\ row.created <= now
    BY <1>1, <2>1, <2>2 DEF TypeInv
  <2>4. ASSUME NEW good \in log, ~good.result, good.created <= runner[r].asked
        PROVE  good.created < row.created
    <3>1. good.created \in Nat
      BY <1>1 DEF TypeInv
    <3>2. good.created <= runner[r].lastGood \/ ~(row.created <= good.created)
      BY <1>1, <1>4, <2>1, <2>4 DEF HistoryInv
    <3> QED
      BY <1>3, <2>1, <2>3, <3>1, <3>2
  <2>5. now - Triggers[k].interval < Logged(row).created /\ Logged(row).created <= now
    BY <1>1, <1>2, <2>1, <2>2, <2>3
  <2> QED
    BY <2>2, <2>4, <2>5 DEF Streak
\* Each such violation that is not too old is still in the table, and within the bounds of
\* the second query.
<1>6. ASSUME NEW y \in log, y.result, now - Triggers[k].interval < y.created,
             \A good \in log : ~good.result /\ good.created <= runner[r].asked
                                    => good.created < y.created,
             y.created + retention > now
      PROVE  y.created \in C
  <2>1. y.created \in Nat /\ y.created \in 1 .. now
    BY <1>1 DEF TypeInv
  <2>2. y.created > now - retention
    BY <1>1, <1>6, <2>1
  <2>3. /\ Stored(y) \in ts /\ Stored(y).created = y.created /\ Stored(y).result = y.result
        /\ Stored(y).deleted = y.created - 1 + retention
    BY <1>1, <2>2 DEF HistoryInv, Stored
  <2>4. Stored(y).deleted >= runner[r].from
    BY <1>1, <1>3, <1>4, <2>1, <2>2, <2>3
  <2>5. y.created > runner[r].lastGood
    <3>1. CASE runner[r].lastGood = 0
      BY <2>1, <3>1
    <3>2. CASE runner[r].lastGood # 0
      <4>1. PICK good \in log : /\ ~good.result /\ good.created = runner[r].lastGood
                                /\ good.created <= runner[r].asked
        BY <1>4, <3>2
      <4>2. good.created < y.created
        BY <1>6, <4>1
      <4> QED
        BY <1>3, <2>1, <4>1, <4>2
    <3> QED
      BY <3>1, <3>2
  <2>6. y.created > now - Triggers[k].interval
    BY <1>1, <1>2, <1>6, <2>1
  <2>7. Stored(y) \in V
    BY <1>6, <2>3, <2>4, <2>5, <2>6 DEF Violations
  <2> QED
    BY <2>3, <2>7
<1>7. \A c \in K : c \in C
  <2> SUFFICES ASSUME NEW c \in K PROVE c \in C
    OBVIOUS
  <2>1. PICK y \in log : /\ y.created = c /\ y.result /\ now - Triggers[k].interval < y.created
                         /\ \A good \in log : ~good.result /\ good.created <= now
                                                  => good.created < y.created
                         /\ y.created + retention > now
    BY DEF Kept, Streak
  <2>2. \A good \in log : good.created <= now
    BY <1>1
  <2>3. \A good \in log : ~good.result /\ good.created <= runner[r].asked
                               => good.created < y.created
    BY <2>1, <2>2
  <2> QED
    BY <1>6, <2>1, <2>3
<1>8. ASSUME Triggers[k].interval <= retention PROVE \A c \in R : c \in C
  <2> SUFFICES ASSUME NEW c \in R PROVE c \in C
    OBVIOUS
  <2>1. PICK y \in log : /\ y.created = c /\ y.result /\ now - Triggers[k].interval < y.created
                         /\ \A good \in log : ~good.result /\ good.created <= runner[r].asked
                                                  => good.created < y.created
    BY DEF Streak
  <2>2. y.created \in Nat
    BY <1>1
  <2>3. y.created + retention > now
    BY <1>1, <1>2, <1>8, <2>1, <2>2
  <2> QED
    BY <1>6, <2>1, <2>3
\* Two rows that are counted were not made at the same moment.
<1>9. \A row, other \in V : row.created = other.created => row = other
  <2> SUFFICES ASSUME NEW row \in V, NEW other \in V, row.created = other.created
               PROVE  row = other
    OBVIOUS
  <2>1. row \in ts /\ row.result = TRUE /\ other \in ts /\ other.result = TRUE
    BY <1>1 DEF Violations, TypeInv
  <2>2. row = Stored(row) /\ other = Stored(other)
    BY <1>1, <2>1 DEF HistoryInv
  <2>3. Stored(row) = Stored(other)
    BY <2>1 DEF Stored
  <2> QED
    BY <2>2, <2>3
<1>10. IsFiniteSet(V) /\ IsFiniteSet(R)
  <2>1. V \in SUBSET ts /\ IsFiniteSet(ts)
    BY <1>1 DEF Violations, TypeInv
  <2>2. R \in SUBSET (1 .. now) /\ IsFiniteSet(1 .. now)
    BY <1>1, FS_Interval DEF Streak
  <2> QED
    BY <2>1, <2>2, FS_Subset
<1> HIDE DEF V, R, K
<1>11. f \in Bijection(V, C)
  BY <1>9 DEF Bijection, Injection, Surjection, IsInjective
<1>12. ExistsBijection(V, C)
  BY <1>11 DEF ExistsBijection
<1>13. Cardinality(C) = Cardinality(V) /\ IsFiniteSet(C)
  BY <1>10, <1>12, FS_Bijection
<1>14. C \in SUBSET R /\ K \in SUBSET C
  BY <1>5, <1>7
<1> HIDE DEF C
<1>15. /\ Cardinality(C) <= Cardinality(R) /\ Cardinality(K) <= Cardinality(C)
       /\ Cardinality(C) \in Nat /\ Cardinality(R) \in Nat /\ Cardinality(K) \in Nat
  <2>1. Cardinality(C) <= Cardinality(R)
    BY <1>10, <1>14, FS_Subset
  <2>2. IsFiniteSet(K) /\ Cardinality(K) <= Cardinality(C)
    BY <1>13, <1>14, FS_Subset
  <2> QED
    BY <1>10, <1>13, <2>1, <2>2, FS_CardinalityType
<1>16. Triggers[k].interval <= retention => C = R
  BY <1>8, <1>14
<1>17. /\ Cardinality(V) \in Cardinality(K) .. Cardinality(R)
       /\ Triggers[k].interval <= retention => Cardinality(V) = Cardinality(R)
  BY <1>13, <1>15, <1>16
<1> QED
  BY <1>17 DEF V, R, K

\* What was right for a moment stays right for it.
LEMMA StreakStays ==
    ASSUME TypeInv, HistoryInv, Next, NEW k \in DOMAIN Triggers,
           NEW at \in Nat, at <= now, NEW good \in Nat, good <= now
    PROVE  Streak(k, at, good)' = Streak(k, at, good)
<1>1. /\ now \in Nat /\ log \subseteq log'
      /\ \A x \in log : x.created \in Nat
      /\ \A x \in log' : x \in log \/ x.created = now + 1
  BY Growth DEF TypeInv
<1>2. \A x \in log' : x.created <= at \/ x.created <= good => x \in log
  BY <1>1
<1>3. Streak(k, at, good)' \subseteq Streak(k, at, good)
  BY <1>1, <1>2 DEF Streak
<1>4. Streak(k, at, good) \subseteq Streak(k, at, good)'
  BY <1>1, <1>2 DEF Streak
<1> QED
  BY <1>3, <1>4

\* So a trigger that was due all the time was due until now.
LEMMA DueUntilNow ==
    ASSUME TypeInv, HistoryInv, Next, NEW r \in Runners, runner'[r].begun = runner[r].begun,
           runner[r].begun \in Nat, NEW k \in DOMAIN Triggers, NEW due \in BOOLEAN,
           DueIn(r, k, due)'
    PROVE  DueIn(r, k, due)
<1> SUFFICES ASSUME NEW good \in runner[r].begun .. now, NEW at \in runner[r].begun .. now,
                    good <= at
             PROVE  Due(k, Cardinality(Streak(k, at, good))) <=> due
  BY DEF DueIn
<1>1. now \in Nat /\ now' \in {now, now + 1}
  <2>1. now' \in {now, now + 1}
    BY DEF Next, TimePasses, PostCheckIDSilence, Prune, TickStep, Evaluate, Store, RunTriggers,
           ReadLastGood, Act, NotDue, MessageSent, MessageFails, GoOn, TickFails, StartRunner
  <2> QED
    BY <2>1 DEF TypeInv
<1>2. good \in Nat /\ at \in Nat /\ good <= now /\ at <= now
  BY <1>1
<1>3. good \in runner'[r].begun .. now' /\ at \in runner'[r].begun .. now'
  BY <1>1, <1>2
<1>4. Due(k, Cardinality(Streak(k, at, good)'))  <=> due
  BY <1>3 DEF DueIn, Due, InRange
<1> QED
  BY <1>2, <1>4, StreakStays

-----------------------------------------------------------------------------
(***************************************************************************)
(* What is acted for.                                                      *)
(***************************************************************************)
\* The trigger at hand is judged by a number that was right when the runner asked.
LEMMA JudgedWhenAsked ==
    ASSUME TriggersInv, NEW r \in Runners, runner[r].pc = "read", NEW due \in BOOLEAN,
           Triggers[runner[r].k].interval <= retention, DueIn(r, runner[r].k, due)
    PROVE  Due(runner[r].k, Cardinality(Violations(r, runner[r].k))) <=> due
<1> DEFINE k == runner[r].k
<1>1. now \in runner[r].begun .. now /\ runner[r].asked \in runner[r].begun .. now
  <2>1. /\ now \in Nat /\ runner[r].begun \in Nat /\ runner[r].asked \in Nat
        /\ runner[r].asked \in runner[r].begun .. now
    BY DEF TriggersInv, TickInv, TypeInv, RunnerStates, MarkerInv, MarkerOf
  <2> QED
    BY <2>1
<1>2. now \in Nat /\ runner[r].asked <= now
  BY <1>1 DEF TriggersInv, TickInv, TypeInv
<1>3. Due(k, Cardinality(Streak(k, now, runner[r].asked))) <=> due
  BY <1>1, <1>2 DEF DueIn
<1>4. Cardinality(Violations(r, k)) = Cardinality(Streak(k, now, runner[r].asked))
  BY CountIsBetween
<1> QED
  BY <1>3, <1>4

\* When its turn ends, it is answered, and so are those before it.
LEMMA TurnIsAnswered ==
    ASSUME TriggersInv, NEW r \in Runners, EndsTurn(r), NEW j \in 1 .. runner[r].k,
           Triggers[j].interval <= retention
    PROVE  /\ DueIn(r, j, TRUE) => j \in Acted(r)'
           /\ DueIn(r, j, FALSE) => j \notin Acted(r)'
<1>1. /\ runner[r].pc \in {"read", "acting"} /\ TurnOf(r) /\ DoneOf(r)
      /\ runner[r].k \in Nat /\ TickInv
      /\ runner[r].pc = "read" => NotDue(r)
  BY DEF TriggersInv, TickInv, TypeInv, TurnInv, DoneInv, RunnerStates, EndsTurn, NotDue,
         MessageSent, MessageFails
<1>2. /\ Acted(r) \subseteq 1 .. runner[r].k - 1
      /\ \A i \in 1 .. runner[r].k - 1 : Answered(r, i)
      /\ runner[r].pc = "acting" /\ Triggers[runner[r].k].interval <= retention
             => ~DueIn(r, runner[r].k, FALSE)
  BY <1>1 DEF TurnOf, DoneOf
<1>3. Acted(r)' = IF runner[r].pc = "acting" THEN Acted(r) \cup {runner[r].k} ELSE Acted(r)
  BY <1>1, TurnEnds
<1>4. runner[r].k \notin Acted(r)
  BY <1>1, <1>2
<1>5. CASE j # runner[r].k
  <2>1. j \in 1 .. runner[r].k - 1
    BY <1>1, <1>5
  <2>2. j \in Acted(r)' <=> j \in Acted(r)
    BY <1>3, <1>5
  <2> QED
    BY <1>2, <2>1, <2>2 DEF Answered
<1>6. CASE j = runner[r].k /\ runner[r].pc = "acting"
  BY <1>2, <1>3, <1>6
<1>7. CASE j = runner[r].k /\ runner[r].pc = "read"
  <2>1. ~DueIn(r, j, TRUE)
    BY <1>1, <1>7, JudgedWhenAsked DEF NotDue
  <2> QED
    BY <1>3, <1>4, <1>7, <2>1
<1> QED
  BY <1>1, <1>5, <1>6, <1>7

\* A runner that is not disturbed stands by what it answered.
LEMMA AnswersStay ==
    ASSUME TriggersInv, Next, NEW r \in Runners, runner'[r].begun = runner[r].begun,
           NEW j \in DOMAIN Triggers,
           Triggers[j].interval <= retention =>
               /\ DueIn(r, j, TRUE) => j \in Acted(r)'
               /\ DueIn(r, j, FALSE) => j \notin Acted(r)'
    PROVE  Answered(r, j)'
<1>1. TypeInv /\ HistoryInv /\ runner[r].begun \in Nat
  BY DEF TriggersInv, TickInv, TypeInv, RunnerStates
<1>2. retention' = retention
  BY <1>1, Growth
<1>3. /\ DueIn(r, j, TRUE)' => DueIn(r, j, TRUE)
      /\ DueIn(r, j, FALSE)' => DueIn(r, j, FALSE)
  BY <1>1, DueUntilNow
<1> QED
  BY <1>2, <1>3 DEF Answered

\* So every step keeps the answers.
LEMMA DoneStep == ASSUME TriggersInv, Next PROVE DoneInv'
<1> SUFFICES ASSUME NEW r \in Runners PROVE DoneOf(r)'
  BY DEF DoneInv
<1> SUFFICES ASSUME runner'[r].pc \in {"lastGood", "read", "acting"}
             PROVE  /\ \A j \in 1 .. runner'[r].k - 1 : Answered(r, j)'
                    /\ \A k \in DOMAIN Triggers :
                           k = runner'[r].k /\ runner'[r].pc = "acting"
                               /\ Triggers[k].interval <= retention'
                               => ~DueIn(r, k, FALSE)'
  BY DEF DoneOf
<1>1. /\ TypeInv /\ HistoryInv /\ TickInv /\ DoneOf(r) /\ TurnOf(r)
      /\ runner[r].begun \in Nat /\ runner[r].k \in Nat /\ TickInv'
  BY TickStepKeepsTypes
     DEF TriggersInv, TickInv, TypeInv, TurnInv, DoneInv, RunnerStates
<1>2. retention' = retention /\ \A j \in 1 .. runner'[r].k - 1 : j \in DOMAIN Triggers
  <2>1. runner'[r].k \in DOMAIN Triggers
    BY <1>1 DEF TickInv, TurnInv, TurnOf
  <2> QED
    BY <1>1, <2>1, Growth, TriggersAreASeq
<1>3. ASSUME runner[r].pc \in {"lastGood", "read", "acting"}, runner'[r].begun = runner[r].begun,
             runner'[r].k = runner[r].k, Acted(r)' = Acted(r)
      PROVE  \A j \in 1 .. runner'[r].k - 1 : Answered(r, j)'
  <2> SUFFICES ASSUME NEW j \in 1 .. runner[r].k - 1 PROVE Answered(r, j)'
    BY <1>3
  <2>1. Answered(r, j) /\ j \in DOMAIN Triggers
    BY <1>1, <1>2, <1>3 DEF DoneOf
  <2>2. Triggers[j].interval <= retention =>
            /\ DueIn(r, j, TRUE) => j \in Acted(r)'
            /\ DueIn(r, j, FALSE) => j \notin Acted(r)'
    BY <1>3, <2>1 DEF Answered
  <2> QED
    BY <1>3, <2>1, <2>2, AnswersStay
<1>4. ASSUME runner'[r].begun = runner[r].begun, NEW k \in DOMAIN Triggers,
             ~DueIn(r, k, FALSE)
      PROVE  ~DueIn(r, k, FALSE)'
  BY <1>1, <1>4, DueUntilNow
<1>5. CASE runner'[r] = runner[r]
  <2>1. \A j \in 1 .. runner'[r].k - 1 : Answered(r, j)'
    BY <1>3, <1>5 DEF Acted
  <2>2. \A k \in DOMAIN Triggers :
            k = runner[r].k /\ runner[r].pc = "acting" /\ Triggers[k].interval <= retention
                => ~DueIn(r, k, FALSE)
    BY <1>1 DEF DoneOf
  <2> QED
    BY <1>2, <1>4, <1>5, <2>1, <2>2
<1>6. CASE RunTriggers(r)
  <2>1. runner'[r].pc = "lastGood" /\ runner'[r].k = 1
    BY <1>1, <1>6, RunTriggersKeeps
  <2> QED
    BY <2>1
<1>7. CASE ReadLastGood(r)
  <2>1. LastGood \in Nat
    BY <1>1, LastGoodIs
  <2>2. /\ runner'[r].pc = "read" /\ runner'[r].k = runner[r].k /\ Acted(r)' = Acted(r)
        /\ runner'[r].begun = runner[r].begun /\ runner[r].pc = "lastGood"
    BY <1>1, <1>7, <2>1, ReadLastGoodKeeps DEF ReadLastGood
  <2> QED
    BY <1>3, <2>2
<1>8. CASE Act(r)
  <2>1. /\ runner'[r].pc = "acting" /\ runner'[r].k = runner[r].k /\ Acted(r)' = Acted(r)
        /\ runner'[r].begun = runner[r].begun /\ runner[r].pc = "read"
        /\ Due(runner[r].k, Cardinality(Violations(r, runner[r].k)))
    BY <1>1, <1>8, ActKeeps DEF Act
  <2>2. Triggers[runner[r].k].interval <= retention => ~DueIn(r, runner[r].k, FALSE)
    BY <2>1, JudgedWhenAsked
  <2>3. \A j \in 1 .. runner'[r].k - 1 : Answered(r, j)'
    BY <1>3, <2>1
  <2> QED
    BY <1>2, <1>4, <2>1, <2>2, <2>3
<1>9. CASE EndsTurn(r)
  <2>1. /\ runner'[r].pc = "lastGood" /\ runner'[r].k = runner[r].k + 1
        /\ runner'[r].begun = runner[r].begun
    BY <1>1, <1>9, TurnEnds
  <2>2. ASSUME NEW j \in 1 .. runner[r].k PROVE Answered(r, j)'
    <3>1. j \in DOMAIN Triggers
      BY <1>1, <1>2, <2>1
    <3>2. Triggers[j].interval <= retention =>
              /\ DueIn(r, j, TRUE) => j \in Acted(r)'
              /\ DueIn(r, j, FALSE) => j \notin Acted(r)'
      BY <1>9, TurnIsAnswered
    <3> QED
      BY <2>1, <3>1, <3>2, AnswersStay
  <2> QED
    BY <1>1, <2>1, <2>2
<1>10. ~(Evaluate(r) \/ Store(r) \/ TickFails(r) \/ StartRunner(r))
  <2>1. ~(Evaluate(r) \/ TickFails(r) \/ StartRunner(r))
    BY <1>1, EvaluateKeeps, EndAndStartKeep
  <2>2. ~Store(r)
    BY <1>1, StoreKeepsTypes
  <2> QED
    BY <2>1, <2>2
<1> QED
  BY <1>1, <1>5, <1>6, <1>7, <1>8, <1>9, <1>10, OwnStep DEF TickStep, EndsTurn

-----------------------------------------------------------------------------
(***************************************************************************)
(* The theorems.                                                           *)
(***************************************************************************)
\* The invariant holds for any number of runners, any windows and any retention.
LEMMA TriggersAreKept == Spec => []TriggersInv
<1>1. Init => TriggersInv
  <2>1. Init => \A r \in Runners : runner[r].pc = "idle"
    BY DEF Init, Idle
  <2>2. Init => MarkerInv /\ DoneInv
    BY <2>1 DEF MarkerInv, MarkerOf, DoneInv, DoneOf
  <2>3. Init => HistoryInv
    BY DEF Init, HistoryInv
  <2> QED
    BY <2>3, <2>2, InitTickInv DEF TriggersInv
<1>2. TriggersInv /\ [Next]_vars => TriggersInv'
  <2>1. TriggersInv /\ UNCHANGED vars => TriggersInv'
    <3> SUFFICES ASSUME TriggersInv, UNCHANGED vars PROVE TriggersInv'
      OBVIOUS
    <3>1. (TickInv /\ HistoryInv)'
      BY DEF TriggersInv, TickInv, TypeInv, TurnInv, TurnOf, Acted, HistoryInv, Stored, Logged,
             vars
    <3>2. MarkerInv'
      BY DEF TriggersInv, MarkerInv, MarkerOf, Stored, vars
    <3>3. DoneInv'
      <4> SUFFICES ASSUME NEW r \in Runners PROVE DoneOf(r)'
        BY DEF DoneInv
      <4>1. \A k : DueIn(r, k, TRUE)' = DueIn(r, k, TRUE)
                   /\ DueIn(r, k, FALSE)' = DueIn(r, k, FALSE)
        BY DEF DueIn, Streak, vars
      <4>2. \A k : Answered(r, k)' = Answered(r, k)
        BY <4>1 DEF Answered, Acted, vars
      <4>3. DoneOf(r) /\ UNCHANGED <<runner, retention>>
        BY DEF TriggersInv, DoneInv, vars
      <4> QED
        BY <4>1, <4>2, <4>3 DEF DoneOf
    <3> QED
      BY <3>1, <3>2, <3>3 DEF TriggersInv
  <2>2. TriggersInv /\ Next => TriggersInv'
    BY TickStepKeepsTypes, HistoryStep, MarkerStep, DoneStep DEF TriggersInv, TickInv
  <2> QED
    BY <2>1, <2>2
<1> QED
  BY <1>1, <1>2, PTL DEF Spec

\* Any number of runners of a check: a trigger acts when and only when a number of violations
\* is within its bounds that was right, by all that was ever stored, when the runner asked for
\* the last good result, but for those old enough to be pruned.
THEOREM TriggersActOnExactCounts == Spec => ActsOnExactCounts
<1>1. ASSUME TriggersInv, Next, NEW r \in Runners, runner[r].pc = "read",
             runner'[r].pc \in {"acting", "lastGood", "idle"}
      PROVE  \E n \in Cardinality(Kept(Streak(runner[r].k, now, now)))
                         .. Cardinality(Streak(runner[r].k, now, runner[r].asked)) :
                 runner'[r].pc = "acting" <=> Due(runner[r].k, n)
  <2>1. TickInv /\ TypeInv
    BY <1>1 DEF TriggersInv, TickInv
  <2>2. Act(r) \/ NotDue(r)
    <3>1. ~TickFails(r)
      BY <1>1, <2>1, EndAndStartKeep
    <3> QED
      BY <1>1, <2>1, <3>1, OwnStep DEF TickStep, Evaluate, Store, RunTriggers, ReadLastGood,
         MessageSent, MessageFails, StartRunner
  <2>3. runner'[r].pc = "acting"
            <=> Due(runner[r].k, Cardinality(Violations(r, runner[r].k)))
    <3>1. CASE Act(r)
      BY <2>1, <3>1, ActKeeps DEF Act
    <3>2. CASE NotDue(r)
      <4>1. runner'[r].pc \in {"lastGood", "idle"}
        BY <2>1, <3>2, TurnEnds DEF EndsTurn
      <4> QED
        BY <3>2, <4>1 DEF NotDue
    <3> QED
      BY <2>2, <3>1, <3>2
  <2>4. Cardinality(Violations(r, runner[r].k))
            \in Cardinality(Kept(Streak(runner[r].k, now, now)))
                   .. Cardinality(Streak(runner[r].k, now, runner[r].asked))
    BY <1>1, CountIsBetween
  <2> QED
    BY <2>3, <2>4
<1>2. TriggersInv /\ [Next]_vars =>
          [\A r \in Runners, k \in DOMAIN Triggers :
              runner[r].pc = "read" /\ runner[r].k = k
                  /\ runner'[r].pc \in {"acting", "lastGood", "idle"} =>
                  \E n \in Cardinality(Kept(Streak(k, now, now)))
                             .. Cardinality(Streak(k, now, runner[r].asked)) :
                      runner'[r].pc = "acting" <=> Due(k, n)]_vars
  BY <1>1
<1> QED
  BY <1>2, TriggersAreKept, PTL DEF Spec, ActsOnExactCounts

\* A tick that no error cuts short acts for every trigger that was due from the time its
\* result was stored until the end, and for none that never was, with any number of runners
\* and whatever becomes of the messages.
THEOREM EveryDueTriggerActs == Spec => TicksActForEveryTrigger
<1>1. ASSUME TriggersInv, Next, NEW r \in Runners, runner[r].pc \in {"read", "acting"},
             runner'[r].pc = "idle", NEW k \in DOMAIN Triggers, Triggers[k].interval <= retention
      PROVE  LET acted == k \in runner'[r].sent \cup runner'[r].failed
             IN  (DueIn(r, k, TRUE) => acted) /\ (DueIn(r, k, FALSE) => ~acted)
  <2>1. TickInv /\ TypeInv /\ runner'[r] # runner[r]
    BY <1>1 DEF TriggersInv, TickInv
  <2>2. EndsTurn(r)
    <3>1. ~TickFails(r) /\ ~Act(r)
      BY <1>1, <2>1, EndAndStartKeep, ActKeeps
    <3> QED
      BY <1>1, <2>1, <3>1, OwnStep DEF TickStep, EndsTurn, Evaluate, Store, RunTriggers,
         ReadLastGood, StartRunner
  <2>3. runner[r].k = Len(Triggers)
    BY <1>1, <2>1, <2>2, TurnEnds
  <2>4. k \in 1 .. runner[r].k
    BY <2>3, TriggersAreASeq
  <2> QED
    BY <1>1, <2>2, <2>4, TurnIsAnswered DEF Acted
<1>2. TriggersInv /\ [Next]_vars =>
          [\A r \in Runners :
              runner[r].pc \in {"read", "acting"} /\ runner'[r].pc = "idle" =>
                  \A k \in DOMAIN Triggers : Triggers[k].interval <= retention =>
                      LET acted == k \in runner'[r].sent \cup runner'[r].failed
                      IN  (DueIn(r, k, TRUE) => acted) /\ (DueIn(r, k, FALSE) => ~acted)]_vars
  BY <1>1
<1> QED
  BY <1>2, TriggersAreKept, PTL DEF Spec, TicksActForEveryTrigger
==============================================================================
