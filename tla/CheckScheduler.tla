---------------------------- MODULE CheckScheduler ----------------------------
(***************************************************************************)
(* How checks reach the daemons that evaluate them.  Every master daemon   *)
(* keeps a cache of the peers it heard from, re-reads the checks table     *)
(* whenever something is sent on RefetchChecksChan, takes the share of the *)
(* rows AllSplitToDaemons gives it and starts one goroutine (a runner) per *)
(* row.  HTTP handlers on any daemon write the table and publish           *)
(* "checks-refetch" on the bus.                                            *)
(*                                                                         *)
(* application/application_checker.go, application_messagebus.go,          *)
(* messagebus/messagebus.go, models/pg/check.go, handlers/checks.go,       *)
(* main.go, and the vendored go-cache and mangos bus they rest on.         *)
(***************************************************************************)
EXTENDS CheckSplit

CONSTANTS
    Daemons,          \* the master daemons, by their FullAddr()
    WebDaemons,       \* those that serve the HTML UI (JustAPI = false)
    CheckerCalled,    \* whether main calls CheckAndRunTriggers
    Refetch,          \* the content of a message on the topic checks-refetch
    MaxCheck,         \* bound: how many checks are ever created
    MaxVer,           \* bound: edits after which further edits are not told apart
    Many,             \* counters of goroutines saturate here: Many means "Many or more"
    Copies,           \* pipes between two daemons: copies of a message that arrive
    MaxCrashes,       \* bound: how many times a daemon dies
    DialsSelf,        \* whether MessageBus.Peers lists the daemon itself
    Lossy,            \* whether the bus drops messages
    WritesMayFail,    \* whether the write of a handler may return an error
    QueriesMayFail,   \* whether Check.All may return an error
    TicksMayFail      \* whether a runner's tick may return

ASSUME SchedulerAssumption ==
    /\ IsFiniteSet(Daemons)
    /\ Refetch \notin Daemons
    /\ WebDaemons \subseteq Daemons
    /\ MaxCheck \in Nat
    /\ MaxVer \in Nat \ {0}
    /\ Many \in Nat \ {0}
    /\ Copies \in Nat \ {0}
    /\ MaxCrashes \in Nat
    /\ {CheckerCalled, DialsSelf, Lossy, WritesMayFail, QueriesMayFail, TicksMayFail} \subseteq BOOLEAN

CheckIds == 1 .. MaxCheck
Row      == [id : CheckIds, ver : 1 .. MaxVer]   \* a CheckRow: the row as it was when read
Messages == Daemons \cup {Refetch}               \* a heartbeat's content is the sender's address

VARIABLES
    row,          \* checks table: the version of each row, 0 when there is none
    nextId,       \* BIGSERIAL of the checks table
    pending,      \* edits and deletes a handler has announced but not written yet
    publishing,   \* goroutines of a daemon about to publish checks-refetch
    up,           \* whether the process runs
    crashes,      \* deaths so far
    inbox,        \* copies of each message whose handler goroutine has not run yet
    peers,        \* app.Peers: "absent", "fresh" or "expired" but not cleaned up
    blocked,      \* goroutines blocked on app.RefetchChecksChan <- true
    fetch,        \* the fetching goroutine of CheckAndRunTriggers
    runners       \* runner goroutines, by the row they were started with

dbVars   == <<row, nextId>>
httpVars == <<pending, publishing>>
procVars == <<up, crashes>>
vars     == <<row, nextId, pending, publishing, up, crashes, inbox, peers, blocked, fetch, runners>>

\* A saturating counter: at Many, one less may still be Many.
More(n)  == IF n < Many THEN n + 1 ELSE Many
Fewer(n) == IF n = Many THEN {Many - 1, Many} ELSE {n - 1}

EmptyInbox == [m \in Messages |-> 0]
NoRunners == [r \in Row |-> 0]

\* The fetching goroutine: where it is, the map it ranges over as it was at the
\* start, the list of daemons it made of it, the rows it holds for the dispatcher.
Fetcher(pc, seen, daemons, batch) ==
    [pc |-> pc, seen |-> seen, daemons |-> daemons, batch |-> batch]
Waiting == Fetcher("waiting", {}, <<>>, {})
Fetchers == [pc : {"waiting", "ranging", "querying", "sending"}, seen : SUBSET Daemons,
             daemons : Seq(Daemons), batch : SUBSET Row]

TypeOK ==
    /\ row \in [CheckIds -> 0 .. MaxVer]
    /\ nextId \in 1 .. MaxCheck + 1
    /\ pending \subseteq [on : Daemons, id : CheckIds, op : {"edit", "delete"}]
    /\ publishing \in [Daemons -> 0 .. Many]
    /\ up \in [Daemons -> BOOLEAN]
    /\ crashes \in 0 .. MaxCrashes
    /\ inbox \in [Daemons -> [Messages -> 0 .. Copies]]
    /\ peers \in [Daemons -> [Daemons -> {"absent", "fresh", "expired"}]]
    /\ blocked \in [Daemons -> 0 .. Many]
    /\ fetch \in [Daemons -> Fetchers]
    /\ runners \in [Daemons -> [Row -> 0 .. Many]]

-----------------------------------------------------------------------------
(* The process.  main starts the bus loops and a goroutine that puts the    *)
(* daemon in its own peers map and then sends on RefetchChecksChan.  The    *)
(* checks table may hold rows already.                                      *)

BootPeers(d) == [p \in Daemons |-> IF p = d THEN "fresh" ELSE "absent"]

Init ==
    /\ nextId \in 1 .. MaxCheck + 1
    /\ row = [c \in CheckIds |-> IF c < nextId THEN 1 ELSE 0]
    /\ pending = {}
    /\ publishing = [d \in Daemons |-> 0]
    /\ up = [d \in Daemons |-> TRUE]
    /\ crashes = 0
    /\ inbox = [d \in Daemons |-> EmptyInbox]
    /\ peers = [d \in Daemons |-> BootPeers(d)]
    /\ blocked = [d \in Daemons |-> 1]
    /\ fetch = [d \in Daemons |-> Waiting]
    /\ runners = [d \in Daemons |-> NoRunners]

\* The process dies and everything it held in memory goes with it.
Crash(d) ==
    /\ up[d]
    /\ crashes < MaxCrashes
    /\ up' = [up EXCEPT ![d] = FALSE]
    /\ crashes' = crashes + 1
    /\ pending' = {p \in pending : p.on # d}
    /\ publishing' = [publishing EXCEPT ![d] = 0]
    /\ inbox' = [inbox EXCEPT ![d] = EmptyInbox]
    /\ peers' = [peers EXCEPT ![d] = [p \in Daemons |-> "absent"]]
    /\ blocked' = [blocked EXCEPT ![d] = 0]
    /\ fetch' = [fetch EXCEPT ![d] = Waiting]
    /\ runners' = [runners EXCEPT ![d] = NoRunners]
    /\ UNCHANGED dbVars

\* main, case "server".
Start(d) ==
    /\ ~up[d]
    /\ up' = [up EXCEPT ![d] = TRUE]
    /\ peers' = [peers EXCEPT ![d] = BootPeers(d)]
    /\ blocked' = [blocked EXCEPT ![d] = 1]
    /\ UNCHANGED <<dbVars, httpVars, crashes, inbox, fetch, runners>>

-----------------------------------------------------------------------------
(* HTTP handlers that change the checks table.                              *)

\* Faulty variant: an upsert, which makes the row when there is none.
Upserted(c) == IF row[c] < MaxVer THEN row[c] + 1 ELSE row[c]

\* An UPDATE ... WHERE id: no row, no effect.
Edited(c) == IF row[c] \in 1 .. MaxVer - 1 THEN row[c] + 1 ELSE row[c]

\* Faulty variant: the insert is not announced.
PostChecksUnannounced(d) ==
    /\ up[d] /\ d \in WebDaemons
    /\ nextId <= MaxCheck
    /\ row' = [row EXCEPT ![nextId] = 1]
    /\ nextId' = nextId + 1
    /\ UNCHANGED <<httpVars, procVars, inbox, peers, blocked, fetch, runners>>

\* Create, then a goroutine that publishes.
PostChecks(d) ==
    /\ up[d] /\ d \in WebDaemons
    /\ nextId <= MaxCheck
    /\ row' = [row EXCEPT ![nextId] = 1]
    /\ nextId' = nextId + 1
    /\ publishing' = [publishing EXCEPT ![d] = More(@)]
    /\ UNCHANGED <<pending, procVars, inbox, peers, blocked, fetch, runners>>

\* PostPutDeleteCheckID and PostPutDeleteCheckTriggerID start the publishing
\* goroutine first and only then call the handler that writes.
PostPutDelete(d, c, op) ==
    /\ up[d] /\ d \in WebDaemons
    /\ c < nextId
    /\ [on |-> d, id |-> c, op |-> op] \notin pending
    /\ pending' = pending \cup {[on |-> d, id |-> c, op |-> op]}
    /\ publishing' = [publishing EXCEPT ![d] = More(@)]
    /\ UNCHANGED <<dbVars, procVars, inbox, peers, blocked, fetch, runners>>

\* The write of PutCheckID, PutCheckTriggerID and DeleteCheckTriggerID.
PutCheckID(d, c) ==
    /\ [on |-> d, id |-> c, op |-> "edit"] \in pending
    /\ pending' = pending \ {[on |-> d, id |-> c, op |-> "edit"]}
    /\ row' = [row EXCEPT ![c] = Edited(c)]
    /\ UNCHANGED <<nextId, publishing, procVars, inbox, peers, blocked, fetch, runners>>

DeleteCheckID(d, c) ==
    /\ [on |-> d, id |-> c, op |-> "delete"] \in pending
    /\ pending' = pending \ {[on |-> d, id |-> c, op |-> "delete"]}
    /\ row' = [row EXCEPT ![c] = 0]
    /\ UNCHANGED <<nextId, publishing, procVars, inbox, peers, blocked, fetch, runners>>

\* The write fails: the announcement is out, the row stays as it is.
WriteFails(d, p) ==
    /\ WritesMayFail
    /\ p \in pending /\ p.on = d
    /\ pending' = pending \ {p}
    /\ UNCHANGED <<dbVars, publishing, procVars, inbox, peers, blocked, fetch, runners>>

\* AddTrigger writes the row, then a goroutine publishes.
PostChecksTriggers(d, c) ==
    /\ up[d] /\ d \in WebDaemons
    /\ row[c] > 0
    /\ row' = [row EXCEPT ![c] = Edited(c)]
    /\ publishing' = [publishing EXCEPT ![d] = More(@)]
    /\ UNCHANGED <<nextId, pending, procVars, inbox, peers, blocked, fetch, runners>>

\* The silence toggle writes the row and tells nobody.
PostCheckIDSilence(d, c) ==
    /\ up[d] /\ d \in WebDaemons
    /\ row[c] > 0
    /\ row' = [row EXCEPT ![c] = Edited(c)]
    /\ UNCHANGED <<nextId, httpVars, procVars, inbox, peers, blocked, fetch, runners>>

-----------------------------------------------------------------------------
(* The bus.  Publish hands a copy to the queue of every connected pipe and  *)
(* drops it where the queue is full; two daemons that dialled each other    *)
(* have two pipes, and each receives every message twice.  OnReceive starts *)
(* a goroutine per message, so messages are handled in any order.  Equal    *)
(* messages beyond Copies are not told apart.                               *)

Arriving == IF Lossy THEN [Daemons -> 0 .. Copies] ELSE {[e \in Daemons |-> Copies]}

Publish(d, msg) ==
    \E arriving \in Arriving :
        inbox' = [e \in Daemons |->
            IF up[e] /\ (e = d => DialsSelf) /\ arriving[e] > inbox[e][msg]
            THEN [inbox[e] EXCEPT ![msg] = arriving[e]] ELSE inbox[e]]

Receive(d, msg) ==
    /\ inbox[d][msg] > 0
    /\ inbox' = [inbox EXCEPT ![d][msg] = @ - 1]

\* SendHeartbeat, every 30 seconds.
SendHeartbeat(d) ==
    /\ up[d]
    /\ Publish(d, d)
    /\ UNCHANGED <<dbVars, httpVars, procVars, peers, blocked, fetch, runners>>

\* Faulty variant: publishes without having been started.
PublishUnasked(d) ==
    /\ \E n \in Fewer(publishing[d]) : publishing' = [publishing EXCEPT ![d] = n]
    /\ Publish(d, Refetch)
    /\ UNCHANGED <<dbVars, pending, procVars, peers, blocked, fetch, runners>>

\* The goroutine a handler started to publish checks-refetch.
PublishRefetch(d) ==
    /\ publishing[d] > 0
    /\ \E n \in Fewer(publishing[d]) : publishing' = [publishing EXCEPT ![d] = n]
    /\ Publish(d, Refetch)
    /\ UNCHANGED <<dbVars, pending, procVars, peers, blocked, fetch, runners>>

\* Faulty variant: remembers the peer and refetches nothing.
HeartbeatWithoutRefetch(d, p) ==
    /\ Receive(d, p)
    /\ peers' = [peers EXCEPT ![d][p] = "fresh"]
    /\ UNCHANGED <<dbVars, httpVars, procVars, blocked, fetch, runners>>

\* peersHeartbeat: remember the peer, then block on RefetchChecksChan.
PeersHeartbeat(d, p) ==
    /\ Receive(d, p)
    /\ peers' = [peers EXCEPT ![d][p] = "fresh"]
    /\ blocked' = [blocked EXCEPT ![d] = More(@)]
    /\ UNCHANGED <<dbVars, httpVars, procVars, fetch, runners>>

\* checksRefetch: block on RefetchChecksChan.
ChecksRefetch(d) ==
    /\ Receive(d, Refetch)
    /\ blocked' = [blocked EXCEPT ![d] = More(@)]
    /\ UNCHANGED <<dbVars, httpVars, procVars, peers, fetch, runners>>

-----------------------------------------------------------------------------
(* app.Peers: entries expire after a minute and are removed by a janitor    *)
(* that runs every ten; Items() shows them until then.                      *)

Items(d) == {p \in Daemons : peers[d][p] # "absent"}

\* A peer whose heartbeats arrive every 30 seconds never gets to be a minute old.
HeartbeatsArrive(d, p) == up[p] /\ ~Lossy /\ (p = d => DialsSelf)

\* Faulty variant: entries are set with no expiration.
NeverExpire(d, p) == FALSE /\ UNCHANGED vars

Expire(d, p) ==
    /\ peers[d][p] = "fresh"
    /\ ~HeartbeatsArrive(d, p)
    /\ peers' = [peers EXCEPT ![d][p] = "expired"]
    /\ UNCHANGED <<dbVars, httpVars, procVars, inbox, blocked, fetch, runners>>

DeleteExpired(d) ==
    /\ \E p \in Daemons : peers[d][p] = "expired"
    /\ peers' = [peers EXCEPT ![d] = [p \in Daemons |->
                    IF peers[d][p] = "expired" THEN "absent" ELSE peers[d][p]]]
    /\ UNCHANGED <<dbVars, httpVars, procVars, inbox, blocked, fetch, runners>>

-----------------------------------------------------------------------------
(* CheckAndRunTriggers.                                                     *)

\* The fetching goroutine receives from RefetchChecksChan and starts to range
\* over the map Items() returned, which is the cache's own map.  There is one
\* only if main calls CheckAndRunTriggers: at this commit the call is commented
\* out (main.go:90), and nobody receives.
TakeRefetch(d) ==
    /\ CheckerCalled /\ up[d]
    /\ fetch[d].pc = "waiting"
    /\ blocked[d] > 0
    /\ \E n \in Fewer(blocked[d]) : blocked' = [blocked EXCEPT ![d] = n]
    /\ fetch' = [fetch EXCEPT ![d] = Fetcher("ranging", Items(d), <<>>, {})]
    /\ UNCHANGED <<dbVars, httpVars, procVars, inbox, peers, runners>>

\* The range ends.  It yields the keys in any order; a key put or removed
\* meanwhile may or may not be among them.
RangePeers(d, listing) ==
    /\ fetch[d].pc = "ranging"
    /\ fetch[d].seen \cap Items(d) \subseteq ToSet(listing)
    /\ ToSet(listing) \subseteq fetch[d].seen \cup Items(d)
    /\ fetch' = [fetch EXCEPT ![d] = Fetcher("querying", {}, listing, {})]
    /\ UNCHANGED <<dbVars, httpVars, procVars, inbox, peers, blocked, runners>>

\* Faulty variant: reads a replica that lags behind the table.
FetchFromReplica(d) ==
    /\ fetch[d].pc = "querying"
    /\ LET rows == {c \in CheckIds : row[c] > 0}
       IN  \E lag \in [rows -> 0 .. MaxVer] :
             /\ \A c \in rows : lag[c] < row[c]
             /\ fetch' = [fetch EXCEPT ![d] = Fetcher("sending", {}, <<>>,
                   {[id |-> c, ver |-> row[c] - lag[c]] :
                       c \in Share(rows, fetch[d].daemons, d)})]
    /\ UNCHANGED <<dbVars, httpVars, procVars, inbox, peers, blocked, runners>>

\* AllSplitToDaemons, and groupedCheckRows[app.FullAddr()].
FetchChecks(d) ==
    /\ fetch[d].pc = "querying"
    /\ LET rows == {c \in CheckIds : row[c] > 0}
       IN  fetch' = [fetch EXCEPT ![d] = Fetcher("sending", {}, <<>>,
               {[id |-> c, ver |-> row[c]] : c \in Share(rows, fetch[d].daemons, d)})]
    /\ UNCHANGED <<dbVars, httpVars, procVars, inbox, peers, blocked, runners>>

\* The error of the query is dropped: the nil map has no entry for anyone.
FetchFails(d) ==
    /\ QueriesMayFail
    /\ fetch[d].pc = "querying"
    /\ fetch' = [fetch EXCEPT ![d] = Fetcher("sending", {}, <<>>, {})]
    /\ UNCHANGED <<dbVars, httpVars, procVars, inbox, peers, blocked, runners>>

\* Faulty variant: leaves a check alone that has a runner already.
DispatchOnlyNew(d) ==
    /\ fetch[d].pc = "sending"
    /\ runners' = [runners EXCEPT ![d] = [r \in Row |->
                      IF r \in fetch[d].batch /\ \A s \in Row : s.id = r.id => runners[d][s] = 0
                      THEN More(runners[d][r]) ELSE runners[d][r]]]
    /\ fetch' = [fetch EXCEPT ![d] = Waiting]
    /\ UNCHANGED <<dbVars, httpVars, procVars, inbox, peers, blocked>>

\* checkRowsChan hands the batch over; a goroutine is started for every row,
\* whatever is running already.
DispatchBatch(d) ==
    /\ fetch[d].pc = "sending"
    /\ runners' = [runners EXCEPT ![d] = [r \in Row |->
                      IF r \in fetch[d].batch THEN More(runners[d][r]) ELSE runners[d][r]]]
    /\ fetch' = [fetch EXCEPT ![d] = Waiting]
    /\ UNCHANGED <<dbVars, httpVars, procVars, inbox, peers, blocked>>

\* Any error in a tick, or an interval that does not parse, ends the goroutine.
RunnerReturns(d, r) ==
    /\ TicksMayFail
    /\ runners[d][r] > 0
    /\ \E n \in Fewer(runners[d][r]) : runners' = [runners EXCEPT ![d][r] = n]
    /\ UNCHANGED <<dbVars, httpVars, procVars, inbox, peers, blocked, fetch>>

-----------------------------------------------------------------------------
AllListings == UNION {Listings(ps) : ps \in SUBSET Daemons}

Handlers(d) ==
    \/ PostChecks(d)
    \/ \E c \in CheckIds :
          \/ \E op \in {"edit", "delete"} : PostPutDelete(d, c, op)
          \/ PutCheckID(d, c)
          \/ DeleteCheckID(d, c)
          \/ PostChecksTriggers(d, c)
          \/ PostCheckIDSilence(d, c)
    \/ \E p \in pending : WriteFails(d, p)

Bus(d) ==
    \/ SendHeartbeat(d)
    \/ PublishRefetch(d)
    \/ \E p \in Daemons : PeersHeartbeat(d, p)
    \/ ChecksRefetch(d)

Cache(d) == (\E p \in Daemons : Expire(d, p)) \/ DeleteExpired(d)

Checker(d) ==
    \/ TakeRefetch(d)
    \/ \E listing \in AllListings : RangePeers(d, listing)
    \/ FetchChecks(d)
    \/ FetchFails(d)
    \/ DispatchBatch(d)
    \/ \E r \in Row : RunnerReturns(d, r)

Next == \E d \in Daemons :
    Crash(d) \/ Start(d) \/ Handlers(d) \/ Bus(d) \/ Cache(d) \/ Checker(d)

Spec == Init /\ [][Next]_vars

-----------------------------------------------------------------------------
(* Fairness.  The loops run as long as the process does (SendHeartbeat,      *)
(* OnReceive, the janitor, the fetcher and the dispatcher are `for` loops    *)
(* over tickers and channels), a handler that announced a change goes on to  *)
(* write and publish it, and an entry nobody refreshes gets old.  The order  *)
(* of a map range is random in every build: no place in the list is denied   *)
(* to a daemon forever.  Where the checker is not called (CheckerCalled) its *)
(* actions are never enabled, and their fairness asks for nothing.           *)
SelfAt(d, k) ==
    \E listing \in AllListings :
        k \in DOMAIN listing /\ listing[k] = d /\ RangePeers(d, listing)

Fairness == \A d \in Daemons :
    /\ WF_vars(SendHeartbeat(d))
    /\ WF_vars(PublishRefetch(d))
    /\ WF_vars(ChecksRefetch(d))
    /\ \A c \in CheckIds : WF_vars(PutCheckID(d, c)) /\ WF_vars(DeleteCheckID(d, c))
    /\ \A p \in Daemons : WF_vars(PeersHeartbeat(d, p)) /\ WF_vars(Expire(d, p))
    /\ WF_vars(DeleteExpired(d))
    /\ WF_vars(TakeRefetch(d))
    /\ WF_vars(\E listing \in AllListings : RangePeers(d, listing))
    /\ \A k \in 1 .. Cardinality(Daemons) : SF_vars(SelfAt(d, k))
    /\ WF_vars(FetchChecks(d))
    /\ WF_vars(DispatchBatch(d))

FairSpec == Spec /\ Fairness

-----------------------------------------------------------------------------
(* Properties.                                                              *)

Idle(d) == inbox[d] = EmptyInbox /\ blocked[d] = 0 /\ publishing[d] = 0 /\ fetch[d] = Waiting

Runs(d, c) == \E v \in 1 .. MaxVer : runners[d][[id |-> c, ver |-> v]] > 0

RunsCurrent(d, c) == row[c] > 0 /\ runners[d][[id |-> c, ver |-> row[c]]] > 0

\* Batches reach the dispatcher in the order their rows were read: a dispatch
\* never starts a runner with an older row than one the daemon already runs.
\* One fetcher and two unbuffered channels give this (application_checker.go:15-36).
DispatchNeverGoesBack ==
    [][\A d \in Daemons : \A r, s \in Row :
          /\ runners'[d][r] > runners[d][r]
          /\ runners[d][s] > 0
          /\ r.id = s.id
          => r.ver >= s.ver]_vars

\* The invariant this rests on.  A daemon holds a row when it is in the batch or
\* has a runner: a row that was in the table and is not ahead of it; and the batch
\* is never behind what runs.
Holds(d, r) == r \in fetch[d].batch \/ runners[d][r] > 0

OnlyUsedIds ==
    /\ \A c \in CheckIds : row[c] > 0 => c < nextId
    /\ \A d \in Daemons, r \in Row : Holds(d, r) => r.id < nextId

NeverAhead == \A d \in Daemons, r \in Row : Holds(d, r) => row[r.id] = 0 \/ r.ver <= row[r.id]

BatchIsNewest ==
    \A d \in Daemons : \A r, s \in Row :
        r \in fetch[d].batch /\ runners[d][s] > 0 /\ r.id = s.id => s.ver <= r.ver

HeldRowsInv == TypeOK /\ OnlyUsedIds /\ NeverAhead /\ BatchIsNewest

\* A check that was deleted stays deleted, whatever edits were announced before
\* the delete and are written after it (handlers/checks.go:190-194).
DeletedStaysDeleted ==
    [][\A c \in CheckIds : c < nextId /\ row[c] = 0 => row'[c] = 0]_vars

\* With a single daemon: when it comes to have nothing left to handle, every check
\* of the table has a runner.  PostChecks publishes after the insert, so the refetch
\* it causes cannot miss the row (handlers/checks.go:153-165).
NoCreatedCheckIsForgotten ==
    [][\A d \in Daemons : ~Idle(d) /\ Idle(d)' /\ up'[d] =>
          \A c \in CheckIds : row'[c] > 0 => Runs(d, c)']_vars

\* Every version of a row that stays in the table is eventually run by some
\* daemon, and again after runners returned or daemons died, as long as one is up:
\* heartbeats cause a refetch even where a handler published too early or not at all
\* (application_messagebus.go:40-43, handlers/checks.go:182-194, 253-278).
EveryVersionIsRun ==
    \A c \in CheckIds :
        []<>(row[c] = 0 \/ (\E d \in Daemons : RunsCurrent(d, c)) \/ \A d \in Daemons : ~up[d])

\* A peer that stays down leaves every share: the other daemons stop counting it
\* once its entry has expired and the janitor ran (application.go:59).
DeadPeersAreForgotten ==
    \A d, p \in Daemons : <>[](~up[p]) => <>[](p \notin ToSet(fetch[d].daemons))

\* main.go:84: "On boot, assign self to peers map and send a message to
\* RefetchChecksChan".  What is sent on the channel is received: only where the
\* checker is called.  It is not at this commit, and with CheckerCalled = FALSE
\* the goroutine of the boot waits for ever, as does one for every heartbeat.
SentRefetchIsReceived ==
    \A d \in Daemons : blocked[d] > 0 ~> (fetch[d].pc = "ranging" \/ ~up[d])

\* application_checker.go:12: the checks are "distributed evenly across N master
\* daemons": no check is run by two of them.
NoCheckOnTwoDaemons ==
    \A c \in CheckIds : \A d, e \in Daemons : Runs(d, c) /\ Runs(e, c) => d = e

\* templates/checks/list.html.tmpl:970: a trigger is "checked every" interval of
\* its check: a daemon has one runner per check, not several.
OneRunnerPerCheck ==
    \A d \in Daemons : \A r, s \in Row :
        runners[d][r] > 0 /\ runners[d][s] > 0 /\ r.id = s.id => r = s /\ runners[d][r] = 1

=============================================================================
