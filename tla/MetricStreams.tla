----------------------------- MODULE MetricStreams -----------------------------
(***************************************************************************)
(* How metrics reach the browsers that listen for them.  Every HTTP        *)
(* request for a stream makes a channel, hands it to ManageClients, and    *)
(* loops on it; a goroutine waits for the connection to close and hands    *)
(* the channel to ManageClients again, which closes it.  Each metric the   *)
(* bus receives starts a goroutine that ranges over the clients and sends  *)
(* to each.                                                                *)
(*                                                                         *)
(* handlers/metrics_streams.go, messagebus/messagebus.go,                  *)
(* application/application_messagebus.go.  A channel is the client it was  *)
(* made for; what a metric says is not modelled, only that it is received. *)
(***************************************************************************)
EXTENDS Integers, FiniteSets

CONSTANTS
    Clients,     \* the connections that may be open at once
    Streams,     \* the metricStream goroutines that may run at once
    None         \* no client

ASSUME StreamsAssumption == None \notin Clients

VARIABLES
    conn,        \* the HTTP connection: "none", "open" or "closed" by the browser
    handler,     \* the request: "none", "registering", "receiving", "writing", "returned"
    closer,      \* the goroutine that waits for the connection to close
    clients,     \* mb.Clients
    closing,     \* the client ManageClients has deleted and not closed yet
    closed,      \* channels that were closed
    stream,      \* the metricStream goroutines
    dead         \* the process panicked

vars == <<conn, handler, closer, clients, closing, closed, stream, dead>>

NoStream == [pc |-> "none", todo |-> {}, seen |-> {}, to |-> None]

TypeOK ==
    /\ conn \in [Clients -> {"none", "open", "closed"}]
    /\ handler \in [Clients -> {"none", "registering", "receiving", "writing", "returned"}]
    /\ closer \in [Clients -> {"none", "watching", "sending", "done"}]
    /\ clients \subseteq Clients
    /\ closing \in Clients \cup {None}
    /\ closed \subseteq Clients
    /\ stream \in [Streams -> [pc : {"none", "ranging", "sending"}, todo : SUBSET Clients,
                               seen : SUBSET Clients, to : Clients \cup {None}]]
    /\ \A g \in Streams : stream[g].pc = "sending" <=> stream[g].to # None
    /\ dead \in BOOLEAN

Init ==
    /\ conn = [c \in Clients |-> "none"]
    /\ handler = [c \in Clients |-> "none"]
    /\ closer = [c \in Clients |-> "none"]
    /\ clients = {}
    /\ closing = None
    /\ closed = {}
    /\ stream = [g \in Streams |-> NoStream]
    /\ dead = FALSE

-----------------------------------------------------------------------------
(* The browser.                                                             *)

Connect(c) ==
    /\ conn[c] = "none"
    /\ conn' = [conn EXCEPT ![c] = "open"]
    /\ handler' = [handler EXCEPT ![c] = "registering"]
    /\ UNCHANGED <<closer, clients, closing, closed, stream, dead>>

Disconnect(c) ==
    /\ conn[c] = "open"
    /\ conn' = [conn EXCEPT ![c] = "closed"]
    /\ UNCHANGED <<handler, closer, clients, closing, closed, stream, dead>>

\* A request that is over and whose channel no range has met makes room for
\* another one, with a channel of its own.
Forgotten(c) ==
    /\ handler[c] = "returned" /\ closer[c] = "done"
    /\ \A g \in Streams : c \notin stream[g].todo \cup stream[g].seen
    /\ conn' = [conn EXCEPT ![c] = "none"]
    /\ handler' = [handler EXCEPT ![c] = "none"]
    /\ closer' = [closer EXCEPT ![c] = "none"]
    /\ closed' = closed \ {c}
    /\ UNCHANGED <<clients, closing, stream, dead>>

-----------------------------------------------------------------------------
(* ManageClients, one goroutine that alone writes the map.  Maps are not    *)
(* safe for concurrent use: the runtime may end the process when the map is *)
(* written while a goroutine ranges over it.                                *)

MapWrite ==
    dead' \in IF \E g \in Streams : stream[g].pc = "ranging" THEN BOOLEAN ELSE {FALSE}

\* `bus.NewClientChan <- newClientChan` meets `newChan := <-mb.NewClientChan`;
\* the request then starts the closing goroutine and enters its loop.
Register(c) ==
    /\ handler[c] = "registering"
    /\ closing = None
    /\ clients' = clients \cup {c}
    /\ MapWrite
    /\ handler' = [handler EXCEPT ![c] = "receiving"]
    /\ closer' = [closer EXCEPT ![c] = "watching"]
    /\ UNCHANGED <<conn, closing, closed, stream>>

\* `<-connClosedChan` returns.
NoticeClose(c) ==
    /\ closer[c] = "watching"
    /\ conn[c] = "closed"
    /\ closer' = [closer EXCEPT ![c] = "sending"]
    /\ UNCHANGED <<conn, handler, clients, closing, closed, stream, dead>>

\* Faulty variant: the channel is closed before it is deleted from the map.
CloseFirst(c) ==
    /\ closer[c] = "sending"
    /\ closing = None
    /\ closer' = [closer EXCEPT ![c] = "done"]
    /\ closed' = closed \cup {c}
    /\ closing' = c
    /\ UNCHANGED <<conn, handler, clients, stream, dead>>

\* `bus.CloseClientChan <- newClientChan` meets `closeChan := <-mb.CloseClientChan`,
\* and ManageClients deletes the channel from the map ...
Delete(c) ==
    /\ closer[c] = "sending"
    /\ closing = None
    /\ closer' = [closer EXCEPT ![c] = "done"]
    /\ clients' = clients \ {c}
    /\ MapWrite
    /\ closing' = c
    /\ UNCHANGED <<conn, handler, closed, stream>>

\* Faulty variant: the channel is never closed.
ForgetToClose(c) ==
    /\ closing = c
    /\ closing' = None
    /\ UNCHANGED <<conn, handler, closer, clients, closed, stream, dead>>

\* ... and then closes it.
Close(c) ==
    /\ closing = c
    /\ closing' = None
    /\ closed' = closed \cup {c}
    /\ UNCHANGED <<conn, handler, closer, clients, stream, dead>>

-----------------------------------------------------------------------------
(* metricStream, one goroutine per metric received.                         *)

ReceiveMetric(g) ==
    /\ stream[g].pc = "none"
    /\ stream' = [stream EXCEPT ![g] = [NoStream EXCEPT !.pc = "ranging", !.todo = clients]]
    /\ UNCHANGED <<conn, handler, closer, clients, closing, closed, dead>>

\* The next client of the range: one not yet seen.
NextClient(g, c) ==
    /\ stream[g].pc = "ranging"
    /\ c \in clients \ stream[g].seen
    /\ stream' = [stream EXCEPT ![g].pc = "sending", ![g].to = c, ![g].seen = @ \cup {c}]
    /\ UNCHANGED <<conn, handler, closer, clients, closing, closed, dead>>

\* Faulty variant: the range stops after the first client.
RangeEndsEarly(g) ==
    /\ stream[g].pc = "ranging"
    /\ clients = {} \/ stream[g].seen # {}
    /\ stream' = [stream EXCEPT ![g] = NoStream]
    /\ UNCHANGED <<conn, handler, closer, clients, closing, closed, dead>>

\* The range ends: it covered every client that was there all along.
RangeEnds(g) ==
    /\ stream[g].pc = "ranging"
    /\ stream[g].todo \cap clients \subseteq stream[g].seen
    /\ stream' = [stream EXCEPT ![g] = NoStream]
    /\ UNCHANGED <<conn, handler, closer, clients, closing, closed, dead>>

\* `clientChan <- content` meets the receive of the request's loop.
Send(g, c) ==
    /\ stream[g].pc = "sending" /\ stream[g].to = c
    /\ handler[c] = "receiving"
    /\ c \notin closed
    /\ handler' = [handler EXCEPT ![c] = "writing"]
    /\ stream' = [stream EXCEPT ![g].pc = "ranging", ![g].to = None]
    /\ UNCHANGED <<conn, closer, clients, closing, closed, dead>>

\* A send on a closed channel panics, and nothing recovers in this goroutine.
SendPanics(g, c) ==
    /\ stream[g].pc = "sending" /\ stream[g].to = c
    /\ c \in closed
    /\ dead' = TRUE
    /\ UNCHANGED <<conn, handler, closer, clients, closing, closed, stream>>

-----------------------------------------------------------------------------
(* The loop of ApiMetricStreams and ApiMetricIDStreams.                      *)

\* The metric is written to the response, or skipped; then the loop goes on.
Write(c) ==
    /\ handler[c] = "writing"
    /\ handler' = [handler EXCEPT ![c] = "receiving"]
    /\ UNCHANGED <<conn, closer, clients, closing, closed, stream, dead>>

\* `!isOpen`: break.
Return(c) ==
    /\ handler[c] = "receiving"
    /\ c \in closed
    /\ handler' = [handler EXCEPT ![c] = "returned"]
    /\ UNCHANGED <<conn, closer, clients, closing, closed, stream, dead>>

-----------------------------------------------------------------------------
Request(c) == Connect(c) \/ Disconnect(c) \/ Forgotten(c) \/ NoticeClose(c) \/ Write(c) \/ Return(c)
ManageClients(c) == Register(c) \/ Delete(c) \/ Close(c)
MetricStream(g) ==
    \/ ReceiveMetric(g)
    \/ RangeEnds(g)
    \/ \E c \in Clients : NextClient(g, c) \/ Send(g, c) \/ SendPanics(g, c)

Next ==
    /\ ~dead
    /\ \/ \E c \in Clients : Request(c) \/ ManageClients(c)
       \/ \E g \in Streams : MetricStream(g)

Spec == Init /\ [][Next]_vars

(* Fairness.  Goroutines that can run do, and Go's select takes each ready  *)
(* case again and again; a browser that is connected keeps reading, so a    *)
(* write ends; a goroutine that waits for a receiver gets its turn when the *)
(* request's loop is back at the receive infinitely often, for a channel    *)
(* serves its senders in order.                                             *)
Fairness ==
    /\ \A c \in Clients :
         /\ SF_vars(~dead /\ Register(c))
         /\ WF_vars(~dead /\ NoticeClose(c))
         /\ SF_vars(~dead /\ Delete(c))
         /\ WF_vars(~dead /\ Close(c))
         /\ WF_vars(~dead /\ Write(c))
         /\ SF_vars(~dead /\ Return(c))
    /\ \A g \in Streams :
         /\ WF_vars(~dead /\ RangeEnds(g))
         /\ \A c \in Clients :
              /\ SF_vars(~dead /\ NextClient(g, c))
              /\ SF_vars(~dead /\ Send(g, c))
              /\ WF_vars(~dead /\ SendPanics(g, c))

FairSpec == Spec /\ Fairness

-----------------------------------------------------------------------------
(* Properties.                                                              *)

\* ManageClients deletes a channel before it closes it, and a request registers
\* its channel before anything can close it: no channel in the map is closed
\* (messagebus.go:70-75, metrics_streams.go:43-51).
RegisteredIsOpen == clients \cap closed = {}

\* Every client in the map has a request that is in its loop: it returns only
\* after its channel left the map, so no range blocks on a channel nobody reads.
RegisteredIsRead == \A c \in clients : handler[c] \in {"receiving", "writing"}

\* The invariant both rest on: where the channel of a request is, by how far the
\* goroutine that closes it has come.
ChannelInv ==
    /\ TypeOK
    /\ RegisteredIsOpen
    /\ RegisteredIsRead
    /\ \A c \in Clients :
         /\ conn[c] = "none" => handler[c] = "none"
         /\ handler[c] \in {"none", "registering"} => c \notin closed /\ closing # c
         /\ handler[c] = "returned" => c \in closed
         /\ closer[c] \in {"watching", "sending"} => c \in clients
         /\ closing = c => c \notin clients \cup closed /\ closer[c] = "done"
         /\ c \in closed => closer[c] = "done"

\* metricStream hands a metric to every client that was in the map when it
\* started and stays connected, and comes to its end: no client holds up a metric
\* for ever.
MetricsReachClients ==
    \A g \in Streams :
        /\ \A c \in Clients : stream[g].pc = "ranging" /\ c \in stream[g].todo \ stream[g].seen
                               ~> c \in stream[g].seen \/ conn[c] # "open" \/ dead
        /\ stream[g].pc # "none" ~> stream[g].pc = "none" \/ dead

\* A client whose connection closed leaves the map and its request ends, or the
\* process is dead.
DisconnectedIsForgotten ==
    \A c \in Clients : conn[c] = "closed" ~> dead \/ (handler[c] = "returned" /\ c \notin clients)

\* metrics_streams.go:56: "If newClientChan was closed, client has disconnected"
\* and the loop breaks: a closed connection ends its request and nothing else.
DisconnectEndsTheRequest ==
    \A c \in Clients : conn[c] = "closed" ~> handler[c] = "returned"

=============================================================================
