-------------------------- MODULE MetricStreamsProofs --------------------------
(***************************************************************************)
(* Proofs about MetricStreams for any number of connections and metrics.   *)
(***************************************************************************)
EXTENDS MetricStreams, TLAPS

LEMMA InitChannelInv == Init => ChannelInv
<1> SUFFICES ASSUME Init PROVE ChannelInv
  OBVIOUS
<1>1. TypeOK
  BY DEF Init, TypeOK, NoStream
<1>2. clients = {} /\ closed = {} /\ closing = None
  BY DEF Init
<1>3. \A c \in Clients : handler[c] = "none" /\ closer[c] = "none"
  BY DEF Init
<1> QED
  BY <1>1, <1>2, <1>3, StreamsAssumption DEF ChannelInv, RegisteredIsOpen, RegisteredIsRead

\* The goroutines that range over the map change nothing a channel's place depends on.
LEMMA RangesKeepChannelInv ==
    ASSUME ChannelInv, NEW g \in Streams, MetricStream(g)
    PROVE  ChannelInv'
<1> USE StreamsAssumption
<1>t. TypeOK
  BY DEF ChannelInv
<1>1. TypeOK'
  <2>1. CASE ReceiveMetric(g)
    BY <1>t, <2>1 DEF ReceiveMetric, NoStream, TypeOK
  <2>2. CASE RangeEnds(g)
    BY <1>t, <2>2 DEF RangeEnds, NoStream, TypeOK
  <2>3. ASSUME NEW c \in Clients, NextClient(g, c) PROVE TypeOK'
    BY <1>t, <2>3 DEF NextClient, TypeOK
  <2>4. ASSUME NEW c \in Clients, Send(g, c) PROVE TypeOK'
    BY <1>t, <2>4 DEF Send, TypeOK
  <2>5. ASSUME NEW c \in Clients, SendPanics(g, c) PROVE TypeOK'
    BY <1>t, <2>5 DEF SendPanics, TypeOK
  <2> QED
    BY <2>1, <2>2, <2>3, <2>4, <2>5 DEF MetricStream
<1>2. UNCHANGED <<conn, clients, closing, closed, closer>>
  BY DEF MetricStream, ReceiveMetric, RangeEnds, NextClient, Send, SendPanics
<1>3. \A c \in Clients : \/ handler'[c] = handler[c]
                         \/ handler[c] = "receiving" /\ handler'[c] = "writing"
  BY <1>t, ZenonT(60) DEF MetricStream, ReceiveMetric, RangeEnds, NextClient, Send, SendPanics, TypeOK
<1> QED
  BY <1>1, <1>2, <1>3 DEF ChannelInv, RegisteredIsOpen, RegisteredIsRead, TypeOK

LEMMA RequestsKeepChannelInv ==
    ASSUME ChannelInv, NEW c \in Clients, Request(c) \/ ManageClients(c)
    PROVE  ChannelInv'
<1> USE StreamsAssumption DEF ChannelInv, TypeOK, RegisteredIsOpen, RegisteredIsRead
<1>1. CASE Connect(c)
  BY <1>1 DEF Connect
<1>2. CASE Disconnect(c)
  BY <1>2 DEF Disconnect
<1>3. CASE Forgotten(c)
  BY <1>3 DEF Forgotten
<1>4. CASE NoticeClose(c)
  BY <1>4 DEF NoticeClose
<1>5. CASE Write(c)
  BY <1>5 DEF Write
<1>6. CASE Return(c)
  BY <1>6 DEF Return
<1>7. CASE Register(c)
  <2>1. dead' \in BOOLEAN
    BY <1>7 DEF Register, MapWrite
  <2>2. c \notin closed /\ closing = None /\ conn[c] # "none"
    BY <1>7 DEF Register
  <2>3. /\ clients' = clients \cup {c} /\ UNCHANGED <<conn, closing, closed, stream>>
        /\ handler' = [handler EXCEPT ![c] = "receiving"]
        /\ closer' = [closer EXCEPT ![c] = "watching"]
    BY <1>7 DEF Register
  <2> QED
    BY <2>1, <2>2, <2>3
<1>8. CASE Delete(c)
  BY <1>8 DEF Delete, MapWrite
<1>9. CASE Close(c)
  BY <1>9 DEF Close
<1> QED
  BY <1>1, <1>2, <1>3, <1>4, <1>5, <1>6, <1>7, <1>8, <1>9 DEF Request, ManageClients

\* A channel goes through its life in order: while it is in the map it is open and its
\* request reads it, and its request returns only after it was closed.
THEOREM RegisteredChannels == Spec => []ChannelInv
<1>1. Init => ChannelInv
  BY InitChannelInv
<1>2. ChannelInv /\ [Next]_vars => ChannelInv'
  <2> SUFFICES ASSUME ChannelInv, [Next]_vars PROVE ChannelInv'
    OBVIOUS
  <2>1. CASE UNCHANGED vars
    BY <2>1 DEF vars, ChannelInv, TypeOK, RegisteredIsOpen, RegisteredIsRead
  <2> QED
    BY <2>1, RangesKeepChannelInv, RequestsKeepChannelInv DEF Next
<1> QED
  BY <1>1, <1>2, PTL DEF Spec
=============================================================================
