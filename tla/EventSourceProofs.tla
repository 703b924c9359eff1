---------------------------- MODULE EventSourceProofs ----------------------------
(***************************************************************************)
(* Proofs about EventSource for any number of events and of failures: a    *)
(* page never polls twice for one source and never stops polling for one   *)
(* that it did not close; what a listener hears is what it expects of an   *)
(* event stream, however the network cuts the answers; and events that     *)
(* arrive whole are all heard.                                             *)
(***************************************************************************)
EXTENDS EventSource, FiniteSetTheorems, SequenceTheorems, WellFoundedInduction, TLAPS

\* What is known of the request besides.
SourceInv ==
    /\ readyState \in {"CONNECTING", "OPEN", "CLOSED"}
    /\ pollTimer \in BOOLEAN
    /\ "pending" \in DOMAIN xhr /\ xhr.pending \in BOOLEAN
    /\ OneGoesOn

\* A request that is answered with text goes on, or ends and is followed by the timer.
LEMMA TextKeeps ==
    ASSUME SourceInv, xhr.pending, NEW n, NEW last \in BOOLEAN, OnText(n, last)
    PROVE  SourceInv'
<1>1. /\ readyState # "CLOSED" /\ pollTimer = FALSE
      /\ readyState \in {"CONNECTING", "OPEN"}
  BY DEF SourceInv, OneGoesOn
<1>2. readyState' \in {"CONNECTING", "OPEN", "CLOSED"} /\ readyState' # "CLOSED"
  BY <1>1 DEF OnText
<1>3. xhr' = [xhr EXCEPT !.got = n, !.pending = ~last] /\ pollTimer' = (pollTimer \/ last)
  BY DEF OnText
<1>4. "pending" \in DOMAIN xhr' /\ xhr'.pending = ~last
  BY <1>3 DEF SourceInv
<1>5. pollTimer' = last
  BY <1>1, <1>3
<1> QED
  BY <1>2, <1>4, <1>5 DEF SourceInv, OneGoesOn

\* A request that fails is followed by the timer.
LEMMA ErrorKeeps ==
    ASSUME SourceInv, xhr.pending, OnError
    PROVE  SourceInv'
<1>1. readyState # "CLOSED" /\ pollTimer = FALSE
  BY DEF SourceInv, OneGoesOn
<1>2. /\ readyState' = "CONNECTING" /\ pollTimer' = TRUE
      /\ xhr' = [xhr EXCEPT !.pending = FALSE]
  BY <1>1 DEF OnError
<1>3. "pending" \in DOMAIN xhr' /\ xhr'.pending = FALSE
  BY <1>2 DEF SourceInv
<1> QED
  BY <1>2, <1>3 DEF SourceInv, OneGoesOn

\* What the server and the page's listener do neither ends a request nor begins one.
LEMMA OthersKeep ==
    ASSUME SourceInv, UNCHANGED <<readyState, pollTimer>>,
           "pending" \in DOMAIN xhr', xhr'.pending = xhr.pending
    PROVE  SourceInv'
<1> QED
  BY DEF SourceInv, OneGoesOn

\* Every step keeps it.
LEMMA SourceSteps ==
    ASSUME SourceInv, [Next]_vars
    PROVE  SourceInv'
<1>1. CASE Poll
  <2>1. readyState # "CLOSED" /\ UNCHANGED readyState
    BY <1>1 DEF Poll, SourceInv, OneGoesOn
  <2>2. xhr' = NewRequest /\ pollTimer' = FALSE
    BY <1>1, <2>1 DEF Poll
  <2>3. "pending" \in DOMAIN xhr' /\ xhr'.pending = TRUE
    BY <2>2 DEF NewRequest, NoRequest
  <2> QED
    BY <2>1, <2>2, <2>3 DEF SourceInv, OneGoesOn
<1>2. CASE Publish
  <2>1. "pending" \in DOMAIN xhr' /\ xhr'.pending = xhr.pending
    BY <1>2 DEF Publish, SourceInv
  <2> QED
    BY <1>2, <2>1, OthersKeep DEF Publish
<1>3. CASE Chunk
  BY <1>3, TextKeeps DEF Chunk
<1>4. CASE Refuse
  <2>1. "pending" \in DOMAIN xhr' /\ xhr'.pending = xhr.pending
    BY <1>4 DEF Refuse, SourceInv
  <2> QED
    BY <1>4, <2>1, OthersKeep DEF Refuse
<1>5. CASE Refused
  BY <1>5, ErrorKeeps DEF Refused
<1>6. CASE End
  BY <1>6, TextKeeps DEF End, Streaming
<1>7. CASE BreakOrTimeout
  BY <1>7, ErrorKeeps DEF BreakOrTimeout
<1>8. CASE Close
  <2>1. /\ readyState' = "CLOSED" /\ pollTimer' = FALSE
        /\ xhr' = [xhr EXCEPT !.pending = FALSE]
    BY <1>8 DEF Close
  <2>2. "pending" \in DOMAIN xhr' /\ xhr'.pending = FALSE
    BY <2>1 DEF SourceInv
  <2> QED
    BY <2>1, <2>2 DEF SourceInv, OneGoesOn
<1>9. CASE AddEventListener \/ RemoveEventListener \/ UNCHANGED vars
  <2>1. UNCHANGED <<readyState, pollTimer, xhr>>
    BY <1>9 DEF AddEventListener, RemoveEventListener, vars
  <2> QED
    BY <2>1 DEF SourceInv, OneGoesOn
<1> QED
  BY <1>1, <1>2, <1>3, <1>4, <1>5, <1>6, <1>7, <1>8, <1>9 DEF Next

\* Hence it holds.
LEMMA SourceInvHolds == Spec => []SourceInv
<1>1. Init => SourceInv
  BY DEF Init, NewRequest, NoRequest, SourceInv, OneGoesOn
<1> QED
  BY <1>1, SourceSteps, PTL DEF Spec

(***************************************************************************)
(* OneGoesOn however requests end: the handlers of the end, of an error    *)
(* and of the abort timer each set the timer of the next request, and each *)
(* of them only for the request that it ends (eventsource.js:46-112).      *)
(***************************************************************************)
THEOREM OneRequestOrTimer == Spec => []OneGoesOn
<1>1. SourceInv => OneGoesOn
  BY DEF SourceInv
<1> QED
  BY <1>1, SourceInvHolds, PTL

-----------------------------------------------------------------------------
(***************************************************************************)
(* Reading a text, one unit after the other.  ReadText is a fold, that is  *)
(* a recursive function; that it goes on from unit to unit is shown by the *)
(* least number of units for which it would not.                           *)
(***************************************************************************)
\* A set of numbers that are not negative has a least one.
LEMMA LeastExists ==
    ASSUME NEW S \in SUBSET Nat, S # {}
    PROVE  \E x \in S : \A y \in S : x <= y
<1> DEFINE T == {0 .. x : x \in S}
<1>1. T \subseteq FiniteSubsetsOf(Nat) /\ T # {}
  <2> SUFFICES ASSUME NEW x \in S PROVE 0 .. x \in FiniteSubsetsOf(Nat)
    OBVIOUS
  <2> QED
    BY FS_Interval DEF FiniteSubsetsOf
<1>2. PICK U \in T : \A V \in T : ~(<<V, U>> \in StrictSubsetOrdering(Nat))
  BY <1>1, FS_StrictSubsetOrderingWellFounded, WFMin
<1>3. PICK x \in S : U = 0 .. x
  OBVIOUS
<1>4. \A y \in S : x <= y
  <2> SUFFICES ASSUME NEW y \in S, y < x PROVE FALSE
    OBVIOUS
  <2>1. 0 .. y \in T /\ 0 .. y \subseteq 0 .. x /\ 0 .. y # 0 .. x
    OBVIOUS
  <2>2. <<0 .. y, 0 .. x>> \in StrictSubsetOrdering(Nat)
    BY <2>1 DEF StrictSubsetOrdering
  <2> QED
    BY <1>2, <1>3, <2>1, <2>2
<1> QED
  BY <1>4

\* What holds at 0 and goes on by one holds up to N.
LEMMA GoesOn ==
    ASSUME NEW N \in Nat, NEW S, 0 \in S, \A k \in 0 .. N - 1 : k \in S => k + 1 \in S
    PROVE  \A k \in 0 .. N : k \in S
<1> DEFINE Bad == {k \in 0 .. N : k \notin S}
<1> SUFFICES ASSUME Bad # {} PROVE FALSE
  OBVIOUS
<1>1. PICK k \in Bad : \A j \in Bad : k <= j
  <2>1. Bad \in SUBSET Nat
    OBVIOUS
  <2> HIDE DEF Bad
  <2> QED
    BY <2>1, LeastExists
<1>2. k # 0 /\ k - 1 \in 0 .. N - 1 /\ (k - 1) + 1 = k
  OBVIOUS
<1>3. k - 1 \notin Bad
  BY <1>1, <1>2
<1> QED
  BY <1>2, <1>3

\* The greatest of a set, once it is known.
LEMMA MaxIs ==
    ASSUME NEW S, NEW m \in S, S \subseteq Int, \A y \in S : m >= y
    PROVE  Max(S) = m
<1>1. Max(S) \in S /\ \A y \in S : Max(S) >= y
  BY DEF Max
<1>2. Max(S) \in Int /\ m \in Int
  BY <1>1
<1> QED
  BY <1>1, <1>2

\* The recursion that a fold over the places 1 .. k is.
Reads(it, seq, k) ==
    it = [s \in SUBSET (1 .. k) |->
              IF s = {} THEN Unread ELSE ReadUnit(it[s \ {Max(s)}], seq[Max(s)])]

\* With a solution for k places there is one for k + 1.
LEMMA ReadsNext ==
    ASSUME NEW seq, NEW k \in Nat, NEW it, Reads(it, seq, k)
    PROVE  \E jt : Reads(jt, seq, k + 1)
<1> DEFINE last == k + 1
           jt == [s \in SUBSET (1 .. last) |->
                    IF last \in s THEN ReadUnit(it[s \ {last}], seq[last]) ELSE it[s]]
<1> HIDE DEF Reads
<1>1. ASSUME NEW s \in SUBSET (1 .. last)
      PROVE  jt[s] = IF s = {} THEN Unread
                              ELSE ReadUnit(jt[s \ {Max(s)}], seq[Max(s)])
  <2>1. CASE last \in s
    <3>0. s \subseteq Int /\ \A y \in s : last >= y
      OBVIOUS
    <3>1. Max(s) = last
      BY <2>1, <3>0, MaxIs
    <3>2. s \ {last} \subseteq s /\ last \notin s \ {last}
      OBVIOUS
    <3>3. jt[s \ {last}] = it[s \ {last}]
      BY <3>2
    <3> QED
      BY <2>1, <3>1, <3>3
  <2>2. CASE last \notin s
    <3>1. s \in SUBSET (1 .. k)
      BY <2>2
    <3>2. it[s] = IF s = {} THEN Unread ELSE ReadUnit(it[s \ {Max(s)}], seq[Max(s)])
      BY <3>1 DEF Reads
    <3>3. jt[s \ {Max(s)}] = it[s \ {Max(s)}]
      BY <2>2
    <3> QED
      BY <2>2, <3>2, <3>3
  <2> QED
    BY <2>1, <2>2
<1>2. jt = [s \in SUBSET (1 .. last) |-> IF s = {} THEN Unread
                              ELSE ReadUnit(jt[s \ {Max(s)}], seq[Max(s)])]
  <2>1. jt = [s \in SUBSET (1 .. last) |-> jt[s]]
    OBVIOUS
  <2> HIDE DEF jt
  <2> QED
    BY <1>1, <2>1
<1> HIDE DEF jt
<1> QED
  BY <1>2 DEF Reads

\* Hence there is one for any number of places.
LEMMA ReadsExists ==
    ASSUME NEW seq, NEW k \in Nat
    PROVE  \E it : Reads(it, seq, k)
<1> DEFINE Without == {j \in Nat : ~\E it : Reads(it, seq, j)}
<1>1. CASE Without = {}
  BY <1>1
<1>2. CASE Without # {}
  <2>1. PICK j \in Without : \A i \in Without : j <= i
    BY <1>2, LeastExists
  <2>2. CASE j = 0
    <3> DEFINE it == [s \in SUBSET (1 .. 0) |-> Unread]
    <3>1. SUBSET (1 .. 0) = {{}}
      BY 1 .. 0 = {}
    <3>2. it = [s \in SUBSET (1 .. 0) |->
                  IF s = {} THEN Unread ELSE ReadUnit(it[s \ {Max(s)}], seq[Max(s)])]
      BY <3>1
    <3> HIDE DEF it
    <3>3. Reads(it, seq, 0)
      BY <3>2 DEF Reads
    <3> QED
      BY <2>1, <2>2, <3>3
  <2>3. CASE j # 0
    <3>1. j - 1 \in Nat /\ j - 1 < j /\ (j - 1) + 1 = j
      BY <2>1, <2>3
    <3>2. j - 1 \notin Without
      BY <2>1, <3>1
    <3>3. PICK it : Reads(it, seq, j - 1)
      BY <3>1, <3>2
    <3>4. \E jt : Reads(jt, seq, (j - 1) + 1)
      BY <3>1, <3>3, ReadsNext
    <3> QED
      BY <2>1, <3>1, <3>4
  <2> QED
    BY <2>2, <2>3
<1> QED
  BY <1>1, <1>2

\* What the loop over the units of a text leaves after each of them.
Reading(seq, acc) ==
    /\ acc[0] = Unread
    /\ \A k \in 1 .. Len(seq) : acc[k] = ReadUnit(acc[k - 1], seq[k])

\* ReadText is what the loop leaves after the last one, a newline of its own.
LEMMA ReadTextReads ==
    ASSUME NEW U, NEW text \in Seq(U)
    PROVE  \E acc : /\ Reading(Append(text, NL), acc)
                    /\ ReadText(text) = acc[Len(text) + 1].events
<1> DEFINE seq  == Append(text, NL)
           N    == Len(text) + 1
           iter == CHOOSE it : Reads(it, seq, N)
           acc  == [k \in 0 .. N |-> iter[1 .. k]]
<1>1. N \in Nat /\ Len(seq) = N /\ DOMAIN seq = 1 .. N
  <2>1. seq \in Seq(U \cup {NL}) /\ Len(seq) = Len(text) + 1
    BY AppendProperties DEF NL
  <2> QED
    BY <2>1, LenProperties
<1>2. Reads(iter, seq, N)
  BY <1>1, ReadsExists
<1>3. ReadText(text) = iter[1 .. N].events
  BY <1>1 DEF ReadText, FoldLeft, MapThenFoldSet, Reads
<1> HIDE DEF iter, seq, N
<1>4. acc[0] = Unread
  <2>1. 1 .. 0 = {} /\ {} \in SUBSET (1 .. N)
    OBVIOUS
  <2> QED
    BY <1>1, <1>2, <2>1 DEF Reads
<1>5. ASSUME NEW k \in 1 .. N
      PROVE  acc[k] = ReadUnit(acc[k - 1], seq[k])
  <2>1. 1 .. k \in SUBSET (1 .. N) /\ k \in 1 .. k /\ 1 .. k # {}
    <3>1. k \in 1 .. k /\ \A j \in 1 .. k : j \in 1 .. N
      BY <1>1
    <3> QED
      BY <3>1
  <2>2. Max(1 .. k) = k
    <3>1. 1 .. k \subseteq Int /\ \A j \in 1 .. k : k >= j
      OBVIOUS
    <3> QED
      BY <2>1, <3>1, MaxIs
  <2>3. (1 .. k) \ {k} = 1 .. k - 1
    BY <1>1
  <2>4. iter[1 .. k] = ReadUnit(iter[1 .. k - 1], seq[k])
    BY <1>2, <2>1, <2>2, <2>3 DEF Reads
  <2> QED
    BY <1>1, <2>4
<1>6. acc[N] = iter[1 .. N]
  BY <1>1
<1> HIDE DEF acc
<1>7. Reading(seq, acc)
  BY <1>1, <1>4, <1>5 DEF Reading
<1> QED
  BY <1>3, <1>6, <1>7 DEF seq, N

-----------------------------------------------------------------------------
(***************************************************************************)
(* What is heard of a text that may begin and end anywhere.                *)
(***************************************************************************)
Units == {NL, Error} \cup {Named(n) : n \in Nat} \cup {Data(n) : n \in Nat}

Readers == [line : Units \cup {Empty}, named : BOOLEAN, data : Seq(Nat), events : Seq(Seq(Nat))]

\* A unit is told from others by its kind.
LEMMA UnitKinds ==
    ASSUME NEW u \in Units \cup {Empty}
    PROVE  /\ u.kind \in {"newline", "error", "event", "data", "empty"}
           /\ u = NL <=> u.kind = "newline"
           /\ u = Empty <=> u.kind = "empty"
           /\ u.kind = "data" => u.n \in Nat /\ u = Data(u.n)
  BY DEF Units, NL, Error, Named, Data, Empty

IsData(u) == u.kind = "data"

\* A text of the server's: two newlines follow the data of an event, as far as the text
\* goes, and the numbers of the events increase.
IsText(s) ==
    /\ s \in Seq(Units)
    /\ \A p, q \in 1 .. Len(s) :
           IsData(s[p]) /\ p < q => /\ q <= p + 2 => s[q] = NL
                                    /\ IsData(s[q]) => s[p].n < s[q].n

\* The line, the data and the events after k units of a text: the data is that of the line
\* before, and the events are earlier ones in their order.
ReadUpTo(s, acc, k) ==
    /\ acc \in Readers
    /\ acc.line = IF k = 0 THEN Empty ELSE IF s[k] = NL THEN Empty ELSE s[k]
    /\ acc.data # <<>> => /\ k >= 2 /\ s[k] = NL
                          /\ IsData(s[k - 1]) /\ acc.data = <<s[k - 1].n>>
    /\ \A i \in 1 .. Len(acc.events) :
           \E p \in 1 .. k - 2 : IsData(s[p]) /\ acc.events[i] = <<s[p].n>>
    /\ \A i, j \in 1 .. Len(acc.events) : i < j => acc.events[i][1] < acc.events[j][1]

\* A blank line after data dispatches it as the latest event.
LEMMA DispatchKeepsOrder ==
    ASSUME NEW s, IsText(s), NEW k \in 0 .. Len(s) - 1, NEW acc, ReadUpTo(s, acc, k),
           acc.data # <<>>
    PROVE  LET events == Append(acc.events, acc.data)
           IN  /\ events \in Seq(Seq(Nat))
               /\ \A i \in 1 .. Len(events) :
                      \E p \in 1 .. k - 1 : IsData(s[p]) /\ events[i] = <<s[p].n>>
               /\ \A i, j \in 1 .. Len(events) : i < j => events[i][1] < events[j][1]
<1> DEFINE events == Append(acc.events, acc.data)
           m == Len(acc.events)
<1>1. acc.events \in Seq(Seq(Nat)) /\ acc.data \in Seq(Nat) /\ m \in Nat
  BY LenProperties DEF ReadUpTo, Readers
<1>2. /\ events \in Seq(Seq(Nat)) /\ Len(events) = m + 1
      /\ \A i \in 1 .. m : events[i] = acc.events[i]
      /\ events[m + 1] = acc.data
  BY <1>1, AppendProperties
<1>3. k - 1 \in 1 .. k - 1 /\ IsData(s[k - 1]) /\ acc.data = <<s[k - 1].n>> /\ k >= 2
  BY DEF ReadUpTo
<1> HIDE DEF events, m
<1>4. ASSUME NEW i \in 1 .. m
      PROVE  /\ \E p \in 1 .. k - 1 : IsData(s[p]) /\ events[i] = <<s[p].n>>
             /\ events[i][1] < events[m + 1][1]
  <2>1. PICK p \in 1 .. k - 2 : IsData(s[p]) /\ acc.events[i] = <<s[p].n>>
    BY DEF ReadUpTo, m
  <2>2. s[p].n < s[k - 1].n
    <3>1. p \in 1 .. Len(s) /\ k - 1 \in 1 .. Len(s) /\ p < k - 1
      BY <1>3 DEF IsText
    <3> QED
      BY <1>3, <2>1, <3>1 DEF IsText
  <2>3. events[i][1] = s[p].n /\ events[m + 1][1] = s[k - 1].n
    BY <1>2, <1>3, <2>1
  <2>4. p \in 1 .. k - 1
    OBVIOUS
  <2> QED
    BY <1>2, <2>1, <2>2, <2>3, <2>4
<1>5. ASSUME NEW i \in 1 .. m + 1, NEW j \in 1 .. m + 1, i < j
      PROVE  events[i][1] < events[j][1]
  <2>1. CASE j = m + 1
    BY <1>1, <1>4, <1>5, <2>1
  <2>2. CASE j \in 1 .. m
    <3>1. i \in 1 .. m
      BY <1>1, <1>5, <2>2
    <3> QED
      BY <1>2, <1>5, <2>2, <3>1 DEF ReadUpTo, m
  <2> QED
    BY <1>1, <2>1, <2>2
<1>6. ASSUME NEW i \in 1 .. m + 1
      PROVE  \E p \in 1 .. k - 1 : IsData(s[p]) /\ events[i] = <<s[p].n>>
  <2>1. CASE i = m + 1
    BY <1>2, <1>3, <2>1
  <2>2. CASE i \in 1 .. m
    BY <1>4, <2>2
  <2> QED
    BY <1>1, <2>1, <2>2
<1> QED
  BY <1>2, <1>5, <1>6 DEF events

\* Another unit is read.
LEMMA ReadNext ==
    ASSUME NEW s, IsText(s), NEW k \in 0 .. Len(s) - 1, NEW acc, ReadUpTo(s, acc, k)
    PROVE  ReadUpTo(s, ReadUnit(acc, s[k + 1]), k + 1)
<1> DEFINE u == s[k + 1]
<1>1. /\ acc \in Readers /\ u \in Units /\ Len(s) \in Nat /\ k + 1 \in 1 .. Len(s)
      /\ acc.line \in Units \cup {Empty} /\ acc.data \in Seq(Nat)
  <2>1. s \in Seq(Units) /\ Len(s) \in Nat /\ k + 1 \in 1 .. Len(s)
    BY LenProperties DEF IsText
  <2> QED
    BY <2>1, ElementOfSeq DEF ReadUpTo, Readers
<1>2. \A i \in 1 .. Len(acc.events) :
          \E p \in 1 .. (k + 1) - 2 : IsData(s[p]) /\ acc.events[i] = <<s[p].n>>
  <2>1. \A p \in 1 .. k - 2 : p \in 1 .. (k + 1) - 2
    OBVIOUS
  <2> QED
    BY <2>1 DEF ReadUpTo
<1>3. ASSUME s[k + 1] # NL
      PROVE  acc.data = <<>>
  <2> SUFFICES ASSUME acc.data # <<>> PROVE s[k + 1] = NL
    BY <1>3
  <2>1. k - 1 \in 1 .. Len(s) /\ IsData(s[k - 1]) /\ k - 1 < k + 1 /\ k + 1 <= (k - 1) + 2
    BY <1>1 DEF ReadUpTo
  <2> QED
    BY <1>1, <2>1 DEF IsText
<1>4. CASE u # NL
  <2>1. ReadUnit(acc, u) = [acc EXCEPT !.line = u]
    BY <1>4 DEF ReadUnit
  <2>2. acc.data = <<>>
    BY <1>3, <1>4
  <2> DEFINE new == [acc EXCEPT !.line = u]
  <2>3. new \in Readers /\ new.line = u /\ new.data = <<>> /\ new.events = acc.events
    BY <1>1, <2>2 DEF Readers
  <2> HIDE DEF new
  <2>4. ReadUpTo(s, new, k + 1)
    BY <1>1, <1>2, <1>4, <2>3 DEF ReadUpTo
  <2> QED
    BY <2>1, <2>4 DEF new
<1>5. CASE u = NL /\ IsData(acc.line)
  <2> DEFINE new == [acc EXCEPT !.data = Append(@, acc.line.n), !.line = Empty]
  <2>1. ReadUnit(acc, u) = new
    BY <1>1, <1>5 DEF ReadUnit, ReadLine, IsData, Readers
  <2>2. k # 0 /\ acc.line = s[k] /\ s[k] # NL /\ IsData(s[k])
    BY <1>5 DEF ReadUpTo, IsData, Empty
  <2>3. acc.data = <<>>
    BY <2>2 DEF ReadUpTo
  <2>4. s[k].n \in Nat
    BY <1>1, <2>2, UnitKinds DEF IsData
  <2>5. /\ new \in Readers /\ new.line = Empty /\ new.data = <<s[k].n>>
        /\ new.events = acc.events
    <3>1. Append(<<>>, s[k].n) = <<s[k].n>> /\ <<s[k].n>> \in Seq(Nat)
      BY <2>4
    <3> QED
      BY <1>1, <2>2, <2>3, <3>1 DEF Readers
  <2> HIDE DEF new
  <2>6. k + 1 >= 2 /\ (k + 1) - 1 = k
    BY <2>2
  <2>7. ReadUpTo(s, new, k + 1)
    BY <1>1, <1>2, <1>5, <2>2, <2>5, <2>6 DEF ReadUpTo
  <2> QED
    BY <2>1, <2>7
<1>6. CASE u = NL /\ acc.line = Empty /\ acc.data # <<>>
  <2> DEFINE events == Append(acc.events, acc.data)
             kept   == IF acc.named THEN events ELSE acc.events
             new    == [line |-> Empty, named |-> FALSE, data |-> <<>>, events |-> kept]
  <2>1. ReadUnit(acc, u) = new
    <3> HIDE DEF events
    <3>1. acc.line.kind = "empty"
      BY <1>6 DEF Empty
    <3>2. ReadLine(acc) = [acc EXCEPT !.events = kept, !.data = <<>>, !.named = FALSE]
      BY <1>6, <3>1 DEF ReadLine, events
    <3> HIDE DEF kept
    <3> QED
      BY <1>1, <1>6, <3>2 DEF ReadUnit, Readers
  <2>2. /\ events \in Seq(Seq(Nat))
        /\ \A i \in 1 .. Len(events) :
               \E p \in 1 .. k - 1 : IsData(s[p]) /\ events[i] = <<s[p].n>>
        /\ \A i, j \in 1 .. Len(events) : i < j => events[i][1] < events[j][1]
    BY <1>6, DispatchKeepsOrder
  <2> HIDE DEF events
  <2>3. acc.events \in Seq(Seq(Nat))
    BY <1>1 DEF Readers
  <2>4. (k + 1) - 2 = k - 1
    OBVIOUS
  <2>5. /\ kept \in Seq(Seq(Nat))
        /\ \A i \in 1 .. Len(kept) :
               \E p \in 1 .. (k + 1) - 2 : IsData(s[p]) /\ kept[i] = <<s[p].n>>
        /\ \A i, j \in 1 .. Len(kept) : i < j => kept[i][1] < kept[j][1]
    <3>1. CASE acc.named
      BY <2>2, <2>4, <3>1
    <3>2. CASE ~acc.named
      BY <1>2, <2>3, <3>2 DEF ReadUpTo
    <3> QED
      BY <3>1, <3>2
  <2> HIDE DEF kept
  <2>6. /\ new \in Readers /\ new.line = Empty /\ new.data = <<>> /\ new.events = kept
    BY <2>5 DEF Readers
  <2> HIDE DEF new
  <2>7. ReadUpTo(s, new, k + 1)
    BY <1>1, <1>6, <2>5, <2>6 DEF ReadUpTo
  <2> QED
    BY <2>1, <2>7
<1>7. CASE u = NL /\ ~IsData(acc.line) /\ ~(acc.line = Empty /\ acc.data # <<>>)
  <2> DEFINE new(b) == [acc EXCEPT !.line = Empty, !.named = b]
  <2>1. \E b \in BOOLEAN : ReadUnit(acc, u) = new(b)
    <3>1. acc.line = Empty <=> acc.line.kind = "empty"
      BY <1>1, UnitKinds
    <3>2. CASE acc.line.kind = "event"
      <4>1. ReadUnit(acc, u) = new(TRUE)
        BY <1>1, <1>7, <3>2 DEF ReadUnit, ReadLine, Readers
      <4> QED
        BY <4>1
    <3>3. CASE acc.line.kind # "event"
      <4>1. ReadLine(acc) = acc
        BY <1>7, <3>1, <3>3 DEF ReadLine, IsData
      <4>2. ReadUnit(acc, u) = new(acc.named)
        BY <1>1, <1>7, <4>1 DEF ReadUnit, Readers
      <4> QED
        BY <1>1, <4>2 DEF Readers
    <3> QED
      BY <3>2, <3>3
  <2>2. PICK b \in BOOLEAN : ReadUnit(acc, u) = new(b)
    BY <2>1
  <2>3. acc.data = <<>>
    <3> SUFFICES ASSUME acc.data # <<>> PROVE FALSE
      OBVIOUS
    <3>1. s[k] = NL /\ k # 0
      BY DEF ReadUpTo
    <3>2. acc.line = Empty
      BY <3>1 DEF ReadUpTo
    <3> QED
      BY <1>7, <3>2
  <2>4. /\ new(b) \in Readers /\ new(b).line = Empty /\ new(b).data = <<>>
        /\ new(b).events = acc.events
    BY <1>1, <2>3 DEF Readers
  <2> HIDE DEF new
  <2>5. ReadUpTo(s, new(b), k + 1)
    BY <1>1, <1>2, <1>7, <2>4 DEF ReadUpTo
  <2> QED
    BY <2>2, <2>5
<1> QED
  BY <1>4, <1>5, <1>6, <1>7

\* Of any text of the server's, events are heard in their order, each with the data of one
\* in the text and of no other.
LEMMA TextIsHeardInOrder ==
    ASSUME NEW text, IsText(text)
    PROVE  LET events == ReadText(text)
           IN  /\ events \in Seq(Seq(Nat))
               /\ \A i \in 1 .. Len(events) :
                      \E p \in 1 .. Len(text) : IsData(text[p]) /\ events[i] = <<text[p].n>>
               /\ \A i, j \in 1 .. Len(events) : i < j => events[i][1] < events[j][1]
<1> DEFINE s == Append(text, NL)
           N == Len(text) + 1
<1>1. text \in Seq(Units) /\ Len(text) \in Nat /\ NL \in Units
  BY LenProperties DEF IsText, Units
<1>2. /\ s \in Seq(Units) /\ Len(s) = N /\ s[N] = NL
      /\ \A p \in 1 .. Len(text) : s[p] = text[p]
  BY <1>1, AppendProperties
<1>3. PICK acc : Reading(s, acc) /\ ReadText(text) = acc[N].events
  BY <1>1, ReadTextReads
<1> HIDE DEF s
<1>4. ~IsData(NL)
  BY DEF IsData, NL
<1>5. IsText(s)
  <2> SUFFICES ASSUME NEW p \in 1 .. N, NEW q \in 1 .. N, IsData(s[p]), p < q
               PROVE  /\ q <= p + 2 => s[q] = NL
                      /\ IsData(s[q]) => s[p].n < s[q].n
    BY <1>2 DEF IsText
  <2>1. p \in 1 .. Len(text)
    BY <1>1, <1>2, <1>4
  <2>2. CASE q = N
    BY <1>2, <1>4, <2>2
  <2>3. CASE q \in 1 .. Len(text)
    BY <1>2, <2>1, <2>3 DEF IsText
  <2> QED
    BY <1>1, <2>2, <2>3
<1> DEFINE Read == {k \in 0 .. N : ReadUpTo(s, acc[k], k)}
<1>6. 0 \in Read
  <2>1. acc[0] = Unread
    BY <1>3 DEF Reading
  <2>2. Unread \in Readers /\ Unread.line = Empty /\ Unread.data = <<>> /\ Unread.events = <<>>
    BY DEF Unread, Readers
  <2>3. Len(<<>>) = 0 /\ 1 .. 0 = {}
    OBVIOUS
  <2>4. ReadUpTo(s, Unread, 0)
    BY <2>2, <2>3 DEF ReadUpTo
  <2> QED
    BY <1>1, <2>1, <2>4
<1>7. ASSUME NEW k \in 0 .. N - 1, k \in Read
      PROVE  k + 1 \in Read
  <2>1. k + 1 \in 1 .. N /\ (k + 1) - 1 = k /\ k \in 0 .. Len(s) - 1
    BY <1>1, <1>2
  <2>2. acc[k + 1] = ReadUnit(acc[k], s[k + 1])
    BY <1>2, <1>3, <2>1 DEF Reading
  <2>3. ReadUpTo(s, acc[k], k)
    BY <1>7
  <2>4. ReadUpTo(s, acc[k + 1], k + 1)
    BY <1>5, <2>1, <2>2, <2>3, ReadNext
  <2> QED
    BY <1>1, <2>1, <2>4
<1> HIDE DEF Read
<1>8. N \in Read
  <2>1. \A k \in 0 .. N : k \in Read
    BY <1>1, <1>6, <1>7, GoesOn, SMTT(30)
  <2> QED
    BY <1>1, <2>1
<1>9. ReadUpTo(s, acc[N], N)
  BY <1>8 DEF Read
<1>10. \A p \in 1 .. N - 2 : p \in 1 .. Len(text) /\ s[p] = text[p]
  BY <1>1, <1>2
<1> DEFINE events == ReadText(text)
<1>11. /\ events = acc[N].events /\ acc[N].events \in Seq(Seq(Nat))
       /\ \A i \in 1 .. Len(events) :
              \E p \in 1 .. N - 2 : IsData(s[p]) /\ events[i] = <<s[p].n>>
       /\ \A i, j \in 1 .. Len(events) : i < j => events[i][1] < events[j][1]
  BY <1>3, <1>9 DEF ReadUpTo, Readers
<1> HIDE DEF events, N
<1>12. \A i \in 1 .. Len(events) :
           \E p \in 1 .. Len(text) : IsData(text[p]) /\ events[i] = <<text[p].n>>
  BY <1>10, <1>11
<1> QED
  BY <1>11, <1>12 DEF events

-----------------------------------------------------------------------------
(***************************************************************************)
(* The answer.                                                             *)
(***************************************************************************)
Requests == [pending : BOOLEAN, status : {0, 200, 500}, answer : Seq(Units), got : Nat]

\* The answer of the present request is a text of the server's that ends with no event cut,
\* and what is to come of it are later events than the last one heard.
AnswerInv ==
    /\ sent \in Nat
    /\ xhr \in Requests
    /\ heard \in Seq(Seq(Nat))
    /\ Stream!LastHeard \in 0 .. sent
    /\ xhr.pending =>
           /\ xhr.got <= Len(xhr.answer)
           /\ IsText(xhr.answer)
           /\ \A p \in 1 .. Len(xhr.answer) :
                  IsData(xhr.answer[p]) =>
                      /\ p + 2 <= Len(xhr.answer)
                      /\ xhr.answer[p].n <= sent
                      /\ p > xhr.got => Stream!LastHeard < xhr.answer[p].n

\* A part of a text is one.
LEMMA PartIsText ==
    ASSUME NEW s, IsText(s), NEW a \in Nat, NEW n \in a .. Len(s)
    PROVE  /\ IsText(SubSeq(s, a + 1, n))
           /\ Len(SubSeq(s, a + 1, n)) = n - a
           /\ \A p \in 1 .. n - a : SubSeq(s, a + 1, n)[p] = s[a + p]
<1> DEFINE t == SubSeq(s, a + 1, n)
<1>1. s \in Seq(Units) /\ Len(s) \in Nat
  BY LenProperties DEF IsText
<1>2. /\ t \in Seq(Units) /\ Len(t) = n - a
      /\ \A p \in 1 .. n - a : t[p] = s[a + p]
  <2>1. \A i \in a + 1 .. n : s[i] \in Units
    BY <1>1, ElementOfSeq
  <2>2. a + 1 \in Int /\ n \in Int
    BY <1>1
  <2>3. t \in Seq(Units)
    BY <1>1, SubSeqProperties
  <2>4. Len(t) = n - a
    BY <1>1
  <2>5. \A p \in 1 .. n - a : t[p] = s[(a + 1) + p - 1]
    BY <1>1
  <2>6. \A p \in 1 .. n - a : (a + 1) + p - 1 = a + p
    OBVIOUS
  <2> QED
    BY <2>3, <2>4, <2>5, <2>6
<1> HIDE DEF t
<1>3. ASSUME NEW p \in 1 .. n - a, NEW q \in 1 .. n - a, IsData(t[p]), p < q
      PROVE  /\ q <= p + 2 => t[q] = NL
             /\ IsData(t[q]) => t[p].n < t[q].n
  <2>1. /\ a + p \in 1 .. Len(s) /\ a + q \in 1 .. Len(s) /\ a + p < a + q
        /\ q <= p + 2 => a + q <= (a + p) + 2
    BY <1>1, <1>3
  <2> QED
    BY <1>2, <1>3, <2>1 DEF IsText
<1>4. IsText(t)
  BY <1>2, <1>3 DEF IsText
<1> QED
  BY <1>2, <1>4 DEF t

\* The server appends an event later than those before.
LEMMA LongerIsText ==
    ASSUME NEW s, IsText(s), NEW m \in Nat,
           \A p \in 1 .. Len(s) : IsData(s[p]) => p + 2 <= Len(s) /\ s[p].n < m
    PROVE  LET t == s \o EventText(m)
           IN  /\ IsText(t) /\ Len(t) = Len(s) + 5
               /\ \A p \in 1 .. Len(s) : t[p] = s[p]
               /\ \A p \in 1 .. 5 : t[Len(s) + p] = EventText(m)[p]
               /\ \A p \in 1 .. Len(t) : IsData(t[p]) =>
                      /\ p + 2 <= Len(t)
                      /\ p \in 1 .. Len(s) \/ (p = Len(s) + 3 /\ t[p] = Data(m))
<1> DEFINE t == s \o EventText(m)
           L == Len(s)
<1>1. s \in Seq(Units) /\ L \in Nat
  BY LenProperties DEF IsText
<1>2. /\ EventText(m) \in Seq(Units) /\ Len(EventText(m)) = 5
      /\ EventText(m)[1] = Named(m) /\ EventText(m)[2] = NL /\ EventText(m)[3] = Data(m)
      /\ EventText(m)[4] = NL /\ EventText(m)[5] = NL
  <2>1. Named(m) \in Units /\ NL \in Units /\ Data(m) \in Units
    BY DEF Units
  <2> QED
    BY <2>1 DEF EventText
<1>3. /\ t \in Seq(Units) /\ Len(t) = L + 5
      /\ \A p \in 1 .. L : t[p] = s[p]
      /\ \A p \in 1 .. 5 : t[L + p] = EventText(m)[p]
  <2> DEFINE e == EventText(m)
  <2> HIDE DEF e
  <2>1. \A p \in 1 .. L + 5 : t[p] = IF p <= L THEN s[p] ELSE e[p - L]
    <3>1. e \in Seq(Units) /\ Len(e) = 5
      BY <1>2 DEF e
    <3>2. \A p \in 1 .. Len(s) + Len(e) : (s \o e)[p] = IF p <= Len(s) THEN s[p] ELSE e[p - Len(s)]
      BY <1>1, <3>1, ConcatProperties
    <3> QED
      BY <3>1, <3>2 DEF e
  <2>2. t \in Seq(Units) /\ Len(t) = L + 5
    BY <1>1, <1>2, ConcatProperties, ZenonT(60)
  <2>3. ASSUME NEW p \in 1 .. 5 PROVE t[L + p] = EventText(m)[p]
    <3>1. L + p \in 1 .. L + 5 /\ ~(L + p <= L) /\ (L + p) - L = p
      BY <1>1
    <3> QED
      BY <2>1, <3>1 DEF e
  <2> HIDE DEF t
  <2> QED
    BY <1>1, <2>1, <2>2, <2>3
<1> HIDE DEF t, L
<1>4. ~IsData(NL) /\ ~IsData(Named(m)) /\ IsData(Data(m)) /\ Data(m).n = m
  BY DEF IsData, NL, Named, Data
<1>5. \A p \in 1 .. L + 5 : p \in 1 .. L \/ p \in {L + 1, L + 2, L + 3, L + 4, L + 5}
  BY <1>1
<1>6. /\ t[L + 1] = Named(m) /\ t[L + 2] = NL /\ t[L + 3] = Data(m)
      /\ t[L + 4] = NL /\ t[L + 5] = NL
  BY <1>2, <1>3
<1>7. ASSUME NEW p \in 1 .. L + 5, IsData(t[p])
      PROVE  /\ p + 2 <= L + 5
             /\ (p \in 1 .. L /\ p + 2 <= L /\ s[p].n < m) \/ (p = L + 3 /\ t[p] = Data(m))
  <2>1. CASE p \in 1 .. L
    <3>1. p + 2 <= L /\ s[p].n < m
      BY <1>3, <1>7, <2>1 DEF L
    <3> QED
      BY <1>1, <2>1, <3>1
  <2>2. CASE p \in {L + 1, L + 2, L + 3, L + 4, L + 5}
    <3>1. p = L + 3
      BY <1>4, <1>6, <1>7, <2>2
    <3> QED
      BY <1>1, <1>6, <3>1
  <2> QED
    BY <1>5, <2>1, <2>2
<1>8. ASSUME NEW p \in 1 .. L + 5, NEW q \in 1 .. L + 5, IsData(t[p]), p < q
      PROVE  /\ q <= p + 2 => t[q] = NL
             /\ IsData(t[q]) => t[p].n < t[q].n
  <2>1. CASE q \in 1 .. L
    <3>1. p \in 1 .. L
      BY <1>1, <1>8, <2>1
    <3> QED
      BY <1>3, <1>8, <2>1, <3>1 DEF IsText, L
  <2>2. CASE q \notin 1 .. L
    <3>1. CASE p = L + 3
      <4>1. q \in {L + 4, L + 5}
        BY <1>1, <1>5, <1>8, <3>1
      <4> QED
        BY <1>4, <1>6, <4>1
    <3>2. CASE p \in 1 .. L /\ p + 2 <= L /\ s[p].n < m
      <4>1. ~(q <= p + 2)
        BY <1>1, <2>2, <3>2
      <4>2. IsData(t[q]) => t[q] = Data(m)
        BY <1>7, <2>2
      <4> QED
        BY <1>3, <1>4, <3>2, <4>1, <4>2
    <3> QED
      BY <1>7, <1>8, <3>1, <3>2
  <2> QED
    BY <2>1, <2>2
<1>9. IsText(t)
  BY <1>3, <1>8 DEF IsText
<1> QED
  BY <1>3, <1>7, <1>9 DEF t, L

-----------------------------------------------------------------------------
(***************************************************************************)
(* The EventSource is an event stream.                                     *)
(***************************************************************************)
\* Numbers that increase from one above a on are as many at most as there are up to b.
LEMMA IncreasingIsShort ==
    ASSUME NEW a \in Nat, NEW b \in Nat, a <= b, NEW H \in Nat, NEW new \in [1 .. H -> a + 1 .. b],
           \A i, j \in 1 .. H : i < j => new[i] < new[j]
    PROVE  H \in 0 .. b - a
<1> DEFINE S == {k \in 0 .. H : k = 0 \/ new[k] >= a + k}
<1>1. 0 \in S
  OBVIOUS
<1>2. ASSUME NEW k \in 0 .. H - 1, k \in S
      PROVE  k + 1 \in S
  <2>1. k + 1 \in 1 .. H /\ new[k + 1] \in a + 1 .. b
    OBVIOUS
  <2>2. CASE k = 0
    BY <2>1, <2>2
  <2>3. CASE k \in 1 .. H
    <3>1. new[k] < new[k + 1] /\ new[k] >= a + k /\ new[k] \in a + 1 .. b
      BY <1>2, <2>1, <2>3
    <3> QED
      BY <2>1, <3>1
  <2> QED
    BY <2>2, <2>3
<1>3. H \in S
  <2> HIDE DEF S
  <2>1. \A k \in 0 .. H : k \in S
    BY <1>1, <1>2, GoesOn
  <2> QED
    BY <2>1
<1>4. CASE H = 0
  BY <1>4
<1>5. CASE H # 0
  <2>1. H \in 1 .. H
    BY <1>5
  <2>2. new[H] \in a + 1 .. b /\ new[H] >= a + H
    BY <1>3, <1>5, <2>1
  <2> QED
    BY <2>2
<1> QED
  BY <1>4, <1>5

\* What is heard of the units a + 1 .. n of an answer.
LEMMA PartIsHeard ==
    ASSUME NEW answer, IsText(answer), NEW a \in Nat, NEW n \in a .. Len(answer)
    PROVE  LET h == Heard(SubSeq(answer, a + 1, n))
           IN  /\ h \in Seq(Seq(Nat))
               /\ \A i \in 1 .. Len(h) :
                      \E q \in a + 1 .. n : IsData(answer[q]) /\ h[i] = <<answer[q].n>>
               /\ \A i, j \in 1 .. Len(h) : i < j => h[i][1] < h[j][1]
<1> DEFINE text == SubSeq(answer, a + 1, n)
           r    == ReadText(text)
           h    == Heard(text)
<1>1. IsText(text) /\ Len(text) = n - a /\ \A p \in 1 .. n - a : text[p] = answer[a + p]
  BY PartIsText
<1> HIDE DEF text
<1>2. /\ r \in Seq(Seq(Nat))
      /\ \A i \in 1 .. Len(r) :
             \E p \in 1 .. Len(text) : IsData(text[p]) /\ r[i] = <<text[p].n>>
      /\ \A i, j \in 1 .. Len(r) : i < j => r[i][1] < r[j][1]
  BY <1>1, TextIsHeardInOrder
<1>3. CASE listening
  <2>1. h = r
    BY <1>3 DEF Heard
  <2>2. Len(answer) \in Nat
    BY LenProperties DEF IsText
  <2> HIDE DEF h, r
  <2>3. ASSUME NEW i \in 1 .. Len(h)
        PROVE  \E q \in a + 1 .. n : IsData(answer[q]) /\ h[i] = <<answer[q].n>>
    <3>1. PICK p \in 1 .. Len(text) : IsData(text[p]) /\ h[i] = <<text[p].n>>
      BY <1>2, <2>1
    <3>2. a + p \in a + 1 .. n /\ text[p] = answer[a + p]
      BY <1>1, <2>2
    <3> QED
      BY <3>1, <3>2
  <2> QED
    BY <1>2, <2>1, <2>3 DEF h, text
<1>4. CASE ~listening
  <2>1. h = <<>> /\ Len(<<>>) = 0 /\ 1 .. 0 = {} /\ <<>> \in Seq(Seq(Nat))
    BY <1>4 DEF Heard
  <2> QED
    BY <2>1 DEF text
<1> QED
  BY <1>3, <1>4

\* Text that arrives is a step in which the listener hears of some later events.
LEMMA TextIsHear ==
    ASSUME SourceInv, AnswerInv, xhr.pending, NEW n \in xhr.got .. Len(xhr.answer),
           NEW last \in BOOLEAN, OnText(n, last), sent' = sent
    PROVE  AnswerInv' /\ Stream!Hear
<1> DEFINE answer == xhr.answer
           h      == Heard(SubSeq(answer, xhr.got + 1, n))
           H      == Len(h)
           new    == [i \in 1 .. H |-> h[i][1]]
           old    == Stream!LastHeard
<1>1. /\ xhr \in Requests /\ xhr.got \in Nat /\ IsText(answer) /\ Len(answer) \in Nat
      /\ sent \in Nat /\ old \in Nat /\ old <= sent
      /\ heard \in Seq(Seq(Nat)) /\ Len(heard) \in Nat
  <2>1. IsText(answer) /\ xhr \in Requests /\ sent \in Nat /\ old \in 0 .. sent
    BY DEF AnswerInv
  <2>2. answer \in Seq(Units) /\ Len(answer) \in Nat
    BY <2>1, LenProperties DEF IsText
  <2> QED
    BY <2>1, <2>2, LenProperties DEF AnswerInv, Requests
<1>2. ASSUME NEW p \in 1 .. Len(answer), IsData(answer[p])
       PROVE  /\ answer[p].n \in Nat /\ answer[p].n <= sent /\ p + 2 <= Len(answer)
              /\ p > xhr.got => old < answer[p].n
  <2>1. answer \in Seq(Units)
    BY <1>1 DEF IsText
  <2>2. answer[p] \in Units
    BY <2>1, ElementOfSeq
  <2>3. answer[p].n \in Nat
    BY <1>2, <2>2, UnitKinds DEF IsData
  <2>4. \A k \in 1 .. Len(answer) :
            IsData(answer[k]) =>
                /\ k + 2 <= Len(answer)
                /\ answer[k].n <= sent
                /\ k > xhr.got => old < answer[k].n
    BY DEF AnswerInv
  <2> HIDE DEF answer, old
  <2> QED
    BY <1>2, <2>3, <2>4
<1>3. /\ heard' = heard \o h
      /\ xhr' = [xhr EXCEPT !.got = n, !.pending = ~last]
      /\ readyState' = IF readyState = "CONNECTING" THEN "OPEN" ELSE readyState
  BY DEF OnText
<1>4. /\ h \in Seq(Seq(Nat))
      /\ \A i \in 1 .. H :
             \E q \in xhr.got + 1 .. n : IsData(answer[q]) /\ h[i] = <<answer[q].n>>
      /\ \A i, j \in 1 .. H : i < j => h[i][1] < h[j][1]
  BY <1>1, PartIsHeard
<1> HIDE DEF answer, h, old
<1>5. H \in Nat
  BY <1>4, LenProperties
<1>6. ASSUME NEW i \in 1 .. H
      PROVE  /\ h[i] = <<new[i]>> /\ new[i] \in old + 1 .. sent
             /\ \E q \in xhr.got + 1 .. n : IsData(answer[q]) /\ new[i] = answer[q].n
  <2>1. PICK q \in xhr.got + 1 .. n : IsData(answer[q]) /\ h[i] = <<answer[q].n>>
    BY <1>4
  <2>2. q \in 1 .. Len(answer) /\ q > xhr.got
    BY <1>1 DEF answer
  <2>3. answer[q].n \in Nat /\ answer[q].n <= sent /\ old < answer[q].n
    BY <1>2, <2>1, <2>2
  <2>4. h[i][1] = answer[q].n
    BY <2>1
  <2>5. new[i] = answer[q].n
    BY <2>4
  <2> HIDE DEF new
  <2> QED
    BY <1>1, <2>1, <2>3, <2>5, SMTT(30)
<1>7. new \in [1 .. H -> old + 1 .. sent] /\ \A i, j \in 1 .. H : i < j => new[i] < new[j]
  BY <1>4, <1>6
<1>8. h = [i \in 1 .. H |-> <<new[i]>>]
  <2>1. h = [i \in 1 .. H |-> h[i]]
    BY <1>4
  <2> HIDE DEF new, H
  <2> QED
    BY <1>6, <2>1
<1>9. H \in 0 .. sent - old
  <2> HIDE DEF H, new
  <2> QED
    BY <1>1, <1>5, <1>7, IncreasingIsShort
<1> HIDE DEF H
<1>10. Stream!Hear
  <2>1. readyState \in {"CONNECTING", "OPEN"}
    BY DEF SourceInv, OneGoesOn
  <2>2. state # "closed" /\ state' = "open"
    BY <1>3, <2>1 DEF state
  <2> HIDE DEF new
  <2>3. DOMAIN new = 1 .. H
    BY <1>7
  <2>4. Stream!Increasing(new)
    BY <1>7, <2>3 DEF Stream!Increasing
  <2>5. heard' = heard \o [i \in 1 .. H |-> <<new[i]>>]
    BY <1>3, <1>8
  <2> QED
    BY <1>7, <1>9, <2>2, <2>4, <2>5 DEF Stream!Hear, old
<1> HIDE DEF new
<1>11. /\ heard' \in Seq(Seq(Nat))
       /\ Stream!LastHeard' = IF H = 0 THEN old ELSE new[H]
  <2>1. heard' \in Seq(Seq(Nat)) /\ Len(heard') = Len(heard) + H
    BY <1>1, <1>3, <1>4, ConcatProperties DEF H
  <2>2. CASE H = 0
    <3>1. heard' = heard
      <4>1. h = <<>>
        BY <1>4, <2>2, EmptySeq DEF H
      <4> QED
        BY <1>1, <1>3, <4>1, ConcatEmptySeq
    <3> QED
      BY <2>1, <2>2, <3>1 DEF Stream!LastHeard, old
  <2>3. CASE H # 0
    <3>1. heard' # <<>>
      BY <1>1, <1>5, <2>1, <2>3
    <3>2. heard'[Len(heard) + H] = h[H]
      <4>1. Len(heard) + H \in 1 .. Len(heard) + H /\ ~(Len(heard) + H <= Len(heard))
            /\ (Len(heard) + H) - Len(heard) = H
        BY <1>1, <1>5, <2>3
      <4>2. \A i \in 1 .. Len(heard) + Len(h) :
                (heard \o h)[i] = IF i <= Len(heard) THEN heard[i] ELSE h[i - Len(heard)]
        BY <1>1, <1>4, ConcatProperties
      <4> QED
        BY <1>3, <4>1, <4>2 DEF H
    <3>3. h[H] = <<new[H]>> /\ <<new[H]>>[1] = new[H]
      BY <1>5, <1>6, <2>3
    <3> QED
      BY <2>1, <2>3, <3>1, <3>2, <3>3 DEF Stream!LastHeard
  <2> QED
    BY <2>2, <2>3
<1>12. /\ Stream!LastHeard' \in 0 .. sent
       /\ \A p \in 1 .. Len(answer) : IsData(answer[p]) /\ p > n => Stream!LastHeard' < answer[p].n
  <2>1. CASE H = 0
    BY <1>1, <1>3, <1>11, <1>2, <2>1
  <2>2. CASE H # 0
    <3>1. PICK q \in xhr.got + 1 .. n : IsData(answer[q]) /\ new[H] = answer[q].n
      BY <1>5, <1>6, <2>2
    <3>2. new[H] \in 0 .. sent /\ q \in 1 .. Len(answer)
      BY <1>1, <1>5, <1>6, <2>2, SMTT(30) DEF answer
    <3>3. ASSUME NEW p \in 1 .. Len(answer), IsData(answer[p]), p > n
          PROVE  answer[q].n < answer[p].n
      <4>1. q < p
        BY <1>1, <3>3
      <4> QED
        BY <1>1, <3>1, <3>2, <3>3, <4>1 DEF IsText
    <3> QED
      BY <1>11, <2>2, <3>1, <3>2, <3>3
  <2> QED
    BY <2>1, <2>2
<1>13. n \in Nat /\ n <= Len(answer)
  BY <1>1 DEF answer
<1>14. /\ xhr' \in Requests /\ xhr'.answer = answer /\ xhr'.got = n
  <2> DEFINE b == ~last
  <2>1. b \in BOOLEAN /\ xhr' = [xhr EXCEPT !.got = n, !.pending = b]
    BY <1>3
  <2> HIDE DEF b
  <2> QED
    BY <1>1, <1>13, <2>1, ZenonT(60) DEF Requests, answer
<1>15. AnswerInv'
  BY <1>1, <1>11, <1>12, <1>13, <1>14, <1>2 DEF AnswerInv
<1> QED
  BY <1>10, <1>15

\* A request begins without an answer, which is a text.
LEMMA NoAnswerIsText ==
    /\ NewRequest \in Requests /\ NewRequest.pending
    /\ NewRequest.got = 0 /\ NewRequest.answer = <<>> /\ NewRequest.status = 0
    /\ Len(<<>>) = 0 /\ 1 .. 0 = {} /\ IsText(<<>>)
<1>1. Len(<<>>) = 0 /\ 1 .. 0 = {} /\ <<>> \in Seq(Units)
  OBVIOUS
<1>2. NoRequest \in Requests
  BY <1>1 DEF NoRequest, Requests
<1>3. NewRequest \in Requests
  BY <1>2, ZenonT(60) DEF NewRequest, Requests
<1>4. NewRequest.pending /\ NewRequest.got = NoRequest.got
  BY <1>2 DEF NewRequest, Requests
<1>5. NewRequest.answer = NoRequest.answer /\ NewRequest.status = NoRequest.status
  BY <1>2 DEF NewRequest, Requests
<1>6. NoRequest.got = 0 /\ NoRequest.answer = <<>> /\ NoRequest.status = 0
  BY DEF NoRequest
<1>7. IsText(<<>>)
  BY <1>1 DEF IsText
<1> QED
  BY <1>1, <1>3, <1>4, <1>5, <1>6, <1>7

\* What neither adds to the answer nor is heard.
LEMMA AnswerKept ==
    ASSUME AnswerInv, UNCHANGED <<sent, heard>>,
           xhr' = xhr \/ xhr' = NewRequest \/ xhr' = [xhr EXCEPT !.pending = FALSE]
    PROVE  AnswerInv'
<1>1. Stream!LastHeard' = Stream!LastHeard
  BY DEF Stream!LastHeard
<1>2. CASE xhr' = xhr
  BY <1>1, <1>2 DEF AnswerInv
<1>3. CASE xhr' = NewRequest
  BY <1>1, <1>3, NoAnswerIsText DEF AnswerInv
<1>4. CASE xhr' = [xhr EXCEPT !.pending = FALSE]
  <2>1. xhr' \in Requests /\ xhr'.pending = FALSE
    BY <1>4, ZenonT(60) DEF AnswerInv, Requests
  <2> QED
    BY <1>1, <2>1 DEF AnswerInv
<1> QED
  BY <1>2, <1>3, <1>4

\* A datapoint is sent, whether there is an answer to write it to or not.
LEMMA PublishIsSend ==
    ASSUME AnswerInv, Publish
    PROVE  AnswerInv' /\ Stream!Send
<1>1. /\ sent \in Nat /\ sent' = sent + 1 /\ UNCHANGED <<heard, readyState>>
      /\ xhr \in Requests /\ Stream!LastHeard \in 0 .. sent
  BY DEF Publish, AnswerInv
<1>2. Stream!LastHeard' = Stream!LastHeard
  BY <1>1 DEF Stream!LastHeard
<1>3. Stream!Send
  <2>1. state' = state
    BY <1>1 DEF state
  <2> QED
    BY <1>1, <2>1 DEF Stream!Send, Publish
<1>4. CASE ~Streaming
  <2>1. xhr' = xhr
    BY <1>4 DEF Publish
  <2>2. xhr.answer \in Seq(Units)
    BY <1>1 DEF Requests
  <2>3. ASSUME NEW p \in 1 .. Len(xhr.answer), IsData(xhr.answer[p])
        PROVE  xhr.answer[p].n \in Nat
    BY <2>2, <2>3, ElementOfSeq, UnitKinds DEF IsData
  <2> QED
    BY <1>1, <1>2, <1>3, <2>1, <2>3 DEF AnswerInv
<1>5. CASE Streaming
  <2> DEFINE s == xhr.answer
             t == s \o EventText(sent + 1)
  <2>1. /\ IsText(s) /\ s \in Seq(Units) /\ Len(s) \in Nat /\ xhr.got \in Nat
        /\ xhr.got <= Len(s) /\ xhr.pending = TRUE
    <3>1. IsText(s) /\ s \in Seq(Units) /\ xhr.got \in Nat /\ xhr.got <= Len(s)
      BY <1>1, <1>5 DEF AnswerInv, Streaming, Requests
    <3> QED
      BY <1>1, <1>5, <3>1, LenProperties DEF Streaming, Requests
  <2>2. \A p \in 1 .. Len(s) : IsData(s[p]) =>
            /\ p + 2 <= Len(s) /\ s[p].n \in Nat /\ s[p].n <= sent
            /\ p > xhr.got => Stream!LastHeard < s[p].n
    <3> SUFFICES ASSUME NEW p \in 1 .. Len(s), IsData(s[p])
                 PROVE  /\ p + 2 <= Len(s) /\ s[p].n \in Nat /\ s[p].n <= sent
                        /\ p > xhr.got => Stream!LastHeard < s[p].n
      OBVIOUS
    <3>1. s[p].n \in Nat
      BY <2>1, ElementOfSeq, UnitKinds DEF IsData
    <3> QED
      BY <1>5, <3>1 DEF AnswerInv, Streaming
  <2>3. xhr' = [xhr EXCEPT !.status = 200, !.answer = t]
    BY <1>5 DEF Publish
  <2> HIDE DEF s
  <2>4. /\ IsText(t) /\ Len(t) = Len(s) + 5
        /\ \A p \in 1 .. Len(s) : t[p] = s[p]
        /\ \A p \in 1 .. Len(t) : IsData(t[p]) =>
               /\ p + 2 <= Len(t)
               /\ p \in 1 .. Len(s) \/ (p = Len(s) + 3 /\ t[p] = Data(sent + 1))
    <3>1. sent + 1 \in Nat /\ \A p \in 1 .. Len(s) :
              IsData(s[p]) => p + 2 <= Len(s) /\ s[p].n < sent + 1
      BY <1>1, <2>2
    <3> QED
      BY <2>1, <3>1, LongerIsText
  <2> HIDE DEF t
  <2>5. /\ xhr' \in Requests /\ xhr'.answer = t /\ xhr'.got = xhr.got
    <3>1. t \in Seq(Units)
      BY <2>4 DEF IsText
    <3>2. xhr' \in Requests
      BY <1>1, <2>3, <3>1, ZenonT(60) DEF Requests
    <3>3. xhr'.answer = t /\ xhr'.got = xhr.got
      BY <1>1, <2>3 DEF Requests
    <3> QED
      BY <3>2, <3>3
  <2>6. ASSUME NEW p \in 1 .. Len(t), IsData(t[p])
        PROVE  /\ p + 2 <= Len(t)
               /\ t[p].n <= sent + 1
               /\ p > xhr.got => Stream!LastHeard < t[p].n
    <3>1. CASE p \in 1 .. Len(s)
      BY <1>1, <2>1, <2>2, <2>4, <2>6, <3>1
    <3>2. CASE t[p] = Data(sent + 1)
      <4>1. t[p].n = sent + 1
        BY <3>2 DEF Data
      <4> QED
        BY <1>1, <2>4, <2>6, <4>1
    <3> QED
      BY <2>4, <2>6, <3>1, <3>2
  <2>7. xhr.got <= Len(t) /\ sent + 1 \in Nat /\ Stream!LastHeard \in 0 .. sent + 1
    BY <1>1, <2>1, <2>4
  <2>8. AnswerInv'
    BY <1>1, <1>2, <2>4, <2>5, <2>6, <2>7 DEF AnswerInv
  <2> QED
    BY <1>3, <2>8
<1> QED
  BY <1>4, <1>5

\* A request that fails is a connection lost.
LEMMA ErrorIsLose ==
    ASSUME SourceInv, AnswerInv, xhr.pending, OnError, sent' = sent
    PROVE  AnswerInv' /\ Stream!Lose
<1>1. readyState \in {"CONNECTING", "OPEN"} /\ readyState' = "CONNECTING"
  BY DEF SourceInv, OneGoesOn, OnError
<1>2. state # "closed" /\ state' = "connecting"
  BY <1>1 DEF state
<1>3. UNCHANGED <<sent, heard>> /\ xhr' = [xhr EXCEPT !.pending = FALSE]
  BY DEF OnError
<1> QED
  BY <1>2, <1>3, AnswerKept DEF Stream!Lose

\* Every step of the source is one of the stream, or none.
LEMMA SourceStepsAreStream ==
    ASSUME SourceInv, AnswerInv, [Next]_vars
    PROVE  AnswerInv' /\ [Stream!Next]_(Stream!vars)
<1>1. ASSUME UNCHANGED readyState PROVE UNCHANGED state
  BY <1>1 DEF state
<1>2. CASE Poll
  <2>1. UNCHANGED <<readyState, sent, heard>> /\ (xhr' = xhr \/ xhr' = NewRequest)
    BY <1>2 DEF Poll
  <2> QED
    BY <1>1, <2>1, AnswerKept DEF Stream!vars
<1>3. CASE Publish
  BY <1>3, PublishIsSend DEF Stream!Next
<1>4. CASE Chunk
  <2>1. PICK n \in xhr.got + 1 .. Len(xhr.answer) : OnText(n, FALSE)
    BY <1>4 DEF Chunk
  <2>2. xhr.pending /\ sent' = sent /\ n \in xhr.got .. Len(xhr.answer)
    <3>1. xhr.got \in Nat
      BY DEF AnswerInv, Requests
    <3> QED
      BY <1>4, <3>1 DEF Chunk
  <2> QED
    BY <2>1, <2>2, TextIsHear DEF Stream!Next
<1>5. CASE Refuse
  <2>1. /\ xhr' = [xhr EXCEPT !.status = 500, !.answer = <<Error>>]
        /\ UNCHANGED <<readyState, sent, heard>>
    BY <1>5 DEF Refuse
  <2>2. Stream!LastHeard' = Stream!LastHeard
    BY <2>1 DEF Stream!LastHeard
  <2>3. /\ <<Error>> \in Seq(Units) /\ Len(<<Error>>) = 1
        /\ \A p \in 1 .. 1 : ~IsData(<<Error>>[p])
    BY DEF IsData, Error, Units
  <2>4. IsText(<<Error>>)
    BY <2>3 DEF IsText
  <2>5. xhr' \in Requests /\ xhr'.answer = <<Error>> /\ xhr'.got = 0
    <3>1. Len(xhr.answer) = 0 /\ xhr.got <= Len(xhr.answer) /\ xhr \in Requests
      BY <1>5 DEF Refuse, AnswerInv
    <3>2. xhr.got = 0
      BY <3>1 DEF Requests
    <3> DEFINE text == <<Error>>
    <3>3. text \in Seq(Units) /\ xhr' = [xhr EXCEPT !.status = 500, !.answer = text]
      BY <2>1, <2>3
    <3> HIDE DEF text
    <3>4. xhr' \in Requests
      <4>1. xhr \in Requests /\ text \in Seq(Units)
        BY <3>1, <3>3
      <4> DEFINE code == 500
      <4>2. code \in {0, 200, 500}
        OBVIOUS
      <4> HIDE DEF code
      <4>3. [xhr EXCEPT !.status = code, !.answer = text] \in Requests
        BY <4>1, <4>2, ZenonT(60) DEF Requests
      <4> QED
        BY <3>3, <4>3 DEF code
    <3>5. xhr'.answer = text /\ xhr'.got = xhr.got
      BY <3>1, <3>3 DEF Requests
    <3> QED
      BY <3>2, <3>4, <3>5 DEF text
  <2>6. AnswerInv'
    BY <2>1, <2>2, <2>3, <2>4, <2>5 DEF AnswerInv
  <2> QED
    BY <1>1, <2>1, <2>6 DEF Stream!vars
<1>6. CASE Refused
  BY <1>6, ErrorIsLose DEF Refused, Stream!Next
<1>7. CASE End
  <2>1. OnText(Len(xhr.answer), TRUE) /\ xhr.pending /\ sent' = sent
    BY <1>7 DEF End, Streaming
  <2>2. Len(xhr.answer) \in xhr.got .. Len(xhr.answer)
    <3>1. xhr.got \in Nat /\ xhr.got <= Len(xhr.answer) /\ xhr.answer \in Seq(Units)
      BY <2>1 DEF AnswerInv, Requests
    <3>2. Len(xhr.answer) \in Nat
      BY <3>1, LenProperties
    <3> QED
      BY <3>1, <3>2
  <2> QED
    BY <2>1, <2>2, TextIsHear DEF Stream!Next
<1>8. CASE BreakOrTimeout
  BY <1>8, ErrorIsLose DEF BreakOrTimeout, Stream!Next
<1>9. CASE Close
  <2>1. /\ readyState' = "CLOSED" /\ UNCHANGED <<sent, heard>>
        /\ xhr' = [xhr EXCEPT !.pending = FALSE]
    BY <1>9 DEF Close
  <2>2. state' = "closed"
    BY <2>1 DEF state
  <2> QED
    BY <2>1, <2>2, AnswerKept DEF Stream!Close, Stream!Next
<1>10. CASE AddEventListener \/ RemoveEventListener \/ UNCHANGED vars
  <2>1. UNCHANGED <<readyState, xhr, sent, heard>>
    BY <1>10 DEF AddEventListener, RemoveEventListener, vars
  <2> QED
    BY <1>1, <2>1, AnswerKept DEF Stream!vars
<1> QED
  BY <1>2, <1>3, <1>4, <1>5, <1>6, <1>7, <1>8, <1>9, <1>10 DEF Next

\* The first states.
LEMMA StreamInits == Init => SourceInv /\ AnswerInv /\ Stream!Init
<1> SUFFICES ASSUME Init PROVE SourceInv /\ AnswerInv /\ Stream!Init
  OBVIOUS
<1>1. xhr = NewRequest /\ sent = 0 /\ heard = <<>> /\ readyState = "CONNECTING"
  BY DEF Init
<1>2. SourceInv
  BY DEF Init, NewRequest, NoRequest, SourceInv, OneGoesOn
<1>3. Stream!LastHeard = 0
  BY <1>1 DEF Stream!LastHeard
<1>4. AnswerInv
  BY <1>1, <1>3, NoAnswerIsText DEF AnswerInv
<1>5. Stream!Init
  BY <1>1 DEF Stream!Init, state
<1> QED
  BY <1>2, <1>4, <1>5

(***************************************************************************)
(* IsEventStream, wherever the network cuts the answers: a listener hears  *)
(* of what was sent, each event at most once, with its own data and in the *)
(* order sent, whether it is read from a part of an answer, from the next  *)
(* answer or from the page of an error; and of nothing after close()       *)
(* (eventsource.js:46-106, 123-143).                                       *)
(***************************************************************************)
THEOREM SourceIsEventStream == Spec => IsEventStream
<1> QED
  BY StreamInits, SourceSteps, SourceStepsAreStream, PTL DEF Spec, IsEventStream, Stream!Spec

-----------------------------------------------------------------------------
(***************************************************************************)
(* Whole events.                                                           *)
(***************************************************************************)
\* A text of K events.
IsWhole(s, K) ==
    /\ s \in Seq(Units)
    /\ Len(s) = 5 * K
    /\ \A k \in 0 .. K - 1 :
           /\ s[5 * k + 1].kind = "event" /\ s[5 * k + 2] = NL
           /\ s[5 * k + 3].kind = "data"  /\ s[5 * k + 4] = NL /\ s[5 * k + 5] = NL

\* Between two events nothing is kept but the events there were.
Between(acc, events) ==
    acc \in Readers /\ acc.line = Empty /\ acc.data = <<>> /\ acc.events = events

\* The text of a line is kept until its newline.
LEMMA LineIsRead ==
    ASSUME NEW acc \in Readers, NEW u \in Units, u # NL, NEW new, new = ReadUnit(acc, u)
    PROVE  /\ new \in Readers /\ new.line = u
           /\ new.named = acc.named /\ new.data = acc.data /\ new.events = acc.events
<1>1. new = [acc EXCEPT !.line = u]
  BY DEF ReadUnit
<1> QED
  BY <1>1 DEF Readers

\* Five units are one event.
LEMMA EventIsRead ==
    ASSUME NEW events, NEW a0, Between(a0, events),
           NEW name \in Units, name.kind = "event", NEW data \in Units, data.kind = "data",
           NEW a1, a1 = ReadUnit(a0, name), NEW a2, a2 = ReadUnit(a1, NL),
           NEW a3, a3 = ReadUnit(a2, data), NEW a4, a4 = ReadUnit(a3, NL),
           NEW a5, a5 = ReadUnit(a4, NL)
    PROVE  Between(a5, Append(events, <<data.n>>))
<1> DEFINE one  == <<data.n>>
           more == Append(events, one)
<1>1. name # NL /\ data # NL /\ Empty \in Units \cup {Empty} /\ Empty.kind = "empty"
  BY DEF NL, Empty
<1>2. data.n \in Nat /\ events \in Seq(Seq(Nat))
  BY UnitKinds DEF Between, Readers
<1>3. /\ Append(<<>>, data.n) = one /\ one # <<>> /\ one \in Seq(Nat)
      /\ more \in Seq(Seq(Nat))
  BY <1>2
<1> HIDE DEF one, more
<1>4. /\ a1 \in Readers /\ a1.line = name /\ a1.data = <<>> /\ a1.events = events
  BY <1>1, LineIsRead DEF Between
<1>5. /\ a2 \in Readers /\ a2.line = Empty /\ a2.named = TRUE
      /\ a2.data = <<>> /\ a2.events = events
  <2>1. a2 = [a1 EXCEPT !.named = TRUE, !.line = Empty]
    BY <1>4 DEF ReadUnit, ReadLine, Readers
  <2> QED
    BY <1>4, <2>1 DEF Readers
<1>6. /\ a3 \in Readers /\ a3.line = data /\ a3.named = TRUE
      /\ a3.data = <<>> /\ a3.events = events
  BY <1>1, <1>5, LineIsRead
<1>7. /\ a4 \in Readers /\ a4.line = Empty /\ a4.named = TRUE
      /\ a4.data = one /\ a4.events = events
  <2>1. a4 = [a3 EXCEPT !.data = Append(@, a3.line.n), !.line = Empty]
    BY <1>6 DEF ReadUnit, ReadLine, Readers
  <2>2. a4 = [a3 EXCEPT !.data = one, !.line = Empty]
    BY <1>3, <1>6, <2>1
  <2> QED
    BY <1>3, <1>6, <2>2 DEF Readers
<1>8. /\ a5 \in Readers /\ a5.line = Empty /\ a5.data = <<>> /\ a5.events = more
  <2>1. ReadLine(a4) = [a4 EXCEPT !.events = more, !.data = <<>>, !.named = FALSE]
    <3>1. a4.data # <<>> /\ Append(a4.events, a4.data) = more
      BY <1>3, <1>7 DEF more
    <3> QED
      BY <1>1, <1>7, <3>1 DEF ReadLine
  <2> DEFINE new == [line |-> Empty, named |-> FALSE, data |-> <<>>, events |-> more]
  <2>2. a5 = new
    BY <1>7, <2>1 DEF ReadUnit, Readers
  <2>3. new \in Readers /\ new.line = Empty /\ new.data = <<>> /\ new.events = more
    BY <1>3 DEF Readers
  <2> HIDE DEF new
  <2> QED
    BY <2>2, <2>3
<1> QED
  BY <1>8 DEF Between, one, more

\* Of whole events each is read.
LEMMA WholeIsRead ==
    ASSUME NEW text, NEW K \in Nat, IsWhole(text, K)
    PROVE  ReadText(text) = [i \in 1 .. K |-> <<text[5 * i - 2].n>>]
<1> DEFINE s    == Append(text, NL)
           N    == Len(text) + 1
           E(k) == [i \in 1 .. k |-> <<text[5 * i - 2].n>>]
<1>1. text \in Seq(Units) /\ Len(text) = 5 * K /\ NL \in Units
  BY DEF IsWhole, Units
<1>2. /\ Len(s) = 5 * K + 1 /\ s[5 * K + 1] = NL
      /\ \A p \in 1 .. 5 * K : s[p] = text[p]
  BY <1>1, AppendProperties
<1>3. PICK acc : Reading(s, acc) /\ ReadText(text) = acc[5 * K + 1].events
  BY <1>1, ReadTextReads
<1> HIDE DEF s
<1>4. \A p \in 1 .. 5 * K + 1 : acc[p] = ReadUnit(acc[p - 1], s[p])
  BY <1>2, <1>3 DEF Reading
<1> DEFINE Read == {k \in 0 .. K : Between(acc[5 * k], E(k))}
<1>5. 0 \in Read
  <2>1. acc[0] = Unread /\ 5 * 0 = 0
    BY <1>3 DEF Reading
  <2>2. E(0) = <<>>
    OBVIOUS
  <2>3. Between(Unread, <<>>)
    BY DEF Unread, Between, Readers
  <2> QED
    BY <2>1, <2>2, <2>3
<1>6. ASSUME NEW k \in 0 .. K - 1, k \in Read
      PROVE  k + 1 \in Read
  <2> DEFINE e == 5 * k
  <2>1. /\ e + 1 \in 1 .. 5 * K /\ e + 2 \in 1 .. 5 * K /\ e + 3 \in 1 .. 5 * K
        /\ e + 4 \in 1 .. 5 * K /\ e + 5 \in 1 .. 5 * K
        /\ k + 1 \in 0 .. K /\ 5 * (k + 1) = e + 5 /\ 5 * (k + 1) - 2 = e + 3
        /\ (e + 1) - 1 = e /\ (e + 2) - 1 = e + 1 /\ (e + 3) - 1 = e + 2
        /\ (e + 4) - 1 = e + 3 /\ (e + 5) - 1 = e + 4
    OBVIOUS
  <2>2. /\ text[e + 1].kind = "event" /\ text[e + 2] = NL
        /\ text[e + 3].kind = "data"  /\ text[e + 4] = NL /\ text[e + 5] = NL
    BY DEF IsWhole
  <2>3. Between(acc[e], E(k)) /\ text[e + 1] \in Units /\ text[e + 3] \in Units
    BY <1>1, <1>6, <2>1, ElementOfSeq
  <2> HIDE DEF e, E
  <2>4. \A p \in 1 .. 5 * K : acc[p] = ReadUnit(acc[p - 1], text[p])
    <3>1. \A p \in 1 .. 5 * K : p \in 1 .. 5 * K + 1
      OBVIOUS
    <3> QED
      BY <1>2, <1>4, <3>1
  <2>5. /\ acc[e + 1] = ReadUnit(acc[e], text[e + 1])
        /\ acc[e + 2] = ReadUnit(acc[e + 1], NL)
        /\ acc[e + 3] = ReadUnit(acc[e + 2], text[e + 3])
        /\ acc[e + 4] = ReadUnit(acc[e + 3], NL)
        /\ acc[e + 5] = ReadUnit(acc[e + 4], NL)
    <3>1. acc[e + 1] = ReadUnit(acc[e], text[e + 1])
      BY <2>1, <2>4
    <3>2. acc[e + 2] = ReadUnit(acc[e + 1], NL)
      BY <2>1, <2>2, <2>4
    <3>3. acc[e + 3] = ReadUnit(acc[e + 2], text[e + 3])
      BY <2>1, <2>4
    <3>4. acc[e + 4] = ReadUnit(acc[e + 3], NL)
      BY <2>1, <2>2, <2>4
    <3>5. acc[e + 5] = ReadUnit(acc[e + 4], NL)
      BY <2>1, <2>2, <2>4
    <3> QED
      BY <3>1, <3>2, <3>3, <3>4, <3>5
  <2>6. Between(acc[e + 5], Append(E(k), <<text[e + 3].n>>))
    BY <2>2, <2>3, <2>5, EventIsRead
  <2>7. Append(E(k), <<text[e + 3].n>>) = E(k + 1)
    <3> DEFINE one == <<text[e + 3].n>>
               f(i) == <<text[5 * i - 2].n>>
    <3>1. one = f(k + 1)
      BY <2>1
    <3>2. E(k) = [i \in 1 .. k |-> f(i)] /\ E(k + 1) = [i \in 1 .. k + 1 |-> f(i)]
      BY DEF E
    <3> HIDE DEF one, f
    <3>3. Append([i \in 1 .. k |-> f(i)], f(k + 1)) = [i \in 1 .. k + 1 |-> f(i)]
      OBVIOUS
    <3> QED
      BY <3>1, <3>2, <3>3 DEF one
  <2> QED
    BY <2>1, <2>6, <2>7
<1> HIDE DEF Read, E
<1>7. K \in Read
  <2>1. \A k \in 0 .. K : k \in Read
    BY <1>5, <1>6, GoesOn
  <2> QED
    BY <2>1
<1>8. acc[5 * K + 1].events = E(K)
  <2> DEFINE last == acc[5 * K]
  <2>1. acc[5 * K + 1] = ReadUnit(last, NL)
    <3>1. 5 * K + 1 \in 1 .. 5 * K + 1 /\ (5 * K + 1) - 1 = 5 * K
      OBVIOUS
    <3> QED
      BY <1>2, <1>4, <3>1
  <2>2. Between(last, E(K))
    BY <1>7 DEF Read
  <2> HIDE DEF last
  <2>3. ReadLine(last) = last
    BY <2>2 DEF ReadLine, Between, Empty
  <2>4. acc[5 * K + 1] = [last EXCEPT !.line = Empty]
    BY <2>1, <2>3 DEF ReadUnit
  <2> QED
    BY <2>2, <2>4 DEF Between, Readers
<1> QED
  BY <1>3, <1>8 DEF E

\* A part cut between events is whole.
LEMMA PartIsWhole ==
    ASSUME NEW s, NEW K \in Nat, IsWhole(s, K), NEW A \in Nat, NEW B \in A .. K
    PROVE  IsWhole(SubSeq(s, 5 * A + 1, 5 * B), B - A)
<1> DEFINE a == 5 * A
           b == 5 * B
           t == SubSeq(s, a + 1, b)
<1>1. /\ s \in Seq(Units) /\ Len(s) = 5 * K /\ a \in Nat /\ b \in Nat /\ a <= b /\ b <= 5 * K
      /\ b - a = 5 * (B - A)
  BY DEF IsWhole
<1>2. /\ t \in Seq(Units) /\ Len(t) = 5 * (B - A)
      /\ \A p \in 1 .. 5 * (B - A) : t[p] = s[a + p]
  <2> HIDE DEF a, b
  <2>1. \A i \in a + 1 .. b : s[i] \in Units
    BY <1>1, ElementOfSeq
  <2>2. t \in Seq(Units)
    BY <1>1, SubSeqProperties
  <2>3. Len(t) = b - a
    BY <1>1
  <2>4. \A p \in 1 .. b - a : t[p] = s[(a + 1) + p - 1]
    BY <1>1
  <2>5. \A p \in 1 .. b - a : (a + 1) + p - 1 = a + p
    BY <1>1
  <2> QED
    BY <1>1, <2>2, <2>3, <2>4, <2>5
<1> HIDE DEF t
<1>3. ASSUME NEW k \in 0 .. (B - A) - 1
      PROVE  /\ t[5 * k + 1].kind = "event" /\ t[5 * k + 2] = NL
             /\ t[5 * k + 3].kind = "data"  /\ t[5 * k + 4] = NL /\ t[5 * k + 5] = NL
  <2>1. /\ A + k \in 0 .. K - 1 /\ 5 * (A + k) = a + 5 * k
        /\ 5 * k + 1 \in 1 .. 5 * (B - A) /\ 5 * k + 2 \in 1 .. 5 * (B - A)
        /\ 5 * k + 3 \in 1 .. 5 * (B - A) /\ 5 * k + 4 \in 1 .. 5 * (B - A)
        /\ 5 * k + 5 \in 1 .. 5 * (B - A)
    OBVIOUS
  <2> DEFINE e == 5 * k
  <2>2. /\ s[5 * (A + k) + 1].kind = "event" /\ s[5 * (A + k) + 2] = NL
        /\ s[5 * (A + k) + 3].kind = "data"  /\ s[5 * (A + k) + 4] = NL
        /\ s[5 * (A + k) + 5] = NL
    BY <2>1 DEF IsWhole
  <2>3. /\ (a + e) + 1 = a + (e + 1) /\ (a + e) + 2 = a + (e + 2) /\ (a + e) + 3 = a + (e + 3)
        /\ (a + e) + 4 = a + (e + 4) /\ (a + e) + 5 = a + (e + 5)
    OBVIOUS
  <2> HIDE DEF e, a
  <2> QED
    BY <1>2, <2>1, <2>2, <2>3, SMTT(30) DEF e
<1> QED
  BY <1>2, <1>3 DEF IsWhole, t, a, b

\* The server appends a whole event.
LEMMA LongerIsWhole ==
    ASSUME NEW s, NEW K \in Nat, IsWhole(s, K), NEW m \in Nat
    PROVE  IsWhole(s \o EventText(m), K + 1)
<1> DEFINE t == s \o EventText(m)
           e == 5 * K
<1>1. s \in Seq(Units) /\ Len(s) = e /\ e \in Nat
  BY DEF IsWhole
<1>2. /\ EventText(m) \in Seq(Units) /\ Len(EventText(m)) = 5
      /\ EventText(m)[1] = Named(m) /\ EventText(m)[2] = NL /\ EventText(m)[3] = Data(m)
      /\ EventText(m)[4] = NL /\ EventText(m)[5] = NL
  <2>1. Named(m) \in Units /\ NL \in Units /\ Data(m) \in Units
    BY DEF Units
  <2> QED
    BY <2>1 DEF EventText
<1>3. t \in Seq(Units) /\ Len(t) = 5 * (K + 1)
  <2>1. e + 5 = 5 * (K + 1)
    OBVIOUS
  <2> HIDE DEF e
  <2>2. t \in Seq(Units) /\ Len(t) = Len(s) + Len(EventText(m))
    BY <1>1, <1>2, ConcatProperties
  <2> QED
    BY <1>1, <1>2, <2>1, <2>2
<1>4. \A p \in 1 .. e + 5 : t[p] = IF p <= e THEN s[p] ELSE EventText(m)[p - e]
  <2> HIDE DEF e
  <2>1. \A p \in 1 .. Len(s) + Len(EventText(m)) :
            t[p] = IF p <= Len(s) THEN s[p] ELSE EventText(m)[p - Len(s)]
    BY <1>1, <1>2, ConcatProperties
  <2> QED
    BY <1>1, <1>2, <2>1
<1> HIDE DEF t
<1>5. ASSUME NEW k \in 0 .. K - 1
      PROVE  /\ t[5 * k + 1].kind = "event" /\ t[5 * k + 2] = NL
             /\ t[5 * k + 3].kind = "data"  /\ t[5 * k + 4] = NL /\ t[5 * k + 5] = NL
  <2>1. /\ 5 * k + 1 \in 1 .. e /\ 5 * k + 2 \in 1 .. e /\ 5 * k + 3 \in 1 .. e
        /\ 5 * k + 4 \in 1 .. e /\ 5 * k + 5 \in 1 .. e
    OBVIOUS
  <2>2. \A p \in 1 .. e : t[p] = s[p]
    <3> HIDE DEF e
    <3> QED
      BY <1>1, <1>4
  <2>3. /\ s[5 * k + 1].kind = "event" /\ s[5 * k + 2] = NL
        /\ s[5 * k + 3].kind = "data"  /\ s[5 * k + 4] = NL /\ s[5 * k + 5] = NL
    BY DEF IsWhole
  <2> HIDE DEF e
  <2> QED
    BY <2>1, <2>2, <2>3
<1>6. /\ t[e + 1].kind = "event" /\ t[e + 2] = NL
      /\ t[e + 3].kind = "data"  /\ t[e + 4] = NL /\ t[e + 5] = NL
  <2> HIDE DEF e
  <2>1. /\ t[e + 1] = Named(m) /\ t[e + 2] = NL /\ t[e + 3] = Data(m)
        /\ t[e + 4] = NL /\ t[e + 5] = NL
    BY <1>1, <1>2, <1>4
  <2> QED
    BY <2>1 DEF Named, Data
<1>7. ASSUME NEW k \in 0 .. (K + 1) - 1
      PROVE  /\ t[5 * k + 1].kind = "event" /\ t[5 * k + 2] = NL
             /\ t[5 * k + 3].kind = "data"  /\ t[5 * k + 4] = NL /\ t[5 * k + 5] = NL
  <2>1. CASE k = K
    BY <1>6, <2>1
  <2>2. CASE k \in 0 .. K - 1
    BY <1>5, <2>2
  <2> QED
    BY <2>1, <2>2
<1> QED
  BY <1>3, <1>7 DEF IsWhole, t

\* When the network cuts answers between events only, the answer that comes is one of whole
\* events and so is what came of it, or it is the page of an error.
WholeInv ==
    whole =>
        /\ heard = arrived
        /\ xhr.pending /\ xhr.status = 500 => xhr.answer = <<Error>>
        /\ xhr.pending /\ xhr.status # 500 =>
               /\ \E K \in Nat : IsWhole(xhr.answer, K)
               /\ \E k \in Nat : xhr.got = 5 * k
               /\ xhr.status = 0 => xhr.answer = <<>>

\* What arrives of whole events is heard.
LEMMA WholePartIsHeard ==
    ASSUME whole, NEW s, NEW K \in Nat, IsWhole(s, K), NEW A \in Nat, NEW B \in A .. K
    PROVE  LET text == SubSeq(s, 5 * A + 1, 5 * B) IN Heard(text) = Arrived(text)
<1> DEFINE text == SubSeq(s, 5 * A + 1, 5 * B)
           n    == B - A
<1>1. n \in Nat /\ IsWhole(text, n)
  BY PartIsWhole
<1> HIDE DEF text, n
<1>2. ReadText(text) = [i \in 1 .. n |-> <<text[5 * i - 2].n>>]
  BY <1>1, WholeIsRead
<1>3. Len(text) \div Len(EventText(1)) = n
  <2>1. Len(EventText(1)) = 5 /\ Len(text) = 5 * n
    BY <1>1 DEF EventText, IsWhole
  <2>2. (5 * n) \div 5 = n
    BY <1>1
  <2> QED
    BY <2>1, <2>2
<1> QED
  BY <1>2, <1>3 DEF Heard, Arrived, text

\* Of the page of an error nothing is heard.
LEMMA ErrorIsNotHeard ==
    ASSUME NEW a \in 0 .. 1
    PROVE  LET text == SubSeq(<<Error>>, a + 1, 1) IN Heard(text) = <<>> /\ Arrived(text) = <<>>
<1> DEFINE page == <<Error>>
           text == SubSeq(page, a + 1, 1)
<1>1. page \in Seq(Units) /\ Len(page) = 1 /\ \A p \in 1 .. 1 : ~IsData(page[p])
  BY DEF IsData, Error, Units
<1> HIDE DEF page
<1>2. IsText(page)
  BY <1>1 DEF IsText
<1>3. Len(text) = 1 - a /\ IsText(text) /\ \A p \in 1 .. 1 - a : text[p] = page[a + p]
  <2>1. a \in Nat /\ 1 \in a .. Len(page)
    BY <1>1
  <2> QED
    BY <1>2, <2>1, PartIsText
<1> HIDE DEF text
<1>4. ReadText(text) = <<>>
  <2>1. /\ ReadText(text) \in Seq(Seq(Nat))
        /\ \A i \in 1 .. Len(ReadText(text)) : \E p \in 1 .. Len(text) : IsData(text[p])
    BY <1>3, TextIsHeardInOrder
  <2>2. \A p \in 1 .. Len(text) : ~IsData(text[p])
    BY <1>1, <1>3
  <2>3. Len(ReadText(text)) = 0
    <3>1. Len(ReadText(text)) \in Nat
      BY <2>1, LenProperties
    <3> QED
      BY <2>1, <2>2, <3>1, SMTT(30)
  <2> QED
    BY <2>1, <2>3, EmptySeq
<1>5. Len(text) \div Len(EventText(1)) = 0
  <2>1. Len(EventText(1)) = 5 /\ (Len(text) = 0 \/ Len(text) = 1)
    BY <1>3 DEF EventText
  <2>2. 0 \div 5 = 0 /\ 1 \div 5 = 0
    OBVIOUS
  <2> QED
    BY <2>1, <2>2
<1>6. [i \in 1 .. 0 |-> <<text[5 * i - 2].n>>] = <<>>
  OBVIOUS
<1> QED
  BY <1>4, <1>5, <1>6 DEF Heard, Arrived, text, page

\* Text that arrives.
LEMMA TextKeepsWhole ==
    ASSUME AnswerInv, WholeInv, xhr.pending, UNCHANGED whole,
           NEW n \in xhr.got .. Len(xhr.answer), xhr.status = 500 => n > xhr.got,
           whole /\ xhr.status = 200 => n % 5 = 0,
           NEW last \in BOOLEAN, OnText(n, last)
    PROVE  WholeInv'
<1> SUFFICES ASSUME whole PROVE WholeInv'
  BY DEF WholeInv
<1> DEFINE answer == xhr.answer
           text   == SubSeq(answer, xhr.got + 1, n)
<1>1. /\ xhr \in Requests /\ xhr.got \in Nat /\ answer \in Seq(Units) /\ Len(answer) \in Nat
      /\ xhr.status \in {0, 200, 500}
  <2>1. xhr \in Requests
    BY DEF AnswerInv
  <2>2. xhr.got \in Nat /\ answer \in Seq(Units) /\ xhr.status \in {0, 200, 500}
    BY <2>1 DEF Requests
  <2> QED
    BY <2>1, <2>2, LenProperties
<1>2. /\ heard' = heard \o Heard(text) /\ arrived' = arrived \o Arrived(text)
      /\ xhr' = [xhr EXCEPT !.got = n, !.pending = ~last]
  BY DEF OnText
<1>3. heard = arrived
  BY DEF WholeInv
<1> DEFINE b == ~last
<1>4. xhr'.got = n /\ xhr'.answer = answer /\ xhr'.status = xhr.status /\ xhr'.pending = b
  <2>1. b \in BOOLEAN /\ xhr' = [xhr EXCEPT !.got = n, !.pending = b]
    BY <1>2
  <2> HIDE DEF b
  <2> QED
    BY <1>1, <2>1 DEF Requests
<1> HIDE DEF b
<1>5. CASE xhr.status = 500
  <2>1. answer = <<Error>> /\ Len(<<Error>>) = 1
    BY <1>5 DEF WholeInv
  <2>2. xhr.got = 0 /\ n = 1
    BY <1>1, <1>5, <2>1
  <2>3. Heard(text) = Arrived(text)
    BY <2>1, <2>2, ErrorIsNotHeard
  <2> HIDE DEF text
  <2> QED
    BY <1>2, <1>3, <1>4, <1>5, <2>1, <2>3 DEF WholeInv
<1>6. CASE xhr.status # 500
  <2>1. PICK K \in Nat, k \in Nat : IsWhole(answer, K) /\ xhr.got = 5 * k
    BY <1>6 DEF WholeInv
  <2>2. Len(answer) = 5 * K
    BY <2>1 DEF IsWhole
  <2>3. PICK B \in k .. K : n = 5 * B
    <3>1. n % 5 = 0
      <4>1. CASE xhr.status = 200
        BY <4>1
      <4>2. CASE xhr.status # 200
        <5>1. answer = <<>> /\ Len(<<>>) = 0
          BY <1>1, <1>6, <4>2 DEF WholeInv
        <5> QED
          BY <1>1, <5>1
      <4> QED
        BY <4>1, <4>2
    <3>2. n \in Nat /\ 5 * k <= n /\ n <= 5 * K
      BY <1>1, <2>1, <2>2
    <3>3. n \div 5 \in k .. K /\ n = 5 * (n \div 5)
      BY <3>1, <3>2
    <3> QED
      BY <3>3
  <2>4. Heard(text) = Arrived(text)
    BY <2>1, <2>3, WholePartIsHeard
  <2> HIDE DEF text
  <2>5. heard' = arrived'
    BY <1>2, <1>3, <2>4
  <2>6. \E j \in Nat : n = 5 * j
    BY <2>3
  <2>7. xhr.status = 0 => answer = <<>>
    BY <1>6 DEF WholeInv
  <2> HIDE DEF answer
  <2> QED
    BY <1>4, <1>6, <2>1, <2>5, <2>6, <2>7 DEF WholeInv
<1> QED
  BY <1>5, <1>6

\* The end of a request or a new one.
LEMMA WholeKept ==
    ASSUME AnswerInv, WholeInv, UNCHANGED <<whole, heard, arrived>>,
           xhr' = xhr \/ xhr' = NewRequest \/ xhr' = [xhr EXCEPT !.pending = FALSE]
    PROVE  WholeInv'
<1>1. CASE xhr' = xhr
  BY <1>1 DEF WholeInv
<1>2. CASE xhr' = NewRequest
  <2>1. xhr'.answer = <<>> /\ xhr'.got = 0 /\ xhr'.status = 0
    BY <1>2, NoAnswerIsText
  <2>2. 0 \in Nat /\ 0 = 5 * 0 /\ IsWhole(<<>>, 0)
    BY DEF IsWhole
  <2> QED
    BY <2>1, <2>2, SMTT(30) DEF WholeInv
<1>3. CASE xhr' = [xhr EXCEPT !.pending = FALSE]
  <2>1. xhr'.pending = FALSE
    BY <1>3 DEF AnswerInv, Requests
  <2> QED
    BY <2>1 DEF WholeInv
<1> QED
  BY <1>1, <1>2, <1>3

\* Every step keeps it.
LEMMA WholeSteps ==
    ASSUME AnswerInv, WholeInv, [Next]_vars
    PROVE  WholeInv'
<1>1. xhr \in Requests
  BY DEF AnswerInv
<1>2. CASE Poll
  BY <1>2, WholeKept DEF Poll
<1>3. CASE Publish
  <2>1. CASE ~Streaming
    BY <1>3, <2>1, WholeKept DEF Publish
  <2>2. CASE Streaming /\ whole
    <3> DEFINE t == xhr.answer \o EventText(sent + 1)
    <3>1. PICK K \in Nat : IsWhole(xhr.answer, K)
      BY <2>2 DEF WholeInv, Streaming
    <3>2. IsWhole(t, K + 1) /\ K + 1 \in Nat
      <4>1. sent + 1 \in Nat
        BY DEF AnswerInv
      <4> QED
        BY <3>1, <4>1, LongerIsWhole
    <3>3. xhr' = [xhr EXCEPT !.status = 200, !.answer = t]
      BY <1>3, <2>2 DEF Publish
    <3> HIDE DEF t
    <3>4. xhr'.status = 200 /\ xhr'.answer = t /\ xhr'.got = xhr.got
      BY <1>1, <3>3 DEF Requests
    <3>5. UNCHANGED <<whole, heard, arrived>> /\ heard = arrived /\ \E k \in Nat : xhr.got = 5 * k
      BY <1>3, <2>2 DEF Publish, WholeInv, Streaming
    <3>6. \E J \in Nat : IsWhole(xhr'.answer, J)
      BY <3>2, <3>4
    <3>7. \E k \in Nat : xhr'.got = 5 * k
      BY <3>4, <3>5
    <3>8. xhr'.status # 500 /\ xhr'.status # 0 /\ heard' = arrived'
      BY <3>4, <3>5
    <3> QED
      BY <3>6, <3>7, <3>8 DEF WholeInv
  <2>3. CASE ~whole
    BY <1>3, <2>3 DEF Publish, WholeInv
  <2> QED
    BY <2>1, <2>2, <2>3
<1>4. CASE Chunk
  <2>1. PICK n \in xhr.got + 1 .. Len(xhr.answer) :
            /\ whole /\ xhr.status = 200 => n % Len(EventText(1)) = 0
            /\ OnText(n, FALSE)
    BY <1>4 DEF Chunk
  <2>2. xhr.got \in Nat /\ Len(EventText(1)) = 5
    BY <1>1 DEF Requests, EventText
  <2>3. n \in xhr.got .. Len(xhr.answer) /\ n > xhr.got
    BY <2>2
  <2>4. xhr.pending /\ UNCHANGED whole
    BY <1>4 DEF Chunk
  <2> QED
    BY <2>1, <2>2, <2>3, <2>4, TextKeepsWhole
<1>5. CASE Refuse
  <2> DEFINE page == <<Error>>
             code == 500
  <2>1. /\ xhr' = [xhr EXCEPT !.status = code, !.answer = page]
        /\ UNCHANGED <<whole, heard, arrived>>
    BY <1>5 DEF Refuse
  <2> HIDE DEF page, code
  <2>2. xhr'.status = code /\ xhr'.answer = page
    BY <1>1, <2>1 DEF Requests
  <2> QED
    BY <2>1, <2>2 DEF WholeInv, page, code
<1>6. CASE Refused
  BY <1>6, WholeKept DEF Refused, OnError
<1>7. CASE End
  <2>1. OnText(Len(xhr.answer), TRUE) /\ xhr.pending /\ xhr.status # 500 /\ UNCHANGED whole
    BY <1>7 DEF End, Streaming
  <2>2. Len(xhr.answer) \in xhr.got .. Len(xhr.answer)
    <3>1. xhr.got \in Nat /\ xhr.got <= Len(xhr.answer) /\ xhr.answer \in Seq(Units)
      BY <2>1 DEF AnswerInv, Requests
    <3>2. Len(xhr.answer) \in Nat
      BY <3>1, LenProperties
    <3> QED
      BY <3>1, <3>2
  <2>3. ASSUME whole PROVE Len(xhr.answer) % 5 = 0
    <3>1. PICK K \in Nat : Len(xhr.answer) = 5 * K
      BY <2>1, <2>3 DEF WholeInv, IsWhole
    <3>2. (5 * K) % 5 = 0
      OBVIOUS
    <3> QED
      BY <3>1, <3>2
  <2> QED
    BY <2>1, <2>2, <2>3, TextKeepsWhole
<1>8. CASE BreakOrTimeout
  BY <1>8, WholeKept DEF BreakOrTimeout, OnError
<1>9. CASE Close
  BY <1>9, WholeKept DEF Close
<1>10. CASE AddEventListener \/ RemoveEventListener \/ UNCHANGED vars
  BY <1>10, WholeKept DEF AddEventListener, RemoveEventListener, vars
<1> QED
  BY <1>2, <1>3, <1>4, <1>5, <1>6, <1>7, <1>8, <1>9, <1>10 DEF Next

(***************************************************************************)
(* WholeEventsAreHeard of any number of events: what the text of one       *)
(* answer leaves behind in the loop over its lines is nothing, so each of  *)
(* its events is dispatched with its own data, in every call and with the  *)
(* end of the answer too (eventsource.js:59-89).                           *)
(***************************************************************************)
THEOREM WholeEventsAreRead == Spec => []WholeEventsAreHeard
<1>1. Init => WholeInv
  <2> SUFFICES ASSUME Init PROVE WholeInv
    OBVIOUS
  <2>1. xhr = NewRequest /\ heard = arrived
    BY DEF Init
  <2>2. xhr.answer = <<>> /\ xhr.got = 0 /\ xhr.status = 0
    BY <2>1, NoAnswerIsText
  <2>3. 0 \in Nat /\ 0 = 5 * 0 /\ IsWhole(<<>>, 0)
    BY DEF IsWhole
  <2> QED
    BY <2>1, <2>2, <2>3 DEF WholeInv
<1>2. WholeInv => WholeEventsAreHeard
  BY DEF WholeInv, WholeEventsAreHeard
<1> QED
  BY <1>1, <1>2, StreamInits, SourceSteps, SourceStepsAreStream, WholeSteps, PTL DEF Spec

==============================================================================
