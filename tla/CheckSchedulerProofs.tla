------------------------- MODULE CheckSchedulerProofs -------------------------
(***************************************************************************)
(* Proofs about CheckScheduler for any number of daemons, checks, edits,   *)
(* pipes and crashes, with any combination of lossy bus, failing queries   *)
(* and failing ticks.                                                      *)
(***************************************************************************)
EXTENDS CheckScheduler, MCCheckSplit, FiniteSetTheorems, FunctionTheorems, SequenceTheorems,
        WellFoundedInduction, TLAPS

-----------------------------------------------------------------------------
(***************************************************************************)
(* AllSplitToDaemons for any rows and any list of daemons: the loop over   *)
(* buckets computes what Share says in closed form, and that is a fair     *)
(* division.                                                               *)
(*                                                                         *)
(* The loop is a fold, a recursive function.  That a fold is what one      *)
(* expects is shown by hand: by a least k for which it is not.             *)
(***************************************************************************)

-----------------------------------------------------------------------------
(***************************************************************************)
(* Least and greatest numbers.                                             *)
(***************************************************************************)
\* A set of numbers that are not negative has a least one.
LEMMA LeastExists ==
    ASSUME NEW S \in SUBSET Nat, S # {}
    PROVE  \E x \in S : \A y \in S : x <= y
<1> DEFINE T == {0 .. x : x \in S}
<1>1. T \subseteq FiniteSubsetsOf(Nat) /\ T # {}
  <2> SUFFICES ASSUME NEW x \in S PROVE 0 .. x \in FiniteSubsetsOf(Nat)
    OBVIOUS
  <2> QED
    BY FS_Interval DEF FiniteSubsetsOf
<1>2. PICK U \in T : \A V \in T : ~(<<V, U>> \in StrictSubsetOrdering(Nat))
  BY <1>1, FS_StrictSubsetOrderingWellFounded, WFMin
<1>3. PICK x \in S : U = 0 .. x
  OBVIOUS
<1>4. \A y \in S : x <= y
  <2> SUFFICES ASSUME NEW y \in S, y < x PROVE FALSE
    OBVIOUS
  <2>1. 0 .. y \in T /\ 0 .. y \subseteq 0 .. x /\ 0 .. y # 0 .. x
    OBVIOUS
  <2>2. <<0 .. y, 0 .. x>> \in StrictSubsetOrdering(Nat)
    BY <2>1 DEF StrictSubsetOrdering
  <2> QED
    BY <1>2, <1>3, <2>1, <2>2
<1> QED
  BY <1>4

\* The greatest of a set, once it is known.
LEMMA MaxIs ==
    ASSUME NEW S, NEW m \in S, S \subseteq Int, \A y \in S : m >= y
    PROVE  Max(S) = m
<1>1. Max(S) \in S /\ \A y \in S : Max(S) >= y
  BY DEF Max
<1>2. Max(S) \in Int /\ m \in Int
  BY <1>1
<1> QED
  BY <1>1, <1>2

\* Every set of places has a latest one.
LEMMA MaxExists ==
    ASSUME NEW n \in Nat, NEW S \in SUBSET (1 .. n), S # {}
    PROVE  Max(S) \in S /\ \A y \in S : Max(S) >= y
<1> DEFINE T == {n - x : x \in S}
<1>1. \A x \in S : n - x \in Nat
  OBVIOUS
<1>0. T \in SUBSET Nat /\ T # {}
  BY <1>1
<1> HIDE DEF T
<1>2. PICK d \in T : \A e \in T : d <= e
  BY <1>0, LeastExists
<1> USE DEF T
<1>3. PICK x \in S : d = n - x
  OBVIOUS
<1>4. ASSUME NEW y \in S PROVE x >= y
  <2>1. n - x <= n - y
    BY <1>2, <1>3
  <2> QED
    BY <2>1
<1>5. \E z \in S : \A y \in S : z >= y
  BY <1>4
<1> QED
  BY <1>5 DEF Max

-----------------------------------------------------------------------------
(***************************************************************************)
(* The loop, one row after the other.                                      *)
(***************************************************************************)
\* What the loop does with one row.
Dealt(acc, item, n) ==
    LET here == IF acc.bucketsPointer >= n THEN 0 ELSE acc.bucketsPointer
    IN  [bucketsPointer |-> here + 1,
         buckets        |-> [acc.buckets EXCEPT ![here] = Append(@, item)]]

Undealt(n) == [bucketsPointer |-> 0, buckets |-> [i \in 0 .. n - 1 |-> <<>>]]

\* The recursion that a fold over the places 1 .. k is.
Deals(it, seq, n, k) ==
    it = [s \in SUBSET (1 .. k) |->
              IF s = {} THEN Undealt(n) ELSE Dealt(it[s \ {Max(s)}], seq[Max(s)], n)]

\* With a solution for k places there is one for k + 1.
LEMMA DealsNext ==
    ASSUME NEW seq, NEW n, NEW k \in Nat, NEW it, Deals(it, seq, n, k)
    PROVE  \E jt : Deals(jt, seq, n, k + 1)
<1> DEFINE last == k + 1
           jt == [s \in SUBSET (1 .. last) |->
                    IF last \in s THEN Dealt(it[s \ {last}], seq[last], n) ELSE it[s]]
<1> HIDE DEF Deals
<1>1. ASSUME NEW s \in SUBSET (1 .. last)
      PROVE  jt[s] = IF s = {} THEN Undealt(n)
                              ELSE Dealt(jt[s \ {Max(s)}], seq[Max(s)], n)
  <2>1. CASE last \in s
    <3>0. s \subseteq Int /\ \A y \in s : last >= y
      OBVIOUS
    <3>1. Max(s) = last
      BY <2>1, <3>0, MaxIs
    <3>2. s \ {last} \subseteq s /\ last \notin s \ {last}
      OBVIOUS
    <3>3. jt[s \ {last}] = it[s \ {last}]
      BY <3>2
    <3> QED
      BY <2>1, <3>1, <3>3
  <2>2. CASE last \notin s
    <3>1. s \in SUBSET (1 .. k)
      BY <2>2
    <3>2. it[s] = IF s = {} THEN Undealt(n) ELSE Dealt(it[s \ {Max(s)}], seq[Max(s)], n)
      BY <3>1 DEF Deals
    <3>3. jt[s \ {Max(s)}] = it[s \ {Max(s)}]
      BY <2>2
    <3> QED
      BY <2>2, <3>2, <3>3
  <2> QED
    BY <2>1, <2>2
<1>2. jt = [s \in SUBSET (1 .. last) |-> IF s = {} THEN Undealt(n)
                              ELSE Dealt(jt[s \ {Max(s)}], seq[Max(s)], n)]
  <2>1. jt = [s \in SUBSET (1 .. last) |-> jt[s]]
    OBVIOUS
  <2> HIDE DEF jt
  <2> QED
    BY <1>1, <2>1
<1> HIDE DEF jt
<1> QED
  BY <1>2 DEF Deals

\* Hence there is one for any number of places.
LEMMA DealsExists ==
    ASSUME NEW seq, NEW n, NEW k \in Nat
    PROVE  \E it : Deals(it, seq, n, k)
<1> DEFINE Without == {j \in Nat : ~\E it : Deals(it, seq, n, j)}
<1>1. CASE Without = {}
  BY <1>1
<1>2. CASE Without # {}
  <2>1. PICK j \in Without : \A i \in Without : j <= i
    BY <1>2, LeastExists
  <2>2. CASE j = 0
    <3> DEFINE it == [s \in SUBSET (1 .. 0) |-> Undealt(n)]
    <3>1. SUBSET (1 .. 0) = {{}}
      BY 1 .. 0 = {}
    <3>2. it = [s \in SUBSET (1 .. 0) |->
                  IF s = {} THEN Undealt(n) ELSE Dealt(it[s \ {Max(s)}], seq[Max(s)], n)]
      BY <3>1
    <3> HIDE DEF it
    <3>3. Deals(it, seq, n, 0)
      BY <3>2 DEF Deals
    <3> QED
      BY <2>1, <2>2, <3>3
  <2>3. CASE j # 0
    <3>1. j - 1 \in Nat /\ j - 1 < j /\ (j - 1) + 1 = j
      BY <2>1, <2>3
    <3>2. j - 1 \notin Without
      BY <2>1, <3>1
    <3>3. PICK it : Deals(it, seq, n, j - 1)
      BY <3>1, <3>2
    <3>4. \E jt : Deals(jt, seq, n, (j - 1) + 1)
      BY <3>1, <3>3, DealsNext
    <3> QED
      BY <2>1, <3>1, <3>4
  <2> QED
    BY <2>2, <2>3
<1> QED
  BY <1>1, <1>2

\* The states of the loop of FillBuckets, before the first row and after each.
Dealing(acc, seq, n, N) ==
    /\ acc[0] = Undealt(n)
    /\ \A k \in 1 .. N : acc[k] = Dealt(acc[k - 1], seq[k], n)

\* FillBuckets is the last of a row of states, each from the one before by one row.
LEMMA FillBucketsDeals ==
    ASSUME NEW N \in Nat, NEW seq, DOMAIN seq = 1 .. N, NEW n
    PROVE  \E acc : Dealing(acc, seq, n, N) /\ FillBuckets(seq, n) = acc[N].buckets
<1> DEFINE iter == CHOOSE it : Deals(it, seq, n, N)
           acc == [k \in 0 .. N |-> iter[1 .. k]]
<1>1. Deals(iter, seq, n, N)
  BY DealsExists
<1>2. FillBuckets(seq, n) = iter[1 .. N].buckets
  BY DEF FillBuckets, FoldLeft, MapThenFoldSet, Deals, Dealt, Undealt
<1> HIDE DEF iter
<1>3. acc[0] = Undealt(n)
  <2>1. 1 .. 0 = {} /\ {} \in SUBSET (1 .. N)
    OBVIOUS
  <2> QED
    BY <1>1, <2>1 DEF Deals
<1>4. ASSUME NEW k \in 1 .. N
      PROVE  acc[k] = Dealt(acc[k - 1], seq[k], n)
  <2>1. 1 .. k \in SUBSET (1 .. N) /\ k \in 1 .. k /\ 1 .. k # {}
    <3>1. k \in 1 .. k /\ \A j \in 1 .. k : j \in 1 .. N
      OBVIOUS
    <3> QED
      BY <3>1
  <2>2. Max(1 .. k) = k
    <3>1. 1 .. k \subseteq Int /\ \A j \in 1 .. k : k >= j
      OBVIOUS
    <3> QED
      BY <2>1, <3>1, MaxIs
  <2>3. (1 .. k) \ {k} = 1 .. k - 1
    OBVIOUS
  <2>4. iter[1 .. k] = Dealt(iter[1 .. k - 1], seq[k], n)
    BY <1>1, <2>1, <2>2, <2>3 DEF Deals
  <2> QED
    BY <2>4
<1>5. acc[N] = iter[1 .. N]
  OBVIOUS
<1> HIDE DEF acc
<1> QED
  BY <1>2, <1>3, <1>4, <1>5 DEF Dealing

-----------------------------------------------------------------------------
(***************************************************************************)
(* The order of the rows.                                                  *)
(***************************************************************************)
\* Ranks number the rows from 0 on, each once.
LEMMA RanksNumber ==
    ASSUME NEW S \in SUBSET Int, IsFiniteSet(S)
    PROVE  /\ Cardinality(S) \in Nat
           /\ \A id \in S : Rank(S, id) \in 0 .. Cardinality(S) - 1
           /\ \A id, other \in S : id < other => Rank(S, other) < Rank(S, id)
           /\ \A k \in 0 .. Cardinality(S) - 1 : \E id \in S : Rank(S, id) = k
<1> DEFINE Newer(id) == {newer \in S : newer > id}
           n == Cardinality(S)
<1>1. n \in Nat
  BY FS_CardinalityType
<1>2. ASSUME NEW id \in S
      PROVE  IsFiniteSet(Newer(id)) /\ Rank(S, id) = Cardinality(Newer(id)) /\ Rank(S, id) \in 0 .. n - 1
  <2>1. Newer(id) \in SUBSET S /\ Newer(id) # S
    <3>1. id \notin Newer(id)
      OBVIOUS
    <3> QED
      BY <3>1
  <2> HIDE DEF Newer
  <2>2. IsFiniteSet(Newer(id)) /\ Cardinality(Newer(id)) <= n /\ Cardinality(Newer(id)) # n
    BY <2>1, FS_Subset
  <2>3. Cardinality(Newer(id)) \in Nat
    BY <2>2, FS_CardinalityType
  <2>4. Rank(S, id) = Cardinality(Newer(id))
    BY DEF Rank, Newer
  <2> QED
    BY <1>1, <2>2, <2>3, <2>4
<1>3. ASSUME NEW id \in S, NEW other \in S, id < other
      PROVE  Rank(S, other) < Rank(S, id)
  <2>1. Newer(other) \in SUBSET Newer(id)
    <3>1. ASSUME NEW x \in S, x > other PROVE x > id
      <4>1. x \in Int /\ other \in Int /\ id \in Int
        OBVIOUS
      <4> QED
        BY <1>3, <3>1, <4>1
    <3> QED
      BY <3>1
  <2>2. other \in Newer(id) /\ other \notin Newer(other)
    BY <1>3
  <2> HIDE DEF Newer
  <2>3. Newer(other) # Newer(id)
    BY <2>2
  <2>4. Cardinality(Newer(other)) <= Cardinality(Newer(id)) /\ Cardinality(Newer(other)) # Cardinality(Newer(id))
    BY <1>2, <2>1, <2>3, FS_Subset
  <2> QED
    BY <1>2, <2>4
<1>4. \A k \in 0 .. n - 1 : \E id \in S : Rank(S, id) = k
  <2> DEFINE f == [id \in S |-> Rank(S, id)]
             T == 0 .. n - 1
  <2>1. f \in [S -> T]
    BY <1>2
  <2>2. ASSUME NEW id \in S, NEW other \in S, f[id] = f[other]
        PROVE  id = other
    <3>1. Rank(S, id) = Rank(S, other) /\ Rank(S, id) \in 0 .. n - 1
      BY <1>2, <2>2
    <3>0. id \in Int /\ other \in Int
      OBVIOUS
    <3>2. ~(id < other) /\ ~(other < id)
      BY <1>3, <3>1
    <3> QED
      BY <3>0, <3>2
  <2>3. IsFiniteSet(T) /\ Cardinality(T) = n
    BY <1>1, FS_Interval, SMTT(30)
  <2> HIDE DEF f
  <2>4. f \in Injection(S, T)
    BY <2>1, <2>2, Fun_IsInj
  <2>5. f \in Surjection(S, T)
    BY <2>3, <2>4, FS_Injection
  <2>6. \A k \in T : \E id \in S : f[id] = k
    BY <2>5 DEF Surjection
  <2> QED
    BY <2>6 DEF f
<1> QED
  BY <1>1, <1>2, <1>3, <1>4

\* The query returns each row once, the newest first.
LEMMA RowsAreListed ==
    ASSUME NEW S \in SUBSET Int, IsFiniteSet(S)
    PROVE  /\ DOMAIN DescendingIds(S) = 1 .. Cardinality(S)
           /\ \A k \in 1 .. Cardinality(S) :
                  DescendingIds(S)[k] \in S /\ Rank(S, DescendingIds(S)[k]) = k - 1
           /\ \A id \in S : DescendingIds(S)[Rank(S, id) + 1] = id
<1> DEFINE n == Cardinality(S)
           d == DescendingIds(S)
<1>1. n \in Nat
  BY RanksNumber
<1>2. DOMAIN d = 1 .. n /\ \A k \in 1 .. n : d[k] = CHOOSE id \in S : Rank(S, id) = k - 1
  BY DEF DescendingIds
<1>3. ASSUME NEW k \in 1 .. n
      PROVE  d[k] \in S /\ Rank(S, d[k]) = k - 1
  <2>1. k - 1 \in 0 .. n - 1
    BY <1>1
  <2>2. \E id \in S : Rank(S, id) = k - 1
    BY <2>1, RanksNumber
  <2> HIDE DEF d
  <2> QED
    BY <1>2, <2>2
<1>4. ASSUME NEW id \in S
      PROVE  d[Rank(S, id) + 1] = id
  <2>1. Rank(S, id) \in 0 .. n - 1
    BY RanksNumber
  <2>2. Rank(S, id) + 1 \in 1 .. n /\ (Rank(S, id) + 1) - 1 = Rank(S, id)
    BY <1>1, <2>1
  <2>3. d[Rank(S, id) + 1] \in S /\ Rank(S, d[Rank(S, id) + 1]) = Rank(S, id)
    BY <1>3, <2>2
  <2> HIDE DEF d
  <2>4. ASSUME NEW x \in S, Rank(S, x) = Rank(S, id)
        PROVE  x = id
    <3>1. x \in Int /\ id \in Int
      OBVIOUS
    <3>2. ~(Rank(S, x) < Rank(S, id)) /\ ~(Rank(S, id) < Rank(S, x))
      BY <2>1, <2>4
    <3>3. ~(x < id) /\ ~(id < x)
      BY <3>2, RanksNumber
    <3> QED
      BY <3>1, <3>3
  <2> QED
    BY <2>3, <2>4
<1> QED
  BY <1>2, <1>3, <1>4

-----------------------------------------------------------------------------
(***************************************************************************)
(* What the buckets hold.                                                  *)
(***************************************************************************)
\* Counting modulo n goes on by one, or back to 0 after n - 1.
LEMMA ModuloGoesOn ==
    ASSUME NEW n \in Nat \ {0}, NEW k \in Nat
    PROVE  /\ k % n \in 0 .. n - 1
           /\ (k + 1) % n = IF k % n = n - 1 THEN 0 ELSE (k % n) + 1
<1>1. \A q \in Int, t \in 0 .. n - 1 : (n * q + t) % n = t
  <2> SUFFICES ASSUME NEW q \in Int, NEW t \in 0 .. n - 1
               PROVE  (n * q + t) % n = t
    OBVIOUS
  <2> QED
    BY SMTT(30)
<1> DEFINE q == k \div n
           t == k % n
<1>2. k = n * q + t /\ t \in 0 .. n - 1 /\ q \in Int
  BY SMTT(30)
<1> HIDE DEF q, t
<1>3. CASE t = n - 1
  <2>1. k + 1 = n * (q + 1) + 0 /\ q + 1 \in Int /\ 0 \in 0 .. n - 1
    BY <1>2, <1>3
  <2>2. (n * (q + 1) + 0) % n = 0
    BY <1>1, <2>1
  <2> QED
    BY <1>2, <1>3, <2>1, <2>2 DEF t
<1>4. CASE t # n - 1
  <2>1. k + 1 = n * q + (t + 1) /\ t + 1 \in 0 .. n - 1
    BY <1>2, <1>4
  <2>2. (n * q + (t + 1)) % n = t + 1
    BY <1>1, <1>2, <2>1
  <2> QED
    BY <1>2, <1>4, <2>1, <2>2 DEF t
<1> QED
  BY <1>3, <1>4

\* After k rows the pointer is at the last bucket used, and bucket i has every n-th row.
DealtTo(acc, seq, n, k, S) ==
    /\ acc.bucketsPointer = IF k = 0 THEN 0 ELSE ((k - 1) % n) + 1
    /\ acc.buckets \in [0 .. n - 1 -> Seq(S)]
    /\ \A i \in 0 .. n - 1 :
           ToSet(acc.buckets[i]) = {seq[j] : j \in {j \in 1 .. k : (j - 1) % n = i}}

\* One more row.
LEMMA DealKeeps ==
    ASSUME NEW n \in Nat \ {0}, NEW S, NEW seq, NEW k \in Nat, seq[k + 1] \in S,
           NEW acc, DealtTo(acc, seq, n, k, S)
    PROVE  DealtTo(Dealt(acc, seq[k + 1], n), seq, n, k + 1, S)
<1> DEFINE here == IF acc.bucketsPointer >= n THEN 0 ELSE acc.bucketsPointer
           new  == Dealt(acc, seq[k + 1], n)
<1>1. here = k % n /\ here \in 0 .. n - 1
  <2>1. CASE k = 0
    <3>1. 0 % n = 0
      BY SMTT(30)
    <3> QED
      BY <2>1, <3>1 DEF DealtTo
  <2>2. CASE k # 0
    <3> DEFINE r == (k - 1) % n
    <3>1. k - 1 \in Nat /\ (k - 1) + 1 = k
      BY <2>2
    <3>2. r \in 0 .. n - 1 /\ k % n = IF r = n - 1 THEN 0 ELSE r + 1
      BY <3>1, ModuloGoesOn
    <3>3. acc.bucketsPointer = r + 1
      BY <2>2 DEF DealtTo
    <3> HIDE DEF r
    <3> QED
      BY <3>2, <3>3
  <2> QED
    BY <2>1, <2>2
<1>2. new = [bucketsPointer |-> here + 1,
             buckets |-> [acc.buckets EXCEPT ![here] = Append(@, seq[k + 1])]]
  BY DEF Dealt
<1> HIDE DEF here, new
<1>3. acc.buckets \in [0 .. n - 1 -> Seq(S)]
  BY DEF DealtTo
<1>4. acc.buckets[here] \in Seq(S)
  BY <1>1, <1>3
<1>5. /\ new.buckets \in [0 .. n - 1 -> Seq(S)]
      /\ new.buckets[here] = Append(acc.buckets[here], seq[k + 1])
      /\ \A i \in 0 .. n - 1 : i # here => new.buckets[i] = acc.buckets[i]
  <2>1. Append(acc.buckets[here], seq[k + 1]) \in Seq(S)
    BY <1>4, AppendProperties
  <2>2. new.buckets = [acc.buckets EXCEPT ![here] = Append(acc.buckets[here], seq[k + 1])]
    BY <1>2
  <2> QED
    BY <1>1, <1>3, <2>1, <2>2
<1>6. new.bucketsPointer = (((k + 1) - 1) % n) + 1
  BY <1>1, <1>2
<1>7. ToSet(new.buckets[here]) = ToSet(acc.buckets[here]) \cup {seq[k + 1]}
  <2> DEFINE old == acc.buckets[here]
             app == Append(old, seq[k + 1])
  <2>1. /\ Len(old) \in Nat /\ DOMAIN old = 1 .. Len(old)
        /\ DOMAIN app = 1 .. Len(old) + 1
        /\ \A j \in 1 .. Len(old) : app[j] = old[j]
        /\ app[Len(old) + 1] = seq[k + 1]
    BY <1>4, AppendProperties, LenProperties
  <2>2. DOMAIN app = DOMAIN old \cup {Len(old) + 1}
    BY <2>1
  <2> HIDE DEF old, app
  <2>3. {app[j] : j \in DOMAIN app} = {old[j] : j \in DOMAIN old} \cup {seq[k + 1]}
    BY <2>1, <2>2
  <2> QED
    BY <1>5, <2>3 DEF ToSet, old, app
<1>8. ASSUME NEW i \in 0 .. n - 1
      PROVE  ToSet(new.buckets[i]) = {seq[j] : j \in {j \in 1 .. k + 1 : (j - 1) % n = i}}
  <2> DEFINE Js(m) == {j \in 1 .. m : (j - 1) % n = i}
  <2>1. ToSet(acc.buckets[i]) = {seq[j] : j \in Js(k)}
    BY DEF DealtTo
  <2>2. 1 .. k + 1 = (1 .. k) \cup {k + 1} /\ (k + 1) - 1 = k
    OBVIOUS
  <2>3. CASE i = here
    <3>1. k % n = i
      BY <1>1, <2>3
    <3>2. Js(k + 1) = Js(k) \cup {k + 1}
      BY <2>2, <3>1
    <3> HIDE DEF Js
    <3>3. {seq[j] : j \in Js(k + 1)} = {seq[j] : j \in Js(k)} \cup {seq[k + 1]}
      BY <3>2
    <3>4. ToSet(new.buckets[i]) = {seq[j] : j \in Js(k + 1)}
      BY <1>7, <2>1, <2>3, <3>3
    <3> QED
      BY <3>4 DEF Js
  <2>4. CASE i # here
    <3>1. k % n # i
      BY <1>1, <2>4
    <3>2. Js(k + 1) = Js(k)
      BY <2>2, <3>1
    <3> HIDE DEF Js
    <3>3. ToSet(new.buckets[i]) = {seq[j] : j \in Js(k + 1)}
      <4>1. new.buckets[i] = acc.buckets[i]
        BY <1>5, <2>4
      <4> QED
        BY <2>1, <3>2, <4>1
    <3> QED
      BY <3>3 DEF Js
  <2> QED
    BY <2>3, <2>4
<1>9. k + 1 # 0
  OBVIOUS
<1> QED
  BY <1>5, <1>6, <1>8, <1>9 DEF DealtTo, new

\* Bucket i has the rows number i + 1, i + 1 + n, and so on.
EveryNth(buckets, seq, n, N) ==
    \A i \in 0 .. n - 1 : \A item :
        item \in ToSet(buckets[i]) <=> \E j \in 1 .. N : (j - 1) % n = i /\ seq[j] = item

\* That is what the loop leaves (the invariant DealtTo holds after each row).
LEMMA BucketsHold ==
    ASSUME NEW n \in Nat \ {0}, NEW N \in Nat, NEW seq, DOMAIN seq = 1 .. N
    PROVE  EveryNth(FillBuckets(seq, n), seq, n, N)
<1> DEFINE S == {seq[j] : j \in 1 .. N}
<1>0. \A j \in 1 .. N : seq[j] \in S
  OBVIOUS
<1>1. PICK acc : Dealing(acc, seq, n, N) /\ FillBuckets(seq, n) = acc[N].buckets
  BY FillBucketsDeals
<1>2. DealtTo(acc[0], seq, n, 0, S)
  <2>1. /\ acc[0].bucketsPointer = 0
        /\ acc[0].buckets = [i \in 0 .. n - 1 |-> <<>>]
    BY <1>1 DEF Dealing, Undealt
  <2>2. <<>> \in Seq(S) /\ ToSet(<<>>) = {} /\ 1 .. 0 = {}
    BY DEF ToSet
  <2> QED
    BY <2>1, <2>2 DEF DealtTo
<1> HIDE DEF S
<1> DEFINE Bad == {k \in 0 .. N : ~DealtTo(acc[k], seq, n, k, S)}
<1>3. CASE Bad # {}
  <2>1. Bad \in SUBSET Nat
    OBVIOUS
  <2> HIDE DEF Bad
  <2>2. PICK k \in Bad : \A j \in Bad : k <= j
    BY <1>3, <2>1, LeastExists
  <2> USE DEF Bad
  <2>3. k \in 0 .. N /\ k # 0
    BY <1>2, <2>2
  <2>4. k - 1 \in 0 .. N /\ k - 1 < k /\ k - 1 \in Nat /\ (k - 1) + 1 = k /\ k \in 1 .. N
    BY <2>3
  <2>5. k - 1 \notin Bad
    BY <2>2, <2>4
  <2>6. DealtTo(acc[k - 1], seq, n, k - 1, S)
    BY <2>4, <2>5
  <2>7. DealtTo(Dealt(acc[k - 1], seq[(k - 1) + 1], n), seq, n, (k - 1) + 1, S)
    BY <1>0, <2>4, <2>6, DealKeeps
  <2>8. DealtTo(acc[k], seq, n, k, S)
    BY <1>1, <2>4, <2>7 DEF Dealing
  <2> QED
    BY <2>2, <2>8
<1>4. CASE Bad = {}
  <2>1. DealtTo(acc[N], seq, n, N, S)
    BY <1>4
  <2>2. \A i \in 0 .. n - 1 :
            ToSet(acc[N].buckets[i]) = {seq[j] : j \in {j \in 1 .. N : (j - 1) % n = i}}
    BY <2>1 DEF DealtTo
  <2>3. ASSUME NEW i \in 0 .. n - 1, NEW item
        PROVE  item \in ToSet(acc[N].buckets[i]) <=> \E j \in 1 .. N : (j - 1) % n = i /\ seq[j] = item
    BY <2>2, ZenonT(60)
  <2> QED
    BY <1>1, <2>3 DEF EveryNth
<1> QED
  BY <1>3, <1>4

-----------------------------------------------------------------------------
(***************************************************************************)
(* The loop and the closed form.                                           *)
(***************************************************************************)
\* What the loop gives a daemon is its share, whatever the rows and the list.
LEMMA SplitIsShare ==
    ASSUME NEW S \in SUBSET Int, IsFiniteSet(S), NEW P, NEW list \in Seq(P), NEW d
    PROVE  SplitToDaemons(S, list, d) = Share(S, list, d)
<1> DEFINE n == Len(list)
           N == Cardinality(S)
           seq == DescendingIds(S)
           buckets == FillBuckets(seq, n)
           At == {i \in 1 .. n : list[i] = d}
<1>1. n \in Nat /\ N \in Nat
  BY LenProperties, RanksNumber
<1>2. SplitToDaemons(S, list, d) = {item \in S : \E i \in At : item \in ToSet(buckets[i - 1])}
  BY DEF SplitToDaemons
<1>3. CASE n = 0
  BY <1>2, <1>3 DEF Share
<1>4. CASE n # 0
  <2>1. n \in Nat \ {0} /\ n > 0
    BY <1>1, <1>4
  <2>2. /\ DOMAIN seq = 1 .. N
        /\ \A k \in 1 .. N : seq[k] \in S /\ Rank(S, seq[k]) = k - 1
        /\ \A id \in S : seq[Rank(S, id) + 1] = id
    BY RowsAreListed
  <2> HIDE DEF n, N, seq
  <2>5. EveryNth(buckets, seq, n, N)
    BY <1>1, <2>1, <2>2, BucketsHold
  <2> HIDE DEF buckets
  <2>6. ASSUME NEW item \in S, NEW i \in 1 .. n
        PROVE  item \in ToSet(buckets[i - 1]) <=> Rank(S, item) % n = i - 1
    <3>1. Rank(S, item) \in 0 .. N - 1
      BY RanksNumber DEF N
    <3>2. Rank(S, item) + 1 \in 1 .. N /\ (Rank(S, item) + 1) - 1 = Rank(S, item)
      BY <1>1, <3>1
    <3>3. i - 1 \in 0 .. n - 1
      BY <1>1
    <3>4. item \in ToSet(buckets[i - 1]) <=> \E j \in 1 .. N : (j - 1) % n = i - 1 /\ seq[j] = item
      BY <2>5, <3>3 DEF EveryNth
    <3>5. \A j \in 1 .. N : seq[j] = item => j - 1 = Rank(S, item)
      BY <2>2
    <3> QED
      BY <2>2, <3>2, <3>4, <3>5
  <2>7. ASSUME NEW item \in S
        PROVE  (\E i \in At : item \in ToSet(buckets[i - 1])) <=> list[(Rank(S, item) % n) + 1] = d
    <3>1. Rank(S, item) \in Nat
      BY RanksNumber
    <3>2. Rank(S, item) % n \in 0 .. n - 1
      BY <2>1, <3>1, ModuloGoesOn
    <3> DEFINE r == Rank(S, item) % n
    <3> HIDE DEF r
    <3>3. r + 1 \in 1 .. n /\ (r + 1) - 1 = r
      BY <2>1, <3>2 DEF r
    <3>4. \A i \in 1 .. n : item \in ToSet(buckets[i - 1]) <=> i = r + 1
      BY <2>6, <3>3 DEF r
    <3>5. (\E i \in At : item \in ToSet(buckets[i - 1])) <=> list[r + 1] = d
      BY <3>3, <3>4
    <3> QED
      BY <3>5 DEF r
  <2>8. Share(S, list, d) = {item \in S : list[(Rank(S, item) % n) + 1] = d}
    BY <2>1 DEF Share, n
  <2> QED
    BY <1>2, <2>7, <2>8
<1> QED
  BY <1>3, <1>4

\* Rows of which each has one, some places on, in the other set.
LEMMA ShiftedRows ==
    ASSUME NEW S \in SUBSET Int, IsFiniteSet(S), NEW A \in SUBSET S, NEW B \in SUBSET S,
           NEW shift \in Int,
           \A id \in A : /\ Rank(S, id) + shift \in 0 .. Cardinality(S) - 1
                         /\ \A other \in S : Rank(S, other) = Rank(S, id) + shift => other \in B
    PROVE  Cardinality(A) <= Cardinality(B)
<1> DEFINE seq == DescendingIds(S)
           f == [id \in A |-> seq[Rank(S, id) + shift + 1]]
<1>1. ASSUME NEW id \in A
      PROVE  f[id] \in B /\ Rank(S, f[id]) = Rank(S, id) + shift
  <2> DEFINE k == Rank(S, id) + shift + 1
  <2>1. Rank(S, id) \in Nat /\ Cardinality(S) \in Nat
    BY RanksNumber
  <2>2. k \in 1 .. Cardinality(S) /\ k - 1 = Rank(S, id) + shift
    BY <2>1
  <2>3. seq[k] \in S /\ Rank(S, seq[k]) = Rank(S, id) + shift
    BY <2>2, RowsAreListed
  <2> QED
    BY <2>3
<1>2. ASSUME NEW x \in A, NEW y \in A, f[x] = f[y]
      PROVE  x = y
  <2>1. Rank(S, x) \in Nat /\ Rank(S, y) \in Nat
    BY RanksNumber
  <2>2. Rank(S, x) = Rank(S, y)
    BY <1>1, <1>2, <2>1
  <2>3. x = seq[Rank(S, x) + 1] /\ y = seq[Rank(S, y) + 1]
    BY RowsAreListed
  <2> QED
    BY <2>2, <2>3
<1>3. f \in [A -> B]
  BY <1>1
<1> HIDE DEF f
<1>4. f \in Injection(A, B)
  BY <1>2, <1>3, Fun_IsInj
<1>5. IsFiniteSet(B)
  BY FS_Subset
<1> QED
  BY <1>4, <1>5, FS_Injection

\* The rows of one place of the list of n daemons.
RowsAt(S, n, i) == {id \in S : Rank(S, id) % n = i}

\* The rows of an earlier place are as many as those of a later one, or one more.
LEMMA PlacesAreEven ==
    ASSUME NEW S \in SUBSET Int, IsFiniteSet(S), NEW n \in Nat \ {0},
           NEW i \in 0 .. n - 1, NEW j \in 0 .. n - 1, i < j
    PROVE  Cardinality(RowsAt(S, n, i)) - Cardinality(RowsAt(S, n, j)) \in {0, 1}
<1> DEFINE A == RowsAt(S, n, i)
           B == RowsAt(S, n, j)
           N == Cardinality(S)
           First == {id \in S : Rank(S, id) = i}
<1>1. /\ N \in Nat /\ \A id \in S : Rank(S, id) \in 0 .. N - 1
      /\ A \in SUBSET S /\ B \in SUBSET S
  BY RanksNumber DEF RowsAt
<1>2. \A q \in Int, t \in 0 .. n - 1 : (n * q + t) % n = t
  <2> SUFFICES ASSUME NEW q \in Int, NEW t \in 0 .. n - 1
               PROVE  (n * q + t) % n = t
    OBVIOUS
  <2> QED
    BY SMTT(30)
<1>3. ASSUME NEW r \in Nat
      PROVE  \E q \in Nat : r = n * q + (r % n) /\ n * q \in Nat
  <2>1. r = n * (r \div n) + (r % n) /\ r \div n \in Nat
    BY SMTT(30)
  <2>2. n * (r \div n) \in Nat
    BY <2>1, SMTT(30)
  <2> QED
    BY <2>1, <2>2
<1> HIDE DEF N
<1>4. Cardinality(B) <= Cardinality(A)
  <2>1. ASSUME NEW id \in B
        PROVE  /\ Rank(S, id) + (i - j) \in 0 .. N - 1
               /\ \A other \in S : Rank(S, other) = Rank(S, id) + (i - j) => other \in A
    <3> DEFINE r == Rank(S, id)
    <3>1. r \in 0 .. N - 1 /\ r % n = j /\ r \in Nat
      BY <1>1 DEF RowsAt
    <3> HIDE DEF r
    <3>2. PICK q \in Nat : r = n * q + j /\ n * q \in Nat
      BY <1>3, <3>1
    <3>3. r + (i - j) = n * q + i
      BY <3>2
    <3>4. (r + (i - j)) % n = i
      BY <1>2, <3>2, <3>3
    <3>5. r + (i - j) \in 0 .. N - 1
      BY <1>1, <3>1, <3>2, <3>3
    <3> QED
      BY <3>4, <3>5 DEF r, RowsAt
  <2> HIDE DEF A, B
  <2> QED
    BY <1>1, <2>1, ShiftedRows DEF N
<1>5. Cardinality(A \ First) <= Cardinality(B)
  <2>1. ASSUME NEW id \in A \ First
        PROVE  /\ Rank(S, id) + (j - i - n) \in 0 .. N - 1
               /\ \A other \in S : Rank(S, other) = Rank(S, id) + (j - i - n) => other \in B
    <3> DEFINE r == Rank(S, id)
    <3>1. r \in 0 .. N - 1 /\ r % n = i /\ r \in Nat /\ r # i
      BY <1>1 DEF RowsAt
    <3> HIDE DEF r
    <3>2. PICK q \in Nat : r = n * q + i /\ n * q \in Nat
      BY <1>3, <3>1
    <3>3. q - 1 \in Nat /\ n * q = n * (q - 1) + n
      <4>1. q # 0
        BY <3>1, <3>2
      <4> QED
        BY <4>1
    <3>4. n * (q - 1) \in Nat
      BY <3>3, SMTT(30)
    <3>5. r + (j - i - n) = n * (q - 1) + j
      BY <3>2, <3>3, <3>4
    <3>6. (r + (j - i - n)) % n = j
      BY <1>2, <3>3, <3>5
    <3>7. r + (j - i - n) \in 0 .. N - 1
      BY <1>1, <3>1, <3>4, <3>5
    <3> QED
      BY <3>6, <3>7 DEF r, RowsAt
  <2>2. A \ First \in SUBSET S
    BY <1>1
  <2> DEFINE C == A \ First
  <2> HIDE DEF A, B, C
  <2>3. Cardinality(C) <= Cardinality(B)
    BY <1>1, <2>1, <2>2, ShiftedRows DEF N, C
  <2> QED
    BY <2>3 DEF C
<1>6. Cardinality(A) <= Cardinality(A \ First) + 1
  <2>1. IsFiniteSet(A)
    BY <1>1, FS_Subset
  <2>2. A \ First = A \/ \E id \in A : A \ First = A \ {id}
    <3>1. ASSUME NEW x \in S, NEW y \in S, Rank(S, x) = Rank(S, y)
          PROVE  x = y
      BY <3>1, RowsAreListed
    <3>2. ASSUME NEW id \in A, id \in First
          PROVE  A \ First = A \ {id}
      BY <1>1, <3>1, <3>2
    <3> QED
      BY <3>2
  <2> HIDE DEF A, First
  <2>3. Cardinality(A) \in Nat
    BY <2>1, FS_CardinalityType
  <2>4. ASSUME NEW id \in A
        PROVE  Cardinality(A \ {id}) = Cardinality(A) - 1
    BY <2>1, FS_RemoveElement
  <2> QED
    BY <2>2, <2>3, <2>4
<1>7. IsFiniteSet(A) /\ IsFiniteSet(B) /\ IsFiniteSet(A \ First)
  BY <1>1, FS_Subset
<1> HIDE DEF A, B, First
<1>8. Cardinality(A) \in Nat /\ Cardinality(B) \in Nat /\ Cardinality(A \ First) \in Nat
  BY <1>7, FS_CardinalityType
<1>9. Cardinality(A) - Cardinality(B) \in {0, 1}
  BY <1>4, <1>5, <1>6, <1>8
<1> QED
  BY <1>9 DEF A, B

-----------------------------------------------------------------------------
(***************************************************************************)
(* The walk through all tables and lists.                                  *)
(***************************************************************************)
\* The rows are finitely many, and a daemon is listed once.
SplitInv ==
    /\ rows \in SUBSET Ids /\ IsFiniteSet(rows)
    /\ daemons \in Seq(Peers)
    /\ \A i, j \in DOMAIN daemons : daemons[i] = daemons[j] => i = j

\* A map lists each of its keys at one place.
LEMMA ListingsListOnce ==
    ASSUME NEW keys \in SUBSET Peers, NEW list \in Listings(keys)
    PROVE  list \in Seq(Peers) /\ \A i, j \in DOMAIN list : list[i] = list[j] => i = j
<1>1. Cardinality(keys) \in Nat
  BY SplitAssumption, FS_Subset, FS_CardinalityType
<1> DEFINE n == Cardinality(keys)
<1> HIDE DEF n
<1>2. list \in [1 .. n -> keys] /\ \A i, j \in 1 .. n : list[i] = list[j] => i = j
  BY DEF Listings, n
<1>3. list \in [1 .. n -> Peers] /\ n \in Nat
  BY <1>1, <1>2 DEF n
<1>4. list \in Seq(Peers)
  BY <1>3, IsASeq DEF n
<1> QED
  BY <1>2, <1>4

\* No row and no list of peers breaks that.
LEMMA SplitInvHolds == SplitSpec => []SplitInv
<1>1. SplitInit => SplitInv
  BY FS_EmptySet DEF SplitInit, SplitInv
<1>2. ASSUME SplitInv, [SplitNext]_<<rows, daemons>>
      PROVE  SplitInv'
  <2>1. CASE InsertRow
    <3>1. PICK id \in Ids : rows' = rows \cup {id} /\ UNCHANGED daemons
      BY <2>1 DEF InsertRow
    <3>2. IsFiniteSet(rows \cup {id})
      BY <1>2, FS_AddElement DEF SplitInv
    <3> QED
      BY <1>2, <3>1, <3>2 DEF SplitInv
  <2>2. CASE DeleteRow
    <3>1. PICK id \in rows : rows' = rows \ {id} /\ UNCHANGED daemons
      BY <2>2 DEF DeleteRow
    <3>2. IsFiniteSet(rows \ {id})
      BY <1>2, FS_RemoveElement DEF SplitInv
    <3> QED
      BY <1>2, <3>1, <3>2 DEF SplitInv
  <2>3. CASE Relist
    BY <1>2, <2>3, ListingsListOnce DEF Relist, SplitInv
  <2>4. CASE UNCHANGED <<rows, daemons>>
    BY <1>2, <2>4 DEF SplitInv
  <2> QED
    BY <1>2, <2>1, <2>2, <2>3, <2>4 DEF SplitNext
<1> QED
  BY <1>1, <1>2, PTL DEF SplitSpec

\* The walk's shares in closed form.
LEMMA ShareIs ==
    ASSUME SplitInv
    PROVE  \A d : ShareOf(d) = Share(rows, daemons, d)
<1>1. rows \in SUBSET Int /\ IsFiniteSet(rows) /\ daemons \in Seq(Peers)
  BY SplitAssumption DEF SplitInv
<1> QED
  BY <1>1, SplitIsShare DEF ShareOf

(***************************************************************************)
(* LoopIsShare: the bucketsPointer of AllSplitToDaemons (check.go:159),    *)
(* which wraps around before a row is appended and moves on after it,      *)
(* deals the row with r newer ones to the daemon r % n of the list.  The   *)
(* scheduler, which is modelled with Share, therefore runs what the loop   *)
(* computes.                                                               *)
(***************************************************************************)
THEOREM LoopDealsShares == SplitSpec => []LoopIsShare
<1>1. SplitInv => LoopIsShare
  BY ShareIs DEF LoopIsShare
<1> QED
  BY <1>1, SplitInvHolds, PTL

(***************************************************************************)
(* SharesPartition: every row is dealt, to one daemon, and shares differ   *)
(* by a row at most.  Rows are counted by moving each row of a share to    *)
(* the row that the daemon of another place got in the same round, or in   *)
(* the round before.                                                       *)
(***************************************************************************)
THEOREM SharesAreFair == SplitSpec => []SharesPartition
<1>1. ASSUME SplitInv, daemons # <<>>
      PROVE  /\ UNION {ShareOf(d) : d \in ToSet(daemons)} = rows
             /\ \A d, e \in ToSet(daemons) : d # e => ShareOf(d) \cap ShareOf(e) = {}
             /\ \A i, j \in DOMAIN daemons : i < j =>
                    Cardinality(ShareOf(daemons[i])) - Cardinality(ShareOf(daemons[j])) \in {0, 1}
  <2> DEFINE n == Len(daemons)
             place(id) == (Rank(rows, id) % n) + 1
  <2>1. rows \in SUBSET Int /\ IsFiniteSet(rows) /\ daemons \in Seq(Peers)
    BY <1>1, SplitAssumption DEF SplitInv
  <2>2. n \in Nat \ {0} /\ DOMAIN daemons = 1 .. n
    BY <1>1, <2>1, LenProperties, EmptySeq
  <2>3. \A d : ShareOf(d) = {id \in rows : daemons[place(id)] = d}
    BY <1>1, <2>2, ShareIs DEF Share
  <2> HIDE DEF n
  <2>4. ASSUME NEW id \in rows
        PROVE  place(id) \in 1 .. n /\ Rank(rows, id) % n = place(id) - 1
    <3>1. Rank(rows, id) \in Nat
      BY <2>1, RanksNumber
    <3> DEFINE r == Rank(rows, id) % n
    <3>2. r \in 0 .. n - 1
      BY <2>2, <3>1, ModuloGoesOn
    <3> HIDE DEF r
    <3>3. r + 1 \in 1 .. n /\ r = (r + 1) - 1
      BY <2>2, <3>2
    <3> QED
      BY <3>3 DEF r
  <2>5. UNION {ShareOf(d) : d \in ToSet(daemons)} = rows
    <3>1. \A id \in rows : daemons[place(id)] \in ToSet(daemons)
      BY <2>2, <2>4 DEF ToSet
    <3> HIDE DEF place
    <3>2. \A id \in rows : id \in ShareOf(daemons[place(id)])
      BY <2>3
    <3>3. \A d : ShareOf(d) \subseteq rows
      BY <2>3
    <3> QED
      BY <3>1, <3>2, <3>3
  <2>6. ASSUME NEW d, NEW e, d # e
        PROVE  ShareOf(d) \cap ShareOf(e) = {}
    <3> HIDE DEF place
    <3> QED
      BY <2>3, <2>6
  <2>7. ASSUME NEW i \in DOMAIN daemons, NEW j \in DOMAIN daemons, i < j
        PROVE  Cardinality(ShareOf(daemons[i])) - Cardinality(ShareOf(daemons[j])) \in {0, 1}
    <3>1. ASSUME NEW k \in DOMAIN daemons
          PROVE  ShareOf(daemons[k]) = RowsAt(rows, n, k - 1)
      <4>1. \A id \in rows : daemons[place(id)] = daemons[k] <=> place(id) = k
        BY <1>1, <2>2, <2>4, <3>1 DEF SplitInv
      <4>2. \A id \in rows : place(id) = k <=> Rank(rows, id) % n = k - 1
        <5> SUFFICES ASSUME NEW id \in rows
                     PROVE  place(id) = k <=> Rank(rows, id) % n = k - 1
          OBVIOUS
        <5> DEFINE r == Rank(rows, id) % n
                   p == place(id)
        <5>1. p \in 1 .. n /\ r = p - 1 /\ k \in 1 .. n
          BY <2>2, <2>4
        <5> HIDE DEF p, r
        <5>2. p = k <=> r = k - 1
          BY <5>1
        <5> QED
          BY <5>2 DEF p, r
      <4> HIDE DEF place
      <4> QED
        BY <2>3, <4>1, <4>2 DEF RowsAt
    <3>2. i - 1 \in 0 .. n - 1 /\ j - 1 \in 0 .. n - 1 /\ i - 1 < j - 1
      BY <2>2, <2>7
    <3>3. Cardinality(RowsAt(rows, n, i - 1)) - Cardinality(RowsAt(rows, n, j - 1)) \in {0, 1}
      BY <2>1, <2>2, <3>2, PlacesAreEven
    <3> QED
      BY <3>1, <3>3
  <2> QED
    BY <2>5, <2>6, <2>7
<1>2. SplitInv => SharesPartition
  BY <1>1 DEF SharesPartition
<1> QED
  BY <1>2, SplitInvHolds, PTL

(***************************************************************************)
(* DeleteKeepsNewerShares: the query orders rows by id, newest first       *)
(* (check.go:153), so a row that goes has no part in the ranks of newer    *)
(* ones.                                                                   *)
(***************************************************************************)
THEOREM NewerSharesStay == SplitSpec => DeleteKeepsNewerShares
<1> DEFINE Stay == \A d \in Peers : \A id \in rows \ rows' :
                      {x \in ShareOf(d) : x > id} = {x \in ShareOf(d)' : x > id}
<1>1. ASSUME SplitInv, SplitInv', SplitNext
      PROVE  Stay
  <2> SUFFICES ASSUME NEW d \in Peers, NEW id \in rows \ rows'
               PROVE  {x \in ShareOf(d) : x > id} = {x \in ShareOf(d)' : x > id}
    OBVIOUS
  <2>1. DeleteRow
    BY <1>1 DEF SplitNext, InsertRow, Relist
  <2>2. rows' = rows \ {id} /\ daemons' = daemons
    BY <2>1 DEF DeleteRow
  <2>3. rows \subseteq Int
    BY <1>1, SplitAssumption DEF SplitInv
  <2>4. \A x \in rows : x > id => Rank(rows', x) = Rank(rows, x)
    <3> SUFFICES ASSUME NEW x \in rows, x > id PROVE Rank(rows', x) = Rank(rows, x)
      OBVIOUS
    <3>1. ~(id > x)
      BY <2>3
    <3>2. {newer \in rows' : newer > x} = {newer \in rows : newer > x}
      BY <2>2, <3>1
    <3> QED
      BY <3>2 DEF Rank
  <2>5. ShareOf(d) = Share(rows, daemons, d) /\ ShareOf(d)' = Share(rows', daemons, d)
    <3>1. ShareOf(d)' = Share(rows', daemons', d)
      <4>1. rows' \in SUBSET Int /\ IsFiniteSet(rows') /\ daemons' \in Seq(Peers)
        BY <1>1, SplitAssumption DEF SplitInv
      <4> QED
        BY <4>1, SplitIsShare DEF ShareOf
    <3> QED
      BY <1>1, <2>2, <3>1, ShareIs
  <2>6. \A x : x > id => (x \in rows' <=> x \in rows)
    BY <2>2, <2>3
  <2> QED
    BY <2>4, <2>5, <2>6 DEF Share
<1>2. ASSUME SplitInv, SplitInv', [SplitNext]_<<rows, daemons>>
      PROVE  [Stay]_<<rows, daemons>>
  <2> HIDE DEF Stay
  <2> QED
    BY <1>1, <1>2
<1> QED
  BY <1>2, SplitInvHolds, PTL DEF SplitSpec, DeleteKeepsNewerShares

-----------------------------------------------------------------------------
(***************************************************************************)
(* The scheduler.                                                          *)
(***************************************************************************)
\* The counters of goroutines stay within their bound.
LEMMA CountersSaturate ==
    ASSUME NEW n \in 0 .. Many
    PROVE  /\ More(n) \in 0 .. Many
           /\ More(n) > 0
           /\ n > 0 => /\ Fewer(n) \subseteq 0 .. Many
                       /\ \A m \in Fewer(n) : m <= n
  BY SchedulerAssumption DEF More, Fewer

\* What a range over the peers map yields is a sequence of daemons.
LEMMA ListingsAreSequences ==
    ASSUME NEW listing \in AllListings
    PROVE  listing \in Seq(Daemons)
<1>1. PICK ps \in SUBSET Daemons : listing \in Listings(ps)
  BY DEF AllListings
<1>2. Cardinality(ps) \in Nat
  BY <1>1, SchedulerAssumption, FS_Subset, FS_CardinalityType
<1>3. listing \in [1 .. Cardinality(ps) -> Daemons]
  BY <1>1, <1>2 DEF Listings
<1> QED
  BY <1>2, <1>3

\* Updates of a row keep it within the bound and never create it.
LEMMA EditsKeepTheTable ==
    ASSUME TypeOK, NEW c \in CheckIds
    PROVE  /\ Edited(c) \in 0 .. MaxVer
           /\ Edited(c) >= row[c]
           /\ Edited(c) = 0 <=> row[c] = 0
  BY SchedulerAssumption DEF TypeOK, Edited

-----------------------------------------------------------------------------
(* Type correctness.                                                        *)

LEMMA InitTypeOK == Init => TypeOK
<1> SUFFICES ASSUME Init PROVE TypeOK
  OBVIOUS
<1>1. row \in [CheckIds -> 0 .. MaxVer] /\ nextId \in 1 .. MaxCheck + 1 /\ crashes \in 0 .. MaxCrashes
  BY SchedulerAssumption DEF Init, CheckIds
<1>2. publishing \in [Daemons -> 0 .. Many] /\ blocked \in [Daemons -> 0 .. Many]
  BY SchedulerAssumption DEF Init
<1>3. inbox \in [Daemons -> [Messages -> 0 .. Copies]] /\ runners \in [Daemons -> [Row -> 0 .. Many]]
  BY SchedulerAssumption DEF Init, EmptyInbox, NoRunners
<1>4. peers \in [Daemons -> [Daemons -> {"absent", "fresh", "expired"}]]
  BY DEF Init, BootPeers
<1>5. Waiting \in Fetchers
  BY DEF Waiting, Fetcher, Fetchers
<1> QED
  BY <1>1, <1>2, <1>3, <1>4, <1>5 DEF Init, TypeOK

LEMMA PublishType ==
    ASSUME TypeOK, NEW d \in Daemons, NEW msg \in Messages, Publish(d, msg)
    PROVE  inbox' \in [Daemons -> [Messages -> 0 .. Copies]]
<1>1. PICK arriving \in Arriving :
        inbox' = [e \in Daemons |->
            IF up[e] /\ (e = d => DialsSelf) /\ arriving[e] > inbox[e][msg]
            THEN [inbox[e] EXCEPT ![msg] = arriving[e]] ELSE inbox[e]]
  BY DEF Publish
<1>2. arriving \in [Daemons -> 0 .. Copies]
  BY SchedulerAssumption DEF Arriving
<1> QED
  BY <1>1, <1>2 DEF TypeOK

LEMMA ReceiveType ==
    ASSUME TypeOK, NEW d \in Daemons, NEW msg \in Messages, Receive(d, msg)
    PROVE  inbox' \in [Daemons -> [Messages -> 0 .. Copies]]
<1>1. inbox[d][msg] \in 1 .. Copies
  BY SchedulerAssumption DEF TypeOK, Receive
<1> QED
  BY <1>1, SchedulerAssumption DEF TypeOK, Receive

LEMMA NextTypeOK == TypeOK /\ [Next]_vars => TypeOK'
<1> SUFFICES ASSUME TypeOK, [Next]_vars PROVE TypeOK'
  OBVIOUS
<1> USE SchedulerAssumption
<1>1. CASE UNCHANGED vars
  BY <1>1 DEF TypeOK, vars
<1>2. ASSUME NEW d \in Daemons, Crash(d) PROVE TypeOK'
  <2>1. /\ EmptyInbox \in [Messages -> 0 .. Copies]
        /\ NoRunners \in [Row -> 0 .. Many]
        /\ [p \in Daemons |-> "absent"] \in [Daemons -> {"absent", "fresh", "expired"}]
       
    BY DEF EmptyInbox, NoRunners
  <2>2. crashes' \in 0 .. MaxCrashes
    BY <1>2 DEF TypeOK, Crash
  <2>3. Waiting \in Fetchers
    BY DEF Waiting, Fetcher, Fetchers
  <2>4. publishing' \in [Daemons -> 0 .. Many] /\ blocked' \in [Daemons -> 0 .. Many]
    BY <1>2 DEF TypeOK, Crash
  <2> QED
    BY <1>2, <2>1, <2>2, <2>3, <2>4 DEF TypeOK, Crash, dbVars
<1>3. ASSUME NEW d \in Daemons, Start(d) PROVE TypeOK'
  <2>1. BootPeers(d) \in [Daemons -> {"absent", "fresh", "expired"}]
    BY DEF BootPeers
  <2>2. up' \in [Daemons -> BOOLEAN] /\ blocked' \in [Daemons -> 0 .. Many]
    BY <1>3 DEF TypeOK, Start
  <2> QED
    BY <1>3, <2>1, <2>2 DEF TypeOK, Start, dbVars, httpVars
<1>4. ASSUME NEW d \in Daemons, PostChecks(d) PROVE TypeOK'
  <2>1. nextId \in CheckIds /\ nextId' \in 1 .. MaxCheck + 1
    BY <1>4 DEF TypeOK, PostChecks, CheckIds
  <2>2. publishing' \in [Daemons -> 0 .. Many]
    BY <1>4, CountersSaturate DEF TypeOK, PostChecks
  <2> QED
    BY <1>4, <2>1, <2>2 DEF TypeOK, PostChecks, procVars
<1>5. ASSUME NEW d \in Daemons, NEW c \in CheckIds, NEW op \in {"edit", "delete"},
             PostPutDelete(d, c, op)
      PROVE  TypeOK'
  <2>1. publishing' \in [Daemons -> 0 .. Many]
    BY <1>5, CountersSaturate DEF TypeOK, PostPutDelete
  <2> QED
    BY <1>5, <2>1 DEF TypeOK, PostPutDelete, dbVars, procVars
<1>6. ASSUME NEW d \in Daemons, NEW c \in CheckIds, PutCheckID(d, c) PROVE TypeOK'
  BY <1>6, EditsKeepTheTable DEF TypeOK, PutCheckID, procVars
<1>7. ASSUME NEW d \in Daemons, NEW c \in CheckIds, DeleteCheckID(d, c) PROVE TypeOK'
  BY <1>7 DEF TypeOK, DeleteCheckID, procVars
<1>8. ASSUME NEW d \in Daemons, NEW c \in CheckIds, PostChecksTriggers(d, c) PROVE TypeOK'
  <2>1. publishing' \in [Daemons -> 0 .. Many]
    BY <1>8, CountersSaturate DEF TypeOK, PostChecksTriggers
  <2> QED
    BY <1>8, <2>1, EditsKeepTheTable DEF TypeOK, PostChecksTriggers, procVars
<1>9. ASSUME NEW d \in Daemons, NEW c \in CheckIds, PostCheckIDSilence(d, c) PROVE TypeOK'
  BY <1>9, EditsKeepTheTable DEF TypeOK, PostCheckIDSilence, httpVars, procVars
<1>10. ASSUME NEW d \in Daemons, SendHeartbeat(d) PROVE TypeOK'
  <2>1. inbox' \in [Daemons -> [Messages -> 0 .. Copies]]
    BY <1>10, PublishType DEF SendHeartbeat, Messages
  <2> QED
    BY <1>10, <2>1 DEF TypeOK, SendHeartbeat, dbVars, httpVars, procVars
<1>11. ASSUME NEW d \in Daemons, PublishRefetch(d) PROVE TypeOK'
  <2>1. inbox' \in [Daemons -> [Messages -> 0 .. Copies]]
    BY <1>11, PublishType DEF PublishRefetch, Messages
  <2>2. publishing' \in [Daemons -> 0 .. Many]
    BY <1>11, CountersSaturate DEF TypeOK, PublishRefetch
  <2> QED
    BY <1>11, <2>1, <2>2 DEF TypeOK, PublishRefetch, dbVars, procVars
<1>12. ASSUME NEW d \in Daemons, NEW p \in Daemons, PeersHeartbeat(d, p) PROVE TypeOK'
  <2>1. inbox' \in [Daemons -> [Messages -> 0 .. Copies]]
    BY <1>12, ReceiveType DEF PeersHeartbeat, Messages
  <2>2. blocked' \in [Daemons -> 0 .. Many]
    BY <1>12, CountersSaturate DEF TypeOK, PeersHeartbeat
  <2> QED
    BY <1>12, <2>1, <2>2 DEF TypeOK, PeersHeartbeat, dbVars, httpVars, procVars
<1>13. ASSUME NEW d \in Daemons, ChecksRefetch(d) PROVE TypeOK'
  <2>1. inbox' \in [Daemons -> [Messages -> 0 .. Copies]]
    BY <1>13, ReceiveType DEF ChecksRefetch, Messages
  <2>2. blocked' \in [Daemons -> 0 .. Many]
    BY <1>13, CountersSaturate DEF TypeOK, ChecksRefetch
  <2> QED
    BY <1>13, <2>1, <2>2 DEF TypeOK, ChecksRefetch, dbVars, httpVars, procVars
<1>14. ASSUME NEW d \in Daemons, NEW p \in Daemons, Expire(d, p) PROVE TypeOK'
  BY <1>14 DEF TypeOK, Expire, dbVars, httpVars, procVars
<1>15. ASSUME NEW d \in Daemons, DeleteExpired(d) PROVE TypeOK'
  BY <1>15 DEF TypeOK, DeleteExpired, dbVars, httpVars, procVars
<1>16. ASSUME NEW d \in Daemons, TakeRefetch(d) PROVE TypeOK'
  <2>1. blocked' \in [Daemons -> 0 .. Many]
    BY <1>16, CountersSaturate DEF TypeOK, TakeRefetch
  <2>2. Fetcher("ranging", Items(d), <<>>, {}) \in Fetchers
    BY DEF Items, Fetcher, Fetchers
  <2> QED
    BY <1>16, <2>1, <2>2 DEF TypeOK, TakeRefetch, dbVars, httpVars, procVars
<1>17. ASSUME NEW d \in Daemons, NEW listing \in AllListings, RangePeers(d, listing)
       PROVE  TypeOK'
  <2>1. Fetcher("querying", {}, listing, {}) \in Fetchers
    BY ListingsAreSequences DEF Fetcher, Fetchers
  <2> QED
    BY <1>17, <2>1 DEF TypeOK, RangePeers, dbVars, httpVars, procVars
<1>18. ASSUME NEW d \in Daemons, FetchChecks(d) PROVE TypeOK'
  <2> DEFINE present == {c \in CheckIds : row[c] > 0}
             batch == {[id |-> c, ver |-> row[c]] : c \in Share(present, fetch[d].daemons, d)}
  <2>1. batch \subseteq Row
    <3>1. \A c \in present : row[c] \in 1 .. MaxVer
      BY DEF TypeOK
    <3>2. Share(present, fetch[d].daemons, d) \subseteq present
      BY DEF Share
    <3>3. \A c \in Share(present, fetch[d].daemons, d) : [id |-> c, ver |-> row[c]] \in Row
      BY <3>1, <3>2 DEF Row
    <3> QED
      BY <3>3
  <2>2. Fetcher("sending", {}, <<>>, batch) \in Fetchers
    BY <2>1 DEF Fetcher, Fetchers
  <2>3. fetch' = [fetch EXCEPT ![d] = Fetcher("sending", {}, <<>>, batch)]
    BY <1>18 DEF FetchChecks
  <2> HIDE DEF batch
  <2> QED
    BY <1>18, <2>2, <2>3 DEF TypeOK, FetchChecks, dbVars, httpVars, procVars
<1>19. ASSUME NEW d \in Daemons, FetchFails(d) PROVE TypeOK'
  <2>1. Fetcher("sending", {}, <<>>, {}) \in Fetchers
    BY DEF Fetcher, Fetchers
  <2> QED
    BY <1>19, <2>1 DEF TypeOK, FetchFails, dbVars, httpVars, procVars
<1>20. ASSUME NEW d \in Daemons, DispatchBatch(d) PROVE TypeOK'
  <2>1. runners' \in [Daemons -> [Row -> 0 .. Many]]
    BY <1>20, CountersSaturate DEF TypeOK, DispatchBatch
  <2>2. Waiting \in Fetchers
    BY DEF Waiting, Fetcher, Fetchers
  <2> QED
    BY <1>20, <2>1, <2>2 DEF TypeOK, DispatchBatch, dbVars, httpVars, procVars
<1>21. ASSUME NEW d \in Daemons, NEW r \in Row, RunnerReturns(d, r) PROVE TypeOK'
  <2>1. runners' \in [Daemons -> [Row -> 0 .. Many]]
    BY <1>21, CountersSaturate DEF TypeOK, RunnerReturns
  <2> QED
    BY <1>21, <2>1 DEF TypeOK, RunnerReturns, dbVars, httpVars, procVars
<1>22. ASSUME NEW d \in Daemons, NEW p \in pending, WriteFails(d, p) PROVE TypeOK'
  BY <1>22 DEF TypeOK, WriteFails, dbVars, procVars
<1> QED
  BY <1>1, <1>2, <1>3, <1>4, <1>5, <1>6, <1>7, <1>8, <1>9, <1>10, <1>11, <1>12, <1>13, <1>14,
     <1>15, <1>16, <1>17, <1>18, <1>19, <1>20, <1>21, <1>22
  DEF Next, Handlers, Bus, Cache, Checker

\* Every variable of the scheduler keeps its type, for every value of the constants.
THEOREM TypeCorrect == Spec => []TypeOK
<1>1. Init => TypeOK
  BY InitTypeOK
<1>2. TypeOK /\ [Next]_vars => TypeOK'
  BY NextTypeOK
<1> QED
  BY <1>1, <1>2, PTL DEF Spec

-----------------------------------------------------------------------------
(* The rows a daemon holds.                                                 *)

\* What the fetching goroutine reads is the table as it is.
LEMMA FetchReadsTheTable ==
    ASSUME TypeOK, NEW d \in Daemons, FetchChecks(d)
    PROVE  /\ \A r \in fetch'[d].batch : row[r.id] > 0 /\ r.ver = row[r.id]
           /\ \A e \in Daemons \ {d} : fetch'[e] = fetch[e]
<1> DEFINE present == {c \in CheckIds : row[c] > 0}
           batch == {[id |-> c, ver |-> row[c]] : c \in Share(present, fetch[d].daemons, d)}
<1>1. \A r \in batch : row[r.id] > 0 /\ r.ver = row[r.id]
  <2>1. Share(present, fetch[d].daemons, d) \subseteq present
    BY DEF Share
  <2> SUFFICES ASSUME NEW r \in batch PROVE row[r.id] > 0 /\ r.ver = row[r.id]
    OBVIOUS
  <2>2. PICK c \in Share(present, fetch[d].daemons, d) : r = [id |-> c, ver |-> row[c]]
    OBVIOUS
  <2> QED
    BY <2>1, <2>2
<1>2. fetch' = [fetch EXCEPT ![d] = Fetcher("sending", {}, <<>>, batch)]
  BY DEF FetchChecks
<1> HIDE DEF batch
<1>3. fetch'[d].batch = batch /\ \A e \in Daemons \ {d} : fetch'[e] = fetch[e]
  BY <1>2 DEF TypeOK, Fetcher
<1> QED
  BY <1>1, <1>3

\* A step that leaves the table alone and gives no daemon a row it did not hold.
LEMMA HoldingLess ==
    ASSUME HeldRowsInv, UNCHANGED dbVars,
           \A d \in Daemons : fetch'[d].batch \subseteq fetch[d].batch,
           \A d \in Daemons : \A r \in Row : runners'[d][r] > 0 => runners[d][r] > 0
    PROVE  OnlyUsedIds' /\ NeverAhead' /\ BatchIsNewest'
  BY DEF HeldRowsInv, OnlyUsedIds, NeverAhead, BatchIsNewest, Holds, dbVars

\* A step that deletes a row or moves it forward, and does nothing to the daemons.
LEMMA WritingARow ==
    ASSUME HeldRowsInv, UNCHANGED <<nextId, fetch, runners>>, NEW c \in CheckIds,
           NEW v \in 0 .. MaxVer, v = 0 \/ (row[c] > 0 /\ v >= row[c]),
           row' = [row EXCEPT ![c] = v]
    PROVE  OnlyUsedIds' /\ NeverAhead' /\ BatchIsNewest'
<1> USE SchedulerAssumption
<1>1. row'[c] = v /\ \A x \in CheckIds \ {c} : row'[x] = row[x]
  BY DEF HeldRowsInv, TypeOK
<1>2. \A r \in Row : r.id \in CheckIds /\ r.ver \in 1 .. MaxVer
  BY DEF Row
<1>3. \A x \in CheckIds : row[x] \in 0 .. MaxVer
  BY DEF HeldRowsInv, TypeOK
<1>4. OnlyUsedIds'
  BY <1>1, <1>3 DEF HeldRowsInv, OnlyUsedIds, Holds
<1>5. NeverAhead'
  BY <1>1, <1>2, <1>3 DEF HeldRowsInv, NeverAhead, Holds
<1>6. BatchIsNewest'
  BY DEF HeldRowsInv, BatchIsNewest
<1> QED
  BY <1>4, <1>5, <1>6

LEMMA NextHeldRows == HeldRowsInv /\ [Next]_vars => HeldRowsInv'
<1> SUFFICES ASSUME HeldRowsInv, [Next]_vars PROVE OnlyUsedIds' /\ NeverAhead' /\ BatchIsNewest'
  BY NextTypeOK DEF HeldRowsInv
<1> USE SchedulerAssumption
<1>t. TypeOK
  BY DEF HeldRowsInv
<1> DEFINE Goal == OnlyUsedIds' /\ NeverAhead' /\ BatchIsNewest'
<1>1. ASSUME UNCHANGED <<row, nextId, fetch, runners>> PROVE Goal
  BY <1>1, HoldingLess DEF dbVars
<1>2. ASSUME NEW d \in Daemons, Crash(d) PROVE Goal
  <2>1. \A e \in Daemons : fetch'[e].batch \subseteq fetch[e].batch
    BY <1>2, <1>t DEF TypeOK, Crash, Waiting, Fetcher
  <2>2. \A e \in Daemons : \A r \in Row : runners'[e][r] > 0 => runners[e][r] > 0
    BY <1>2, <1>t DEF TypeOK, Crash, NoRunners
  <2> QED
    BY <1>2, <2>1, <2>2, HoldingLess DEF Crash
<1>3. ASSUME NEW d \in Daemons, PostChecks(d) PROVE Goal
  <2>1. nextId \in CheckIds /\ nextId' = nextId + 1 /\ row'[nextId] = 1
        /\ \A c \in CheckIds \ {nextId} : row'[c] = row[c]
    BY <1>3, <1>t DEF TypeOK, PostChecks, CheckIds
  <2>2. \A r \in Row : r.id \in CheckIds
    BY DEF Row
  <2>3. UNCHANGED <<fetch, runners>>
    BY <1>3 DEF PostChecks
  <2>4. OnlyUsedIds'
    BY <2>1, <2>2, <2>3, <1>t DEF HeldRowsInv, OnlyUsedIds, Holds, CheckIds
  <2>5. NeverAhead'
    BY <2>1, <2>2, <2>3 DEF HeldRowsInv, OnlyUsedIds, NeverAhead, Holds, CheckIds
  <2>6. BatchIsNewest'
    BY <2>3 DEF HeldRowsInv, BatchIsNewest
  <2> QED
    BY <2>4, <2>5, <2>6
<1>4. ASSUME NEW d \in Daemons, NEW c \in CheckIds,
             PutCheckID(d, c) \/ PostChecksTriggers(d, c) \/ PostCheckIDSilence(d, c)
      PROVE  Goal
  <2>1. UNCHANGED <<nextId, fetch, runners>> /\ row' = [row EXCEPT ![c] = Edited(c)]
    BY <1>4 DEF PutCheckID, PostChecksTriggers, PostCheckIDSilence
  <2>2. Edited(c) \in 0 .. MaxVer /\ (Edited(c) = 0 \/ (row[c] > 0 /\ Edited(c) >= row[c]))
    BY <1>t, EditsKeepTheTable DEF TypeOK
  <2> QED
    BY <2>1, <2>2, WritingARow
<1>5. ASSUME NEW d \in Daemons, NEW c \in CheckIds, DeleteCheckID(d, c) PROVE Goal
  <2>1. UNCHANGED <<nextId, fetch, runners>> /\ row' = [row EXCEPT ![c] = 0]
    BY <1>5 DEF DeleteCheckID
  <2>2. 0 \in 0 .. MaxVer
    OBVIOUS
  <2> QED
    BY <2>1, <2>2, WritingARow
<1>6. ASSUME NEW d \in Daemons,
             TakeRefetch(d) \/ FetchFails(d) \/ \E listing \in AllListings : RangePeers(d, listing)
      PROVE  Goal
  <2>1. UNCHANGED <<dbVars, runners>>
    BY <1>6 DEF TakeRefetch, FetchFails, RangePeers
  <2>2. \A e \in Daemons : fetch'[e] = fetch[e] \/ fetch'[e].batch = {}
    <3>1. CASE TakeRefetch(d)
      BY <3>1, <1>t DEF TypeOK, TakeRefetch, Fetcher
    <3>2. CASE FetchFails(d)
      BY <3>2, <1>t DEF TypeOK, FetchFails, Fetcher
    <3>3. ASSUME NEW listing \in AllListings, RangePeers(d, listing)
          PROVE  \A e \in Daemons : fetch'[e] = fetch[e] \/ fetch'[e].batch = {}
      BY <3>3, <1>t DEF TypeOK, RangePeers, Fetcher
    <3> QED
      BY <1>6, <3>1, <3>2, <3>3
  <2>3. \A e \in Daemons : fetch'[e].batch \subseteq fetch[e].batch
    BY <2>2
  <2> QED
    BY <2>1, <2>3, HoldingLess
<1>7. ASSUME NEW d \in Daemons, FetchChecks(d) PROVE Goal
  <2>1. UNCHANGED <<dbVars, runners>>
    BY <1>7 DEF FetchChecks
  <2>2. /\ \A r \in fetch'[d].batch : row[r.id] > 0 /\ r.ver = row[r.id]
        /\ \A e \in Daemons \ {d} : fetch'[e] = fetch[e]
    BY <1>7, <1>t, FetchReadsTheTable
  <2>3. \A r \in Row : r.id \in CheckIds /\ r.ver \in 1 .. MaxVer
    BY DEF Row
  <2>4. OnlyUsedIds'
    BY <2>1, <2>2, <2>3 DEF HeldRowsInv, OnlyUsedIds, Holds, dbVars
  <2>5. NeverAhead'
    BY <2>1, <2>2, <2>3 DEF HeldRowsInv, NeverAhead, Holds, dbVars
  <2>6. BatchIsNewest'
    BY <2>1, <2>2, <2>3 DEF HeldRowsInv, NeverAhead, BatchIsNewest, Holds, dbVars
  <2> QED
    BY <2>4, <2>5, <2>6
<1>8. ASSUME NEW d \in Daemons, DispatchBatch(d) PROVE Goal
  <2>1. UNCHANGED dbVars
    BY <1>8 DEF DispatchBatch
  <2>2. /\ fetch'[d].batch = {}
        /\ \A e \in Daemons \ {d} : fetch'[e] = fetch[e] /\ runners'[e] = runners[e]
    BY <1>8, <1>t DEF TypeOK, DispatchBatch, Waiting, Fetcher
  <2>3. \A r \in Row : runners'[d][r] > 0 => Holds(d, r)
    BY <1>8, <1>t DEF TypeOK, DispatchBatch, Holds
  <2>4. \A e \in Daemons, r \in Row : Holds(e, r)' => Holds(e, r)
    BY <2>2, <2>3 DEF Holds
  <2>5. OnlyUsedIds' /\ NeverAhead'
    BY <2>1, <2>4 DEF HeldRowsInv, OnlyUsedIds, NeverAhead, dbVars
  <2>6. BatchIsNewest'
    BY <2>2 DEF HeldRowsInv, BatchIsNewest
  <2> QED
    BY <2>5, <2>6
<1>9. ASSUME NEW d \in Daemons, NEW r \in Row, RunnerReturns(d, r) PROVE Goal
  <2>1. \A e \in Daemons : \A s \in Row : runners'[e][s] > 0 => runners[e][s] > 0
    BY <1>9, <1>t DEF TypeOK, RunnerReturns
  <2> QED
    BY <1>9, <2>1, HoldingLess DEF RunnerReturns
<1>10. CASE UNCHANGED vars
  BY <1>1, <1>10 DEF vars
<1>11. ASSUME NEW d \in Daemons, Start(d) \/ Bus(d) \/ Cache(d) PROVE Goal
  <2>1. UNCHANGED <<row, nextId, fetch, runners>>
    BY <1>11 DEF Start, Bus, Cache, SendHeartbeat, PublishRefetch, PeersHeartbeat, ChecksRefetch,
                 Expire, DeleteExpired, dbVars
  <2> QED
    BY <1>1, <2>1
<1>12. ASSUME NEW d \in Daemons, NEW c \in CheckIds, NEW op \in {"edit", "delete"},
              PostPutDelete(d, c, op)
       PROVE  Goal
  BY <1>1, <1>12 DEF PostPutDelete, dbVars
<1>13. ASSUME NEW d \in Daemons, NEW p \in pending, WriteFails(d, p) PROVE Goal
  BY <1>1, <1>13 DEF WriteFails, dbVars
<1> QED
  BY <1>2, <1>3, <1>4, <1>5, <1>6, <1>7, <1>8, <1>9, <1>10, <1>11, <1>12, <1>13
  DEF Next, Handlers, Checker

\* In every reachable state a daemon holds only rows that were in the table, none
\* ahead of it, and a batch never behind its runners.
THEOREM HeldRowsCorrect == Spec => []HeldRowsInv
<1>1. Init => HeldRowsInv
  <2>1. Init => TypeOK
    BY InitTypeOK
  <2>2. Init => \A d \in Daemons, r \in Row : ~Holds(d, r)
    BY DEF Init, Holds, Waiting, Fetcher, NoRunners
  <2>3. Init => OnlyUsedIds /\ NeverAhead
    BY <2>2 DEF Init, OnlyUsedIds, NeverAhead
  <2>4. Init => BatchIsNewest
    BY <2>2 DEF BatchIsNewest, Holds
  <2> QED
    BY <2>1, <2>3, <2>4 DEF HeldRowsInv
<1>2. HeldRowsInv /\ [Next]_vars => HeldRowsInv'
  BY NextHeldRows
<1> QED
  BY <1>1, <1>2, PTL DEF Spec

\* Only a dispatch starts runners, with the rows of the batch.
LEMMA OnlyDispatchStarts ==
    ASSUME TypeOK, [Next]_vars, NEW d \in Daemons, NEW r \in Row, runners'[d][r] > runners[d][r]
    PROVE  r \in fetch[d].batch
<1> USE SchedulerAssumption
<1>1. runners[d][r] \in 0 .. Many
  BY DEF TypeOK
<1>2. runners' # runners
  BY <1>1
<1>3. CASE \E e \in Daemons : Crash(e)
  BY <1>1, <1>3 DEF TypeOK, Crash, NoRunners
<1>4. CASE \E e \in Daemons : DispatchBatch(e)
  BY <1>1, <1>4 DEF TypeOK, DispatchBatch
<1>5. ASSUME NEW e \in Daemons, NEW x \in Row, RunnerReturns(e, x) PROVE FALSE
  <2>1. PICK n \in Fewer(runners[e][x]) : runners' = [runners EXCEPT ![e][x] = n]
    BY <1>5 DEF RunnerReturns
  <2>2. n <= runners[e][x]
    BY <1>5, <2>1, CountersSaturate DEF TypeOK, RunnerReturns
  <2>3. runners[e][x] \in 0 .. Many /\ n \in Int
    BY <1>5, <2>1 DEF TypeOK, RunnerReturns, Fewer
  <2>4. runners'[d][r] = IF d = e /\ r = x THEN n ELSE runners[d][r]
    BY <2>1 DEF TypeOK
  <2> QED
    BY <1>1, <2>2, <2>3, <2>4
<1> QED
  BY <1>2, <1>3, <1>4, <1>5, ZenonT(60)
  DEF Next, Handlers, Bus, Cache, Checker, vars, Start, PostChecks, PostPutDelete, PutCheckID,
      WriteFails, DeleteCheckID, PostChecksTriggers, PostCheckIDSilence, SendHeartbeat, PublishRefetch,
      PeersHeartbeat, ChecksRefetch, Expire, DeleteExpired, TakeRefetch, RangePeers, FetchChecks,
      FetchFails

\* Dispatches happen in the order of the reads, on every daemon and for any bounds:
\* no runner is started with an older row than one that is being run.
THEOREM DispatchOrder == Spec => DispatchNeverGoesBack
<1> DEFINE InOrder == \A d \in Daemons : \A r, s \in Row :
                         /\ runners'[d][r] > runners[d][r]
                         /\ runners[d][s] > 0
                         /\ r.id = s.id
                         => r.ver >= s.ver
<1>1. HeldRowsInv /\ [Next]_vars => [InOrder]_vars
  <2>1. \A r \in Row : r.ver \in Nat
    BY SchedulerAssumption DEF Row
  <2> QED
    BY <2>1, OnlyDispatchStarts DEF HeldRowsInv, BatchIsNewest
<1> QED
  BY <1>1, HeldRowsCorrect, PTL DEF Spec, DispatchNeverGoesBack

\* Nothing but a create makes a row, and a create takes an id that was never used:
\* no edit that was announced before a delete brings the check back.
THEOREM DeletesAreFinal == Spec => DeletedStaysDeleted
<1> DEFINE Final == \A c \in CheckIds : c < nextId /\ row[c] = 0 => row'[c] = 0
<1>1. TypeOK /\ [Next]_vars => [Final]_vars
  <2> SUFFICES ASSUME TypeOK, Next, NEW c \in CheckIds, c < nextId, row[c] = 0 PROVE row'[c] = 0
    OBVIOUS
  <2> USE SchedulerAssumption
  <2>1. CASE row' = row
    BY <2>1
  <2>2. ASSUME NEW d \in Daemons, PostChecks(d) PROVE row'[c] = 0
    BY <2>2 DEF TypeOK, PostChecks
  <2>3. ASSUME NEW d \in Daemons, NEW x \in CheckIds,
               PutCheckID(d, x) \/ PostChecksTriggers(d, x) \/ PostCheckIDSilence(d, x)
        PROVE  row'[c] = 0
    BY <2>3, EditsKeepTheTable DEF TypeOK, PutCheckID, PostChecksTriggers, PostCheckIDSilence
  <2>4. ASSUME NEW d \in Daemons, NEW x \in CheckIds, DeleteCheckID(d, x) PROVE row'[c] = 0
    BY <2>4 DEF TypeOK, DeleteCheckID
  <2> QED
    BY <2>1, <2>2, <2>3, <2>4, ZenonT(60)
    DEF Next, Handlers, Bus, Cache, Checker, dbVars, Crash, Start, PostPutDelete, WriteFails, SendHeartbeat,
        PublishRefetch, PeersHeartbeat, ChecksRefetch, Expire, DeleteExpired, TakeRefetch,
        RangePeers, FetchChecks, FetchFails, DispatchBatch, RunnerReturns
<1> QED
  BY <1>1, TypeCorrect, PTL DEF Spec, DeletedStaysDeleted
=============================================================================
