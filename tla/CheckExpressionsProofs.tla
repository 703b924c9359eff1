-------------------------- MODULE CheckExpressionsProofs --------------------------
(***************************************************************************)
(* Proofs about CheckExpressions for any hosts, values, thresholds and     *)
(* number of expressions: the loops keep a result from one host to the     *)
(* next and leave their body in several places, and still each host is     *)
(* judged by its own data, and MinHost of them decide.                     *)
(***************************************************************************)
EXTENDS CheckExpressions, FiniteSetTheorems, SequenceTheorems, TLAPS

-----------------------------------------------------------------------------
(***************************************************************************)
(* Comparing.  Of an operator that the page offers, nothing of the result  *)
(* is left from the host before.                                           *)
(***************************************************************************)
Comparisons == {">", ">=", "=", "<", "<="}

\* The result before does not matter.
LEMMA CompareDecides ==
    ASSUME NEW operator \in Comparisons, NEW left \in Int, NEW right \in Int, NEW o, NEW p
    PROVE  /\ Compare(operator, left, right, o) \in BOOLEAN
           /\ Compare(operator, left, right, o) = Compare(operator, left, right, p)
<1>1. CASE operator = ">"
  BY <1>1 DEF Compare
<1>2. CASE operator = ">="
  BY <1>2 DEF Compare
<1>3. CASE operator = "="
  BY <1>3 DEF Compare
<1>4. CASE operator = "<"
  BY <1>4 DEF Compare
<1>5. CASE operator = "<="
  BY <1>5 DEF Compare
<1> QED
  BY <1>1, <1>2, <1>3, <1>4, <1>5 DEF Comparisons

\* The same, against what the host says when nothing is left before it.
LEMMA CompareDecidesAlone ==
    ASSUME NEW operator \in Comparisons, NEW left \in Int, NEW right \in Int, NEW o
    PROVE  /\ Compare(operator, left, right, FALSE) \in BOOLEAN
           /\ Compare(operator, left, right, FALSE) = Compare(operator, left, right, o)
<1>1. CASE operator = ">"
  BY <1>1 DEF Compare
<1>2. CASE operator = ">="
  BY <1>2 DEF Compare
<1>3. CASE operator = "="
  BY <1>3 DEF Compare
<1>4. CASE operator = "<"
  BY <1>4 DEF Compare
<1>5. CASE operator = "<="
  BY <1>5 DEF Compare
<1> QED
  BY <1>1, <1>2, <1>3, <1>4, <1>5 DEF Comparisons

\* The same of the share of the previous value.
LEMMA ComparePercentageDecides ==
    ASSUME NEW operator \in Comparisons, NEW val \in Int, NEW prev \in Int, NEW value \in Int,
           NEW o, NEW p
    PROVE  /\ ComparePercentage(operator, val, prev, value, o) \in BOOLEAN
           /\ ComparePercentage(operator, val, prev, value, o)
                  = ComparePercentage(operator, val, prev, value, p)
<1>1. value * prev \in Int /\ 0 \in Int
  OBVIOUS
<1>2. CASE prev = 0
  BY <1>1, <1>2, CompareDecides DEF ComparePercentage
<1>3. CASE prev # 0
  BY <1>1, <1>3, CompareDecides DEF ComparePercentage
<1> QED
  BY <1>2, <1>3

-----------------------------------------------------------------------------
(***************************************************************************)
(* The invariant.                                                          *)
(***************************************************************************)
Loops == [hosts : HostLists \cup {<<>>}, perHostResult : BOOLEAN, affected : Nat,
          bad : SUBSET Nat, good : SUBSET Nat, seen : Seq(Verdicts)]

Types == {"BooleanOperator", "RawHostData", "RelativeHostData", "LogData", "Probe"}
Signs == Comparisons \cup {"", "and", "or"}
Results == [type : Types, operator : Signs, result : BOOLEAN]

Seen(l, dealt, alone) == {i \in DOMAIN l.seen : l.seen[i].dealt = dealt /\ l.seen[i].alone = alone}

\* By what their data say alone: the hosts that fail, those that do not, and those
\* that count without having been compared.
Failing(l) == Seen(l, "compared", TRUE) \cup Seen(l, "missing", TRUE)
Passing(l) == Seen(l, "compared", FALSE) \cup Seen(l, "missing", FALSE)
Counted(l) == Seen(l, "counted", FALSE)

\* The hosts in the lists are those that were compared, a missing metric as 0.
ByItself(l) ==
    /\ l.bad = Failing(l)
    /\ l.good = Passing(l)
    /\ l.affected = Cardinality(Failing(l)) + Cardinality(Counted(l))

Listed == {"compared", "missing"}

\* A host that is not listed says nothing.
SkippedAreSilent(l) ==
    \A i \in DOMAIN l.seen : l.seen[i].dealt \notin Listed => l.seen[i].alone = FALSE

\* Hosts without the metric all say what comparing 0 says.
MissingAreAlike(e, l) ==
    e # None /\ e.type = "RawHostData" =>
        \A i \in DOMAIN l.seen :
            l.seen[i].dealt = "missing"
                => l.seen[i].alone = Compare(e.operator, 0, e.value, FALSE)

LoopInv ==
    loop \in Loops /\ ByItself(loop) /\ SkippedAreSilent(loop) /\ MissingAreAlike(expression, loop)

ExpressionsInv ==
    /\ hostRows \in HostLists /\ hostsList \in HostLists \cup {Unreadable}
    /\ expression \in Expressions \cup {None}
    /\ results \in Seq(Results) /\ finalResult \in BOOLEAN
    /\ LoopInv

\* What is known of an expression.
LEMMA ExpressionIs ==
    ASSUME NEW e \in Expressions
    PROVE  /\ e.type \in DOMAIN Operators /\ e.operator \in Operators[e.type]
           /\ e.value \in Int /\ e.minHost \in Nat /\ e # None
<1>1. PICK t \in DOMAIN Operators :
          e \in [type : {t}, operator : Operators[t], value : Thresholds, minHost : MinHosts]
  BY DEF Expressions
<1>2. e.type = t /\ e.operator \in Operators[t] /\ e.value \in Thresholds /\ e.minHost \in MinHosts
  BY <1>1
<1>3. t # "none"
  BY DEF Operators
<1>4. e # None
  BY <1>2, <1>3 DEF None
<1> QED
  BY <1>2, <1>4, ExpressionsAssumption

\* What the page offers of a type that compares.
LEMMA Offered ==
    /\ Operators["RawHostData"] \subseteq Comparisons
    /\ Operators["RelativeHostData"] \subseteq Comparisons
    /\ Operators["LogData"] \subseteq Comparisons
<1> QED
  BY DEF Operators, Comparisons

\* A loop that is all this keeps the invariant.
LEMMA LoopBecomes ==
    ASSUME NEW m \in Loops, ByItself(m), SkippedAreSilent(m), NEW e, MissingAreAlike(e, m),
           loop' = m, expression' = e
    PROVE  LoopInv'
<1> QED
  BY DEF LoopInv, ByItself, SkippedAreSilent, MissingAreAlike, Failing, Passing, Counted, Seen

\* An expression begins with empty lists.
LEMMA FreshIsSound ==
    ASSUME NEW hosts \in HostLists \cup {<<>>}
    PROVE  /\ Fresh(hosts) \in Loops /\ ByItself(Fresh(hosts)) /\ SkippedAreSilent(Fresh(hosts))
           /\ \A e : MissingAreAlike(e, Fresh(hosts))
<1>1. Fresh(hosts) \in Loops /\ Fresh(hosts).seen = <<>>
  BY DEF Fresh, Loops
<1>2. \A dealt, alone : Seen(Fresh(hosts), dealt, alone) = {}
  BY <1>1 DEF Seen
<1>3. /\ Fresh(hosts).bad = {} /\ Fresh(hosts).good = {} /\ Fresh(hosts).affected = 0
  BY DEF Fresh
<1>4. Cardinality(Failing(Fresh(hosts))) = 0
  BY <1>2, FS_EmptySet DEF Failing, Counted
<1>5. Cardinality(Counted(Fresh(hosts))) = 0
  BY <1>2, FS_EmptySet DEF Failing, Counted
<1>6. ByItself(Fresh(hosts))
  <2>1. /\ Failing(Fresh(hosts)) = {}
        /\ Passing(Fresh(hosts)) = {}
    BY <1>2 DEF Failing, Passing
  <2>2. Fresh(hosts).affected =
            Cardinality(Failing(Fresh(hosts)))
                + Cardinality(Counted(Fresh(hosts)))
    BY <1>3, <1>4, <1>5
  <2> QED
    BY <1>3, <2>1, <2>2 DEF ByItself
<1>7. SkippedAreSilent(Fresh(hosts)) /\ \A e : MissingAreAlike(e, Fresh(hosts))
  BY <1>1 DEF SkippedAreSilent, MissingAreAlike
<1> QED
  BY <1>1, <1>6, <1>7

\* The hosts of m are those of l and one more.
Grows(l, m, v, at) ==
    \A how, a :
        /\ IsFiniteSet(Seen(l, how, a)) /\ at \notin Seen(l, how, a)
        /\ Seen(m, how, a) = IF v.dealt = how /\ v.alone = a THEN Seen(l, how, a) \cup {at}
                                                             ELSE Seen(l, how, a)

\* One more host that was seen.
LEMMA OneMoreSeen ==
    ASSUME NEW l \in Loops, NEW v \in Verdicts, NEW m, m.seen = Append(l.seen, v),
           NEW at, at = Len(l.seen) + 1
    PROVE  Grows(l, m, v, at)
<1> SUFFICES ASSUME NEW how, NEW a
             PROVE  /\ IsFiniteSet(Seen(l, how, a)) /\ at \notin Seen(l, how, a)
                    /\ Seen(m, how, a) =
                           IF v.dealt = how /\ v.alone = a THEN Seen(l, how, a) \cup {at}
                                                           ELSE Seen(l, how, a)
  BY DEF Grows
<1> DEFINE n == Len(l.seen)
<1>1. l.seen \in Seq(Verdicts)
  BY DEF Loops
<1>2. /\ n \in Nat /\ DOMAIN l.seen = 1 .. n /\ DOMAIN m.seen = 1 .. n + 1
      /\ \A i \in 1 .. n : m.seen[i] = l.seen[i]
      /\ m.seen[n + 1] = v
  BY <1>1, AppendProperties, LenProperties
<1>3. at = n + 1
  OBVIOUS
<1> HIDE DEF n
<1>4. IsFiniteSet(1 .. n) /\ Seen(l, how, a) \in SUBSET (1 .. n)
  BY <1>2, FS_Interval DEF Seen
<1>5. IsFiniteSet(Seen(l, how, a))
  BY <1>4, FS_Subset
<1>6. at \notin Seen(l, how, a)
  BY <1>2, <1>3, <1>4
<1>7. 1 .. n + 1 = (1 .. n) \cup {n + 1}
  BY <1>2
<1>8. CASE v.dealt = how /\ v.alone = a
  <2>1. Seen(m, how, a) = Seen(l, how, a) \cup {n + 1}
    BY <1>2, <1>7, <1>8 DEF Seen
  <2> QED
    BY <1>3, <1>5, <1>6, <1>8, <2>1
<1>9. CASE ~(v.dealt = how /\ v.alone = a)
  <2>1. Seen(m, how, a) = Seen(l, how, a)
    BY <1>2, <1>7, <1>9 DEF Seen
  <2> QED
    BY <1>5, <1>6, <1>9, <2>1
<1> QED
  BY <1>8, <1>9

\* A host in neither list still says nothing.
LEMMA OneMoreIsSilent ==
    ASSUME NEW l \in Loops, NEW v \in Verdicts, NEW m, m.seen = Append(l.seen, v),
           SkippedAreSilent(l), v.dealt \notin Listed => v.alone = FALSE
    PROVE  SkippedAreSilent(m)
<1> DEFINE n == Len(l.seen)
<1>1. l.seen \in Seq(Verdicts)
  BY DEF Loops
<1>2. /\ n \in Nat /\ DOMAIN l.seen = 1 .. n /\ DOMAIN m.seen = 1 .. n + 1
      /\ \A i \in 1 .. n : m.seen[i] = l.seen[i]
      /\ m.seen[n + 1] = v
  BY <1>1, AppendProperties, LenProperties
<1> HIDE DEF n
<1>3. 1 .. n + 1 = (1 .. n) \cup {n + 1}
  BY <1>2
<1> QED
  BY <1>2, <1>3 DEF SkippedAreSilent

\* It says what the others say that lack the metric.
LEMMA OneMoreIsAlike ==
    ASSUME NEW l \in Loops, NEW v \in Verdicts, NEW m, m.seen = Append(l.seen, v),
           NEW e, MissingAreAlike(e, l),
           e.type = "RawHostData" /\ v.dealt = "missing"
               => v.alone = Compare(e.operator, 0, e.value, FALSE)
    PROVE  MissingAreAlike(e, m)
<1> DEFINE n == Len(l.seen)
<1>1. l.seen \in Seq(Verdicts)
  BY DEF Loops
<1>2. /\ n \in Nat /\ DOMAIN l.seen = 1 .. n /\ DOMAIN m.seen = 1 .. n + 1
      /\ \A i \in 1 .. n : m.seen[i] = l.seen[i]
      /\ m.seen[n + 1] = v
  BY <1>1, AppendProperties, LenProperties
<1> HIDE DEF n
<1>3. 1 .. n + 1 = (1 .. n) \cup {n + 1}
  BY <1>2
<1> QED
  BY <1>2, <1>3 DEF MissingAreAlike

-----------------------------------------------------------------------------
(***************************************************************************)
(* One host.                                                               *)
(***************************************************************************)
\* A host that is listed as its data alone say keeps the lists right.
LEMMA ListKeeps ==
    ASSUME LoopInv, NEW dealt \in Listed, NEW alone \in BOOLEAN, List(dealt, alone, alone),
           expression.type = "RawHostData" /\ dealt = "missing"
               => alone = Compare(expression.operator, 0, expression.value, FALSE)
    PROVE  LoopInv'
<1> DEFINE at == Len(loop.seen) + 1
           v == [dealt |-> dealt, alone |-> alone]
           m == [loop EXCEPT !.perHostResult = alone,
                             !.affected = IF alone THEN @ + 1 ELSE @,
                             !.bad = IF alone THEN @ \cup {at} ELSE @,
                             !.good = IF alone THEN @ ELSE @ \cup {at},
                             !.seen = Append(@, v)]
<1>1. loop' = m /\ expression' = expression
  BY DEF List
<1>2. /\ loop \in Loops /\ ByItself(loop) /\ SkippedAreSilent(loop) /\ v \in Verdicts
      /\ MissingAreAlike(expression, loop)
  BY DEF LoopInv, Verdicts, Listed
<1>3. /\ m.affected = (IF alone THEN loop.affected + 1 ELSE loop.affected)
      /\ m.bad = (IF alone THEN loop.bad \cup {at} ELSE loop.bad)
      /\ m.good = (IF alone THEN loop.good ELSE loop.good \cup {at})
      /\ m.seen = Append(loop.seen, v)
      /\ m.perHostResult = alone /\ m.hosts = loop.hosts
  BY <1>2 DEF Loops
<1>4. m \in Loops
  <2>1. at \in Nat /\ Append(loop.seen, v) \in Seq(Verdicts)
    BY <1>2, AppendProperties, LenProperties DEF Loops
  <2>2. /\ (IF alone THEN loop.affected + 1 ELSE loop.affected) \in Nat
        /\ (IF alone THEN loop.bad \cup {at} ELSE loop.bad) \in SUBSET Nat
        /\ (IF alone THEN loop.good ELSE loop.good \cup {at}) \in SUBSET Nat
    BY <1>2, <2>1 DEF Loops
  <2> QED
    BY <1>2, <2>1, <2>2 DEF Loops
<1>5. v.dealt = dealt /\ v.alone = alone /\ dealt # "counted"
  BY DEF Listed
<1>6. at = Len(loop.seen) + 1
  OBVIOUS
<1> HIDE DEF m, v, at
<1>7. Grows(loop, m, v, at)
  BY <1>2, <1>3, <1>6, OneMoreSeen
<1>8. SkippedAreSilent(m) /\ MissingAreAlike(expression, m)
  <2>1. SkippedAreSilent(m)
    BY <1>2, <1>3, <1>5, OneMoreIsSilent DEF Listed
  <2>2. MissingAreAlike(expression, m)
    BY <1>2, <1>3, <1>5, OneMoreIsAlike
  <2> QED
    BY <2>1, <2>2
<1>9. /\ Counted(m) = Counted(loop)
      /\ IsFiniteSet(Failing(loop)) /\ at \notin Failing(loop) /\ IsFiniteSet(Counted(loop))
  <2>1. Counted(m) = Counted(loop) /\ IsFiniteSet(Counted(loop))
    BY <1>5, <1>7 DEF Grows, Counted
  <2>2. IsFiniteSet(Seen(loop, "compared", TRUE)) /\ at \notin Seen(loop, "compared", TRUE)
    BY <1>7 DEF Grows
  <2>3. IsFiniteSet(Seen(loop, "missing", TRUE)) /\ at \notin Seen(loop, "missing", TRUE)
    BY <1>7 DEF Grows
  <2>4. IsFiniteSet(Failing(loop))
    BY <2>2, <2>3, FS_Union DEF Failing
  <2> QED
    BY <2>1, <2>2, <2>3, <2>4 DEF Failing
<1>10. ASSUME alone = TRUE PROVE ByItself(m)
  <2>1. /\ Failing(m) = Failing(loop) \cup {at}
        /\ Passing(m) = Passing(loop)
    <3>1. Seen(m, "compared", TRUE) = IF dealt = "compared" THEN Seen(loop, "compared", TRUE) \cup {at}
                                                            ELSE Seen(loop, "compared", TRUE)
      BY <1>5, <1>7, <1>10 DEF Grows
    <3>2. Seen(m, "missing", TRUE) = IF dealt = "missing" THEN Seen(loop, "missing", TRUE) \cup {at}
                                                          ELSE Seen(loop, "missing", TRUE)
      BY <1>5, <1>7, <1>10 DEF Grows
    <3>3. Seen(m, "compared", FALSE) = Seen(loop, "compared", FALSE)
      BY <1>5, <1>7, <1>10 DEF Grows
    <3>4. Seen(m, "missing", FALSE) = Seen(loop, "missing", FALSE)
      BY <1>5, <1>7, <1>10 DEF Grows
    <3>5. dealt = "compared" \/ dealt = "missing"
      BY DEF Listed
    <3> QED
      BY <3>1, <3>2, <3>3, <3>4, <3>5 DEF Failing, Passing
  <2>2. Cardinality(Failing(m)) = Cardinality(Failing(loop)) + 1
    BY <1>9, <2>1, FS_AddElement
  <2>3. /\ Cardinality(Failing(loop)) \in Nat
        /\ Cardinality(Counted(loop)) \in Nat
    BY <1>9, FS_CardinalityType
  <2>4. /\ m.affected = loop.affected + 1
        /\ m.bad = loop.bad \cup {at} /\ m.good = loop.good
    BY <1>3, <1>10
  <2>5. m.bad = Failing(m) /\ m.good = Passing(m)
    BY <1>2, <2>1, <2>4 DEF ByItself
  <2>6. loop.affected = Cardinality(Failing(loop))
                            + Cardinality(Counted(loop))
    BY <1>2 DEF ByItself
  <2>7. m.affected = Cardinality(Failing(m)) + Cardinality(Counted(m))
    BY <1>9, <2>2, <2>3, <2>4, <2>6
  <2> QED
    BY <2>5, <2>7 DEF ByItself
<1>11. ASSUME alone = FALSE PROVE ByItself(m)
  <2>1. /\ Passing(m) = Passing(loop) \cup {at}
        /\ Failing(m) = Failing(loop)
    <3>1. Seen(m, "compared", FALSE) = IF dealt = "compared" THEN Seen(loop, "compared", FALSE) \cup {at}
                                                             ELSE Seen(loop, "compared", FALSE)
      BY <1>5, <1>7, <1>11 DEF Grows
    <3>2. Seen(m, "missing", FALSE) = IF dealt = "missing" THEN Seen(loop, "missing", FALSE) \cup {at}
                                                           ELSE Seen(loop, "missing", FALSE)
      BY <1>5, <1>7, <1>11 DEF Grows
    <3>3. v.alone # TRUE
      BY <1>5, <1>11
    <3>4. Seen(m, "compared", TRUE) = Seen(loop, "compared", TRUE)
      BY <1>7, <3>3 DEF Grows
    <3>5. Seen(m, "missing", TRUE) = Seen(loop, "missing", TRUE)
      BY <1>7, <3>3 DEF Grows
    <3>6. dealt = "compared" \/ dealt = "missing"
      BY DEF Listed
    <3> QED
      BY <3>1, <3>2, <3>4, <3>5, <3>6 DEF Failing, Passing
  <2>2. m.affected = loop.affected /\ m.bad = loop.bad /\ m.good = loop.good \cup {at}
    BY <1>3, <1>11
  <2>3. m.bad = Failing(m) /\ m.good = Passing(m)
    BY <1>2, <2>1, <2>2 DEF ByItself
  <2>4. m.affected = Cardinality(Failing(m)) + Cardinality(Counted(m))
    BY <1>2, <1>9, <2>1, <2>2 DEF ByItself
  <2> QED
    BY <2>3, <2>4 DEF ByItself
<1>12. ByItself(m)
  BY <1>10, <1>11
<1> QED
  BY <1>1, <1>4, <1>8, <1>12, LoopBecomes

\* A host without data to compare is in no list; it may count.
LEMMA SkipKeeps ==
    ASSUME LoopInv, NEW counted \in BOOLEAN, NEW sets \in BOOLEAN, Skip(counted, sets)
    PROVE  LoopInv'
<1> DEFINE at == Len(loop.seen) + 1
           v == [dealt |-> IF counted THEN "counted" ELSE "skipped", alone |-> FALSE]
           m == [loop EXCEPT !.perHostResult = @ \/ sets,
                             !.affected = IF counted THEN @ + 1 ELSE @,
                             !.seen = Append(@, v)]
<1>1. loop' = m /\ expression' = expression
  BY DEF Skip
<1>2. /\ loop \in Loops /\ ByItself(loop) /\ SkippedAreSilent(loop) /\ v \in Verdicts
      /\ MissingAreAlike(expression, loop)
  BY DEF LoopInv, Verdicts
<1>3. /\ m.affected = (IF counted THEN loop.affected + 1 ELSE loop.affected)
      /\ m.bad = loop.bad /\ m.good = loop.good
      /\ m.seen = Append(loop.seen, v)
      /\ m.perHostResult \in BOOLEAN /\ m.hosts = loop.hosts
  BY <1>2 DEF Loops
<1>4. m \in Loops
  <2>1. Append(loop.seen, v) \in Seq(Verdicts)
    BY <1>2, AppendProperties DEF Loops
  <2>2. /\ (IF counted THEN loop.affected + 1 ELSE loop.affected) \in Nat
        /\ (loop.perHostResult \/ sets) \in BOOLEAN
    BY <1>2 DEF Loops
  <2> QED
    BY <1>2, <2>1, <2>2 DEF Loops
<1>5. v.dealt = (IF counted THEN "counted" ELSE "skipped") /\ v.alone = FALSE
  OBVIOUS
<1>6. at = Len(loop.seen) + 1
  OBVIOUS
<1> HIDE DEF m, v, at
<1>7. Grows(loop, m, v, at)
  BY <1>2, <1>3, <1>6, OneMoreSeen
<1>8. SkippedAreSilent(m) /\ MissingAreAlike(expression, m)
  <2>1. SkippedAreSilent(m)
    BY <1>2, <1>3, <1>5, OneMoreIsSilent DEF Listed
  <2>2. MissingAreAlike(expression, m)
    BY <1>2, <1>3, <1>5, OneMoreIsAlike
  <2> QED
    BY <2>1, <2>2
<1>9. Failing(m) = Failing(loop) /\ Passing(m) = Passing(loop)
  <2>1. v.dealt # "compared" /\ v.dealt # "missing"
    BY <1>5
  <2>2. Seen(m, "compared", TRUE) = Seen(loop, "compared", TRUE)
    BY <1>7, <2>1 DEF Grows
  <2>3. Seen(m, "missing", TRUE) = Seen(loop, "missing", TRUE)
    BY <1>7, <2>1 DEF Grows
  <2>4. Seen(m, "compared", FALSE) = Seen(loop, "compared", FALSE)
    BY <1>7, <2>1 DEF Grows
  <2>5. Seen(m, "missing", FALSE) = Seen(loop, "missing", FALSE)
    BY <1>7, <2>1 DEF Grows
  <2> QED
    BY <2>2, <2>3, <2>4, <2>5 DEF Failing, Passing
<1>10. /\ IsFiniteSet(Counted(loop))
      /\ Cardinality(Counted(m)) =
             IF counted THEN Cardinality(Counted(loop)) + 1 ELSE Cardinality(Counted(loop))
  <2>1. /\ IsFiniteSet(Counted(loop)) /\ at \notin Counted(loop)
        /\ Counted(m) = IF counted THEN Counted(loop) \cup {at} ELSE Counted(loop)
    BY <1>5, <1>7 DEF Grows, Counted
  <2> QED
    BY <2>1, FS_AddElement
<1>11. /\ Cardinality(Failing(loop)) \in Nat
       /\ Cardinality(Counted(loop)) \in Nat
  <2>1. IsFiniteSet(Seen(loop, "compared", TRUE)) /\ IsFiniteSet(Seen(loop, "missing", TRUE))
    BY <1>7 DEF Grows
  <2>2. IsFiniteSet(Failing(loop))
    BY <2>1, FS_Union DEF Failing
  <2> QED
    BY <1>10, <2>2, FS_CardinalityType
<1>12. ByItself(m)
  <2>1. m.bad = Failing(m) /\ m.good = Passing(m)
    BY <1>2, <1>3, <1>9 DEF ByItself
  <2>2. loop.affected = Cardinality(Failing(loop))
                            + Cardinality(Counted(loop))
    BY <1>2 DEF ByItself
  <2>3. Failing(m) = Failing(loop)
    BY <1>9
  <2>4. m.affected = Cardinality(Failing(m)) + Cardinality(Counted(m))
    BY <1>3, <1>10, <1>11, <2>2, <2>3
  <2> QED
    BY <2>1, <2>4 DEF ByItself
<1> QED
  BY <1>1, <1>4, <1>8, <1>12, LoopBecomes

-----------------------------------------------------------------------------
(***************************************************************************)
(* The visits.                                                             *)
(***************************************************************************)
LEMMA FoundIsInt ==
    ASSUME NEW f \in Found
    PROVE  /\ f.val \in Int /\ (f.val < 0) \in BOOLEAN
           /\ Dealt(f) \in Listed /\ (Dealt(f) = "missing" => f.val = 0)
<1> QED
  BY ExpressionsAssumption DEF Found, Dealt, Listed

\* A metric that is compared with the value.
LEMMA RawKeeps ==
    ASSUME ExpressionsInv, VisitRaw
    PROVE  LoopInv'
<1>1. LoopInv /\ expression \in Expressions /\ expression.type = "RawHostData"
  BY DEF VisitRaw, Visiting, ExpressionsInv
<1>2. expression.operator \in Comparisons /\ expression.value \in Int
  BY <1>1, ExpressionIs, Offered
<1>3. PICK f \in Found :
          List(Dealt(f),
               Compare(expression.operator, f.val, expression.value,
                       loop.perHostResult \/ f.val < 0),
               Compare(expression.operator, f.val, expression.value, FALSE \/ f.val < 0))
  BY DEF VisitRaw
<1> DEFINE alone == Compare(expression.operator, f.val, expression.value, FALSE \/ f.val < 0)
<1>4. /\ alone \in BOOLEAN
      /\ alone = Compare(expression.operator, f.val, expression.value,
                         loop.perHostResult \/ f.val < 0)
      /\ alone = Compare(expression.operator, f.val, expression.value, FALSE)
  <2>1. (FALSE \/ f.val < 0) \in BOOLEAN /\ f.val \in Int
    BY FoundIsInt
  <2>2. /\ alone \in BOOLEAN
        /\ alone = Compare(expression.operator, f.val, expression.value,
                           loop.perHostResult \/ f.val < 0)
    BY <1>2, <2>1, CompareDecides
  <2>3. alone = Compare(expression.operator, f.val, expression.value, FALSE)
    BY <1>2, <2>1, CompareDecidesAlone
  <2> QED
    BY <2>2, <2>3
<1> HIDE DEF alone
<1>5. List(Dealt(f), alone, alone)
  BY <1>3, <1>4 DEF alone
<1>6. Dealt(f) = "missing" => alone = Compare(expression.operator, 0, expression.value, FALSE)
  BY <1>4, FoundIsInt
<1> QED
  BY <1>1, <1>4, <1>5, <1>6, FoundIsInt, ListKeeps

\* A metric that is compared with its past.
LEMMA RelativeKeeps ==
    ASSUME ExpressionsInv, VisitRelative
    PROVE  LoopInv'
<1>1. LoopInv /\ expression \in Expressions /\ expression.type = "RelativeHostData"
  BY DEF VisitRelative, Visiting, ExpressionsInv
<1>2. expression.operator \in Comparisons /\ expression.value \in Int
  BY <1>1, ExpressionIs, Offered
<1>3. CASE \E counted \in BOOLEAN : Skip(counted, counted)
  BY <1>1, <1>3, SkipKeeps
<1>4. ASSUME NEW prev \in Values, NEW f \in Found,
             IF prev < 0 THEN Skip(FALSE, f.val < 0)
             ELSE List(Dealt(f),
                       ComparePercentage(expression.operator, f.val, prev, expression.value,
                                         loop.perHostResult \/ f.val < 0),
                       ComparePercentage(expression.operator, f.val, prev, expression.value,
                                         FALSE \/ f.val < 0))
      PROVE  LoopInv'
  <2> DEFINE alone == ComparePercentage(expression.operator, f.val, prev, expression.value,
                                        FALSE \/ f.val < 0)
  <2>1. prev \in Int /\ f.val \in Int /\ (f.val < 0) \in BOOLEAN
    BY FoundIsInt, ExpressionsAssumption
  <2>2. CASE prev < 0
    BY <1>1, <1>4, <2>1, <2>2, SkipKeeps
  <2>3. CASE ~(prev < 0)
    <3>1. /\ alone \in BOOLEAN
          /\ alone = ComparePercentage(expression.operator, f.val, prev, expression.value,
                                       loop.perHostResult \/ f.val < 0)
      BY <1>2, <2>1, ComparePercentageDecides
    <3> HIDE DEF alone
    <3>2. List(Dealt(f), alone, alone)
      BY <1>4, <2>3, <3>1 DEF alone
    <3> QED
      BY <1>1, <3>1, <3>2, FoundIsInt, ListKeeps
  <2> QED
    BY <2>2, <2>3
<1> QED
  BY <1>3, <1>4 DEF VisitRelative

\* A count of log lines.
LEMMA LogKeeps ==
    ASSUME ExpressionsInv, VisitLog
    PROVE  LoopInv'
<1>1. LoopInv /\ expression \in Expressions /\ expression.type = "LogData"
  BY DEF VisitLog, Visiting, ExpressionsInv
<1>2. expression.operator \in Comparisons /\ expression.value \in Int
  BY <1>1, ExpressionIs, Offered
<1>3. CASE Skip(FALSE, FALSE)
  BY <1>1, <1>3, SkipKeeps
<1>4. ASSUME NEW count \in Values \cap Nat,
             List("compared",
                  Compare(expression.operator, count, expression.value, loop.perHostResult),
                  Compare(expression.operator, count, expression.value, FALSE))
      PROVE  LoopInv'
  <2> DEFINE alone == Compare(expression.operator, count, expression.value, FALSE)
  <2> count \in Int
    OBVIOUS
  <2>1. /\ alone \in BOOLEAN
        /\ alone = Compare(expression.operator, count, expression.value, loop.perHostResult)
    BY <1>2, CompareDecidesAlone
  <2> HIDE DEF alone
  <2>2. List("compared", alone, alone)
    BY <1>4, <2>1 DEF alone
  <2> QED
    BY <1>1, <2>1, <2>2, ListKeeps DEF Listed
<1> QED
  BY <1>3, <1>4 DEF VisitLog

\* A ping, an SSH connection or a request.
LEMMA ProbeKeeps ==
    ASSUME ExpressionsInv, VisitProbe
    PROVE  LoopInv'
<1>1. LoopInv
  BY DEF ExpressionsInv
<1>2. PICK answers \in BOOLEAN : List("compared", ~answers, ~answers)
  BY DEF VisitProbe
<1>3. (~answers) \in BOOLEAN
  BY <1>2
<1> QED
  BY <1>1, <1>2, <1>3, ListKeeps DEF Listed

\* Whatever the type, visiting a host keeps the invariant.
LEMMA VisitKeeps ==
    ASSUME ExpressionsInv, VisitRaw \/ VisitRelative \/ VisitLog \/ VisitProbe
    PROVE  ExpressionsInv'
<1>1. LoopInv'
  BY RawKeeps, RelativeKeeps, LogKeeps, ProbeKeeps
<1>2. UNCHANGED <<hostRows, hostsList, expression, lastOperator, finalResult, results, failed>>
  BY DEF VisitRaw, VisitRelative, VisitLog, VisitProbe, List, Skip
<1> QED
  BY <1>1, <1>2 DEF ExpressionsInv

-----------------------------------------------------------------------------
(***************************************************************************)
(* The results, and the whole.                                             *)
(***************************************************************************)
\* A result that is folded is kept as it came.
LEMMA FoldKeeps ==
    ASSUME results \in Seq(Results), finalResult \in BOOLEAN,
           NEW type \in Types, NEW operator \in Signs, NEW value \in BOOLEAN,
           Fold(type, operator, value)
    PROVE  /\ results' \in Seq(Results) /\ finalResult' \in BOOLEAN
           /\ results'[Len(results')].result = value
<1> DEFINE r == [type |-> type, operator |-> operator, result |-> value]
<1>1. r \in Results /\ r.result = value
  BY DEF Results
<1>2. results' = Append(results, r)
  BY DEF Fold
<1>3. finalResult' \in BOOLEAN
  <2>1. CASE results = <<>>
    BY <2>1 DEF Fold
  <2>2. CASE results # <<>> /\ lastOperator' = "and"
    BY <2>2 DEF Fold
  <2>3. CASE results # <<>> /\ lastOperator' = "or"
    BY <2>3 DEF Fold
  <2>4. CASE results # <<>> /\ lastOperator' # "and" /\ lastOperator' # "or"
    BY <2>4 DEF Fold
  <2> QED
    BY <2>1, <2>2, <2>3, <2>4
<1> HIDE DEF r
<1>4. /\ results' \in Seq(Results) /\ Len(results') = Len(results) + 1
      /\ results'[Len(results) + 1] = r
  BY <1>1, <1>2, AppendProperties
<1> QED
  BY <1>1, <1>3, <1>4

\* What the result of an expression is named by.
LEMMA ExpressionIsNamed ==
    ASSUME NEW e \in Expressions
    PROVE  e.type \in Types /\ e.operator \in Signs
<1>1. e.type \in DOMAIN Operators /\ e.operator \in Operators[e.type]
  BY ExpressionIs
<1>2. e.type \in {"RawHostData", "RelativeHostData", "LogData", "Probe"}
  BY <1>1 DEF Operators
<1>3. Operators["Probe"] \subseteq Signs
  BY DEF Operators, Signs
<1>4. Comparisons \subseteq Signs
  BY DEF Signs
<1>5. e.operator \in Signs
  BY <1>1, <1>2, <1>3, <1>4, Offered
<1> QED
  BY <1>2, <1>5 DEF Types

\* The end of an expression: its result is folded and its loop is gone.
LEMMA EndingKeeps ==
    ASSUME ExpressionsInv, expression \in Expressions, NEW value \in BOOLEAN,
           Fold(expression.type, expression.operator, value),
           expression' = None, loop' = Fresh(<<>>), UNCHANGED <<hostRows, hostsList, failed>>
    PROVE  ExpressionsInv' /\ results'[Len(results')].result = value
<1>1. /\ results' \in Seq(Results) /\ finalResult' \in BOOLEAN
      /\ results'[Len(results')].result = value
  BY FoldKeeps, ExpressionIsNamed DEF ExpressionsInv
<1>2. LoopInv'
  <2>1. /\ Fresh(<<>>) \in Loops /\ ByItself(Fresh(<<>>)) /\ SkippedAreSilent(Fresh(<<>>))
        /\ MissingAreAlike(None, Fresh(<<>>))
    BY FreshIsSound
  <2> QED
    BY <2>1, LoopBecomes
<1> QED
  BY <1>1, <1>2 DEF ExpressionsInv

\* A value that is no number ends it all.
LEMMA WrongTypeKeeps ==
    ASSUME ExpressionsInv, WrongType
    PROVE  ExpressionsInv'
<1>1. /\ expression' = None /\ loop' = Fresh(<<>>)
      /\ UNCHANGED <<hostRows, hostsList, lastOperator, finalResult, results>>
  BY DEF WrongType
<1>2. LoopInv'
  <2>1. /\ Fresh(<<>>) \in Loops /\ ByItself(Fresh(<<>>)) /\ SkippedAreSilent(Fresh(<<>>))
        /\ MissingAreAlike(None, Fresh(<<>>))
    BY FreshIsSound
  <2> QED
    BY <1>1, <2>1, LoopBecomes
<1> QED
  BY <1>1, <1>2 DEF ExpressionsInv

\* Before the first expression.
LEMMA InitKeeps == Init => ExpressionsInv
<1> SUFFICES ASSUME Init PROVE ExpressionsInv
  OBVIOUS
<1>1. LoopInv
  BY FreshIsSound DEF Init, LoopInv
<1> QED
  <2>1. <<>> \in Seq(Results)
    OBVIOUS
  <2> QED
    BY <1>1, <2>1 DEF Init, ExpressionsInv

\* An expression begins, or has no host and is decided at once.
LEMMA BeginKeeps ==
    ASSUME ExpressionsInv, Begin
    PROVE  ExpressionsInv'
<1>1. PICK e \in Expressions :
          IF HostsOf(e.type) # <<>>
          THEN /\ expression' = e /\ loop' = Fresh(HostsOf(e.type))
               /\ UNCHANGED <<lastOperator, finalResult, results>>
          ELSE /\ UNCHANGED lastOperator
               /\ Fold(e.type, e.operator, e.type \in {"RawHostData", "RelativeHostData"})
               /\ UNCHANGED <<expression, loop>>
  BY DEF Begin
<1>2. UNCHANGED <<hostRows, hostsList, failed>>
  BY DEF Begin
<1>3. CASE HostsOf(e.type) # <<>>
  <2>1. HostsOf(e.type) \in HostLists
    BY <1>3 DEF HostsOf, ExpressionsInv
  <2>2. LoopInv'
    <3>1. LET f == Fresh(HostsOf(e.type))
          IN  f \in Loops /\ ByItself(f) /\ SkippedAreSilent(f) /\ MissingAreAlike(e, f)
      BY <2>1, FreshIsSound
    <3> QED
      BY <1>1, <1>3, <3>1, LoopBecomes
  <2> QED
    BY <1>1, <1>2, <1>3, <2>2 DEF ExpressionsInv
<1>4. CASE HostsOf(e.type) = <<>>
  <2> DEFINE value == e.type \in {"RawHostData", "RelativeHostData"}
  <2>1. /\ Fold(e.type, e.operator, value) /\ UNCHANGED <<expression, loop>>
        /\ value \in BOOLEAN
    BY <1>1, <1>4
  <2> HIDE DEF value
  <2>2. results' \in Seq(Results) /\ finalResult' \in BOOLEAN
    BY <2>1, FoldKeeps, ExpressionIsNamed DEF ExpressionsInv
  <2>3. LoopInv'
    BY <2>1 DEF ExpressionsInv, LoopInv, ByItself, SkippedAreSilent, MissingAreAlike, Failing, Passing, Counted, Seen
  <2> QED
    BY <1>2, <2>1, <2>2, <2>3 DEF ExpressionsInv
<1> QED
  BY <1>3, <1>4

\* An operator touches no loop.
LEMMA OperatorKeeps ==
    ASSUME ExpressionsInv, BooleanOperator
    PROVE  ExpressionsInv'
<1>1. PICK operator \in {"and", "or"} : Fold("BooleanOperator", operator, FALSE)
  BY DEF BooleanOperator
<1>2. UNCHANGED <<hostRows, hostsList, expression, loop, failed>>
  BY DEF BooleanOperator
<1>3. results' \in Seq(Results) /\ finalResult' \in BOOLEAN
  <2>1. results \in Seq(Results) /\ finalResult \in BOOLEAN
    BY DEF ExpressionsInv
  <2>2. "BooleanOperator" \in Types /\ operator \in Signs /\ FALSE \in BOOLEAN
    BY DEF Types, Signs
  <2> QED
    BY <1>1, <2>1, <2>2, FoldKeeps
<1>4. LoopInv'
  BY <1>2 DEF ExpressionsInv, LoopInv, ByItself, SkippedAreSilent, MissingAreAlike, Failing, Passing, Counted, Seen
<1> QED
  BY <1>2, <1>3, <1>4 DEF ExpressionsInv

\* An expression ends, or the cluster of a LogData expression cannot be read.
LEMMA EndKeeps ==
    ASSUME ExpressionsInv, LogFails \/ End
    PROVE  ExpressionsInv'
<1>1. expression \in Expressions
  BY DEF ExpressionsInv, LogFails, Visiting, End
<1>2. CASE LogFails
  BY <1>1, <1>2, EndingKeeps DEF LogFails
<1>3. CASE End
  <2>1. (loop.affected >= expression.minHost) \in BOOLEAN
    OBVIOUS
  <2> QED
    BY <1>1, <1>3, <2>1, EndingKeeps DEF End
<1> QED
  BY <1>2, <1>3

\* However the loops leave their body, the hosts are listed by their own data.
LEMMA InvHolds == Spec => []ExpressionsInv
<1>1. ASSUME ExpressionsInv, [Next]_vars
      PROVE  ExpressionsInv'
  <2>1. CASE HostsFail
    BY <1>1, <2>1
    DEF HostsFail, ExpressionsInv, LoopInv, ByItself, SkippedAreSilent, MissingAreAlike, Failing, Passing, Counted,
        Seen
  <2>2. CASE UNCHANGED vars
    BY <1>1, <2>2
    DEF vars, ExpressionsInv, LoopInv, ByItself, SkippedAreSilent, MissingAreAlike, Failing, Passing, Counted, Seen
  <2> QED
    BY <1>1, <2>1, <2>2, VisitKeeps, WrongTypeKeeps, BeginKeeps, OperatorKeeps, EndKeeps
    DEF Next, Visit
<1> QED
  BY <1>1, InitKeeps, PTL DEF Spec

(***************************************************************************)
(* EachHostByItself for any lists of hosts and any values: what a loop     *)
(* carries over from one host to the next reaches no verdict; it does not  *)
(* say which one a host without the metric gets                            *)
(* (evaluator.go:106-153, 173-252, 293-324).                               *)
(***************************************************************************)
THEOREM HostsAreJudgedAlone == Spec => []EachHostByItself
<1>1. ASSUME ExpressionsInv PROVE EachHostByItself
  <2>1. loop \in Loops /\ ByItself(loop) /\ MissingAreAlike(expression, loop)
    BY <1>1 DEF ExpressionsInv, LoopInv
  <2>2. \A i \in DOMAIN loop.seen : loop.seen[i].alone \in BOOLEAN
    <3>1. \A i \in DOMAIN loop.seen : loop.seen[i] \in Verdicts
      BY <2>1 DEF Loops
    <3> QED
      BY <3>1 DEF Verdicts
  <2>3. /\ loop.bad = {i \in DOMAIN loop.seen : loop.seen[i].dealt \in Listed
                                               /\ loop.seen[i].alone = TRUE}
        /\ loop.good = {i \in DOMAIN loop.seen : loop.seen[i].dealt \in Listed
                                                /\ loop.seen[i].alone = FALSE}
    BY <2>1 DEF ByItself, Failing, Passing, Seen, Listed
  <2>4. /\ loop.bad \cap DealtAs("compared") = {i \in DealtAs("compared") : loop.seen[i].alone}
        /\ loop.bad \cup loop.good = DealtAs("compared") \cup DealtAs("missing")
        /\ loop.bad \cap loop.good = {}
    BY <2>2, <2>3 DEF DealtAs, Listed
  <2>5. loop.affected = Cardinality(loop.bad) + Cardinality(DealtAs("counted"))
    <3>1. DealtAs("counted") = Counted(loop)
      BY <1>1, <2>2 DEF ExpressionsInv, LoopInv, SkippedAreSilent, Listed, DealtAs, Counted, Seen
    <3> QED
      BY <2>1, <3>1 DEF ByItself
  <2>6. expression # None /\ expression.type = "RawHostData" =>
            DealtAs("missing") \subseteq loop.bad \/ DealtAs("missing") \subseteq loop.good
    <3> SUFFICES ASSUME expression # None, expression.type = "RawHostData"
                 PROVE  DealtAs("missing") \subseteq loop.bad
                            \/ DealtAs("missing") \subseteq loop.good
      OBVIOUS
    <3> DEFINE zero == Compare(expression.operator, 0, expression.value, FALSE)
    <3>1. \A i \in DealtAs("missing") :
              /\ i \in DOMAIN loop.seen /\ loop.seen[i].dealt \in Listed
              /\ loop.seen[i].alone = zero
      BY <2>1 DEF MissingAreAlike, DealtAs, Listed
    <3> HIDE DEF zero
    <3> QED
      BY <2>2, <2>3, <3>1
  <2> QED
    BY <2>4, <2>5, <2>6 DEF EachHostByItself
<1> QED
  BY <1>1, InvHolds, PTL

(***************************************************************************)
(* MinHostDecides for any lists of hosts and any values: a host is counted *)
(* once, for what its data say or for lacking metadata or history, and the *)
(* count is what                                                           *)
(* MinHost is compared with (evaluator.go:155, 254, 326, 371, 432, 540).   *)
(***************************************************************************)
THEOREM CountDecides == Spec => MinHostDecides
<1> DEFINE Ones == {i \in DOMAIN loop.seen : loop.seen[i].alone \/ loop.seen[i].dealt = "counted"}
           Decided == results'[Len(results')].result = (Cardinality(Ones) >= expression.minHost)
           Ended == expression # None /\ expression' = None /\ Len(loop.seen) = Len(loop.hosts)
<1>1. ASSUME ExpressionsInv
      PROVE  Cardinality(Ones) = loop.affected
  <2>1. LoopInv /\ loop \in Loops
    BY <1>1 DEF ExpressionsInv, LoopInv
  <2>2. \A i \in DOMAIN loop.seen : loop.seen[i] \in Verdicts
    BY <2>1 DEF Loops
  <2>3. Ones = Failing(loop) \cup Counted(loop)
    BY <1>1, <2>2 DEF ExpressionsInv, LoopInv, SkippedAreSilent, Listed, Failing, Counted, Seen,
                      Verdicts
  <2>4. Failing(loop) \cap Counted(loop) = {}
    BY DEF Failing, Counted, Seen
  <2>5. IsFiniteSet(DOMAIN loop.seen)
    <3>1. loop.seen \in Seq(Verdicts)
      BY <2>1 DEF Loops
    <3> QED
      BY <3>1, FS_Interval, LenProperties
  <2>6. IsFiniteSet(Failing(loop)) /\ IsFiniteSet(Counted(loop))
    <3>1. Failing(loop) \in SUBSET DOMAIN loop.seen /\ Counted(loop) \in SUBSET DOMAIN loop.seen
      BY DEF Failing, Counted, Seen
    <3> QED
      BY <2>5, <3>1, FS_Subset
  <2> HIDE DEF Ones
  <2>7. Cardinality(Failing(loop) \cap Counted(loop)) = 0
    BY <2>4, FS_EmptySet
  <2>8. Cardinality(Failing(loop)) \in Nat /\ Cardinality(Counted(loop)) \in Nat
    BY <2>6, FS_CardinalityType
  <2>9. Cardinality(Failing(loop) \cup Counted(loop))
            = Cardinality(Failing(loop)) + Cardinality(Counted(loop))
                  - Cardinality(Failing(loop) \cap Counted(loop))
    BY <2>6, FS_Union
  <2>10. Cardinality(Ones) = Cardinality(Failing(loop)) + Cardinality(Counted(loop))
    BY <2>3, <2>7, <2>8, <2>9
  <2> QED
    BY <2>1, <2>10 DEF LoopInv, ByItself
<1>2. ASSUME ExpressionsInv, Next, Ended
      PROVE  Decided
  <2> HIDE DEF Ones
  <2>1. ~HostsFail /\ ~BooleanOperator /\ ~Begin
    BY <1>2 DEF HostsFail, BooleanOperator, Begin
  <2>2. ~(VisitRaw \/ VisitRelative \/ VisitLog \/ VisitProbe)
    BY <1>2 DEF VisitRaw, VisitRelative, VisitLog, VisitProbe, List, Skip
  <2>3. ~LogFails /\ ~WrongType
    <3>1. Len(loop.seen) \in Nat
      BY <1>2, LenProperties DEF ExpressionsInv, LoopInv, Loops
    <3>2. Len(loop.seen) = Len(loop.hosts)
      BY <1>2
    <3> DEFINE n == Len(loop.seen)
               k == Len(loop.hosts)
    <3>3. LogFails \/ WrongType => n < k
      BY DEF LogFails, WrongType, Visiting
    <3> HIDE DEF n, k, Ended
    <3>4. n \in Nat /\ n = k
      BY <3>1, <3>2 DEF n, k
    <3> QED
      BY <3>3, <3>4
  <2>4. End /\ expression \in Expressions
    BY <1>2, <2>1, <2>2, <2>3 DEF Next, Visit, ExpressionsInv
  <2>5. (loop.affected >= expression.minHost) \in BOOLEAN
    OBVIOUS
  <2>6. results'[Len(results')].result = (loop.affected >= expression.minHost)
    BY <1>2, <2>4, <2>5, EndingKeeps DEF End
  <2> QED
    BY <1>1, <1>2, <2>6
<1>3. ASSUME ExpressionsInv, [Next]_vars
      PROVE  [Ended => Decided]_vars
  <2> HIDE DEF Ended, Decided
  <2> QED
    BY <1>2, <1>3
<1> QED
  BY <1>3, InvHolds, PTL DEF Spec, MinHostDecides

-----------------------------------------------------------------------------
(***************************************************************************)
(* The fold.  In a list joined by OR the last operator is "or" from the    *)
(* second result on, and what the operators themselves add is FALSE.       *)
(***************************************************************************)
JoinedByOr == WellFormed /\ OnlyOperator("or")

FoldInv ==
    /\ \A i \in DOMAIN results : results[i].type = "BooleanOperator" => results[i].result = FALSE
    /\ JoinedByOr /\ Len(results) > 1 => lastOperator = "or"
    /\ JoinedByOr => (finalResult <=> \E i \in DOMAIN results : results[i].result = TRUE)

\* One more result.
LEMMA FoldsOn ==
    ASSUME ExpressionsInv, FoldInv,
           NEW type \in Types, NEW operator \in Signs, NEW value \in BOOLEAN,
           Fold(type, operator, value),
           type = "BooleanOperator" => lastOperator' = operator /\ value = FALSE,
           type # "BooleanOperator" => lastOperator' = lastOperator
    PROVE  FoldInv'
<1> DEFINE r == [type |-> type, operator |-> operator, result |-> value]
           n == Len(results)
<1>1. r \in Results /\ r.type = type /\ r.operator = operator /\ r.result = value
  BY DEF Results
<1>2. results' = Append(results, r) /\ results \in Seq(Results) /\ finalResult \in BOOLEAN
  BY DEF Fold, ExpressionsInv
<1> HIDE DEF r
<1>3. /\ n \in Nat /\ Len(results') = n + 1 /\ DOMAIN results = 1 .. n
      /\ DOMAIN results' = 1 .. n + 1 /\ 1 .. n + 1 = (1 .. n) \cup {n + 1}
      /\ \A i \in 1 .. n : results'[i] = results[i]
      /\ results'[n + 1] = r
  BY <1>1, <1>2, AppendProperties, LenProperties
<1>4. (n = 0) <=> (results = <<>>)
  BY <1>2, EmptySeq
<1> HIDE DEF n
<1>5. JoinedByOr' => JoinedByOr
  BY <1>3 DEF JoinedByOr, WellFormed, OnlyOperator
<1>6. JoinedByOr' => (type = "BooleanOperator" <=> (n + 1) % 2 = 0)
  BY <1>1, <1>3 DEF JoinedByOr, WellFormed
<1>7. JoinedByOr' /\ type = "BooleanOperator" => operator = "or"
  BY <1>1, <1>3 DEF JoinedByOr, OnlyOperator
<1>8. \A i \in DOMAIN results' : results'[i].type = "BooleanOperator" => results'[i].result = FALSE
  BY <1>1, <1>3 DEF FoldInv
<1>9. JoinedByOr' /\ n + 1 > 1 => lastOperator' = "or"
  <2>1. SUFFICES ASSUME JoinedByOr', n + 1 > 1
                 PROVE  lastOperator' = "or"
    OBVIOUS
  <2>2. CASE type = "BooleanOperator"
    BY <1>7, <2>1, <2>2
  <2>3. CASE type # "BooleanOperator"
    <3>1. n > 1
      <4>1. n # 1
        BY <1>6, <2>1, <2>3
      <4> QED
        BY <1>3, <2>1, <4>1
    <3> QED
      BY <1>5, <2>1, <2>3, <3>1 DEF FoldInv, n
  <2> QED
    BY <2>2, <2>3
<1>10. JoinedByOr' => (finalResult' <=> \E i \in DOMAIN results' : results'[i].result = TRUE)
  <2>1. SUFFICES ASSUME JoinedByOr'
                 PROVE  finalResult' <=> \E i \in DOMAIN results' : results'[i].result = TRUE
    OBVIOUS
  <2>2. finalResult <=> \E i \in 1 .. n : results[i].result = TRUE
    BY <1>3, <1>5, <2>1 DEF FoldInv
  <2>3. (\E i \in DOMAIN results' : results'[i].result = TRUE) <=> finalResult \/ value = TRUE
    BY <1>1, <1>3, <2>2
  <2>4. CASE n = 0
    <3>1. finalResult' = value
      BY <1>4, <2>4 DEF Fold
    <3>2. ~finalResult
      BY <2>2, <2>4
    <3> QED
      BY <2>3, <3>1, <3>2
  <2>5. CASE n # 0
    <3>1. lastOperator' = "or"
      BY <1>3, <1>9, <2>1, <2>5
    <3>2. finalResult' = (finalResult \/ value)
      BY <1>4, <2>5, <3>1 DEF Fold
    <3> QED
      BY <2>3, <3>2
  <2> QED
    BY <2>4, <2>5
<1> QED
  BY <1>3, <1>8, <1>9, <1>10 DEF FoldInv

\* An expression is no operator.
LEMMA ExpressionFoldsOn ==
    ASSUME ExpressionsInv, FoldInv, NEW e \in Expressions, NEW value \in BOOLEAN,
           Fold(e.type, e.operator, value), UNCHANGED lastOperator
    PROVE  FoldInv'
<1>1. e.type # "BooleanOperator"
  BY ExpressionIs DEF Operators
<1> QED
  BY <1>1, ExpressionIsNamed, FoldsOn

\* What neither folds nor sets the operator.
LEMMA FoldStays ==
    ASSUME FoldInv, UNCHANGED <<results, lastOperator, finalResult>>
    PROVE  FoldInv'
<1> QED
  BY DEF FoldInv, JoinedByOr, WellFormed, OnlyOperator

\* Only the ends of expressions and the operators fold.
LEMMA FoldStep ==
    ASSUME ExpressionsInv, FoldInv, [Next]_vars
    PROVE  FoldInv'
<1>1. CASE \/ HostsFail \/ VisitRaw \/ VisitRelative \/ WrongType \/ VisitLog \/ VisitProbe
           \/ UNCHANGED vars
  BY <1>1, FoldStays
  DEF HostsFail, VisitRaw, VisitRelative, WrongType, VisitLog, VisitProbe, List, Skip, vars
<1>2. CASE BooleanOperator
  <2>1. PICK operator \in {"and", "or"} :
            lastOperator' = operator /\ Fold("BooleanOperator", operator, FALSE)
    BY <1>2 DEF BooleanOperator
  <2>2. "BooleanOperator" \in Types /\ operator \in Signs /\ FALSE \in BOOLEAN
    BY DEF Types, Signs
  <2> QED
    BY <2>1, <2>2, FoldsOn
<1>3. CASE Begin
  <2>1. PICK e \in Expressions :
            \/ UNCHANGED <<lastOperator, finalResult, results>>
            \/ /\ UNCHANGED lastOperator
               /\ Fold(e.type, e.operator, e.type \in {"RawHostData", "RelativeHostData"})
    BY <1>3 DEF Begin
  <2>2. CASE UNCHANGED <<lastOperator, finalResult, results>>
    BY <2>2, FoldStays
  <2> DEFINE value == e.type \in {"RawHostData", "RelativeHostData"}
  <2>3. CASE UNCHANGED lastOperator /\ Fold(e.type, e.operator, value)
    <3>1. value \in BOOLEAN
      OBVIOUS
    <3> HIDE DEF value
    <3> QED
      BY <2>3, <3>1, ExpressionFoldsOn
  <2> QED
    BY <2>1, <2>2, <2>3
<1>4. CASE LogFails \/ End
  <2>1. expression \in Expressions
    BY <1>4 DEF ExpressionsInv, LogFails, Visiting, End
  <2>2. CASE LogFails
    BY <2>1, <2>2, ExpressionFoldsOn DEF LogFails
  <2> DEFINE value == loop.affected >= expression.minHost
  <2>3. CASE End
    <3>1. value \in BOOLEAN
      OBVIOUS
    <3>2. UNCHANGED lastOperator /\ Fold(expression.type, expression.operator, value)
      BY <2>3 DEF End
    <3> HIDE DEF value
    <3> QED
      BY <2>1, <3>1, <3>2, ExpressionFoldsOn
  <2> QED
    BY <1>4, <2>2, <2>3
<1> QED
  BY <1>1, <1>2, <1>3, <1>4 DEF Next, Visit

(***************************************************************************)
(* OrIsAny for lists of any length: the entry that the operator itself     *)
(* adds to the results does no harm to OR (evaluator.go:77-87).            *)
(***************************************************************************)
THEOREM AnyDecidesOr == Spec => []OrIsAny
<1>1. Init => FoldInv
  <2> SUFFICES ASSUME Init PROVE FoldInv
    OBVIOUS
  <2>1. results = <<>> /\ finalResult = FALSE
    BY DEF Init
  <2>2. DOMAIN results = {} /\ Len(results) = 0
    BY <2>1
  <2> QED
    BY <2>1, <2>2 DEF FoldInv
<1>2. ExpressionsInv /\ FoldInv => OrIsAny
  <2> SUFFICES ASSUME ExpressionsInv, FoldInv, JoinedByOr
               PROVE  finalResult = (\E i \in DOMAIN results : i % 2 = 1 /\ results[i].result)
    BY DEF OrIsAny, JoinedByOr
  <2>1. /\ results \in Seq(Results) /\ finalResult \in BOOLEAN
        /\ finalResult <=> \E i \in DOMAIN results : results[i].result = TRUE
    BY DEF ExpressionsInv, FoldInv
  <2>2. \A i \in DOMAIN results : results[i] \in Results /\ i \in Nat
    BY <2>1, ElementOfSeq, LenProperties
  <2>3. \A i \in DOMAIN results : results[i].result \in BOOLEAN
    BY <2>2 DEF Results
  <2>4. \A i \in DOMAIN results : results[i].result = TRUE => i % 2 # 0
    BY DEF FoldInv, JoinedByOr, WellFormed
  <2>5. \A i \in DOMAIN results : results[i].result = TRUE => i % 2 = 1
    BY <2>2, <2>4
  <2> QED
    BY <2>1, <2>3, <2>5
<1> QED
  BY <1>1, <1>2, InvHolds, FoldStep, PTL DEF Spec
==============================================================================
