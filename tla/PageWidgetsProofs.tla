--------------------------- MODULE PageWidgetsProofs ---------------------------
(***************************************************************************)
(* Proofs about PageWidgets for any menus with any number of items, any    *)
(* number of backdrops and any scrollbar.                                  *)
(***************************************************************************)
EXTENDS PageWidgets, FiniteSetTheorems, SequenceTheorems, WellFoundedInduction, TLAPS

-----------------------------------------------------------------------------
(***************************************************************************)
(* Folds.                                                                  *)
(***************************************************************************)
\* The number with everything below it is the greatest of a set.
LEMMA MaxIs ==
    ASSUME NEW S \in SUBSET Int, NEW m \in S, \A x \in S : m >= x
    PROVE  Max(S) = m
<1>1. Max(S) \in S /\ \A x \in S : Max(S) >= x
  BY DEF Max
<1>2. Max(S) \in Int /\ m \in Int
  BY <1>1
<1> QED
  BY <1>1, <1>2

\* What holds at 0 and goes on from each number to the next holds up to N.
LEMMA UpTo ==
    ASSUME NEW N \in Nat, NEW S, 0 \in S, \A k \in 1 .. N : k - 1 \in S => k \in S
    PROVE  N \in S
<1> DEFINE Missing == {k \in 0 .. N : k \notin S}
           T == {0 .. k : k \in Missing}
<1> SUFFICES ASSUME N \notin S PROVE FALSE
  OBVIOUS
<1>1. T \subseteq FiniteSubsetsOf(Nat) /\ T # {}
  <2>1. \A k \in Missing : 0 .. k \in FiniteSubsetsOf(Nat)
    BY FS_Interval DEF FiniteSubsetsOf
  <2>2. N \in Missing
    OBVIOUS
  <2> QED
    BY <2>1, <2>2
<1>2. PICK U \in T : \A V \in T : ~(<<V, U>> \in StrictSubsetOrdering(Nat))
  BY <1>1, FS_StrictSubsetOrderingWellFounded, WFMin
<1>3. PICK k \in Missing : U = 0 .. k
  OBVIOUS
<1>4. k # 0 /\ k \in 1 .. N /\ k - 1 \in 0 .. N
  OBVIOUS
<1>5. k - 1 \in Missing
  BY <1>4
<1>6. <<0 .. k - 1, 0 .. k>> \in StrictSubsetOrdering(Nat)
  <2>1. 0 .. k - 1 \in T /\ 0 .. k \in T
    BY <1>5
  <2>2. 0 .. k - 1 \subseteq 0 .. k /\ k \in 0 .. k /\ k \notin 0 .. k - 1
    BY <1>4
  <2> QED
    BY <1>1, <2>1, <2>2 DEF StrictSubsetOrdering, FiniteSubsetsOf
<1> QED
  BY <1>2, <1>3, <1>5, <1>6

\* What one of a row of callbacks does, and one of several timers of hideModal, and one
\* of a row that waits for the end of the navigation bar's transition.
Step(of, s, x) == CASE of = "callbacks" -> Call(s, x)
                    [] of = "timers"    -> HideModal(s)
                    [] of = "nav"       -> Complete(s, x)

\* The recursion that a fold over the places 1 .. k is.
Folds(it, of, base, seq, k) ==
    it = [s \in SUBSET (1 .. k) |->
              IF s = {} THEN base ELSE Step(of, it[s \ {Max(s)}], seq[Max(s)])]

\* With a solution for k places there is one for k + 1.
LEMMA FoldsNext ==
    ASSUME NEW of, NEW base, NEW seq, NEW k \in Nat, NEW it, Folds(it, of, base, seq, k)
    PROVE  \E jt : Folds(jt, of, base, seq, k + 1)
<1> DEFINE last == k + 1
           jt == [s \in SUBSET (1 .. last) |->
                    IF last \in s THEN Step(of, it[s \ {last}], seq[last]) ELSE it[s]]
<1> HIDE DEF Folds
<1>1. ASSUME NEW s \in SUBSET (1 .. last)
      PROVE  jt[s] = IF s = {} THEN base ELSE Step(of, jt[s \ {Max(s)}], seq[Max(s)])
  <2>1. CASE last \in s
    <3>1. s \subseteq Int /\ \A y \in s : last >= y
      OBVIOUS
    <3>2. Max(s) = last
      BY <2>1, <3>1, MaxIs
    <3>3. s \ {last} \subseteq s /\ last \notin s \ {last}
      OBVIOUS
    <3>4. jt[s \ {last}] = it[s \ {last}]
      BY <3>3
    <3> QED
      BY <2>1, <3>2, <3>4
  <2>2. CASE last \notin s
    <3>1. s \in SUBSET (1 .. k)
      BY <2>2
    <3>2. it[s] = IF s = {} THEN base ELSE Step(of, it[s \ {Max(s)}], seq[Max(s)])
      BY <3>1 DEF Folds
    <3>3. jt[s \ {Max(s)}] = it[s \ {Max(s)}]
      BY <2>2
    <3> QED
      BY <2>2, <3>2, <3>3
  <2> QED
    BY <2>1, <2>2
<1>2. jt = [s \in SUBSET (1 .. last) |->
              IF s = {} THEN base ELSE Step(of, jt[s \ {Max(s)}], seq[Max(s)])]
  <2>1. jt = [s \in SUBSET (1 .. last) |-> jt[s]]
    OBVIOUS
  <2> HIDE DEF jt
  <2> QED
    BY <1>1, <2>1
<1> HIDE DEF jt
<1> QED
  BY <1>2 DEF Folds

\* Hence there is one for any number of places.
LEMMA FoldsExist ==
    ASSUME NEW of, NEW base, NEW seq, NEW N \in Nat
    PROVE  \E it : Folds(it, of, base, seq, N)
<1> DEFINE S == {k \in Nat : \E it : Folds(it, of, base, seq, k)}
<1>1. 0 \in S
  <2> DEFINE it == [s \in SUBSET (1 .. 0) |-> base]
  <2>1. SUBSET (1 .. 0) = {{}}
    BY 1 .. 0 = {}
  <2>2. it = [s \in SUBSET (1 .. 0) |->
                IF s = {} THEN base ELSE Step(of, it[s \ {Max(s)}], seq[Max(s)])]
    BY <2>1
  <2> HIDE DEF it
  <2>3. Folds(it, of, base, seq, 0)
    BY <2>2 DEF Folds
  <2> QED
    BY <2>3
<1>2. ASSUME NEW k \in 1 .. N, k - 1 \in S PROVE k \in S
  <2>1. PICK it : Folds(it, of, base, seq, k - 1)
    BY <1>2
  <2>2. k - 1 \in Nat /\ (k - 1) + 1 = k /\ k \in Nat
    OBVIOUS
  <2>3. \E jt : Folds(jt, of, base, seq, (k - 1) + 1)
    BY <2>1, <2>2, FoldsNext
  <2> QED
    BY <2>2, <2>3
<1> HIDE DEF S
<1>3. N \in S
  BY <1>1, <1>2, UpTo
<1> QED
  BY <1>3 DEF S

\* The states of a fold over a sequence, from the first on.
Folding(acc, of, base, seq, N) ==
    acc[0] = base /\ \A k \in 1 .. N : acc[k] = Step(of, acc[k - 1], seq[k])

LEMMA FoldingEnds ==
    ASSUME NEW of, NEW base, NEW seq, NEW N \in Nat,
           NEW iter, Folds(iter, of, base, seq, N)
    PROVE  \E acc : Folding(acc, of, base, seq, N) /\ acc[N] = iter[1 .. N]
<1> DEFINE acc == [k \in 0 .. N |-> iter[1 .. k]]
<1>1. acc[0] = base
  <2>1. 1 .. 0 = {} /\ {} \in SUBSET (1 .. N)
    OBVIOUS
  <2> QED
    BY <2>1 DEF Folds
<1>2. ASSUME NEW k \in 1 .. N
      PROVE  acc[k] = Step(of, acc[k - 1], seq[k])
  <2>1. 1 .. k \in SUBSET (1 .. N) /\ k \in 1 .. k /\ 1 .. k # {}
    <3>1. k \in 1 .. k /\ \A j \in 1 .. k : j \in 1 .. N
      OBVIOUS
    <3> QED
      BY <3>1
  <2>2. Max(1 .. k) = k
    <3>1. 1 .. k \subseteq Int /\ \A j \in 1 .. k : k >= j
      OBVIOUS
    <3> QED
      BY <2>1, <3>1, MaxIs
  <2>3. (1 .. k) \ {k} = 1 .. k - 1
    OBVIOUS
  <2>4. iter[1 .. k] = Step(of, iter[1 .. k - 1], seq[k])
    BY <2>1, <2>2, <2>3 DEF Folds
  <2> QED
    BY <2>4
<1>3. acc[N] = iter[1 .. N]
  OBVIOUS
<1> HIDE DEF acc
<1> QED
  BY <1>1, <1>2, <1>3 DEF Folding

\* The three folds of the module.
LEMMA CallbacksFold ==
    ASSUME NEW m, NEW seq, NEW N \in Nat, DOMAIN seq = 1 .. N
    PROVE  \E acc : Folding(acc, "callbacks", m, seq, N) /\ FoldLeft(Call, m, seq) = acc[N]
<1> DEFINE iter == CHOOSE it : Folds(it, "callbacks", m, seq, N)
<1>1. Folds(iter, "callbacks", m, seq, N)
  BY FoldsExist
<1>2. FoldLeft(Call, m, seq) = iter[1 .. N]
  BY DEF FoldLeft, MapThenFoldSet, Folds, Step
<1> HIDE DEF iter
<1> QED
  BY <1>1, <1>2, FoldingEnds

LEMMA TimersFold ==
    ASSUME NEW m, NEW N \in Nat
    PROVE  \E acc : Folding(acc, "timers", m, [i \in 1 .. N |-> i], N)
                    /\ HideModals(m, N) = acc[N]
<1> DEFINE seq == [i \in 1 .. N |-> i]
           iter == CHOOSE it : Folds(it, "timers", m, seq, N)
<1>1. Folds(iter, "timers", m, seq, N)
  BY FoldsExist
<1>2. HideModals(m, N) = iter[1 .. N]
  BY DEF HideModals, FoldLeft, MapThenFoldSet, Folds, Step
<1> HIDE DEF iter, seq
<1> QED
  BY <1>1, <1>2, FoldingEnds DEF seq

LEMMA NavFold ==
    ASSUME NEW n, NEW seq, NEW N \in Nat, DOMAIN seq = 1 .. N
    PROVE  \E acc : Folding(acc, "nav", n, seq, N) /\ FoldLeft(Complete, n, seq) = acc[N]
<1> DEFINE iter == CHOOSE it : Folds(it, "nav", n, seq, N)
<1>1. Folds(iter, "nav", n, seq, N)
  BY FoldsExist
<1>2. FoldLeft(Complete, n, seq) = iter[1 .. N]
  BY DEF FoldLeft, MapThenFoldSet, Folds, Step
<1> HIDE DEF iter
<1> QED
  BY <1>1, <1>2, FoldingEnds

\* A fold over one thing is one step.
LEMMA OneStep ==
    ASSUME NEW of, NEW base, NEW seq, NEW acc, Folding(acc, of, base, seq, 1)
    PROVE  acc[1] = Step(of, base, seq[1])
<1>1. acc[1] = Step(of, acc[1 - 1], seq[1])
  BY DEF Folding
<1> QED
  BY <1>1 DEF Folding

-----------------------------------------------------------------------------
(***************************************************************************)
(* The dialog, whatever the user does.                                     *)
(***************************************************************************)
Callbacks == {"slideIn", "remove", "hidden"}

Modals ==
    [isShown : BOOLEAN, told : {"show", "shown", "hide", "hidden"}, visible : BOOLEAN,
     inDialog : BOOLEAN, keepsFocus : BOOLEAN, backdrop : Backdrops \cup {None},
     onPage : SUBSET Backdrops, atBackdrop : [Backdrops -> Seq(Callbacks)],
     atDialog : Nat, atElement : Nat,
     modalOpen : BOOLEAN, pad : Int, originalPad : Int]

Removes(callbacks) == \E i \in DOMAIN callbacks : callbacks[i] = "remove"

\* What waits for the end of a backdrop's transition waits on the page, and so is the
\* backdrop that the dialog would remove.
BackdropsInv(m) ==
    /\ m \in Modals
    /\ \A b \in Backdrops : m.atBackdrop[b] # <<>> => b \in m.onPage
    /\ m.backdrop # None => m.backdrop \in m.onPage

\* A dialog that is shown has a backdrop on the page, for nothing waits on the one that it
\* would remove to remove it.
ModalInv(m) ==
    /\ BackdropsInv(m)
    /\ m.isShown => m.onPage # {}
    /\ m.isShown /\ m.backdrop # None => ~Removes(m.atBackdrop[m.backdrop])

\* As long as there are fewer backdrops than there may be, there is another.
LEMMA AnotherBackdrop ==
    ASSUME NEW on \in SUBSET Backdrops, Cardinality(on) < MaxBackdrops
    PROVE  /\ (CHOOSE b \in Backdrops \ on : TRUE) \in Backdrops \ on
           /\ \A b \in Backdrops \ on : Cardinality(on \cup {b}) = Cardinality(on) + 1
<1>1. MaxBackdrops \in Nat \ {0}
  BY WidgetsAssumption
<1>2. IsFiniteSet(Backdrops) /\ Cardinality(Backdrops) = MaxBackdrops
  BY <1>1, FS_Interval DEF Backdrops
<1>3. IsFiniteSet(on)
  BY <1>2, FS_Subset
<1>4. Backdrops \ on # {}
  <2> SUFFICES ASSUME Backdrops \ on = {} PROVE FALSE
    OBVIOUS
  <2>1. on = Backdrops
    OBVIOUS
  <2> QED
    BY <1>1, <1>2, <2>1
<1>5. \A b \in Backdrops \ on : Cardinality(on \cup {b}) = Cardinality(on) + 1
  BY <1>3, FS_AddElement
<1> QED
  BY <1>4, <1>5

\* No backdrop is none.
LEMMA NoneIsNoBackdrop == None \notin Backdrops
  BY WidgetsAssumption DEF None, Backdrops

LEMMA NewBackdropKeeps ==
    ASSUME NEW m, BackdropsInv(m), Cardinality(m.onPage) < MaxBackdrops,
           NEW callback \in {"slideIn", "hidden"}
    PROVE  LET n == NewBackdrop(m, callback)
           IN  ModalInv(n) /\ n.isShown = m.isShown
               /\ Cardinality(n.onPage) = Cardinality(m.onPage) + 1
<1> DEFINE b == CHOOSE c \in Backdrops \ m.onPage : TRUE
           n == NewBackdrop(m, callback)
<1>1. m \in Modals /\ m.onPage \in SUBSET Backdrops
  BY DEF BackdropsInv, Modals
<1>2. b \in Backdrops \ m.onPage /\ Cardinality(m.onPage \cup {b}) = Cardinality(m.onPage) + 1
  BY <1>1, AnotherBackdrop
<1>3. n = [m EXCEPT !.backdrop = b, !.onPage = @ \cup {b}, !.atBackdrop[b] = <<callback>>]
  BY DEF NewBackdrop
<1> HIDE DEF b, n
<1>4. <<callback>> \in Seq(Callbacks) /\ ~Removes(<<callback>>)
  BY DEF Callbacks, Removes
<1>5. n \in Modals
  BY <1>1, <1>2, <1>3, <1>4 DEF Modals
<1>6. /\ n.isShown = m.isShown /\ n.backdrop = b /\ n.onPage = m.onPage \cup {b}
      /\ \A c \in Backdrops : n.atBackdrop[c] =
             IF c = b THEN <<callback>> ELSE m.atBackdrop[c]
  BY <1>1, <1>2, <1>3 DEF Modals
<1>7. ModalInv(n)
  BY <1>2, <1>4, <1>5, <1>6 DEF ModalInv, BackdropsInv
<1> QED
  BY <1>2, <1>6, <1>7 DEF n

\* One timer of hideModal.
LEMMA HideModalKeeps ==
    ASSUME NEW m, ModalInv(m), Cardinality(m.onPage) < MaxBackdrops
    PROVE  LET n == HideModal(m)
           IN  /\ ModalInv(n) /\ n.isShown = m.isShown
               /\ \/ n.onPage = m.onPage
                  \/ Cardinality(n.onPage) = Cardinality(m.onPage) + 1
<1> DEFINE h == [m EXCEPT !.visible = FALSE, !.inDialog = FALSE]
           n == HideModal(m)
<1>1. m \in Modals
  BY DEF ModalInv, BackdropsInv
<1>2. /\ h \in Modals
      /\ h.isShown = m.isShown /\ h.backdrop = m.backdrop /\ h.onPage = m.onPage
      /\ h.atBackdrop = m.atBackdrop /\ h.originalPad = m.originalPad
  BY <1>1 DEF Modals
<1>3. n = IF h.isShown THEN NewBackdrop(h, "hidden")
          ELSE IF h.backdrop # None
               THEN [h EXCEPT !.atBackdrop[h.backdrop] = Append(@, "remove")]
               ELSE Hidden(h)
  BY DEF HideModal
<1> HIDE DEF h, n
<1>4. BackdropsInv(h)
  BY <1>2 DEF ModalInv, BackdropsInv
<1>5. CASE h.isShown
  <2>1. n = NewBackdrop(h, "hidden")
    BY <1>3, <1>5
  <2>2. Cardinality(h.onPage) < MaxBackdrops /\ "hidden" \in {"slideIn", "hidden"}
    BY <1>2
  <2>3. ModalInv(n) /\ n.isShown = h.isShown /\ Cardinality(n.onPage) = Cardinality(h.onPage) + 1
    BY <1>4, <2>1, <2>2, NewBackdropKeeps
  <2> QED
    BY <1>2, <2>3 DEF n
<1>6. CASE ~h.isShown /\ h.backdrop # None
  <2> DEFINE b == h.backdrop
             callbacks == Append(h.atBackdrop[b], "remove")
  <2>1. n = [h EXCEPT !.atBackdrop[b] = callbacks]
    BY <1>3, <1>6
  <2>2. b \in Backdrops /\ b \in h.onPage
    BY <1>2, <1>4, <1>6 DEF BackdropsInv, Modals
  <2>3. callbacks \in Seq(Callbacks)
    <3>1. h.atBackdrop[b] \in Seq(Callbacks) /\ "remove" \in Callbacks
      BY <1>2, <2>2 DEF Modals, Callbacks
    <3> QED
      BY <3>1
  <2> HIDE DEF callbacks
  <2>4. n \in Modals
    BY <1>2, <2>1, <2>2, <2>3 DEF Modals
  <2>5. /\ n.isShown = h.isShown /\ n.backdrop = b /\ n.onPage = h.onPage
        /\ \A c \in Backdrops : c # b => n.atBackdrop[c] = h.atBackdrop[c]
    BY <1>2, <2>1, <2>2 DEF Modals
  <2>6. ModalInv(n)
    BY <1>4, <1>6, <2>2, <2>4, <2>5 DEF ModalInv, BackdropsInv
  <2> QED
    BY <1>2, <2>5, <2>6 DEF n
<1>7. CASE ~h.isShown /\ h.backdrop = None
  <2>1. n = [h EXCEPT !.modalOpen = FALSE, !.pad = h.originalPad, !.told = "hidden"]
    BY <1>3, <1>7 DEF Hidden
  <2>2. n \in Modals
    BY <1>2, <2>1 DEF Modals
  <2>3. /\ n.isShown = h.isShown /\ n.backdrop = h.backdrop /\ n.onPage = h.onPage
        /\ n.atBackdrop = h.atBackdrop
    BY <1>2, <2>1 DEF Modals
  <2>4. ModalInv(n)
    BY <1>4, <1>7, <2>2, <2>3 DEF ModalInv, BackdropsInv
  <2> QED
    BY <1>2, <2>3, <2>4 DEF n
<1> QED
  BY <1>5, <1>6, <1>7

\* Several timers of hideModal at once.
LEMMA HideModalsKeeps ==
    ASSUME NEW m, ModalInv(m), NEW N \in Nat, Cardinality(m.onPage) + N <= MaxBackdrops
    PROVE  ModalInv(HideModals(m, N)) /\ HideModals(m, N).isShown = m.isShown
<1>1. PICK acc : Folding(acc, "timers", m, [i \in 1 .. N |-> i], N) /\ HideModals(m, N) = acc[N]
  BY TimersFold
<1> DEFINE Good(n, k) == /\ ModalInv(n) /\ n.isShown = m.isShown
                         /\ Cardinality(n.onPage) <= Cardinality(m.onPage) + k
           S == {k \in 0 .. N : Good(acc[k], k)}
<1>2. \A n : ModalInv(n) => Cardinality(n.onPage) \in Nat
  <2> SUFFICES ASSUME NEW n, ModalInv(n) PROVE Cardinality(n.onPage) \in Nat
    OBVIOUS
  <2>1. n.onPage \subseteq Backdrops
    BY DEF ModalInv, BackdropsInv, Modals
  <2>2. IsFiniteSet(Backdrops)
    BY FS_Interval, WidgetsAssumption DEF Backdrops
  <2>3. IsFiniteSet(n.onPage)
    BY <2>1, <2>2, FS_Subset
  <2> QED
    BY <2>3, FS_CardinalityType
<1>3. 0 \in S
  BY <1>1, <1>2 DEF Folding
<1>4. ASSUME NEW k \in 1 .. N, k - 1 \in S PROVE k \in S
  <2>1. acc[k] = HideModal(acc[k - 1])
    BY <1>1 DEF Folding, Step
  <2>2. Good(acc[k - 1], k - 1)
    BY <1>4
  <2>3. Cardinality(acc[k - 1].onPage) < MaxBackdrops
    BY <1>2, <2>2, WidgetsAssumption
  <2>4. /\ ModalInv(acc[k]) /\ acc[k].isShown = acc[k - 1].isShown
        /\ \/ acc[k].onPage = acc[k - 1].onPage
           \/ Cardinality(acc[k].onPage) = Cardinality(acc[k - 1].onPage) + 1
    BY <2>1, <2>2, <2>3, HideModalKeeps
  <2> QED
    BY <1>2, <2>2, <2>4
<1> HIDE DEF S
<1>5. N \in S
  BY <1>3, <1>4, UpTo
<1> QED
  BY <1>1, <1>5 DEF S

\* What a backdrop's callbacks leave after some of them: only the backdrop that the dialog
\* has may be gone, and only if a callback removes it.
Since(m, n, callbacks) ==
    /\ n \in Modals /\ n.isShown = m.isShown
    /\ \A c \in Backdrops : n.atBackdrop[c] \in {m.atBackdrop[c], <<>>}
    /\ \/ n.backdrop = m.backdrop /\ n.onPage = m.onPage
       \/ /\ n.backdrop = None /\ n.onPage = m.onPage \ {m.backdrop}
          /\ m.backdrop # None => n.atBackdrop[m.backdrop] = <<>> /\ Removes(callbacks)

LEMMA CallKeeps ==
    ASSUME NEW m \in Modals, NEW callbacks \in Seq(Callbacks), NEW k \in DOMAIN callbacks,
           NEW n, Since(m, n, callbacks)
    PROVE  Since(m, Call(n, callbacks[k]), callbacks)
<1>1. n \in Modals /\ callbacks[k] \in Callbacks
  BY DEF Since
<1>2. CASE callbacks[k] = "slideIn"
  <2> DEFINE r == Call(n, callbacks[k])
  <2>1. r = [n EXCEPT !.visible = TRUE, !.keepsFocus = TRUE, !.atDialog = @ + 1]
    BY <1>2 DEF Call, SlideIn
  <2> HIDE DEF r
  <2>2. r \in Modals
    <3>1. n.atDialog + 1 \in Nat
      BY <1>1 DEF Modals
    <3> QED
      BY <1>1, <2>1, <3>1, ZenonT(60) DEF Modals
  <2>3. /\ r.isShown = n.isShown /\ r.backdrop = n.backdrop /\ r.onPage = n.onPage
        /\ r.atBackdrop = n.atBackdrop
    BY <1>1, <2>1 DEF Modals
  <2> QED
    BY <2>2, <2>3 DEF Since, r
<1>3. ASSUME NEW r, Since(m, r, callbacks) PROVE Since(m, Hidden(r), callbacks)
  BY <1>3 DEF Since, Modals, Hidden
<1>4. CASE callbacks[k] = "hidden"
  BY <1>3, <1>4 DEF Call
<1>5. CASE callbacks[k] = "remove"
  <2>1. Removes(callbacks)
    BY <1>5 DEF Removes
  <2>2. Since(m, RemoveBackdrop(n), callbacks)
    <3>1. CASE n.backdrop = None
      BY <3>1 DEF RemoveBackdrop
    <3>2. CASE n.backdrop # None
      <4> DEFINE b == n.backdrop
                 r == RemoveBackdrop(n)
      <4>1. r = [n EXCEPT !.onPage = @ \ {b}, !.atBackdrop[b] = <<>>, !.backdrop = None]
        BY <3>2 DEF RemoveBackdrop
      <4>2. b \in Backdrops /\ b = m.backdrop /\ n.onPage = m.onPage
        BY <1>1, <3>2 DEF Since, Modals
      <4>3. r \in Modals
        <5> DEFINE left == n.onPage \ {b}
                   at == [n.atBackdrop EXCEPT ![b] = <<>>]
        <5>1. left \in SUBSET Backdrops
          BY <1>1 DEF Modals
        <5>2. at \in [Backdrops -> Seq(Callbacks)]
          <6>1. <<>> \in Seq(Callbacks)
            OBVIOUS
          <6> QED
            BY <1>1, <4>2, <6>1 DEF Modals
        <5>3. r = [n EXCEPT !.onPage = left, !.atBackdrop = at, !.backdrop = None]
          BY <1>1, <4>1 DEF Modals
        <5> HIDE DEF left, at, r
        <5> QED
          BY <1>1, <5>1, <5>2, <5>3, ZenonT(60) DEF Modals
      <4>4. /\ r.isShown = n.isShown /\ r.backdrop = None /\ r.onPage = n.onPage \ {b}
            /\ \A c \in Backdrops : r.atBackdrop[c] = IF c = b THEN <<>> ELSE n.atBackdrop[c]
        BY <1>1, <4>1, <4>2 DEF Modals
      <4> HIDE DEF r
      <4> QED
        BY <2>1, <4>2, <4>3, <4>4 DEF Since, r
    <3> QED
      BY <3>1, <3>2
  <2>3. Call(n, callbacks[k]) = Hidden(RemoveBackdrop(n))
    BY <1>5 DEF Call
  <2> QED
    BY <1>3, <2>2, <2>3
<1> QED
  BY <1>1, <1>2, <1>4, <1>5 DEF Callbacks

\* What waits for the end of a backdrop's transition leaves a dialog with a backdrop.
LEMMA BackdropEndsKeeps ==
    ASSUME NEW m, ModalInv(m), NEW b \in Backdrops, m.atBackdrop[b] # <<>>
    PROVE  LET n == FoldLeft(Call, [m EXCEPT !.atBackdrop[b] = <<>>], m.atBackdrop[b])
           IN  ModalInv(n) /\ n.isShown = m.isShown
<1> DEFINE callbacks == m.atBackdrop[b]
           cleared == [m EXCEPT !.atBackdrop[b] = <<>>]
           N == Len(callbacks)
           n == FoldLeft(Call, cleared, callbacks)
<1>1. m \in Modals /\ BackdropsInv(m)
  BY DEF ModalInv, BackdropsInv
<1>2. callbacks \in Seq(Callbacks) /\ N \in Nat /\ DOMAIN callbacks = 1 .. N
  <2>1. callbacks \in Seq(Callbacks)
    BY <1>1 DEF Modals
  <2> HIDE DEF callbacks
  <2> QED
    BY <2>1
<1>3. cleared \in Modals
  <2>1. <<>> \in Seq(Callbacks)
    OBVIOUS
  <2> QED
    BY <1>1, <2>1 DEF Modals
<1>4. /\ cleared.isShown = m.isShown /\ cleared.backdrop = m.backdrop
      /\ cleared.onPage = m.onPage
      /\ \A c \in Backdrops : cleared.atBackdrop[c] = IF c = b THEN <<>> ELSE m.atBackdrop[c]
  BY <1>1 DEF Modals
<1>5. b \in m.onPage
  BY <1>1 DEF BackdropsInv
<1> HIDE DEF callbacks, cleared, N
<1>6. PICK acc : Folding(acc, "callbacks", cleared, callbacks, N) /\ n = acc[N]
  BY <1>2, CallbacksFold
<1> DEFINE S == {k \in 0 .. N : Since(cleared, acc[k], callbacks)}
<1>7. 0 \in S
  BY <1>2, <1>3, <1>6 DEF Folding, Since
<1>8. ASSUME NEW k \in 1 .. N, k - 1 \in S PROVE k \in S
  <2>1. acc[k] = Call(acc[k - 1], callbacks[k])
    BY <1>6 DEF Folding, Step
  <2>2. Since(cleared, acc[k - 1], callbacks) /\ k \in DOMAIN callbacks
    BY <1>2, <1>8
  <2> QED
    BY <1>2, <1>3, <2>1, <2>2, CallKeeps
<1> SUFFICES ModalInv(n) /\ n.isShown = m.isShown
  BY DEF n, cleared, callbacks
<1> HIDE DEF S, n
<1>9. N \in S
  BY <1>2, <1>7, <1>8, UpTo
<1>10. Since(cleared, n, callbacks)
  BY <1>6, <1>9 DEF S
<1>11. n \in Modals /\ n.isShown = m.isShown
  BY <1>4, <1>10 DEF Since
<1>12. \A c \in Backdrops : n.atBackdrop[c] \in {m.atBackdrop[c], <<>>}
  BY <1>4, <1>10 DEF Since
<1>13. CASE n.backdrop = m.backdrop /\ n.onPage = m.onPage
  <2>1. m.backdrop # None => m.backdrop \in Backdrops
    BY <1>1 DEF Modals
  <2>2. ~Removes(<<>>)
    BY DEF Removes
  <2> QED
    BY <1>1, <1>11, <1>12, <1>13, <2>1, <2>2 DEF ModalInv, BackdropsInv
<1>14. CASE /\ n.backdrop = None /\ n.onPage = m.onPage \ {m.backdrop}
            /\ m.backdrop # None => n.atBackdrop[m.backdrop] = <<>> /\ Removes(callbacks)
  <2>1. m.isShown => n.onPage # {}
    <3>1. m.isShown /\ m.backdrop # None => m.backdrop # b
      BY <1>14 DEF ModalInv, callbacks
    <3>2. m.backdrop = None => b # m.backdrop
      BY NoneIsNoBackdrop
    <3> QED
      BY <1>5, <1>14, <3>1, <3>2
  <2>2. \A c \in Backdrops : n.atBackdrop[c] # <<>> => c \in n.onPage
    BY <1>1, <1>12, <1>14, NoneIsNoBackdrop DEF BackdropsInv
  <2> QED
    BY <1>11, <1>14, <2>1, <2>2 DEF ModalInv, BackdropsInv
<1> QED
  BY <1>4, <1>10, <1>11, <1>13, <1>14 DEF Since

\* Keys and clicks on the page do no more to the dialog than to give it the focus or take it.
SameButFocus(m, n) == \E inside \in BOOLEAN : n = [m EXCEPT !.inDialog = inside]

LEMMA OnlyTheFocus ==
    ASSUME modal \in Modals, NEW key, NEW place, Keydown(key) \/ Tab(place) \/ Click
    PROVE  SameButFocus(modal, modal') /\ modal'.isShown = modal.isShown
<1> SUFFICES SameButFocus(modal, modal')
  BY DEF SameButFocus, Modals
<1>1. modal = [modal EXCEPT !.inDialog = modal.inDialog] /\ modal.inDialog \in BOOLEAN
      /\ modal.visible \in BOOLEAN
  BY DEF Modals
<1>2. ASSUME NEW at, FocusOn(at) PROVE SameButFocus(modal, modal')
  BY <1>2 DEF FocusOn, SameButFocus
<1>3. CASE modal' = modal
  BY <1>1, <1>3 DEF SameButFocus
<1>4. CASE Keydown(key)
  BY <1>2, <1>3, <1>4 DEF Keydown
<1>5. CASE Tab(place)
  BY <1>2, <1>5 DEF Tab
<1>6. CASE Click
  BY <1>1, <1>3, <1>6 DEF Click, SameButFocus
<1> QED
  BY <1>4, <1>5, <1>6

\* No step of the page leaves a dialog that is shown without a backdrop, and only the
\* buttons show it and hide it.
LEMMA ModalStays ==
    ASSUME ModalInv(modal), [Next]_vars
    PROVE  /\ ModalInv(modal')
           /\ modal'.isShown = modal.isShown \/ ToggleDialog \/ Dismiss
<1>1. modal \in Modals /\ BackdropsInv(modal)
  BY DEF ModalInv, BackdropsInv
<1>2. Cardinality(modal.onPage) \in Nat
  <2>1. IsFiniteSet(Backdrops) /\ modal.onPage \subseteq Backdrops
    BY <1>1, FS_Interval, WidgetsAssumption DEF Backdrops, Modals
  <2> QED
    BY <2>1, FS_Subset, FS_CardinalityType
<1>3. ASSUME NEW b \in Backdrops, BackdropEnds(b)
      PROVE  ModalInv(modal') /\ modal'.isShown = modal.isShown
  BY <1>3, BackdropEndsKeeps DEF BackdropEnds
<1>4. CASE DialogEnds
  <2>1. modal' = [modal EXCEPT !.atDialog = 0, !.told = "shown", !.inDialog = modal.visible]
    BY <1>4 DEF DialogEnds
  <2>2. modal' \in Modals
    BY <1>1, <2>1 DEF Modals
  <2>3. /\ modal'.isShown = modal.isShown /\ modal'.backdrop = modal.backdrop
        /\ modal'.onPage = modal.onPage /\ modal'.atBackdrop = modal.atBackdrop
    BY <1>1, <2>1 DEF Modals
  <2> QED
    BY <2>2, <2>3 DEF ModalInv, BackdropsInv
<1>5. CASE ElementEnds
  <2> DEFINE m == [modal EXCEPT !.atElement = 0]
             N == modal.atElement
  <2>1. /\ m \in Modals /\ N \in Nat
        /\ m.isShown = modal.isShown /\ m.backdrop = modal.backdrop
        /\ m.onPage = modal.onPage /\ m.atBackdrop = modal.atBackdrop
    BY <1>1 DEF Modals
  <2>2. Cardinality(modal.onPage) + N <= MaxBackdrops /\ modal' = HideModals(m, N)
    BY <1>5 DEF ElementEnds
  <2> HIDE DEF m, N
  <2>3. ModalInv(m)
    BY <2>1 DEF ModalInv, BackdropsInv
  <2> QED
    BY <2>1, <2>2, <2>3, HideModalsKeeps
<1>6. CASE ToggleDialog /\ ~modal.isShown
  <2> DEFINE m == [SetScrollbar(modal) EXCEPT !.isShown = TRUE, !.told = "show",
                                              !.modalOpen = TRUE, !.inDialog = FALSE]
  <2>1. /\ Cardinality(modal.onPage) + modal.atDialog < MaxBackdrops
        /\ modal' = NewBackdrop(m, "slideIn")
    BY <1>6 DEF ToggleDialog, Show
  <2> DEFINE s == SetScrollbar(modal)
             width == IF modal.modalOpen THEN 0 ELSE ScrollWidth
             pad == modal.pad + width
  <2>2. s = [modal EXCEPT !.originalPad = modal.pad, !.pad = pad] /\ pad \in Int
    <3>1. width \in Int /\ modal.pad \in Int
      BY <1>1, WidgetsAssumption DEF Modals
    <3>2. pad \in Int
      BY <3>1
    <3> QED
      BY <1>1, <3>2 DEF SetScrollbar, Modals
  <2> HIDE DEF s, pad
  <2>3. /\ s \in Modals
        /\ s.isShown = modal.isShown /\ s.backdrop = modal.backdrop
        /\ s.onPage = modal.onPage /\ s.atBackdrop = modal.atBackdrop
    BY <1>1, <2>2, ZenonT(60) DEF Modals
  <2>4. /\ m \in Modals
        /\ m.backdrop = modal.backdrop
        /\ m.onPage = modal.onPage /\ m.atBackdrop = modal.atBackdrop
    <3>1. m = [s EXCEPT !.isShown = TRUE, !.told = "show", !.modalOpen = TRUE,
                        !.inDialog = FALSE]
      BY DEF s
    <3> HIDE DEF m
    <3> QED
      BY <2>3, <3>1 DEF Modals
  <2> HIDE DEF m
  <2>5. BackdropsInv(m)
    BY <1>1, <2>4 DEF BackdropsInv
  <2>6. Cardinality(m.onPage) < MaxBackdrops
    <3>1. modal.atDialog \in Nat /\ MaxBackdrops \in Nat
      BY <1>1, WidgetsAssumption DEF Modals
    <3> QED
      BY <1>2, <2>1, <2>4, <3>1
  <2> QED
    BY <1>6, <2>1, <2>5, <2>6, NewBackdropKeeps
<1>7. ASSUME modal' = Hide(modal) \/ modal' = [Hide(modal) EXCEPT !.inDialog = TRUE]
      PROVE  ModalInv(modal')
  <2>1. \E inside \in BOOLEAN :
            modal' = [modal EXCEPT !.isShown = FALSE, !.told = "hide", !.keepsFocus = FALSE,
                                   !.atElement = @ + 1, !.inDialog = inside]
    <3>1. CASE modal' = Hide(modal)
      BY <1>1, <3>1 DEF Hide, Modals
    <3>2. CASE modal' = [Hide(modal) EXCEPT !.inDialog = TRUE]
      BY <3>2 DEF Hide
    <3> QED
      BY <1>7, <3>1, <3>2
  <2>2. modal' \in Modals
    <3>1. modal.atElement + 1 \in Nat
      BY <1>1 DEF Modals
    <3> QED
      BY <1>1, <2>1, <3>1, ZenonT(60) DEF Modals
  <2>3. /\ modal'.isShown = FALSE /\ modal'.backdrop = modal.backdrop
        /\ modal'.onPage = modal.onPage /\ modal'.atBackdrop = modal.atBackdrop
    BY <1>1, <2>1 DEF Modals
  <2> QED
    BY <2>2, <2>3 DEF ModalInv, BackdropsInv
<1>8. CASE ToggleDialog /\ modal.isShown
  BY <1>7, <1>8 DEF ToggleDialog
<1>9. CASE Dismiss
  BY <1>7, <1>9 DEF Dismiss
<1>10. CASE modal' = modal
  BY <1>10
<1>11. CASE SameButFocus(modal, modal')
  <2>1. modal' \in Modals
    BY <1>1, <1>11 DEF Modals, SameButFocus
  <2>2. /\ modal'.isShown = modal.isShown /\ modal'.backdrop = modal.backdrop
        /\ modal'.onPage = modal.onPage /\ modal'.atBackdrop = modal.atBackdrop
    BY <1>1, <1>11 DEF Modals, SameButFocus
  <2> QED
    BY <2>1, <2>2 DEF ModalInv, BackdropsInv
<1>12. ASSUME NEW key, NEW place, Keydown(key) \/ Tab(place) \/ Click
       PROVE  ModalInv(modal') /\ modal'.isShown = modal.isShown
  BY <1>1, <1>11, <1>12, OnlyTheFocus
<1> QED
  BY <1>3, <1>4, <1>5, <1>6, <1>8, <1>9, <1>10, <1>12
     DEF Next, vars, NavEnds, ClickToggle, ToggleNav

-----------------------------------------------------------------------------
(***************************************************************************)
(* The navigation bar.                                                     *)
(***************************************************************************)
Bar(in, expanded, transitioning, told, waiting) ==
    [in |-> in, expanded |-> expanded, transitioning |-> transitioning, told |-> told,
     waiting |-> waiting]

Collapsed  == Bar(FALSE, FALSE, FALSE, "hidden", <<>>)
Expanding  == Bar(FALSE, TRUE, TRUE, "show", <<"shown">>)
Expanded   == Bar(TRUE, TRUE, FALSE, "shown", <<>>)
Collapsing == Bar(FALSE, FALSE, TRUE, "hide", <<"hidden">>)

\* A press during a transition is ignored, so that one thing at most waits for its end.
NavInv == nav \in {Collapsed, Expanding, Expanded, Collapsing}

\* The bar goes round in four steps.
LEMMA NavGoesRound ==
    ASSUME NavInv, [Next]_vars
    PROVE  \/ nav' = nav
           \/ nav = Collapsed /\ nav' = Expanding
           \/ nav = Expanding /\ nav' = Expanded
           \/ nav = Expanded /\ nav' = Collapsing
           \/ nav = Collapsing /\ nav' = Collapsed
<1>1. Append(<<>>, "shown") = <<"shown">> /\ Append(<<>>, "hidden") = <<"hidden">>
  OBVIOUS
<1>2. CASE ToggleNav
  <2>1. nav' = IF nav.in THEN HideNav(nav) ELSE ShowNav(nav)
    BY <1>2 DEF ToggleNav
  <2>2. CASE nav = Collapsed
    BY <1>1, <2>1, <2>2 DEF ShowNav, Collapsed, Expanding, Bar
  <2>3. CASE nav = Expanded
    BY <1>1, <2>1, <2>3 DEF HideNav, Expanded, Collapsing, Bar
  <2>4. CASE nav = Expanding
    BY <2>1, <2>4 DEF ShowNav, Expanding, Bar
  <2>5. CASE nav = Collapsing
    BY <2>1, <2>5 DEF ShowNav, Collapsing, Bar
  <2> QED
    BY <2>2, <2>3, <2>4, <2>5 DEF NavInv
<1>3. CASE NavEnds
  <2>1. ASSUME NEW event, nav.waiting = <<event>>
        PROVE  nav' = [nav EXCEPT !.waiting = <<>>, !.in = event = "shown",
                                  !.transitioning = FALSE, !.told = event]
    <3> DEFINE n == [nav EXCEPT !.waiting = <<>>]
    <3>1. nav' = FoldLeft(Complete, n, nav.waiting)
      BY <1>3 DEF NavEnds
    <3> HIDE DEF n
    <3>2. DOMAIN nav.waiting = 1 .. 1 /\ nav.waiting[1] = event
      BY <2>1
    <3>3. PICK acc : Folding(acc, "nav", n, nav.waiting, 1) /\ nav' = acc[1]
      BY <3>1, <3>2, NavFold
    <3>4. nav' = Complete(n, event)
      BY <3>2, <3>3, OneStep DEF Step
    <3> QED
      BY <3>4 DEF Complete, n
  <2>2. CASE nav = Expanding
    <3>1. nav' = [nav EXCEPT !.waiting = <<>>, !.in = TRUE, !.transitioning = FALSE,
                             !.told = "shown"]
      BY <2>1, <2>2 DEF Expanding, Bar
    <3>2. nav' = Expanded
      BY <2>2, <3>1 DEF Expanding, Expanded, Bar
    <3> QED
      BY <2>2, <3>2
  <2>3. CASE nav = Collapsing
    <3>1. nav' = [nav EXCEPT !.waiting = <<>>, !.in = FALSE, !.transitioning = FALSE,
                             !.told = "hidden"]
      BY <2>1, <2>3 DEF Collapsing, Bar
    <3>2. nav' = Collapsed
      BY <2>3, <3>1 DEF Collapsing, Collapsed, Bar
    <3> QED
      BY <2>3, <3>2
  <2>4. nav \notin {Collapsed, Expanded}
    BY <1>3 DEF NavEnds, Collapsed, Expanded, Bar
  <2> QED
    BY <2>2, <2>3, <2>4 DEF NavInv
<1>4. CASE nav' = nav
  BY <1>4
<1> QED
  BY <1>2, <1>3, <1>4
     DEF Next, vars, BackdropEnds, DialogEnds, ElementEnds, ClickToggle, Keydown, Tab, Click,
         ToggleDialog, Dismiss

-----------------------------------------------------------------------------
(***************************************************************************)
(* The dialog of a user who waits for the end of each transition.          *)
(***************************************************************************)
\* What waits for the ends of transitions.
Pending(m, b, callbacks, atDialog, atElement) ==
    /\ \A c \in Backdrops : m.atBackdrop[c] = IF c = b THEN callbacks ELSE <<>>
    /\ m.atDialog = atDialog /\ m.atElement = atElement

\* The dialog with its backdrop b on the page, on its way in and out.
Stage(m, b, said, shown, visible, inside) ==
    /\ m.told = said /\ m.isShown = shown /\ m.visible = visible /\ m.inDialog = inside
    /\ m.keepsFocus = (shown /\ visible)
    /\ m.backdrop = b /\ m.onPage = {b}
    /\ m.modalOpen /\ m.pad = ScrollWidth /\ m.originalPad = 0

AtRest(m) ==
    /\ m.told = "hidden" /\ ~m.isShown /\ ~m.visible /\ ~m.inDialog
    /\ ~m.keepsFocus /\ m.backdrop = None /\ m.onPage = {}
    /\ ~m.modalOpen /\ m.pad = 0 /\ m.originalPad = 0
    /\ Pending(m, None, <<>>, 0, 0)

Darkening(m, b) ==
    Stage(m, b, "show", TRUE, FALSE, FALSE) /\ Pending(m, b, <<"slideIn">>, 0, 0)
SlidingIn(m, b) ==
    Stage(m, b, "show", TRUE, TRUE, FALSE) /\ Pending(m, b, <<>>, 1, 0)
InPlace(m, b) ==
    Stage(m, b, "shown", TRUE, TRUE, TRUE) /\ Pending(m, b, <<>>, 0, 0)
SlidingOut(m, b) ==
    Stage(m, b, "hide", FALSE, TRUE, TRUE) /\ Pending(m, b, <<>>, 0, 1)
Clearing(m, b) ==
    Stage(m, b, "hide", FALSE, FALSE, FALSE) /\ Pending(m, b, <<"remove">>, 0, 0)

\* One transition at a time, with one backdrop.
WaitsInv(m) ==
    \/ AtRest(m)
    \/ \E b \in Backdrops : \/ Darkening(m, b) \/ SlidingIn(m, b) \/ InPlace(m, b)
                            \/ SlidingOut(m, b) \/ Clearing(m, b)

\* From nothing, the dialog's backdrop comes.
LEMMA RestEnds ==
    ASSUME NEW m \in Modals, AtRest(m), ModalInv(Show(m))
    PROVE  \E b \in Backdrops : Darkening(Show(m), b)
<1> DEFINE b == CHOOSE c \in Backdrops \ m.onPage : TRUE
           s == SetScrollbar(m)
           h == [s EXCEPT !.isShown = TRUE, !.told = "show", !.modalOpen = TRUE,
                          !.inDialog = FALSE]
           n == Show(m)
<1>1. b \in Backdrops
  <2>1. 1 \in Backdrops \ m.onPage
    BY WidgetsAssumption DEF AtRest, Backdrops
  <2> QED
    BY <2>1
<1>2. s = [m EXCEPT !.originalPad = 0, !.pad = ScrollWidth]
  <2>1. 0 + ScrollWidth = ScrollWidth
    BY WidgetsAssumption
  <2> QED
    BY <2>1 DEF SetScrollbar, AtRest
<1> HIDE DEF s
<1>3. s \in Modals
  <2>1. ScrollWidth \in Int /\ 0 \in Int
    BY WidgetsAssumption
  <2> QED
    BY <1>2, <2>1, ZenonT(60) DEF Modals
<1>4. /\ ~s.visible /\ ~s.keepsFocus /\ s.onPage = {} /\ s.pad = ScrollWidth /\ s.originalPad = 0
      /\ s.atDialog = 0 /\ s.atElement = 0 /\ s.atBackdrop = m.atBackdrop
  BY <1>2 DEF AtRest, Pending, Modals
<1> HIDE DEF h
<1>5. h \in Modals
  BY <1>3 DEF Modals, h
<1>6. /\ ~h.visible /\ ~h.keepsFocus /\ h.onPage = {} /\ h.pad = ScrollWidth /\ h.originalPad = 0
      /\ h.atDialog = 0 /\ h.atElement = 0 /\ h.atBackdrop = m.atBackdrop
      /\ h.isShown /\ h.told = "show" /\ h.modalOpen /\ ~h.inDialog
  BY <1>3, <1>4 DEF Modals, h
<1>7. n = [h EXCEPT !.backdrop = b, !.onPage = @ \cup {b}, !.atBackdrop[b] = <<"slideIn">>]
  <2>1. h.onPage = m.onPage
    BY <1>6 DEF AtRest
  <2> QED
    BY <2>1 DEF Show, NewBackdrop, h, s
<1> HIDE DEF b, n
<1>8. n \in Modals
  BY DEF n, ModalInv, BackdropsInv
<1>9. /\ ~n.visible /\ ~n.keepsFocus /\ n.onPage = {b} /\ n.pad = ScrollWidth /\ n.originalPad = 0
      /\ n.atDialog = 0 /\ n.atElement = 0 /\ n.backdrop = b
      /\ n.isShown /\ n.told = "show" /\ n.modalOpen /\ ~n.inDialog
  BY <1>5, <1>6, <1>7 DEF Modals
<1>10. \A c \in Backdrops : n.atBackdrop[c] = IF c = b THEN <<"slideIn">> ELSE <<>>
  BY <1>1, <1>5, <1>6, <1>7, NoneIsNoBackdrop DEF Modals, AtRest, Pending
<1>11. Darkening(n, b)
  BY <1>8, <1>9, <1>10 DEF Darkening, Stage, Pending, Modals
<1> QED
  BY <1>1, <1>11 DEF n

\* What follows when one callback waits on the backdrop.
LEMMA OneCallback ==
    ASSUME NEW n, NEW callbacks, DOMAIN callbacks = 1 .. 1
    PROVE  FoldLeft(Call, n, callbacks) = Call(n, callbacks[1])
<1> DEFINE N == 1
<1>1. N \in Nat /\ DOMAIN callbacks = 1 .. N
  OBVIOUS
<1> HIDE DEF N
<1>2. PICK acc : Folding(acc, "callbacks", n, callbacks, N)
                 /\ FoldLeft(Call, n, callbacks) = acc[N]
  BY <1>1, CallbacksFold
<1>3. acc[1] = Step("callbacks", n, callbacks[1])
  BY <1>2, OneStep DEF N
<1> QED
  BY <1>1, <1>2, <1>3 DEF Step, N

\* When the backdrop is dark, the dialog slides in.
LEMMA DarkeningEnds ==
    ASSUME NEW m \in Modals, NEW b \in Backdrops, Darkening(m, b),
           NEW n, n = FoldLeft(Call, [m EXCEPT !.atBackdrop[b] = <<>>], m.atBackdrop[b])
    PROVE  SlidingIn(n, b)
<1> DEFINE h == [m EXCEPT !.atBackdrop[b] = <<>>]
<1>1. h \in Modals
  <2>1. <<>> \in Seq(Callbacks)
    OBVIOUS
  <2> QED
    BY <2>1 DEF Modals
<1>2. /\ Stage(h, b, "show", TRUE, FALSE, FALSE) /\ h.atDialog = 0 /\ h.atElement = 0
      /\ \A c \in Backdrops : h.atBackdrop[c] = <<>>
  BY DEF Modals, Darkening, Stage, Pending
<1>3. DOMAIN m.atBackdrop[b] = 1 .. 1 /\ m.atBackdrop[b][1] = "slideIn"
  BY DEF Darkening, Pending
<1> HIDE DEF h
<1>4. n = Call(h, "slideIn")
  BY <1>3, OneCallback DEF h
<1>5. n = [h EXCEPT !.visible = TRUE, !.keepsFocus = TRUE, !.atDialog = 1]
  <2>1. h.atDialog + 1 = 1
    BY <1>2
  <2> QED
    BY <1>4, <2>1 DEF Call, SlideIn
<1>6. Stage(n, b, "show", TRUE, TRUE, FALSE)
  BY <1>1, <1>2, <1>5 DEF Modals, Stage
<1>7. n.atDialog = 1 /\ n.atElement = 0 /\ n.atBackdrop = h.atBackdrop
  BY <1>1, <1>2, <1>5 DEF Modals
<1>8. Pending(n, b, <<>>, 1, 0)
  BY <1>2, <1>7 DEF Pending
<1> QED
  BY <1>6, <1>8 DEF SlidingIn

\* When the backdrop is clear again, it goes and the page is what it was.
LEMMA ClearingEnds ==
    ASSUME NEW m \in Modals, NEW b \in Backdrops, Clearing(m, b),
           NEW n, n = FoldLeft(Call, [m EXCEPT !.atBackdrop[b] = <<>>], m.atBackdrop[b])
    PROVE  AtRest(n)
<1> DEFINE h == [m EXCEPT !.atBackdrop[b] = <<>>]
           r == RemoveBackdrop(h)
<1>1. <<>> \in Seq(Callbacks)
  OBVIOUS
<1>2. h \in Modals
  BY <1>1 DEF Modals
<1>3. /\ Stage(h, b, "hide", FALSE, FALSE, FALSE) /\ h.atDialog = 0 /\ h.atElement = 0
      /\ \A c \in Backdrops : h.atBackdrop[c] = <<>>
  BY DEF Modals, Clearing, Stage, Pending
<1>4. DOMAIN m.atBackdrop[b] = 1 .. 1 /\ m.atBackdrop[b][1] = "remove"
  BY DEF Clearing, Pending
<1> HIDE DEF h
<1>5. n = Call(h, "remove")
  BY <1>4, OneCallback DEF h
<1>6. r = [h EXCEPT !.onPage = {}, !.atBackdrop[b] = <<>>, !.backdrop = None]
  <2>1. h.backdrop = b /\ b # None /\ h.onPage \ {b} = {}
    BY <1>3, NoneIsNoBackdrop DEF Stage
  <2> QED
    BY <2>1 DEF RemoveBackdrop
<1>7. n = [r EXCEPT !.modalOpen = FALSE, !.pad = r.originalPad, !.told = "hidden"]
  BY <1>5 DEF Call, Hidden
<1> HIDE DEF r
<1>8. DOMAIN r = DOMAIN h /\ h = [f \in DOMAIN h |-> h[f]]
  BY <1>2, <1>6 DEF Modals
<1>9. /\ r.onPage = {} /\ r.backdrop = None /\ \A c \in Backdrops : r.atBackdrop[c] = <<>>
      /\ ~r.isShown /\ ~r.visible /\ ~r.inDialog /\ ~r.keepsFocus /\ r.originalPad = 0
      /\ r.atDialog = 0 /\ r.atElement = 0
  BY <1>2, <1>3, <1>6 DEF Modals, Stage
<1>10. DOMAIN r = {"isShown", "told", "visible", "inDialog", "keepsFocus", "backdrop", "onPage",
                   "atBackdrop", "atDialog", "atElement", "modalOpen", "pad", "originalPad"}
  BY <1>2, <1>8 DEF Modals
<1>11. /\ n.onPage = {} /\ n.backdrop = None /\ \A c \in Backdrops : n.atBackdrop[c] = <<>>
       /\ ~n.isShown /\ ~n.visible /\ ~n.inDialog /\ ~n.keepsFocus /\ n.originalPad = 0
       /\ n.atDialog = 0 /\ n.atElement = 0
       /\ ~n.modalOpen /\ n.pad = 0 /\ n.told = "hidden"
  BY <1>7, <1>9, <1>10
<1> QED
  BY <1>11 DEF AtRest, Pending

\* When the dialog has slid out, its backdrop clears.
LEMMA SlidingOutEnds ==
    ASSUME NEW m \in Modals, NEW b \in Backdrops, SlidingOut(m, b),
           NEW n, n = HideModals([m EXCEPT !.atElement = 0], m.atElement)
    PROVE  Clearing(n, b)
<1> DEFINE o == [m EXCEPT !.atElement = 0]
           h == [o EXCEPT !.visible = FALSE, !.inDialog = FALSE]
<1>1. o \in Modals
  BY DEF Modals
<1>2. /\ Stage(o, b, "hide", FALSE, TRUE, TRUE) /\ o.atDialog = 0 /\ o.atElement = 0
      /\ \A c \in Backdrops : o.atBackdrop[c] = <<>>
  BY DEF Modals, SlidingOut, Stage, Pending
<1>3. n = HideModals(o, 1)
  BY DEF SlidingOut, Pending
<1> HIDE DEF o
<1>4. PICK acc : Folding(acc, "timers", o, [i \in 1 .. 1 |-> i], 1)
                 /\ HideModals(o, 1) = acc[1]
  BY TimersFold
<1>5. n = HideModal(o)
  BY <1>3, <1>4, OneStep DEF Step
<1>6. h \in Modals
  BY <1>1 DEF Modals
<1>7. /\ Stage(h, b, "hide", FALSE, FALSE, FALSE) /\ h.atDialog = 0 /\ h.atElement = 0
      /\ \A c \in Backdrops : h.atBackdrop[c] = <<>>
  BY <1>1, <1>2 DEF Modals, Stage
<1>8. n = IF h.isShown THEN NewBackdrop(h, "hidden")
          ELSE IF h.backdrop # None
               THEN [h EXCEPT !.atBackdrop[h.backdrop] = Append(@, "remove")]
               ELSE Hidden(h)
  BY <1>5 DEF HideModal
<1> HIDE DEF h
<1>9. n = [h EXCEPT !.atBackdrop[b] = <<"remove">>]
  <2>1. ~h.isShown /\ h.backdrop = b /\ b # None
    BY <1>7, NoneIsNoBackdrop DEF Stage
  <2>2. h.atBackdrop[b] = <<>> /\ Append(<<>>, "remove") = <<"remove">>
    BY <1>7
  <2> QED
    BY <1>8, <2>1, <2>2
<1>10. Stage(n, b, "hide", FALSE, FALSE, FALSE)
  BY <1>6, <1>7, <1>9 DEF Modals, Stage
<1>11. Pending(n, b, <<"remove">>, 0, 0)
  <2>1. n.atDialog = 0 /\ n.atElement = 0
    BY <1>6, <1>7, <1>9 DEF Modals
  <2>2. n.atBackdrop = [h.atBackdrop EXCEPT ![b] = <<"remove">>]
    BY <1>6, <1>9 DEF Modals
  <2>3. \A c \in Backdrops : n.atBackdrop[c] = IF c = b THEN <<"remove">> ELSE <<>>
    BY <1>6, <1>7, <2>2 DEF Modals
  <2> QED
    BY <2>1, <2>3 DEF Pending
<1> QED
  BY <1>10, <1>11 DEF Clearing

\* What waits for an end tells the stage.
LEMMA WhatWaits ==
    ASSUME NEW m, WaitsInv(m)
    PROVE  /\ m.atDialog # 0 => \E b \in Backdrops : SlidingIn(m, b)
           /\ m.atElement # 0 => \E b \in Backdrops : SlidingOut(m, b)
           /\ Settled(m) => AtRest(m) \/ \E b \in Backdrops : InPlace(m, b)
<1>1. AtRest(m) => m.atDialog = 0 /\ m.atElement = 0
  BY DEF AtRest, Pending
<1>2. ASSUME NEW b \in Backdrops, Darkening(m, b) \/ Clearing(m, b)
      PROVE  m.atDialog = 0 /\ m.atElement = 0 /\ ~Settled(m)
  <2>1. m.atBackdrop[b] # <<>>
    <3>1. m.atBackdrop[b] \in {<<"slideIn">>, <<"remove">>}
      BY <1>2 DEF Darkening, Clearing, Pending
    <3>2. <<"slideIn">> # <<>> /\ <<"remove">> # <<>>
      OBVIOUS
    <3> QED
      BY <3>1, <3>2
  <2> QED
    BY <1>2, <2>1 DEF Darkening, Clearing, Pending, Settled
<1>3. ASSUME NEW b \in Backdrops, InPlace(m, b)
      PROVE  m.atDialog = 0 /\ m.atElement = 0
  BY <1>3 DEF InPlace, Pending
<1>4. ASSUME NEW b \in Backdrops, SlidingIn(m, b)
      PROVE  m.atDialog = 1 /\ m.atElement = 0 /\ ~Settled(m)
  BY <1>4 DEF SlidingIn, Pending, Settled
<1>5. ASSUME NEW b \in Backdrops, SlidingOut(m, b)
      PROVE  m.atDialog = 0 /\ m.atElement = 1 /\ ~Settled(m)
  BY <1>5 DEF SlidingOut, Pending, Settled
<1> QED
  BY <1>1, <1>2, <1>3, <1>4, <1>5 DEF WaitsInv

\* The dialog goes round in six steps.
LEMMA DialogGoesRound ==
    ASSUME ModalInv(modal), waits, WaitsInv(modal), [Next]_vars
    PROVE  \/ modal' = modal
           \/ \E b \in Backdrops : \/ AtRest(modal) /\ Darkening(modal', b)
                                   \/ Darkening(modal, b) /\ SlidingIn(modal', b)
                                   \/ SlidingIn(modal, b) /\ InPlace(modal', b)
                                   \/ InPlace(modal, b) /\ SlidingOut(modal', b)
                                   \/ SlidingOut(modal, b) /\ Clearing(modal', b)
                                   \/ Clearing(modal, b) /\ AtRest(modal')
<1>1. modal \in Modals
  BY DEF ModalInv, BackdropsInv
<1>2. ASSUME NEW b \in Backdrops, BackdropEnds(b)
      PROVE  \/ Darkening(modal, b) /\ SlidingIn(modal', b)
             \/ Clearing(modal, b) /\ AtRest(modal')
  <2>1. /\ modal.atBackdrop[b] # <<>>
        /\ modal' = FoldLeft(Call, [modal EXCEPT !.atBackdrop[b] = <<>>], modal.atBackdrop[b])
    BY <1>2 DEF BackdropEnds
  <2>2. Darkening(modal, b) \/ Clearing(modal, b)
    BY <2>1, NoneIsNoBackdrop
       DEF WaitsInv, AtRest, Darkening, SlidingIn, InPlace, SlidingOut, Clearing, Pending
  <2> QED
    BY <1>1, <2>1, <2>2, DarkeningEnds, ClearingEnds
<1>3. CASE DialogEnds
  <2>1. modal.atDialog # 0
        /\ modal' = [modal EXCEPT !.atDialog = 0, !.told = "shown", !.inDialog = modal.visible]
    BY <1>3 DEF DialogEnds
  <2>2. PICK b \in Backdrops : SlidingIn(modal, b)
    BY <2>1, WhatWaits
  <2>3. Stage(modal', b, "shown", TRUE, TRUE, TRUE)
    BY <1>1, <2>1, <2>2 DEF Modals, SlidingIn, Stage
  <2>4. Pending(modal', b, <<>>, 0, 0)
    BY <1>1, <2>1, <2>2 DEF Modals, SlidingIn, Pending
  <2> QED
    BY <2>2, <2>3, <2>4 DEF InPlace
<1>4. CASE ElementEnds
  <2>1. modal.atElement # 0
        /\ modal' = HideModals([modal EXCEPT !.atElement = 0], modal.atElement)
    BY <1>4 DEF ElementEnds
  <2>2. PICK b \in Backdrops : SlidingOut(modal, b)
    BY <2>1, WhatWaits
  <2> QED
    BY <1>1, <2>1, <2>2, SlidingOutEnds
<1>5. MayAct => AtRest(modal) \/ \E b \in Backdrops : InPlace(modal, b)
  BY WhatWaits DEF MayAct
<1>6. CASE ToggleDialog
  <2>1. AtRest(modal)
    BY <1>5, <1>6 DEF ToggleDialog, OnPage, InPlace, Stage
  <2>2. modal' = Show(modal)
    BY <1>6, <2>1 DEF ToggleDialog, AtRest
  <2>3. ModalInv(modal')
    BY ModalStays
  <2> QED
    BY <1>1, <2>1, <2>2, <2>3, RestEnds
<1>7. CASE Dismiss
  <2>1. PICK b \in Backdrops : InPlace(modal, b)
    BY <1>5, <1>7 DEF Dismiss, AtRest
  <2>2. modal' = [modal EXCEPT !.isShown = FALSE, !.told = "hide", !.keepsFocus = FALSE,
                               !.atElement = 1, !.inDialog = TRUE]
    <3>1. modal.atElement + 1 = 1
      BY <2>1 DEF InPlace, Pending
    <3> QED
      BY <1>7, <3>1 DEF Dismiss, Hide
  <2>3. Stage(modal', b, "hide", FALSE, TRUE, TRUE)
    BY <1>1, <2>1, <2>2 DEF Modals, InPlace, Stage
  <2>4. Pending(modal', b, <<>>, 0, 1)
    BY <1>1, <2>1, <2>2 DEF Modals, InPlace, Pending
  <2> QED
    BY <2>1, <2>3, <2>4 DEF SlidingOut
<1>8. CASE modal' = modal
  BY <1>8
<1>9. ASSUME MayAct
      PROVE  /\ modal.inDialog = modal.visible
             /\ modal.inDialog = (modal.keepsFocus /\ modal.visible)
  <2>1. modal.inDialog \in BOOLEAN /\ modal.visible \in BOOLEAN
    BY <1>1 DEF Modals
  <2> QED
    BY <1>5, <1>9, <2>1 DEF AtRest, InPlace, Stage
<1>10. [modal EXCEPT !.inDialog = modal.inDialog] = modal
  BY <1>1 DEF Modals
<1>11. ASSUME NEW place, MayAct, FocusOn(place) PROVE modal' = modal
  BY <1>9, <1>10, <1>11 DEF FocusOn
<1>12. ASSUME NEW key, Keydown(key) PROVE modal' = modal
  BY <1>11, <1>12 DEF Keydown, OnPage
<1>13. ASSUME NEW place, Tab(place) PROVE modal' = modal
  BY <1>11, <1>13 DEF Tab
<1>14. CASE Click
  BY <1>9, <1>10, <1>14 DEF Click
<1> QED
  BY <1>2, <1>3, <1>4, <1>6, <1>7, <1>8, <1>12, <1>13, <1>14
     DEF Next, vars, NavEnds, ClickToggle, ToggleNav

-----------------------------------------------------------------------------
(***************************************************************************)
(* The menus.                                                              *)
(***************************************************************************)
\* At most one menu is open, the focus is on an item of it if on any, and none is open while
\* the dialog is shown to a user who waits for it.
FocusInv ==
    /\ focus \in [menu : Menus \cup {None}, at : 0 .. Items]
    /\ open = {} \/ \E m \in Menus : open = {m}
    /\ focus.at > 0 => focus.menu \in open
    /\ waits /\ modal.isShown => open = {}

\* Within a menu the focus stays on its items.
LEMMA MovedStays ==
    ASSUME NEW at \in 0 .. Items, NEW key
    PROVE  Moved(at, key) \in 0 .. Items
  BY WidgetsAssumption DEF Moved

\* Who waits reaches the page only while no dialog is shown.
LEMMA PageIsFree ==
    ASSUME waits, WaitsInv(modal), OnPage
    PROVE  ~modal.isShown
<1>1. AtRest(modal) \/ \E b \in Backdrops : InPlace(modal, b)
  BY WhatWaits DEF OnPage, MayAct
<1> QED
  BY <1>1 DEF AtRest, InPlace, Stage, OnPage

LEMMA FocusStays ==
    ASSUME ModalInv(modal), FocusInv, waits => WaitsInv(modal), [Next]_vars
    PROVE  FocusInv'
<1>1. /\ Nowhere \in [menu : Menus \cup {None}, at : 0 .. Items]
      /\ Nowhere.at = 0 /\ Nowhere.menu = None /\ None \notin Menus
  BY WidgetsAssumption DEF Nowhere, None
<1>2. waits' = waits /\ (modal'.isShown = modal.isShown \/ ToggleDialog \/ Dismiss)
  <2>1. waits' = waits
    BY DEF Next, vars, BackdropEnds, DialogEnds, ElementEnds, NavEnds, ClickToggle, Keydown,
           Tab, Click, ToggleDialog, Dismiss, ToggleNav
  <2> QED
    BY <2>1, ModalStays
<1>3. ASSUME NEW m \in Menus, ClickToggle(m) PROVE FocusInv'
  <2>1. focus' = [menu |-> m, at |-> 0] /\ open' = IF m \in open THEN {} ELSE {m}
    BY <1>3 DEF ClickToggle, ToggleMenu
  <2>2. ~modal.isShown /\ modal' = modal
    BY <1>3 DEF ClickToggle, ModalInv
  <2>3. 0 \in 0 .. Items
    BY WidgetsAssumption
  <2> QED
    BY <2>1, <2>2, <2>3 DEF FocusInv
<1>4. CASE open' = {} /\ focus' = Nowhere
  BY <1>1, <1>4 DEF FocusInv
<1>5. ASSUME NEW key \in {"up", "down", "space", "escape"}, Keydown(key) PROVE FocusInv'
  <2> DEFINE m == focus.menu
  <2>1. m \in Menus /\ focus.at \in 0 .. Items /\ modal'.isShown = modal.isShown
    <3>1. m \in Menus /\ focus.at \in 0 .. Items
      BY <1>1, <1>5 DEF Keydown, FocusInv
    <3> QED
      BY <1>5, <3>1, OnlyTheFocus DEF ModalInv, BackdropsInv
  <2>2. waits => ~modal.isShown
    BY <1>5, PageIsFree DEF Keydown
  <2>3. CASE open' = {m} /\ m \notin open /\ focus' \in {focus, Nowhere}
    BY <1>1, <1>2, <2>1, <2>2, <2>3 DEF FocusInv
  <2>4. CASE open' = {} /\ focus' \in {[focus EXCEPT !.at = 0], Nowhere}
    <3>1. focus' \in [menu : Menus \cup {None}, at : 0 .. Items] /\ focus'.at = 0
      BY <1>1, <2>1, <2>4, WidgetsAssumption DEF FocusInv
    <3> QED
      BY <1>2, <2>1, <2>4, <3>1 DEF FocusInv
  <2>5. CASE /\ m \in open /\ open' = open
             /\ focus' \in {[focus EXCEPT !.at = Moved(@, key)], Nowhere}
    <3>1. Moved(focus.at, key) \in 0 .. Items
      BY <2>1, MovedStays
    <3>2. /\ focus' \in [menu : Menus \cup {None}, at : 0 .. Items]
          /\ focus'.menu = m \/ focus'.at = 0
      BY <1>1, <2>1, <2>5, <3>1 DEF FocusInv
    <3> QED
      BY <1>2, <2>1, <2>5, <3>2 DEF FocusInv
  <2>6. CASE open' = open /\ focus' = focus
    BY <1>2, <2>1, <2>6 DEF FocusInv
  <2> QED
    BY <1>5, <2>3, <2>4, <2>5, <2>6
       DEF Keydown, ToggleMenu, ClearMenus, BackToToggle, FocusOn
<1>6. ASSUME NEW place \in Places, Tab(place) PROVE FocusInv'
  <2>1. place \in [menu : Menus \cup {None}, at : 0 .. Items]
    BY <1>1 DEF Places
  <2>2. focus' \in {place, Nowhere} /\ open' = open /\ (place.at > 0 => place.menu \in open)
    BY <1>6 DEF Tab, FocusOn
  <2>3. modal'.isShown = modal.isShown
    BY <1>6, OnlyTheFocus DEF ModalInv, BackdropsInv
  <2> QED
    BY <1>1, <1>2, <2>1, <2>2, <2>3 DEF FocusInv
<1>7. CASE Dismiss
  <2>1. open' \in {open, {}} /\ focus' = Nowhere
    BY <1>7 DEF Dismiss, ClearMenus
  <2>2. modal.isShown
    BY <1>7 DEF Dismiss
  <2> QED
    BY <1>1, <1>2, <2>1, <2>2 DEF FocusInv
<1>8. CASE Click \/ ToggleDialog \/ ToggleNav
  BY <1>4, <1>8 DEF Click, ToggleDialog, ToggleNav, ClearMenus
<1>9. CASE \/ \E b \in Backdrops : BackdropEnds(b)
           \/ DialogEnds \/ ElementEnds \/ NavEnds \/ UNCHANGED vars
  <2>1. open' = open /\ focus' \in {focus, Nowhere}
    BY <1>9 DEF BackdropEnds, DialogEnds, ElementEnds, NavEnds, vars
  <2>2. CASE modal'.isShown = modal.isShown
    BY <1>1, <1>2, <2>1, <2>2 DEF FocusInv
  <2> QED
    BY <1>2, <1>7, <1>8, <2>2
<1> QED
  BY <1>3, <1>5, <1>6, <1>7, <1>8, <1>9 DEF Next

-----------------------------------------------------------------------------
(***************************************************************************)
(* The page.                                                               *)
(***************************************************************************)
WidgetsInv ==
    /\ ModalInv(modal)
    /\ FocusInv
    /\ waits => WaitsInv(modal)
    /\ NavInv

LEMMA StartsRight == Init => WidgetsInv
<1> SUFFICES ASSUME Init PROVE WidgetsInv
  OBVIOUS
<1>1. modal = Dialog /\ nav = Collapsed /\ open = {} /\ focus = Nowhere
  BY DEF Init, Collapsed, Bar
<1>2. AtRest(modal)
  BY <1>1 DEF Dialog, AtRest, Pending
<1>3. modal \in Modals
  <2>1. <<>> \in Seq(Callbacks)
    OBVIOUS
  <2> QED
    BY <1>1, <2>1 DEF Dialog, Modals
<1>4. ModalInv(modal)
  BY <1>2, <1>3, NoneIsNoBackdrop DEF AtRest, Pending, ModalInv, BackdropsInv
<1>5. FocusInv
  BY <1>1, WidgetsAssumption DEF FocusInv, Nowhere
<1> QED
  BY <1>1, <1>2, <1>4, <1>5 DEF WidgetsInv, WaitsInv, NavInv

LEMMA WidgetsStay ==
    ASSUME WidgetsInv, [Next]_vars
    PROVE  WidgetsInv'
<1>1. ModalInv(modal') /\ FocusInv'
  BY ModalStays, FocusStays DEF WidgetsInv
<1>2. waits' = waits
  BY DEF Next, vars, BackdropEnds, DialogEnds, ElementEnds, NavEnds, ClickToggle, Keydown,
         Tab, Click, ToggleDialog, Dismiss, ToggleNav
<1>3. ASSUME waits PROVE WaitsInv(modal')
  <2>1. WaitsInv(modal)
    BY <1>3 DEF WidgetsInv
  <2> QED
    BY <1>3, <2>1, DialogGoesRound DEF WidgetsInv, WaitsInv
<1>4. NavInv'
  BY NavGoesRound DEF WidgetsInv, NavInv
<1> QED
  BY <1>1, <1>2, <1>3, <1>4 DEF WidgetsInv

LEMMA WidgetsHold == Spec => []WidgetsInv
<1>1. Spec => Init /\ [][Next]_vars
  BY PTL DEF Spec
<1> QED
  BY <1>1, StartsRight, WidgetsStay, PTL

\* One menu is open at most (clearMenus before each toggle, dropdown.js), the focus is on no
\* item of a menu that is closed, and none is open over a dialog that is shown to a user who
\* waits: the click that shows it closes them, she presses no key while it comes, and then it
\* keeps the focus (enforceFocus, modal.js) until it is hidden.
THEOREM MenusAndDialogKeepApart == Spec => []OneThingAtATime
<1>1. WidgetsInv => OneThingAtATime
  <2> SUFFICES ASSUME WidgetsInv PROVE OneThingAtATime
    OBVIOUS
  <2>1. Cardinality({}) = 0 /\ \A m \in Menus : Cardinality({m}) = 1
    BY FS_EmptySet, FS_Singleton
  <2> QED
    BY <2>1 DEF WidgetsInv, FocusInv, OneThingAtATime
<1> QED
  BY <1>1, WidgetsHold, PTL

\* Once the dialog of a user who waits is hidden, no backdrop is left, the page scrolls again
\* and has the padding it had (resetScrollbar and removeBackdrop, modal.js).
THEOREM ClosedDialogLeavesThePage == Spec => []PageIsLeftAsItWas
<1>1. WidgetsInv => PageIsLeftAsItWas
  BY DEF WidgetsInv, WaitsInv, PageIsLeftAsItWas, AtRest, Darkening, SlidingIn, InPlace,
         SlidingOut, Clearing, Stage
<1> QED
  BY <1>1, WidgetsHold, PTL

\* The events of that dialog come in their order, each once, with the dialog there when it is
\* said to be shown and gone with its backdrop when it is said to be hidden.
THEOREM DialogTellsInOrder ==
    Spec => [][waits => [DialogPromise!Next]_(DialogPromise!vars)]_vars
<1>1. ASSUME WidgetsInv, [Next]_vars, waits
      PROVE  [DialogPromise!Next]_(DialogPromise!vars)
  <2>1. ModalInv(modal) /\ WaitsInv(modal)
    BY <1>1 DEF WidgetsInv
  <2>2. CASE modal' = modal
    BY <2>2 DEF DialogPromise!vars
  <2>3. ASSUME NEW b \in Backdrops, AtRest(modal), Darkening(modal', b)
        PROVE  DialogPromise!Begin("hidden", "show")
    BY <2>3 DEF DialogPromise!Begin, AtRest, Darkening, Stage
  <2>4. ASSUME NEW b \in Backdrops, \/ Darkening(modal, b) /\ SlidingIn(modal', b)
                                    \/ SlidingOut(modal, b) /\ Clearing(modal', b)
        PROVE  DialogPromise!During
    BY <2>4 DEF DialogPromise!During, Darkening, SlidingIn, SlidingOut, Clearing, Stage
  <2>5. ASSUME NEW b \in Backdrops, SlidingIn(modal, b), InPlace(modal', b)
        PROVE  DialogPromise!Shown
    BY <2>5 DEF DialogPromise!Shown, SlidingIn, InPlace, Stage
  <2>6. ASSUME NEW b \in Backdrops, InPlace(modal, b), SlidingOut(modal', b)
        PROVE  DialogPromise!Begin("shown", "hide")
    BY <2>6 DEF DialogPromise!Begin, InPlace, SlidingOut, Stage
  <2>7. ASSUME NEW b \in Backdrops, Clearing(modal, b), AtRest(modal')
        PROVE  DialogPromise!Hidden
    BY <2>7 DEF DialogPromise!Hidden, Clearing, AtRest, Stage
  <2> QED
    BY <1>1, <2>1, <2>2, <2>3, <2>4, <2>5, <2>6, <2>7, DialogGoesRound DEF DialogPromise!Next
<1>2. Spec => [][Next]_vars
  BY PTL DEF Spec
<1> QED
  BY <1>1, <1>2, WidgetsHold, PTL

\* Those of the navigation bar do whatever the user does, a press during a transition being
\* ignored (collapse.js).
THEOREM NavTellsInOrder ==
    Spec => NavPromise!Init /\ [][NavPromise!Next]_(NavPromise!vars)
<1>1. Init => NavPromise!Init
  BY DEF Init, NavPromise!Init
<1>2. ASSUME WidgetsInv, [Next]_vars
      PROVE  [NavPromise!Next]_(NavPromise!vars)
  <2>1. CASE nav' = nav
    BY <2>1 DEF NavPromise!vars
  <2>2. CASE nav = Collapsed /\ nav' = Expanding
    <3>1. NavPromise!Begin("hidden", "show")
      BY <2>2 DEF NavPromise!Begin, Collapsed, Expanding, Bar
    <3> QED
      BY <3>1 DEF NavPromise!Next
  <2>3. CASE nav = Expanding /\ nav' = Expanded
    <3>1. NavPromise!Shown
      BY <2>3 DEF NavPromise!Shown, Expanding, Expanded, Bar
    <3> QED
      BY <3>1 DEF NavPromise!Next
  <2>4. CASE nav = Expanded /\ nav' = Collapsing
    <3>1. NavPromise!Begin("shown", "hide")
      BY <2>4 DEF NavPromise!Begin, Expanded, Collapsing, Bar
    <3> QED
      BY <3>1 DEF NavPromise!Next
  <2>5. CASE nav = Collapsing /\ nav' = Collapsed
    <3>1. NavPromise!Hidden
      BY <2>5 DEF NavPromise!Hidden, Collapsing, Collapsed, Bar
    <3> QED
      BY <3>1 DEF NavPromise!Next
  <2> QED
    BY <1>2, <2>1, <2>2, <2>3, <2>4, <2>5, NavGoesRound DEF WidgetsInv
<1>3. Spec => Init /\ [][Next]_vars
  BY PTL DEF Spec
<1> QED
  BY <1>1, <1>2, <1>3, WidgetsHold, PTL
===============================================================================
