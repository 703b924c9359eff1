------------------------- MODULE DateRangePickerProofs -------------------------
(***************************************************************************)
(* Proofs about DateRangePicker for any days, slots, months, offset of the *)
(* browser's zone, presets and typed ranges.                               *)
(***************************************************************************)
EXTENDS DateRangePicker, TLAPS

-----------------------------------------------------------------------------
(***************************************************************************)
(* Moments.                                                                *)
(***************************************************************************)
\* A clock reads a moment as an integer,
LEMMA WallIsInt == ASSUME NEW m \in Moments PROVE Wall(m) \in Int
  BY PickerAssumption DEF Wall, Moments

\* of which the slot is one the time boxes offer,
LEMMA SlotIsBox == ASSUME NEW m \in Moments PROVE SlotOf(m) \in 0 .. Slots - 1
<1>1. Wall(m) \in Int /\ Slots \in Nat \ {0}
  BY WallIsInt, PickerAssumption
<1> QED
  BY <1>1 DEF SlotOf

\* the day
LEMMA DayIsInt == ASSUME NEW m \in Moments PROVE DayOf(m) \in Int
<1>1. Wall(m) \in Int /\ Slots \in Nat \ {0}
  BY WallIsInt, PickerAssumption
<1> QED
  BY <1>1 DEF DayOf

\* and the month are integers.
LEMMA MonthIsInt == ASSUME NEW m \in Moments PROVE MonthOf(m) \in Int
<1>1. DayOf(m) \in Int /\ MonthDays \in Nat \ {0}
  BY DayIsInt, PickerAssumption
<1> QED
  BY <1>1 DEF MonthOf

\* A moment with another time of its day,
LEMMA AtSlotIsMoment ==
    ASSUME NEW m \in Moments, NEW s \in 0 .. Slots - 1
    PROVE  AtSlot(m, s) \in Moments
<1>1. SlotOf(m) \in Int
  BY SlotIsBox, PickerAssumption
<1> QED
  BY <1>1, PickerAssumption DEF AtSlot, Moments

\* a text read back
LEMMA ParseIsMoment == ASSUME NEW w \in Int PROVE Parse(w) \in Moments
  BY PickerAssumption DEF Parse, Local, Moments

\* and a day and time of the calendars are moments.
LEMMA CellIsMoment ==
    ASSUME NEW d \in Int, NEW s \in Int PROVE Cell(d, s) \in Moments
<1>1. d * Slots + s \in Int
  BY PickerAssumption
<1> QED
  BY <1>1, ParseIsMoment DEF Cell

\* Another time of a moment's day is on that day.
LEMMA AtSlotIsThatDay ==
    ASSUME NEW m \in Moments, NEW s \in 0 .. Slots - 1
    PROVE  DayOf(AtSlot(m, s)) = DayOf(m) /\ AtSlot(m, s).utc = m.utc
<1>1. Wall(m) \in Int /\ SlotOf(m) \in Int /\ DayOf(m) \in Int
  BY WallIsInt, DayIsInt, SlotIsBox, PickerAssumption
<1>2. AtSlot(m, s).utc = m.utc
  BY DEF AtSlot, Moments
<1>3. Wall(AtSlot(m, s)) = Wall(m) - SlotOf(m) + s
  BY <1>1, PickerAssumption DEF AtSlot, Wall, Moments
<1>4. \A n \in Nat \ {0}, w \in Int : w % n = w - n * (w \div n)
  <2> SUFFICES ASSUME NEW n \in Nat \ {0}, NEW w \in Int PROVE w % n = w - n * (w \div n)
    OBVIOUS
  <2> QED
    BY SMTT(30)
<1>5. Wall(AtSlot(m, s)) = Slots * DayOf(m) + s
  <2>1. SlotOf(m) = Wall(m) - Slots * DayOf(m)
    BY <1>1, <1>4, PickerAssumption DEF SlotOf, DayOf
  <2>2. Slots * DayOf(m) \in Int /\ Slots \in Nat
    BY <1>1, PickerAssumption
  <2> QED
    BY <1>1, <1>3, <2>1, <2>2
<1>6. \A n \in Nat \ {0}, q \in Int : \A t \in 0 .. n - 1 : (n * q + t) \div n = q
  <2> SUFFICES ASSUME NEW n \in Nat \ {0}, NEW q \in Int, NEW t \in 0 .. n - 1
               PROVE  (n * q + t) \div n = q
    OBVIOUS
  <2> QED
    BY SMTT(30)
<1>7. (Slots * DayOf(m) + s) \div Slots = DayOf(m)
  BY <1>1, <1>6, PickerAssumption
<1>8. DayOf(AtSlot(m, s)) = (Slots * DayOf(m) + s) \div Slots
  BY <1>5 DEF DayOf
<1> QED
  BY <1>2, <1>7, <1>8

\* A moment is one of a day's as the calendars of the browser's clock show it.
OnDay(m, d) == Cell(d, 0).at <= m.at /\ m.at < Cell(d + 1, 0).at

\* The times that the cell of a day is read with are that day's,
LEMMA CellIsOnDay ==
    ASSUME NEW d \in Int, NEW s \in 0 .. Slots - 1 PROVE OnDay(Cell(d, s), d)
<1>1. (d + 1) * Slots = d * Slots + Slots /\ d * Slots \in Int /\ Slots \in Nat /\ Offset \in Int
  BY PickerAssumption
<1> QED
  BY <1>1 DEF OnDay, Cell, Parse, Local

\* and the day that the clock shows for a local moment is the day it is one of.
LEMMA LocalDay ==
    ASSUME NEW m \in Moments, ~m.utc, NEW d \in Int
    PROVE  OnDay(m, d) <=> DayOf(m) = d
<1> DEFINE w == Wall(m)
<1>1. w \in Int /\ w = m.at + Offset /\ m.at \in Int /\ Slots \in Nat \ {0} /\ Offset \in Int
  BY PickerAssumption DEF Wall, Moments
<1>2. OnDay(m, d) <=> d * Slots <= w /\ w < (d + 1) * Slots
  <2>1. d * Slots \in Int /\ (d + 1) * Slots \in Int
    BY <1>1
  <2>2. Cell(d, 0).at = d * Slots - Offset /\ Cell(d + 1, 0).at = (d + 1) * Slots - Offset
    BY <1>1, <2>1 DEF Cell, Parse, Local
  <2> QED
    BY <1>1, <2>1, <2>2 DEF OnDay
<1>3. \A n \in Nat \ {0}, v \in Int, q \in Int : q * n <= v /\ v < (q + 1) * n <=> v \div n = q
  <2> SUFFICES ASSUME NEW n \in Nat \ {0}, NEW v \in Int, NEW q \in Int
               PROVE  q * n <= v /\ v < (q + 1) * n <=> v \div n = q
    OBVIOUS
  <2> QED
    BY SMTT(30)
<1> HIDE DEF w
<1>4. d * Slots <= w /\ w < (d + 1) * Slots <=> w \div Slots = d
  BY <1>1, <1>3
<1> QED
  BY <1>2, <1>4 DEF DayOf, w

\* Of two moments read by the same clock, the later one is not on an earlier day.
LEMMA DaysInOrder ==
    ASSUME NEW m \in Moments, NEW n \in Moments, m.utc = n.utc, m.at <= n.at
    PROVE  DayOf(m) <= DayOf(n)
<1>1. Wall(m) \in Int /\ Wall(n) \in Int /\ Slots \in Nat \ {0} /\ Wall(m) <= Wall(n)
  <2>1. Wall(m) <= Wall(n)
    BY PickerAssumption DEF Wall, Moments
  <2> QED
    BY <2>1, WallIsInt, PickerAssumption
<1>2. \A k \in Nat \ {0}, v \in Int, w \in Int : v <= w => v \div k <= w \div k
  <2> SUFFICES ASSUME NEW k \in Nat \ {0}, NEW v \in Int, NEW w \in Int, v <= w
               PROVE  v \div k <= w \div k
    OBVIOUS
  <2> QED
    BY SMTT(30)
<1> QED
  BY <1>1, <1>2 DEF DayOf

\* What stands for an absent date is neither a moment nor a text.
LEMMA NoneIsNoMoment == None \notin Moments /\ None \notin Int
  BY PickerAssumption DEF Moments

-----------------------------------------------------------------------------
(***************************************************************************)
(* The methods keep the types, and most of them the range.                 *)
(***************************************************************************)
\* The time boxes are drawn.
Boxed(p) == p.left # None /\ p.right # None /\ p.cells # None

\* Apply is to be had for a whole range in order.
Applies(p) == p.apply => p.end # None /\ p.start.at <= p.end.at

Alike(p, q) ==
    /\ q \in Pickers
    /\ Boxed(p) => Boxed(q)
    /\ q.isShowing = p.isShowing
    /\ q.start = p.start /\ q.end = p.end
    /\ q.oldStart = p.oldStart /\ q.oldEnd = p.oldEnd

\* The page's input is written for a whole range only.
LEMMA UpdateElementKeeps ==
    ASSUME NEW p \in Pickers, p.end # None
    PROVE  Alike(p, UpdateElement(p)) /\ UpdateElement(p).apply = p.apply
<1>1. p.start \in Moments /\ p.end \in Moments
  BY DEF Pickers
<1>2. <<Wall(p.start), Wall(p.end)>> \in Int \X Int
  BY <1>1, WallIsInt
<1> QED
  BY <1>2 DEF Alike, Boxed, UpdateElement, Pickers

\* The months in view are moved,
LEMMA UpdateMonthsKeeps ==
    ASSUME NEW p \in Pickers
    PROVE  /\ Alike(p, UpdateMonthsInView(p)) /\ UpdateMonthsInView(p).apply = p.apply
           /\ UpdateMonthsInView(p).left = p.left /\ UpdateMonthsInView(p).right = p.right
           /\ UpdateMonthsInView(p).text = p.text
<1>1. MonthOf(p.start) \in Int
  BY MonthIsInt DEF Pickers
<1>2. UpdateMonthsInView(p) \in {p, [p EXCEPT !.month = MonthOf(p.start)]}
  BY DEF UpdateMonthsInView
<1> QED
  BY <1>1, <1>2 DEF Alike, Boxed, Pickers

\* setDate() ends with both, the input of a closed picker only,
LEMMA SettleKeeps ==
    ASSUME NEW p \in Pickers, p.isShowing \/ p.end # None
    PROVE  /\ Alike(p, Settle(p)) /\ Settle(p).apply = p.apply
           /\ ~p.isShowing => Settle(p).text = <<Wall(p.start), Wall(p.end)>>
<1>1. CASE p.isShowing
  BY <1>1, UpdateMonthsKeeps DEF Settle
<1>2. CASE ~p.isShowing
  <2>1. Settle(p) = UpdateMonthsInView(UpdateElement(p))
    BY <1>2 DEF Settle
  <2>2. Alike(p, UpdateElement(p)) /\ UpdateElement(p).apply = p.apply
    BY <1>2, UpdateElementKeeps
  <2>3. UpdateElement(p).text = <<Wall(p.start), Wall(p.end)>>
    BY DEF UpdateElement, Pickers
  <2>4. /\ Alike(UpdateElement(p), UpdateMonthsInView(UpdateElement(p)))
        /\ UpdateMonthsInView(UpdateElement(p)).apply = UpdateElement(p).apply
        /\ UpdateMonthsInView(UpdateElement(p)).text = UpdateElement(p).text
    BY <2>2, UpdateMonthsKeeps DEF Alike
  <2> QED
    BY <2>1, <2>2, <2>3, <2>4 DEF Alike
<1> QED
  BY <1>1, <1>2

\* so setStartDate() sets the start and nothing else of the range.
LEMMA SetStartDateSets ==
    ASSUME NEW p \in Pickers, NEW m \in Moments, p.isShowing \/ p.end # None
    PROVE  /\ Alike([p EXCEPT !.start = m], SetStartDate(p, m))
           /\ SetStartDate(p, m).apply = p.apply
<1> DEFINE q == [p EXCEPT !.start = m]
<1>1. q \in Pickers /\ q.isShowing = p.isShowing /\ q.end = p.end /\ q.apply = p.apply
  BY DEF Pickers
<1>2. Alike(q, Settle(q)) /\ Settle(q).apply = q.apply
  BY <1>1, SettleKeeps
<1> QED
  BY <1>1, <1>2 DEF SetStartDate

\* An end before the start becomes the start.
LEMMA SetEndDateSets ==
    ASSUME NEW p \in Pickers, NEW m \in Moments
    PROVE  LET q == SetEndDate(p, m)
           IN  /\ q \in Pickers /\ q.apply = p.apply
               /\ q.isShowing = p.isShowing /\ q.start = p.start
               /\ q.oldStart = p.oldStart /\ q.oldEnd = p.oldEnd
               /\ q.end \in Moments /\ q.start.at <= q.end.at
               /\ q.end = IF m.at < p.start.at THEN p.start ELSE m
               /\ m.utc = p.start.utc => q.end.utc = q.start.utc
               /\ ~p.isShowing => q.text = <<Wall(q.start), Wall(q.end)>>
               /\ Boxed(p) => Boxed(q)
<1> DEFINE end == IF m.at < p.start.at THEN p.start ELSE m
           r == [p EXCEPT !.end = end, !.previousRight = end]
<1>1. /\ end \in Moments /\ p.start.at <= end.at
      /\ m.utc = p.start.utc => end.utc = p.start.utc
  BY DEF Pickers, Moments
<1>2. end # None
  BY <1>1, NoneIsNoMoment
<1> HIDE DEF end
<1>3. /\ r \in Pickers /\ r.isShowing = p.isShowing /\ r.end = end /\ r.apply = p.apply
      /\ r.start = p.start /\ r.oldStart = p.oldStart /\ r.oldEnd = p.oldEnd
      /\ Boxed(p) => Boxed(r)
  BY <1>1 DEF Pickers, Boxed
<1>4. SetEndDate(p, m) = Settle(r)
  BY DEF SetEndDate, end
<1> HIDE DEF r
<1>5. /\ Alike(r, Settle(r)) /\ Settle(r).apply = r.apply
      /\ ~r.isShowing => Settle(r).text = <<Wall(r.start), Wall(r.end)>>
  BY <1>2, <1>3, SettleKeeps
<1>6. end = IF m.at < p.start.at THEN p.start ELSE m
  BY DEF end
<1> QED
  BY <1>1, <1>3, <1>4, <1>5, <1>6 DEF Alike

\* Both time boxes are drawn, with times they offer.
LEMMA RenderTimePickersKeeps ==
    ASSUME NEW p \in Pickers
    PROVE  /\ Alike(p, RenderTimePickers(p)) /\ RenderTimePickers(p).apply = p.apply
           /\ RenderTimePickers(p).left # None /\ RenderTimePickers(p).right # None
           /\ RenderTimePickers(p).text = p.text
<1> DEFINE q == RenderLeft(p)
           end == IF q.end = None THEN q.previousRight ELSE q.end
           kept == IF q.right = None THEN end ELSE AtSlot(end, q.right)
           selected == IF q.right # None /\ kept.at < q.start.at THEN q.start ELSE kept
<1>1. SlotOf(p.start) \in 0 .. Slots - 1
  BY SlotIsBox DEF Pickers
<1>2. Alike(p, q) /\ q.apply = p.apply /\ q.left # None /\ q.text = p.text
  BY <1>1, NoneIsNoMoment DEF Alike, Boxed, Pickers, RenderLeft, Boxes
<1> HIDE DEF q
<1>3. end \in Moments
  BY <1>2 DEF Alike, Boxed, Pickers
<1> HIDE DEF end
<1>4. q.right \in (0 .. Slots - 1) \cup {None}
  BY <1>2 DEF Alike, Boxed, Pickers, Boxes
<1>5. kept \in Moments
  BY <1>3, <1>4, AtSlotIsMoment
<1> HIDE DEF kept
<1>6. selected \in Moments
  BY <1>2, <1>5 DEF Alike, Boxed, Pickers
<1> HIDE DEF selected
<1>7. SlotOf(selected) \in Boxes /\ SlotOf(selected) # None
  BY <1>6, SlotIsBox, NoneIsNoMoment DEF Boxes
<1>8. RenderTimePickers(p) = [q EXCEPT !.right = SlotOf(selected)]
  BY DEF RenderTimePickers, RenderRight, q, end, kept, selected
<1> QED
  BY <1>2, <1>7, <1>8 DEF Alike, Boxed, Pickers

\* The cells take their time from the boxes drawn before.
LEMMA UpdateCalendarsKeeps ==
    ASSUME NEW p \in Pickers
    PROVE  /\ Alike(p, UpdateCalendars(p)) /\ UpdateCalendars(p).apply = p.apply
           /\ UpdateCalendars(p).text = p.text
           /\ p.left # None /\ p.right # None => Boxed(UpdateCalendars(p))
<1> DEFINE c == p.calendars \/ (p.end # None /\ ~IsPreset(p))
           b == IF p.end = None THEN p.right ELSE p.left
<1>1. c \in BOOLEAN /\ b \in Boxes /\ (p.left # None /\ p.right # None => b # None)
  BY DEF Pickers
<1>2. UpdateCalendars(p) = [p EXCEPT !.cells = b, !.calendars = c]
  BY DEF UpdateCalendars
<1> HIDE DEF c, b
<1> QED
  BY <1>1, <1>2 DEF Alike, Boxed, Pickers

\* Apply is switched on and off.
LEMMA UpdateFormInputsKeeps ==
    ASSUME NEW p \in Pickers
    PROVE  /\ Alike(p, UpdateFormInputs(p)) /\ UpdateFormInputs(p).text = p.text
           /\ Applies(UpdateFormInputs(p))
<1> DEFINE a == p.end # None /\ p.start.at <= p.end.at
           i == [left |-> Wall(p.start),
                 right |-> IF p.end = None THEN p.inputs.right ELSE Wall(p.end)]
<1>1. Wall(p.start) \in Texts /\ (p.end # None => Wall(p.end) \in Texts)
  BY WallIsInt DEF Pickers, Texts
<1>2. p.inputs["right"] \in Texts
  BY DEF Pickers, Both
<1>3. i \in [Both -> Texts]
  BY <1>1, <1>2 DEF Both
<1>4. a \in BOOLEAN
  OBVIOUS
<1>5. UpdateFormInputs(p) = [p EXCEPT !.inputs = i, !.apply = a]
  BY DEF UpdateFormInputs
<1>6. a => p.end # None /\ p.start.at <= p.end.at
  OBVIOUS
<1> HIDE DEF a, i
<1> QED
  BY <1>3, <1>4, <1>5, <1>6 DEF Alike, Applies, Boxed, Pickers

\* updateView() draws all boxes but the page's input,
LEMMA UpdateViewKeeps ==
    ASSUME NEW p \in Pickers
    PROVE  /\ Alike(p, UpdateView(p)) /\ Boxed(UpdateView(p))
           /\ Applies(UpdateView(p))
           /\ UpdateView(p).text = p.text
<1> DEFINE q == RenderTimePickers(p)
           r == UpdateMonthsInView(q)
           s == UpdateCalendars(r)
<1>1. Alike(p, q) /\ q.left # None /\ q.right # None /\ q.text = p.text
  BY RenderTimePickersKeeps
<1>2. Alike(q, r) /\ r.left # None /\ r.right # None /\ r.text = q.text
  BY <1>1, UpdateMonthsKeeps DEF Alike
<1>3. Alike(r, s) /\ Boxed(s) /\ s.text = r.text
  BY <1>2, UpdateCalendarsKeeps DEF Alike
<1>4. /\ Alike(s, UpdateFormInputs(s)) /\ UpdateFormInputs(s).text = s.text
      /\ Applies(UpdateFormInputs(s))
  BY <1>3, UpdateFormInputsKeeps DEF Alike
<1> QED
  BY <1>1, <1>2, <1>3, <1>4 DEF Alike, UpdateView

\* and so does a change of time, in another order.
LEMMA RedrawTimesKeeps ==
    ASSUME NEW p \in Pickers
    PROVE  Alike(p, RedrawTimes(p)) /\ Applies(RedrawTimes(p))
<1> DEFINE q == UpdateCalendars(p)
           r == UpdateFormInputs(q)
<1>1. Alike(p, q)
  BY UpdateCalendarsKeeps
<1>2. Alike(q, r) /\ Applies(r)
  BY <1>1, UpdateFormInputsKeeps DEF Alike
<1>3. Alike(r, RenderTimePickers(r)) /\ RenderTimePickers(r).apply = r.apply
  BY <1>2, RenderTimePickersKeeps DEF Alike
<1> QED
  BY <1>1, <1>2, <1>3 DEF Alike, Applies, RedrawTimes

-----------------------------------------------------------------------------
(***************************************************************************)
(* The invariant.  A range that has no end yet belongs to a picker that is *)
(* open, the range it was opened with is what the history says, and an     *)
(* open picker has drawn its time boxes.  Both ends are read by the same   *)
(* clock: a day of the one could not be compared with a day of the other.  *)
(* A picker that was made with an ordered range keeps it in order, as the  *)
(* charts' are; a page of logs may be given another one, but Apply is off  *)
(* as long as it is there.                                                 *)
(***************************************************************************)
Sound(p, ok) ==
    /\ p \in Pickers
    /\ p.end = None => p.isShowing /\ ~p.start.utc
    /\ p.end # None => p.start.utc = p.end.utc
    /\ ok /\ p.end # None => p.start.at <= p.end.at
    /\ p.oldStart.utc = p.oldEnd.utc
    /\ ok => p.oldStart.at <= p.oldEnd.at
    /\ p.isShowing => Boxed(p) /\ Applies(p)

Known ==
    /\ page = "charts" => inOrder /\ goingTo = None /\ told # None /\ Ordered(told)
    /\ page = "logs" => told = None
    /\ goingTo # None => Ordered(goingTo)

PickerInv ==
    /\ TypeOK
    /\ Sound(drp, inOrder)
    /\ Known
    /\ drp.isShowing => opened = <<drp.oldStart.at, drp.oldEnd.at>>

\* Ranges are pairs of instants, not None.
LEMMA RangeIsInts ==
    ASSUME NEW p \in Pickers, p.end \in Moments
    PROVE  Range(p) \in Int \X Int /\ Range(p) # None
<1>1. Range(p) \in Int \X Int /\ Range(p) = <<p.start.at, p.end.at>>
  BY DEF Pickers, Moments, Range
<1> QED
  BY <1>1, PickerAssumption

\* What the constructor leaves is sound, and says the range it was given.
LEMMA MadeIsSound ==
    ASSUME NEW range \in Int \X Int, NEW utc \in BOOLEAN
    PROVE  /\ Sound(Made(range, utc), Ordered(range)) /\ ~Made(range, utc).isShowing
           /\ Range(Made(range, utc)) = range
           /\ Made(range, utc).end # None
           /\ Made(range, utc).start.utc = utc /\ Made(range, utc).oldStart.utc = utc
           /\ Made(range, utc).text =
                  <<Wall(Made(range, utc).start), Wall(Made(range, utc).end)>>
<1> DEFINE start == [at |-> range[1], utc |-> utc]
           end   == [at |-> range[2], utc |-> utc]
           q     == Made(range, utc)
<1>1. /\ start \in Moments /\ end \in Moments /\ start.utc = utc /\ end.utc = utc
      /\ start.at = range[1] /\ end.at = range[2]
  BY DEF Moments
<1>2. start # None /\ end # None
  BY <1>1, NoneIsNoMoment
<1>3. <<Wall(start), Wall(end)>> \in Int \X Int
  BY <1>1, WallIsInt
<1>4. q = UpdateElement(NewPicker(start, end))
  BY DEF Made
<1>5. range = <<range[1], range[2]>>
  OBVIOUS
<1> HIDE DEF start, end, q
<1>6. /\ q \in Pickers /\ ~q.isShowing /\ q.text = <<Wall(start), Wall(end)>>
      /\ q.start = start /\ q.end = end /\ q.oldStart = start /\ q.oldEnd = end
  <2>1. [left |-> None, right |-> None] \in [Both -> Texts]
    BY DEF Both, Texts
  <2>2. q = [NewPicker(start, end) EXCEPT !.text = <<Wall(start), Wall(end)>>]
    BY <1>4 DEF UpdateElement, NewPicker
  <2>3. q = [isShowing |-> FALSE, start |-> start, end |-> end,
             oldStart |-> start, oldEnd |-> end, previousRight |-> end,
             month |-> None, left |-> None, right |-> None, cells |-> None,
             calendars |-> FALSE, apply |-> FALSE,
             inputs |-> [left |-> None, right |-> None],
             text |-> <<Wall(start), Wall(end)>>]
    BY <2>2 DEF NewPicker
  <2> QED
    BY <1>1, <1>3, <2>1, <2>3 DEF Pickers, Boxes
<1>7. Sound(q, Ordered(range))
  BY <1>1, <1>2, <1>6 DEF Sound, Ordered
<1>8. Range(q) = range
  BY <1>1, <1>5, <1>6 DEF Range
<1> QED
  BY <1>1, <1>2, <1>6, <1>7, <1>8 DEF q

\* The ranges that pages make it with are pairs of instants.
LEMMA LogsRangeIsRange ==
    ASSUME NEW url \in Int \X Int, NEW now \in Loads PROVE LogsRange(url, now) \in Int \X Int
  BY PickerAssumption DEF LogsRange

\* A page begins with a picker of its settings or of its address.
LEMMA InitPickerInv == Init => PickerInv
<1> SUFFICES ASSUME Init PROVE PickerInv
  OBVIOUS
<1>3. <<>> \in Clicks /\ 0 \in 0 .. MaxLate
  BY PickerAssumption DEF Clicks
<1>1. CASE ChartsPage
  <2>1. PICK utc \in BOOLEAN : drp = Made(FirstRange, utc)
    BY <1>1 DEF ChartsPage
  <2>2. /\ FirstRange \in Int \X Int /\ FirstRange # None /\ Ordered(FirstRange)
        /\ None \notin Int \X Int
    BY PickerAssumption DEF Ordered
  <2>3. Sound(drp, Ordered(FirstRange)) /\ ~drp.isShowing /\ Range(drp) = FirstRange
    BY <2>1, <2>2, MadeIsSound
  <2>4. inOrder = Ordered(FirstRange) /\ opened = FirstRange
    BY <2>3 DEF Init
  <2>5. Known
    BY <1>1, <2>2, <2>4 DEF Init, ChartsPage, Known
  <2>6. TypeOK
    BY <1>1, <1>3, <2>2, <2>3, <2>4 DEF Init, ChartsPage, TypeOK, Sound, Ordered
  <2> QED
    BY <2>3, <2>4, <2>5, <2>6 DEF PickerInv
<1>2. CASE LogsPage
  <2>1. PICK url \in Urls, now \in Loads : drp = Made(LogsRange(url, now), FALSE)
    BY <1>2 DEF LogsPage
  <2> DEFINE range == LogsRange(url, now)
  <2>2. range \in Int \X Int
    BY LogsRangeIsRange, PickerAssumption
  <2> HIDE DEF range
  <2>3. Sound(drp, Ordered(range)) /\ ~drp.isShowing /\ Range(drp) = range
    BY <2>1, <2>2, MadeIsSound DEF range
  <2>4. inOrder = Ordered(range) /\ opened = range /\ inOrder \in BOOLEAN
    BY <2>3 DEF Init, Ordered
  <2>5. Known
    BY <1>2 DEF Init, LogsPage, Known
  <2>6. TypeOK
    BY <1>2, <1>3, <2>2, <2>3, <2>4 DEF Init, LogsPage, TypeOK, Sound
  <2> QED
    BY <2>3, <2>4, <2>5, <2>6 DEF PickerInv
<1> QED
  BY <1>1, <1>2 DEF Init

\* What redrawing leaves sound.
LEMMA AlikeIsSound ==
    ASSUME NEW p, NEW q, NEW ok \in BOOLEAN, Sound(p, ok), Alike(p, q), Applies(q)
    PROVE  Sound(q, ok)
  BY DEF Sound, Alike

\* Both ends are read by one clock, and so are the ends of the range it was opened with.
Even(p) ==
    /\ p \in Pickers
    /\ p.end # None => p.start.utc = p.end.utc
    /\ p.oldStart.utc = p.oldEnd.utc

\* A closed picker has a whole range, of which its input was written.
Shut(p) ==
    /\ Even(p) /\ ~p.isShowing
    /\ p.end \in Moments /\ p.end # None

\* hide() leaves the range there is or restores the one the picker was opened with.
LEMMA HiddenIsShut ==
    ASSUME NEW p, Even(p), page \in {"charts", "logs"}
    PROVE  /\ Shut(Hidden(p))
           /\ Hidden(p).oldStart = p.oldStart /\ Hidden(p).oldEnd = p.oldEnd
           /\ Hidden(p).text = <<Wall(Hidden(p).start), Wall(Hidden(p).end)>>
           /\ Range(Hidden(p)) = Range(GiveUpHalf(p))
           /\ page = "logs" => /\ Hidden(p).start = GiveUpHalf(p).start
                               /\ Hidden(p).end = GiveUpHalf(p).end
<1> DEFINE q == GiveUpHalf(p)
           r == IF page = "charts" /\ IsNew(q) THEN InUtc(q) ELSE q
<1>1. /\ q \in Pickers /\ q.end \in Moments /\ q.start.utc = q.end.utc
      /\ q.oldStart = p.oldStart /\ q.oldEnd = p.oldEnd
  BY DEF GiveUpHalf, Pickers, Even
<1>2. Hidden(p) = Close(r)
  BY DEF Hidden
<1> HIDE DEF q
<1>3. /\ InUtc(q) \in Pickers /\ InUtc(q).end \in Moments
      /\ InUtc(q).start.utc = InUtc(q).end.utc
      /\ InUtc(q).oldStart = q.oldStart /\ InUtc(q).oldEnd = q.oldEnd
      /\ InUtc(q).start.at = q.start.at /\ InUtc(q).end.at = q.end.at
  <2> DEFINE m == [q.start EXCEPT !.utc = TRUE]
             n == [q.end EXCEPT !.utc = TRUE]
  <2>1. /\ m \in Moments /\ m.utc = TRUE /\ m.at = q.start.at
        /\ n \in Moments /\ n.utc = TRUE /\ n.at = q.end.at
    BY <1>1 DEF Moments, Pickers
  <2>2. InUtc(q) = [q EXCEPT !.start = m, !.end = n]
    BY <1>1 DEF InUtc, Pickers
  <2> HIDE DEF m, n
  <2> QED
    BY <1>1, <2>1, <2>2 DEF Pickers
<1>4. /\ r \in Pickers /\ r.end \in Moments /\ r.start.utc = r.end.utc
      /\ r.oldStart = p.oldStart /\ r.oldEnd = p.oldEnd
      /\ r.start.at = q.start.at /\ r.end.at = q.end.at
      /\ page = "logs" => r = q
  BY <1>1, <1>3
<1> HIDE DEF r
<1>5. Alike(r, UpdateElement(r)) /\ r.end # None
  BY <1>4, UpdateElementKeeps, NoneIsNoMoment
<1>6. UpdateElement(r).text = <<Wall(r.start), Wall(r.end)>>
  BY <1>4 DEF UpdateElement, Pickers
<1>7. /\ Close(r) \in Pickers /\ Close(r).isShowing = FALSE
      /\ Close(r).start = r.start /\ Close(r).end = r.end
      /\ Close(r).oldStart = r.oldStart /\ Close(r).oldEnd = r.oldEnd
      /\ Close(r).text = <<Wall(r.start), Wall(r.end)>>
  BY <1>5, <1>6 DEF Alike, Close, Pickers
<1>8. Range(Hidden(p)) = Range(q)
  BY <1>2, <1>4, <1>7 DEF Range
<1>9. p.oldStart.utc = p.oldEnd.utc
  BY DEF Even
<1>10. Shut(Hidden(p))
  BY <1>2, <1>4, <1>5, <1>7, <1>9 DEF Shut, Even
<1> QED
  BY <1>2, <1>4, <1>7, <1>8, <1>10 DEF q

\* utc() changes the clock that both ends are read by and not their instants.
LEMMA InUtcIsShut ==
    ASSUME NEW p, Shut(p)
    PROVE  /\ Shut(InUtc(p)) /\ Range(InUtc(p)) = Range(p) /\ InUtc(p).text = p.text
           /\ InUtc(p).oldStart = p.oldStart /\ InUtc(p).oldEnd = p.oldEnd
<1> DEFINE m == [p.start EXCEPT !.utc = TRUE]
           n == [p.end EXCEPT !.utc = TRUE]
<1>1. /\ p \in Pickers /\ p.end \in Moments /\ p.start \in Moments
      /\ ~p.isShowing /\ p.oldStart.utc = p.oldEnd.utc
  BY DEF Shut, Even, Pickers
<1>2. /\ m \in Moments /\ m.utc = TRUE /\ m.at = p.start.at
      /\ n \in Moments /\ n.utc = TRUE /\ n.at = p.end.at
  BY <1>1 DEF Moments
<1>3. InUtc(p) = [p EXCEPT !.start = m, !.end = n]
  BY <1>1 DEF InUtc, Pickers
<1> HIDE DEF m, n
<1>4. /\ InUtc(p) \in Pickers /\ InUtc(p).start = m /\ InUtc(p).end = n
      /\ InUtc(p).isShowing = p.isShowing /\ InUtc(p).text = p.text
      /\ InUtc(p).oldStart = p.oldStart /\ InUtc(p).oldEnd = p.oldEnd
  BY <1>1, <1>2, <1>3 DEF Pickers
<1> QED
  BY <1>1, <1>2, <1>4, NoneIsNoMoment DEF Shut, Even, Range

\* A picker that was closed with an ordered range is sound.
LEMMA ShutIsSound ==
    ASSUME NEW p, NEW ok \in BOOLEAN, Shut(p),
           ok => Ordered(Range(p)) /\ p.oldStart.at <= p.oldEnd.at
    PROVE  Sound(p, ok)
  BY DEF Sound, Shut, Even, Ordered, Range

-----------------------------------------------------------------------------
(***************************************************************************)
(* The handlers keep the invariant.                                        *)
(***************************************************************************)
StaysOpen == drp.isShowing => drp'.isShowing

\* A step that leaves the picker as open as it is and the page alone.
LEMMA OpenStep ==
    ASSUME PickerInv, Sound(drp', inOrder), drp'.isShowing = drp.isShowing,
           drp'.oldStart = drp.oldStart, drp'.oldEnd = drp.oldEnd,
           UNCHANGED <<pageVars, utcPresets, told, opened>>,
           clicked' \in Clicks, late' \in 0 .. MaxLate
    PROVE  PickerInv' /\ StaysOpen
<1>1. Sound(drp', inOrder')
  BY DEF pageVars
<1> QED
  BY <1>1 DEF PickerInv, TypeOK, Known, Sound, StaysOpen, pageVars

\* Closing the picker of the charts tells the range or restores it.
ToldOrRestored ==
    page = "charts" => \/ Range(drp') = told'
                       \/ Range(drp') = opened /\ told' = told

\* A range in order, the one that is there or the one to be restored.
InOrder(p) ==
    IF p.end = None THEN p.oldStart.at <= p.oldEnd.at ELSE p.start.at <= p.end.at

\* hide(), whatever range was chosen before, keeps the invariant,
LEMMA HideStep ==
    ASSUME PickerInv, NEW p, Even(p), Hide(p), drp.isShowing,
           p.oldStart = drp.oldStart, p.oldEnd = drp.oldEnd, inOrder => InOrder(p),
           UNCHANGED <<page, inOrder, opened>>,
           utcPresets' \subseteq Presets, clicked' \in Clicks, late' \in 0 .. MaxLate
    PROVE  PickerInv' /\ ToldOrRestored
<1> DEFINE q == GiveUpHalf(p)
<1>1. /\ page \in {"charts", "logs"} /\ inOrder \in BOOLEAN
      /\ told \in (Int \X Int) \cup {None}
      /\ opened = <<p.oldStart.at, p.oldEnd.at>> /\ opened \in Int \X Int
      /\ inOrder => p.oldStart.at <= p.oldEnd.at
  BY DEF PickerInv, TypeOK, Sound
<1>2. /\ q.oldStart = p.oldStart /\ q.oldEnd = p.oldEnd
      /\ q.start = IF p.end = None THEN p.oldStart ELSE p.start
      /\ q.end = IF p.end = None THEN p.oldEnd ELSE p.end
      /\ q \in Pickers /\ q.end \in Moments
  BY DEF GiveUpHalf, Pickers, Even
<1> HIDE DEF q
<1>3. inOrder => Ordered(Range(q))
  BY <1>1, <1>2 DEF InOrder, Ordered, Range
<1>4. /\ drp' = Hidden(p) /\ goingTo' = goingTo
      /\ IF page = "charts" /\ IsNew(q) THEN told' = Range(q) ELSE told' = told
  BY DEF Hide, Callback, q
<1>5. /\ Shut(drp') /\ drp'.oldStart = p.oldStart /\ drp'.oldEnd = p.oldEnd
      /\ Range(drp') = Range(q)
  BY <1>1, <1>4, HiddenIsShut DEF q
<1>6. Sound(drp', inOrder)
  BY <1>1, <1>3, <1>5, ShutIsSound
<1>7. Range(q) \in Int \X Int /\ Range(q) # None
  BY <1>2, RangeIsInts
<1>8. told' \in (Int \X Int) \cup {None}
  BY <1>1, <1>4, <1>7
<1>9. Known'
  BY <1>3, <1>4, <1>7 DEF PickerInv, Known
<1>10. ~IsNew(q) => Range(q) = opened
  BY <1>1, <1>2 DEF IsNew
<1>11. ToldOrRestored
  BY <1>4, <1>5, <1>10 DEF ToldOrRestored
<1>12. drp' \in Pickers /\ ~drp'.isShowing
  BY <1>5 DEF Shut, Even
<1>13. TypeOK'
  BY <1>1, <1>4, <1>8, <1>12 DEF PickerInv, TypeOK
<1>14. Sound(drp', inOrder')
  BY <1>6
<1> QED
  BY <1>9, <1>11, <1>12, <1>13, <1>14 DEF PickerInv

\* and so does Apply, of a whole range in order.
LEMMA ApplyStep ==
    ASSUME PickerInv, NEW p, Even(p), Apply(p), drp.isShowing,
           p.oldStart = drp.oldStart, p.oldEnd = drp.oldEnd,
           p.end # None, p.start.at <= p.end.at,
           UNCHANGED <<page, inOrder, opened>>,
           utcPresets' \subseteq Presets, clicked' \in Clicks, late' \in 0 .. MaxLate
    PROVE  PickerInv' /\ ToldOrRestored
<1>1. CASE page = "charts"
  <2>1. Hide(p)
    BY <1>1 DEF Apply
  <2>2. InOrder(p)
    BY DEF InOrder
  <2> QED
    BY <2>1, <2>2, HideStep
<1>2. CASE page = "logs"
  <2>1. /\ inOrder \in BOOLEAN /\ told = None /\ opened \in Int \X Int
        /\ inOrder => p.oldStart.at <= p.oldEnd.at
    BY <1>2 DEF PickerInv, TypeOK, Known, Sound
  <2>2. drp' = InUtc(Hidden(p)) /\ goingTo' = Range(drp') /\ told' = told
    BY <1>2 DEF Apply
  <2>3. /\ Shut(Hidden(p)) /\ Range(Hidden(p)) = Range(p)
        /\ Hidden(p).oldStart = p.oldStart /\ Hidden(p).oldEnd = p.oldEnd
    BY <1>2, HiddenIsShut DEF GiveUpHalf
  <2>4. /\ Shut(drp') /\ Range(drp') = Range(p)
        /\ drp'.oldStart = p.oldStart /\ drp'.oldEnd = p.oldEnd
    BY <2>2, <2>3, InUtcIsShut
  <2>5. Ordered(Range(drp'))
    BY <2>4 DEF Ordered, Range
  <2>6. Sound(drp', inOrder)
    BY <2>1, <2>4, <2>5, ShutIsSound
  <2>7. drp' \in Pickers /\ ~drp'.isShowing /\ drp'.end \in Moments
    BY <2>4 DEF Shut, Even
  <2>8. Range(drp') \in Int \X Int
    BY <2>7, RangeIsInts
  <2>9. Known'
    BY <1>2, <2>1, <2>2, <2>5 DEF Known
  <2>10. TypeOK'
    BY <1>2, <2>1, <2>2, <2>7, <2>8 DEF PickerInv, TypeOK
  <2>11. Sound(drp', inOrder')
    BY <2>6
  <2> QED
    BY <1>2, <2>7, <2>9, <2>10, <2>11 DEF PickerInv, ToldOrRestored
<1> QED
  BY <1>1, <1>2 DEF PickerInv, TypeOK

\* A click outside, Cancel and Apply close the picker with the range it has or had,
LEMMA ClosingKeepsPromise ==
    ASSUME PickerInv, OutsideClick \/ ClickApply \/ ClickCancel, late' \in 0 .. MaxLate
    PROVE  PickerInv' /\ ToldOrRestored
<1>1. /\ drp \in Pickers /\ Even(drp)
      /\ drp.isShowing => Applies(drp)
      /\ inOrder => InOrder(drp) /\ drp.oldStart.at <= drp.oldEnd.at
  BY DEF PickerInv, Sound, Even, InOrder
<1>2. utcPresets \subseteq Presets /\ clicked \in Clicks /\ <<>> \in Clicks
  BY DEF PickerInv, TypeOK, Clicks
<1>3. CASE OutsideClick
  <2>1. /\ Hide(drp) /\ drp.isShowing /\ UNCHANGED <<page, inOrder, utcPresets, opened>>
        /\ clicked' \in {clicked, <<>>}
    BY <1>3 DEF OutsideClick
  <2>2. utcPresets' \subseteq Presets /\ clicked' \in Clicks
    BY <1>2, <2>1
  <2> QED
    BY <1>1, <2>1, <2>2, HideStep
<1>4. CASE ClickApply
  <2>1. /\ Apply(drp) /\ drp.isShowing /\ drp.apply
        /\ UNCHANGED <<page, inOrder, utcPresets, opened, clicked>>
    BY <1>4 DEF ClickApply
  <2>2. utcPresets' \subseteq Presets /\ clicked' \in Clicks
    BY <1>2, <2>1
  <2>3. drp.end # None /\ drp.start.at <= drp.end.at
    BY <1>1, <2>1 DEF Applies
  <2> QED
    BY <1>1, <2>1, <2>2, <2>3, ApplyStep
<1>5. CASE ClickCancel
  <2> DEFINE p == [drp EXCEPT !.start = drp.oldStart, !.end = drp.oldEnd]
  <2>1. /\ p \in Pickers /\ p.oldStart = drp.oldStart /\ p.oldEnd = drp.oldEnd
        /\ p.start = drp.oldStart /\ p.end = drp.oldEnd
    BY <1>1 DEF Pickers
  <2>2. /\ Hide(p) /\ drp.isShowing /\ clicked' = <<>>
        /\ UNCHANGED <<page, inOrder, utcPresets, opened>>
    BY <1>5 DEF ClickCancel
  <2> HIDE DEF p
  <2>3. Even(p)
    BY <1>1, <2>1 DEF Even
  <2>4. inOrder => InOrder(p)
    BY <1>1, <2>1 DEF InOrder
  <2>5. utcPresets' \subseteq Presets /\ clicked' \in Clicks
    BY <1>2, <2>2
  <2> QED
    BY <2>1, <2>2, <2>3, <2>4, <2>5, HideStep
<1> QED
  BY <1>3, <1>4, <1>5

\* A preset is a range in order that one clock reads.
LEMMA PresetIsRange ==
    ASSUME NEW l \in Presets
    PROVE  /\ Preset(l, 1) \in Moments /\ Preset(l, 2) \in Moments
           /\ Preset(l, 1).at <= Preset(l, 2).at
           /\ Preset(l, 1).utc = Preset(l, 2).utc
           /\ Preset(l, 1).utc = (l \in utcPresets)
  BY PickerAssumption DEF Preset, Moments

\* and a preset with its own.
LEMMA PresetKeepsPromise ==
    ASSUME PickerInv, NEW l \in Presets, ClickRange(l), late' \in 0 .. MaxLate
    PROVE  PickerInv' /\ ToldOrRestored
<1> DEFINE p == [drp EXCEPT !.start = Preset(l, 1), !.end = Preset(l, 2), !.calendars = FALSE]
<1>1. /\ drp \in Pickers /\ utcPresets \subseteq Presets /\ <<>> \in Clicks
      /\ drp.oldStart.utc = drp.oldEnd.utc
  BY DEF PickerInv, Sound, TypeOK, Clicks
<1>2. /\ Preset(l, 1) \in Moments /\ Preset(l, 2) \in Moments
      /\ Preset(l, 1).at <= Preset(l, 2).at /\ Preset(l, 1).utc = Preset(l, 2).utc
  BY PresetIsRange
<1>3. /\ Apply(p) /\ drp.isShowing /\ clicked' = <<>> /\ UNCHANGED <<page, inOrder, opened>>
      /\ utcPresets' \in {utcPresets, utcPresets \cup {l}}
  BY DEF ClickRange
<1>4. /\ p \in Pickers /\ p.oldStart = drp.oldStart /\ p.oldEnd = drp.oldEnd
      /\ p.start = Preset(l, 1) /\ p.end = Preset(l, 2)
  BY <1>1, <1>2 DEF Pickers
<1> HIDE DEF p
<1>5. utcPresets' \subseteq Presets /\ clicked' \in Clicks
  BY <1>1, <1>3
<1>6. Even(p) /\ p.end # None
  BY <1>1, <1>2, <1>4, NoneIsNoMoment DEF Even
<1> QED
  BY <1>2, <1>3, <1>4, <1>5, <1>6, ApplyStep

\* show() keeps the range it shows.
LEMMA ShowKeepsInv ==
    ASSUME PickerInv, Show, late' \in 0 .. MaxLate
    PROVE  /\ PickerInv' /\ drp'.isShowing
           /\ drp'.end # None /\ drp'.start = drp.start /\ drp'.oldStart = drp.start
<1> DEFINE p == [drp EXCEPT !.oldStart = drp.start, !.oldEnd = drp.end, !.previousRight = drp.end]
           q == UpdateView(p)
<1>1. /\ drp \in Pickers /\ ~drp.isShowing /\ inOrder \in BOOLEAN
      /\ drp.end \in Moments /\ drp.end # None
      /\ drp.start.utc = drp.end.utc /\ (inOrder => drp.start.at <= drp.end.at)
      /\ drp.start \in Moments
  BY DEF PickerInv, TypeOK, Sound, Show, Pickers
<1>2. /\ p \in Pickers /\ p.start = drp.start /\ p.end = drp.end
      /\ p.oldStart = drp.start /\ p.oldEnd = drp.end
  BY <1>1 DEF Pickers
<1> HIDE DEF p
<1>3. Alike(p, q) /\ Boxed(q) /\ Applies(q)
  BY <1>2, UpdateViewKeeps
<1>4. /\ drp' = [q EXCEPT !.isShowing = TRUE]
      /\ opened' = <<drp.start.at, drp.end.at>> /\ clicked' = <<>>
      /\ UNCHANGED <<pageVars, utcPresets, told>>
  BY DEF Show, Range, p
<1> HIDE DEF q
<1>5. /\ drp' \in Pickers /\ drp'.isShowing /\ Boxed(drp') /\ Applies(drp')
      /\ drp'.start = drp.start /\ drp'.end = drp.end
      /\ drp'.oldStart = drp.start /\ drp'.oldEnd = drp.end
  BY <1>2, <1>3, <1>4 DEF Alike, Applies, Boxed, Pickers
<1>6. Sound(drp', inOrder')
  BY <1>1, <1>4, <1>5 DEF Sound, pageVars
<1>7. opened' \in Int \X Int /\ clicked' \in Clicks
  BY <1>1, <1>4 DEF Clicks, Moments
<1>8. Known'
  BY <1>4 DEF PickerInv, Known, pageVars
<1> QED
  BY <1>1, <1>4, <1>5, <1>6, <1>7, <1>8 DEF PickerInv, TypeOK, pageVars

\* The page that is loaded begins with a picker of its address.
LEMMA LoadKeepsInv ==
    ASSUME PickerInv, Load
    PROVE  /\ PickerInv' /\ ~drp'.isShowing /\ page = "logs"
           /\ drp'.end # None /\ ~drp'.start.utc /\ ~drp'.oldStart.utc
           /\ drp'.text = <<Wall(drp'.start), Wall(drp'.end)>>
<1>1. /\ goingTo \in Int \X Int /\ page = "logs" /\ told = None
  BY DEF Load, PickerInv, TypeOK, Known
<1>2. PICK now \in Loads : drp' = Made(LogsRange(goingTo, now), FALSE)
  BY DEF Load
<1> DEFINE range == LogsRange(goingTo, now)
<1>3. range \in Int \X Int
  BY <1>1, LogsRangeIsRange
<1> HIDE DEF range
<1>4. /\ Sound(drp', Ordered(range)) /\ ~drp'.isShowing /\ Range(drp') = range
      /\ drp'.end # None /\ drp'.start.utc = FALSE /\ drp'.oldStart.utc = FALSE
      /\ drp'.text = <<Wall(drp'.start), Wall(drp'.end)>>
  BY <1>2, <1>3, MadeIsSound DEF range
<1>5. inOrder' = Ordered(range) /\ opened' = range /\ inOrder' \in BOOLEAN
  <2>1. opened' = Range(drp') /\ inOrder' = Ordered(opened')
    BY DEF Load
  <2>2. Ordered(range) \in BOOLEAN
    BY DEF Ordered
  <2> QED
    BY <1>4, <2>1, <2>2
<1>6. Known'
  BY <1>1 DEF Load, Known
<1>7. TypeOK'
  <2>1. /\ goingTo' = None /\ late' = 0 /\ utcPresets' = {} /\ clicked' = <<>>
        /\ page' = page /\ told' = None
    BY <1>1 DEF Load
  <2>2. drp' \in Pickers /\ <<>> \in Clicks /\ 0 \in 0 .. MaxLate
    BY <1>4, PickerAssumption DEF Sound, Clicks
  <2> QED
    BY <1>1, <1>3, <1>5, <2>1, <2>2 DEF TypeOK
<1>8. Sound(drp', inOrder')
  BY <1>4, <1>5
<1> QED
  BY <1>1, <1>4, <1>6, <1>7, <1>8 DEF PickerInv

\* What draws.
Looking ==
    \/ ClickCustomRange \/ HoverCustomRange \/ MouseLeaves
    \/ \E l \in Presets : HoverRange(l)
    \/ \E step \in {-1, 1} : ClickMonth(step)
    \/ \E d \in 0 .. Days - 1 : HoverDate(d)

\* Redrawing and what the mouse does leave the range alone,
LEMMA LookingIsAlike ==
    ASSUME PickerInv, Looking
    PROVE  Alike(drp, drp') /\ Applies(drp')
<1>1. drp.isShowing
  BY DEF Looking, ClickCustomRange, HoverCustomRange, MouseLeaves, HoverRange, ClickMonth,
         HoverDate
<1>2. drp \in Pickers /\ Boxed(drp) /\ Applies(drp)
  BY <1>1 DEF PickerInv, Sound
<1>3. CASE ClickCustomRange
  BY <1>2, <1>3 DEF ClickCustomRange, Alike, Applies, Boxed, Pickers
<1>4. CASE HoverCustomRange
  BY <1>2, <1>4, UpdateViewKeeps DEF HoverCustomRange
<1>5. CASE MouseLeaves
  BY <1>2, <1>5, UpdateFormInputsKeeps DEF MouseLeaves
<1>6. ASSUME NEW l \in Presets, HoverRange(l)
      PROVE Alike(drp, drp') /\ Applies(drp')
  <2>1. Wall(Preset(l, 1)) \in Texts /\ Wall(Preset(l, 2)) \in Texts
    BY PresetIsRange, WallIsInt DEF Texts
  <2> DEFINE i == [left |-> Wall(Preset(l, 1)), right |-> Wall(Preset(l, 2))]
  <2>2. drp' = [drp EXCEPT !.inputs = i]
    BY <1>6 DEF HoverRange
  <2>3. i \in [Both -> Texts]
    BY <2>1 DEF Both
  <2> HIDE DEF i
  <2> QED
    BY <1>2, <2>2, <2>3 DEF Alike, Applies, Boxed, Pickers
<1>7. ASSUME NEW step \in {-1, 1}, ClickMonth(step)
      PROVE Alike(drp, drp') /\ Applies(drp')
  <2> DEFINE q == [drp EXCEPT !.month = drp.month + step]
  <2>1. drp.month + step \in Int /\ drp' = UpdateCalendars(q)
    BY <1>7, PickerAssumption DEF ClickMonth
  <2>2. Alike(drp, q) /\ q.apply = drp.apply
    BY <1>2, <2>1 DEF Alike, Boxed, Pickers
  <2> HIDE DEF q
  <2>3. Alike(q, UpdateCalendars(q)) /\ UpdateCalendars(q).apply = q.apply
    BY <2>2, UpdateCalendarsKeeps DEF Alike
  <2> QED
    BY <1>2, <2>1, <2>2, <2>3 DEF Alike, Applies
<1>8. ASSUME NEW d \in 0 .. Days - 1, HoverDate(d)
      PROVE Alike(drp, drp') /\ Applies(drp')
  <2>1. drp.cells \in 0 .. Slots - 1
    BY <1>2 DEF Boxed, Pickers, Boxes
  <2>2. Cell(d, drp.cells) \in Moments
    BY <2>1, CellIsMoment, PickerAssumption
  <2>3. Wall(Cell(d, drp.cells)) \in Texts
    BY <2>2, WallIsInt DEF Texts
  <2>4. PICK side \in Both : drp' = [drp EXCEPT !.inputs[side] = Wall(Cell(d, drp.cells))]
    BY <1>8 DEF HoverDate, Both
  <2> DEFINE i == [drp.inputs EXCEPT ![side] = Wall(Cell(d, drp.cells))]
  <2>5. i \in [Both -> Texts]
    BY <1>2, <2>3 DEF Pickers
  <2>6. drp' = [drp EXCEPT !.inputs = i]
    BY <2>4
  <2> HIDE DEF i
  <2> QED
    BY <1>2, <2>5, <2>6 DEF Alike, Applies, Boxed, Pickers
<1> QED
  BY <1>3, <1>4, <1>5, <1>6, <1>7, <1>8 DEF Looking

\* and with it the invariant.
LEMMA LookingKeepsInv ==
    ASSUME PickerInv, Looking, late' \in 0 .. MaxLate
    PROVE  /\ PickerInv' /\ StaysOpen
           /\ drp.isShowing /\ UNCHANGED <<pageVars, utcPresets, clicked>>
<1>1. Sound(drp, inOrder) /\ inOrder \in BOOLEAN /\ clicked \in Clicks
  BY DEF PickerInv, TypeOK
<1>2. UNCHANGED <<pageVars, utcPresets, told, opened, clicked>> /\ drp.isShowing
  BY DEF Looking, ClickCustomRange, HoverCustomRange, MouseLeaves, HoverRange, ClickMonth,
         HoverDate
<1>3. Alike(drp, drp') /\ Applies(drp')
  BY LookingIsAlike
<1>4. Sound(drp', inOrder)
  BY <1>1, <1>3, AlikeIsSound
<1> QED
  BY <1>1, <1>2, <1>3, <1>4, OpenStep DEF Alike

\* What ends a range and redraws leaves a sound picker.
LEMMA WholeIsSound ==
    ASSUME NEW p \in Pickers, NEW q, NEW ok \in BOOLEAN, p.end \in Moments,
           p.start.at <= p.end.at, p.start.utc = p.end.utc,
           ok => p.oldStart.at <= p.oldEnd.at, p.oldStart.utc = p.oldEnd.utc,
           Alike(p, q), p.isShowing => Boxed(q)
    PROVE  Sound(q, ok)
  BY NoneIsNoMoment DEF Sound, Alike, Applies

\* A click begins a range by the browser's clock or ends it not before its start.
LEMMA ClickDateKeepsInv ==
    ASSUME PickerInv, NEW d \in 0 .. Days - 1, ClickDate(d), late' \in 0 .. MaxLate
    PROVE  /\ PickerInv' /\ StaysOpen
           /\ \/ /\ drp'.end = None /\ OnDay(drp'.start, d)
                 /\ clicked' = <<d>>
              \/ /\ drp.end = None /\ drp'.start = drp.start
                 /\ drp'.end # None /\ OnDay(drp'.end, d)
                 /\ clicked' = IF clicked = <<>> THEN <<>> ELSE <<clicked[1], d>>
           /\ drp'.oldStart = drp.oldStart
<1>1. /\ drp \in Pickers /\ drp.isShowing /\ drp.start \in Moments
      /\ drp.oldStart.utc = drp.oldEnd.utc
      /\ inOrder \in BOOLEAN /\ (inOrder => drp.oldStart.at <= drp.oldEnd.at)
      /\ drp.end = None => ~drp.start.utc
  BY DEF PickerInv, TypeOK, Sound, ClickDate, Pickers
<1>2. {drp.left, drp.right, drp.cells} \subseteq 0 .. Slots - 1
  BY <1>1 DEF PickerInv, Sound, Boxed, Pickers, Boxes
<1>3. UNCHANGED <<pageVars, utcPresets, told, opened>>
  BY DEF ClickDate
<1>4. ASSUME NEW s \in 0 .. Slots - 1
      PROVE  Cell(d, s) \in Moments /\ Cell(d, s).utc = FALSE /\ OnDay(Cell(d, s), d)
  <2>1. Cell(d, s) \in Moments /\ OnDay(Cell(d, s), d)
    BY CellIsMoment, CellIsOnDay, PickerAssumption
  <2>2. Cell(d, s).utc = FALSE
    BY DEF Cell, Parse, Local
  <2> QED
    BY <2>1, <2>2
<1>5. CASE BeginsRange(d)
  <2> DEFINE m == Cell(d, drp.left)
             p == [drp EXCEPT !.end = None]
             q == SetStartDate(p, m)
  <2>1. m \in Moments /\ ~m.utc /\ OnDay(m, d)
    BY <1>2, <1>4
  <2>2. /\ p \in Pickers /\ p.isShowing /\ p.end = None
        /\ p.oldStart = drp.oldStart /\ p.oldEnd = drp.oldEnd
    BY <1>1 DEF Pickers
  <2>3. /\ [p EXCEPT !.start = m].isShowing /\ [p EXCEPT !.start = m].end = None
        /\ [p EXCEPT !.start = m].start = m
        /\ [p EXCEPT !.start = m].oldStart = drp.oldStart
        /\ [p EXCEPT !.start = m].oldEnd = drp.oldEnd
    BY <2>2 DEF Pickers
  <2>4. drp' = UpdateView(q) /\ clicked' = <<d>>
    BY <1>5 DEF ClickDate, PickStart
  <2> HIDE DEF p, m
  <2>5. Alike([p EXCEPT !.start = m], q)
    BY <2>1, <2>2, SetStartDateSets
  <2>6. /\ q \in Pickers /\ q.isShowing /\ q.end = None /\ q.start = m
        /\ q.oldStart = drp.oldStart /\ q.oldEnd = drp.oldEnd
    BY <2>3, <2>5 DEF Alike
  <2> HIDE DEF q
  <2>7. Alike(q, drp') /\ Boxed(drp') /\ Applies(drp')
    BY <2>4, <2>6, UpdateViewKeeps
  <2>8. Sound(drp', inOrder)
    BY <1>1, <2>1, <2>6, <2>7 DEF Sound, Alike
  <2>9. clicked' \in Clicks
    BY <2>4 DEF Clicks
  <2> QED
    BY <1>1, <1>3, <2>1, <2>4, <2>6, <2>7, <2>8, <2>9, OpenStep DEF Alike
<1>6. CASE ~BeginsRange(d)
  <2> DEFINE end == IF Cell(d, drp.cells).at < drp.start.at THEN drp.start ELSE Cell(d, drp.right)
             q == SetEndDate(drp, end)
  <2>1. end \in Moments /\ end.utc = drp.start.utc
    <3>1. drp.start.utc = FALSE
      BY <1>1, <1>6 DEF BeginsRange, Moments
    <3>2. Cell(d, drp.right) \in Moments /\ Cell(d, drp.right).utc = FALSE
      BY <1>2, <1>4
    <3> QED
      BY <1>1, <3>1, <3>2
  <2>2. \A m \in Moments : /\ m.at >= drp.start.at /\ m \in {end, drp.start}
                           /\ (m = drp.start => end.at < drp.start.at \/ end = drp.start)
                           => OnDay(m, d)
    <3>1. OnDay(Cell(d, drp.right), d) /\ OnDay(Cell(d, drp.cells), d)
      BY <1>2, <1>4
    <3>2. /\ Cell(d, drp.right) \in Moments /\ Cell(d, drp.cells) \in Moments
          /\ Cell(d, 0) \in Moments /\ Cell(d + 1, 0) \in Moments
      BY <1>2, CellIsMoment, PickerAssumption
    <3>3. drp.end = None /\ drp.start.at < Cell(d + 1, 0).at
      BY <1>1, <1>6, <3>2 DEF BeginsRange, Moments
    <3> QED
      BY <1>1, <3>1, <3>2, <3>3 DEF OnDay, Moments
  <2>3. drp' = UpdateView(q) /\ clicked' = IF clicked = <<>> THEN <<>> ELSE <<clicked[1], d>>
    BY <1>6 DEF ClickDate, PickEnd
  <2> HIDE DEF end
  <2>4. /\ q \in Pickers /\ q.isShowing /\ q.end \in Moments
        /\ q.start.at <= q.end.at /\ q.start.utc = q.end.utc
        /\ q.oldStart = drp.oldStart /\ q.oldEnd = drp.oldEnd
        /\ q.start = drp.start
        /\ q.end = IF end.at < drp.start.at THEN drp.start ELSE end
    BY <1>1, <2>1, SetEndDateSets
  <2>5. OnDay(q.end, d) /\ q.end # None
    BY <1>1, <2>1, <2>4, <2>2, NoneIsNoMoment DEF Moments
  <2>6. drp.end = None
    BY <1>6 DEF BeginsRange
  <2> HIDE DEF q
  <2>7. Alike(q, drp') /\ Boxed(drp')
    BY <2>3, <2>4, UpdateViewKeeps
  <2>8. Sound(drp', inOrder)
    BY <1>1, <2>4, <2>7, WholeIsSound
  <2>9. clicked' \in Clicks
    BY <2>3 DEF Clicks, PickerInv, TypeOK
  <2> QED
    BY <1>1, <1>3, <2>3, <2>4, <2>7, <2>8, <2>9, <2>5, <2>6, OpenStep DEF Alike
<1> QED
  BY <1>5, <1>6

\* A later time of the start moves an end of the same day along, and the start stays on
\* its day, before an end of another one.
LEMMA TimeChangedKeepsInv ==
    ASSUME PickerInv, NEW side \in Both, NEW s \in 0 .. Slots - 1, TimeChanged(side, s),
           late' \in 0 .. MaxLate
    PROVE  /\ PickerInv' /\ StaysOpen
           /\ DayOf(drp'.start) = DayOf(drp.start) /\ drp'.start.utc = drp.start.utc
           /\ drp.end = None => drp'.end = None
           /\ drp.end # None => drp'.end # None /\ DayOf(drp'.end) = DayOf(drp.end)
           /\ drp'.oldStart = drp.oldStart
<1>1. /\ drp \in Pickers /\ drp.isShowing /\ Boxed(drp) /\ drp.start \in Moments
      /\ drp.oldStart.utc = drp.oldEnd.utc
      /\ inOrder => drp.oldStart.at <= drp.oldEnd.at
      /\ inOrder \in BOOLEAN
      /\ drp.end = None => ~drp.start.utc
  BY DEF PickerInv, TypeOK, Sound, TimeChanged, Pickers
<1>2. drp.end # None => /\ drp.end \in Moments /\ drp.start.utc = drp.end.utc
                        /\ inOrder => drp.start.at <= drp.end.at
  BY DEF PickerInv, Sound, Pickers
<1>3. UNCHANGED <<pageVars, utcPresets, told, opened, clicked>> /\ clicked \in Clicks
  BY DEF TimeChanged, PickerInv, TypeOK
<1>4. s \in Boxes /\ s # None
  BY NoneIsNoMoment, PickerAssumption DEF Boxes
<1>5. CASE LeftTimeChanged(s)
  <2> DEFINE start == AtSlot(drp.start, s)
             o == [drp EXCEPT !.left = s]
             p == SetStartDate(o, start)
             first == p.end # None /\ DayOf(p.end) = DayOf(start) /\ p.end.at < start.at
             q == IF first THEN SetEndDate(p, start) ELSE p
  <2>1. start \in Moments /\ start.utc = drp.start.utc /\ DayOf(start) = DayOf(drp.start)
    BY <1>1, AtSlotIsMoment, AtSlotIsThatDay
  <2>2. drp' = RedrawTimes(q)
    BY <1>5 DEF LeftTimeChanged
  <2>3. Alike(drp, o)
    BY <1>1, <1>4 DEF Alike, Boxed, Pickers
  <2> HIDE DEF o
  <2>4. Alike([o EXCEPT !.start = start], p)
    BY <1>1, <2>1, <2>3, SetStartDateSets DEF Alike
  <2>5. /\ p \in Pickers /\ p.isShowing /\ p.start = start /\ p.end = drp.end
        /\ p.oldStart = drp.oldStart /\ p.oldEnd = drp.oldEnd /\ Boxed(p)
    BY <1>1, <2>1, <2>3, <2>4 DEF Alike, Boxed, Pickers
  <2>6. SetEndDate(p, start) \in Pickers /\ SetEndDate(p, start).end \in Moments
    BY <2>1, <2>5, SetEndDateSets
  <2>7. inOrder /\ drp.end # None => DayOf(start) <= DayOf(drp.end)
    BY <1>1, <1>2, <2>1, DaysInOrder
  <2>8. inOrder /\ p.end # None /\ ~first => start.at <= p.end.at
    <3> SUFFICES ASSUME inOrder, drp.end # None, drp.end.at < start.at
                 PROVE  DayOf(drp.end) = DayOf(start)
      BY <1>2, <2>1, <2>5 DEF Moments
    <3>1. drp.end.at <= start.at /\ drp.end.utc = start.utc /\ drp.end \in Moments
      BY <1>2, <2>1 DEF Moments
    <3>2. DayOf(drp.end) <= DayOf(start)
      BY <2>1, <3>1, DaysInOrder
    <3> QED
      BY <2>1, <2>7, <3>1, <3>2, DayIsInt
  <2> HIDE DEF start, p, first
  <2>9. /\ q \in Pickers /\ q.isShowing /\ Boxed(q)
        /\ q.oldStart = drp.oldStart /\ q.oldEnd = drp.oldEnd
        /\ q.end # None => q.start.utc = q.end.utc
        /\ inOrder /\ q.end # None => q.start.at <= q.end.at
        /\ q.end = None => ~q.start.utc
        /\ q.start = start /\ (drp.end = None => q.end = None)
        /\ drp.end # None => q.end # None /\ DayOf(q.end) = DayOf(drp.end)
    <3>1. first => DayOf(drp.end) = DayOf(start) /\ drp.end # None
      BY <2>5 DEF first
    <3>2. CASE first
      BY <2>1, <2>5, <3>1, <3>2, SetEndDateSets, NoneIsNoMoment
    <3>3. CASE ~first
      BY <1>1, <1>2, <2>1, <2>5, <2>8, <3>3
    <3> QED
      BY <3>2, <3>3
  <2> HIDE DEF q
  <2>10. Alike(q, drp') /\ Applies(drp')
    BY <2>2, <2>9, RedrawTimesKeeps
  <2>11. Sound(drp', inOrder)
    BY <1>1, <2>9, <2>10 DEF Sound, Alike
  <2> QED
    BY <1>1, <1>3, <2>1, <2>9, <2>10, <2>11, OpenStep DEF Alike
<1>6. CASE RightTimeChanged(s)
  <2> DEFINE m == AtSlot(drp.end, s)
             o == [drp EXCEPT !.right = s]
             q == SetEndDate(o, m)
  <2>1. /\ m \in Moments /\ m.utc = drp.start.utc /\ DayOf(m) = DayOf(drp.end)
        /\ drp.end # None /\ ~(m.at < drp.start.at)
    BY <1>1, <1>2, <1>6, AtSlotIsMoment, AtSlotIsThatDay DEF RightTimeChanged, Moments
  <2>2. drp' = RedrawTimes(q)
    BY <1>6 DEF RightTimeChanged
  <2>3. Alike(drp, o)
    BY <1>1, <1>4 DEF Alike, Boxed, Pickers
  <2> HIDE DEF o, m
  <2>4. /\ o \in Pickers /\ o.isShowing /\ Boxed(o) /\ o.start = drp.start
        /\ o.oldStart = drp.oldStart /\ o.oldEnd = drp.oldEnd
    BY <1>1, <2>3 DEF Alike
  <2>5. /\ q \in Pickers /\ q.isShowing /\ q.end \in Moments
        /\ q.start.at <= q.end.at /\ q.start.utc = q.end.utc
        /\ q.oldStart = drp.oldStart /\ q.oldEnd = drp.oldEnd /\ Boxed(q)
        /\ q.start = drp.start /\ q.end = m
    BY <2>1, <2>4, SetEndDateSets
  <2> HIDE DEF q
  <2>6. Alike(q, drp')
    BY <2>2, <2>5, RedrawTimesKeeps
  <2>7. Sound(drp', inOrder)
    BY <1>1, <2>5, <2>6, WholeIsSound DEF Alike
  <2> QED
    BY <1>1, <1>3, <2>1, <2>5, <2>6, <2>7, NoneIsNoMoment, OpenStep DEF Alike
<1> QED
  BY <1>5, <1>6 DEF TimeChanged, Both

\* Setting both ends, as typing does, leaves a whole range in order.
LEMMA BothEndsSet ==
    ASSUME NEW p \in Pickers, p.isShowing \/ p.end # None,
           NEW m \in Moments, NEW n \in Moments, m.utc = n.utc
    PROVE  LET q == SetEndDate(SetStartDate(p, m), n)
           IN  /\ q \in Pickers /\ q.isShowing = p.isShowing
               /\ q.oldStart = p.oldStart /\ q.oldEnd = p.oldEnd
               /\ q.end \in Moments /\ q.start.at <= q.end.at /\ q.start.utc = q.end.utc
               /\ q.start = m
               /\ ~p.isShowing => q.text = <<Wall(q.start), Wall(q.end)>>
               /\ Boxed(p) => Boxed(q)
<1> DEFINE o == [p EXCEPT !.start = m]
           r == SetStartDate(p, m)
<1>1. /\ o.isShowing = p.isShowing /\ o.start = m /\ (Boxed(p) => Boxed(o))
      /\ o.oldStart = p.oldStart /\ o.oldEnd = p.oldEnd
  BY DEF Boxed, Pickers
<1>2. Alike(o, r)
  BY SetStartDateSets
<1> HIDE DEF o, r
<1>3. /\ r \in Pickers /\ r.isShowing = p.isShowing /\ r.start = m
      /\ r.oldStart = p.oldStart /\ r.oldEnd = p.oldEnd /\ (Boxed(p) => Boxed(r))
  BY <1>1, <1>2 DEF Alike
<1>4. /\ SetEndDate(r, n) \in Pickers
      /\ SetEndDate(r, n).isShowing = r.isShowing /\ SetEndDate(r, n).start = r.start
      /\ SetEndDate(r, n).oldStart = r.oldStart /\ SetEndDate(r, n).oldEnd = r.oldEnd
      /\ SetEndDate(r, n).end \in Moments
      /\ SetEndDate(r, n).start.at <= SetEndDate(r, n).end.at
      /\ n.utc = r.start.utc => SetEndDate(r, n).end.utc = SetEndDate(r, n).start.utc
      /\ ~r.isShowing =>
             SetEndDate(r, n).text = <<Wall(SetEndDate(r, n).start), Wall(SetEndDate(r, n).end)>>
      /\ Boxed(r) => Boxed(SetEndDate(r, n))
  BY <1>3, SetEndDateSets
<1> QED
  BY <1>3, <1>4 DEF r

\* What is typed is read by the browser's clock.
LEMMA ParseIsLocal == ASSUME NEW w PROVE Parse(w).utc = FALSE
  BY DEF Parse, Local

\* Two dates above the calendars set both ends,
LEMMA SetBothSets ==
    ASSUME PickerInv, drp.isShowing, NEW side \in Both, NEW typed \in [Both -> Texts],
           typed.left \in Int, typed.right \in Int
    PROVE  LET q == SetBoth(side, typed)
           IN  /\ q \in Pickers /\ q.isShowing /\ Boxed(q)
               /\ q.oldStart = drp.oldStart /\ q.oldEnd = drp.oldEnd
               /\ q.end \in Moments /\ q.start.at <= q.end.at /\ q.start.utc = q.end.utc
               /\ ~q.start.utc
<1> DEFINE end   == Parse(typed.right)
           start == IF side = "right" /\ typed.right < typed.left THEN end ELSE Parse(typed.left)
           p     == SetEndDate(SetStartDate(drp, start), end)
           other == IF side = "right" THEN [typed EXCEPT !.left = Wall(p.start)]
                                      ELSE [typed EXCEPT !.right = Wall(p.end)]
<1>1. drp \in Pickers /\ Boxed(drp)
  BY DEF PickerInv, Sound
<1>2. SetBoth(side, typed) = [p EXCEPT !.inputs = other]
  BY DEF SetBoth
<1>3. start \in Moments /\ end \in Moments /\ start.utc = end.utc /\ ~start.utc
  BY ParseIsMoment, ParseIsLocal
<1> HIDE DEF start, end
<1>4. /\ p \in Pickers /\ p.isShowing /\ Boxed(p)
      /\ p.oldStart = drp.oldStart /\ p.oldEnd = drp.oldEnd
      /\ p.end \in Moments /\ p.start.at <= p.end.at /\ p.start.utc = p.end.utc
      /\ ~p.start.utc
  BY <1>1, <1>3, BothEndsSet
<1> HIDE DEF p
<1>5. Wall(p.start) \in Texts /\ Wall(p.end) \in Texts
  BY <1>4, WallIsInt DEF Texts, Pickers
<1>6. other \in [Both -> Texts]
  BY <1>5 DEF Both
<1> HIDE DEF other
<1> QED
  BY <1>2, <1>4, <1>6 DEF Boxed, Pickers

\* and a box that holds no date leaves them.
LEMMA FormInputsChangedKeepsInv ==
    ASSUME PickerInv, NEW side \in Both, NEW w \in Int \cup {None}, FormInputsChanged(side, w),
           late' \in 0 .. MaxLate
    PROVE  /\ PickerInv' /\ StaysOpen
           /\ drp'.isShowing /\ drp'.oldStart = drp.oldStart
           /\ \/ drp'.start = drp.start /\ drp'.end = drp.end /\ clicked' = clicked
              \/ drp'.end # None /\ ~drp'.start.utc /\ clicked' = <<>>
<1> DEFINE typed == [drp.inputs EXCEPT ![side] = w]
           valid == None \notin {typed.left, typed.right}
           q     == IF valid THEN SetBoth(side, typed) ELSE [drp EXCEPT !.inputs = typed]
<1>1. /\ drp \in Pickers /\ drp.isShowing /\ Sound(drp, inOrder) /\ inOrder \in BOOLEAN
      /\ drp.oldStart.utc = drp.oldEnd.utc /\ (inOrder => drp.oldStart.at <= drp.oldEnd.at)
  BY DEF PickerInv, TypeOK, Sound, FormInputsChanged
<1>2. typed \in [Both -> Texts]
  BY <1>1 DEF Pickers, Texts
<1>3. drp' = RenderTimePickers(UpdateCalendars(q)) /\ clicked' = IF valid THEN <<>> ELSE clicked
  BY DEF FormInputsChanged
<1>4. UNCHANGED <<pageVars, utcPresets, told, opened>> /\ clicked' \in Clicks
  <2>1. UNCHANGED <<pageVars, utcPresets, told, opened>> /\ clicked' \in {clicked, <<>>}
    BY <1>3 DEF FormInputsChanged
  <2> QED
    BY <2>1 DEF Clicks, PickerInv, TypeOK
<1>5. valid => typed.left \in Int /\ typed.right \in Int
  <2>1. typed.left \in Walls \cup {None} /\ typed.right \in Walls \cup {None}
    BY DEF FormInputsChanged
  <2>2. Walls \subseteq Int
    BY DEF Walls
  <2> QED
    BY <2>1, <2>2
<1> HIDE DEF typed
<1>6. \A p \in Pickers : /\ Alike(p, RenderTimePickers(UpdateCalendars(p)))
                         /\ RenderTimePickers(UpdateCalendars(p)).apply = p.apply
  <2> SUFFICES ASSUME NEW p \in Pickers
               PROVE  /\ Alike(p, RenderTimePickers(UpdateCalendars(p)))
                      /\ RenderTimePickers(UpdateCalendars(p)).apply = p.apply
    OBVIOUS
  <2>1. Alike(p, UpdateCalendars(p)) /\ UpdateCalendars(p).apply = p.apply
    BY UpdateCalendarsKeeps
  <2>2. UpdateCalendars(p) \in Pickers
    BY <2>1 DEF Alike
  <2>3. /\ Alike(UpdateCalendars(p), RenderTimePickers(UpdateCalendars(p)))
        /\ RenderTimePickers(UpdateCalendars(p)).apply = UpdateCalendars(p).apply
    BY <2>2, RenderTimePickersKeeps
  <2> QED
    BY <2>1, <2>3 DEF Alike
<1>7. CASE valid
  <2>1. /\ q \in Pickers /\ q.isShowing /\ Boxed(q)
        /\ q.oldStart = drp.oldStart /\ q.oldEnd = drp.oldEnd
        /\ q.end \in Moments /\ q.start.at <= q.end.at /\ q.start.utc = q.end.utc
        /\ ~q.start.utc
    BY <1>1, <1>2, <1>5, <1>7, SetBothSets
  <2>2. clicked' = <<>>
    BY <1>3, <1>7
  <2> HIDE DEF q, valid
  <2>3. Alike(q, drp')
    BY <1>3, <1>6, <2>1
  <2>4. Sound(drp', inOrder)
    BY <1>1, <2>1, <2>3, WholeIsSound DEF Alike
  <2> QED
    BY <1>1, <1>4, <2>1, <2>2, <2>3, <2>4, NoneIsNoMoment, OpenStep DEF Alike
<1>8. CASE ~valid
  <2>1. Alike(drp, q) /\ q.apply = drp.apply
    BY <1>1, <1>2, <1>8 DEF Alike, Boxed, Pickers
  <2>2. clicked' = clicked
    BY <1>3, <1>8
  <2> HIDE DEF q, valid
  <2>3. Alike(drp, drp') /\ drp'.apply = drp.apply
    BY <1>3, <1>6, <2>1 DEF Alike
  <2>4. Applies(drp')
    BY <1>1, <2>3 DEF Alike, Applies, Sound
  <2>5. Sound(drp', inOrder)
    BY <1>1, <2>3, <2>4, AlikeIsSound
  <2> QED
    BY <1>1, <1>4, <2>2, <2>3, <2>5, OpenStep DEF Alike
<1> QED
  BY <1>7, <1>8

\* A text of the page's input sets both ends, even while the picker is closed.
LEMMA ElementChangedKeepsInv ==
    ASSUME PickerInv, NEW t \in Typed, ElementChanged(t), late' \in 0 .. MaxLate
    PROVE  /\ PickerInv' /\ StaysOpen
           /\ drp'.end # None
           /\ ~drp'.start.utc /\ drp'.oldStart = drp.oldStart
           /\ ~drp'.isShowing => drp'.text = <<Wall(drp'.start), Wall(drp'.end)>>
<1> DEFINE q == SetEndDate(SetStartDate(drp, Parse(t[1])), Parse(t[2]))
<1>1. /\ drp \in Pickers /\ (drp.isShowing \/ drp.end # None) /\ (drp.isShowing => Boxed(drp))
      /\ inOrder \in BOOLEAN
      /\ drp.oldStart.utc = drp.oldEnd.utc /\ (inOrder => drp.oldStart.at <= drp.oldEnd.at)
  BY DEF PickerInv, TypeOK, Sound
<1>2. t \in Int \X Int
  BY PickerAssumption
<1>3. /\ Parse(t[1]) \in Moments /\ Parse(t[2]) \in Moments
      /\ Parse(t[1]).utc = Parse(t[2]).utc /\ ~Parse(t[1]).utc
  BY <1>2, ParseIsMoment, ParseIsLocal
<1>4. /\ drp' = UpdateView(q) /\ UNCHANGED <<pageVars, utcPresets, told, opened>>
      /\ clicked' \in Clicks
  BY DEF ElementChanged, Clicks
<1>5. /\ q \in Pickers /\ q.isShowing = drp.isShowing
      /\ q.oldStart = drp.oldStart /\ q.oldEnd = drp.oldEnd
      /\ q.end \in Moments /\ q.start.at <= q.end.at /\ q.start.utc = q.end.utc
      /\ ~q.start.utc /\ (~q.isShowing => q.text = <<Wall(q.start), Wall(q.end)>>)
  BY <1>1, <1>3, BothEndsSet
<1> HIDE DEF q
<1>6. Alike(q, drp') /\ Boxed(drp') /\ drp'.text = q.text
  BY <1>4, <1>5, UpdateViewKeeps
<1>7. Sound(drp', inOrder)
  BY <1>1, <1>5, <1>6, WholeIsSound
<1> QED
  BY <1>1, <1>4, <1>5, <1>6, <1>7, NoneIsNoMoment, OpenStep DEF Alike

\* A text that is no date changes nothing else.
LEMMA ElementUnreadableKeepsInv ==
    ASSUME PickerInv, ElementUnreadable, late' \in 0 .. MaxLate
    PROVE  /\ PickerInv' /\ StaysOpen
           /\ ~drp'.isShowing /\ drp'.text = NoDate
           /\ drp'.start = drp.start /\ drp'.end = drp.end /\ drp'.oldStart = drp.oldStart
<1>1. /\ drp \in Pickers /\ Sound(drp, inOrder) /\ ~drp.isShowing
      /\ drp' = [drp EXCEPT !.text = NoDate]
      /\ UNCHANGED <<pageVars, utcPresets, told, opened, clicked>> /\ clicked \in Clicks
  BY DEF PickerInv, TypeOK, Sound, ElementUnreadable
<1>2. /\ drp' \in Pickers /\ drp'.text = NoDate /\ drp'.isShowing = drp.isShowing
      /\ drp'.start = drp.start /\ drp'.end = drp.end
      /\ drp'.oldStart = drp.oldStart /\ drp'.oldEnd = drp.oldEnd
  BY <1>1 DEF Pickers
<1>3. Sound(drp', inOrder)
  BY <1>1, <1>2 DEF Sound
<1> QED
  BY <1>1, <1>2, <1>3, OpenStep

-----------------------------------------------------------------------------
(***************************************************************************)
(* What Sound shows.                                                       *)
(***************************************************************************)
\* Only a click that closes the picker closes it.
Closing ==
    OutsideClick \/ ClickApply \/ ClickCancel \/ \E l \in Presets : ClickRange(l)

\* A click that closes keeps the invariant and the promise,
LEMMA ClosingStepKeeps ==
    ASSUME PickerInv, Closing, late' \in 0 .. MaxLate
    PROVE  PickerInv' /\ ToldOrRestored
  BY ClosingKeepsPromise, PresetKeepsPromise DEF Closing

\* and every other one leaves an open picker open.
LEMMA OtherStepKeeps ==
    ASSUME PickerInv, UserActs, ~Closing, late' \in 0 .. MaxLate
    PROVE  PickerInv' /\ StaysOpen
<1>1. CASE Show
  BY <1>1, ShowKeepsInv DEF Show, StaysOpen
<1>2. CASE Looking
  BY <1>2, LookingKeepsInv
<1>3. ASSUME NEW d \in 0 .. Days - 1, ClickDate(d)
      PROVE  PickerInv' /\ StaysOpen
  BY <1>3, ClickDateKeepsInv
<1>4. ASSUME NEW side \in Both, NEW s \in 0 .. Slots - 1, TimeChanged(side, s)
      PROVE  PickerInv' /\ StaysOpen
  BY <1>4, TimeChangedKeepsInv
<1>5. ASSUME NEW side \in Both, NEW w \in Int \cup {None}, FormInputsChanged(side, w)
      PROVE  PickerInv' /\ StaysOpen
  BY <1>5, FormInputsChangedKeepsInv
<1>6. ASSUME NEW t \in Typed, ElementChanged(t)
      PROVE  PickerInv' /\ StaysOpen
  BY <1>6, ElementChangedKeepsInv
<1>7. CASE ElementUnreadable
  BY <1>7, ElementUnreadableKeepsInv
<1>8. \A t \in Typed : t[1] \in Int \cup {None} /\ t[2] \in Int \cup {None}
  BY PickerAssumption
<1>9. None \in Int \cup {None}
  OBVIOUS
<1> QED
  BY <1>1, <1>2, <1>3, <1>4, <1>5, <1>6, <1>7, <1>8, <1>9
     DEF UserActs, Keydown, Closing, Looking, Both

\* A user's step counts as late at most to the bound.
LEMMA LateIsBounded ==
    ASSUME PickerInv, Next PROVE late' \in 0 .. MaxLate
<1>1. late \in 0 .. MaxLate /\ MaxLate \in Nat
  BY PickerAssumption DEF PickerInv, TypeOK
<1>2. CASE Load
  BY <1>1, <1>2 DEF Load
<1>3. CASE ~Load
  BY <1>1, <1>3 DEF Next
<1> QED
  BY <1>2, <1>3

\* Every reachable state of the picker satisfies the invariant.
LEMMA PickerIsSound == Spec => []PickerInv
<1>1. PickerInv /\ UNCHANGED vars => PickerInv'
  BY DEF PickerInv, TypeOK, Known, Sound, vars, pageVars
<1>2. PickerInv /\ Next => PickerInv'
  BY ClosingStepKeeps, OtherStepKeeps, LoadKeepsInv, LateIsBounded DEF Next
<1> QED
  BY InitPickerInv, <1>1, <1>2, PTL DEF Spec

\* Whatever is clicked and typed, the fields of the picker keep their types: no moment of
\* it becomes anything but a moment, whatever end was missing on the way.
THEOREM PickerIsTyped == Spec => []TypeOK
<1>1. PickerInv => TypeOK
  BY DEF PickerInv
<1> QED
  BY PickerIsSound, <1>1, PTL

\* No range shown ends before it starts, unless the page made the picker with such a one,
\* and no page is told such a range, whatever it was made with.
THEOREM RangesStayOrdered == Spec => []RangeIsOrdered
<1>1. PickerInv => RangeIsOrdered
  BY DEF PickerInv, TypeOK, Known, Sound, RangeIsOrdered, Ordered, Range
<1> QED
  BY PickerIsSound, <1>1, PTL

\* A range without an end never outlives the open picker, and Apply is off for it.
THEOREM HalfRangesStayOpen == Spec => []HalfRangeStaysOpen
<1>1. PickerInv => HalfRangeStaysOpen
  BY DEF PickerInv, Sound, Applies, HalfRangeStaysOpen
<1> QED
  BY PickerIsSound, <1>1, PTL

-----------------------------------------------------------------------------
(***************************************************************************)
(* What the history and the page's input say of the range.  On a page of   *)
(* logs every moment is read by the browser's clock until Apply: nothing   *)
(* else calls utc() there; and the input of a closed picker shows its      *)
(* range or no date.  On every page a single clicked day is the one of the *)
(* start, of a range that has no end yet; two clicked days are those of    *)
(* both ends, and as long as the picker is open the days are those of the  *)
(* browser's clock, in which another time of the day leaves the day.       *)
(***************************************************************************)
ShowsRange(p) == ~p.isShowing => p.text \in {<<Wall(p.start), Wall(p.end)>>, NoDate}

LogsAreLocal ==
    page = "logs" /\ goingTo = None =>
        utcPresets = {} /\ ~drp.start.utc /\ ~drp.oldStart.utc /\ ShowsRange(drp)

ClicksAreDays ==
    /\ clicked = <<>> => drp.end # None
    /\ Len(clicked) = 1 => drp.end = None /\ OnDay(drp.start, clicked[1])
    /\ Len(clicked) = 2 => /\ drp.end # None
                           /\ OnDay(drp.start, clicked[1]) /\ OnDay(drp.end, clicked[2])
                           /\ drp.isShowing => ~drp.start.utc

HistoryInv == PickerInv /\ LogsAreLocal /\ ClicksAreDays

\* There are no days clicked, one or two.
LEMMA ClickedDays ==
    ASSUME NEW c \in Clicks
    PROVE  \/ c = <<>> /\ Len(c) = 0
           \/ Len(c) = 1 /\ c # <<>> /\ c[1] \in 0 .. Days - 1
           \/ Len(c) = 2 /\ c # <<>> /\ c[1] \in 0 .. Days - 1 /\ c[2] \in 0 .. Days - 1
  BY DEF Clicks

\* What leaves a range and forgets the clicks.
LEMMA ClicksForgotten ==
    ASSUME clicked' = <<>>, drp'.end # None
    PROVE  ClicksAreDays'
<1>1. Len(<<>>) = 0
  OBVIOUS
<1> QED
  BY <1>1 DEF ClicksAreDays

\* The constructor writes the input.
LEMMA InitHistoryInv == Init => HistoryInv
<1> SUFFICES ASSUME Init PROVE HistoryInv
  OBVIOUS
<1>1. PICK range \in Int \X Int, utc \in BOOLEAN :
          drp = Made(range, utc) /\ (page = "logs" => ~utc)
  <2>1. CASE ChartsPage
    BY <2>1, PickerAssumption DEF ChartsPage
  <2>2. CASE LogsPage
    BY <2>2, LogsRangeIsRange, PickerAssumption DEF LogsPage
  <2> QED
    BY <2>1, <2>2 DEF Init
<1>2. /\ drp.end # None /\ drp.start.utc = utc /\ drp.oldStart.utc = utc
      /\ drp.text = <<Wall(drp.start), Wall(drp.end)>>
  BY <1>1, MadeIsSound
<1>3. utcPresets = {} /\ clicked = <<>> /\ Len(<<>>) = 0
  BY DEF Init
<1>4. LogsAreLocal
  BY <1>1, <1>2, <1>3 DEF LogsAreLocal, ShowsRange
<1>5. ClicksAreDays
  BY <1>2, <1>3 DEF ClicksAreDays
<1> QED
  BY <1>4, <1>5, InitPickerInv DEF HistoryInv

\* The text read back is the range it was written of.
LEMMA TextReadsBack ==
    ASSUME NEW p \in Pickers, p.end \in Moments, ~p.start.utc, ~p.end.utc,
           NEW text, text = <<Wall(p.start), Wall(p.end)>>
    PROVE  Range(p) = <<Parse(text[1]).at, Parse(text[2]).at>>
<1>1. \A m \in Moments : ~m.utc => Parse(Wall(m)).at = m.at
  BY PickerAssumption DEF Parse, Local, Wall, Moments
<1> QED
  BY <1>1 DEF Range, Pickers

\* The page of the logs is sent where the text of its input says.
SentWhereTextSays ==
    goingTo = None /\ goingTo' # None =>
        goingTo' = <<Parse(drp'.text[1]).at, Parse(drp'.text[2]).at>>

\* What closing does with a range that is there or was there.
LEMMA HiddenKeepsHistory ==
    ASSUME HistoryInv, NEW p, Even(p), drp' = Hidden(p), UNCHANGED <<page, goingTo>>,
           p.oldStart = drp.oldStart,
           page = "logs" /\ goingTo = None => ~p.start.utc /\ utcPresets' = {},
           clicked' = <<>> \/ (clicked' = clicked /\ p = drp /\ drp.end # None)
    PROVE  LogsAreLocal' /\ ClicksAreDays'
<1>1. page \in {"charts", "logs"}
  BY DEF HistoryInv, PickerInv, TypeOK
<1>2. /\ ~drp'.isShowing /\ drp'.end # None /\ drp'.oldStart = p.oldStart
      /\ drp'.text = <<Wall(drp'.start), Wall(drp'.end)>>
      /\ Range(drp') = Range(GiveUpHalf(p))
      /\ page = "logs" => drp'.start = GiveUpHalf(p).start
  BY <1>1, HiddenIsShut DEF Shut
<1>3. GiveUpHalf(p).start \in {p.start, p.oldStart}
  BY DEF GiveUpHalf, Even, Pickers
<1>4. LogsAreLocal'
  BY <1>2, <1>3 DEF HistoryInv, LogsAreLocal, ShowsRange
<1>5. CASE clicked' = <<>>
  BY <1>2, <1>4, <1>5, ClicksForgotten
<1>6. CASE clicked' = clicked /\ p = drp /\ drp.end # None
  <2>1. drp'.start.at = drp.start.at /\ drp'.end.at = drp.end.at
    BY <1>2, <1>6 DEF GiveUpHalf, Range
  <2>2. ClicksAreDays'
    BY <1>2, <1>6, <2>1 DEF HistoryInv, ClicksAreDays, OnDay
  <2> QED
    BY <1>4, <2>2
<1> QED
  BY <1>5, <1>6

\* Apply sends the page of the logs to the range that its input shows.
LEMMA ApplyKeepsHistory ==
    ASSUME HistoryInv, NEW p, Even(p), Apply(p), UNCHANGED page,
           p.oldStart = drp.oldStart, p.end # None,
           page = "logs" /\ goingTo = None => ~p.start.utc,
           clicked' = <<>> \/ (clicked' = clicked /\ p = drp /\ drp.end # None)
    PROVE  LogsAreLocal' /\ ClicksAreDays' /\ SentWhereTextSays
<1>1. CASE page = "charts"
  <2>1. drp' = Hidden(p) /\ goingTo' = goingTo /\ goingTo = None
    BY <1>1 DEF Apply, Hide, HistoryInv, PickerInv, Known
  <2> QED
    BY <1>1, <2>1, HiddenKeepsHistory DEF SentWhereTextSays
<1>2. CASE page = "logs"
  <2>1. drp' = InUtc(Hidden(p)) /\ goingTo' = Range(drp')
    BY <1>2 DEF Apply
  <2>2. /\ Shut(Hidden(p)) /\ Range(Hidden(p)) = Range(p)
        /\ Hidden(p).text = <<Wall(Hidden(p).start), Wall(Hidden(p).end)>>
        /\ Hidden(p).start = p.start /\ Hidden(p).end = p.end
    BY <1>2, HiddenIsShut DEF GiveUpHalf
  <2>3. /\ Shut(drp') /\ Range(drp') = Range(p) /\ drp'.text = Hidden(p).text
    BY <2>1, <2>2, InUtcIsShut
  <2>4. /\ drp' \in Pickers /\ ~drp'.isShowing /\ drp'.end # None /\ drp'.end \in Moments
        /\ Hidden(p) \in Pickers /\ Hidden(p).end \in Moments
    BY <2>2, <2>3 DEF Shut, Even
  <2>5. goingTo' # None
    BY <2>1, <2>4, RangeIsInts
  <2>6. LogsAreLocal'
    BY <2>5 DEF LogsAreLocal
  <2>7. ClicksAreDays'
    <3>1. CASE clicked' = <<>>
      BY <2>4, <3>1, ClicksForgotten
    <3>2. CASE clicked' = clicked /\ p = drp /\ drp.end # None
      <4>1. drp'.start.at = drp.start.at /\ drp'.end.at = drp.end.at
        BY <2>3, <3>2 DEF Range
      <4> QED
        BY <2>4, <3>2, <4>1 DEF HistoryInv, ClicksAreDays, OnDay
    <3> QED
      BY <3>1, <3>2
  <2>8. SentWhereTextSays
    <3> SUFFICES ASSUME goingTo = None
                 PROVE  goingTo' = <<Parse(drp'.text[1]).at, Parse(drp'.text[2]).at>>
      BY DEF SentWhereTextSays
    <3>1. ~Hidden(p).start.utc /\ ~Hidden(p).end.utc
      BY <1>2, <2>2 DEF Even
    <3>2. Range(Hidden(p)) = <<Parse(drp'.text[1]).at, Parse(drp'.text[2]).at>>
      BY <2>2, <2>3, <2>4, <3>1, TextReadsBack
    <3> QED
      BY <2>1, <2>2, <2>3, <3>2
  <2> QED
    BY <2>6, <2>7, <2>8
<1> QED
  BY <1>1, <1>2 DEF HistoryInv, PickerInv, TypeOK

\* So do the clicks that close the picker.
LEMMA ClosingKeepsHistory ==
    ASSUME HistoryInv, Closing
    PROVE  LogsAreLocal' /\ ClicksAreDays' /\ SentWhereTextSays
<1>1. /\ drp \in Pickers /\ Even(drp)
      /\ drp.isShowing => Applies(drp)
      /\ page = "logs" /\ goingTo = None =>
             utcPresets = {} /\ ~drp.start.utc /\ ~drp.oldStart.utc
  BY DEF HistoryInv, PickerInv, Sound, Even, LogsAreLocal
<1>2. CASE OutsideClick
  <2>1. /\ drp' = Hidden(drp) /\ UNCHANGED <<page, goingTo, utcPresets>>
        /\ clicked' = <<>> \/ (clicked' = clicked /\ drp.end # None)
    BY <1>2 DEF OutsideClick, Hide
  <2> QED
    BY <1>1, <2>1, HiddenKeepsHistory DEF SentWhereTextSays
<1>3. CASE ClickApply
  <2>1. /\ Apply(drp) /\ UNCHANGED <<page, clicked>> /\ drp.isShowing /\ drp.apply
    BY <1>3 DEF ClickApply
  <2>2. drp.end # None
    BY <1>1, <2>1 DEF Applies
  <2> QED
    BY <1>1, <2>1, <2>2, ApplyKeepsHistory
<1>4. CASE ClickCancel
  <2> DEFINE p == [drp EXCEPT !.start = drp.oldStart, !.end = drp.oldEnd]
  <2>1. /\ p \in Pickers /\ p.oldStart = drp.oldStart /\ p.oldEnd = drp.oldEnd
        /\ p.start = drp.oldStart /\ p.end = drp.oldEnd
    BY <1>1 DEF Pickers
  <2>2. drp' = Hidden(p) /\ clicked' = <<>> /\ UNCHANGED <<page, goingTo, utcPresets>>
    BY <1>4 DEF ClickCancel, Hide
  <2> HIDE DEF p
  <2>3. Even(p)
    BY <1>1, <2>1 DEF Even
  <2> QED
    BY <1>1, <2>1, <2>2, <2>3, HiddenKeepsHistory DEF SentWhereTextSays
<1>5. ASSUME NEW l \in Presets, ClickRange(l)
      PROVE  LogsAreLocal' /\ ClicksAreDays' /\ SentWhereTextSays
  <2> DEFINE p == [drp EXCEPT !.start = Preset(l, 1), !.end = Preset(l, 2), !.calendars = FALSE]
  <2>1. /\ Preset(l, 1) \in Moments /\ Preset(l, 2) \in Moments
        /\ Preset(l, 1).utc = Preset(l, 2).utc /\ Preset(l, 1).utc = (l \in utcPresets)
    BY PresetIsRange
  <2>2. Apply(p) /\ clicked' = <<>> /\ page' = page
    BY <1>5 DEF ClickRange
  <2>3. /\ p \in Pickers /\ p.oldStart = drp.oldStart /\ p.oldEnd = drp.oldEnd
        /\ p.start = Preset(l, 1) /\ p.end = Preset(l, 2)
    BY <1>1, <2>1 DEF Pickers
  <2> HIDE DEF p
  <2>4. Even(p) /\ p.end # None
    BY <1>1, <2>1, <2>3, NoneIsNoMoment DEF Even
  <2>5. page = "logs" /\ goingTo = None => ~p.start.utc
    BY <1>1, <2>1, <2>3
  <2> QED
    BY <2>2, <2>3, <2>4, <2>5, ApplyKeepsHistory
<1> QED
  BY <1>2, <1>3, <1>4, <1>5 DEF Closing

\* A click on a day is remembered as the day of the end it sets, the other end stays.
LEMMA ClickDateKeepsHistory ==
    ASSUME HistoryInv, NEW d \in 0 .. Days - 1, ClickDate(d), late' \in 0 .. MaxLate
    PROVE  LogsAreLocal' /\ ClicksAreDays'
<1>1. PickerInv' /\ drp'.isShowing /\ drp'.oldStart = drp.oldStart
  BY ClickDateKeepsInv DEF HistoryInv, StaysOpen, ClickDate
<1>2. UNCHANGED <<pageVars, utcPresets>>
  BY DEF ClickDate
<1>3. CASE drp'.end = None /\ OnDay(drp'.start, d) /\ clicked' = <<d>>
  <2>1. ~drp'.start.utc
    BY <1>1, <1>3 DEF PickerInv, Sound
  <2>2. LogsAreLocal'
    BY <1>1, <1>2, <2>1 DEF HistoryInv, LogsAreLocal, ShowsRange, pageVars
  <2>3. Len(<<d>>) = 1 /\ <<d>>[1] = d /\ <<d>> # <<>>
    OBVIOUS
  <2>4. ClicksAreDays'
    BY <1>3, <2>3 DEF ClicksAreDays
  <2> QED
    BY <2>2, <2>4
<1>4. CASE /\ drp.end = None /\ drp'.start = drp.start
           /\ drp'.end # None /\ OnDay(drp'.end, d)
           /\ clicked' = IF clicked = <<>> THEN <<>> ELSE <<clicked[1], d>>
  <2>1. ~drp'.start.utc
    BY <1>4 DEF HistoryInv, PickerInv, Sound
  <2>2. LogsAreLocal'
    BY <1>1, <1>2, <2>1 DEF HistoryInv, LogsAreLocal, ShowsRange, pageVars
  <2>3. clicked \in Clicks /\ drp.end = None
    BY <1>4 DEF HistoryInv, PickerInv, TypeOK
  <2>4. Len(clicked) = 1 /\ clicked # <<>> /\ OnDay(drp.start, clicked[1])
    BY <2>3, ClickedDays DEF HistoryInv, ClicksAreDays
  <2> DEFINE c == <<clicked[1], d>>
  <2>5. clicked' = c /\ Len(c) = 2 /\ c[1] = clicked[1] /\ c[2] = d /\ c # <<>>
    BY <1>4, <2>4
  <2> HIDE DEF c
  <2>6. ClicksAreDays'
    BY <1>4, <2>1, <2>4, <2>5 DEF ClicksAreDays
  <2> QED
    BY <2>2, <2>6
<1> QED
  BY <1>3, <1>4, ClickDateKeepsInv DEF HistoryInv

\* A time box leaves both ends on their days.
LEMMA TimeChangedKeepsHistory ==
    ASSUME HistoryInv, NEW side \in Both, NEW s \in 0 .. Slots - 1, TimeChanged(side, s),
           late' \in 0 .. MaxLate
    PROVE  LogsAreLocal' /\ ClicksAreDays'
<1>1. /\ PickerInv' /\ drp'.isShowing /\ drp'.oldStart = drp.oldStart
      /\ DayOf(drp'.start) = DayOf(drp.start) /\ drp'.start.utc = drp.start.utc
      /\ drp.end = None => drp'.end = None
      /\ drp.end # None => drp'.end # None /\ DayOf(drp'.end) = DayOf(drp.end)
  BY TimeChangedKeepsInv DEF HistoryInv, StaysOpen, TimeChanged
<1>2. UNCHANGED <<pageVars, utcPresets, clicked>> /\ drp.isShowing /\ clicked \in Clicks
  BY DEF TimeChanged, HistoryInv, PickerInv, TypeOK
<1>3. LogsAreLocal'
  BY <1>1, <1>2 DEF HistoryInv, LogsAreLocal, ShowsRange, pageVars
<1>4. ASSUME NEW m \in Moments, NEW n \in Moments, ~m.utc, ~n.utc, DayOf(m) = DayOf(n),
             NEW d \in 0 .. Days - 1, OnDay(m, d)
      PROVE  OnDay(n, d)
  <2>1. d \in Int
    BY PickerAssumption
  <2> QED
    BY <1>4, <2>1, LocalDay
<1>5. /\ drp.start \in Moments /\ drp'.start \in Moments
      /\ drp.end # None => drp.end \in Moments /\ drp'.end \in Moments
      /\ drp.end = None => ~drp.start.utc
      /\ drp.end # None => drp.start.utc = drp.end.utc /\ drp'.start.utc = drp'.end.utc
  BY <1>1 DEF HistoryInv, PickerInv, Sound, Pickers
<1>6. CASE clicked = <<>>
  BY <1>1, <1>2, <1>3, <1>6, ClicksForgotten DEF HistoryInv, ClicksAreDays
<1>7. CASE Len(clicked) = 1 /\ clicked # <<>> /\ clicked[1] \in 0 .. Days - 1
  <2>1. drp.end = None /\ OnDay(drp.start, clicked[1])
    BY <1>7 DEF HistoryInv, ClicksAreDays
  <2>2. drp'.end = None /\ OnDay(drp'.start, clicked[1])
    BY <1>1, <1>4, <1>5, <1>7, <2>1
  <2>3. ClicksAreDays'
    BY <1>2, <1>7, <2>2 DEF ClicksAreDays
  <2> QED
    BY <1>3, <2>3
<1>8. CASE /\ Len(clicked) = 2 /\ clicked # <<>>
           /\ clicked[1] \in 0 .. Days - 1 /\ clicked[2] \in 0 .. Days - 1
  <2>1. /\ drp.end # None /\ ~drp.start.utc
        /\ OnDay(drp.start, clicked[1]) /\ OnDay(drp.end, clicked[2])
    BY <1>2, <1>8 DEF HistoryInv, ClicksAreDays
  <2>2. ~drp'.start.utc /\ ~drp.end.utc /\ ~drp'.end.utc
    BY <1>1, <1>5, <2>1
  <2>3. OnDay(drp'.start, clicked[1]) /\ OnDay(drp'.end, clicked[2])
    BY <1>1, <1>4, <1>5, <1>8, <2>1, <2>2
  <2>4. ClicksAreDays'
    BY <1>1, <1>2, <1>8, <2>1, <2>2, <2>3 DEF ClicksAreDays
  <2> QED
    BY <1>3, <2>4
<1> QED
  BY <1>2, <1>6, <1>7, <1>8, ClickedDays

\* The page that is loaded begins by the browser's clock.
LEMMA LoadKeepsHistory ==
    ASSUME HistoryInv, Load
    PROVE  LogsAreLocal' /\ ClicksAreDays'
<1>1. /\ drp'.end # None /\ ~drp'.start.utc /\ ~drp'.oldStart.utc
      /\ drp'.text = <<Wall(drp'.start), Wall(drp'.end)>>
  BY LoadKeepsInv DEF HistoryInv
<1>2. utcPresets' = {} /\ clicked' = <<>>
  BY DEF Load
<1>3. LogsAreLocal'
  BY <1>1, <1>2 DEF LogsAreLocal, ShowsRange
<1> QED
  BY <1>1, <1>2, <1>3, ClicksForgotten

\* The other steps leave the range and the clicks, or forget these.
LEMMA OtherStepKeepsHistory ==
    ASSUME HistoryInv, UserActs, ~Closing, late' \in 0 .. MaxLate
    PROVE  LogsAreLocal' /\ ClicksAreDays' /\ goingTo' = goingTo
<1>1. CASE Show
  <2>1. /\ drp'.isShowing
        /\ drp'.end # None /\ drp'.start = drp.start /\ drp'.oldStart = drp.start
    BY <1>1, ShowKeepsInv DEF HistoryInv
  <2>2. UNCHANGED <<pageVars, utcPresets>> /\ clicked' = <<>>
    BY <1>1 DEF Show
  <2>3. LogsAreLocal'
    BY <2>1, <2>2 DEF HistoryInv, LogsAreLocal, ShowsRange, pageVars
  <2> QED
    BY <2>1, <2>2, <2>3, ClicksForgotten DEF pageVars
<1>2. CASE Looking
  <2>1. /\ drp'.start = drp.start /\ drp'.end = drp.end /\ drp'.oldStart = drp.oldStart
        /\ drp'.isShowing = drp.isShowing
    BY <1>2, LookingIsAlike DEF HistoryInv, Alike
  <2>2. drp.isShowing /\ UNCHANGED <<pageVars, utcPresets, clicked>>
    BY <1>2, LookingKeepsInv DEF HistoryInv
  <2>3. LogsAreLocal' /\ ClicksAreDays'
    BY <2>1, <2>2 DEF HistoryInv, LogsAreLocal, ShowsRange, ClicksAreDays, pageVars
  <2> QED
    BY <2>2, <2>3 DEF pageVars
<1>3. ASSUME NEW d \in 0 .. Days - 1, ClickDate(d)
      PROVE  LogsAreLocal' /\ ClicksAreDays' /\ goingTo' = goingTo
  <2>1. goingTo' = goingTo
    BY <1>3 DEF ClickDate, pageVars
  <2> QED
    BY <1>3, <2>1, ClickDateKeepsHistory
<1>4. ASSUME NEW side \in Both, NEW s \in 0 .. Slots - 1, TimeChanged(side, s)
      PROVE  LogsAreLocal' /\ ClicksAreDays' /\ goingTo' = goingTo
  <2>1. goingTo' = goingTo
    BY <1>4 DEF TimeChanged, pageVars
  <2> QED
    BY <1>4, <2>1, TimeChangedKeepsHistory
<1>5. ASSUME NEW side \in Both, NEW w \in Int \cup {None}, FormInputsChanged(side, w)
      PROVE  LogsAreLocal' /\ ClicksAreDays' /\ goingTo' = goingTo
  <2>1. /\ drp'.isShowing /\ drp'.oldStart = drp.oldStart
        /\ \/ drp'.start = drp.start /\ drp'.end = drp.end /\ clicked' = clicked
           \/ drp'.end # None /\ ~drp'.start.utc /\ clicked' = <<>>
    BY <1>5, FormInputsChangedKeepsInv DEF HistoryInv
  <2>2. UNCHANGED <<pageVars, utcPresets>> /\ drp.isShowing
    BY <1>5 DEF FormInputsChanged
  <2>3. LogsAreLocal'
    BY <2>1, <2>2 DEF HistoryInv, LogsAreLocal, ShowsRange, pageVars
  <2>4. CASE drp'.end # None /\ clicked' = <<>>
    BY <2>2, <2>3, <2>4, ClicksForgotten DEF pageVars
  <2>5. CASE drp'.start = drp.start /\ drp'.end = drp.end /\ clicked' = clicked
    <3>1. ClicksAreDays'
      BY <2>1, <2>2, <2>5 DEF HistoryInv, ClicksAreDays
    <3> QED
      BY <2>2, <2>3, <3>1 DEF pageVars
  <2> QED
    BY <2>1, <2>4, <2>5
<1>6. ASSUME NEW t \in Typed, ElementChanged(t)
      PROVE  LogsAreLocal' /\ ClicksAreDays' /\ goingTo' = goingTo
  <2>1. /\ drp'.end # None
        /\ ~drp'.start.utc /\ drp'.oldStart = drp.oldStart
        /\ ~drp'.isShowing => drp'.text = <<Wall(drp'.start), Wall(drp'.end)>>
    BY <1>6, ElementChangedKeepsInv DEF HistoryInv
  <2>2. UNCHANGED <<pageVars, utcPresets>> /\ clicked' = <<>>
    BY <1>6 DEF ElementChanged
  <2>3. LogsAreLocal'
    BY <2>1, <2>2 DEF HistoryInv, LogsAreLocal, ShowsRange, pageVars
  <2> QED
    BY <2>1, <2>2, <2>3, ClicksForgotten DEF pageVars
<1>7. CASE ElementUnreadable
  <2>1. /\ ~drp'.isShowing /\ drp'.text = NoDate
        /\ drp'.start = drp.start /\ drp'.end = drp.end /\ drp'.oldStart = drp.oldStart
    BY <1>7, ElementUnreadableKeepsInv DEF HistoryInv
  <2>2. UNCHANGED <<pageVars, utcPresets, clicked>> /\ ~drp.isShowing
    BY <1>7 DEF ElementUnreadable
  <2>3. LogsAreLocal' /\ ClicksAreDays'
    BY <2>1, <2>2 DEF HistoryInv, LogsAreLocal, ShowsRange, ClicksAreDays, pageVars
  <2> QED
    BY <2>2, <2>3 DEF pageVars
<1>8. \A t \in Typed : t[1] \in Int \cup {None} /\ t[2] \in Int \cup {None}
  BY PickerAssumption
<1>9. None \in Int \cup {None}
  OBVIOUS
<1> QED
  BY <1>1, <1>2, <1>3, <1>4, <1>5, <1>6, <1>7, <1>8, <1>9
     DEF UserActs, Keydown, Closing, Looking, Both

\* In every reachable state the clicks and the text say what the range is.
LEMMA HistoryIsKept == Spec => []HistoryInv
<1>1. HistoryInv /\ UNCHANGED vars => HistoryInv'
  BY DEF HistoryInv, PickerInv, TypeOK, Known, Sound, LogsAreLocal, ShowsRange, ClicksAreDays,
         vars, pageVars
<1>2. PickerInv /\ Next => PickerInv'
  BY ClosingStepKeeps, OtherStepKeeps, LoadKeepsInv, LateIsBounded DEF Next
<1>3. HistoryInv /\ Next => HistoryInv'
  BY <1>2, ClosingKeepsHistory, OtherStepKeepsHistory, LoadKeepsHistory, LateIsBounded
     DEF Next, HistoryInv
<1> QED
  BY InitHistoryInv, <1>1, <1>3, PTL DEF Spec

\* The text of a closed picker's input on a page of logs, read again as the page reads
\* what is typed there, is the range of the picker: no key let go in it moves the range.
THEOREM TextStaysTheRange == Spec => []TextIsRange
<1>1. HistoryInv => TextIsRange
  <2> SUFFICES ASSUME HistoryInv, page = "logs", goingTo = None, ~drp.isShowing,
                      drp.text # NoDate
               PROVE  Range(drp) = <<Parse(drp.text[1]).at, Parse(drp.text[2]).at>>
    BY DEF TextIsRange
  <2>1. /\ drp \in Pickers /\ drp.end \in Moments
        /\ ~drp.start.utc /\ ~drp.end.utc
        /\ drp.text = <<Wall(drp.start), Wall(drp.end)>>
    BY DEF HistoryInv, PickerInv, Sound, LogsAreLocal, ShowsRange, Pickers
  <2> QED
    BY <2>1, TextReadsBack
<1> QED
  BY HistoryIsKept, <1>1, PTL

\* Closing the picker of the charts tells them the range it leaves, or restores the one it
\* had; the page of the logs goes to the range that its input shows.
THEOREM ClosingIsTold == Spec => ClosingTellsOrRestores
<1> DEFINE Kept ==
        /\ page = "charts" /\ drp.isShowing /\ ~drp'.isShowing =>
               \/ Range(drp') = told'
               \/ Range(drp') = opened /\ told' = told
        /\ goingTo = None /\ goingTo' # None =>
               goingTo' = <<Parse(drp'.text[1]).at, Parse(drp'.text[2]).at>>
<1>1. HistoryInv /\ UserActs /\ Closing /\ late' \in 0 .. MaxLate => Kept
  BY ClosingStepKeeps, ClosingKeepsHistory DEF HistoryInv, ToldOrRestored, SentWhereTextSays
<1>2. HistoryInv /\ UserActs /\ ~Closing /\ late' \in 0 .. MaxLate => Kept
  BY OtherStepKeeps, OtherStepKeepsHistory DEF HistoryInv, StaysOpen
<1>3. HistoryInv /\ Load => Kept
  BY LoadKeepsInv DEF HistoryInv, Load
<1>4. HistoryInv /\ [Next]_vars => [Kept]_vars
  BY <1>1, <1>2, <1>3, LateIsBounded DEF Next, HistoryInv
<1> QED
  BY HistoryIsKept, <1>4, PTL DEF Spec, ClosingTellsOrRestores

\* However times are changed before, between and after the two clicks, and with whatever
\* the picker is closed, the range begins on the first clicked day and ends on the second.
THEOREM ClickedDaysStaySpanned == Spec => []RangeSpansClickedDays
<1>1. HistoryInv => RangeSpansClickedDays
  BY DEF HistoryInv, ClicksAreDays, OnDay, RangeSpansClickedDays
<1> QED
  BY HistoryIsKept, <1>1, PTL
=============================================================================
