---------------------------- MODULE DateRangePicker ----------------------------
(***************************************************************************)
(* The date range picker of the charts and the logs                        *)
(* (static/bootstrap/daterangepicker/daterangepicker.js) as the pages      *)
(* configure it (static/resourced-master/js/dashboard.js): with a time     *)
(* picker, preset ranges and linked calendars, without limits on the dates *)
(* and without autoApply, which a time picker switches off.                *)
(*                                                                         *)
(* A page of charts passes a callback, which calls utc() on the moments it *)
(* gets and draws the chart again.  The page of the logs passes none: it   *)
(* hears Apply only, takes the range in UTC and goes to the address that   *)
(* names it, where the picker is made anew.                                *)
(*                                                                         *)
(* Time is counted in slots, Slots of them a day and MonthDays days a      *)
(* month.  A moment is an instant and the mode it is read in: moment.js    *)
(* keeps a flag that makes it show UTC instead of the browser's zone, which*)
(* is Offset slots ahead of UTC.                                           *)
(***************************************************************************)
EXTENDS Integers, Sequences

CONSTANTS Days,        \* days a user reaches
          Slots,       \* time slots of a day: what the boxes for the time offer
          MonthDays,   \* days of a month
          Offset,      \* the browser's clock is Offset slots ahead of UTC, or behind if less than 0
          Presets,     \* labels of the preset ranges
          PresetRange, \* the instants a preset begins and ends at
          FirstRange,  \* the range of the charts' settings
          Urls,        \* ranges that the address of a page of logs names
          Loads,       \* instants a page of logs is loaded at
          MaxLate,     \* bound: steps of a user on a page that was sent to another address
          Typed,       \* ranges a user types, each end as the clock on the wall shows it
          None         \* null, undefined, an empty box or a text that is no date

Both == {"left", "right"}

\* The settings' range and the presets end at the instant they are made, and begin before.
ASSUME PickerAssumption ==
    /\ Days \in Nat \ {0} /\ Slots \in Nat \ {0} /\ MonthDays \in Nat \ {0} /\ Offset \in Int
    /\ Typed \subseteq Int \X Int
    /\ None \notin Int \cup (Int \X Int) \cup [at : Int, utc : BOOLEAN]
    /\ \A l \in Presets : PresetRange[l] \in Int \X Int /\ PresetRange[l][1] <= PresetRange[l][2]
    /\ FirstRange \in Int \X Int /\ FirstRange[1] <= FirstRange[2]
    /\ Urls \subseteq Int \X Int /\ Loads \subseteq Int /\ MaxLate \in Nat

VARIABLES page,    \* "charts" or "logs"
          drp,     \* the picker: its fields, the boxes it has drawn, the text of the page's input
          utcPresets, \* presets whose own moments were switched to UTC
          told,    \* the range the charts were last told, at first their settings'; None for logs
          goingTo, \* the range of the address the logs were sent to, None once it is loaded
          late,    \* bound: steps since then
          inOrder, \* history: the range the picker was made with was in order
          opened,  \* history: the range when the picker was last opened
          clicked  \* history: the days clicked since it was opened or its range set otherwise

pageVars == <<page, goingTo, inOrder>>
vars == <<pageVars, late, drp, utcPresets, told, opened, clicked>>

-----------------------------------------------------------------------------
(***************************************************************************)
(* Moments.                                                                *)
(***************************************************************************)
Moments == [at : Int, utc : BOOLEAN]
Walls   == 0 .. Days * Slots - 1        \* what a clock on the wall may show in these days

Local(i)     == [at |-> i, utc |-> FALSE]
Wall(m)      == m.at + IF m.utc THEN 0 ELSE Offset
Parse(w)     == Local(w - Offset)
DayOf(m)     == Wall(m) \div Slots
SlotOf(m)    == Wall(m) % Slots
MonthOf(m)   == DayOf(m) \div MonthDays
AtSlot(m, s) == [m EXCEPT !.at = @ - SlotOf(m) + s]
Cell(d, s)   == Parse(d * Slots + s)

Range(p)     == <<p.start.at, p.end.at>>
NoDate       == <<None, None>>          \* a text of which the page can make no date
Ordered(r)   == r[1] <= r[2]

-----------------------------------------------------------------------------
(***************************************************************************)
(* The methods that the handlers call, as functions on the picker.         *)
(***************************************************************************)
UpdateElement(p) == [p EXCEPT !.text = <<Wall(p.start), Wall(p.end)>>]

UpdateMonthsInView(p) ==
    LET months == {MonthOf(p.start)} \cup IF p.end = None THEN {} ELSE {MonthOf(p.end)}
    IN  IF p.month # None /\ months \subseteq {p.month, p.month + 1}
        THEN p
        ELSE [p EXCEPT !.month = MonthOf(p.start)]

Settle(p) == UpdateMonthsInView(IF p.isShowing THEN p ELSE UpdateElement(p))

SetStartDate(p, m) == Settle([p EXCEPT !.start = m])

\* Faulty variant: an end before the start is kept.
SetEndDateUnchecked(p, m) == Settle([p EXCEPT !.end = m, !.previousRight = m])

SetEndDate(p, m) ==
    LET end == IF m.at < p.start.at THEN p.start ELSE m
    IN  Settle([p EXCEPT !.end = end, !.previousRight = end])

\* The time box of a side.  The right one keeps the time it shows, unless that lies
\* before the start.
RenderLeft(p) == [p EXCEPT !.left = SlotOf(p.start)]

RenderRight(p) ==
    LET end      == IF p.end = None THEN p.previousRight ELSE p.end
        kept     == IF p.right = None THEN end ELSE AtSlot(end, p.right)
        selected == IF p.right # None /\ kept.at < p.start.at THEN p.start ELSE kept
    IN  [p EXCEPT !.right = SlotOf(selected)]

RenderTimePickers(p) == RenderRight(RenderLeft(p))

IsPreset(p) == \E l \in Presets : Range(p) = PresetRange[l]

UpdateCalendars(p) ==
    [p EXCEPT !.cells = IF p.end = None THEN p.right ELSE p.left,
              !.calendars = @ \/ (p.end # None /\ ~IsPreset(p))]

\* Faulty variant: Apply is not switched off for a range that has no end yet.
UpdateFormInputsOnly(p) ==
    [p EXCEPT !.inputs = [left |-> Wall(p.start),
                          right |-> IF p.end = None THEN @.right ELSE Wall(p.end)],
              !.apply = TRUE]

UpdateFormInputs(p) ==
    [p EXCEPT !.inputs = [left |-> Wall(p.start),
                          right |-> IF p.end = None THEN @.right ELSE Wall(p.end)],
              !.apply = p.end # None /\ p.start.at <= p.end.at]

UpdateView(p) ==
    UpdateFormInputs(UpdateCalendars(UpdateMonthsInView(RenderTimePickers(p))))

\* hide() in two parts: what range is left, and what the page and its input get of it.
GiveUpHalf(p) ==
    IF p.end = None THEN [p EXCEPT !.start = p.oldStart, !.end = p.oldEnd] ELSE p

IsNew(p) == Range(p) # <<p.oldStart.at, p.oldEnd.at>>

InUtc(p) == [p EXCEPT !.start.utc = TRUE, !.end.utc = TRUE]

\* Faulty variant: the page is told only when the start is another one.
CallbackOnStart(p) ==
    IF page = "charts" /\ p.start.at # p.oldStart.at THEN told' = Range(p) ELSE UNCHANGED told

Callback(p) ==
    IF page = "charts" /\ IsNew(p) THEN told' = Range(p) ELSE UNCHANGED told

\* Faulty variant: the page's input keeps its text.
CloseOnly(p) == [p EXCEPT !.isShowing = FALSE]

Close(p) == [UpdateElement(p) EXCEPT !.isShowing = FALSE]

\* The picker that hide() leaves; the charts' callback calls utc() on its own moments.
Hidden(p) ==
    LET q == GiveUpHalf(p)
    IN  Close(IF page = "charts" /\ IsNew(q) THEN InUtc(q) ELSE q)

Hide(p) ==
    /\ Callback(GiveUpHalf(p))
    /\ drp' = Hidden(p)
    /\ UNCHANGED goingTo

\* clickApply() hides the picker and then triggers the event that the page of the logs
\* hears: it calls utc() on the picker's own moments and goes to their address.  Days bounds
\* the addresses.
Apply(p) ==
    CASE page = "charts" -> Hide(p)
      [] page = "logs" -> /\ drp' = InUtc(Hidden(p))
                          /\ goingTo' = Range(drp')
                          /\ \A i \in 1 .. 2 : Wall(Local(goingTo'[i])) \in Walls
                          /\ UNCHANGED told

-----------------------------------------------------------------------------
(***************************************************************************)
(* The constructor and the handlers.                                       *)
(***************************************************************************)
\* What the constructor leaves before it draws anything.
NewPicker(start, end) ==
    [isShowing |-> FALSE, start |-> start, end |-> end,
     oldStart |-> start, oldEnd |-> end, previousRight |-> end,
     month |-> None, left |-> None, right |-> None, cells |-> None,
     calendars |-> FALSE, apply |-> FALSE,
     inputs |-> [left |-> None, right |-> None],
     text |-> <<None, None>>]

\* The constructor writes the page's input.
Made(range, utc) ==
    UpdateElement(NewPicker([at |-> range[1], utc |-> utc], [at |-> range[2], utc |-> utc]))

\* A page of charts has called utc() on the range of its settings when it makes the
\* picker of a dialog for the second time.
ChartsPage ==
    /\ page = "charts"
    /\ told = FirstRange
    /\ \E utc \in BOOLEAN : drp = Made(FirstRange, utc)

\* A page of logs sets the start from its address.  It means to set the end as well, as
\* stopDate, which is no option of the picker: the end stays the settings', the instant
\* the page is loaded at, and may lie before the start.
LogsRange(url, now) == <<url[1], now>>

LogsPage ==
    /\ page = "logs"
    /\ told = None
    /\ \E url \in Urls, now \in Loads : drp = Made(LogsRange(url, now), FALSE)

Init ==
    /\ ChartsPage \/ LogsPage
    /\ utcPresets = {}
    /\ goingTo = None /\ late = 0
    /\ opened = Range(drp)
    /\ inOrder = Ordered(opened)
    /\ clicked = <<>>

\* The address that the page of the logs was sent to is loaded.
Load ==
    /\ goingTo # None
    /\ goingTo' = None /\ late' = 0
    /\ \E now \in Loads : drp' = Made(LogsRange(goingTo, now), FALSE)
    /\ utcPresets' = {}
    /\ opened' = Range(drp')
    /\ inOrder' = Ordered(opened')
    /\ clicked' = <<>>
    /\ UNCHANGED <<page, told>>

Show ==
    /\ ~drp.isShowing
    /\ LET p == [drp EXCEPT !.oldStart = drp.start, !.oldEnd = drp.end, !.previousRight = drp.end]
       IN  drp' = [UpdateView(p) EXCEPT !.isShowing = TRUE]
    /\ opened' = Range(drp)
    /\ clicked' = <<>>
    /\ UNCHANGED <<pageVars, utcPresets, told>>

\* A click outside of the picker and its input.
OutsideClick ==
    /\ drp.isShowing
    /\ Hide(drp)
    /\ clicked' = IF drp.end = None THEN <<>> ELSE clicked
    /\ UNCHANGED <<page, inOrder, utcPresets, opened>>

\* Tab or Enter in the input.
Keydown == OutsideClick

ClickApply ==
    /\ drp.isShowing /\ drp.apply
    /\ Apply(drp)
    /\ UNCHANGED <<page, inOrder, utcPresets, opened, clicked>>

ClickCancel ==
    /\ drp.isShowing
    /\ Hide([drp EXCEPT !.start = drp.oldStart, !.end = drp.oldEnd])
    /\ clicked' = <<>>
    /\ UNCHANGED <<page, inOrder, utcPresets, opened>>

Preset(l, i) == [at |-> PresetRange[l][i], utc |-> l \in utcPresets]

\* A preset becomes the range itself, not a copy of it, so utc() reaches its own moments.
\* (Not if it is the range already: what becomes of it then with a later end of another
\* choice is left out.)  Apply is as good as pressed.
ClickRange(l) ==
    LET p == [drp EXCEPT !.start = Preset(l, 1), !.end = Preset(l, 2), !.calendars = FALSE]
    IN  /\ drp.isShowing
        /\ Apply(p)
        /\ utcPresets' = IF page = "logs" \/ IsNew(p) THEN utcPresets \cup {l} ELSE utcPresets
        /\ clicked' = <<>>
        /\ UNCHANGED <<page, inOrder, opened>>

ClickCustomRange ==
    /\ drp.isShowing
    /\ drp' = [drp EXCEPT !.calendars = TRUE]
    /\ UNCHANGED <<pageVars, utcPresets, told, opened, clicked>>

\* The six weeks of the two calendars: the days of both months and of the weeks around.
DaysInView == {d \in 0 .. Days - 1 :
                  d \in drp.month * MonthDays - 1 .. (drp.month + 2) * MonthDays}

ClickMonth(step) ==
    /\ drp.isShowing /\ drp.calendars
    /\ drp.month + step \in 0 .. (Days - 1) \div MonthDays
    /\ drp' = UpdateCalendars([drp EXCEPT !.month = @ + step])
    /\ UNCHANGED <<pageVars, utcPresets, told, opened, clicked>>

\* A click begins a range, or ends the one that was begun.
\* Faulty variant: a day before the start ends the range as well.
BeginsRangeOnce(d) == drp.end # None

BeginsRange(d) == drp.end # None \/ drp.start.at >= Cell(d + 1, 0).at

PickStart(d) ==
    /\ drp' = UpdateView(SetStartDate([drp EXCEPT !.end = None], Cell(d, drp.left)))
    /\ clicked' = <<d>>

PickEnd(d) ==
    LET end == IF Cell(d, drp.cells).at < drp.start.at THEN drp.start ELSE Cell(d, drp.right)
    IN  /\ drp' = UpdateView(SetEndDate(drp, end))
        /\ clicked' = IF clicked = <<>> THEN <<>> ELSE <<clicked[1], d>>

ClickDate(d) ==
    /\ drp.isShowing /\ drp.calendars /\ d \in DaysInView
    /\ IF BeginsRange(d) THEN PickStart(d) ELSE PickEnd(d)
    /\ UNCHANGED <<pageVars, utcPresets, told, opened>>

\* Redrawing after a time box was changed.
RedrawTimes(p) == RenderTimePickers(UpdateFormInputs(UpdateCalendars(p)))

LeftTimeChanged(s) ==
    LET start == AtSlot(drp.start, s)
        p == SetStartDate([drp EXCEPT !.left = s], start)
        q == IF p.end # None /\ DayOf(p.end) = DayOf(start) /\ p.end.at < start.at
             THEN SetEndDate(p, start)
             ELSE p
    IN  drp' = RedrawTimes(q)

\* The right box is disabled without an end, and so are its times before the start.
RightTimeChanged(s) ==
    /\ drp.end # None
    /\ AtSlot(drp.end, s).at >= drp.start.at
    /\ drp' = RedrawTimes(SetEndDate([drp EXCEPT !.right = s], AtSlot(drp.end, s)))

TimeChanged(side, s) ==
    /\ drp.isShowing /\ drp.calendars
    /\ CASE side = "left" -> LeftTimeChanged(s)
         [] side = "right" -> RightTimeChanged(s)
    /\ UNCHANGED <<pageVars, utcPresets, told, opened, clicked>>

\* A date typed into one of the two inputs above the calendars; the other one is read
\* as it is, and Apply is not looked at.
SetBoth(side, typed) ==
    LET end   == Parse(typed.right)
        start == IF side = "right" /\ typed.right < typed.left THEN end ELSE Parse(typed.left)
        p     == SetEndDate(SetStartDate(drp, start), end)
        other == IF side = "right" THEN [typed EXCEPT !.left = Wall(p.start)]
                                   ELSE [typed EXCEPT !.right = Wall(p.end)]
    IN  [p EXCEPT !.inputs = other]

\* With an input that holds no date the calendars are redrawn and nothing else.  Days
\* bounds the texts.
FormInputsChanged(side, w) ==
    LET typed == [drp.inputs EXCEPT ![side] = w]
        valid == None \notin {typed.left, typed.right}
        p     == IF valid THEN SetBoth(side, typed) ELSE [drp EXCEPT !.inputs = typed]
    IN  /\ drp.isShowing /\ drp.calendars
        /\ {typed.left, typed.right} \subseteq Walls \cup {None}
        /\ drp' = RenderTimePickers(UpdateCalendars(p))
        /\ clicked' = IF valid THEN <<>> ELSE clicked
        /\ UNCHANGED <<pageVars, utcPresets, told, opened>>

\* A key let go in the page's input, whose text reads t then, open or not.  A single date
\* is read as a range from it to itself.  What was typed is written over, here or when the
\* picker closes.
ElementChanged(t) ==
    /\ drp' = UpdateView(SetEndDate(SetStartDate(drp, Parse(t[1])), Parse(t[2])))
    /\ clicked' = <<>>
    /\ UNCHANGED <<pageVars, utcPresets, told, opened>>

\* A text that is too short or no date is left as it is, until an open picker closes.
ElementUnreadable ==
    /\ ~drp.isShowing
    /\ drp' = [drp EXCEPT !.text = NoDate]
    /\ UNCHANGED <<pageVars, utcPresets, told, opened, clicked>>

\* The inputs above the calendars follow the mouse, and go back when it leaves.  While one
\* of them has the focus they stay, as they do in a step that is not taken.
HoverDate(d) ==
    /\ drp.isShowing /\ drp.calendars /\ d \in DaysInView
    /\ LET side == IF drp.end = None THEN "right" ELSE "left"
       IN  drp' = [drp EXCEPT !.inputs[side] = Wall(Cell(d, drp.cells))]
    /\ UNCHANGED <<pageVars, utcPresets, told, opened, clicked>>

HoverRange(l) ==
    /\ drp.isShowing
    /\ drp' = [drp EXCEPT !.inputs = [left |-> Wall(Preset(l, 1)), right |-> Wall(Preset(l, 2))]]
    /\ UNCHANGED <<pageVars, utcPresets, told, opened, clicked>>

HoverCustomRange ==
    /\ drp.isShowing
    /\ drp' = UpdateView(drp)
    /\ UNCHANGED <<pageVars, utcPresets, told, opened, clicked>>

MouseLeaves ==
    /\ drp.isShowing
    /\ drp' = UpdateFormInputs(drp)
    /\ UNCHANGED <<pageVars, utcPresets, told, opened, clicked>>

UserActs ==
    \/ Show \/ OutsideClick \/ Keydown \/ ClickApply \/ ClickCancel \/ ClickCustomRange
    \/ HoverCustomRange \/ MouseLeaves \/ ElementUnreadable
    \/ \E l \in Presets : ClickRange(l) \/ HoverRange(l)
    \/ \E step \in {-1, 1} : ClickMonth(step)
    \/ \E d \in 0 .. Days - 1 : ClickDate(d) \/ HoverDate(d)
    \/ \E side \in Both, s \in 0 .. Slots - 1 : TimeChanged(side, s)
    \/ \E t \in Typed : \/ FormInputsChanged("left", t[1])
                        \/ FormInputsChanged("right", t[2])
                        \/ ElementChanged(t)
    \/ \E side \in Both : FormInputsChanged(side, None)

\* A page that was sent to another address works on until that is loaded.
Next ==
    \/ Load
    \/ /\ UserActs
       /\ goingTo # None => late < MaxLate
       /\ late' = IF goingTo = None THEN 0 ELSE late + 1

Spec == Init /\ [][Next]_vars

-----------------------------------------------------------------------------
(***************************************************************************)
(* Properties.                                                             *)
(***************************************************************************)
Boxes == 0 .. Slots - 1 \cup {None}
Texts == Int \cup {None}

Pickers ==
    [isShowing : BOOLEAN, start : Moments, end : Moments \cup {None},
     oldStart : Moments, oldEnd : Moments, previousRight : Moments,
     month : Int \cup {None}, left : Boxes, right : Boxes, cells : Boxes,
     calendars : BOOLEAN, apply : BOOLEAN,
     inputs : [Both -> Texts], text : (Int \X Int) \cup {NoDate}]

Clicks == {<<>>} \cup {<<d>> : d \in 0 .. Days - 1} \cup {<<d, e>> : d, e \in 0 .. Days - 1}

\* Types of the picker's fields and of the history.
TypeOK ==
    /\ page \in {"charts", "logs"}
    /\ drp \in Pickers
    /\ utcPresets \subseteq Presets
    /\ {told, goingTo} \subseteq (Int \X Int) \cup {None} /\ opened \in Int \X Int
    /\ inOrder \in BOOLEAN /\ late \in 0 .. MaxLate
    /\ clicked \in Clicks

\* However clicks, typing, time boxes and presets follow one another, the range shown never
\* ends before it starts, unless the picker was made with such a range; and even then no
\* page is told one, neither the charts nor the address the logs are sent to.
RangeIsOrdered ==
    /\ inOrder /\ drp.end # None => Ordered(Range(drp))
    /\ \A range \in {told, goingTo} \ {None} : Ordered(range)

\* A range with a start only exists while the picker is open, and Apply is not to be had
\* for it: updateElement and the page's callback read the end without asking.
HalfRangeStaysOpen ==
    drp.end = None => drp.isShowing /\ ~drp.apply

\* When the picker of the logs is closed the text of the page's input, read as the local
\* time it is typed in, is the range, unless the text is no date.  On a page of charts it
\* need not be, for the callback's utc() reaches the picker's own moments; nor is it after
\* Apply on the page of the logs, until the next address is loaded.
TextIsRange ==
    page = "logs" /\ goingTo = None /\ ~drp.isShowing /\ drp.text # NoDate =>
        Range(drp) = <<Parse(drp.text[1]).at, Parse(drp.text[2]).at>>

\* After two days were clicked the range begins on the first and ends on the second one,
\* whatever times were chosen before, between or after.
RangeSpansClickedDays ==
    Len(clicked) = 2 => /\ Cell(clicked[1], 0).at <= drp.start.at
                        /\ drp.start.at < Cell(clicked[1] + 1, 0).at
                        /\ Cell(clicked[2], 0).at <= drp.end.at
                        /\ drp.end.at < Cell(clicked[2] + 1, 0).at

\* On a page of charts closing either tells the page the range it leaves or leaves the one
\* it was opened with.  The page of the logs is sent where the text of its input says.
ClosingTellsOrRestores ==
    [][/\ page = "charts" /\ drp.isShowing /\ ~drp'.isShowing =>
              \/ Range(drp') = told'
              \/ Range(drp') = opened /\ told' = told
       /\ goingTo = None /\ goingTo' # None =>
              goingTo' = <<Parse(drp'.text[1]).at, Parse(drp'.text[2]).at>>]_vars

\* daterangepicker.js:1109: "if a new date range was selected, invoke the user callback
\* function".  The range of a closed picker is the one the charts were told.  It does not
\* hold: a key let go in the input of a closed picker moves the range and tells nobody.
NewRangeIsTold == page = "charts" /\ ~drp.isShowing => Range(drp) = told
=============================================================================
