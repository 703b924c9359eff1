------------------------------ MODULE PagesProofs ------------------------------
(***************************************************************************)
(* Proofs about what MCPages composes: GraphDialog for any metrics, ranges *)
(* and numbers of requests, streams and events, in whatever order requests *)
(* are answered; LogsPager for any number of logs and any size of a page;  *)
(* RandomColor for any random draws.                                       *)
(***************************************************************************)
EXTENDS MCPages, SequenceTheorems, TLAPS

-----------------------------------------------------------------------------
(***************************************************************************)
(* The dialog with a chart.                                                *)
(***************************************************************************)
Told == {"show", "shown", "hide", "hidden"}

DialogTypes ==
    /\ dialog \in [told : Told, metric : Metrics \cup {None}]
    /\ dialog.told # "hidden" => dialog.metric \in Metrics
    /\ range \in Ranges /\ (dialog.told = "show" => range = Default)
    /\ asked \in [Asks -> Requests \cup {None}]
    /\ last \in Asks \cup {None}
    /\ failed \in BOOLEAN /\ late \in BOOLEAN
    /\ chart \in Charts \cup {None}
    /\ streams \in [Streams -> [metric : Metrics, feeds : BOOLEAN] \cup {None}]
    /\ attached \in Streams \cup {None}

EventTypes ==
    events \in [count : [Kinds -> Counts], answer : [Kinds -> {"asked", "ok", "failed"}],
                lines : Lists, bands : Lists, lineColors : Nat, bandColors : Nat,
                bandTextColors : Nat]

NoStreamIsOpen == \A s \in Streams : streams[s] = None

\* The stream that is open is the one that the dialog will close.
StreamInv ==
    ~late =>
        \A s \in Streams : streams[s] # None =>
            /\ dialog.told \in {"shown", "hide"} /\ attached = s
            /\ streams[s].feeds /\ Shown(chart) /\ streams[s].metric = dialog.metric

\* The request whose answer is still in time is for what the dialog shows, and any stream
\* was closed before it was sent.
RequestInv ==
    ~late =>
        \A i \in Asks : i = last /\ asked[i] # None /\ dialog.told \in {"shown", "hide"} =>
            asked[i].metric = dialog.metric /\ asked[i].range = range /\ NoStreamIsOpen

\* A dialog shows its chart, an error, or waits for an answer.
ChartInv ==
    ~late /\ dialog.told = "shown" =>
        failed \/ Shown(chart) \/ \E i \in Asks : i = last /\ asked[i] # None

DialogInv == DialogTypes /\ StreamInv /\ RequestInv /\ ChartInv

-----------------------------------------------------------------------------
\* A request that is sent is the latest, and known by its slot.
LEMMA SendingIs ==
    ASSUME DialogTypes, EventTypes, NEW metric \in Metrics, NEW from \in Ranges,
           NEW live \in BOOLEAN, RenderOneChart(metric, from, live)
    PROVE  /\ asked' \in [Asks -> Requests \cup {None}] /\ last' \in Asks /\ failed' = FALSE
           /\ asked'[last'] # None
           /\ asked'[last'].metric = metric /\ asked'[last'].range = from
<1> DEFINE free == {i \in Asks : asked[i] = None}
           i == CHOOSE i \in free : TRUE
           request == [metric |-> metric, range |-> from, live |-> live, events |-> Plotted]
<1>1. free # {} /\ asked' = [asked EXCEPT ![i] = request] /\ last' = i /\ failed' = FALSE
  BY DEF RenderOneChart
<1>2. i \in Asks
  BY <1>1
<1>3. Plotted \in Plots
  <2>1. (\A k \in Kinds : events.answer[k] = "ok") \in BOOLEAN
    OBVIOUS
  <2>2. events.lines \in Lists /\ events.bands \in Lists /\ events.lineColors \in Nat
    BY DEF EventTypes
  <2> QED
    BY <2>1, <2>2 DEF Plotted, Plots
<1>4. request \in Requests /\ request.metric = metric /\ request.range = from
  BY <1>3 DEF Requests
<1>5. request # None
  BY <1>4, GraphAssumption
<1> HIDE DEF i, request
<1> QED
  BY <1>1, <1>2, <1>4, <1>5 DEF DialogTypes

\* Closing the stream of the dialog leaves none open.
LEMMA ClosingIs ==
    ASSUME DialogInv, ~late, CloseStream
    PROVE  /\ streams' \in [Streams -> [metric : Metrics, feeds : BOOLEAN] \cup {None}]
           /\ NoStreamIsOpen'
<1>1. DialogTypes /\ StreamInv
  BY DEF DialogInv
<1>2. None \notin Streams
  BY GraphAssumption DEF Streams
<1>3. CASE attached = None
  BY <1>1, <1>2, <1>3 DEF CloseStream, DialogTypes, StreamInv, NoStreamIsOpen
<1>4. CASE attached # None
  <2>1. streams' = [streams EXCEPT ![attached] = None] /\ attached \in Streams
    BY <1>1, <1>4 DEF CloseStream, DialogTypes
  <2> QED
    BY <1>1, <2>1 DEF DialogTypes, StreamInv, NoStreamIsOpen
<1> QED
  BY <1>3, <1>4

-----------------------------------------------------------------------------
\* At first there is neither a dialog nor a request.
LEMMA DialogInit == Init => DialogInv
<1> SUFFICES ASSUME Init PROVE DialogInv
  OBVIOUS
<1>1. DialogTypes
  BY GraphAssumption
  DEF Init, NoDialog, NoRequests, NoStreams, Default, Told, DialogTypes
<1>2. StreamInv /\ RequestInv /\ ChartInv
  BY DEF Init, NoDialog, NoRequests, NoStreams, StreamInv, RequestInv, ChartInv
<1> QED
  BY <1>1, <1>2 DEF DialogInv

\* Nor are there after the page was loaded again.
LEMMA ReloadKeeps == Reload => DialogInv'
<1> SUFFICES ASSUME Reload PROVE DialogInv'
  OBVIOUS
<1>1. DialogTypes'
  BY GraphAssumption
  DEF Reload, NoDialog, NoRequests, NoStreams, Default, Told, DialogTypes
<1>2. StreamInv' /\ RequestInv' /\ ChartInv'
  BY DEF Reload, NoDialog, NoRequests, NoStreams, StreamInv, RequestInv, ChartInv
<1> QED
  BY <1>1, <1>2 DEF DialogInv

\* The dialog opens.
LEMMA ShowKeeps ==
    ASSUME DialogInv, ~late, NEW m \in Metrics, ShowDialog(m)
    PROVE  DialogInv'
<1>1. DialogTypes'
  BY GraphAssumption DEF DialogInv, ShowDialog, DialogTypes, Told, Default
<1>2. StreamInv' /\ RequestInv' /\ ChartInv'
  BY DEF DialogInv, ShowDialog, DialogTypes, StreamInv, RequestInv, ChartInv, NoStreamIsOpen
<1> QED
  BY <1>1, <1>2 DEF DialogInv

\* The dialog is there and asks for its chart.
LEMMA ShownKeeps ==
    ASSUME DialogInv, EventTypes, ~late, DialogShown
    PROVE  DialogInv'
<1>1. /\ dialog.told = "show" /\ dialog' = [dialog EXCEPT !.told = "shown"]
      /\ RenderOneChart(dialog.metric, Default, TRUE)
      /\ UNCHANGED <<range, chart, streams, attached, late>>
  BY DEF DialogShown
<1>2. /\ dialog.metric \in Metrics /\ Default \in Ranges
      /\ dialog'.told = "shown" /\ dialog'.metric = dialog.metric
  BY <1>1, GraphAssumption DEF DialogInv, DialogTypes, Default
<1>3. /\ asked' \in [Asks -> Requests \cup {None}] /\ last' \in Asks /\ failed' = FALSE
      /\ asked'[last'] # None
      /\ asked'[last'].metric = dialog.metric /\ asked'[last'].range = Default
  BY <1>1, <1>2, SendingIs DEF DialogInv
<1>4. DialogTypes'
  BY <1>1, <1>2, <1>3 DEF DialogInv, DialogTypes, Told
<1>5. \A s \in Streams : streams'[s] = None
  BY <1>1 DEF DialogInv, StreamInv
<1>6. range = Default
  BY <1>1 DEF DialogInv, DialogTypes
<1>7. StreamInv' /\ RequestInv' /\ ChartInv'
  BY <1>1, <1>2, <1>3, <1>5, <1>6 DEF StreamInv, RequestInv, ChartInv, NoStreamIsOpen
<1> QED
  BY <1>4, <1>7 DEF DialogInv

\* Another range is picked.
LEMMA PickKeeps ==
    ASSUME DialogInv, EventTypes, ~late, NEW r \in Ranges, Pick(r)
    PROVE  DialogInv'
<1>1. /\ dialog.told = "shown" /\ range' = r
      /\ CloseStream /\ RenderOneChart(dialog.metric, r, FALSE)
      /\ UNCHANGED <<dialog, chart, attached, late>>
  BY DEF Pick
<1>2. dialog.metric \in Metrics
  BY <1>1 DEF DialogInv, DialogTypes
<1>3. /\ asked' \in [Asks -> Requests \cup {None}] /\ last' \in Asks /\ failed' = FALSE
      /\ asked'[last'] # None
      /\ asked'[last'].metric = dialog.metric /\ asked'[last'].range = r
  BY <1>1, <1>2, SendingIs DEF DialogInv
<1>4. /\ streams' \in [Streams -> [metric : Metrics, feeds : BOOLEAN] \cup {None}]
      /\ NoStreamIsOpen'
  BY <1>1, ClosingIs
<1>5. DialogTypes'
  BY <1>1, <1>2, <1>3, <1>4 DEF DialogInv, DialogTypes, Told
<1>6. StreamInv' /\ RequestInv' /\ ChartInv'
  BY <1>1, <1>3, <1>4 DEF StreamInv, RequestInv, ChartInv, NoStreamIsOpen
<1> QED
  BY <1>5, <1>6 DEF DialogInv

\* It begins to close.
LEMMA HideKeeps ==
    ASSUME DialogInv, ~late, HideDialog
    PROVE  DialogInv'
<1>1. /\ dialog.told = "shown" /\ dialog' = [dialog EXCEPT !.told = "hide"]
      /\ UNCHANGED <<range, asked, last, failed, chart, streams, attached, late>>
  BY DEF HideDialog
<1>2. dialog'.told = "hide" /\ dialog'.metric = dialog.metric
  BY <1>1 DEF DialogInv, DialogTypes
<1>3. DialogTypes'
  BY <1>1, <1>2 DEF DialogInv, DialogTypes, Told
<1>4. StreamInv' /\ RequestInv' /\ ChartInv'
  BY <1>1, <1>2 DEF DialogInv, StreamInv, RequestInv, ChartInv, NoStreamIsOpen, Shown
<1> QED
  BY <1>3, <1>4 DEF DialogInv

\* It is gone, and its stream with it.
LEMMA HiddenKeeps ==
    ASSUME DialogInv, ~late, DialogHidden
    PROVE  DialogInv'
<1>1. /\ dialog.told = "hide" /\ dialog' = [dialog EXCEPT !.told = "hidden"] /\ CloseStream
      /\ UNCHANGED <<range, asked, last, failed, chart, attached, late>>
  BY DEF DialogHidden
<1>2. dialog'.told = "hidden" /\ dialog'.metric = dialog.metric
  BY <1>1 DEF DialogInv, DialogTypes
<1>3. /\ streams' \in [Streams -> [metric : Metrics, feeds : BOOLEAN] \cup {None}]
      /\ NoStreamIsOpen'
  BY <1>1, ClosingIs
<1>4. DialogTypes'
  BY <1>1, <1>2, <1>3 DEF DialogInv, DialogTypes, Told
<1>5. StreamInv' /\ RequestInv' /\ ChartInv'
  BY <1>1, <1>2, <1>3 DEF StreamInv, RequestInv, ChartInv, NoStreamIsOpen
<1> QED
  BY <1>4, <1>5 DEF DialogInv

-----------------------------------------------------------------------------
\* A chart that is drawn ends the life of the one before it; no stream was open, so the
\* one it opens is alone.
LEMMA DrawingIs ==
    ASSUME DialogTypes, NEW r \in Requests, Draw(r)
    PROVE  /\ chart' \in Charts /\ chart' # None
           /\ chart'.metric = r.metric /\ chart'.range = r.range /\ chart'.events = r.events
           /\ streams' \in [Streams -> [metric : Metrics, feeds : BOOLEAN] \cup {None}]
           /\ attached' \in Streams \cup {None} /\ failed' = failed
           /\ NoStreamIsOpen =>
                 \A s \in Streams : streams'[s] # None =>
                     attached' = s /\ streams'[s].feeds /\ streams'[s].metric = r.metric
<1>1. /\ r.metric \in Metrics /\ r.range \in Ranges /\ r.live \in BOOLEAN /\ r.events \in Plots
  BY DEF Requests
<1>2. chart' = [metric |-> r.metric, range |-> r.range, events |-> r.events] /\ failed' = failed
  BY DEF Draw
<1>3. /\ chart' \in Charts
      /\ chart'.metric = r.metric /\ chart'.range = r.range /\ chart'.events = r.events
  BY <1>1, <1>2 DEF Charts
<1>4. chart' # None
  BY <1>3, GraphAssumption
<1>5. /\ Deaf \in [Streams -> [metric : Metrics, feeds : BOOLEAN] \cup {None}]
      /\ NoStreamIsOpen => \A s \in Streams : Deaf[s] = None
  <2>1. ASSUME NEW s \in Streams
        PROVE  (IF streams[s] = None THEN None ELSE [streams[s] EXCEPT !.feeds = FALSE])
                   \in [metric : Metrics, feeds : BOOLEAN] \cup {None}
    BY DEF DialogTypes
  <2> QED
    BY <2>1 DEF Deaf, NoStreamIsOpen
<1>6. CASE r.live
  <2> DEFINE free == {s \in Streams : streams[s] = None}
             s == CHOOSE s \in free : TRUE
             feed == [metric |-> r.metric, feeds |-> TRUE]
  <2>1. free # {} /\ streams' = [Deaf EXCEPT ![s] = feed] /\ attached' = s
    BY <1>6 DEF Draw
  <2>2. s \in Streams
    BY <2>1
  <2>3. feed \in [metric : Metrics, feeds : BOOLEAN] /\ feed.feeds /\ feed.metric = r.metric
    BY <1>1
  <2> HIDE DEF s, feed
  <2> QED
    BY <1>2, <1>3, <1>4, <1>5, <2>1, <2>2, <2>3
<1>7. CASE ~r.live
  <2>1. streams' = Deaf /\ attached' = attached
    BY <1>7 DEF Draw
  <2> QED
    BY <1>2, <1>3, <1>4, <1>5, <2>1 DEF DialogTypes
<1> QED
  BY <1>6, <1>7

\* An answer, of the latest request or not.
LEMMA AnswerKeeps ==
    ASSUME DialogInv, ~late, NEW i \in Asks, Answer(i)
    PROVE  DialogInv'
<1>1. /\ asked[i] # None /\ asked' = [asked EXCEPT ![i] = None]
      /\ late' = (late \/ ~InTime(i))
      /\ UNCHANGED <<dialog, range, last>>
      /\ Draw(asked[i]) \/ Fail
  BY DEF Answer
<1>2. /\ asked[i] \in Requests /\ DialogTypes
      /\ asked' \in [Asks -> Requests \cup {None}] /\ late' \in BOOLEAN
      /\ asked'[i] = None
  BY <1>1 DEF DialogInv, DialogTypes
<1>3. ASSUME ~late'
      PROVE  /\ i = last /\ dialog.told \in {"shown", "hide"}
             /\ asked[i].metric = dialog.metric /\ asked[i].range = range /\ NoStreamIsOpen
             /\ \A j \in Asks : j = last => asked'[j] = None
  <2>1. InTime(i)
    BY <1>1, <1>3
  <2> QED
    BY <1>1, <1>2, <2>1 DEF InTime, DialogInv, RequestInv
<1>4. CASE Draw(asked[i])
  <2>1. /\ chart' \in Charts /\ chart' # None
        /\ chart'.metric = asked[i].metric /\ chart'.range = asked[i].range
        /\ streams' \in [Streams -> [metric : Metrics, feeds : BOOLEAN] \cup {None}]
        /\ attached' \in Streams \cup {None} /\ failed' = failed
        /\ NoStreamIsOpen =>
              \A s \in Streams : streams'[s] # None =>
                  attached' = s /\ streams'[s].feeds /\ streams'[s].metric = asked[i].metric
    BY <1>2, <1>4, DrawingIs
  <2>2. DialogTypes'
    BY <1>1, <1>2, <2>1 DEF DialogTypes
  <2>3. ~late' => Shown(chart)'
    BY <1>1, <1>3, <2>1 DEF Shown
  <2>4. StreamInv' /\ RequestInv' /\ ChartInv'
    BY <1>1, <1>3, <2>1, <2>3 DEF StreamInv, RequestInv, ChartInv
  <2> QED
    BY <2>2, <2>4 DEF DialogInv
<1>5. CASE Fail
  <2>1. failed' = TRUE /\ UNCHANGED <<chart, streams, attached>>
    BY <1>5 DEF Fail
  <2>2. DialogTypes'
    BY <1>1, <1>2, <2>1 DEF DialogTypes
  <2>3. StreamInv' /\ RequestInv' /\ ChartInv'
    BY <1>1, <1>3, <2>1 DEF StreamInv, RequestInv, ChartInv, NoStreamIsOpen
  <2> QED
    BY <2>2, <2>3 DEF DialogInv
<1> QED
  BY <1>1, <1>4, <1>5

\* The events are no business of the dialog.
LEMMA DialogStays ==
    ASSUME DialogInv, UNCHANGED dialogVars
    PROVE  DialogInv'
<1> QED
  BY DEF dialogVars, DialogInv, DialogTypes, StreamInv, RequestInv, ChartInv, NoStreamIsOpen, Shown

-----------------------------------------------------------------------------
(***************************************************************************)
(* The events.                                                             *)
(***************************************************************************)
\* What was plotted when both kinds were known.
Sorted(plot) ==
    plot.known => /\ plot.lines = EventsOf("line") /\ plot.bands = EventsOf("band")
                  /\ plot.lineColors = plot.lines.count

ListsInv ==
    (\A k \in Kinds : events.answer[k] = "ok") =>
        /\ events.lines = EventsOf("line") /\ events.lineColors = events.lines.count
        /\ events.bands = EventsOf("band") /\ events.bandColors = events.bands.count
        /\ events.bandTextColors = events.bands.count

PlotsInv ==
    /\ chart # None => Sorted(chart.events)
    /\ \A i \in Asks : asked[i] # None => Sorted(asked[i].events)

EventsInv == EventTypes /\ ListsInv /\ PlotsInv

\* Before any answer.
LEMMA LoadingIs ==
    ASSUME NEW e \in Loading
    PROVE  /\ e \in [count : [Kinds -> Counts], answer : [Kinds -> {"asked", "ok", "failed"}],
                     lines : Lists, bands : Lists, lineColors : Nat, bandColors : Nat,
                     bandTextColors : Nat]
           /\ e.answer["line"] = "asked" /\ "line" \in Kinds
<1>1. PICK count \in [Kinds -> Counts] : e = GetEvents(count)
  BY DEF Loading
<1> QED
  BY <1>1 DEF GetEvents, Lists, Kinds

\* At first nothing was answered or drawn.
LEMMA EventsInit == Init => EventsInv
<1> SUFFICES ASSUME Init PROVE EventsInv
  OBVIOUS
<1>1. /\ events \in Loading /\ chart = None /\ \A i \in Asks : asked[i] = None
  BY DEF Init, NoRequests
<1> QED
  BY <1>1, LoadingIs DEF EventsInv, EventTypes, ListsInv, PlotsInv

\* Nor was it after the page was loaded again.
LEMMA ReloadSorts == Reload => EventsInv'
<1> SUFFICES ASSUME Reload PROVE EventsInv'
  OBVIOUS
<1>1. /\ events' \in Loading /\ chart' = None /\ \A i \in Asks : asked'[i] = None
  BY DEF Reload, NoRequests
<1> QED
  BY <1>1, LoadingIs DEF EventsInv, EventTypes, ListsInv, PlotsInv

\* A request that is sent takes along the events as they are.
LEMMA SendingSorts ==
    ASSUME DialogTypes, EventsInv, NEW metric, NEW from, NEW live,
           RenderOneChart(metric, from, live), UNCHANGED <<events, chart>>
    PROVE  EventsInv'
<1> DEFINE free == {i \in Asks : asked[i] = None}
           i == CHOOSE i \in free : TRUE
           request == [metric |-> metric, range |-> from, live |-> live, events |-> Plotted]
<1>1. asked' = [asked EXCEPT ![i] = request]
  BY DEF RenderOneChart
<1>2. Sorted(Plotted)
  BY DEF Sorted, Plotted, EventsInv, ListsInv
<1>3. Sorted(request.events)
  BY <1>2
<1> HIDE DEF i, request
<1>4. \A j \in Asks : asked'[j] # None => Sorted(asked'[j].events)
  BY <1>1, <1>3 DEF DialogTypes, EventsInv, PlotsInv
<1> QED
  BY <1>4 DEF EventsInv, EventTypes, ListsInv, PlotsInv, Sorted, EventsOf

\* An answer draws what was taken along.
LEMMA AnsweringSorts ==
    ASSUME DialogTypes, EventsInv, NEW i \in Asks, Answer(i)
    PROVE  EventsInv'
<1>1. /\ asked[i] # None /\ asked' = [asked EXCEPT ![i] = None] /\ UNCHANGED events
      /\ Draw(asked[i]) \/ Fail
  BY DEF Answer
<1>2. asked[i] \in Requests
  BY <1>1 DEF DialogTypes
<1>3. chart' # None => Sorted(chart'.events)
  <2>1. CASE Draw(asked[i])
    BY <1>1, <1>2, <2>1, DrawingIs DEF EventsInv, PlotsInv
  <2>2. CASE Fail
    BY <2>2 DEF Fail, EventsInv, PlotsInv
  <2> QED
    BY <1>1, <2>1, <2>2
<1>4. \A j \in Asks : asked'[j] # None => Sorted(asked'[j].events)
  BY <1>1 DEF DialogTypes, EventsInv, PlotsInv
<1> QED
  BY <1>1, <1>3, <1>4 DEF EventsInv, EventTypes, ListsInv, PlotsInv, Sorted, EventsOf

\* Events arrive, of one kind or the last of both, or do not.
LEMMA EventsArriveSorted ==
    ASSUME EventsInv, NEW kind \in Kinds, AnswerEvents(kind)
    PROVE  EventsInv'
<1> DEFINE e == [events EXCEPT !.answer[kind] = "ok", !.lines = EventsOf(kind)]
<1>1. UNCHANGED <<chart, asked>>
  BY DEF AnswerEvents, dialogVars
<1>2. EventTypes /\ "line" \in Kinds /\ "band" \in Kinds
  BY DEF EventsInv, Kinds
<1>3. \A k \in Kinds : EventsOf(k) \in Lists /\ EventsOf(k).count = events.count[k]
  BY <1>2, GraphAssumption DEF EventTypes, EventsOf, Lists
<1>4. ASSUME events'.count = events.count
      PROVE  PlotsInv'
  BY <1>1, <1>4 DEF EventsInv, PlotsInv, Sorted, EventsOf
<1>5. CASE events' = [events EXCEPT !.answer[kind] = "failed"]
  <2>1. EventTypes' /\ events'.count = events.count /\ events'.answer[kind] = "failed"
    BY <1>2, <1>5 DEF EventTypes
  <2>2. ListsInv'
    BY <2>1 DEF ListsInv
  <2> QED
    BY <1>4, <2>1, <2>2 DEF EventsInv
<1>6. e \in [count : [Kinds -> Counts], answer : [Kinds -> {"asked", "ok", "failed"}],
             lines : Lists, bands : Lists, lineColors : Nat, bandColors : Nat,
             bandTextColors : Nat]
      /\ e.count = events.count
  BY <1>2, <1>3 DEF EventTypes
<1>7. CASE events' = e /\ ~\A k \in Kinds : e.answer[k] = "ok"
  <2>1. EventTypes' /\ events'.count = events.count
    BY <1>6, <1>7 DEF EventTypes
  <2>2. ListsInv'
    BY <1>7 DEF ListsInv
  <2> QED
    BY <1>4, <2>1, <2>2 DEF EventsInv
<1>8. CASE events' = Done(e)
  <2> HIDE DEF e
  <2>1. \A k \in Kinds : e.count[k] \in Nat /\ e.count[k] = events.count[k]
    BY <1>2, <1>6, GraphAssumption DEF EventTypes
  <2>2. /\ EventTypes' /\ events'.count = events.count
        /\ events'.lines = EventsOf("line") /\ events'.bands = EventsOf("band")
        /\ events'.lineColors = events.count["line"]
        /\ events'.bandColors = events.count["band"]
        /\ events'.bandTextColors = events.count["band"]
    BY <1>2, <1>3, <1>6, <1>8, <2>1 DEF EventTypes, Done
  <2>3. EventsOf("line")' = EventsOf("line") /\ EventsOf("band")' = EventsOf("band")
    BY <2>2 DEF EventsOf
  <2>4. ListsInv'
    BY <1>2, <1>3, <2>2, <2>3 DEF ListsInv
  <2> QED
    BY <1>4, <2>2, <2>4 DEF EventsInv
<1> QED
  BY <1>5, <1>7, <1>8 DEF AnswerEvents

\* What the dialog does otherwise.
LEMMA SortedStay ==
    ASSUME EventsInv, UNCHANGED <<events, chart, asked>>
    PROVE  EventsInv'
<1> QED
  BY DEF EventsInv, EventTypes, ListsInv, PlotsInv, Sorted, EventsOf

-----------------------------------------------------------------------------
\* Both invariants hold.
LEMMA GraphInv == Spec => [](DialogInv /\ EventsInv)
<1>1. Init => DialogInv /\ EventsInv
  BY DialogInit, EventsInit
<1>2. ASSUME DialogInv, EventsInv, [Next]_vars
      PROVE  DialogInv' /\ EventsInv'
  <2> DialogTypes /\ EventTypes
    BY <1>2 DEF DialogInv, EventsInv
  <2>1. CASE Reload
    BY <2>1, ReloadKeeps, ReloadSorts
  <2>2. CASE UNCHANGED vars
    BY <1>2, <2>2, DialogStays, SortedStay DEF vars, dialogVars
  <2>3. ASSUME ~late, NEW k \in Kinds, AnswerEvents(k)
        PROVE  DialogInv' /\ EventsInv'
    BY <1>2, <2>3, DialogStays, EventsArriveSorted DEF AnswerEvents
  <2>4. ASSUME ~late, NEW i \in Asks, Answer(i)
        PROVE  DialogInv' /\ EventsInv'
    BY <1>2, <2>4, AnswerKeeps, AnsweringSorts
  <2>5. ASSUME ~late, NEW m \in Metrics, ShowDialog(m)
        PROVE  DialogInv' /\ EventsInv'
    BY <1>2, <2>5, ShowKeeps, SortedStay DEF ShowDialog
  <2>6. ASSUME ~late, NEW r \in Ranges, Pick(r)
        PROVE  DialogInv' /\ EventsInv'
    BY <1>2, <2>6, PickKeeps, SendingSorts DEF Pick
  <2>7. CASE ~late /\ DialogShown
    BY <1>2, <2>7, ShownKeeps, SendingSorts DEF DialogShown
  <2>8. CASE ~late /\ HideDialog
    BY <1>2, <2>8, HideKeeps, SortedStay DEF HideDialog
  <2>9. CASE ~late /\ DialogHidden
    BY <1>2, <2>9, HiddenKeeps, SortedStay DEF DialogHidden
  <2> QED
    BY <1>2, <2>1, <2>2, <2>3, <2>4, <2>5, <2>6, <2>7, <2>8, <2>9 DEF Next, Step
<1> QED
  BY <1>1, <1>2, PTL DEF Spec

(***************************************************************************)
(* OneLiveStream for any number of requests and streams: every request for *)
(* a chart is sent when the dialog's stream is closed or was never opened, *)
(* so what an answer in time opens is alone (each.html.tmpl:470, 524).      *)
(***************************************************************************)
THEOREM StreamsAreClosed == Spec => []OneLiveStream
<1>1. DialogInv => OneLiveStream
  BY DEF DialogInv, DialogTypes, StreamInv, OneLiveStream
<1> QED
  BY <1>1, GraphInv, PTL

(***************************************************************************)
(* ChartIsOfTheDialog for any number of requests: the chart of a dialog    *)
(* whose requests were answered in time is the one it asked for last.      *)
(***************************************************************************)
THEOREM LastAskedIsShown == Spec => []ChartIsOfTheDialog
<1>1. DialogInv => ChartIsOfTheDialog
  BY DEF DialogInv, ChartInv, ChartIsOfTheDialog
<1> QED
  BY <1>1, GraphInv, PTL

(***************************************************************************)
(* EventsAreSorted for any numbers of events: although both callbacks set  *)
(* TSEventLines, what is drawn after both answers are lines as lines and   *)
(* bands as bands (dashboard.js:345-380).                                  *)
(***************************************************************************)
THEOREM BothKindsAreSorted == Spec => []EventsAreSorted
<1>1. EventsInv => EventsAreSorted
  BY DEF EventsInv, ListsInv, PlotsInv, Sorted, EventsAreSorted
<1> QED
  BY <1>1, GraphInv, PTL

-----------------------------------------------------------------------------
(***************************************************************************)
(* The list of logs.                                                       *)
(***************************************************************************)
\* The places from one to another of n logs, counted from the end below 0.
Place(n, i) == IF i < 0 THEN Max2(n + i, 0) ELSE Min2(i, n)
Part(n, from, to) == Place(n, from) .. Place(n, to) - 1

\* What slice returns is such a part.
LEMMA SliceIsPart ==
    ASSUME NEW from, NEW to
    PROVE  Slice(from, to) = Part(logs, from, to)
  BY DEF Slice, Part, Place

\* A remainder, of a number that is not far.
LEMMA ModuloIs ==
    ASSUME NEW n \in Nat \ {0}, NEW x \in 0 .. 2 * n - 1
    PROVE  x % n = IF x < n THEN x ELSE x - n
<1> DEFINE q == x \div n
           r == x % n
<1>1. q \in Int /\ r \in 0 .. n - 1 /\ x = n * q + r
  OBVIOUS
<1> HIDE DEF q, r
<1>2. CASE q <= -1
  <2>1. n * q <= n * (-1)
    BY <1>1, <1>2
  <2> QED
    BY <1>1, <2>1
<1>3. CASE q >= 2
  <2>1. n * q >= n * 2
    BY <1>1, <1>3
  <2> QED
    BY <1>1, <2>1
<1>4. CASE q = 0
  <2>1. x = r
    BY <1>1, <1>4
  <2> QED
    BY <1>1, <2>1 DEF r
<1>5. CASE q = 1
  <2>1. x = n + r
    BY <1>1, <1>5
  <2> QED
    BY <1>1, <2>1 DEF r
<1> QED
  BY <1>1, <1>2, <1>3, <1>4, <1>5

\* JavaScript's remainder, of an index that is at most a list off at either side.
LEMMA RemainderIs ==
    ASSUME NEW n \in Nat \ {0}, NEW i \in -n .. 2 * n - 1
    PROVE  Remainder(i, n) = IF i = -n THEN 0 ELSE IF i < n THEN i ELSE i - n
<1>1. CASE i >= 0
  <2>1. i \in 0 .. 2 * n - 1
    BY <1>1
  <2>2. i % n = IF i < n THEN i ELSE i - n
    BY <2>1, ModuloIs
  <2> QED
    BY <1>1, <2>2 DEF Remainder
<1>2. CASE i < 0
  <2>1. -i \in 0 .. 2 * n - 1
    BY <1>2
  <2>2. (-i) % n = IF -i < n THEN -i ELSE -i - n
    BY <2>1, ModuloIs
  <2> QED
    BY <1>2, <2>2 DEF Remainder
<1> QED
  BY <1>1, <1>2

\* Where the index and the pages stand when the logs fill two pages.
PagerInv ==
    /\ logs \in Nat /\ older \in {Unset, "older", "newer"} /\ index \in Int
    /\ older = Unset => index = 0 /\ before = {}
    /\ logs >= 2 * ItemsPerPage =>
           /\ older = "newer" => index \in -2 * ItemsPerPage .. logs - 1
           /\ older = "older" =>
                  \E from \in -ItemsPerPage .. logs + ItemsPerPage - 1 :
                      index = from + ItemsPerPage /\ page = Part(logs, from, index)
           /\ older = "older" /\ before # {} =>
                  \E from \in -ItemsPerPage .. logs + ItemsPerPage - 1 :
                      LET i == Remainder(from + ItemsPerPage, logs)
                      IN  /\ before = Part(logs, from, from + ItemsPerPage)
                          /\ index = i + ItemsPerPage /\ page = Part(logs, i, index)

\* What an arrow shows, by the remainder of the index.
LEMMA RenderIs ==
    ASSUME PagerInv, NEW arrow \in {"older", "newer"}, Render(arrow), logs >= 2 * ItemsPerPage,
           NEW i \in Int, i = Remainder(index, logs)
    PROVE  /\ arrow = "older" /\ Turned(arrow) =>
                  /\ index' = i + 2 * ItemsPerPage
                  /\ page' = Part(logs, i + ItemsPerPage, i + 2 * ItemsPerPage)
           /\ arrow = "older" /\ ~Turned(arrow) /\ i + ItemsPerPage >= 0 =>
                  /\ index' = i + ItemsPerPage
                  /\ page' = Part(logs, i, i + ItemsPerPage)
           /\ arrow = "newer" /\ Turned(arrow) =>
                  /\ index' = i - 2 * ItemsPerPage
                  /\ page' = Part(logs, i - 2 * ItemsPerPage, i - ItemsPerPage)
           /\ arrow = "newer" /\ ~Turned(arrow) => index' = Max2(i - ItemsPerPage, 0)
<1> DEFINE I == ItemsPerPage
<1>1. I \in Nat \ {0} /\ logs \in Nat /\ logs >= I
  BY PagerAssumption DEF PagerInv
<1> DEFINE step == IF arrow = "newer" THEN -I ELSE I
           from == IF Turned(arrow) THEN i + step ELSE i
           to == IF Turned(arrow) THEN from + step ELSE Max2(i + step, 0)
<1>2. index' = to /\ page' = Slice(Min2(from, to), Max2(from, to))
  BY <1>1 DEF Render, Index
<1>3. page' = Part(logs, Min2(from, to), Max2(from, to))
  BY <1>2, SliceIsPart
<1> HIDE DEF I
<1>4. CASE arrow = "older" /\ Turned(arrow)
  <2>1. from = i + I /\ to = i + 2 * I
    BY <1>1, <1>4
  <2>2. Min2(from, to) = from /\ Max2(from, to) = to
    BY <1>1, <2>1 DEF Min2, Max2
  <2> QED
    BY <1>2, <1>3, <1>4, <2>1, <2>2 DEF I
<1>5. CASE arrow = "older" /\ ~Turned(arrow)
  <2> SUFFICES ASSUME i + I >= 0 PROVE index' = i + I /\ page' = Part(logs, i, i + I)
    BY <1>5 DEF I
  <2>1. from = i /\ to = i + I
    BY <1>1, <1>5 DEF Max2
  <2>2. Min2(from, to) = from /\ Max2(from, to) = to
    BY <1>1, <2>1 DEF Min2, Max2
  <2> QED
    BY <1>2, <1>3, <2>1, <2>2
<1>6. CASE arrow = "newer" /\ Turned(arrow)
  <2>1. from = i - I /\ to = i - 2 * I
    BY <1>1, <1>6
  <2>2. Min2(from, to) = to /\ Max2(from, to) = from
    BY <1>1, <2>1 DEF Min2, Max2
  <2> QED
    BY <1>2, <1>3, <1>6, <2>1, <2>2 DEF I
<1>7. CASE arrow = "newer" /\ ~Turned(arrow)
  <2>1. to = Max2(i - I, 0)
    BY <1>1, <1>7
  <2> QED
    BY <1>2, <1>7, <2>1 DEF I
<1> QED
  BY <1>4, <1>5, <1>6, <1>7

\* Every call of logs.render leaves the index within reach, and what is shown a part.
LEMMA RenderKeeps ==
    ASSUME PagerInv, NEW arrow \in {"older", "newer"}, older = Unset => arrow = "older",
           Render(arrow)
    PROVE  PagerInv'
<1> DEFINE I == ItemsPerPage
           n == logs
           i == Remainder(index, n)
<1>1. I \in Nat \ {0} /\ n \in Nat /\ index \in Int
  BY PagerAssumption DEF PagerInv
<1>2. /\ logs' = n /\ older' = arrow /\ arrow # Unset
      /\ before' = IF older = arrow THEN page ELSE {}
  BY DEF Render, Turned, Unset
<1>3. index' \in Int
  <2>1. i \in Int
    BY <1>1 DEF Remainder
  <2> HIDE DEF i
  <2> QED
    BY <1>1, <2>1 DEF Render, Index, Turned, Max2, Min2
<1>4. ASSUME n >= 2 * I
      PROVE  /\ arrow = "newer" => index' \in -2 * I .. n - 1
             /\ arrow = "older" => \E from \in -I .. n + I - 1 :
                    index' = from + I /\ page' = Part(n, from, index')
             /\ arrow = "older" /\ before' # {} => \E from \in -I .. n + I - 1 :
                    LET k == Remainder(from + I, n)
                    IN  /\ before' = Part(n, from, from + I)
                        /\ index' = k + I /\ page' = Part(n, k, index')
  <2>1. n \in Nat \ {0}
    BY <1>1, <1>4
  <2>2. CASE older = "older"
    <3>1. PICK from \in -I .. n + I - 1 : index = from + I /\ page = Part(n, from, index)
      BY <1>4, <2>2 DEF PagerInv
    <3>2. index \in 0 .. 2 * n - 1
      BY <1>1, <1>4, <3>1
    <3>3. i \in 0 .. n - 1
      <4>1. i = IF index < n THEN index ELSE index - n
        BY <1>1, <2>1, <3>2, RemainderIs
      <4> QED
        BY <1>1, <3>2, <4>1
    <3>4. CASE arrow = "older"
      <4>1. index' = i + I /\ page' = Part(n, i, i + I)
        BY <1>1, <1>4, <2>2, <3>3, <3>4, RenderIs DEF Turned
      <4>2. before' = Part(n, from, from + I)
        BY <1>2, <2>2, <3>1, <3>4
      <4>3. i \in -I .. n + I - 1
        BY <1>1, <3>3
      <4>4. i = Remainder(from + I, n)
        BY <3>1
      <4> HIDE DEF i, n, I
      <4> QED
        BY <3>4, <4>1, <4>2, <4>3, <4>4
    <3>5. CASE arrow = "newer"
      <4>1. index' = i - 2 * I
        BY <1>1, <1>4, <2>2, <3>3, <3>5, RenderIs DEF Turned
      <4> QED
        BY <1>1, <3>3, <3>5, <4>1
    <3> QED
      BY <3>4, <3>5
  <2>3. CASE older # "older"
    <3>1. index \in -2 * I .. n - 1
      BY <1>1, <1>4, <2>3 DEF PagerInv
    <3>2. i \in -2 * I .. n - 1
      <4>1. index \in -n .. 2 * n - 1
        BY <1>1, <1>4, <3>1
      <4>2. i = IF index = -n THEN 0 ELSE IF index < n THEN index ELSE index - n
        BY <1>1, <2>1, <4>1, RemainderIs
      <4> QED
        BY <1>1, <1>4, <3>1, <4>2
    <3>3. CASE arrow = "older"
      <4>1. index' = i + 2 * I /\ page' = Part(n, i + I, i + 2 * I)
        BY <1>1, <1>4, <2>3, <3>2, <3>3, RenderIs DEF Turned
      <4>2. i + I \in -I .. n + I - 1 /\ i + 2 * I = (i + I) + I
        BY <1>1, <3>2
      <4>3. before' = {}
        BY <1>2, <2>3, <3>3
      <4> HIDE DEF i, n, I
      <4> QED
        BY <3>3, <4>1, <4>2, <4>3
    <3>4. CASE arrow = "newer"
      <4>1. older = "newer"
        BY <2>3, <3>4 DEF PagerInv
      <4>2. index' = Max2(i - I, 0)
        BY <1>1, <1>4, <3>2, <3>4, <4>1, RenderIs DEF Turned
      <4> QED
        BY <1>1, <2>1, <3>2, <3>4, <4>2 DEF Max2
    <3> QED
      BY <3>3, <3>4
  <2> QED
    BY <2>2, <2>3
<1> HIDE DEF i
<1> QED
  BY <1>1, <1>2, <1>3, <1>4 DEF PagerInv

\* One step back from a page that is not one of the first shows the page before.
LEMMA StepBack ==
    ASSUME NEW I \in Nat \ {0}, NEW n \in Nat, n >= 2 * I, NEW from \in -I .. n + I - 1,
           NEW i, i = Remainder(from + I, n), NEW j, j = Remainder(i + I, n),
           Part(n, from, from + I) # {}, Part(n, i, i + I) \cap 0 .. I - 1 = {}
    PROVE  Part(n, j - 2 * I, j - I) = Part(n, from, from + I)
<1>1. from + I \in 0 .. 2 * n - 1 /\ n \in Nat \ {0}
  OBVIOUS
<1>2. i = IF from + I < n THEN from + I ELSE from + I - n
  BY <1>1, RemainderIs
<1>3. i \in 0 .. n - 1
  BY <1>1, <1>2
<1>4. i >= I
  <2>1. i \in Part(n, i, i + I)
    BY <1>3 DEF Part, Place, Min2, Max2
  <2> QED
    BY <1>3, <2>1
<1>5. from + I < n
  <2> SUFFICES ASSUME from + I >= n PROVE FALSE
    BY <1>1
  <2>1. from >= n
    BY <1>2, <1>4
  <2>2. Part(n, from, from + I) = {}
    BY <2>1 DEF Part, Place, Min2, Max2
  <2> QED
    BY <2>2
<1>6. i = from + I /\ from >= 0 /\ from + 2 * I \in 0 .. 2 * n - 1
  BY <1>2, <1>4, <1>5
<1>7. j = IF from + 2 * I < n THEN from + 2 * I ELSE from + 2 * I - n
  BY <1>1, <1>6, RemainderIs
<1>8. Place(n, j - 2 * I) = Place(n, from) /\ Place(n, j - I) = Place(n, from + I)
  BY <1>5, <1>6, <1>7 DEF Place, Min2, Max2
<1> QED
  BY <1>8 DEF Part

(***************************************************************************)
(* NewerGoesBack for any number of logs and any size of a page: the index  *)
(* that logs.render (dashboard.js) keeps is a page ahead of what is shown  *)
(* when the user goes to older logs, so a step to newer ones goes two back. *)
(***************************************************************************)
THEOREM NewerShowsThePageBefore == PagesSpec => NewerGoesBack
<1> DEFINE Back == (/\ older = "older" /\ older' = "newer" /\ before # {}
                    /\ logs >= 2 * ItemsPerPage /\ page \cap 0 .. ItemsPerPage - 1 = {}
                    => page' = before)
<1>1. PagesInit => PagerInv
  BY PagerAssumption DEF PagesInit, PagerInit, PagerInv, Unset
<1>2. ASSUME PagerInv, [PagesNext]_allVars
      PROVE  PagerInv' /\ [Back]_pagerVars
  <2>1. CASE UNCHANGED pagerVars
    BY <1>2, <2>1 DEF pagerVars, PagerInv
  <2>2. ASSUME NEW arrow \in {"older", "newer"}, Render(arrow), older = Unset => arrow = "older"
        PROVE  PagerInv' /\ Back
    <3>1. PagerInv'
      BY <1>2, <2>2, RenderKeeps
    <3>2. ASSUME older = "older", older' = "newer", before # {}, logs >= 2 * ItemsPerPage,
                 page \cap 0 .. ItemsPerPage - 1 = {}
          PROVE  page' = before
      <4>1. PICK from \in -ItemsPerPage .. logs + ItemsPerPage - 1 :
                /\ before = Part(logs, from, from + ItemsPerPage)
                /\ index = Remainder(from + ItemsPerPage, logs) + ItemsPerPage
                /\ page = Part(logs, Remainder(from + ItemsPerPage, logs), index)
        BY <1>2, <3>2 DEF PagerInv
      <4> DEFINE i == Remainder(from + ItemsPerPage, logs)
                 j == Remainder(i + ItemsPerPage, logs)
      <4>2. arrow = "newer" /\ Turned(arrow)
        BY <2>2, <3>2 DEF Render, Turned
      <4>3. ItemsPerPage \in Nat \ {0} /\ logs \in Nat
        BY <1>2, PagerAssumption DEF PagerInv
      <4>4. j \in Int /\ j = Remainder(index, logs)
        BY <4>1, <4>3 DEF Remainder
      <4> HIDE DEF j
      <4>5. page' = Part(logs, j - 2 * ItemsPerPage, j - ItemsPerPage)
        BY <1>2, <2>2, <3>2, <4>2, <4>4, RenderIs
      <4> QED
        BY <3>2, <4>1, <4>3, <4>5, StepBack DEF j
    <3> QED
      BY <3>1, <3>2
  <2> QED
    BY <1>2, <2>1, <2>2 DEF PagesNext, PagerNext, Arrive, Press, allVars
<1> QED
  BY <1>1, <1>2, PTL DEF PagesSpec, NewerGoesBack

-----------------------------------------------------------------------------
(***************************************************************************)
(* The colours of events.                                                  *)
(***************************************************************************)
Uses == {"line", "band", "text"}

\* Where a hue and a saturation lie.
Hues(use) == IF use = "band" THEN 47 .. 62 ELSE 63 .. 178
Saturations(use) == CASE use = "line" -> 30 .. 55
                      [] use = "band" -> 25 .. 55
                      [] use = "text" -> 90 .. 100
LeastValues(use) == CASE use = "line" -> 83 * Unit .. 100 * Unit
                      [] use = "band" -> 87 * Unit .. 100 * Unit
                      [] use = "text" -> 40 * Unit .. 50 * Unit
Brightness(use) == CASE use = "line" -> 91 .. 100
                     [] use = "band" -> 93 .. 100
                     [] use = "text" -> 40 .. 70

\* How much red, green or blue there is, of 255.
Shares == 0 .. 255

Suits(use, r, g, b) ==
    /\ use = "line" => g >= r /\ g >= b /\ g > 217
    /\ use = "band" => r > b /\ g > b /\ (r > 217 \/ g > 217)
    /\ use = "text" => g > r /\ g > b /\ g < 180

HexOf(r, g, b) == ComponentToHex(r) \o ComponentToHex(g) \o ComponentToHex(b)

ColorInv ==
    /\ color \in [use : Uses, known : Seq(Int)]
    /\ \/ color.known = <<>>
       \/ \E h \in Hues(color.use) : color.known = <<h>>
       \/ \E h \in Hues(color.use), s \in Saturations(color.use) : color.known = <<h, s>>
       \/ \E r, g, b \in Shares :
              /\ color.known = HexOf(r, g, b)
              /\ Suits(color.use, r, g, b)

\* A draw between two numbers lies between them.
LEMMA WithinBounds ==
    ASSUME NEW lo \in Int, NEW hi \in Int, lo <= hi, NEW draw \in Draws,
           NEW a \in Int, NEW b \in Int, a * Unit <= lo, hi <= b * Unit
    PROVE  Within(lo, hi, draw) \in a .. b
<1> DEFINE w == hi + 120 - lo
           N == lo * Grain + draw * w
           D == Grain * 120
<1>1. Grain \in Nat \ {0} /\ draw \in 0 .. Grain - 1
  BY DrawsAssumption
<1>2. w \in Nat \ {0} /\ a * 120 <= lo /\ hi <= b * 120
  BY DEF Unit
<1>3. N >= lo * Grain
  <2>1. draw * w >= 0
    BY <1>1, <1>2
  <2> HIDE DEF w
  <2> QED
    BY <1>1, <1>2, <2>1
<1>4. N < (hi + 120) * Grain
  <2>1. draw * w <= (Grain - 1) * w
    <3> HIDE DEF w
    <3> QED
      BY <1>1, <1>2
  <2>2. (Grain - 1) * w = Grain * w - w
    <3> HIDE DEF w
    <3> QED
      BY <1>1, <1>2
  <2>3. lo * Grain + Grain * w = (hi + 120) * Grain
    BY <1>1
  <2>4. draw * w \in Int /\ Grain * w \in Int /\ lo * Grain \in Int
    BY <1>1, <1>2
  <2> HIDE DEF w
  <2> QED
    BY <1>1, <1>2, <2>1, <2>2, <2>3, <2>4
<1>5. a * D <= lo * Grain
  <2>1. (a * 120) * Grain <= lo * Grain
    BY <1>1, <1>2
  <2> QED
    BY <1>1, <2>1
<1>6. (hi + 120) * Grain <= (b + 1) * D
  <2>1. (hi + 120) * Grain <= (b * 120 + 120) * Grain
    BY <1>1, <1>2
  <2> QED
    BY <1>1, <2>1
<1>7. D \in Nat \ {0} /\ N \in Int /\ lo * Grain \in Int /\ (hi + 120) * Grain \in Int
      /\ a * D \in Int /\ (b + 1) * D \in Int
  BY <1>1
<1>8. a * D <= N /\ N < (b + 1) * D
  <2> HIDE DEF N, D
  <2> QED
    BY <1>3, <1>4, <1>5, <1>6, <1>7
<1> DEFINE q == N \div D
<1>9. q \in Int /\ q * D <= N /\ N < (q + 1) * D
  <2> HIDE DEF N, D
  <2>1. q \in Int /\ N % D \in 0 .. D - 1 /\ N = D * q + (N % D)
    BY <1>7
  <2> HIDE DEF q
  <2>2. q * D = D * q /\ (q + 1) * D = D * q + D
    BY <1>7, <2>1
  <2> QED
    BY <1>7, <2>1, <2>2
<1>10. Within(lo, hi, draw) = q
  BY DEF Within, Unit
<1> HIDE DEF q, N, D
<1>11. a <= q
  <2> SUFFICES ASSUME q + 1 <= a PROVE FALSE
    BY <1>9
  <2>1. (q + 1) * D <= a * D
    BY <1>7, <1>9
  <2> QED
    BY <1>7, <1>8, <1>9, <2>1
<1>12. q <= b
  <2> SUFFICES ASSUME b + 1 <= q PROVE FALSE
    BY <1>9
  <2>1. (b + 1) * D <= q * D
    BY <1>7, <1>9
  <2> QED
    BY <1>7, <1>8, <1>9, <2>1
<1> QED
  BY <1>9, <1>10, <1>11, <1>12

\* A draw between two whole numbers.
LEMMA WholeWithin ==
    ASSUME NEW a \in Int, NEW b \in Int, a <= b, NEW draw \in Draws
    PROVE  Within(a * Unit, b * Unit, draw) \in a .. b
<1>1. a * Unit \in Int /\ b * Unit \in Int /\ a * Unit <= b * Unit
  BY DEF Unit
<1> QED
  BY <1>1, WithinBounds

\* Where the hues of the two named colours lie.
LEMMA HueRanges == HueRange("green") = <<63, 178>> /\ HueRange("yellow") = <<47, 62>>
<1> DEFINE cs == {ColorDictionary[i] : i \in DOMAIN ColorDictionary}
<1>1. DOMAIN ColorDictionary = 1 .. 7
  BY DEF ColorDictionary
<1>2. /\ ColorDictionary[1].name = "red" /\ ColorDictionary[2].name = "orange"
      /\ ColorDictionary[3].name = "yellow" /\ ColorDictionary[4].name = "green"
      /\ ColorDictionary[5].name = "blue" /\ ColorDictionary[6].name = "purple"
      /\ ColorDictionary[7].name = "pink"
  BY DEF ColorDictionary, DefineColor
<1>3. /\ ColorDictionary[4].hueRange = <<63, 178>>
      /\ ColorDictionary[3].hueRange = <<47, 62>>
  BY DEF ColorDictionary, DefineColor
<1>4. \A c \in cs : (c.name = "green" <=> c = ColorDictionary[4])
                    /\ (c.name = "yellow" <=> c = ColorDictionary[3])
  BY <1>1, <1>2
<1>5. ColorDictionary[4] \in cs /\ ColorDictionary[3] \in cs
  BY <1>1
<1>6. /\ (CHOOSE c \in cs : c.name = "green") = ColorDictionary[4]
      /\ (CHOOSE c \in cs : c.name = "yellow") = ColorDictionary[3]
  <2> HIDE DEF cs
  <2> QED
    BY <1>4, <1>5
<1> QED
  BY <1>3, <1>6 DEF HueRange

\* Green and yellow hues are those of green and of yellow.
LEMMA InfoIs ==
    ASSUME NEW hue \in 47 .. 178
    PROVE  ColorInfo(hue) = ColorDictionary[IF hue <= 62 THEN 3 ELSE 4]
<1> DEFINE h == IF hue >= 334 /\ hue <= 360 THEN hue - 360 ELSE hue
           Has(i) == /\ ColorDictionary[i].hueRange[1] <= h
                     /\ h <= ColorDictionary[i].hueRange[2]
           has == {i \in DOMAIN ColorDictionary : Has(i)}
           n == IF hue <= 62 THEN 3 ELSE 4
<1>1. DOMAIN ColorDictionary = 1 .. 7
  BY DEF ColorDictionary
<1>2. /\ ColorDictionary[1].hueRange = <<-26, 18>> /\ ColorDictionary[2].hueRange = <<19, 46>>
      /\ ColorDictionary[3].hueRange = <<47, 62>> /\ ColorDictionary[4].hueRange = <<63, 178>>
      /\ ColorDictionary[5].hueRange = <<179, 257>>
      /\ ColorDictionary[6].hueRange = <<258, 282>>
      /\ ColorDictionary[7].hueRange = <<283, 334>>
  BY DEF ColorDictionary, DefineColor
<1>3. \A i \in 1 .. 7 : Has(i) <=> i = n
  BY <1>2
<1>4. has = {n}
  <2> HIDE DEF Has
  <2> QED
    BY <1>1, <1>3
<1>5. (CHOOSE i \in has : \A j \in has : i <= j) = n
  <2> HIDE DEF has
  <2> QED
    BY <1>4
<1> QED
  BY <1>5 DEF ColorInfo

\* The hue drawn for a use (pickHue).
LEMMA HuesAre ==
    ASSUME NEW use \in Uses, NEW draw \in Draws
    PROVE  PickHue(Call[use].hue, draw) \in Hues(use)
<1>1. CASE use = "band"
  <2>1. 47 \in Int /\ 62 \in Int /\ 47 <= 62
    OBVIOUS
  <2>2. Within(47 * Unit, 62 * Unit, draw) \in 47 .. 62
    BY <2>1, WholeWithin, Zenon
  <2>3. Call[use].hue = "yellow"
    BY <1>1 DEF Call
  <2> QED
    BY <1>1, <2>2, <2>3, HueRanges DEF PickHue, Hues
<1>2. CASE use # "band"
  <2>1. 63 \in Int /\ 178 \in Int /\ 63 <= 178
    OBVIOUS
  <2>2. Within(63 * Unit, 178 * Unit, draw) \in 63 .. 178
    BY <2>1, WholeWithin, Zenon
  <2>3. Call[use].hue = "green"
    BY <1>2 DEF Call, Uses
  <2> QED
    BY <1>2, <2>2, <2>3, HueRanges DEF PickHue, Hues
<1> QED
  BY <1>1, <1>2

\* The saturation drawn for a use (pickSaturation).
LEMMA SaturationsAre ==
    ASSUME NEW use \in Uses, NEW hue \in Hues(use), NEW draw \in Draws
    PROVE  PickSaturation(hue, Call[use].luminosity, draw) \in Saturations(use)
<1>1. /\ ColorDictionary[4].lowerBounds[1][1] = 30
      /\ Len(ColorDictionary[4].lowerBounds) = 8
      /\ ColorDictionary[4].lowerBounds[8][1] = 100
  BY DEF ColorDictionary, DefineColor
<1>2. /\ ColorDictionary[3].lowerBounds[1][1] = 25
      /\ Len(ColorDictionary[3].lowerBounds) = 8
      /\ ColorDictionary[3].lowerBounds[8][1] = 100
  BY DEF ColorDictionary, DefineColor
<1>3. CASE use = "band"
  <2>1. ColorInfo(hue) = ColorDictionary[3]
    BY <1>3, InfoIs DEF Hues
  <2>2. SaturationRange(hue) = <<25, 100>>
    BY <1>2, <2>1 DEF SaturationRange
  <2>3. PickSaturation(hue, Call[use].luminosity, draw) = Within(25 * Unit, 55 * Unit, draw)
    BY <1>3, <2>2 DEF PickSaturation, Call
  <2>4. Within(25 * Unit, 55 * Unit, draw) \in 25 .. 55
    <3>1. 25 \in Int /\ 55 \in Int /\ 25 <= 55
      OBVIOUS
    <3> QED
      BY <3>1, WholeWithin, Zenon
  <2> QED
    BY <1>3, <2>3, <2>4 DEF Saturations
<1>4. CASE use # "band"
  <2>1. ColorInfo(hue) = ColorDictionary[4]
    BY <1>4, InfoIs DEF Hues
  <2>2. SaturationRange(hue) = <<30, 100>>
    BY <1>1, <2>1 DEF SaturationRange
  <2>3. CASE use = "line"
    <3>1. PickSaturation(hue, Call[use].luminosity, draw) = Within(30 * Unit, 55 * Unit, draw)
      BY <2>3, <2>2 DEF PickSaturation, Call
    <3>2. Within(30 * Unit, 55 * Unit, draw) \in 30 .. 55
      <4>1. 30 \in Int /\ 55 \in Int /\ 30 <= 55
        OBVIOUS
      <4> QED
        BY <4>1, WholeWithin, Zenon
    <3> QED
      BY <2>3, <3>1, <3>2 DEF Saturations
  <2>4. CASE use = "text"
    <3>1. PickSaturation(hue, Call[use].luminosity, draw) = Within(90 * Unit, 100 * Unit, draw)
      BY <2>4, <2>2 DEF PickSaturation, Call
    <3>2. Within(90 * Unit, 100 * Unit, draw) \in 90 .. 100
      <4>1. 90 \in Int /\ 100 \in Int /\ 90 <= 100
        OBVIOUS
      <4> QED
        BY <4>1, WholeWithin, Zenon
    <3> QED
      BY <2>4, <3>1, <3>2 DEF Saturations
  <2> QED
    BY <1>4, <2>3, <2>4 DEF Uses
<1> QED
  BY <1>3, <1>4

OnLine(bounds, i, sat) == bounds[i][1] <= sat /\ sat <= bounds[i + 1][1]
Least(bounds, i, sat) ==
    bounds[i][2] * Unit
    + ((Unit * (bounds[i + 1][2] - bounds[i][2])) \div (bounds[i + 1][1] - bounds[i][1]))
          * (sat - bounds[i][1])

\* The brightness of a saturation is that on the first line it is on.
LEMMA BrightnessOnLine ==
    ASSUME NEW hue, NEW sat \in Int, NEW bounds, bounds = ColorInfo(hue).lowerBounds,
           NEW i \in 1 .. Len(bounds) - 1, OnLine(bounds, i, sat),
           \A j \in 1 .. i - 1 : ~OnLine(bounds, j, sat)
    PROVE  MinimumBrightness(hue, sat) = Least(bounds, i, sat)
<1> DEFINE has == {j \in 1 .. Len(bounds) - 1 : OnLine(bounds, j, sat)}
           first == CHOOSE j \in has : \A k \in has : j <= k
<1>1. i \in has /\ has \subseteq Int
  OBVIOUS
<1>2. \A j \in has : i <= j
  <2> SUFFICES ASSUME NEW j \in has, j < i PROVE FALSE
    BY <1>1
  <2>1. j \in 1 .. i - 1
    OBVIOUS
  <2> QED
    BY <2>1
<1>3. first = i
  <2> HIDE DEF has
  <2>1. first \in has /\ \A k \in has : first <= k
    BY <1>1, <1>2
  <2> HIDE DEF first
  <2>2. first <= i /\ i <= first /\ first \in Int /\ i \in Int
    BY <1>1, <1>2, <2>1
  <2> QED
    BY <2>2
<1>4. has # {}
  BY <1>1
<1>5. MinimumBrightness(hue, sat) = IF has = {} THEN 0 ELSE Least(bounds, first, sat)
  BY DEF MinimumBrightness, OnLine, Least
<1> HIDE DEF has, first
<1> QED
  BY <1>3, <1>4, <1>5

\* How bright a band, a line and the text of a band are at least.
LEMMA LeastBrightness ==
    ASSUME NEW use \in Uses, NEW hue \in Hues(use), NEW sat \in Saturations(use)
    PROVE  MinimumBrightness(hue, sat) \in LeastValues(use)
<1> DEFINE bounds == ColorInfo(hue).lowerBounds
<1>1. CASE use = "band"
  <2>1. bounds = ColorDictionary[3].lowerBounds
    BY <1>1, InfoIs DEF Hues
  <2>2. /\ Len(bounds) = 8
        /\ bounds[1] = <<25, 100>> /\ bounds[2] = <<40, 94>>
        /\ bounds[3] = <<50, 89>> /\ bounds[4] = <<60, 86>>
    BY <2>1 DEF ColorDictionary, DefineColor
  <2>3. sat \in 25 .. 55
    BY <1>1 DEF Saturations
  <2> HIDE DEF bounds
  <2>4. CASE sat <= 40
    <3>1. /\ 1 \in 1 .. Len(bounds) - 1 /\ OnLine(bounds, 1, sat)
          /\ \A j \in 1 .. 1 - 1 : ~OnLine(bounds, j, sat)
      BY <2>2, <2>3, <2>4 DEF OnLine
    <3>2. MinimumBrightness(hue, sat) = Least(bounds, 1, sat)
      BY <2>3, <3>1, BrightnessOnLine DEF bounds
    <3>3. Least(bounds, 1, sat) = 100 * 120 - 48 * (sat - 25)
      BY <2>2, <2>3 DEF Least, Unit
    <3> QED
      BY <1>1, <2>3, <2>4, <3>2, <3>3 DEF Unit, LeastValues
  <2>5. CASE 40 < sat /\ sat <= 50
    <3>1. /\ 2 \in 1 .. Len(bounds) - 1 /\ OnLine(bounds, 2, sat)
          /\ \A j \in 1 .. 2 - 1 : ~OnLine(bounds, j, sat)
      BY <2>2, <2>3, <2>5 DEF OnLine
    <3>2. MinimumBrightness(hue, sat) = Least(bounds, 2, sat)
      BY <2>3, <3>1, BrightnessOnLine DEF bounds
    <3>3. Least(bounds, 2, sat) = 94 * 120 - 60 * (sat - 40)
      BY <2>2, <2>3 DEF Least, Unit
    <3> QED
      BY <1>1, <2>3, <2>5, <3>2, <3>3 DEF Unit, LeastValues
  <2>6. CASE 50 < sat
    <3>1. /\ 3 \in 1 .. Len(bounds) - 1 /\ OnLine(bounds, 3, sat)
          /\ \A j \in 1 .. 3 - 1 : ~OnLine(bounds, j, sat)
      BY <2>2, <2>3, <2>6 DEF OnLine
    <3>2. MinimumBrightness(hue, sat) = Least(bounds, 3, sat)
      BY <2>3, <3>1, BrightnessOnLine DEF bounds
    <3>3. Least(bounds, 3, sat) = 89 * 120 - 36 * (sat - 50)
      BY <2>2, <2>3 DEF Least, Unit
    <3> QED
      BY <1>1, <2>3, <2>6, <3>2, <3>3 DEF Unit, LeastValues
  <2> QED
    BY <2>3, <2>4, <2>5, <2>6
<1>2. CASE use # "band"
  <2>1. bounds = ColorDictionary[4].lowerBounds
    BY <1>2, InfoIs DEF Hues
  <2>2. /\ Len(bounds) = 8
        /\ bounds[1] = <<30, 100>> /\ bounds[2] = <<40, 90>> /\ bounds[3] = <<50, 85>>
        /\ bounds[4] = <<60, 81>> /\ bounds[5] = <<70, 74>> /\ bounds[6] = <<80, 64>>
        /\ bounds[7] = <<90, 50>> /\ bounds[8] = <<100, 40>>
    BY <2>1 DEF ColorDictionary, DefineColor
  <2>3. sat \in 30 .. 100 /\ (use = "line" => sat <= 55) /\ (use = "text" => sat >= 90)
        /\ (use = "line" \/ use = "text")
    BY <1>2 DEF Saturations, Uses
  <2> HIDE DEF bounds
  <2>4. CASE sat <= 40
    <3>1. /\ 1 \in 1 .. Len(bounds) - 1 /\ OnLine(bounds, 1, sat)
          /\ \A j \in 1 .. 1 - 1 : ~OnLine(bounds, j, sat)
      BY <2>2, <2>3, <2>4 DEF OnLine
    <3>2. MinimumBrightness(hue, sat) = Least(bounds, 1, sat)
      BY <2>3, <3>1, BrightnessOnLine DEF bounds
    <3>3. Least(bounds, 1, sat) = 100 * 120 - 120 * (sat - 30)
      BY <2>2, <2>3 DEF Least, Unit
    <3> QED
      BY <1>2, <2>3, <2>4, <3>2, <3>3 DEF Unit, LeastValues
  <2>5. CASE 40 < sat /\ sat <= 50
    <3>1. /\ 2 \in 1 .. Len(bounds) - 1 /\ OnLine(bounds, 2, sat)
          /\ \A j \in 1 .. 2 - 1 : ~OnLine(bounds, j, sat)
      BY <2>2, <2>3, <2>5 DEF OnLine
    <3>2. MinimumBrightness(hue, sat) = Least(bounds, 2, sat)
      BY <2>3, <3>1, BrightnessOnLine DEF bounds
    <3>3. Least(bounds, 2, sat) = 90 * 120 - 60 * (sat - 40)
      BY <2>2, <2>3 DEF Least, Unit
    <3> QED
      BY <1>2, <2>3, <2>5, <3>2, <3>3 DEF Unit, LeastValues
  <2>6. CASE 50 < sat /\ sat <= 60
    <3>1. /\ 3 \in 1 .. Len(bounds) - 1 /\ OnLine(bounds, 3, sat)
          /\ \A j \in 1 .. 3 - 1 : ~OnLine(bounds, j, sat)
      BY <2>2, <2>3, <2>6 DEF OnLine
    <3>2. MinimumBrightness(hue, sat) = Least(bounds, 3, sat)
      BY <2>3, <3>1, BrightnessOnLine DEF bounds
    <3>3. Least(bounds, 3, sat) = 85 * 120 - 48 * (sat - 50)
      BY <2>2, <2>3 DEF Least, Unit
    <3> QED
      BY <1>2, <2>3, <2>6, <3>2, <3>3 DEF Unit, LeastValues
  <2>7. CASE sat = 90
    <3>1. /\ 6 \in 1 .. Len(bounds) - 1 /\ OnLine(bounds, 6, sat)
          /\ \A j \in 1 .. 6 - 1 : ~OnLine(bounds, j, sat)
      BY <2>2, <2>3, <2>7 DEF OnLine
    <3>2. MinimumBrightness(hue, sat) = Least(bounds, 6, sat)
      BY <2>3, <3>1, BrightnessOnLine DEF bounds
    <3>3. Least(bounds, 6, sat) = 64 * 120 - 168 * (sat - 80)
      BY <2>2, <2>3 DEF Least, Unit
    <3> QED
      BY <1>2, <2>3, <2>7, <3>2, <3>3 DEF Unit, LeastValues
  <2>8. CASE 90 < sat
    <3>1. /\ 7 \in 1 .. Len(bounds) - 1 /\ OnLine(bounds, 7, sat)
          /\ \A j \in 1 .. 7 - 1 : ~OnLine(bounds, j, sat)
      BY <2>2, <2>3, <2>8 DEF OnLine
    <3>2. MinimumBrightness(hue, sat) = Least(bounds, 7, sat)
      BY <2>3, <3>1, BrightnessOnLine DEF bounds
    <3>3. Least(bounds, 7, sat) = 50 * 120 - 120 * (sat - 90)
      BY <2>2, <2>3 DEF Least, Unit
    <3> QED
      BY <1>2, <2>3, <2>8, <3>2, <3>3 DEF Unit, LeastValues
  <2> QED
    BY <2>3, <2>4, <2>5, <2>6, <2>7, <2>8
<1> QED
  BY <1>1, <1>2

\* The brightness drawn for a use (pickBrightness).
LEMMA BrightnessIs ==
    ASSUME NEW use \in Uses, NEW hue \in Hues(use), NEW sat \in Saturations(use),
           NEW draw \in Draws
    PROVE  PickBrightness(hue, sat, Call[use].luminosity, draw) \in Brightness(use)
<1> DEFINE min == MinimumBrightness(hue, sat)
           val == PickBrightness(hue, sat, Call[use].luminosity, draw)
<1>1. min \in LeastValues(use)
  BY LeastBrightness
<1> HIDE DEF min
<1>2. CASE use = "text"
  <2>1. min \in 40 * 120 .. 50 * 120
    BY <1>1, <1>2 DEF LeastValues, Unit
  <2>2. Call[use].luminosity = "dark"
    BY <1>2 DEF Call
  <2>3. val = Within(min, min + 20 * Unit, draw)
    BY <2>2 DEF PickBrightness, min
  <2>4. /\ min \in Int /\ min + 20 * Unit \in Int /\ min <= min + 20 * Unit
        /\ 40 \in Int /\ 70 \in Int /\ 40 * Unit <= min /\ min + 20 * Unit <= 70 * Unit
    BY <2>1 DEF Unit
  <2>5. Within(min, min + 20 * Unit, draw) \in 40 .. 70
    BY <2>4, WithinBounds, Zenon
  <2> QED
    BY <1>2, <2>3, <2>5 DEF Brightness
<1>3. CASE use # "text"
  <2>1. Call[use].luminosity = "light"
    BY <1>3 DEF Call, Uses
  <2> DEFINE low == (100 * Unit + min) \div 2
  <2>2. val = Within(low, 100 * Unit, draw)
    BY <2>1 DEF PickBrightness, min
  <2>3. CASE use = "line"
    <3>1. min \in 83 * 120 .. 100 * 120
      BY <1>1, <2>3 DEF LeastValues, Unit
    <3>2. low \in 91 * 120 .. 100 * 120
      <4>1. low = (12000 + min) \div 2
        BY DEF Unit
      <4> QED
        BY <3>1, <4>1
    <3> HIDE DEF low
    <3>3. /\ low \in Int /\ 100 * Unit \in Int /\ low <= 100 * Unit
          /\ 91 \in Int /\ 100 \in Int /\ 91 * Unit <= low /\ 100 * Unit <= 100 * Unit
      BY <3>2 DEF Unit
    <3>4. Within(low, 100 * Unit, draw) \in 91 .. 100
      BY <3>3, WithinBounds, Zenon
    <3> QED
      BY <2>3, <2>2, <3>4 DEF Brightness
  <2>4. CASE use = "band"
    <3>1. min \in 87 * 120 .. 100 * 120
      BY <1>1, <2>4 DEF LeastValues, Unit
    <3>2. low \in 93 * 120 .. 100 * 120
      <4>1. low = (12000 + min) \div 2
        BY DEF Unit
      <4> QED
        BY <3>1, <4>1
    <3> HIDE DEF low
    <3>3. /\ low \in Int /\ 100 * Unit \in Int /\ low <= 100 * Unit
          /\ 93 \in Int /\ 100 \in Int /\ 93 * Unit <= low /\ 100 * Unit <= 100 * Unit
      BY <3>2 DEF Unit
    <3>4. Within(low, 100 * Unit, draw) \in 93 .. 100
      BY <3>3, WithinBounds, Zenon
    <3> QED
      BY <2>4, <2>2, <3>4 DEF Brightness
  <2> QED
    BY <1>3, <2>3, <2>4 DEF Uses
<1> QED
  BY <1>2, <1>3

\* What is a colour's share of the brightest, of 255.
Full == 6000
Clear(x, y) == x + 180 <= y
Of255(val, share) == (255 * val * share) \div 600000

\* A greater share is no darker, and one that is clear of another is lighter.
LEMMA SharesOf ==
    ASSUME NEW val \in 0 .. 100, NEW x \in 0 .. Full, NEW y \in 0 .. Full, x <= y
    PROVE  /\ Of255(val, x) \in Shares
           /\ Of255(val, x) <= Of255(val, y)
           /\ val >= 40 /\ Clear(x, y) => Of255(val, x) < Of255(val, y)
<1> DEFINE m == 255 * val * x
           n == 255 * val * y
<1>1. m \in Nat /\ n \in Nat
  BY DEF Full
<1>2. m <= n
  BY DEF Full
<1>3. m <= 255 * 600000
  BY DEF Full
<1>4. ASSUME val >= 40, Clear(x, y) PROVE m + 600000 <= n
  <2>1. (255 * val) * (y - x) >= (255 * 40) * 180
    BY <1>4 DEF Full, Clear
  <2>2. n - m = (255 * val) * (y - x)
    BY DEF Full
  <2> QED
    BY <1>1, <2>1, <2>2
<1>5. Of255(val, x) = m \div 600000 /\ Of255(val, y) = n \div 600000
  BY DEF Of255
<1> HIDE DEF m, n
<1> QED
  BY <1>1, <1>2, <1>3, <1>4, <1>5 DEF Shares

\* A colour drawn for a use suits it: which of red, green and blue is which share depends on
\* the sector of the hue.
LEMMA DrawnSuits ==
    ASSUME NEW use \in Uses, NEW hue \in Hues(use), NEW sat \in Saturations(use),
           NEW val \in Brightness(use)
    PROVE  \E r, g, b \in Shares :
               /\ HSVtoHex(hue, sat, val)
                      = HexOf(r, g, b)
               /\ Suits(use, r, g, b)
<1>1. PICK sector \in 0 .. 2, rest \in 0 .. 59 : hue = 60 * sector + rest
  <2>1. hue \in 47 .. 178
    BY DEF Hues
  <2>2. CASE hue < 60
    <3>1. hue = 60 * 0 + hue /\ hue \in 0 .. 59
      BY <2>1, <2>2
    <3> QED
      BY <3>1
  <2>3. CASE hue >= 60 /\ hue < 120
    <3>1. hue = 60 * 1 + (hue - 60) /\ hue - 60 \in 0 .. 59
      BY <2>1, <2>3
    <3> QED
      BY <3>1
  <2>4. CASE hue >= 120
    <3>1. hue = 60 * 2 + (hue - 120) /\ hue - 120 \in 0 .. 59
      BY <2>1, <2>4
    <3> QED
      BY <3>1
  <2> QED
    BY <2>1, <2>2, <2>3, <2>4
<1>2. /\ hue \in 47 .. 178 /\ sat \in 25 .. 100 /\ val \in 40 .. 100
      /\ use = "line" => hue >= 63 /\ val >= 91
      /\ use = "band" => hue <= 62 /\ val >= 93
      /\ use = "text" => hue >= 63 /\ val <= 70 /\ sat >= 90
  BY DEF Hues, Saturations, Brightness, Uses
<1> DEFINE P == 60 * (100 - sat)
           Q == Full - rest * sat
           T == Full - (60 - rest) * sat
           v == Of255(val, Full)
           p == Of255(val, P)
           q == Of255(val, Q)
           t == Of255(val, T)
<1>3. HSVtoRGB(hue, sat, val) = CASE sector = 0 -> <<v, t, p>>
                                  [] sector = 1 -> <<q, v, p>>
                                  [] sector = 2 -> <<p, v, t>>
  <2>1. hue \div 60 = sector /\ hue % 60 = rest /\ hue # 0 /\ hue # 360
    <3>1. (0 + rest) \div 60 = 0 /\ (0 + rest) % 60 = rest
      OBVIOUS
    <3>2. (60 + rest) \div 60 = 1 /\ (60 + rest) % 60 = rest
      OBVIOUS
    <3>3. (120 + rest) \div 60 = 2 /\ (120 + rest) % 60 = rest
      OBVIOUS
    <3>4. \/ hue = 0 + rest /\ sector = 0
          \/ hue = 60 + rest /\ sector = 1
          \/ hue = 120 + rest /\ sector = 2
      BY <1>1
    <3> QED
      BY <1>2, <3>1, <3>2, <3>3, <3>4
  <2>2. (IF hue = 0 THEN 1 ELSE IF hue = 360 THEN 359 ELSE hue) = hue
    BY <2>1
  <2> QED
    BY <1>1, <2>1, <2>2 DEF HSVtoRGB, Of255, Full
<1> DEFINE A == rest * sat
           B == (60 - rest) * sat
<1>4. A \in Nat /\ B \in Nat /\ A + B = 60 * sat
  BY <1>1, <1>2
<1>5. \A n \in 0 .. 60 : n * sat <= 6000 /\ (n >= 2 /\ sat >= 90 => n * sat >= 180)
                         /\ (n >= 8 => n * sat >= 180)
  BY <1>2
<1>6. P \in 0 .. Full /\ Q \in 0 .. Full /\ T \in 0 .. Full /\ P <= Q /\ P <= T
  <2>1. A <= 6000 /\ B <= 6000
    <3>1. rest \in 0 .. 60 /\ 60 - rest \in 0 .. 60
      BY <1>1
    <3> QED
      BY <1>5, <3>1
  <2>2. P = Full - 60 * sat /\ Q = Full - A /\ T = Full - B
    BY <1>2 DEF Full
  <2> HIDE DEF A, B, P, Q, T
  <2> QED
    BY <1>2, <1>4, <2>1, <2>2 DEF Full
<1>7. ASSUME NEW x \in 0 .. Full, NEW y \in 0 .. Full, x <= y
      PROVE  /\ Of255(val, x) \in Shares /\ Of255(val, x) <= Of255(val, y)
             /\ Clear(x, y) => Of255(val, x) < Of255(val, y)
  <2>1. val \in 0 .. 100 /\ val >= 40
    BY <1>2
  <2> QED
    BY <1>7, <2>1, SharesOf
<1>8. /\ Full \in 0 .. Full /\ Full <= Full
       /\ P <= Full /\ Q <= Full /\ T <= Full
  <2> HIDE DEF P, Q, T
  <2> QED
    BY <1>6 DEF Full
<1>9. /\ v \in Shares /\ p \in Shares /\ q \in Shares /\ t \in Shares
       /\ p <= v /\ q <= v /\ t <= v
  <2> HIDE DEF P, Q, T
  <2> QED
    BY <1>6, <1>7, <1>8, Zenon
<1>10. (val >= 91 => v > 217) /\ (val <= 70 => v < 180)
  BY <1>2 DEF Of255, Full
<1>11. p < v
  <2>1. Clear(P, Full)
    BY <1>2 DEF Full, Clear
  <2> HIDE DEF P
  <2> QED
    BY <1>6, <1>7, <1>8, <2>1, Zenon
<1> DEFINE rgb == HSVtoRGB(hue, sat, val)
<1>12. /\ rgb[1] \in Shares /\ rgb[2] \in Shares /\ rgb[3] \in Shares
       /\ Suits(use, rgb[1], rgb[2], rgb[3])
  <2>1. CASE use = "band"
    <3>1. CASE sector = 0
      <4>1. Clear(P, T) /\ rest >= 47
        BY <1>1, <1>2, <1>4, <1>5, <3>1 DEF Full, Clear
      <4>2. p < t
        BY <1>6, <1>7, <1>8, <4>1, Zenon
      <4>3. rgb = <<v, t, p>>
        BY <1>3, <3>1
      <4> HIDE DEF v, t, p, rgb
      <4> QED
        BY <1>2, <1>9, <1>10, <1>11, <2>1, <4>2, <4>3 DEF Suits, Shares
    <3>2. CASE sector = 1
      <4>1. Clear(P, Q) /\ rest <= 2
        BY <1>1, <1>2, <1>4, <1>5, <2>1, <3>2 DEF Full, Clear
      <4>2. p < q
        BY <1>6, <1>7, <1>8, <4>1, Zenon
      <4>3. rgb = <<q, v, p>>
        BY <1>3, <3>2
      <4> HIDE DEF v, q, p, rgb
      <4> QED
        BY <1>2, <1>9, <1>10, <1>11, <2>1, <4>2, <4>3 DEF Suits, Shares
    <3> QED
      BY <1>1, <1>2, <2>1, <3>1, <3>2
  <2>2. CASE use # "band"
    <3>1. use = "line" \/ use = "text"
      BY <2>2 DEF Uses
    <3>2. CASE sector = 1
      <4>1. use = "text" => Clear(Q, Full)
        BY <1>1, <1>2, <1>5, <3>2 DEF Full, Clear
      <4>2. use = "text" => q < v
        BY <1>6, <1>7, <1>8, <4>1, Zenon
      <4>3. rgb = <<q, v, p>>
        BY <1>3, <3>2
      <4> HIDE DEF v, q, p, rgb
      <4> QED
        BY <1>2, <1>9, <1>10, <1>11, <3>1, <4>2, <4>3 DEF Suits, Shares
    <3>3. CASE sector = 2
      <4>1. use = "text" => Clear(T, Full)
        BY <1>1, <1>2, <1>5, <3>3 DEF Full, Clear
      <4>2. use = "text" => t < v
        BY <1>6, <1>7, <1>8, <4>1, Zenon
      <4>3. rgb = <<p, v, t>>
        BY <1>3, <3>3
      <4> HIDE DEF v, t, p, rgb
      <4> QED
        BY <1>2, <1>9, <1>10, <1>11, <3>1, <4>2, <4>3 DEF Suits, Shares
    <3> QED
      BY <1>1, <1>2, <3>1, <3>2, <3>3
  <2> QED
    BY <2>1, <2>2
<1>13. HSVtoHex(hue, sat, val)
           = HexOf(rgb[1], rgb[2], rgb[3])
  BY DEF HSVtoHex, HexOf
<1> HIDE DEF rgb
<1> QED
  BY <1>12, <1>13

\* A number of 255 is two hexadecimal digits.
LEMMA TwoDigits ==
    ASSUME NEW c \in Shares
    PROVE  \E high, low \in 0 .. 15 : ComponentToHex(c) = <<high, low>> /\ 16 * high + low = c
<1>1. c \div 16 \in 0 .. 15 /\ c % 16 \in 0 .. 15 /\ 16 * (c \div 16) + (c % 16) = c
  BY DEF Shares
<1>2. ComponentToHex(c) = <<c \div 16, c % 16>>
  BY DEF ComponentToHex, Shares
<1> QED
  BY <1>1, <1>2

\* A colour's digits: six, and they are what was written.
LEMMA HexIs ==
    ASSUME NEW r \in Shares, NEW g \in Shares, NEW b \in Shares
    PROVE  /\ Len(HexOf(r, g, b)) = 6 /\ HexOf(r, g, b) \in Seq(Int)
           /\ HexOf(r, g, b) \in [1 .. 6 -> 0 .. 15]
           /\ 16 * HexOf(r, g, b)[1] + HexOf(r, g, b)[2] = r
           /\ 16 * HexOf(r, g, b)[3] + HexOf(r, g, b)[4] = g
           /\ 16 * HexOf(r, g, b)[5] + HexOf(r, g, b)[6] = b
<1> DEFINE hex == HexOf(r, g, b)
<1>1. PICK r1, r2 \in 0 .. 15 : ComponentToHex(r) = <<r1, r2>> /\ 16 * r1 + r2 = r
  BY TwoDigits
<1>2. PICK g1, g2 \in 0 .. 15 : ComponentToHex(g) = <<g1, g2>> /\ 16 * g1 + g2 = g
  BY TwoDigits
<1>3. PICK b1, b2 \in 0 .. 15 : ComponentToHex(b) = <<b1, b2>> /\ 16 * b1 + b2 = b
  BY TwoDigits
<1>4. hex = <<r1, r2>> \o <<g1, g2>> \o <<b1, b2>>
  BY <1>1, <1>2, <1>3 DEF HexOf
<1> HIDE DEF hex
<1>5. /\ r1 \in Int /\ r2 \in Int /\ g1 \in Int /\ g2 \in Int /\ b1 \in Int /\ b2 \in Int
  BY <1>1, <1>2, <1>3
<1>6. /\ hex \in Seq(Int) /\ Len(hex) = 6
      /\ hex[1] = r1 /\ hex[2] = r2 /\ hex[3] = g1 /\ hex[4] = g2 /\ hex[5] = b1 /\ hex[6] = b2
  <2>1. Len(hex) = 6
    BY <1>4, <1>5
  <2>2. hex \in Seq(Int)
    BY <1>4, <1>5
  <2>3. hex[1] = r1 /\ hex[2] = r2
    BY <1>4, <1>5
  <2>4. hex[3] = g1 /\ hex[4] = g2
    BY <1>4, <1>5
  <2>5. hex[5] = b1 /\ hex[6] = b2
    BY <1>4, <1>5
  <2> QED
    BY <2>1, <2>2, <2>3, <2>4, <2>5
<1>7. hex \in [1 .. 6 -> 0 .. 15]
  <2>1. \A i \in 1 .. 6 : hex[i] \in 0 .. 15
    <3>1. /\ hex[1] \in 0 .. 15 /\ hex[2] \in 0 .. 15 /\ hex[3] \in 0 .. 15
          /\ hex[4] \in 0 .. 15 /\ hex[5] \in 0 .. 15 /\ hex[6] \in 0 .. 15
      BY <1>1, <1>2, <1>3, <1>6
    <3> QED
      BY <3>1
  <2>2. hex \in [1 .. Len(hex) -> Int]
    BY <1>6, LenProperties, Zenon
  <2> QED
    BY <1>6, <2>1, <2>2
<1>8. 16 * hex[1] + hex[2] = r /\ 16 * hex[3] + hex[4] = g /\ 16 * hex[5] + hex[6] = b
  BY <1>1, <1>2, <1>3, <1>6
<1> QED
  BY <1>6, <1>7, <1>8 DEF hex

\* What is known of a colour, by the number of things known.
LEMMA Stages ==
    ASSUME ColorInv
    PROVE  /\ Len(color.known) = 1 => \E h \in Hues(color.use) : color.known = <<h>>
           /\ Len(color.known) = 2 =>
                  \E h \in Hues(color.use), s \in Saturations(color.use) :
                      color.known = <<h, s>>
           /\ Len(color.known) > 2 =>
                  \E r, g, b \in Shares :
                      /\ color.known
                             = HexOf(r, g, b)
                      /\ Suits(color.use, r, g, b)
<1>1. CASE color.known = <<>>
  <2>1. ~(Len(color.known) = 1) /\ ~(Len(color.known) = 2) /\ ~(Len(color.known) > 2)
    BY <1>1
  <2> QED
    BY <2>1, Zenon
<1>2. CASE \E h \in Hues(color.use) : color.known = <<h>>
  <2>1. ~(Len(color.known) = 2) /\ ~(Len(color.known) > 2)
    BY <1>2
  <2> QED
    BY <1>2, <2>1, Zenon
<1>3. CASE \E h \in Hues(color.use), s \in Saturations(color.use) : color.known = <<h, s>>
  <2>1. ~(Len(color.known) = 1) /\ ~(Len(color.known) > 2)
    BY <1>3
  <2> QED
    BY <1>3, <2>1, Zenon
<1>4. CASE \E r, g, b \in Shares :
               /\ color.known = HexOf(r, g, b)
               /\ Suits(color.use, r, g, b)
  <2>1. Len(color.known) = 6
    <3>1. PICK r, g, b \in Shares : color.known = HexOf(r, g, b)
      BY <1>4
    <3>2. Len(HexOf(r, g, b)) = 6
      BY HexIs
    <3> QED
      BY <3>1, <3>2
  <2>2. ~(Len(color.known) = 1) /\ ~(Len(color.known) = 2)
    BY <2>1
  <2> QED
    BY <1>4, <2>2, Zenon
<1> QED
  BY <1>1, <1>2, <1>3, <1>4, Zenon DEF ColorInv

\* Every colour begins with nothing known.
LEMMA UndrawnIs ==
    ASSUME NEW c \in Undrawn
    PROVE  c \in [use : Uses, known : Seq(Int)] /\ c.known = <<>>
<1>1. PICK u \in DOMAIN Call : c = [use |-> u, known |-> <<>>]
  BY DEF Undrawn
<1>2. u \in Uses /\ <<>> \in Seq(Int)
  BY <1>1 DEF Call, Uses
<1> QED
  BY <1>1, <1>2

\* Each of the draws keeps the invariant (randomColor).
LEMMA ColorStep ==
    ASSUME ColorInv, ColorNext
    PROVE  ColorInv'
<1> DEFINE use == color.use
<1>1. color \in [use : Uses, known : Seq(Int)] /\ use \in Uses
  BY DEF ColorInv
<1> HIDE DEF use
<1>2. ASSUME NEW known \in Seq(Int), color' = [color EXCEPT !.known = known]
      PROVE  color' \in [use : Uses, known : Seq(Int)] /\ color'.use = use /\ color'.known = known
  BY <1>1, <1>2 DEF use
<1>3. CASE DrawHue
  <2>1. PICK d \in Draws : color' = [color EXCEPT !.known = <<PickHue(Call[use].hue, d)>>]
    BY <1>3 DEF DrawHue, use
  <2> DEFINE hue == PickHue(Call[use].hue, d)
  <2>2. hue \in Hues(use)
    BY <1>1, HuesAre
  <2> HIDE DEF hue
  <2>3. hue \in Hues(use) /\ hue \in Int
    BY <2>2 DEF Hues
  <2>4. /\ color' \in [use : Uses, known : Seq(Int)]
        /\ color'.use = use /\ color'.known = <<hue>>
    <3>1. <<hue>> \in Seq(Int) /\ color' = [color EXCEPT !.known = <<hue>>]
      BY <2>1, <2>3 DEF hue
    <3> QED
      BY <1>2, <3>1
  <2> QED
    BY <2>3, <2>4, Zenon DEF ColorInv
<1>4. CASE DrawSaturation
  <2>1. PICK h \in Hues(use) : color.known = <<h>>
    <3>1. Len(color.known) = 1
      BY <1>4 DEF DrawSaturation, use
    <3> QED
      BY <3>1, Stages DEF use
  <2>2. PICK d \in Draws :
            color' = [color EXCEPT !.known =
                          Append(@, PickSaturation(h, Call[use].luminosity, d))]
    BY <1>4, <2>1 DEF DrawSaturation, use
  <2>3. PickSaturation(h, Call[use].luminosity, d) \in Saturations(use)
    BY <1>1, SaturationsAre
  <2> DEFINE sat == PickSaturation(h, Call[use].luminosity, d)
  <2> HIDE DEF sat
  <2>4. sat \in Saturations(use) /\ h \in Hues(use)
    BY <2>1, <2>3 DEF sat
  <2>5. h \in Int
    BY <2>4 DEF Hues
  <2>6. sat \in Int
    <3>1. use = "line" \/ use = "band" \/ use = "text"
      BY <1>1 DEF Uses
    <3>2. sat \in 30 .. 55 \/ sat \in 25 .. 55 \/ sat \in 90 .. 100
      BY <2>4, <3>1 DEF Saturations
    <3> QED
      BY <3>2
  <2>7. h \in Int /\ sat \in Int
    BY <2>5, <2>6
  <2>8. /\ color' \in [use : Uses, known : Seq(Int)]
        /\ color'.use = use /\ color'.known = <<h, sat>>
    <3>1. <<h, sat>> \in Seq(Int) /\ color' = [color EXCEPT !.known = <<h, sat>>]
      BY <2>1, <2>2, <2>7 DEF sat
    <3> QED
      BY <1>2, <3>1
  <2> QED
    BY <2>8, <2>4, Zenon DEF ColorInv
<1>5. CASE DrawBrightness
  <2>1. PICK h \in Hues(use), s \in Saturations(use) : color.known = <<h, s>>
    <3>1. Len(color.known) = 2
      BY <1>5 DEF DrawBrightness, use
    <3> QED
      BY <3>1, Stages DEF use
  <2>2. PICK d \in Draws :
            color' = [color EXCEPT !.known =
                          HSVtoHex(h, s, PickBrightness(h, s, Call[use].luminosity, d))]
    BY <1>5, <2>1 DEF DrawBrightness, use
  <2>3. PickBrightness(h, s, Call[use].luminosity, d) \in Brightness(use)
    BY <1>1, BrightnessIs
  <2> DEFINE hex == HSVtoHex(h, s, PickBrightness(h, s, Call[use].luminosity, d))
  <2>4. color' = [color EXCEPT !.known = hex]
    BY <2>2
  <2>5. PICK r, g, b \in Shares :
            /\ hex = HexOf(r, g, b)
            /\ Suits(use, r, g, b)
    BY <1>1, <2>3, DrawnSuits, Zenon
  <2> HIDE DEF hex
  <2>6. hex \in Seq(Int)
    BY <2>5, HexIs, Zenon
  <2>7. color' \in [use : Uses, known : Seq(Int)] /\ color'.use = use /\ color'.known = hex
    BY <1>2, <2>6, <2>4
  <2> QED
    BY <2>5, <2>7, Zenon DEF ColorInv
<1>6. CASE NextColor
  BY <1>6, UndrawnIs DEF NextColor, ColorInv
<1> QED
  BY <1>3, <1>4, <1>5, <1>6 DEF ColorNext

(***************************************************************************)
(* ColorsSuitTheirUse however fine the random draws are: each colour is    *)
(* six hexadecimal digits and each use gets the colours it is meant to, for *)
(* the bounds of a colour are on lines between the points of its table     *)
(* (randomcolor.js; getEventsLastXRange of dashboard.js).                  *)
(***************************************************************************)
THEOREM EveryDrawSuits == PagesSpec => []ColorsSuitTheirUse
<1>1. PagesInit => ColorInv
  <2> SUFFICES ASSUME color \in Undrawn PROVE ColorInv
    BY DEF PagesInit, ColorInit
  <2> QED
    BY UndrawnIs DEF ColorInv
<1>2. ColorInv /\ [PagesNext]_allVars => ColorInv'
  <2> SUFFICES ASSUME ColorInv, [PagesNext]_allVars PROVE ColorInv'
    OBVIOUS
  <2>1. CASE ColorNext
    BY <2>1, ColorStep
  <2>2. CASE UNCHANGED color
    BY <2>2 DEF ColorInv
  <2> QED
    BY <2>1, <2>2 DEF PagesNext, allVars
<1>3. ColorInv => ColorsSuitTheirUse
  <2> SUFFICES ASSUME ColorInv, IsDrawn PROVE ColorsSuitTheirUse
    BY DEF ColorsSuitTheirUse
  <2>1. Len(color.known) > 2
    BY DEF IsDrawn
  <2>2. PICK r, g, b \in Shares :
            /\ color.known = HexOf(r, g, b)
            /\ Suits(color.use, r, g, b)
    BY <2>1, Stages
  <2>3. /\ color.known \in [1 .. 6 -> 0 .. 15]
        /\ 16 * color.known[1] + color.known[2] = r
        /\ 16 * color.known[3] + color.known[4] = g
        /\ 16 * color.known[5] + color.known[6] = b
    <3>1. /\ HexOf(r, g, b) \in [1 .. 6 -> 0 .. 15]
          /\ 16 * HexOf(r, g, b)[1] + HexOf(r, g, b)[2] = r
          /\ 16 * HexOf(r, g, b)[3] + HexOf(r, g, b)[4] = g
          /\ 16 * HexOf(r, g, b)[5] + HexOf(r, g, b)[6] = b
      BY <2>2, HexIs
    <3> QED
      BY <2>2, <3>1
  <2>4. /\ color.known[2 * 1 - 1] = color.known[1] /\ color.known[2 * 1] = color.known[2]
        /\ color.known[2 * 2 - 1] = color.known[3] /\ color.known[2 * 2] = color.known[4]
        /\ color.known[2 * 3 - 1] = color.known[5] /\ color.known[2 * 3] = color.known[6]
    OBVIOUS
  <2> QED
    BY <2>2, <2>3, <2>4 DEF ColorsSuitTheirUse, Suits
<1> QED
  BY <1>1, <1>2, <1>3, PTL DEF PagesSpec
==============================================================================
