------------------------------ MODULE GraphDialog ------------------------------
(***************************************************************************)
(* A page of hosts (templates/hosts/each.html.tmpl): it asks for a day's   *)
(* events, and a button of a metric opens a dialog with the metric's chart,*)
(* which streams until a range is picked or the dialog is closed.  The     *)
(* calls are those of ResourcedMaster.metrics in                           *)
(* static/resourced-master/js/dashboard.js.                                *)
(*                                                                         *)
(* The dialog keeps the promise of ShowAndHide, the picker tells ranges    *)
(* that differ from the last, and answers come in any order or not at all. *)
(***************************************************************************)
EXTENDS Integers

CONSTANTS Metrics,    \* metrics whose charts are looked at
          Ranges,     \* ranges of the picker; the first is the default
          MaxAsked,   \* requests for charts under way
          MaxStreams, \* streams that may be open at once
          Counts,     \* numbers of events there may be of a kind
          None

Default == 0
Asks    == 1 .. MaxAsked
Streams == 1 .. MaxStreams
Kinds   == {"line", "band"}

\* Events of a kind; what a chart is drawn with; what is asked for and what is drawn.
Lists    == [of : Kinds, count : Nat]
Plots    == [lines : Lists, bands : Lists, lineColors : Nat, known : BOOLEAN]
Requests == [metric : Metrics, range : Ranges, live : BOOLEAN, events : Plots]
Charts   == [metric : Metrics, range : Ranges, events : Plots]

ASSUME GraphAssumption ==
    /\ 0 \in Ranges /\ MaxAsked \in Nat \ {0} /\ MaxStreams \in Nat \ {0} /\ Counts \subseteq Nat
    /\ None \notin Nat \cup Requests \cup Charts

VARIABLES dialog,  \* its last event and the metric of the button that opened it
          range,   \* the range the dialog's picker shows
          asked,   \* requests for charts under way
          last,    \* the latest of them
          failed,  \* an error was shown since it was sent
          chart,   \* the chart in the dialog's container
          streams, \* the EventSources that are open, by their number
          attached,\* $('#graph-modal').data('eventsource')
          events,  \* TSEventLines, TSEventBands and the colours, and the requests for them
          late     \* history: an answer came after its dialog or its range was left

dialogVars == <<dialog, range, asked, last, failed, chart, streams, attached, late>>
vars == <<dialogVars, events>>

-----------------------------------------------------------------------------
(***************************************************************************)
(* getEventsLastXRange.  Both callbacks set TSEventLines; what is done     *)
(* when both succeeded sorts them.                                         *)
(***************************************************************************)
EventsOf(kind) == [of |-> kind, count |-> events.count[kind]]

GetEvents(count) ==
    [count |-> count, answer |-> [k \in Kinds |-> "asked"],
     lines |-> [of |-> "line", count |-> 0], bands |-> [of |-> "band", count |-> 0],
     lineColors |-> 0, bandColors |-> 0, bandTextColors |-> 0]

\* Faulty variant: the lines stay as the callbacks left them.
DoneWithBands(e) ==
    [e EXCEPT !.bands = EventsOf("band"), !.lineColors = e.lines.count,
              !.bandColors = e.count["band"], !.bandTextColors = e.count["band"]]

Done(e) ==
    [e EXCEPT !.lines = EventsOf("line"), !.bands = EventsOf("band"),
              !.lineColors = e.count["line"],
              !.bandColors = e.count["band"], !.bandTextColors = e.count["band"]]

AnswerEvents(kind) ==
    /\ events.answer[kind] = "asked"
    /\ \/ LET e == [events EXCEPT !.answer[kind] = "ok", !.lines = EventsOf(kind)]
          IN  IF \A k \in Kinds : e.answer[k] = "ok"
              THEN events' = Done(e)
              ELSE events' = e
       \/ events' = [events EXCEPT !.answer[kind] = "failed"]
    /\ UNCHANGED dialogVars

-----------------------------------------------------------------------------
(***************************************************************************)
(* renderOneChart: a request, and the chart that its answer draws with the *)
(* events there were when it was sent.                                     *)
(***************************************************************************)
Plotted == [lines |-> events.lines, bands |-> events.bands, lineColors |-> events.lineColors,
            known |-> \A k \in Kinds : events.answer[k] = "ok"]

RenderOneChart(metric, from, live) ==
    LET free == {i \in Asks : asked[i] = None}
        i == CHOOSE i \in free : TRUE
    IN  /\ free # {}
        /\ asked' = [asked EXCEPT ![i] =
                        [metric |-> metric, range |-> from, live |-> live, events |-> Plotted]]
        /\ last' = i
        /\ failed' = FALSE

\* What the answer of the latest request finds when nothing happened since it was sent.
InTime(i) == i = last /\ dialog.told \in {"shown", "hide"}

\* highcharts() destroys the chart that was there, and its series with it.
Deaf == [s \in Streams |-> IF streams[s] = None THEN None ELSE [streams[s] EXCEPT !.feeds = FALSE]]

Draw(r) ==
    /\ chart' = [metric |-> r.metric, range |-> r.range, events |-> r.events]
    /\ IF r.live
       THEN LET free == {s \in Streams : streams[s] = None}
                s == CHOOSE s \in free : TRUE
            IN  /\ free # {}
                /\ streams' = [Deaf EXCEPT ![s] = [metric |-> r.metric, feeds |-> TRUE]]
                /\ attached' = s
       ELSE streams' = Deaf /\ UNCHANGED attached
    /\ UNCHANGED failed

\* Faulty variant: a failure is not told.
FailSilently == UNCHANGED <<chart, streams, attached, failed>>

Fail == failed' = TRUE /\ UNCHANGED <<chart, streams, attached>>

Answer(i) ==
    /\ asked[i] # None
    /\ Draw(asked[i]) \/ Fail
    /\ asked' = [asked EXCEPT ![i] = None]
    /\ late' = (late \/ ~InTime(i))
    /\ UNCHANGED <<dialog, range, last, events>>

-----------------------------------------------------------------------------
(***************************************************************************)
(* The dialog.                                                             *)
(***************************************************************************)
CloseStream ==
    streams' = IF attached = None THEN streams ELSE [streams EXCEPT ![attached] = None]

ShowDialog(metric) ==
    /\ dialog.told = "hidden"
    /\ dialog' = [told |-> "show", metric |-> metric]
    /\ range' = Default
    /\ UNCHANGED <<asked, last, failed, chart, streams, attached, events, late>>

DialogShown ==
    /\ dialog.told = "show"
    /\ dialog' = [dialog EXCEPT !.told = "shown"]
    /\ RenderOneChart(dialog.metric, Default, TRUE)
    /\ UNCHANGED <<range, chart, streams, attached, events, late>>

\* Faulty variants: the stream is not closed, or the first range is asked for again.
PickStreaming(r) ==
    /\ dialog.told = "shown" /\ r # range
    /\ range' = r
    /\ RenderOneChart(dialog.metric, r, FALSE)
    /\ UNCHANGED <<dialog, chart, streams, attached, events, late>>

PickDefault(r) ==
    /\ dialog.told = "shown" /\ r # range
    /\ range' = r
    /\ CloseStream
    /\ RenderOneChart(dialog.metric, Default, FALSE)
    /\ UNCHANGED <<dialog, chart, attached, events, late>>

Pick(r) ==
    /\ dialog.told = "shown" /\ r # range
    /\ range' = r
    /\ CloseStream
    /\ RenderOneChart(dialog.metric, r, FALSE)
    /\ UNCHANGED <<dialog, chart, attached, events, late>>

HideDialog ==
    /\ dialog.told = "shown"
    /\ dialog' = [dialog EXCEPT !.told = "hide"]
    /\ UNCHANGED <<range, asked, last, failed, chart, streams, attached, events, late>>

DialogHidden ==
    /\ dialog.told = "hide"
    /\ dialog' = [dialog EXCEPT !.told = "hidden"]
    /\ CloseStream
    /\ UNCHANGED <<range, asked, last, failed, chart, attached, events, late>>

-----------------------------------------------------------------------------
NoDialog   == [told |-> "hidden", metric |-> None]
NoRequests == [i \in Asks |-> None]
NoStreams  == [s \in Streams |-> None]
Loading    == {GetEvents(count) : count \in [Kinds -> Counts]}

Init ==
    /\ dialog = NoDialog /\ range = Default
    /\ asked = NoRequests /\ last = None /\ failed = FALSE
    /\ chart = None
    /\ streams = NoStreams /\ attached = None
    /\ events \in Loading
    /\ late = FALSE

\* The page is loaded again, which ends its requests and its streams.
Reload ==
    /\ dialog' = NoDialog /\ range' = Default
    /\ asked' = NoRequests /\ last' = None /\ failed' = FALSE
    /\ chart' = None
    /\ streams' = NoStreams /\ attached' = None
    /\ events' \in Loading
    /\ late' = FALSE

Step ==
    \/ \E k \in Kinds : AnswerEvents(k)
    \/ \E i \in Asks : Answer(i)
    \/ \E m \in Metrics : ShowDialog(m)
    \/ \E r \in Ranges : Pick(r)
    \/ DialogShown \/ HideDialog \/ DialogHidden

\* A bound: a page that got an answer late is followed until it is loaded again.
Next == (~late /\ Step) \/ Reload

\* The browser answers every request, with an error if nothing else; transitions end.
Fairness ==
    /\ \A i \in Asks : WF_vars(~late /\ Answer(i))
    /\ WF_vars(~late /\ DialogShown) /\ WF_vars(~late /\ DialogHidden)

Spec == Init /\ [][Next]_vars /\ Fairness

-----------------------------------------------------------------------------
(***************************************************************************)
(* Properties.                                                             *)
(***************************************************************************)
Shown(c) == c # None /\ c.metric = dialog.metric /\ c.range = range

\* The chart in a dialog is that of its metric and of the range that its picker shows, once
\* the requests are answered, in time and without an error (renderOneChart).
ChartIsOfTheDialog ==
    dialog.told = "shown" /\ (\A i \in Asks : asked[i] = None) /\ ~failed /\ ~late
        => Shown(chart)

\* While answers come in time at most one stream is open; it feeds the chart that is shown,
\* and it is closed with the dialog and when a range is picked (each.html.tmpl).
OneLiveStream ==
    ~late =>
        \A s \in Streams : streams[s] # None =>
            /\ dialog.told \in {"shown", "hide"}
            /\ streams[s].feeds /\ Shown(chart) /\ streams[s].metric = dialog.metric
            /\ \A t \in Streams : streams[t] # None => t = s

\* When both kinds of events arrived, each is drawn as what it is, with a colour each
\* (getEventsLastXRange: both callbacks set TSEventLines).
EventsAreSorted ==
    /\ (\A k \in Kinds : events.answer[k] = "ok") =>
           /\ events.lines = EventsOf("line") /\ events.lineColors = events.lines.count
           /\ events.bands = EventsOf("band") /\ events.bandColors = events.bands.count
           /\ events.bandTextColors = events.bands.count
    /\ chart # None /\ chart.events.known =>
           /\ chart.events.lines = EventsOf("line") /\ chart.events.bands = EventsOf("band")
           /\ chart.events.lineColors = chart.events.lines.count

\* A dialog that stays open comes to show its chart or an error.
EveryAskIsTold ==
    dialog.told = "show" ~> Shown(chart) \/ failed \/ late \/ dialog.told = "hidden"
=============================================================================
