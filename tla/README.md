# ResourceD Master in TLA+

ResourceD Master receives data from agents that run on hosts, stores them, shows
them in a browser, and evaluates *checks* on them: expressions over the data of
a cluster's hosts, evaluated at an interval, with triggers that send mail, SMS or
PagerDuty events. Several daemons ("masters") share the work. These modules model
the parts of the daemon, and of the scripts that it serves to browsers, in which an
order of steps, a stale value, a boundary or a lost message decides whether it works;
TLC checks them on small instances and TLAPS proves the main properties for all
instances.

Paths below are relative to the repository; `file.go:12` is a line of it, and
`templates/` and `static/` are the directories of these names.

## 1. Inventory

### The daemon

The daemon is one Go process per host. Handlers run in a goroutine per request;
`main.go` starts the loops. The tables are in PostgreSQL or Cassandra: the code is
half way through a migration, and most handlers already use `models/cassandra`
while the checker still uses `models/pg`.

| component | state | operations | talks to |
|---|---|---|---|
| check scheduler (`application_checker.go`, `application_messagebus.go`, `main.go`) | `app.Peers`, `app.RefetchChecksChan`, the runner goroutines | heartbeat, peersHeartbeat, checksRefetch, CheckAndRunTriggers | bus, checks table |
| check runner and triggers (`application_checker.go`, `models/pg/check.go`, `ts_check.go`, `ts_base.go`) | the row a runner keeps, `ts_checks` | tick: evaluate, store, RunTriggers | expressions, mail |
| check expressions (`models/check_expression/evaluator.go`) | the loop over expressions and hosts | EvalExpressions and one function per type | hosts, logs, network |
| check rows (`handlers/checks.go`, `models/pg/check.go`) | `checks` with expressions and triggers as JSON | create, edit, delete, mute, add/change/remove trigger | scheduler, through the bus |
| metric streams (`metrics_streams.go`, `messagebus.go`) | `mb.Clients`, a channel per request | ManageClients, metricStream, ApiMetricStreams | bus, browsers |
| message bus (`messagebus.go`) | mangos sockets | Publish, OnReceive | other daemons |
| clusters and membership (`models/cassandra/cluster.go`, `handlers/clusters.go`) | `clusters` with its members | create, rename, retention, delete, add/remove member | sessions, pruner |
| accounts, sessions, tokens (`handlers/users.go`, `access_tokens.go`, `middlewares.go`) | `users`, `access_tokens`, the cookie's current cluster | signup, login, settings, token levels and toggle | clusters |
| hosts (`handlers/hosts.go`, `models/cassandra/host.go`) | `hosts` with the latest data | POST /api/hosts, query, master tags | metrics, events, bus |
| metrics and graphs (`handlers/metrics.go`, `graphs.go`) | `metrics`, `graphs` with the metrics they show as JSON | create, edit, delete | hosts |
| time series (`models/{pg,cassandra,shims}/ts_*.go`) | `ts_metrics`, `ts_events`, `ts_logs` | insert with a date of deletion, range queries | hosts, logs, events |
| pruner (`application_pruner.go`) | none of its own | delete the expired rows of its share of the clusters | clusters, ts tables |
| events, logs, saved queries | their tables | insert, query, delete | |
| migrations, configuration (`application.go`, `config/`) | schema, pools of connections | run every file | |
| query builders, mail, `lib*`, routing, templates | none to speak of | pure functions, one call | |

### The browser

Pages are templates with inline scripts, `static/resourced-master/js/dashboard.js` and
the libraries under `static/`. All of it runs in one thread: handlers of clicks, answers
of requests and timers follow one another in any order.

| component | state | operations | talks to |
|---|---|---|---|
| date range picker (`static/bootstrap/daterangepicker`) | the range, the one before, what the calendars, boxes and the input show | show, hide, click, hover, time boxes, presets, typing, apply, cancel | charts, by a callback; the logs page, by an event of Apply |
| dialogs, menus, navigation bar (`static/bootstrap/3.3.6`) | shown or not, transitions under way, backdrop, padding of the body, open menu, focus | show, hide, toggle, keys, ends of transitions | the page, by events |
| event source (`static/eventsource`) | readyState, the request, its cache of the answer | poll, read text, dispatch, close, abort timer | metric streams |
| charts and events (`dashboard.js`, `templates/hosts/each.html.tmpl`) | events and their colours, the chart, the stream attached to the dialog | getEventsLastXRange, renderOneChart, the dialog's and the picker's handlers | event source, picker, dialog |
| colours (`static/randomcolor`) | none between calls | randomColor | charts |
| logs page (`dashboard.js`, `templates/logs/list.html.tmpl`) | index and direction, kept at the list | render, the two arrows | logs |
| other libraries (select boxes, Highcharts, syntax colouring, build files) | none the pages rely on | one call each | |

### What is hard in it

In the daemon:

- **Several daemons without a coordinator.** Each has its own list of peers,
  rebuilt from heartbeats over a bus that drops, doubles and reorders messages, in
  the random order of a Go map; each splits the checks by its own list.
- **Goroutines that hold old rows.** A runner never re-reads its row and is never
  stopped; edits, mutes and deletes reach it only as a new runner beside it.
- **Announce, then write.** Handlers publish `checks-refetch` before they write.
- **Maps without locks.** `app.Peers.Items()` and `mb.Clients` are ranged over by
  one goroutine while another writes them; channels are closed while others send.
- **Read-modify-write** of JSON columns and flags, without transactions or versions.
- **Partial failure** of operations made of several writes (signup, deleting a
  metric, a host's report, a migration).
- **Two databases**: what one handler writes another part reads elsewhere.
- **Boundaries**: violations counts, windows, retention, `MinHost`, division by a
  previous value that is 0.

In the browser:

- **Answers in any order.** A dialog may be closed, or another range picked, before the
  answer comes for which a chart is drawn and a stream opened.
- **Text cut anywhere.** The event source reads a growing answer again and again and must
  neither lose a line nor read one twice.
- **Copies of a range.** The picker's range, the text of the input and what the page was
  told are three, and moments are mutable and shared.
- **Transitions.** Ends of animations of several elements arrive in either order, while the
  user goes on clicking.
- **Boundaries**: pages of a list by remainders, colours by ranges that wrap, ends of days.

`PROJECT.json` lists these under `hazards`, each at its line, with the properties that
would catch it going wrong, and the components with what is modelled of them.

What makes each component correct, in a sentence: every check of the table is run by somebody,
and again after edits and deaths, by one daemon and one runner (scheduler); a trigger acts when
the violations since the last good result are within its bounds, and not otherwise, whatever
the others' messages do (triggers); a host is judged by its own data and the result is the AND
or OR of the expressions (expressions); a metric reaches every connected client and a client
that leaves disturbs nobody (streams); the charts are told the range that the user picked, or
none, and the logs are sent where their input says, to a range that is ordered and whole
(picker); events come in their order, each once, until the source is closed (event source); the
listeners of a dialog hear of it being shown and hidden in turn, and it leaves the page as it
was (widgets); the chart is that of the dialog, fed by one stream (charts); every log can be
reached (logs page); a member that was added stays a member until removed, and the last cluster
stays (membership); deleting a metric takes it and nothing else from the graphs (graphs); a
report of a host ends up stored once, under its own cluster (hosts).

## 2. Modules

| module | models |
|---|---|
| `CheckSplit`, `MCCheckSplit` | `AllSplitToDaemons`, the loop and its closed form `Share`; walks through tables and lists of daemons |
| `CheckScheduler` | daemons, bus, peers cache, handlers that write checks, fetcher, dispatcher, runners |
| `CheckTriggers`, `MCCheckTriggers` | one check's ticks: result, retention, last good marker, count, action |
| `CheckExpressions`, `MCCheckExpressions` | `EvalExpressions` |
| `MetricStreams` | clients, `ManageClients`, `metricStream` |
| `DateRangePicker`, `MCDateRangePicker` | the picker, the charts' callback, the logs page and its addresses |
| `EventSource` | the polyfill against server, network and page |
| `EventStream` | what pages expect of an event source; `EventSource` implements it |
| `PageWidgets` | dialog, menus and collapsing bar |
| `ShowAndHide` | what listeners expect of something that is shown and hidden; the bar implements it, and the dialog for a user who waits |
| `GraphDialog` | a metric's dialog on a page of hosts: requests, chart, streams, events |
| `LogsPager` | the list of logs and its arrows |
| `RandomColor` | the colours of the events |
| `MCPages` | the three parts of `dashboard.js` in one run |
| `CheckSchedulerProofs` | TLAPS proofs about the split and the scheduler |
| `PagesProofs` | about `GraphDialog`, `LogsPager` and `RandomColor` |
| `CheckTriggersProofs`, `CheckExpressionsProofs`, `MetricStreamsProofs`, `DateRangePickerProofs`, `EventSourceProofs`, `PageWidgetsProofs` | about the module of their name |

`CheckScheduler` extends `CheckSplit`; the loop of the code is `FillBuckets` there.
Run `split` and theorem `LoopDealsShares` show it equal to `Share`, which the scheduler and
its proofs use.
`CheckTriggers` takes any number of runners of a check as given and the outcome of
`CheckExpressions` as a free choice. `GraphDialog` relies on what `ShowAndHide` says of
the dialog, on the picker telling ranges, and on an event source that stays open until it
is closed. Definitions that begin with "Faulty variant" are deliberate errors that the
properties must detect; no action uses them.

### CheckScheduler

| variable | code |
|---|---|
| `row`, `nextId` | `checks`: per id the version of the row (0: no row), the serial |
| `pending`, `publishing` | handlers between announcing and writing; goroutines about to publish |
| `up`, `crashes` | the process |
| `inbox` | messages handed to `OnReceive`'s goroutines, which run in any order |
| `peers` | `app.Peers`; "expired" entries are still in `Items()` until the janitor runs |
| `blocked` | goroutines blocked in `app.RefetchChecksChan <- true` |
| `fetch` | the goroutine of `application_checker.go:16-30` |
| `runners` | goroutines of `:36`, counted per row version |

Abstractions. A version stands for everything in a row; edits beyond `MaxVer` are
not told apart. Counters of goroutines saturate at `Many`, and one less than `Many`
may still be `Many`, so that a saturated counter over-approximates any number. A
message arrives in up to `Copies` copies (two daemons that dialled each other are
connected twice). `WebDaemons` are those with `JustAPI` false, the only ones that
serve the handlers of checks. The janitor's `Expire` happens only to a peer whose
heartbeats may be missing: they come every 30 s and the entry lasts 1 min
(`HeartbeatsArrive`); with `Lossy` any entry may expire. The range over the live
map (`RangePeers`) yields every key that was there all along, and any of those that
came or went meanwhile.

main does not call `CheckAndRunTriggers` at this commit: `main.go:90` has the call
commented out. `CheckerCalled` says whether it is called. Where it is not, nothing fetches
and nothing runs, and the fairness of these actions asks for nothing. The runs set it to
TRUE and show how the checker works when it is called, in a goroutine of its own; what is
so at this commit is that `SentRefetchIsReceived` is false (below).

### CheckTriggers

The clock moves by itself and with every stored row, so no two results share a
moment. `retention` is the number in PostgreSQL's row, which the runner reads and no
handler changes. `ts` is the table, without what was pruned; `log` is the history
the properties compare with, and no action reads it. `runner` has the locals of each
goroutine that runs the check: any number of them, for each refetch starts another. For
each trigger a runner asks twice: `ReadLastGood` keeps the time of the last good result;
`Act` or `NotDue` counts the violations after it and goes by the number. What others store
and prune between the two is in the model. A trigger that acts is `acting` until its
message is out (`MessageSent`) or could not be sent (`MessageFails`), which is logged and
costs the next trigger nothing; an error of a query or of the evaluation ends the
goroutine (`TickFails`). `begun`, `asked`, `sent` and `failed` are history.

The two properties say what the two queries can promise. What a trigger acts on
(`ActsOnExactCounts`) lies between two numbers: the violations that no good result followed
by now, less those old enough to be pruned, and the violations that no good result
followed when the runner first asked. The two are the same where nothing good was stored
meanwhile and the window is kept. Nothing in the code keeps windows within the retention, and
the property does not ask for it. `TicksActForEveryTrigger` is about the whole tick, in which
messages take their time, and about triggers whose window is within the retention: those
that were due all along acted, those that never were did not. The pruner is not called at
this commit either (`main.go:93`, `PrunerRunning`).

### CheckExpressions

What a query, probe or count finds is chosen when it is made, from values on both
sides of the thresholds, zero and negative. The hosts are the rows a query matches or
those of a list, which may be `Unreadable` as JSON; `HostsFail` is the query of the hosts
that fails, `LogFails` the one of the cluster's retention, `WrongType` a value that is no
number, on which `value.(float64)` panics and the daemon is gone. `loop.seen` is history: for
each host how it was dealt with and what its data say alone. `EachHostByItself` asks of hosts
without the metric only that they are all judged alike: what they are judged is where code
and comment disagree (below). Ping, SSH, HTTP and HTTPS differ in the command and are `Probe`.

### MetricStreams

A channel is the client it was made for. Unbuffered sends are one action with the
receive they meet. A write to `mb.Clients` while a goroutine ranges over it is a
data race: the runtime may end the process (`MapWrite` chooses).

### DateRangePicker

`drp` has the fields of the picker that its handlers read (`startDate`, `endDate`,
`oldStartDate`, `oldEndDate`, the month in view) and what it has drawn and reads back: the
time boxes, the time the cells of the calendars were made with, the boxes with the two
dates, whether Apply can be pressed, the text of the page's input. The methods
(`setStartDate`, `updateView`, `renderTimePicker`, ...) are functions on it, in the order the
handlers call them. A moment is an instant and the clock it is read by, because both pages
call `utc()` on moments that are the picker's own, and on those of a preset; `utcPresets`
remembers the latter. `told`, `opened`, `inOrder` and `clicked` are history. Configured as both
pages do: time picker, presets, linked calendars, no limits, no `autoApply`.

`page` tells the two pages apart. The charts pass a callback (`each.html.tmpl`), which `hide`
calls with every new range (`told`), however the picker was closed. The logs page passes none
(`list.html.tmpl:199`): it hears `apply.daterangepicker` only, which `clickApply` triggers
after `hide`. Its handler calls `utc()` on the picker's own moments and goes to the address of
the range (`goingTo`); until that is loaded the page works on, on moments that are in UTC
now (`late` counts the user's steps of that time, up to `MaxLate`). `Load` makes the picker anew:
it starts where the address says and ends at the instant of loading, because the page sets
`stopDate`, which is no option of the picker. A range of the future is therefore made backwards;
`inOrder` says whether the picker was made with a range that is in order.

Left out: place on the screen; the month lists, which move calendars; that a preset chosen when it
is the range already shares its moments with the range from then on. A text typed into an open
picker is written over when that closes and is not kept. A single date is the range from it to
itself. The early return while an input above the calendars has the focus (`:997`) is a step that
is not taken. `Days` bounds the texts, the calendars and the addresses.

### EventSource and EventStream

An answer is a sequence of lines and newlines; the network may cut it between any two, so
within a line (its text without its newline) as well as within an event. `xhr` is the
request with how much has arrived, which is what the cache has. `whole` is an
assumption some behaviours make: that chunks end where events end, as they do when the
server flushes each event and nothing on the way cuts it. Each call reads the text that came
since the last one and starts afresh: `ReadText` folds `ReadUnit` over it from `Unread`.
`heard` is what the listener was called with. `arrived` is what it should have been called
with, taken from the text by counting units (`Arrived`), without reading it. `EventStream`
promises order, no doubles and no mixtures (`Hear`), without that assumption;
`WholeEventsAreHeard` promises, with it, that nothing that arrived is lost.

### PageWidgets and ShowAndHide

`modal` is the dialog: what it told its listeners, whether it is visible, its backdrop and
those on the page (one that is replaced before it was removed stays), and what waits for the
end of a transition at the backdrop, at the dialog and at the element itself. The callbacks
that wait are called in the order they were registered, all at the first end. `nav` is the
collapsing bar, `open` and `focus` are the menus. The focus moves by clicks and by `Tab`, which
reaches toggles under a backdrop and leaves a dialog; `keepsFocus` is `enforceFocus`, which the
dialog binds only when its backdrop is there, and which brings the focus back (`FocusOn`).
`waits` tells apart a user who lets the dialog's transitions end from one who does not. The bar
ignores presses during a transition and keeps `ShowAndHide` for both; the dialog does not ignore
them and keeps it for the first only. The same holds of menus and dialog: one who does not wait
opens a menu, by Tab and an arrow key, over which the dialog then comes.

### GraphDialog, LogsPager, RandomColor

`asked` are the requests for charts under way, `last` the latest one, `chart` what the
container shows and which events were drawn into it, `streams` the event sources that are open
and `attached` the one that the dialog remembers. `late` is history: an answer came after its
dialog or its range was left. `LogsPager` keeps what the page keeps in the list's `data`.
`RandomColor` is the arithmetic of `randomcolor.js` in integers, with every draw of a grid.

## 3. Runs

| run | configuration | question | result |
|---|---|---|---|
| `split` | 5 rows, 3 daemons, every table and order | does the loop deal each row once and evenly; is it `Share`; whom does a delete move | holds |
| `scheduler_daemon` | 1 daemon with UI whose checker is called, 1 check, 2 versions, 2 copies, 1 crash, runners end, nothing lost; fair | does a daemon that comes to rest run every check of the table; is every version that stays run, again and again | holds |
| `scheduler_lossy` | 1 daemon, 2 checks, 2 versions, bus drops, writes, queries and ticks fail | the invariant of the proofs; dispatch never goes back; deletes are final | holds |
| `scheduler_failover` | 2 daemons, 1 check, 1 crash; fair | is a dead daemon's check taken over; do dead peers leave the shares | holds |
| `streams` | 2 connections, 1 metric; fair | life of a channel; metrics arrive, ranges end, connections are forgotten | holds |
| `triggers_exact` | 2 runners, 2 triggers with windows 2 and 3, 4 moments, retention 2 or 3, pruning, muting, messages and queries fail | what number does a trigger go by; does a tick act for every trigger that is due and no other | holds |
| `expressions_each` | 3 entries, 2 hosts, 4 values, 2 thresholds | is a host judged by itself; OR; `MinHost` | holds |
| `expressions_and` | same | AND | violated |
| `date_range` | charts or logs, 2 days of 2 slots, months of 1 day, clock 1 slot ahead of UTC, 1 preset, a backwards range typed, an address in the future, 3 steps while the next page loads | order of the range; half a range; text and range; the days clicked; what closing tells and where Apply goes | holds |
| `event_source` | 3 events, 2 failures; fair | never two polls, never none; whole events are heard; `EventStream` | holds |
| `page_widgets` | 1 dialog, 2 menus of 2 items, 1 bar, 3 backdrops, mouse and keyboard; a user who waits or not; fair | the page left behind; one menu and none over a dialog; `ShowAndHide` for dialog and bar | holds |
| `pages` | 2 metrics, 2 ranges, 2 requests, 2 streams; up to 10 logs in pages of 3; colours on a grid of 120 draws; fair | chart and stream of the dialog; events sorted; every log seen; newer after older; colours | holds |

The violated run checks what the page and a comment say of AND; `PROJECT.json` lists it
under `findings`. Every property of a passing run has a faulty variant that breaks it
(`mutants`).

### Other disagreements met while modelling

No run is spent on these; where a module states the promise as a definition, TLC refutes it
in a few steps when it is added to the module's configuration.

The daemon:

- `NoCheckOnTwoDaemons` (`CheckScheduler`): `application_checker.go:12` says the checks are
  "distributed evenly"; each daemon splits by its own list in its own random order, so two may
  run the same check.
- `OneRunnerPerCheck` (`CheckScheduler`): the page says "checked every" interval
  (`list.html.tmpl:970`); each refetch starts another goroutine beside those that run.
- `SentRefetchIsReceived` (`CheckScheduler`): `main.go:84` says that the boot sends a message to
  `RefetchChecksChan`. With `CheckerCalled = FALSE`, which is this commit, nobody receives it: the
  goroutine of the boot waits for ever, and so does one more for every heartbeat.
- A trigger may act on violations that a good result has ended: when another runner stores it
  between the two queries (`ts_check.go:111`), the second still counts from the marker the first
  one read. This is the upper end of the numbers in `ActsOnExactCounts`.
- `ts_check.go:130`: a window longer than the rows are kept counts what is left of them. Nothing
  compares the two; this is the lower end.
- `MutedIsQuiet` (`CheckTriggers`): the button says "Mute!" (`list.html.tmpl:51`); a runner reads
  the flag of the row it was started with (`check.go:309`), and muting publishes no refetch.
- `DisconnectEndsTheRequest` (`MetricStreams`): `metrics_streams.go:56` says that a closed channel
  means a client that left; the close (`messagebus.go:75`) can meet a send to the channel
  (`application_messagebus.go:68`), which panics and ends the process.
- `main.go:93`: the pruner is not started at this commit either, and nothing expires.
- `application_checker.go:23` ranges over the map of `app.Peers` while heartbeats write
  it, which go-cache's `cache.go:1003` warns of.
- `application_checker.go:67` reads the retention from PostgreSQL, `handlers/clusters.go:154`
  writes it to Cassandra.
- `MissingMetricIsWrong` (`CheckExpressions`): `evaluator.go:124-125` and `:215-216` say of a host
  without the metric "We assume that there's something wrong with it"; it is compared as 0, and is
  good wherever 0 is.
- `evaluator.go:118`, `:209`: a value that is no number ends the daemon (`WrongType`).

The browser:

- `NewRangeIsTold` (`DateRangePicker`): `daterangepicker.js:1109` says the callback is invoked
  if a new range was selected; a range typed while the picker is closed is not told to the
  charts. Their `utc()` switches the picker's own moments and those of a preset to UTC, so that
  the calendars show another day; the right time box stays as it was after a preset (`:853`).
- On the logs page an outside click, Tab or Enter keeps a new range in picker and input, and the
  list stays that of the old one: only Apply and presets are heard (`list.html.tmpl:216`).
- The logs page sets `settings.stopDate`, which is not an option of the picker: whatever end its
  address names, the picker ends when the page is loaded, and for a start in the future it shows a
  range that ends before it starts. `RangeIsOrdered` leaves such pickers out of its first part
  (`inOrder`) and says in its second that even they never tell or send such a range on.
- An answer that comes after its dialog was closed, or after another range was picked, opens
  an event source that nothing closes (`each.html.tmpl:470`; the comment at `:524` says
  "disconnect it"); hence `late` in the properties of `GraphDialog`. A request that fails
  leaves the chart of the metric before.
- `dashboard.js:352` and `:359`: the callbacks for lines and for bands both set
  `TSEventLines`. When the request for lines fails, bands stay there; charts asked for before
  both answers show bands as lines, without colours.
- `FirstPageIsFirst` (`LogsPager`): the first call of `logs.render` counts as a change of
  direction, so the first page is not shown on load, and when there are exactly 50 logs the
  list is empty. "Newer" on the first page shows an empty list too.
- A user who does not wait for transitions can leave a backdrop on the page, let the padding of
  the body grow, have the dialog tell "shown" after "hidden", and open a menu that the dialog
  then covers (Tab and Down until `bootstrap.js:1005` binds `enforceFocus`; `:838-868` does not ask
  for a dialog); hence `waits`.
- The event source tells "open" for an answer that is an error (`eventsource.js:47`, "on
  success"), stays OPEN between polls, aborts every request after 50 s whether it goes on well or
  not, and loses the name of an event, or the event, that the network cuts in two.

### Why the bounds are enough

Two daemons are the fewest that can disagree about a share, and the proofs cover any number.
Two versions give an old and a new row, and two checks a second row whose share moves when the
first is deleted. One crash covers death at every point and the restart. Two runners are the
fewest where one stores between the other's queries, and they are alike, hence the symmetry.
Four moments fit windows of 2 and 3 with a good result inside, before and after them and rows
that expire within a window; with retentions of 2 and 3 one window may be longer than the rows
are kept. Three entries are two expressions and their operator; two hosts show what the first
leaves for the second. Two connections and a range give a range that blocks on one client while
the other leaves or comes; the proof covers any number of ranges. Liveness runs take one check
or one metric: their properties speak of one at a time.

Two days of two slots give ranges within a day, across days, and of no length; months of a day
make the calendars move; a clock ahead by a slot makes UTC and local time fall on different
days. The address that the logs start from is one slot after the page is loaded, so their first
picker is backwards; Apply leads to all others within the days. Three steps of a user fit
opening the picker, choosing and closing it again before the next page is there. Three events
and two failures give an event lost between two answers, a chunk with several and an answer
that begins in the middle. Three backdrops are one in use, one orphaned and one being made; a
page is followed until it has more or its padding reached `MaxPad`. Two metrics, ranges and
requests are the one shown and the one before; after a late answer the page is only loaded
again. Ten logs in pages of three are all remainders, with fewer than a page and several pages.
A draw on a grid of 120 hits both ends of every range of `randomcolor.js`.

### Fairness

`CheckScheduler`: weak fairness for what `for` loops over tickers and channels do,
for the handler's write after its announcement and for the age of entries. Strong
fairness for a daemon coming at each place of the list it builds: Go randomises the
order of every range, so with two lists that are drawn again every 30 seconds no
place is denied for ever. No fairness for the bus to deliver under `Lossy`, for
deaths, restarts, requests or failing queries.

`MetricStreams`: weak fairness for goroutines that can run; strong fairness where a
goroutine waits for another one at a channel (a channel serves its senders in
order, a select takes each ready case again and again). A connected browser keeps
reading, so a write ends. Nothing is fair once the process is dead.

The browser's modules have weak fairness for timers and for what the browser promises to
call: `setTimeout` of the event source and text that arrived (`EventSource`); ends of
transitions, which `emulateTransitionEnd` calls by a timer if the browser does not
(`PageWidgets`); an answer, or an error, to every request, and the ends of the dialog's
transitions (`GraphDialog`). `LogsPager` assumes of the user that who wants older logs goes on
pressing the arrow. Users, servers and networks owe nothing else.

### Refinements

`IsEventStream` (an `EventSource` is an `EventStream`), `NavKeepsPromise` (the bar is a
`ShowAndHide`, its promise of an end included) and `DialogKeepsPromise` (the dialog is one,
whenever the user waits) are properties of `event_source` and `page_widgets`. The mappings are
in `EventSource` and `PageWidgets`: readyState by its name; told by `told`, and there by
what can be seen on the page, the backdrop included.

## 4. Proofs

The theorems hold for every value of the constants that the assumption of the module allows.
Of the invariants and action properties of the passing runs all are theorems but one,
`NoCreatedCheckIsForgotten`. Of `DialogKeepsPromise` and `NavKeepsPromise`, which also have a
liveness part, the safety part is proved. All other properties with an "eventually" are
model-checked only.

Most assumptions give types to the constants, say which sets are finite and which numbers are not
0. Two say more. `PickerAssumption` has the presets and `FirstRange`, the settings of the charts,
in order: they are made in the code, to end at the moment of their making and begin before
(`dashboard.js:198-219`). Of what an address names (`Urls`) it asks no order, and of the clock
(`Offset`) no direction. `GraphAssumption` has a range 0, the one of the settings, which a new
picker shows. A constant that stands for nothing (`None`, `Unreadable`) or for a message (`Refetch`)
is none of the values beside it.

**Folds.** The loops of the code over lists are `FoldLeft`, a recursive function over sets of
places, of which no theorem of the library says what it computes. The modules of proofs unfold it: a
solution of the recursion for *k* places gives one for *k* + 1 (`FoldsNext` and the lemmas like it),
hence there is one for any number, the fold is its last value, and an invariant of the loop that
holds before the first place and that each place keeps holds after the last. The induction is by a
least place where it would fail (`LeastExists`, `UpTo`), which well-foundedness of finite sets gives.

### `CheckSchedulerProofs`, any number of daemons, checks, versions, copies and crashes

- `LoopDealsShares`: `LoopIsShare`. Invariant of the loop is `DealtTo`: after *k* rows the pointer is
  one past the bucket of row *k*, and bucket *i* has the rows whose place is *i* modulo the number of
  daemons. Places are ranks, since the rows come in the order of their ids; so the buckets are
  `Share`. This justifies `Share` in `CheckScheduler`.
- `SharesAreFair`: `SharesPartition`. That shares differ by a row at most is shown by moving each row
  of a share to the row that the other daemon got in the same round, or in the round before,
  which maps one share one to one into the other but for a row.
- `NewerSharesStay`: `DeleteKeepsNewerShares`; the order is by descending id, so a deleted row moves
  no rank of a newer one.
- `TypeCorrect`: `TypeOK` of the scheduler is inductive.
- `HeldRowsCorrect`: `HeldRowsInv`. That a dispatch never goes back to an older row is
  not inductive: nothing in it says that the batch on its way is at least as new as
  what runs. The invariant adds, for every row a daemon holds, that its id was used,
  that it is not ahead of the table (`NeverAhead`), and that the batch is never
  behind the runners (`BatchIsNewest`). A fetch makes the batch from the table, which
  is ahead of all that is held; a dispatch makes runners of the batch; the table only
  moves forward or loses rows for good.
- `DispatchOrder`, `DeletesAreFinal`: action properties from that invariant. The
  second rests on ids never being reused and `UPDATE` not making rows.

### `MetricStreamsProofs`, any number of connections and metrics

- `RegisteredChannels`: `ChannelInv`, which follows a channel through its life (registered,
  deleted from the map, closed, returned) and is inductive; it contains that no channel in the
  map is closed and that each has a request that reads it.

### `CheckTriggersProofs`, any number of runners, any triggers, windows, retentions and clock

- `TriggersActOnExactCounts`: `ActsOnExactCounts`. `HistoryInv` says that the table is the history
  without what is older than the retention, and that what is older than something missing is
  missing too. `MarkerInv` says that between the two queries the marker a runner keeps is the latest
  good result there was when it asked, but for good results that are no more in the table; what was
  pruned with or before them is not counted either. `CountIsBetween` then puts the rows of
  the second query between the two sets of the reference, by inclusion.
- `EveryDueTriggerActs`: `TicksActForEveryTrigger`. `TurnInv` says that the triggers before the one
  at hand had their turn and those after it did not; `DoneInv` that those before it were answered as
  the property asks, for a trigger that is due (or is not) at every moment until now was so when
  its turn came (`DueUntilNow`, `JudgedWhenAsked`), whatever became of the message of any other.

### `CheckExpressionsProofs`, any hosts, values, thresholds and lengths

- `HostsAreJudgedAlone`: `EachHostByItself`. `LoopInv` says that the lists of bad and good hosts
  are those compared whose data say so alone; a visit keeps it because `Compare` gives the same
  result whatever was left from the host before (`CompareDecides`), for the operators the page
  offers. Of hosts without the metric it says (`MissingAreAlike`) that they are all judged alike.
- `CountDecides`: `MinHostDecides`, from `LoopInv` and from hosts that are skipped saying nothing.
  Here a missing metric is the 0 that the code compares.
- `AnyDecidesOr`: `OrIsAny`. `FoldInv` adds that the last operator of a list joined by OR is "or"
  from the second entry on and that operators' own entries are FALSE, which does OR no harm and
  is what breaks AND.

### `DateRangePickerProofs`, any days, slots, months, offset, presets, addresses and typed ranges

- `PickerIsTyped`, `RangesStayOrdered`, `HalfRangesStayOpen`: `TypeOK`, `RangeIsOrdered`,
  `HalfRangeStaysOpen`, from `PickerInv`. Its part `Sound` is about the picker: both ends of a range
  are read by the same clock (else the comparison of days in `timeChanged` would be between days
  of two clocks); a range without an end is that of an open picker and begins at a local moment;
  Apply is on only for a whole range in order; and the range, with the one before, is in order if
  the picker was made with such a one (`inOrder`). Its part `Known` is about the pages: the charts'
  picker was made in order, and no page was told or sent to a range that is not. For the logs this
  rests on Apply alone, and not on the range their picker was made with.
- `TextStaysTheRange`, `ClosingIsTold`, `ClickedDaysStaySpanned`: `TextIsRange`,
  `ClosingTellsOrRestores`, `RangeSpansClickedDays`, from `HistoryInv`. On the page of logs, until
  Apply sends it on, all moments are local and the text of a closed picker is that of its range, or
  no date (`LogsAreLocal`): a local moment written and parsed is itself. `ToldOrRestored` and
  `SentWhereTextSays` are what a step that closes keeps: `hide` writes the input before the handler
  of the logs calls `utc()`, which changes the clock of a moment and not its instant. On both pages
  the ends are on the days that were clicked, and are read by the browser's clock while the picker
  is open (`ClicksAreDays`), in which another time of the same day stays on it (`AtSlotIsThatDay`).

### `EventSourceProofs`, any number of events and failures

- `OneRequestOrTimer`: `OneGoesOn`, inductive with the types.
- `SourceIsEventStream`: `IsEventStream`, that every step of an `EventSource` is one of
  `EventStream` or a stutter, whose specification has no fairness. `ReadUpTo` says of the loop over
  lines that what it has dispatched are single events of the text in their order and that the data
  it keeps is that of the line just read. `AnswerInv` says that the events of an answer that have not
  arrived are later than all that was heard.
- `WholeEventsAreRead`: `WholeEventsAreHeard`. When chunks end where events end, what has arrived is a
  multiple of five units (`WholeInv`); after each five the reader is empty again and has dispatched
  one event more, named and with its own data.

### `PageWidgetsProofs`, any menus, items, backdrops and width of the scrollbar

- `MenusAndDialogKeepApart`: `OneThingAtATime`; that one menu is open and the focus in it, whether the
  user waits or not; that none is open over a dialog, for a user who waits. When the dialog of such
  a user is shown and she acts, its transitions are over and it keeps the focus, by `WaitsInv`
  below, so `Tab` brings the focus into the dialog and no key reaches a menu; a toggle is clickable
  only without a backdrop, and a dialog that is shown has one (`PageIsFree`, `FocusInv`). The latter
  is `ModalInv`, for any user, which must survive every row of callbacks that waits at a backdrop:
  what waits on the backdrop that the dialog would remove does not remove it while the dialog is
  shown, because `hideModal` registers the removal only when it is not, and showing it again brings a
  new backdrop.
- `ClosedDialogLeavesThePage`: `PageIsLeftAsItWas`, and `DialogTellsInOrder`: the safety part of
  `DialogKeepsPromise`. `WaitsInv` is that the dialog of a user who waits is at rest or in one of five
  stages with one backdrop and one callback or timer; `DialogGoesRound` that a step goes from each to
  the next, which is a step of `ShowAndHide`.
- `NavTellsInOrder`: the safety part of `NavKeepsPromise`. The bar goes round in four states, in
  which a press during a transition changes nothing.

### `PagesProofs`, any number of metrics, ranges, requests, streams, events and logs

- `StreamsAreClosed`, `LastAskedIsShown`: `OneLiveStream`, `ChartIsOfTheDialog`. `StreamInv` says that
  a stream that is open is the one attached to the dialog, `RequestInv` that the request whose
  answer would be in time is for what the dialog shows and was sent when no stream was open, and
  `ChartInv` that a dialog shows its chart, an error, or waits.
- `BothKindsAreSorted`: `EventsAreSorted`, for the lists, for the charts and for the requests
  that will be drawn with the lists there were.
- `NewerShowsThePageBefore`: `NewerGoesBack`, for any number of logs and size of a page. `PagerInv`
  says that, while the user goes to older logs, the index is the end of the page shown, and that
  this page begins at the remainder of the end of the page before; the index stays within two pages
  of the list, where remainders are cases (`RemainderIs`). `StepBack` then reads "newer" off it.
- `EveryDrawSuits`: `ColorsSuitTheirUse`, for any grid of draws. `ColorInv` follows a colour through
  its draws: a hue in the range of its name, a saturation in that of its use, and shares of red, green
  and blue that suit the use and are two hexadecimal digits each. The last step is where the proof
  is: the brightness is not below the line between two points of the hue's table
  (`LeastBrightness`), and the sextant of the hue says which share is the greatest.

### Only model-checked

Every liveness property (`EveryVersionIsRun`, `DeadPeersAreForgotten`, `MetricsReachClients`,
`DisconnectedIsForgotten`, `StreamIsAskedForAgain`, `EveryAskIsTold`, `EveryLogIsSeen`, and that
transitions end in `DialogKeepsPromise` and `NavKeepsPromise`): they rest on fairness and `ENABLED`,
which TLAPS does not treat here.

`NoCreatedCheckIsForgotten` is no liveness property and promises no eventual run: it is an action
property of the step by which a daemon comes to have nothing left to handle (no message, no batch, no
goroutine that waits to send). It is checked for one daemon, with the checker called and a bus that
loses nothing. A lost message is not covered: then a check may be without a runner until the next
heartbeat. With several daemons each may be idle while the other's list still has it. Its
invariant would have to follow a created row through publishing, inbox, blocked senders and batch,
counters that saturate included, and is not proved yet.

## 5. Not modelled

Query builders, mail, `lib*`, configuration files, routing and style sheets carry no protocol:
pure functions and single calls. Time series tables other than `ts_checks` repeat its insert and
prune. Accounts, clusters, hosts, metrics and graphs are requests that read and write rows by
themselves, without anything between two requests that could go wrong except the updates that
two of them lose, which follow at once from a read and a write without a transaction: the
triggers' JSON (`check.go:194`), the mute flag (`handlers/checks.go:271`), members and the last
cluster (`handlers/clusters.go:181`), the session's copy of the cluster, signup in three writes
(`handlers/users.go:61`), graphs of a deleted metric (`models/pg/graph.go:143`).

Of Bootstrap, what no page uses (carousel, tooltip, popover, affix and others) is left out; select
boxes, Highcharts and syntax colouring are one call each. `PROJECT.json` gives the reason per
component. The sockets of mangos, the databases, jQuery's requests and moment.js are external: a
statement is atomic, a message may be dropped, an answer comes at any time.

## 6. What could come next

- A composition of `CheckScheduler` with `CheckTriggers`: one check on two daemons whose runners
  come from the scheduler, and an abstract service (every check of the table is evaluated again
  and again, by rows that were in the table) that it implements.
- `GraphMetrics`: deleting a metric against editing and deleting graphs; a graph shows only
  metrics that exist, once deletes are done.
- `ClusterMembership`, should members move into rows of their own.
- Theorems: what the liveness properties rest on step by step, as invariants and action
  properties (that who waits at a channel is still waited for, that each step of a turn is enabled
  until it is taken).
