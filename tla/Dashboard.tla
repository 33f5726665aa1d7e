----------------------------- MODULE Dashboard -----------------------------
(***************************************************************************)
(* services/dashboard/src: the overview and the chart, as a browser sees   *)
(* them while rows keep arriving.                                          *)
(*                                                                         *)
(* The server keeps no state: what lives on is in the open page, namely    *)
(* the selection in its form and in the address it polls.  The page is     *)
(* loaded once and polled afterwards; each query may fail.  A request      *)
(* reads one state of the tables.                                          *)
(*                                                                         *)
(* Metrics and devices are numbers, for the ORDER BY of the queries.  Two  *)
(* of the six ranges, "6h" and "30d", are read like "24h" and "7d" and are *)
(* left out, as are averages, colours and wording.                         *)
(***************************************************************************)
EXTENDS Integers, Sequences, FiniteSets, FiniteSetsExt, SequencesExt

CONSTANTS
    Metric, Device,
    Values,               \* of the readings, whole numbers
    Minute, Hour, Day,    \* in units of the clock
    Min10, Day7,          \* the ranges "10m" and "7d"
    MaxLate,              \* bound: a row is stored this long after its ts
    MaxTime, MaxRows      \* bounds: the clock, rows in sensor_raw

ASSUME NameAssumption == /\ Metric \subseteq Nat \ {0} /\ IsFiniteSet(Metric)
                         /\ Device \subseteq Nat \ {0} /\ IsFiniteSet(Device)
                         /\ Values \subseteq Int

ASSUME TimeAssumption ==
    /\ Minute \in Nat \ {0} /\ {Hour, Day, Day7, Min10} \subseteq Nat
    /\ Day % Minute = 0 /\ Minute < Hour /\ Hour < Day /\ Day < Day7
    /\ MaxLate \in Nat /\ MaxTime \in Nat /\ MaxRows \in Nat

Blank == 0   \* no metric parameter, or an empty one
All   == 0   \* ALL_DEVICES, also what a missing device parameter means

VARIABLES
    now,
    rows,    \* sensor_raw; the views over it are derived
    page     \* what the browser shows

vars == <<now, rows, page>>

-----------------------------------------------------------------------------
(* range.rs                                                                *)

Ranges == {"10m", "1h", "24h", "7d"}

(* Range::parse, then the default of resolve_selection.                    *)
ParsedRange(code) == IF code \in Ranges THEN code ELSE "1h"

Interval == [r \in Ranges |-> CASE r = "10m" -> Min10
                                [] r = "1h"  -> Hour
                                [] r = "24h" -> Day
                                [] r = "7d"  -> Day7]

(* Range::source: raw points, minutes or days.                             *)
Source == [r \in Ranges |-> CASE r = "10m" -> 1
                              [] r \in {"1h", "24h"} -> Minute
                              [] r = "7d" -> Day]

StartOf(t, width) == t - (t % width)

(* A raw row is a point of its own; an aggregate has one for each bucket.  *)
SamePoint(q, r, range) ==
    IF range = "10m" THEN q = r
    ELSE /\ q.device = r.device
         /\ StartOf(q.ts, Source[range]) = StartOf(r.ts, Source[range])

RowsOf(sel) == {r \in rows : r.metric = sel.metric /\ sel.device \in {All, r.device}}

PointOf(r, sel) ==
    LET values == {q.value : q \in {p \in RowsOf(sel) : SamePoint(p, r, sel.range)}}
    IN [key |-> r.device, at |-> StartOf(r.ts, Source[sel.range]),
        min |-> Min(values), max |-> Max(values)]

(* series_sql: the points of a selection, at the start of their bucket.    *)
Points_ByRow(sel) ==   \* mutant: the range bounds the rows, not the buckets
    {PointOf(r, sel) : r \in {q \in RowsOf(sel) : q.ts > now - Interval[sel.range]}}

Points(sel) ==
    {p \in {PointOf(r, sel) : r \in RowsOf(sel)} : p.at > now - Interval[sel.range]}

-----------------------------------------------------------------------------
(* db.rs                                                                   *)

Since(span) == {r \in rows : r.ts > now - span}

Metrics == {r.metric : r \in Since(Day)}

DevicesFor(m) == {r.device : r \in {q \in Since(Day) : q.metric = m}}

(* The pairs that overview() finds, as metric and device.                  *)
Latest == {[key |-> r.metric, at |-> r.device] : r \in Since(Hour)}

(* ORDER BY device_id, ts and ORDER BY metric, device_id.                  *)
Before(x, y) == x.key < y.key \/ (x.key = y.key /\ x.at < y.at)

Ordered_ByItem(S) ==   \* mutant: ORDER BY ts
    CHOOSE s \in SetToSeqs(S) : \A i, j \in DOMAIN s : i < j => s[i].at <= s[j].at

(* The rows of a result, no row before one that precedes it.               *)
Ordered(S) ==
    CHOOSE s \in SetToSeqs(S) : \A i, j \in DOMAIN s : i < j => ~ Before(s[j], s[i])

(* A row joins the last group when it has its key, and opens a group       *)
(* otherwise.                                                              *)
Joined(out, x) ==
    IF out # <<>> /\ Last(out).key = x.key
    THEN [out EXCEPT ![Len(out)].items = Append(@, x)]
    ELSE Append(out, [key |-> x.key, items |-> <<x>>])

(* group_series, and the sections of overview_grid, row by row.            *)
Grouped(s) ==
    LET out[n \in 0 .. Len(s)] == IF n = 0 THEN <<>> ELSE Joined(out[n - 1], s[n])
    IN out[Len(s)]

-----------------------------------------------------------------------------
(* echarts.rs                                                              *)

Spread_Max(p) == p.max   \* mutant: the maximum itself is stacked

(* The second of the two stacked series, on top of the minimum.            *)
Spread(p) == p.max - p.min

(* chart_option: the stacked series behind the line of a single device.    *)
Band(groups) ==
    IF Len(groups) = 1 /\ \E p \in ToSet(groups[1].items) : p.min # p.max
    THEN {[at |-> p.at, min |-> p.min, spread |-> Spread(p)] : p \in ToSet(groups[1].items)}
    ELSE {}

(* What ECharts 5.6 draws of it: its default stackStrategy, "samesign",    *)
(* puts a value on top of the one below only when both have the same sign. *)
Stacked(b) ==
    IF (b.min > 0 /\ b.spread >= 0) \/ (b.min < 0 /\ b.spread <= 0)
    THEN [from |-> b.min, to |-> b.min + b.spread]
    ELSE [from |-> 0, to |-> b.spread]

-----------------------------------------------------------------------------
(* web.rs                                                                  *)

Selection_KnownFirst(q, known) ==   \* mutant: the default wins
    [metric |-> IF known # {} THEN Min(known) ELSE q.metric,
     device |-> q.device, range |-> ParsedRange(q.range)]

(* resolve_selection.                                                      *)
Selection(q, known) ==
    [metric |-> IF q.metric # Blank THEN q.metric
                ELSE IF known # {} THEN Min(known) ELSE Blank,
     device |-> q.device, range |-> ParsedRange(q.range)]

Notice(what) == [what |-> what, groups |-> <<>>, band |-> {}]

(* chart_body, its query answered or not.                                  *)
ChartBody(sel, answered) ==
    LET points == Points(sel)
        groups == Grouped(Ordered(points))
    IN IF sel.metric = Blank THEN Notice("no_metric")
       ELSE IF ~answered THEN Notice("error")
       ELSE IF points = {} THEN Notice("no_data")
       ELSE [what |-> "groups", groups |-> groups, band |-> Band(groups)]

OverviewGrid(answered) ==
    IF ~answered THEN Notice("error")
    ELSE IF Latest = {} THEN Notice("no_data")
    ELSE [what |-> "groups", groups |-> Grouped(Ordered(Latest)), band |-> {}]

DeviceOptions_Unchecked(sel, answered) ==   \* mutant: "all" is pushed as well
    (IF sel.metric # Blank /\ answered THEN DevicesFor(sel.metric) ELSE {}) \cup {sel.device}

DeviceOptions_Listed(sel, answered) ==   \* mutant: the selection is not pushed
    IF sel.metric # Blank /\ answered THEN DevicesFor(sel.metric) ELSE {}

(* chart_controls: the devices offered, the selected one always among them.*)
DeviceOptions(sel, answered) ==
    (IF sel.metric # Blank /\ answered THEN DevicesFor(sel.metric) ELSE {})
      \cup ({sel.device} \ {All})

NoSelection == [metric |-> Blank, device |-> All, range |-> "1h"]

Closed == [kind |-> "none", sel |-> NoSelection, metrics |-> {}, devices |-> {},
           body |-> Notice("")]

Init == now = 0 /\ rows = {} /\ page = Closed

(* overview_page and overview_fragment.                                    *)
ShowOverview ==
    /\ \E answered \in BOOLEAN :
         page' = [Closed EXCEPT !.kind = "overview", !.body = OverviewGrid(answered)]
    /\ UNCHANGED <<now, rows>>

(* chart_page: three queries, each answered or not.  Without the list of   *)
(* metrics it makes do with the one asked for.                             *)
LoadChart(q) ==
    /\ \E listed, offered, answered \in BOOLEAN :
         LET known == IF listed THEN Metrics ELSE {q.metric} \ {Blank}
             sel == Selection(q, known)
         IN page' = [kind |-> "chart", sel |-> sel, metrics |-> known,
                     devices |-> DeviceOptions(sel, offered),
                     body |-> ChartBody(sel, answered)]
    /\ UNCHANGED <<now, rows>>

(* The link in the navigation bar.                                         *)
OpenChart == LoadChart([metric |-> Blank, device |-> All, range |-> ""])

(* chart_link on a card of the overview.                                   *)
FollowCard(m, d) ==
    /\ page.kind = "overview"
    /\ \E g \in ToSet(page.body.groups) : g.key = m /\ d \in {x.at : x \in ToSet(g.items)}
    /\ LoadChart([metric |-> m, device |-> d, range |-> "1h"])

(* What a <select> submits: the option marked as selected, else the first, *)
(* else nothing.  The first device option is ALL_DEVICES.                  *)
FormMetric == IF page.sel.metric \in page.metrics THEN page.sel.metric
              ELSE IF page.metrics # {} THEN Min(page.metrics) ELSE Blank
FormDevice == IF page.sel.device \in page.devices THEN page.sel.device ELSE All

(* One field of the form is changed, and the form is submitted.            *)
Submit ==
    /\ page.kind = "chart"
    /\ \E q \in {[metric |-> m, device |-> FormDevice, range |-> page.sel.range] :
                   m \in page.metrics \cup {FormMetric}}
               \cup {[metric |-> FormMetric, device |-> d, range |-> page.sel.range] :
                       d \in page.devices \cup {All}}
               \cup {[metric |-> FormMetric, device |-> FormDevice, range |-> r] :
                       r \in Ranges} :
         LoadChart(q)

(* chart_fragment_url, polled by htmx and parsed by chart_fragment, which  *)
(* knows no metrics.                                                       *)
PollChart ==
    /\ page.kind = "chart"
    /\ \E answered \in BOOLEAN :
         page' = [page EXCEPT !.body = ChartBody(Selection(page.sel, {}), answered)]
    /\ UNCHANGED <<now, rows>>

(* The ingester stores a row, up to MaxLate after it was received.         *)
Insert(m, d, v, late) ==
    /\ late <= now /\ Cardinality(rows) < MaxRows
    /\ rows' = rows \cup {[metric |-> m, device |-> d, value |-> v, ts |-> now - late]}
    /\ UNCHANGED <<now, page>>

Elapse == /\ now < MaxTime
          /\ now' = now + 1
          /\ UNCHANGED <<rows, page>>

Next == \/ Elapse
        \/ \E m \in Metric, d \in Device :
             \/ \E v \in Values, late \in 0 .. MaxLate : Insert(m, d, v, late)
             \/ FollowCard(m, d)
        \/ ShowOverview \/ OpenChart \/ Submit \/ PollChart

Spec == Init /\ [][Next]_vars

-----------------------------------------------------------------------------
(* Properties                                                              *)

Body == [what : {"", "error", "no_metric", "no_data", "groups"},
         groups : Seq([key : Nat,
                       items : Seq([key : Metric, at : Device]
                                   \cup [key : Device, at : Nat, min : Values, max : Values])]),
         band : SUBSET [at : Nat, min : Values, spread : Nat]]

TypeOK ==
    /\ now \in 0 .. MaxTime
    /\ rows \subseteq [metric : Metric, device : Device, value : Values, ts : 0 .. now]
    /\ page \in [kind : {"none", "overview", "chart"},
                 sel : [metric : Metric \cup {Blank}, device : Device \cup {All},
                        range : Ranges],
                 metrics : SUBSET Metric, devices : SUBSET Device, body : Body]

(* The chart is split at each change of device and the overview at each    *)
(* change of metric, so both rely on the ORDER BY of another file: one     *)
(* line for a device, one section for a metric, in the order of time.      *)
OneGroupPerKey ==
    LET groups == page.body.groups
    IN /\ \A i, j \in DOMAIN groups : i < j => groups[i].key < groups[j].key
       /\ \A g \in ToSet(groups) :
            \A i, j \in DOMAIN g.items : i < j => g.items[i].at <= g.items[j].at

Covers(p, r, width) ==
    p.key = r.device /\ p.at <= r.ts /\ r.ts < p.at + width
      /\ p.min <= r.value /\ r.value <= p.max

(* Whatever the page has been through since it was loaded, a chart that is *)
(* drawn shows the rows of the page's own selection: each one that is      *)
(* younger than the range, up to the one bucket that the range cuts,       *)
(* between the minimum and the maximum of its point, and nothing that      *)
(* begins before the range or has no row.                                  *)
ChartComplete ==
    [][page' # page /\ page'.kind = "chart" /\ page'.body.what \in {"groups", "no_data"} =>
         LET sel == page'.sel
             width == Source[sel.range]
             points == UNION {ToSet(g.items) : g \in ToSet(page'.body.groups)}
         IN /\ \A r \in RowsOf(sel) :
                 r.ts >= now - Interval[sel.range] + width =>
                   \E p \in points : Covers(p, r, width)
            /\ \A p \in points :
                 /\ p.at > now - Interval[sel.range]
                 /\ \E r \in RowsOf(sel) : Covers(p, r, width)]_vars

(* echarts.rs:30: with a single device whose minimum and maximum differ    *)
(* somewhere, the shaded band reaches from the minimum to the maximum of   *)
(* each point; otherwise nothing is shaded.                                *)
BandShowsSpread ==
    page.kind = "chart" =>
      LET points == UNION {ToSet(g.items) : g \in ToSet(page.body.groups)}
          shaded == /\ Cardinality({p.key : p \in points}) = 1
                    /\ \E p \in points : p.min # p.max
      IN {[at |-> b.at, drawn |-> Stacked(b)] : b \in page.body.band}
           = IF shaded THEN {[at |-> p.at, drawn |-> [from |-> p.min, to |-> p.max]] :
                               p \in points}
             ELSE {}

(* Changing one field of the form must not change another: the device      *)
(* stays even if it went silent or the list is unavailable (web.rs:283);   *)
(* the metric only as long as it was seen in the last 24 hours.            *)
FormKeepsChoice ==
    [][page'.kind = "chart" /\ [page' EXCEPT !.body = page.body] # page =>
         /\ FormDevice' = page'.sel.device
         /\ FormMetric' = page'.sel.metric \/ page'.sel.metric \notin Metrics]_vars

(* A card is found in the raw rows of an hour, its link opens the minutes  *)
(* of an hour: the chart is the card's, and unless the card's last row is  *)
(* about to leave the hour it has data.                                    *)
CardLeadsToData ==
    [][\A m \in Metric, d \in Device : FollowCard(m, d) =>
         /\ page'.sel = [metric |-> m, device |-> d, range |-> "1h"]
         /\ (\E r \in rows : r.metric = m /\ r.device = d /\ r.ts >= now - Hour + Minute)
              => page'.body.what # "no_data"]_vars

(* web.rs:374: the address that the page polls always carries a metric, so *)
(* the fragment need not look for one.  While there are metrics, a poll    *)
(* that is answered does not report that there are none.                   *)
PollFindsMetrics ==
    page.kind = "chart" /\ Metrics # {}
      => ChartBody(Selection(page.sel, {}), TRUE).what # "no_metric"
=============================================================================
