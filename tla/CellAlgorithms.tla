--------------------------- MODULE CellAlgorithms ---------------------------
(***************************************************************************)
(* The pure algorithms the dashboard's cells draw with, each beside a      *)
(* definition that says what it is for and not how it goes about it.  The  *)
(* only state is the sample under test, chosen once.                       *)
(***************************************************************************)
EXTENDS Integers, Sequences, FiniteSets, SequencesExt

CONSTANTS
  Spans,        \* lengths of a window, in seconds
  Trails,       \* series of one key: sequences of [ts, num], in any order
  Layouts,      \* sets of widget layouts [x, y, w, h] already on the grid
  Sizes,        \* sequences of sizes [w, h] to be placed
  KeyLists,     \* sequences of distinct telemetry keys
  UnitTables,   \* functions from those keys to unit symbols, "" without one
  DataKeyLists, \* sequences of configured table columns [source, scope, key]
  EntityReports,      \* what the entities report: functions from [source, scope] to key sets
  DayWindows,   \* [start, end] of a window, in days; day 0 is a Sunday
  AlarmLists,   \* sequences of alarms [of, status, severity]
  Heights       \* heights of the dashboard's container, in pixels

\* What the API and the pages hand over: a series has one sample per time, as ThingsBoard
\* keeps one value per key and time; sizes come from the widget templates, at most a row
\* wide; keys are picked from a list, each once; and a window starts before it ends.
ASSUME AlgorithmsAssumption ==
  /\ Spans \cup Heights \subseteq Nat
  /\ \A s \in Trails : /\ s \in Seq([ts : Int, num : BOOLEAN])
                       /\ \A i, j \in DOMAIN s : s[i].ts = s[j].ts => i = j
  /\ \A l \in Layouts : IsFiniteSet(l) /\ \A w \in l : w \in [x : Nat, y : Nat, w : Nat, h : Nat]
  /\ \A s \in Sizes : s \in Seq([w : 0..12, h : Nat])
  /\ \A ks \in KeyLists : ks \in Seq(Range(ks)) /\ IsInjective(ks)
  /\ \A cs \in DataKeyLists, report \in EntityReports :
       /\ cs \in Seq(Range(cs))
       /\ \A c \in Range(cs) : /\ c = [source |-> c.source, scope |-> c.scope, key |-> c.key]
                               /\ IsFiniteSet(report[<<c.source, c.scope>>])
  /\ \A w \in DayWindows : w \in [start : Int, end : Int] /\ w.start <= w.end
  /\ \A as \in AlarmLists : as \in Seq(Range(as))

VARIABLE sample   \* what an algorithm is applied to

Columns12 == 12                  \* the grid's columns
PairTolerance == 2               \* PAIR_TOLERANCE_MS, in steps of a sample's clock
MaxDays == 30                    \* MAX_DAYS, ten years in the code
TargetBuckets == 500
IntervalSteps == <<60, 300, 900, 1800, 3600, 10800, 21600, 43200, 86400, 604800>>
AnyKey == "*"                    \* ALL_KEYS

(***************************************************************************)
(* history.ts: the aggregation bucket for a window                         *)
(***************************************************************************)
\* the first step that is at least the ideal, else the last
IntervalFor(span) ==
  LET fit == {i \in DOMAIN IntervalSteps : IntervalSteps[i] * TargetBuckets >= span}
  IN IntervalSteps[IF fit = {} THEN Len(IntervalSteps) ELSE Min(fit)]

(***************************************************************************)
(* pair-coordinates.ts: two series joined on nearby timestamps             *)
(***************************************************************************)
Apart(x, y) == IF x.ts > y.ts THEN x.ts - y.ts ELSE y.ts - x.ts
\* the numbers of a finite set in ascending order: each has its place behind the smaller ones
Ascending(S) ==
  [i \in 1..Cardinality(S) |-> CHOOSE t \in S : Cardinality({u \in S : u < t}) = i - 1]
\* a series sorted by time; it has one sample per time
ByTime(s) ==
  LET order == Ascending({p.ts : p \in Range(s)})
  IN [i \in DOMAIN order |-> CHOOSE p \in Range(s) : p.ts = order[i]]

\* a bug: the cursor advances by one sample at most
Advance_once(b, j, p) ==
  IF j < Len(b) /\ Apart(b[j + 1], p) <= Apart(b[j], p) THEN j + 1 ELSE j
\* the cursor into b moves on while the next sample is at least as close to p
Advance(b, j, p) ==
  Min({k \in j..Len(b) : k = Len(b) \/ Apart(b[k + 1], p) > Apart(b[k], p)})

\* one sample of a: the cursor moves on, and the two are a pair if they fit
Paired(b, acc, p) ==
  LET j == Advance(b, acc.j, p)
      fits == Apart(b[j], p) <= PairTolerance /\ p.num /\ b[j].num
  IN [j |-> j, paired |-> IF fits THEN Append(acc.paired, <<p.ts, b[j].ts>>) ELSE acc.paired]

PairSeries(seriesA, seriesB) ==
  LET a == ByTime(seriesA)
      b == ByTime(seriesB)
      after[n \in 0..Len(a)] ==
        IF n = 0 THEN [j |-> 1, paired |-> <<>>] ELSE Paired(b, after[n - 1], a[n])
  IN IF b = <<>> THEN <<>> ELSE after[Len(a)].paired

(***************************************************************************)
(* layout-utils.ts and DashboardCanvas: where widgets go, how high rows are*)
(***************************************************************************)
BottomOf(layout) == Max({l.y + l.h : l \in layout} \cup {0})

\* a row is as high as its highest widget
RowWith(row, h) == IF h > row THEN h ELSE row

\* the cursor before a widget of this size: at the start of the next row if it does not fit
Wrapped(cursor, size) ==
  IF cursor.x + size.w <= Columns12 THEN cursor
  ELSE [cursor EXCEPT !.x = 0, !.y = cursor.y + cursor.row, !.row = 0]

Placed(cursor, size) ==
  LET at == Wrapped(cursor, size)
  IN [x |-> at.x + size.w, y |-> at.y, row |-> RowWith(at.row, size.h),
      placed |-> Append(at.placed, [x |-> at.x, y |-> at.y, w |-> size.w, h |-> size.h])]

PackWidgets(existing, sizes) ==
  LET after[n \in 0..Len(sizes)] ==
        IF n = 0 THEN [x |-> 0, y |-> BottomOf(existing), row |-> 0, placed |-> <<>>]
        ELSE Placed(after[n - 1], sizes[n])
  IN after[Len(sizes)].placed

GridMargin == 16
MinFitRowHeight == 24
RowHeightScroll == 80
\* before the container is measured, and without a widget, rows are as high as when scrolling
FitRowHeight(height, rows) ==
  IF rows = 0 \/ height = 0 THEN RowHeightScroll
  ELSE Max({MinFitRowHeight, (height - GridMargin * (rows + 1)) \div rows})

(***************************************************************************)
(* group-keys-by-unit.ts: the two axes of a comparison chart               *)
(***************************************************************************)
\* byUnit, a Map that keeps its insertion order in acc.order
KeysUnder(acc, u) == IF u \in DOMAIN acc.byUnit THEN acc.byUnit[u] ELSE <<>>
Grouped(acc, u, k) ==
  [order |-> IF u \in DOMAIN acc.byUnit THEN acc.order ELSE Append(acc.order, u),
   byUnit |-> [v \in DOMAIN acc.byUnit \cup {u} |->
                 IF v = u THEN Append(KeysUnder(acc, u), k) ELSE acc.byUnit[v]]]

UnitGroups(keys, units) ==
  LET after[n \in 0..Len(keys)] ==
        IF n = 0 THEN [order |-> <<>>, byUnit |-> << >>]
        ELSE Grouped(after[n - 1], units[keys[n]], keys[n])
  IN after[Len(keys)]

\* what a group adds to the omitted keys: nothing, if it has an axis
WithGroup(omitted, groups, i) ==
  IF i <= 2 THEN omitted ELSE omitted \o groups.byUnit[groups.order[i]]
Omitted(groups) ==
  LET after[i \in 0..Len(groups.order)] ==
        IF i = 0 THEN <<>> ELSE WithGroup(after[i - 1], groups, i)
  IN after[Len(groups.order)]

GroupKeysByUnit(keys, units) ==
  LET groups == UnitGroups(keys, units)
      axisOf(u) == [unit |-> u, keys |-> groups.byUnit[u]]
  IN [axes |-> [i \in 1..Min({2, Len(groups.order)}) |-> axisOf(groups.order[i])],
      omitted |-> Omitted(groups)]

(***************************************************************************)
(* table.ts: the columns of a table, wildcards expanded                    *)
(***************************************************************************)
ColumnId(c) == <<c.source, c.scope, c.key>>

\* the keys of one source and scope that any entity reports, in some fixed order
Reported(report, c) == SetToSeq(report[<<c.source, c.scope>>])

Concrete(c, report) ==
  IF c.key # AnyKey THEN <<c>>
  ELSE LET ks == Reported(report, c) IN [i \in DOMAIN ks |-> [c EXCEPT !.key = ks[i]]]

Push(columns, c) ==
  IF \E i \in DOMAIN columns : ColumnId(columns[i]) = ColumnId(c) THEN columns
  ELSE Append(columns, c)
PushAll(columns, cs) ==
  LET after[n \in 0..Len(cs)] == IF n = 0 THEN columns ELSE Push(after[n - 1], cs[n])
  IN after[Len(cs)]

TableColumns(configured, report) ==
  LET after[n \in 0..Len(configured)] ==
        IF n = 0 THEN <<>> ELSE PushAll(after[n - 1], Concrete(configured[n], report))
  IN after[Len(configured)]

(***************************************************************************)
(* CalendarHeatmapWidget: a window's days as weeks                         *)
(***************************************************************************)
\* the offsets 0, 7, 14 ... up to and including the window's last day
WeekCount(grid, last) == (last - grid) \div 7 + 1

CalendarGrid(window) ==
  LET span == Min({window.end - window.start, MaxDays})
      grid == window.start - (window.start % 7)
  IN [i \in 1..WeekCount(grid, window.start + span) |->
        [d \in 1..7 |-> grid + 7 * (i - 1) + d - 1]]

(***************************************************************************)
(* chart-shared.ts mergeByTimestamp: the rows a chart draws                *)
(***************************************************************************)
RowAt(rows, p) == IF p.ts \in DOMAIN rows THEN rows[p.ts] ELSE {}

\* one row per timestamp; a row holds the series that have a value in it
Put(rows, s, p) ==
  [t \in DOMAIN rows \cup {p.ts} |-> IF t = p.ts THEN RowAt(rows, p) \cup {s} ELSE rows[t]]
PutAll(rows, s, points) ==
  LET after[n \in 0..Len(points)] == IF n = 0 THEN rows ELSE Put(after[n - 1], s, points[n])
  IN after[Len(points)]

RowsInOrder(rows) ==
  LET order == Ascending(DOMAIN rows)
  IN [i \in DOMAIN order |-> [ts |-> order[i], in |-> rows[order[i]]]]
MergedRows(series) ==
  LET after[s \in 0..Len(series)] == IF s = 0 THEN << >> ELSE PutAll(after[s - 1], s, series[s])
  IN RowsInOrder(after[Len(series)])

(***************************************************************************)
(* useFleetStatus and chart-palette: what a marker says of its alarms      *)
(***************************************************************************)
Rank == [CRITICAL |-> 4, MAJOR |-> 3, WARNING |-> 2, MINOR |-> 1, INDETERMINATE |-> 0]
Known(severity) == IF severity \in DOMAIN Rank THEN severity ELSE "INDETERMINATE"

Worse(best, s) ==
  IF best = "none" THEN Known(s) ELSE IF Rank[Known(s)] > Rank[best] THEN Known(s) ELSE best

Active(a) == a.status \in {"ACTIVE_UNACK", "ACTIVE_ACK"}

\* the worst of the entity's active alarms, as the list goes on
MarkerSeverity(alarms, e) ==
  LET worst[n \in 0..Len(alarms)] ==
        IF n = 0 THEN "none"
        ELSE IF alarms[n].of = e /\ Active(alarms[n]) THEN Worse(worst[n - 1], alarms[n].severity)
        ELSE worst[n - 1]
  IN worst[Len(alarms)]

(***************************************************************************)
(* The samples                                                             *)
(***************************************************************************)
AlgorithmsInit ==
  \/ \E s \in Spans : sample = [use |-> "interval", span |-> s]
  \/ \E a, b \in Trails : sample = [use |-> "pairs", a |-> a, b |-> b]
  \/ \E l \in Layouts, s \in Sizes : sample = [use |-> "pack", existing |-> l, sizes |-> s]
  \/ \E h \in Heights, r \in 0..8 : sample = [use |-> "fit", height |-> h, rows |-> r]
  \/ \E k \in KeyLists, u \in UnitTables : sample = [use |-> "axes", keys |-> k, units |-> u]
  \/ \E c \in DataKeyLists, r \in EntityReports :
       sample = [use |-> "columns", configured |-> c, report |-> r]
  \/ \E w \in DayWindows : sample = [use |-> "calendar", window |-> w]
  \/ \E a, b \in Trails : sample = [use |-> "rows", series |-> <<a, b>>]
  \/ \E a \in AlarmLists : sample = [use |-> "marker", alarms |-> a]

(***************************************************************************)
(* What each algorithm is for                                              *)
(***************************************************************************)
\* at most TargetBuckets buckets of the chosen step cover a span the steps can
\* cover at all, and no finer step would do
IntervalFits(span, step) ==
  LET fits(s) == s * TargetBuckets >= span IN
  /\ fits(604800) => fits(step) /\ (span - 1) \div step < TargetBuckets
  /\ \A s \in Range(IntervalSteps) : s < step => ~ fits(s)

\* every numeric sample of a, in time order, with the latest of the nearest samples
\* of b, where that one is numeric and near enough
PairsNearest(a, b, paired) ==
  LET Nearest(p) == {q \in Range(b) : \A r \in Range(b) : Apart(q, p) <= Apart(r, p)}
      Match(p) == CHOOSE q \in Nearest(p) : \A r \in Nearest(p) : r.ts <= q.ts
  IN /\ Range(paired) = {<<p.ts, Match(p).ts>> : p \in {p \in Range(a) :
          b # <<>> /\ p.num /\ Match(p).num /\ Apart(p, Match(p)) <= PairTolerance}}
     /\ \A i \in 1..(Len(paired) - 1) : paired[i][1] < paired[i + 1][1]

\* no two widgets overlap, none leaves the grid, and sizes and order are kept
PacksApart(existing, sizes, placed) ==
  LET Meet(l, m) == /\ l.x < m.x + m.w /\ m.x < l.x + l.w
                    /\ l.y < m.y + m.h /\ m.y < l.y + l.h
  IN /\ Len(placed) = Len(sizes)
     /\ \A i \in DOMAIN placed :
          /\ placed[i].w = sizes[i].w /\ placed[i].h = sizes[i].h
          /\ placed[i].x + placed[i].w <= Columns12
          /\ \A l \in existing : ~ Meet(placed[i], l)
          /\ \A j \in 1..(i - 1) : ~ Meet(placed[i], placed[j])

\* no row is lower than the least; in a container that was measured the rows and the margins
\* around them fit, unless rows are at their least
FitsHeight(height, rows, row) ==
  /\ row >= MinFitRowHeight
  /\ height > 0 /\ rows > 0 =>
       row = MinFitRowHeight \/ rows * row + GridMargin * (rows + 1) <= height

\* at most two axes of different units, each with all keys of its unit, once; the others
\* are omitted, once, and only if there are two axes
GroupsByUnit(keys, units, grouped) ==
  LET axes == grouped.axes
      onAxis(i) == {k \in Range(keys) : units[k] = axes[i].unit} IN
  /\ Len(axes) <= 2
  /\ \A i, j \in DOMAIN axes : axes[i].unit = axes[j].unit => i = j
  /\ \A i \in DOMAIN axes : IsInjective(axes[i].keys) /\ Range(axes[i].keys) = onAxis(i)
  /\ IsInjective(grouped.omitted)
  /\ Range(grouped.omitted) = Range(keys) \ UNION {onAxis(i) : i \in DOMAIN axes}
  /\ grouped.omitted # <<>> => Len(axes) = 2

\* the columns are the configured keys and those a wildcard stands for, each once
ColumnsOnce(configured, report, columns) ==
  /\ IsInjective(columns)
  /\ Range(columns) =
       {c \in Range(configured) : c.key # AnyKey} \cup
       UNION {{[c EXCEPT !.key = k] : k \in report[<<c.source, c.scope>>]} :
              c \in {c \in Range(configured) : c.key = AnyKey}}

\* true weeks, day after day, none without a day of the window, none of its days missing
WeeksSpan(window, weeks) ==
  LET last == Min({window.end, window.start + MaxDays}) IN
  /\ \A i \in DOMAIN weeks : /\ Len(weeks[i]) = 7 /\ weeks[i][1] % 7 = 0
                             /\ \A d \in 1..6 : weeks[i][d + 1] = weeks[i][d] + 1
                             /\ \E d \in 1..7 : weeks[i][d] \in window.start..last
  /\ \A i \in 1..(Len(weeks) - 1) : weeks[i + 1][1] = weeks[i][7] + 1
  /\ \A day \in window.start..last : \E i \in DOMAIN weeks : \E d \in 1..7 : weeks[i][d] = day

\* one row per timestamp, oldest first, with every series that has a value then
RowsMerge(series, rows) ==
  /\ \A i \in 1..(Len(rows) - 1) : rows[i].ts < rows[i + 1].ts
  /\ UNION {{<<rows[i].ts, s>> : s \in rows[i].in} : i \in DOMAIN rows}
       = UNION {{<<p.ts, s>> : p \in Range(series[s])} : s \in DOMAIN series}

\* a marker names the worst severity of the entity's active alarms, and none without one
MarkersTell(alarms, e, severity) ==
  LET active == {a \in Range(alarms) : a.of = e /\ a.status \in {"ACTIVE_UNACK", "ACTIVE_ACK"}} IN
  /\ severity = "none" <=> active = {}
  /\ \A a \in active : Rank[Known(a.severity)] <= Rank[severity]
  /\ severity # "none" => \E a \in active : Known(a.severity) = severity

\* PROPERTY.  Each of the cells' algorithms gives what its definition above asks for, on
\* every sample.
AlgorithmsAgree ==
  LET s == sample IN
  /\ s.use = "interval" => IntervalFits(s.span, IntervalFor(s.span))
  /\ s.use = "pairs" => PairsNearest(s.a, s.b, PairSeries(s.a, s.b))
  /\ s.use = "pack" => PacksApart(s.existing, s.sizes, PackWidgets(s.existing, s.sizes))
  /\ s.use = "fit" => FitsHeight(s.height, s.rows, FitRowHeight(s.height, s.rows))
  /\ s.use = "axes" => GroupsByUnit(s.keys, s.units, GroupKeysByUnit(s.keys, s.units))
  /\ s.use = "columns" =>
       ColumnsOnce(s.configured, s.report, TableColumns(s.configured, s.report))
  /\ s.use = "calendar" => WeeksSpan(s.window, CalendarGrid(s.window))
  /\ s.use = "rows" => RowsMerge(s.series, MergedRows(s.series))
  /\ s.use = "marker" => \A e \in {a.of : a \in Range(s.alarms)} :
                           MarkersTell(s.alarms, e, MarkerSeverity(s.alarms, e))
=============================================================================
