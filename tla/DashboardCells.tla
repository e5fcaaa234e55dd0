--------------------------- MODULE DashboardCells ---------------------------
(***************************************************************************)
(* An open dashboard: each cell turns its stored config into queries of    *)
(* TanStack's cache and draws what the cache holds under their keys (the   *)
(* cells of components/dashboards/renderer and the hooks of datasource/).  *)
(* Cells share the cache: the first one to ask for a key runs ITS own      *)
(* query function, and every other cell with that key reads the result.    *)
(*                                                                         *)
(* An answer is reduced to its form and the telemetry keys it covers.  A   *)
(* window is the length and the end it was resolved to; agg and interval   *)
(* are one bucket, the automatic one or the calendar's day.                *)
(***************************************************************************)
EXTENDS Integers, Sequences, FiniteSets

CONSTANTS
  Cells,       \* the widgets on the dashboard
  Boards,      \* the dashboards: a stored config for every cell
  Fleet,       \* the devices of the backend, in list order
  NoDevice,    \* no entityId in the config
  MaxSeries, MaxTiles, MaxRows, MaxCards,  \* the caps of shared.tsx and the palette
  MaxClock,    \* bound: instants
  MaxPicks     \* bound: changes of the dashboard's time window

\* A stored widget that charts one key has one (telemetryKey of the backend's schema).
ASSUME CellsAssumption ==
  /\ {MaxSeries, MaxTiles, MaxRows, MaxCards, MaxClock, MaxPicks} \subseteq Nat
  /\ Fleet \in Seq({Fleet[i] : i \in 1..Len(Fleet)})
  /\ \A board \in Boards, c \in Cells :
       board[c].type \in {"value-tile", "gauge", "battery", "rssi", "line-chart", "bar-chart",
                          "calendar-heatmap"} => Len(board[c].keys) = 1

VARIABLES
  config,   \* per cell: type, scope ALL or not, entityId, telemetry keys, options
  clock,    \* Date.now()
  range,    \* the dashboard's time window: FIXED with its end, or rolling
  picks,    \* how often it was changed
  memo,     \* per cell: the window it resolved last
  registered, \* how many devices of Fleet exist
  asked,    \* requests under way: query key -> what the query function returns
  answers   \* the query cache: query key -> data

cellVars == <<config, clock, range, picks, memo, registered, asked, answers>>

Ranges == [kind : {"LAST", "FIXED"}, ms : {1, 2}, end : 0..MaxClock]
NoWindow == [ms |-> 0, end |-> 0]
Spark == 3                       \* the sparkline's three hours, no preset's length

\* resolveHistoryWindow: a rolling window ends now, a fixed one where it was put
Resolve(w) == [ms |-> w.ms, end |-> IF w.kind = "FIXED" THEN w.end ELSE clock]

HasSpark(c) == config[c].type = "value-tile" /\ "sparkline" \in config[c].opts /\ ~ config[c].all

(***************************************************************************)
(* What a cell asks for                                                    *)
(***************************************************************************)
\* the hooks each cell type reads its devices through
Reads(c) ==
  LET t == config[c].type
      opts == config[c].opts
  IN {r \in {"latest", "allLatest", "points", "dayPoints", "byKey", "raw", "attributes",
              "active"} :
       \/ r = "latest" /\ t \in {"value-tile", "gauge", "battery", "rssi", "map"}
       \/ r = "allLatest" /\ \/ t \in {"value-cards", "value-map", "movement-heatmap", "fleet-map"}
                             \/ t = "attributes-table" /\ "TELEMETRY" \in opts
                             \/ t = "scatter" /\ "FLEET" \in opts
       \/ r = "points" /\ (t \in {"line-chart", "bar-chart"} \/ HasSpark(c))
       \/ r = "dayPoints" /\ t = "calendar-heatmap"
       \/ r = "byKey" /\ \/ t \in {"multi-key-chart", "timeseries-table"}
                         \/ t = "scatter" /\ "FLEET" \notin opts
       \/ r = "raw" /\ t = "movement-heatmap"
       \/ r = "attributes" /\ t = "attributes-table" /\ "ATTRIBUTE" \in opts
       \/ r = "active" /\ t = "fleet-map"}

\* how many devices the cell asks for; the map and a misconfigured gauge take them all
Cap(c) ==
  LET t == config[c].type IN
  IF t \in {"battery", "rssi", "multi-key-chart", "timeseries-table", "calendar-heatmap"} THEN 1
  ELSE IF t = "movement-heatmap" \/ (t = "scatter" /\ "FLEET" \notin config[c].opts) THEN MaxSeries
  ELSE IF t \in {"scatter", "value-map"} THEN MaxTiles
  ELSE IF ~ config[c].all \/ t \in {"gauge", "fleet-map"} THEN Len(Fleet)
  ELSE IF t \in {"line-chart", "bar-chart"} THEN MaxSeries
  ELSE IF t = "value-tile" THEN MaxTiles
  ELSE IF t = "value-cards" THEN MaxCards ELSE MaxRows

Query(use, of, keys, window, bucket) ==
  [use |-> use, of |-> of, keys |-> keys, window |-> window, bucket |-> bucket]
Plain(use, of) == Query(use, of, <<>>, NoWindow, "none")

\* the entity list with its page size, the same list of the fleet map and the entity
\* counts, which pass none or count a kind, and the one entity
List(c) ==
  IF config[c].type = "fleet-map" THEN Plain("wholeList", "DEVICE") ELSE Plain("list", "DEVICE")
EntityQuery(d) == Plain("entity", d)

\* useLatestForEntities carries its key in the query key; the multi-key hook, the
\* tables and the fleet map all use the same key with `undefined` and get every key
LatestQuery(d, keys) == Query("latest", d, keys, NoWindow, "none")

\* a bug: the connectivity flag is cached as the attributes of all scopes
ActiveQuery_sharesKey(d) == Plain("attributes", d)
\* useFleetConnectivity asks for one attribute under a key of its own, not ['attributes', id]
ActiveQuery(d) == Query("attributes", d, <<"active">>, NoWindow, "none")

\* a hook's query for a device: the key in the cache and the data its function returns
Ask(c, r, d) ==
  LET keys == config[c].keys
      history(bucket) == Query("history", d, keys, memo[c], bucket)
  IN CASE r = "latest" ->
            [query |-> LatestQuery(d, keys), data |-> [form |-> "latest", keys |-> keys]]
       [] r = "allLatest" ->
            [query |-> Query("latest", d, <<>>, NoWindow, "none"),
             data |-> [form |-> "latest", keys |-> <<>>]]
       [] r = "points" ->
            [query |-> history("auto"), data |-> [form |-> "points", keys |-> keys]]
       [] r = "dayPoints" ->
            [query |-> history("day"), data |-> [form |-> "points", keys |-> keys]]
       [] r = "byKey" ->
            [query |-> history("auto"), data |-> [form |-> "byKey", keys |-> keys]]
       [] r = "raw" ->
            [query |-> Query("history-raw", d, keys, memo[c], "none"),
             data |-> [form |-> "raw", keys |-> keys]]
       [] r = "active" ->
            [query |-> ActiveQuery(d), data |-> [form |-> "oneScope", keys |-> <<"active">>]]
       [] OTHER -> [query |-> Plain("attributes", d),
                    data |-> [form |-> "attributes", keys |-> <<>>]]

\* useDatasourceEntities: the fetched list for ALL scope, else the one fetched entity;
\* the map cell asks for its entity's position without waiting for the entity
Resolved(c) ==
  IF config[c].all
  THEN IF List(c) \in DOMAIN answers THEN answers[List(c)].keys ELSE <<>>
  ELSE IF config[c].type = "map" \/ EntityQuery(config[c].id) \in DOMAIN answers
  THEN <<config[c].id>> ELSE <<>>

OnScreen(c) ==
  {Resolved(c)[i] : i \in 1..(IF Len(Resolved(c)) < Cap(c) THEN Len(Resolved(c)) ELSE Cap(c))}

\* the donut that counts entities asks for all alarms, with no filter
CountsEntities(c) == config[c].type = "donut" /\ "ENTITY_TYPE" \in config[c].opts

\* the alarm widgets run the entity-scoped and the global query and read one of them
AlarmAsks(c) ==
  LET alarms(of) == [query |-> Plain("alarms", of), data |-> [form |-> "alarms", keys |-> <<>>]]
  IN IF config[c].type \in {"alarms-list", "alarm-count", "donut"}
     THEN {alarms(IF config[c].all /\ ~ CountsEntities(c) THEN "DEVICE" ELSE NoDevice)}
          \cup (IF config[c].id = NoDevice THEN {} ELSE {alarms(config[c].id)})
     ELSE IF config[c].type = "fleet-map" THEN {alarms(NoDevice)} ELSE {}

EntityAsks(c) ==
  LET list(use, of) == [query |-> Plain(use, of), data |-> [form |-> "list", keys |-> <<>>]]
  IN IF CountsEntities(c) THEN {list("list", "DEVICE"), list("list", "ASSET")}
     ELSE IF config[c].type = "fleet-map"
     THEN {list("wholeList", "DEVICE"), list("wholeList", "ASSET")}
     ELSE IF config[c].type \in {"alarms-list", "alarm-count", "donut", "label"} THEN {}
     ELSE IF config[c].all THEN {list("list", "DEVICE")}
     ELSE {[query |-> EntityQuery(config[c].id), data |-> [form |-> "entity", keys |-> <<>>]]}

Asks(c) ==
  AlarmAsks(c) \cup EntityAsks(c) \cup {Ask(c, r, d) : r \in Reads(c), d \in OnScreen(c)}

(***************************************************************************)
(* The page                                                                *)
(***************************************************************************)
CellsInit ==
  /\ config \in Boards
  /\ clock = 0
  /\ range \in {[kind |-> "LAST", ms |-> 1, end |-> 0], [kind |-> "FIXED", ms |-> 1, end |-> 0]}
  /\ picks = 0
  /\ memo = [c \in Cells |-> IF HasSpark(c) THEN [ms |-> Spark, end |-> clock] ELSE Resolve(range)]
  /\ registered \in 1..Len(Fleet)
  /\ asked = <<>>
  /\ answers = <<>>

\* the memo of a chart is keyed on the window; the sparkline's window has none
Rendered(c) == IF HasSpark(c) THEN [ms |-> Spark, end |-> clock] ELSE memo[c]

\* A cell renders again: a poll answered, a sibling changed, the pointer moved.
Render(c) ==
  /\ memo' = [memo EXCEPT ![c] = Rendered(c)]
  /\ UNCHANGED <<config, clock, range, picks, registered, asked, answers>>

\* TimeWindowPicker.handleSelect and handleBound, or the stored window coming back
PickWindow(w) ==
  /\ picks < MaxPicks
  /\ range' = w
  /\ picks' = picks + 1
  /\ memo' = [c \in Cells |-> IF HasSpark(c) THEN memo[c]
                              ELSE [ms |-> w.ms,
                                    end |-> IF w.kind = "FIXED" THEN w.end ELSE clock]]
  /\ UNCHANGED <<config, clock, registered, asked, answers>>

\* A mounted observer fetches unless somebody's request for that key is under way;
\* lists and multi-key readings are polled, so it may ask again for what it has.
SendQuery(c) ==
  /\ asked = <<>>                 \* bound: one request under way
  /\ \E a \in Asks(c) :
       /\ a.query.use \in {"list", "wholeList", "latest"} \/ a.query \notin DOMAIN answers
       /\ asked' = [q \in {a.query} |-> a.data]
  /\ UNCHANGED <<config, clock, range, picks, memo, registered, answers>>

\* a list holds the devices registered when the backend answers (the model has no assets)
Filled(q) ==
  IF asked[q].form = "list" /\ q.of = "DEVICE"
  THEN [asked[q] EXCEPT !.keys = SubSeq(Fleet, 1, registered)] ELSE asked[q]

QueryAnswered ==
  /\ asked # <<>>
  /\ answers' = [q \in DOMAIN answers \cup DOMAIN asked |->
                   IF q \in DOMAIN asked THEN Filled(q) ELSE answers[q]]
  /\ asked' = <<>>
  /\ UNCHANGED <<config, clock, range, picks, memo, registered>>

\* The request fails: the cell says so, what the cache had stays.
QueryFails ==
  /\ asked # <<>>
  /\ asked' = <<>>
  /\ UNCHANGED <<config, clock, range, picks, memo, registered, answers>>

Register ==
  /\ registered < Len(Fleet)
  /\ registered' = registered + 1
  /\ UNCHANGED <<config, clock, range, picks, memo, asked, answers>>

PassTime ==
  /\ clock < MaxClock
  /\ clock' = clock + 1
  /\ UNCHANGED <<config, range, picks, memo, registered, asked, answers>>

CellsNext ==
  \/ \E c \in Cells : Render(c) \/ SendQuery(c)
  \/ \E w \in Ranges : w.end = clock /\ PickWindow(w)
  \/ QueryAnswered \/ QueryFails \/ Register \/ PassTime

CellsSpec == CellsInit /\ [][CellsNext]_cellVars

(***************************************************************************)
(* Properties                                                              *)
(***************************************************************************)
\* Every variable has its type; only whole answers are in the cache.
CellsTypeOK ==
  /\ config \in Boards
  /\ clock \in 0..MaxClock
  /\ range \in Ranges
  /\ picks \in 0..MaxPicks
  /\ \A c \in Cells : memo[c].ms \in 1..Spark /\ memo[c].end \in 0..clock
  /\ registered \in 1..Len(Fleet)
  /\ \A q \in DOMAIN answers :
       q.use \in {"list", "wholeList"} => Len(answers[q].keys) <= registered
  /\ Cardinality(DOMAIN asked) <= 1

\* useHistoryForEntities and useMultiKeyHistoryForEntities build the same query key when
\* the list has one key and the windows agree, and return different data for it.
OneKeyCollision(q) ==
  /\ q.use = "history" /\ Len(q.keys) = 1
  /\ {"points", "byKey"} \subseteq {a.data.form : a \in {b \in UNION {Asks(c) : c \in Cells} :
                                                           b.query = q}}

\* What a cell finds in the cache under one of its query keys is what its own query
\* function would have put there, whoever asked first (the keys of history.ts, latest.ts,
\* table.ts, fleet-positions.ts).  The one-key history above is the exception in the code.
ReadsOwnShape ==
  \A c \in Cells : \A a \in Asks(c) :
    a.query \in DOMAIN answers =>
      LET got == answers[a.query] IN
      \/ got.form = a.data.form /\ (got.form # "list" => got.keys = a.data.keys)
      \/ OneKeyCollision(a.query)

\* The windows the charts ask history for change only when the dashboard's window does:
\* renders never start a new request (the memo of each chart cell; not the sparkline).
HistorySettles ==
  Cardinality({q.window : q \in {h \in DOMAIN answers \cup DOMAIN asked :
                                   h.use \in {"history", "history-raw"} /\ h.window.ms # Spark}})
    <= picks + 1

(* Both together: what is drawn has the form the widget reads, and a       *)
(* window that stands still is asked for once.                             *)
CellsSafe == ReadsOwnShape /\ HistorySettles
=============================================================================
