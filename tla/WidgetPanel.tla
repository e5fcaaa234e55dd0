---------------------------- MODULE WidgetPanel ----------------------------
(***************************************************************************)
(* Configuring one widget of a dashboard: the panel that adds or edits it  *)
(* (AddWidgetPanel with ConfigureStep, the pickers and the field table),   *)
(* the bulk panel, and the schema the service validates every widget with  *)
(* before it saves a dashboard (backend widget-registry.ts).               *)
(*                                                                         *)
(* A configuration is a record with every field of every type; a field     *)
(* that is absent has the value it has in Blank.  "option" stands for the  *)
(* choices a type offers freely (agg, style, interpolation, severities,    *)
(* statuses, align, mode), "scoped" for the two that exist in one scope    *)
(* only (stacked, sparkline), "extra" for the fields only the API sets     *)
(* (interval, a table's scope, a comparison chart's agg).                  *)
(***************************************************************************)
EXTENDS Integers, FiniteSets

CONSTANTS Entities, PanelKeys, NoEntity, NoKey,
          KindOf,   \* the kind of each entity
          ReportedKeys   \* the telemetry keys each entity reports

EntityKinds == {"DEVICE", "ASSET"}
NoNumber == 99
Scales == {1, 2, NoNumber}       \* what may stand in Min and Max
Decimals == {2, 9, NoNumber}     \* 9: a number the schema refuses

ASSUME PanelAssumption ==
    /\ KindOf \in [Entities -> EntityKinds] /\ ReportedKeys \in [Entities -> SUBSET PanelKeys]
    /\ NoEntity \notin Entities /\ NoKey \notin PanelKeys

-----------------------------------------------------------------------------
\* WIDGET_REGISTRY of the frontend.
Pinned == {"gauge", "battery", "rssi", "calendar-heatmap", "timeseries-table",
           "multi-key-chart"}
OneKey == {"value-tile", "gauge", "battery", "rssi", "line-chart", "bar-chart",
           "calendar-heatmap", "value-map"}
ManyKeys == {"value-cards", "timeseries-table"}
Optional == {"donut", "alarms-list", "alarm-count", "map"}
Types == OneKey \cup ManyKeys \cup Optional \cup
         {"multi-key-chart", "scatter", "attributes-table", "movement-heatmap", "label"}

Needs(type) == IF type = "label" THEN "none" ELSE IF type \in Optional THEN "optional"
               ELSE "required"
TakesKey(type) == type \in OneKey \cup ManyKeys
SupportsAll(type) == type \in Types \ (Pinned \cup {"label"})
SCALE_TYPES == {"gauge", "battery", "rssi"}
HasOption(type) == type \in {"line-chart", "bar-chart", "timeseries-table", "calendar-heatmap",
                             "gauge", "donut", "scatter", "alarm-count", "label"}
BULK_WIDGET_TYPES == OneKey

BlankForm == [all |-> FALSE, entity |-> NoEntity, kind |-> "DEVICE", keys |-> {},
          x |-> NoKey, y |-> NoKey, columns |-> {}, text |-> FALSE,
          min |-> NoNumber, max |-> NoNumber, unit |-> FALSE, decimals |-> NoNumber,
          option |-> FALSE, scoped |-> FALSE, extra |-> FALSE]

-----------------------------------------------------------------------------
\* The schema: exactly one of entityId and entityScope unless the type's entity is optional.
Between(lo, n, hi) == lo <= n /\ n <= hi
Accepts(type, c) ==
    /\ Needs(type) = "required" => (c.entity # NoEntity) # c.all
    /\ type \in OneKey => Cardinality(c.keys) = 1
    /\ type \in ManyKeys => c.keys # {}
    /\ type = "multi-key-chart" => Between(2, Cardinality(c.keys), 8)
    /\ type = "scatter" => c.x # NoKey /\ c.y # NoKey
    /\ type = "label" => c.text
    /\ c.min # NoNumber /\ c.max # NoNumber => c.min < c.max
    /\ c.decimals # NoNumber => Between(0, c.decimals, 6)

\* buildConfig with buildInto: what does not apply to the type or the scope is left out.
BuildConfig(type, f) ==
    LET entity == Needs(type) # "none"
        single == entity /\ ~f.all /\ f.entity # NoEntity
        unit == TakesKey(type) /\ f.unit IN
    [all |-> entity /\ f.all,
     entity |-> IF single THEN f.entity ELSE NoEntity,
     kind |-> IF single \/ (entity /\ f.all) THEN f.kind ELSE BlankForm.kind,
     keys |-> IF TakesKey(type) THEN f.keys ELSE {},
     columns |-> IF type = "attributes-table" THEN f.columns ELSE {},
     x |-> IF type = "scatter" THEN f.x ELSE NoKey,
     y |-> IF type = "scatter" THEN f.y ELSE NoKey,
     text |-> type = "label" /\ f.text,
     min |-> IF type \in SCALE_TYPES THEN f.min ELSE NoNumber,
     max |-> IF type \in SCALE_TYPES THEN f.max ELSE NoNumber,
     unit |-> unit,
     decimals |-> IF unit THEN f.decimals ELSE NoNumber,
     option |-> HasOption(type) /\ f.option,
     scoped |-> f.scoped /\ (\/ type = "bar-chart" /\ f.all
                             \/ type = "value-tile" /\ ~f.all),
     extra |-> FALSE]

\* The form when the panel opens on a saved widget.
Seed(type, c) == [c EXCEPT !.extra = FALSE]

ScaleValid(f) == f.min = NoNumber \/ f.max = NoNumber \/ f.min < f.max
CanAdd(type, f) ==
    IF type = "label" THEN f.text
    ELSE /\ Needs(type) = "required" => f.all \/ f.entity # NoEntity
         /\ TakesKey(type) => f.keys # {}
         /\ type = "scatter" => f.x # NoKey /\ f.y # NoKey
         /\ ScaleValid(f)

-----------------------------------------------------------------------------
VARIABLES
    step,   \* "closed", "category", "gallery" or "configure"
    type,   \* the type being configured
    form,   \* the fields of the panel
    edits,  \* whether it edits a widget already placed
    kept,   \* which of "entity" (with its kind) and "keys" the form still has from the API
    placed  \* the widget the last submission put on the dashboard

panelVars == <<step, type, form, edits, kept, placed>>

NoType == "none"
Inherited == {"entity", "keys"}
NoWidget == [type |-> NoType, config |-> BlankForm, ours |-> FALSE, kept |-> {}]
Widget(t, c, ours, k) == [type |-> t, config |-> c, ours |-> ours, kept |-> k]

\* A saved widget may come from the API, where nothing compares what it reads with the fleet:
\* any entity or none, the other kind, both scopes where both are optional, any keys.
ApiConfig(e, all, kind, ks, x) ==
    [BlankForm EXCEPT !.entity = e, !.all = all, !.kind = kind, !.keys = ks, !.x = x, !.y = x,
                      !.text = TRUE, !.extra = TRUE]
ApiConfigs(t) ==
    {c \in {ApiConfig(e, all, kind, ks, x) :
              e \in Entities \cup {NoEntity}, all \in BOOLEAN, kind \in EntityKinds,
              ks \in SUBSET PanelKeys, x \in PanelKeys} : Accepts(t, c)}

PanelInit ==
    /\ step = "closed" /\ type = NoType /\ form = BlankForm /\ edits = FALSE /\ kept = {}
    /\ placed \in {NoWidget} \cup
                  UNION {{Widget(t, c, FALSE, Inherited) : c \in ApiConfigs(t)} : t \in Types}

Open ==
    /\ step = "closed"
    /\ step' = "category" /\ placed' = NoWidget
    /\ UNCHANGED <<type, form, edits, kept>>

EditWidget ==
    /\ step = "closed" /\ placed # NoWidget
    /\ step' = "configure" /\ type' = placed.type /\ edits' = TRUE
    /\ form' = Seed(placed.type, placed.config) /\ kept' = placed.kept
    /\ placed' = NoWidget

PickCategory ==
    /\ step = "category" /\ step' = "gallery"
    /\ UNCHANGED <<type, form, edits, kept, placed>>

\* pickWidgetType with resetTypeConfig.
PickType(t) ==
    /\ step = "gallery"
    /\ step' = "configure" /\ type' = t
    /\ form' = [BlankForm EXCEPT !.all = t \in Optional]
    /\ UNCHANGED <<edits, kept, placed>>

Back ==
    /\ ~edits /\ step \in {"gallery", "configure"}
    /\ step' = IF step = "configure" THEN "gallery" ELSE "category"
    /\ UNCHANGED <<type, form, edits, kept, placed>>

Clear ==
    type' = NoType /\ form' = BlankForm /\ edits' = FALSE /\ kept' = {} /\ step' = "closed"
Close == step # "closed" /\ Clear /\ UNCHANGED placed

Confirm ==
    /\ step = "configure" /\ CanAdd(type, form)
    /\ placed' = Widget(type, BuildConfig(type, form), TRUE, kept)
    /\ Clear

-----------------------------------------------------------------------------
\* The fields ConfigureStep shows for the type.
FillKeeping(f, k) == form' = f /\ kept' = k /\ UNCHANGED <<step, type, edits, placed>>
Fill(f) == FillKeeping(f, kept)
Shows(types) == step = "configure" /\ type \in types

KeysKept_always == form.keys
\* A single key never outlives the entity, kind or scope it was chosen for; a list does.
KeysKept == IF type \in OneKey THEN {} ELSE form.keys
Refill(f) == FillKeeping(f, IF type \in OneKey THEN {} ELSE kept \ {"entity"})

SetScope(all) ==
    /\ Shows({t \in Types : SupportsAll(t)})
    /\ Refill([form EXCEPT !.all = all, !.entity = NoEntity, !.keys = KeysKept])

SetKind(kind) ==
    /\ Shows(Types \ {"label"})
    /\ Refill([form EXCEPT !.kind = kind, !.entity = NoEntity, !.keys = KeysKept])

SetEntity(e) ==
    /\ Shows(Types \ {"label"}) /\ ~form.all /\ KindOf[e] = form.kind
    /\ Refill([form EXCEPT !.entity = e, !.keys = KeysKept])

\* useTelemetryKeyOptions: the keys of the entity, or of a sample of all of its kind.
KeyOptions ==
    UNION {ReportedKeys[e] : e \in {d \in Entities : IF form.all THEN KindOf[d] = form.kind
                                                ELSE d = form.entity}}

\* A list keeps what was checked for another entity: it no longer offers those keys.
SetKeys(keys) ==
    /\ Shows(OneKey \cup ManyKeys)
    /\ IF type \in OneKey THEN Cardinality(keys) = 1 /\ keys \subseteq KeyOptions
       ELSE keys \ KeyOptions = form.keys \ KeyOptions
    /\ FillKeeping([form EXCEPT !.keys = keys], kept \ {"keys"})

SetAxes(x, y) ==
    /\ Shows({"scatter"}) /\ x \in KeyOptions \cup {form.x} /\ y \in KeyOptions \cup {form.y}
    /\ Fill([form EXCEPT !.x = x, !.y = y])

SetColumns(columns) ==
    /\ Shows({"attributes-table"}) /\ columns \subseteq KeyOptions
    /\ Fill([form EXCEPT !.columns = columns])

SetScale(min, max) == Shows(SCALE_TYPES) /\ Fill([form EXCEPT !.min = min, !.max = max])
SetUnit(unit, decimals) ==
    /\ Shows({t \in Types : TakesKey(t)} \cup SCALE_TYPES)
    /\ Fill([form EXCEPT !.unit = unit, !.decimals = decimals])
SetText(text) == Shows({"label"}) /\ Fill([form EXCEPT !.text = text])
SetOption(on) == Shows({t \in Types : HasOption(t)}) /\ Fill([form EXCEPT !.option = on])
SetScoped(on) ==
    /\ Shows({IF form.all THEN "bar-chart" ELSE "value-tile"})
    /\ Fill([form EXCEPT !.scoped = on])

\* The bulk panel adds one widget per checked entity and key the entity reports.
BulkAdd(entities, keys, t) ==
    /\ step = "closed" /\ t \in BULK_WIDGET_TYPES
    /\ \E kind \in EntityKinds : \A e \in entities : KindOf[e] = kind
    /\ keys \subseteq UNION {ReportedKeys[e] : e \in entities}
    /\ \E e \in entities, k \in keys :
         /\ k \in ReportedKeys[e]
         /\ placed' = Widget(t, [BlankForm EXCEPT !.entity = e, !.kind = KindOf[e], !.keys = {k}],
                             TRUE, {})
    /\ UNCHANGED <<step, type, form, edits, kept>>

PanelNext ==
    \/ Open \/ EditWidget \/ PickCategory \/ Back \/ Close \/ Confirm
    \/ \E t \in Types : PickType(t)
    \/ \E all \in BOOLEAN : SetScope(all)
    \/ \E kind \in EntityKinds : SetKind(kind)
    \/ \E e \in Entities : SetEntity(e)
    \/ \E keys \in SUBSET PanelKeys : SetKeys(keys)
    \/ \E x, y \in PanelKeys \cup {NoKey} : SetAxes(x, y)
    \/ \E columns \in SUBSET PanelKeys : SetColumns(columns)
    \/ \E min, max \in Scales : SetScale(min, max)
    \/ \E unit \in BOOLEAN, decimals \in Decimals : SetUnit(unit, decimals)
    \/ \E text \in BOOLEAN : SetText(text)
    \/ \E on \in BOOLEAN : SetOption(on)
    \/ \E on \in BOOLEAN : SetScoped(on)
    \/ \E entities \in SUBSET Entities, keys \in SUBSET PanelKeys, t \in Types :
         BulkAdd(entities, keys, t)

PanelSpec == PanelInit /\ [][PanelNext]_panelVars

-----------------------------------------------------------------------------
Configs == [all : BOOLEAN, entity : Entities \cup {NoEntity}, kind : EntityKinds,
            keys : SUBSET PanelKeys,
            x : PanelKeys \cup {NoKey}, y : PanelKeys \cup {NoKey}, columns : SUBSET PanelKeys,
            text : BOOLEAN, min : Scales, max : Scales, unit : BOOLEAN, decimals : Decimals,
            option : BOOLEAN, scoped : BOOLEAN, extra : BOOLEAN]
PanelTypeOK ==
    /\ step \in {"closed", "category", "gallery", "configure"}
    /\ type \in Types \cup {NoType} /\ edits \in BOOLEAN
    /\ form \in Configs /\ kept \in SUBSET Inherited
    /\ placed \in [type : Types \cup {NoType}, config : Configs, ours : BOOLEAN,
                   kept : SUBSET Inherited]

\* What the panels put on a dashboard passes the validation of the save, except a comparison
\* chart, whose keys the panel neither shows nor writes, and decimals out of range
\* (AddWidgetPanel/index.tsx:207-238, backend widget-registry.ts:143-290).
PanelsAreAccepted ==
    placed.ours /\ placed.type # "multi-key-chart" /\ placed.config.decimals # 9
    => Accepts(placed.type, placed.config)

\* However the fields were chosen, changed and chosen again: a widget pinned to an entity names
\* its kind and, when it takes one key, a key the entity reports, unless the entity or the key
\* is still the one the API gave it, which nobody compared with the fleet
\* (AddWidgetPanel/index.tsx:466-480, BulkAddPanel.tsx:53-62, widget-registry.ts:79-130).
PinnedToItsOwn ==
    LET c == placed.config IN
    placed.ours /\ c.entity # NoEntity =>
        /\ "entity" \notin placed.kept => c.kind = KindOf[c.entity]
        /\ placed.type \in OneKey /\ "keys" \notin placed.kept =>
             c.keys \subseteq ReportedKeys[c.entity]

\* Opening a widget of the panel and submitting it unchanged writes the same configuration
\* (AddWidgetPanel/index.tsx:114-177, type-config-fields.ts).
EditKeepsConfig ==
    placed.ours =>
        BuildConfig(placed.type, Seed(placed.type, placed.config)) = placed.config

(* The three together: the API takes what the panel makes, the panel itself*)
(* pins no entity of another kind and no key of another entity, and an edit*)
(* alone changes nothing.                                                  *)
PanelSafe == PanelsAreAccepted /\ PinnedToItsOwn /\ EditKeepsConfig
=============================================================================
