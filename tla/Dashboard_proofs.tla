-------------------------- MODULE Dashboard_proofs --------------------------
(***************************************************************************)
(* Proofs about the widgets of a dashboard: WidgetPanel for every set of   *)
(* entities and keys, DashboardCells for every fleet, every choice of      *)
(* boards and any number of changes of the time window, and CellAlgorithms *)
(* for every sample an algorithm can be given.                             *)
(***************************************************************************)
EXTENDS WidgetPanel, DashboardCells, CellAlgorithms, Backend_proofs

(***************************************************************************)
(* WidgetPanel                                                             *)
(***************************************************************************)
\* A pinned configuration names the entity's own kind and, for one key, a key of its own, but
\* for what it still has from the API.
Pinned2Own(t, c, k) ==
  /\ c.entity # NoEntity =>
       /\ "entity" \notin k => c.kind = KindOf[c.entity]
       /\ t \in OneKey => ~ c.all
       /\ t \in OneKey /\ "keys" \notin k => c.keys \subseteq ReportedKeys[c.entity]
  /\ t \in OneKey => c.keys = {} \/ Cardinality(c.keys) = 1

\* The fields of the panel while it is configured, and any widget that can be opened in it.
PanelFieldsOK ==
  /\ step = "configure" => type \in Types /\ Pinned2Own(type, form, kept)
  /\ placed # NoWidget =>
       placed.type \in Types /\ Pinned2Own(placed.type, placed.config, placed.kept)

PanelInductive == PanelTypeOK /\ PanelFieldsOK /\ PanelSafe

LEMMA BlankIsConfig == BlankForm \in Configs
  BY DEF BlankForm, Configs, Scales, Decimals, NoNumber, EntityKinds

\* What buildConfig writes, field by field.
Single(t, f) == Needs(t) # "none" /\ ~ f.all /\ f.entity # NoEntity
Whole(t, f) == Needs(t) # "none" /\ f.all
Built(c, t, f) ==
  /\ c \in Configs
  /\ c.all = Whole(t, f)
  /\ c.entity = IF Single(t, f) THEN f.entity ELSE NoEntity
  /\ c.kind = IF Single(t, f) \/ Whole(t, f) THEN f.kind ELSE "DEVICE"
  /\ c.keys = IF TakesKey(t) THEN f.keys ELSE {}
  /\ c.x = IF t = "scatter" THEN f.x ELSE NoKey
  /\ c.y = IF t = "scatter" THEN f.y ELSE NoKey
  /\ c.columns = IF t = "attributes-table" THEN f.columns ELSE {}
  /\ c.text = (t = "label" /\ f.text)
  /\ c.min = IF t \in SCALE_TYPES THEN f.min ELSE NoNumber
  /\ c.max = IF t \in SCALE_TYPES THEN f.max ELSE NoNumber
  /\ c.unit = (TakesKey(t) /\ f.unit)
  /\ c.decimals = IF TakesKey(t) /\ f.unit THEN f.decimals ELSE NoNumber
  /\ c.option = (HasOption(t) /\ f.option)
  /\ c.scoped = (f.scoped /\ (\/ t = "bar-chart" /\ f.all
                              \/ t = "value-tile" /\ ~ f.all))
  /\ c.extra = FALSE

\* A configuration is given by its fields.
LEMMA SameConfig ==
  ASSUME NEW c \in Configs, NEW d \in Configs,
         c.all = d.all, c.entity = d.entity, c.kind = d.kind, c.keys = d.keys, c.x = d.x,
         c.y = d.y, c.columns = d.columns, c.text = d.text, c.min = d.min, c.max = d.max,
         c.unit = d.unit, c.decimals = d.decimals, c.option = d.option, c.scoped = d.scoped,
         c.extra = d.extra
  PROVE  c = d
  BY DEF Configs

LEMMA BuildFields ==
  ASSUME NEW t \in Types, NEW f \in Configs
  PROVE  Built(BuildConfig(t, f), t, f)
<1> DEFINE c == BuildConfig(t, f)
<1>1. c \in Configs
  BY DEF BuildConfig, BlankForm, Configs, Scales, Decimals, EntityKinds, NoNumber, HasOption
<1>2. /\ c.all = Whole(t, f)
      /\ c.entity = IF Single(t, f) THEN f.entity ELSE NoEntity
      /\ c.kind = IF Single(t, f) \/ Whole(t, f) THEN f.kind ELSE "DEVICE"
  BY DEF BuildConfig, BlankForm, Single, Whole
<1>3. /\ c.keys = IF TakesKey(t) THEN f.keys ELSE {}
      /\ c.x = IF t = "scatter" THEN f.x ELSE NoKey
      /\ c.y = IF t = "scatter" THEN f.y ELSE NoKey
      /\ c.columns = IF t = "attributes-table" THEN f.columns ELSE {}
  BY DEF BuildConfig, BlankForm
<1>4. /\ c.min = IF t \in SCALE_TYPES THEN f.min ELSE NoNumber
      /\ c.max = IF t \in SCALE_TYPES THEN f.max ELSE NoNumber
      /\ c.decimals = IF TakesKey(t) /\ f.unit THEN f.decimals ELSE NoNumber
  BY DEF BuildConfig, BlankForm
<1>5. c.text = (t = "label" /\ f.text) /\ c.unit = (TakesKey(t) /\ f.unit)
  BY DEF BuildConfig, BlankForm
<1>6. /\ c.option = (HasOption(t) /\ f.option) /\ c.extra = FALSE
      /\ c.scoped = (f.scoped /\ (\/ t = "bar-chart" /\ f.all
                                  \/ t = "value-tile" /\ ~ f.all))
  BY DEF BuildConfig, BlankForm
<1> HIDE DEF c
<1> QED BY <1>1, <1>2, <1>3, <1>4, <1>5, <1>6 DEF Built, c

\* Building a configuration from one that was built changes nothing.
LEMMA BuildTwice ==
  ASSUME NEW t \in Types, NEW f \in Configs
  PROVE  BuildConfig(t, Seed(t, BuildConfig(t, f))) = BuildConfig(t, f)
<1> DEFINE c == BuildConfig(t, f)
           d == BuildConfig(t, c)
<1>1. Built(c, t, f)
  BY BuildFields
<1>2. Seed(t, c) = c
  BY <1>1 DEF Seed, Built, Configs
<1>3. Built(d, t, c)
  BY <1>1, BuildFields DEF Built
<1> HIDE DEF c, d
<1>4. d.all = c.all /\ d.entity = c.entity /\ d.kind = c.kind /\ d.scoped = c.scoped
  <2>1. /\ f.all \in BOOLEAN /\ c.all \in BOOLEAN /\ d.all \in BOOLEAN
        /\ f.scoped \in BOOLEAN /\ c.scoped \in BOOLEAN /\ d.scoped \in BOOLEAN
    BY <1>1, <1>3 DEF Built, Configs
  <2>2. Whole(t, c) <=> Whole(t, f)
    BY <1>1, <2>1 DEF Built, Whole
  <2>3. Single(t, c) <=> Single(t, f)
    BY <1>1, <2>1 DEF Built, Whole, Single
  <2>4. d.all = c.all /\ d.entity = c.entity /\ d.kind = c.kind
    BY <1>1, <1>3, <2>1, <2>2, <2>3 DEF Built
  <2>5. d.scoped = c.scoped
    <3>1. t \in {"bar-chart", "value-tile"} => Needs(t) # "none"
      BY DEF Needs, Optional
    <3>2. t \in {"bar-chart", "value-tile"} => c.all = f.all
      BY <1>1, <2>1, <3>1 DEF Built, Whole
    <3> QED BY <1>1, <1>3, <2>1, <3>2 DEF Built
  <2> QED BY <2>4, <2>5
<1>5. /\ d.keys = c.keys /\ d.x = c.x /\ d.y = c.y /\ d.columns = c.columns /\ d.text = c.text
      /\ d.min = c.min /\ d.max = c.max /\ d.unit = c.unit /\ d.decimals = c.decimals
      /\ d.option = c.option /\ d.extra = c.extra
  BY <1>1, <1>3 DEF Built
<1>6. d = c
  BY <1>1, <1>3, <1>4, <1>5, SameConfig DEF Built
<1> QED BY <1>2, <1>6 DEF c, d

\* What the panel submits passes the validation of the save.
LEMMA BuildAccepted ==
  ASSUME NEW t \in Types, NEW f \in Configs, NEW k, Pinned2Own(t, f, k), CanAdd(t, f),
         t # "multi-key-chart", BuildConfig(t, f).decimals # 9
  PROVE  Accepts(t, BuildConfig(t, f))
<1> DEFINE c == BuildConfig(t, f)
<1>0. Built(c, t, f) /\ c.decimals # 9
  BY BuildFields
<1> HIDE DEF c
<1>1. Needs(t) = "required" => (c.entity # NoEntity) # c.all
  BY <1>0 DEF CanAdd, Needs, Configs, Built, Single, Whole
<1>2. t \in OneKey => Cardinality(c.keys) = 1
  BY <1>0 DEF CanAdd, TakesKey, Pinned2Own, OneKey, Built
<1>3. t \in ManyKeys => c.keys # {}
  BY <1>0 DEF CanAdd, TakesKey, ManyKeys, Built
<1>4. t = "scatter" => c.x # NoKey /\ c.y # NoKey
  BY <1>0 DEF CanAdd, Built
<1>5. t = "label" => c.text
  BY <1>0 DEF CanAdd, Built
<1>6. c.min # NoNumber /\ c.max # NoNumber => c.min < c.max
  BY <1>0 DEF CanAdd, ScaleValid, SCALE_TYPES, Built
<1>7. c.decimals # NoNumber => Between(0, c.decimals, 6)
  <2>1. c.decimals \in Decimals /\ c.decimals # 9
    BY <1>0 DEF Configs, Built
  <2> QED BY <2>1 DEF Decimals, Between
<1> QED BY <1>1, <1>2, <1>3, <1>4, <1>5, <1>6, <1>7 DEF Accepts, c

LEMMA BuildPinned ==
  ASSUME NEW t \in Types, NEW f \in Configs, NEW k, Pinned2Own(t, f, k)
  PROVE  Pinned2Own(t, BuildConfig(t, f), k)
  BY BuildFields DEF Pinned2Own, TakesKey, Built, Single, Whole

LEMMA ApiConfigsFit ==
  ASSUME NEW t \in Types, NEW c \in ApiConfigs(t)
  PROVE  c \in Configs /\ Pinned2Own(t, c, Inherited)
<1>1. PICK e \in Entities \cup {NoEntity}, all \in BOOLEAN, k \in EntityKinds,
           ks \in SUBSET PanelKeys, x \in PanelKeys :
        c = ApiConfig(e, all, k, ks, x) /\ Accepts(t, c)
  BY DEF ApiConfigs
<1>2. c \in Configs
  <2> DEFINE b == [BlankForm EXCEPT !.entity = e, !.all = all, !.kind = k, !.keys = ks]
  <2>1. b \in Configs
    BY BlankIsConfig DEF Configs
  <2>2. c = [b EXCEPT !.x = x, !.y = x, !.text = TRUE, !.extra = TRUE]
    BY <1>1 DEF ApiConfig
  <2> HIDE DEF b
  <2> QED BY <2>1, <2>2 DEF Configs
<1>3. t \in OneKey => Needs(t) = "required"
  BY DEF Needs, OneKey, Optional
<1>4. t \in OneKey /\ c.entity # NoEntity => ~ c.all
  BY <1>1, <1>2, <1>3 DEF Accepts, Configs
<1>5. t \in OneKey => Cardinality(c.keys) = 1
  BY <1>1 DEF Accepts
<1> QED BY <1>2, <1>4, <1>5 DEF Pinned2Own, Inherited

\* Steps that touch the fields of a panel that is configured, and nothing else.
LEMMA FillStep ==
  ASSUME PanelInductive, step = "configure", NEW f \in Configs, NEW k \in SUBSET Inherited,
         Pinned2Own(type, f, k), FillKeeping(f, k)
  PROVE  PanelInductive'
<1>1. PanelTypeOK'
  BY DEF PanelInductive, PanelTypeOK, FillKeeping
<1>2. PanelFieldsOK'
  BY DEF PanelInductive, PanelFieldsOK, FillKeeping, Pinned2Own
<1>3. PanelSafe'
  BY DEF PanelInductive, PanelSafe, PanelsAreAccepted, PinnedToItsOwn, EditKeepsConfig, FillKeeping
<1> QED BY <1>1, <1>2, <1>3 DEF PanelInductive

\* Steps that change neither the fields that count nor what was placed.
LEMMA MoveStep ==
  ASSUME PanelInductive, PanelTypeOK', placed' = placed \/ placed' = NoWidget,
         step' = "configure" => type' \in Types /\ Pinned2Own(type', form', kept')
  PROVE  PanelInductive'
<1>1. PanelFieldsOK'
  BY DEF PanelInductive, PanelFieldsOK, Pinned2Own
<1>2. PanelSafe'
  <2>1. CASE placed' = placed
    BY <2>1 DEF PanelInductive, PanelSafe, PanelsAreAccepted, PinnedToItsOwn, EditKeepsConfig
  <2>2. CASE placed' = NoWidget
    <3>1. ~ placed'.ours
      BY <2>2 DEF NoWidget
    <3> QED BY <3>1 DEF PanelSafe, PanelsAreAccepted, PinnedToItsOwn, EditKeepsConfig
  <2> QED BY <2>1, <2>2
<1> QED BY <1>1, <1>2 DEF PanelInductive

\* Steps that put a widget of the panel on the dashboard.
LEMMA PlaceStep ==
  ASSUME NEW t \in Types, NEW f \in Configs, NEW k, Pinned2Own(t, f, k),
         LET c == BuildConfig(t, f) IN
         /\ t # "multi-key-chart" /\ c.decimals # 9 => Accepts(t, c)
         /\ placed' = Widget(t, c, TRUE, k),
         PanelTypeOK', step' # "configure"
  PROVE  PanelInductive'
<1> DEFINE c == BuildConfig(t, f)
<1>1. c \in Configs /\ Pinned2Own(t, c, k) /\ BuildConfig(t, Seed(t, c)) = c
  BY BuildFields, BuildPinned, BuildTwice DEF Built
<1>2. placed'.type = t /\ placed'.config = c /\ placed'.ours /\ placed'.kept = k
  BY DEF Widget
<1> HIDE DEF c
<1>3. PanelFieldsOK'
  BY <1>1, <1>2 DEF PanelFieldsOK, Pinned2Own
<1>4. PanelsAreAccepted'
  BY <1>2 DEF PanelsAreAccepted, Accepts, c
<1>5. PinnedToItsOwn'
  BY <1>1, <1>2 DEF PinnedToItsOwn, Pinned2Own
<1>6. EditKeepsConfig'
  BY <1>1, <1>2 DEF EditKeepsConfig
<1> QED BY <1>3, <1>4, <1>5, <1>6 DEF PanelInductive, PanelSafe

LEMMA PanelInitInv ==
  ASSUME PanelInit
  PROVE  PanelInductive
<1>1. /\ step = "closed" /\ type = NoType /\ form = BlankForm /\ edits = FALSE
      /\ ~ placed.ours /\ placed.type \in Types \cup {NoType} /\ placed.config \in Configs
      /\ placed # NoWidget =>
           placed.type \in Types /\ Pinned2Own(placed.type, placed.config, placed.kept)
      /\ placed \in [type : Types \cup {NoType}, config : Configs, ours : BOOLEAN,
                    kept : SUBSET Inherited]
      /\ kept = {}
  <2>1. CASE placed = NoWidget
    BY <2>1, BlankIsConfig DEF PanelInit, NoWidget
  <2>2. CASE placed # NoWidget
    <3>1. PICK t \in Types : \E c \in ApiConfigs(t) : placed = Widget(t, c, FALSE, Inherited)
      BY <2>2 DEF PanelInit
    <3>2. PICK c \in ApiConfigs(t) : placed = Widget(t, c, FALSE, Inherited)
      BY <3>1
    <3>3. c \in Configs /\ Pinned2Own(t, c, Inherited)
      BY ApiConfigsFit
    <3>4. placed = [type |-> t, config |-> c, ours |-> FALSE, kept |-> Inherited]
      BY <3>2 DEF Widget
    <3> QED BY <3>3, <3>4 DEF PanelInit
  <2> QED BY <2>1, <2>2
<1>2. PanelTypeOK
  BY <1>1, BlankIsConfig DEF PanelTypeOK
<1>3. PanelFieldsOK
  BY <1>1 DEF PanelFieldsOK
<1>4. PanelSafe
  BY <1>1 DEF PanelSafe, PanelsAreAccepted, PinnedToItsOwn, EditKeepsConfig
<1> QED BY <1>2, <1>3, <1>4 DEF PanelInductive

LEMMA PanelOpens ==
  ASSUME PanelInductive, Open \/ EditWidget \/ PickCategory \/ Back \/ Close
  PROVE  PanelInductive'
<1>1. PanelTypeOK /\ PanelFieldsOK
  BY DEF PanelInductive
<1>2. NoWidget \in [type : Types \cup {NoType}, config : Configs, ours : BOOLEAN,
                     kept : SUBSET Inherited]
  BY BlankIsConfig DEF NoWidget
<1>3. CASE Open
  <2>1. PanelTypeOK' /\ placed' = NoWidget /\ step' # "configure"
    BY <1>1, <1>2, <1>3 DEF Open, PanelTypeOK
  <2> QED BY <2>1, MoveStep
<1>4. CASE EditWidget
  <2>1. placed.type \in Types /\ Pinned2Own(placed.type, placed.config, placed.kept)
    BY <1>1, <1>4 DEF EditWidget, PanelFieldsOK
  <2>2. placed.config \in Configs
    BY <1>1 DEF PanelTypeOK
  <2>3. form' \in Configs /\ Pinned2Own(type', form', kept')
    BY <2>1, <2>2, <1>4 DEF EditWidget, Seed, Configs, Pinned2Own
  <2>4. PanelTypeOK' /\ placed' = NoWidget /\ type' \in Types
    BY <1>1, <1>2, <1>4, <2>1, <2>3 DEF EditWidget, PanelTypeOK
  <2> QED BY <2>3, <2>4, MoveStep
<1>5. CASE PickCategory
  <2>1. PanelTypeOK' /\ placed' = placed /\ step' # "configure"
    BY <1>1, <1>5 DEF PickCategory, PanelTypeOK
  <2> QED BY <2>1, MoveStep
<1>6. CASE Back
  <2>1. PanelTypeOK' /\ placed' = placed /\ step' # "configure"
    BY <1>1, <1>6 DEF Back, PanelTypeOK
  <2> QED BY <2>1, MoveStep
<1>7. CASE Close
  <2>1. PanelTypeOK' /\ placed' = placed /\ step' # "configure"
    BY <1>1, <1>7, BlankIsConfig DEF Close, Clear, PanelTypeOK
  <2> QED BY <2>1, MoveStep
<1> QED BY <1>3, <1>4, <1>5, <1>6, <1>7

LEMMA PickTypeInv ==
  ASSUME PanelInductive, NEW t \in Types, PickType(t)
  PROVE  PanelInductive'
<1>1. form' \in Configs
  <2> DEFINE all == t \in Optional
  <2>1. form' = [BlankForm EXCEPT !.all = all] /\ all \in BOOLEAN
    BY DEF PickType
  <2> HIDE DEF all
  <2> QED BY <2>1, BlankIsConfig DEF Configs
<1>2. PanelTypeOK' /\ placed' = placed /\ type' = t
  BY <1>1 DEF PickType, PanelInductive, PanelTypeOK
<1>3. form'.entity = NoEntity /\ form'.keys = {}
  BY DEF PickType, BlankForm
<1> QED BY <1>2, <1>3, MoveStep DEF Pinned2Own

LEMMA ConfirmInv ==
  ASSUME PanelInductive, Confirm
  PROVE  PanelInductive'
<1>1. type \in Types /\ form \in Configs /\ Pinned2Own(type, form, kept) /\ CanAdd(type, form)
  BY DEF PanelInductive, PanelTypeOK, PanelFieldsOK, Confirm
<1> DEFINE c == BuildConfig(type, form)
<1>2. c \in Configs
  BY <1>1, BuildFields DEF Built
<1>3. type # "multi-key-chart" /\ c.decimals # 9 => Accepts(type, c)
  BY <1>1, BuildAccepted
<1>4. placed' = Widget(type, c, TRUE, kept) /\ step' = "closed"
  BY DEF Confirm, Clear
<1>5. PanelTypeOK'
  <2>1. placed' = [type |-> type, config |-> c, ours |-> TRUE, kept |-> kept]
    BY <1>4 DEF Widget
  <2> HIDE DEF c
  <2>2. placed' \in [type : Types \cup {NoType}, config : Configs, ours : BOOLEAN,
                     kept : SUBSET Inherited]
    BY <1>1, <1>2, <2>1 DEF PanelInductive, PanelTypeOK
  <2> QED BY <2>2, BlankIsConfig DEF Confirm, Clear, PanelTypeOK
<1> QED BY <1>1, <1>3, <1>4, <1>5, PlaceStep

\* A widget of the bulk panel is what buildConfig would make of it.
LEMMA BulkAddInv ==
  ASSUME PanelInductive, NEW entities \in SUBSET Entities, NEW keys \in SUBSET PanelKeys,
         NEW t \in Types, BulkAdd(entities, keys, t)
  PROVE  PanelInductive'
<1>1. PICK e \in entities, k \in keys :
        /\ k \in ReportedKeys[e]
        /\ placed' = Widget(t, [BlankForm EXCEPT !.entity = e, !.kind = KindOf[e],
                                                 !.keys = {k}], TRUE, {})
  BY DEF BulkAdd
<1> DEFINE c == [BlankForm EXCEPT !.entity = e, !.kind = KindOf[e], !.keys = {k}]
<1>2. KindOf[e] \in EntityKinds
  BY PanelAssumption
<1>3. c \in Configs
  BY <1>2, BlankIsConfig DEF Configs
<1>4. c.entity = e /\ c.kind = KindOf[e] /\ c.keys = {k} /\ c.all = FALSE
  BY DEF BlankForm
<1>5. /\ c.x = NoKey /\ c.y = NoKey /\ c.columns = {} /\ c.text = FALSE /\ c.unit = FALSE
      /\ c.min = NoNumber /\ c.max = NoNumber /\ c.decimals = NoNumber
      /\ c.option = FALSE /\ c.scoped = FALSE /\ c.extra = FALSE
  BY DEF BlankForm
<1> HIDE DEF c
<1>6. t \in OneKey /\ step' = "closed"
  BY DEF BulkAdd, BULK_WIDGET_TYPES
<1>7. Cardinality({k}) = 1
  BY FS_Singleton
<1>8. Pinned2Own(t, c, {})
  BY <1>1, <1>4, <1>7 DEF Pinned2Own
<1>9. BuildConfig(t, c) = c
  <2> DEFINE d == BuildConfig(t, c)
  <2>1. Built(d, t, c)
    BY <1>3, BuildFields
  <2>2. ~ Whole(t, c) /\ Single(t, c) /\ TakesKey(t)
    BY <1>4, <1>6, PanelAssumption DEF Whole, Single, TakesKey, Needs, OneKey, Optional
  <2> HIDE DEF d
  <2>3. d.all = c.all
    <3>1. d.all = Whole(t, c) /\ c.all = FALSE
      BY <1>4, <2>1 DEF Built
    <3>2. Whole(t, c) = FALSE
      BY <1>4 DEF Whole
    <3> QED BY <3>1, <3>2
  <2>4. /\ d.entity = c.entity /\ d.kind = c.kind /\ d.keys = c.keys
        /\ d.x = c.x /\ d.y = c.y /\ d.columns = c.columns /\ d.min = c.min /\ d.max = c.max
        /\ d.decimals = c.decimals
    BY <1>4, <1>5, <2>1, <2>2 DEF Built
  <2>5. /\ d.text = c.text /\ d.unit = c.unit /\ d.option = c.option /\ d.scoped = c.scoped
        /\ d.extra = c.extra
    BY <1>5, <2>1 DEF Built
  <2> QED BY <1>3, <2>1, <2>3, <2>4, <2>5, SameConfig DEF Built, d
<1>10. Accepts(t, c)
  <2>1. t # "label" /\ t # "scatter" /\ t \notin ManyKeys /\ t # "multi-key-chart"
    BY <1>6 DEF OneKey, ManyKeys
  <2>2. c.entity # NoEntity
    BY <1>4, PanelAssumption
  <2> QED BY <1>4, <1>5, <1>7, <2>1, <2>2 DEF Accepts
<1>11. PanelTypeOK'
  BY <1>1, <1>3 DEF BulkAdd, PanelInductive, PanelTypeOK, Widget, c
<1> QED BY <1>1, <1>3, <1>6, <1>8, <1>9, <1>10, <1>11, PlaceStep DEF c

\* The fields that choose what the widget reads.
LEMMA ChooseInv ==
  ASSUME PanelInductive,
         \/ \E all \in BOOLEAN : SetScope(all)
         \/ \E k \in EntityKinds : SetKind(k)
         \/ \E e \in Entities : SetEntity(e)
         \/ \E keys \in SUBSET PanelKeys : SetKeys(keys)
  PROVE  PanelInductive'
<1>0. kept \in SUBSET Inherited
  BY DEF PanelInductive, PanelTypeOK
<1>1. form \in Configs /\ (step = "configure" => type \in Types /\ Pinned2Own(type, form, kept))
  BY DEF PanelInductive, PanelTypeOK, PanelFieldsOK
<1>2. KeysKept \in SUBSET PanelKeys /\ (type \in OneKey => KeysKept = {})
  BY <1>1 DEF KeysKept, Configs
<1>3. ASSUME NEW all \in BOOLEAN, SetScope(all) PROVE PanelInductive'
  <2> DEFINE f == [form EXCEPT !.all = all, !.entity = NoEntity, !.keys = KeysKept]
         k2 == IF type \in OneKey THEN {} ELSE kept \ {"entity"}
  <2>1. f \in Configs
    BY <1>1, <1>2 DEF Configs
  <2>2. f.entity = NoEntity /\ f.keys = KeysKept
    BY <1>1 DEF Configs
  <2>3. step = "configure" /\ FillKeeping(f, k2)
    BY <1>3 DEF SetScope, Shows, Refill
  <2>5. k2 \in SUBSET Inherited /\ "entity" \notin k2
    BY <1>0
  <2> HIDE DEF f, k2
  <2>4. Pinned2Own(type, f, k2)
    BY <1>2, <2>2 DEF Pinned2Own
  <2> QED BY <2>1, <2>3, <2>4, <2>5, FillStep
<1>4. ASSUME NEW k \in EntityKinds, SetKind(k) PROVE PanelInductive'
  <2> DEFINE f == [form EXCEPT !.kind = k, !.entity = NoEntity, !.keys = KeysKept]
         k2 == IF type \in OneKey THEN {} ELSE kept \ {"entity"}
  <2>1. f \in Configs
    BY <1>1, <1>2 DEF Configs
  <2>2. f.entity = NoEntity /\ f.keys = KeysKept
    BY <1>1 DEF Configs
  <2>3. step = "configure" /\ FillKeeping(f, k2)
    BY <1>4 DEF SetKind, Shows, Refill
  <2>5. k2 \in SUBSET Inherited /\ "entity" \notin k2
    BY <1>0
  <2> HIDE DEF f, k2
  <2>4. Pinned2Own(type, f, k2)
    BY <1>2, <2>2 DEF Pinned2Own
  <2> QED BY <2>1, <2>3, <2>4, <2>5, FillStep
<1>5. ASSUME NEW e \in Entities, SetEntity(e) PROVE PanelInductive'
  <2> DEFINE f == [form EXCEPT !.entity = e, !.keys = KeysKept]
         k2 == IF type \in OneKey THEN {} ELSE kept \ {"entity"}
  <2>1. f \in Configs
    BY <1>1, <1>2 DEF Configs
  <2>2. f.entity = e /\ f.keys = KeysKept /\ f.kind = form.kind /\ f.all = form.all
    BY <1>1 DEF Configs
  <2>3. step = "configure" /\ FillKeeping(f, k2) /\ ~ form.all /\ KindOf[e] = form.kind
    BY <1>5 DEF SetEntity, Shows, Refill
  <2>5. k2 \in SUBSET Inherited /\ "entity" \notin k2
    BY <1>0
  <2> HIDE DEF f, k2
  <2>4. Pinned2Own(type, f, k2)
    BY <1>2, <2>2, <2>3 DEF Pinned2Own
  <2> QED BY <2>1, <2>3, <2>4, <2>5, FillStep
<1>6. ASSUME NEW keys \in SUBSET PanelKeys, SetKeys(keys) PROVE PanelInductive'
  <2> DEFINE f == [form EXCEPT !.keys = keys]
  <2>1. f \in Configs
    BY <1>1 DEF Configs
  <2>2. f.entity = form.entity /\ f.keys = keys /\ f.kind = form.kind /\ f.all = form.all
    BY <1>1 DEF Configs
  <2>3. step = "configure" /\ FillKeeping(f, kept \ {"keys"})
    BY <1>6 DEF SetKeys, Shows
  <2>4. type \in OneKey => Cardinality(keys) = 1 /\ keys \subseteq KeyOptions
    BY <1>6 DEF SetKeys
  <2>5. form.entity # NoEntity =>
          /\ type \in OneKey => ~ form.all
          /\ "entity" \notin kept => form.kind = KindOf[form.entity]
    BY <1>1, <2>3 DEF Pinned2Own
  <2>6. form.entity # NoEntity /\ type \in OneKey => KeyOptions = ReportedKeys[form.entity]
    <3> SUFFICES ASSUME form.entity # NoEntity, type \in OneKey
                 PROVE  KeyOptions = ReportedKeys[form.entity]
      OBVIOUS
    <3>1. form.entity \in Entities /\ ~ form.all
      BY <1>1, <2>5 DEF Configs
    <3>2. {d \in Entities : IF form.all THEN KindOf[d] = form.kind ELSE d = form.entity}
            = {form.entity}
      BY <3>1
    <3>3. KeyOptions = UNION {ReportedKeys[e] : e \in {form.entity}}
      BY <3>2 DEF KeyOptions
    <3> QED BY <3>3
  <2> HIDE DEF f
  <2>7. Pinned2Own(type, f, kept \ {"keys"})
    BY <2>2, <2>4, <2>5, <2>6 DEF Pinned2Own
  <2> QED BY <1>0, <2>1, <2>3, <2>7, FillStep
<1> QED BY <1>3, <1>4, <1>5, <1>6

\* A step that leaves alone what the widget reads.
LEMMA StyleStep ==
  ASSUME PanelInductive, step = "configure", NEW f, Fill(f), form \in Configs => f \in Configs,
         f.entity = form.entity, f.keys = form.keys, f.kind = form.kind, f.all = form.all
  PROVE  PanelInductive'
<1>1. f \in Configs /\ Pinned2Own(type, form, kept) /\ kept \in SUBSET Inherited
  BY DEF PanelInductive, PanelTypeOK, PanelFieldsOK
<1>2. Pinned2Own(type, f, kept)
  BY <1>1 DEF Pinned2Own
<1> QED BY <1>1, <1>2, FillStep DEF Fill

\* The fields that decide how it is drawn.
LEMMA StyleInv ==
  ASSUME PanelInductive,
         \/ \E x, y \in PanelKeys \cup {NoKey} : SetAxes(x, y)
         \/ \E columns \in SUBSET PanelKeys : SetColumns(columns)
         \/ \E min, max \in Scales : SetScale(min, max)
         \/ \E unit \in BOOLEAN, decimals \in Decimals : SetUnit(unit, decimals)
         \/ \E text \in BOOLEAN : SetText(text)
         \/ \E on \in BOOLEAN : SetOption(on)
         \/ \E on \in BOOLEAN : SetScoped(on)
  PROVE  PanelInductive'
<1>1. form \in Configs
  BY DEF PanelInductive, PanelTypeOK
<1>2. ASSUME NEW x \in PanelKeys \cup {NoKey}, NEW y \in PanelKeys \cup {NoKey}, SetAxes(x, y)
      PROVE  PanelInductive'
  <2> DEFINE f == [form EXCEPT !.x = x, !.y = y]
  <2>1. /\ f \in Configs
        /\ f.entity = form.entity /\ f.keys = form.keys /\ f.kind = form.kind /\ f.all = form.all
    BY <1>1 DEF Configs
  <2>2. step = "configure" /\ Fill(f)
    BY <1>2 DEF SetAxes, Shows
  <2> HIDE DEF f
  <2> QED BY <2>1, <2>2, StyleStep
<1>3. ASSUME NEW columns \in SUBSET PanelKeys, SetColumns(columns)
      PROVE  PanelInductive'
  <2> DEFINE f == [form EXCEPT !.columns = columns]
  <2>1. /\ f \in Configs
        /\ f.entity = form.entity /\ f.keys = form.keys /\ f.kind = form.kind /\ f.all = form.all
    BY <1>1 DEF Configs
  <2>2. step = "configure" /\ Fill(f)
    BY <1>3 DEF SetColumns, Shows
  <2> HIDE DEF f
  <2> QED BY <2>1, <2>2, StyleStep
<1>4. ASSUME NEW min \in Scales, NEW max \in Scales, SetScale(min, max)
      PROVE  PanelInductive'
  <2> DEFINE f == [form EXCEPT !.min = min, !.max = max]
  <2>1. /\ f \in Configs
        /\ f.entity = form.entity /\ f.keys = form.keys /\ f.kind = form.kind /\ f.all = form.all
    BY <1>1 DEF Configs
  <2>2. step = "configure" /\ Fill(f)
    BY <1>4 DEF SetScale, Shows
  <2> HIDE DEF f
  <2> QED BY <2>1, <2>2, StyleStep
<1>5. ASSUME NEW unit \in BOOLEAN, NEW decimals \in Decimals, SetUnit(unit, decimals)
      PROVE  PanelInductive'
  <2> DEFINE f == [form EXCEPT !.unit = unit, !.decimals = decimals]
  <2>1. /\ f \in Configs
        /\ f.entity = form.entity /\ f.keys = form.keys /\ f.kind = form.kind /\ f.all = form.all
    BY <1>1 DEF Configs
  <2>2. step = "configure" /\ Fill(f)
    BY <1>5 DEF SetUnit, Shows
  <2> HIDE DEF f
  <2> QED BY <2>1, <2>2, StyleStep
<1>6. ASSUME NEW text \in BOOLEAN, SetText(text)
      PROVE  PanelInductive'
  <2> DEFINE f == [form EXCEPT !.text = text]
  <2>1. /\ f \in Configs
        /\ f.entity = form.entity /\ f.keys = form.keys /\ f.kind = form.kind /\ f.all = form.all
    BY <1>1 DEF Configs
  <2>2. step = "configure" /\ Fill(f)
    BY <1>6 DEF SetText, Shows
  <2> HIDE DEF f
  <2> QED BY <2>1, <2>2, StyleStep
<1>7. ASSUME NEW on \in BOOLEAN, SetOption(on)
      PROVE  PanelInductive'
  <2> DEFINE f == [form EXCEPT !.option = on]
  <2>1. /\ f \in Configs
        /\ f.entity = form.entity /\ f.keys = form.keys /\ f.kind = form.kind /\ f.all = form.all
    BY <1>1 DEF Configs
  <2>2. step = "configure" /\ Fill(f)
    BY <1>7 DEF SetOption, Shows
  <2> HIDE DEF f
  <2> QED BY <2>1, <2>2, StyleStep
<1>8. ASSUME NEW on \in BOOLEAN, SetScoped(on)
      PROVE  PanelInductive'
  <2> DEFINE f == [form EXCEPT !.scoped = on]
  <2>1. /\ f \in Configs
        /\ f.entity = form.entity /\ f.keys = form.keys /\ f.kind = form.kind /\ f.all = form.all
    BY <1>1 DEF Configs
  <2>2. step = "configure" /\ Fill(f)
    BY <1>8 DEF SetScoped, Shows
  <2> HIDE DEF f
  <2> QED BY <2>1, <2>2, StyleStep
<1> QED BY <1>2, <1>3, <1>4, <1>5, <1>6, <1>7, <1>8

LEMMA PanelStepInv ==
  ASSUME PanelInductive, [PanelNext]_panelVars
  PROVE  PanelInductive'
<1>1. CASE UNCHANGED panelVars
  BY <1>1 DEF panelVars, PanelInductive, PanelTypeOK, PanelFieldsOK, Pinned2Own, PanelSafe,
              PanelsAreAccepted, PinnedToItsOwn, EditKeepsConfig
<1>2. CASE PanelNext
  <2>1. CASE Open \/ EditWidget \/ PickCategory \/ Back \/ Close
    BY <2>1, PanelOpens
  <2>2. CASE Confirm
    BY <2>2, ConfirmInv
  <2>3. CASE \E t \in Types : PickType(t)
    BY <2>3, PickTypeInv
  <2>4. CASE \E entities \in SUBSET Entities, keys \in SUBSET PanelKeys, t \in Types :
               BulkAdd(entities, keys, t)
    BY <2>4, BulkAddInv
  <2>5. CASE \/ \E all \in BOOLEAN : SetScope(all)
             \/ \E k \in EntityKinds : SetKind(k)
             \/ \E e \in Entities : SetEntity(e)
             \/ \E keys \in SUBSET PanelKeys : SetKeys(keys)
    BY <2>5, ChooseInv
  <2>6. CASE \/ \E x, y \in PanelKeys \cup {NoKey} : SetAxes(x, y)
             \/ \E columns \in SUBSET PanelKeys : SetColumns(columns)
             \/ \E min, max \in Scales : SetScale(min, max)
             \/ \E unit \in BOOLEAN, decimals \in Decimals : SetUnit(unit, decimals)
             \/ \E text \in BOOLEAN : SetText(text)
             \/ \E on \in BOOLEAN : SetOption(on)
             \/ \E on \in BOOLEAN : SetScoped(on)
    BY <2>6, StyleInv
  <2> QED BY <1>2, <2>1, <2>2, <2>3, <2>4, <2>5, <2>6 DEF PanelNext
<1> QED BY <1>1, <1>2

\* Every configuration the panels make has the fields of the type it is of, and those fields
\* their types (AddWidgetPanel/index.tsx, widget-registry.ts).
THEOREM PanelTypeInvariant == PanelSpec => []PanelTypeOK
<1>1. PanelInductive => PanelTypeOK
  BY DEF PanelInductive
<1> QED BY <1>1, PanelInitInv, PanelStepInv, PTL DEF PanelSpec

\* The API accepts what the panels make, a pinned widget reads its own entity, and an edit
\* that changes nothing keeps the configuration, for every set of entities and keys
\* (AddWidgetPanel/index.tsx:207-238, :466-480, widget-registry.ts:143-290).
THEOREM PanelsAreSafe == PanelSpec => []PanelSafe
<1>1. PanelInductive => PanelSafe
  BY DEF PanelInductive
<1> QED BY <1>1, PanelInitInv, PanelStepInv, PTL DEF PanelSpec

(***************************************************************************)
(* DashboardCells                                                          *)
(***************************************************************************)
\* A sparkline has a window of its own length; all other cells have resolved the same one.
MemosAgree ==
  /\ memo \in [Cells -> [ms : 1..Spark, end : 0..clock]]
  /\ \A c \in Cells : HasSpark(c) <=> memo[c].ms = Spark
  /\ \A c, d \in Cells : ~ HasSpark(c) /\ ~ HasSpark(d) => memo[c] = memo[d]

\* A history that is asked for or cached was asked for by a cell that still reads it.
HistoryReads == {"points", "dayPoints", "byKey", "raw"}
AskedBy(c, r, q, x) ==
  /\ q.of \in OnScreen(c)
  /\ q.keys = config[c].keys
  /\ q.use = IF r = "raw" THEN "history-raw" ELSE "history"
  /\ q.bucket = IF r = "raw" THEN "none" ELSE IF r = "dayPoints" THEN "day" ELSE "auto"
  /\ x.form = IF r \in {"raw", "byKey"} THEN r ELSE "points"
  /\ x.keys = q.keys
  /\ HasSpark(c) <=> q.window.ms = Spark
HistoryAsked(q, x) ==
  \E c \in Cells : \E r \in Reads(c) \cap HistoryReads : AskedBy(c, r, q, x)

\* Every other key determines what a query function returns for it.
Histories == {"history", "history-raw"}
Lists == {"list", "wholeList"}
Returned(q, x) ==
  /\ q = Query(q.use, q.of, q.keys, q.window, q.bucket)
  /\ q.use \in Lists \cup Histories \cup {"entity", "alarms", "latest", "attributes"}
  /\ q.use \in Lists => x.form = "list"
  /\ q.use \in {"entity", "alarms"} => x.form = q.use /\ x.keys = <<>>
  /\ q.use = "latest" => x.form = "latest" /\ x.keys = q.keys
  /\ q.use = "attributes" =>
       /\ x.form = IF q.keys = <<>> THEN "attributes" ELSE "oneScope"
       /\ x.keys = q.keys
  /\ q.use \in Histories => HistoryAsked(q, x)

\* What is under way, and what came back; a list of devices is a prefix of the fleet.
RequestsAreKnown ==
  /\ \A q \in DOMAIN asked :
       /\ Returned(q, asked[q])
       /\ asked[q] = [form |-> asked[q].form, keys |-> asked[q].keys]
       /\ asked[q].form = "list" => asked[q].keys = <<>>
  /\ \A q \in DOMAIN answers :
       /\ Returned(q, answers[q])
       /\ q.use \in Lists => \E n \in 0..registered :
            /\ answers[q].keys = SubSeq(Fleet, 1, n)
            /\ q.of # "DEVICE" => n = 0

\* The windows histories were asked for, with the one a chart would ask for now.
AskedWindows ==
  {q.window : q \in {h \in DOMAIN answers \cup DOMAIN asked :
                       h.use \in {"history", "history-raw"} /\ h.window.ms # Spark}}
LiveWindows == {memo[c] : c \in {d \in Cells : ~ HasSpark(d)}}
WindowsAreCounted ==
  /\ IsFiniteSet(AskedWindows \cup LiveWindows)
  /\ Cardinality(AskedWindows \cup LiveWindows) <= picks + 1

CellsInductive == CellsTypeOK /\ MemosAgree /\ RequestsAreKnown /\ WindowsAreCounted

-----------------------------------------------------------------------------
(* What a cell asks for *)

LEMMA QueryFields ==
  ASSUME NEW use, NEW of, NEW keys, NEW window, NEW bucket
  PROVE  LET q == Query(use, of, keys, window, bucket) IN
         /\ q.use = use /\ q.of = of /\ q.keys = keys /\ q.window = window
         /\ q.bucket = bucket
         /\ q = Query(q.use, q.of, q.keys, q.window, q.bucket)
  BY DEF Query

\* The history queries of a cell.
LEMMA HistoryAsks ==
  ASSUME MemosAgree, NEW c \in Cells, NEW r \in Reads(c) \cap HistoryReads,
         NEW d \in OnScreen(c)
  PROVE  LET a == Ask(c, r, d) IN
         /\ AskedBy(c, r, a.query, a.data)
         /\ a.query = Query(a.query.use, d, config[c].keys, memo[c], a.query.bucket)
         /\ a.data = [form |-> a.data.form, keys |-> a.data.keys]
<1> DEFINE a == Ask(c, r, d)
           bucket == IF r = "raw" THEN "none" ELSE IF r = "dayPoints" THEN "day" ELSE "auto"
           use == IF r = "raw" THEN "history-raw" ELSE "history"
           shape == IF r \in {"raw", "byKey"} THEN r ELSE "points"
<1>1. a.query = Query(use, d, config[c].keys, memo[c], bucket)
  BY DEF Ask, HistoryReads
<1>2. a.data = [form |-> shape, keys |-> config[c].keys]
  BY DEF Ask, HistoryReads
<1>3. HasSpark(c) <=> memo[c].ms = Spark
  BY DEF MemosAgree
<1> HIDE DEF a
<1>4. AskedBy(c, r, a.query, a.data)
  BY <1>1, <1>2, <1>3, QueryFields DEF AskedBy
<1>5. a.query = Query(a.query.use, d, config[c].keys, memo[c], a.query.bucket)
  BY <1>1, QueryFields
<1>6. a.data = [form |-> a.data.form, keys |-> a.data.keys]
  BY <1>2
<1> QED BY <1>4, <1>5, <1>6 DEF a

\* Every request of a cell returns what its key stands for.
LEMMA AsksReturn ==
  ASSUME MemosAgree, NEW c \in Cells, NEW a \in Asks(c)
  PROVE  /\ Returned(a.query, a.data)
         /\ a.data = [form |-> a.data.form, keys |-> a.data.keys]
         /\ a.query.use \in Histories => a.query.window = memo[c]
         /\ a.data.form = "list" => a.data.keys = <<>>
<1>1. CASE a \in AlarmAsks(c)
  <2>1. PICK of : /\ a.query = Plain("alarms", of)
                  /\ a.data = [form |-> "alarms", keys |-> <<>>]
    BY <1>1 DEF AlarmAsks
  <2>2. a.query = Query("alarms", of, <<>>, NoWindow, "none")
    BY <2>1 DEF Plain
  <2> QED BY <2>1, <2>2, QueryFields DEF Returned, Lists, Histories
<1>2. CASE a \in EntityAsks(c)
  <2> DEFINE Plainly(use, of, shape) ==
               /\ a.query = Plain(use, of) /\ a.data = [form |-> shape, keys |-> <<>>]
  <2>5. \/ \E of : Plainly("list", of, "list") \/ Plainly("wholeList", of, "list")
        \/ Plainly("entity", config[c].id, "entity")
    BY <1>2 DEF EntityAsks, EntityQuery
  <2>1. PICK use, of, shape :
          /\ use \in {"list", "wholeList", "entity"}
          /\ shape = IF use = "entity" THEN "entity" ELSE "list"
          /\ Plainly(use, of, shape)
    <3> HIDE DEF Plainly
    <3> QED BY <2>5
  <2>2. a.query = Query(use, of, <<>>, NoWindow, "none")
    BY <2>1 DEF Plain
  <2>3. /\ a.query = Query(a.query.use, a.query.of, a.query.keys, a.query.window,
                           a.query.bucket)
        /\ a.query.use = use
    BY <2>2, QueryFields
  <2>4. /\ a.data.form = shape
        /\ a.data.keys = <<>> /\ a.data = [form |-> a.data.form, keys |-> a.data.keys]
    BY <2>1
  <2> QED BY <2>1, <2>3, <2>4 DEF Returned, Lists, Histories
<1>3. ASSUME NEW r \in Reads(c), NEW d \in OnScreen(c), a = Ask(c, r, d)
      PROVE  /\ Returned(a.query, a.data)
             /\ a.data = [form |-> a.data.form, keys |-> a.data.keys]
             /\ a.query.use \in Histories => a.query.window = memo[c]
             /\ a.data.form = "list" => a.data.keys = <<>>
  <2>1. r \in HistoryReads \cup {"latest", "allLatest", "attributes", "active"}
    BY DEF Reads, HistoryReads
  <2>2. CASE r \in HistoryReads
    <3>1. /\ AskedBy(c, r, a.query, a.data)
          /\ a.query = Query(a.query.use, d, config[c].keys, memo[c], a.query.bucket)
          /\ a.data = [form |-> a.data.form, keys |-> a.data.keys]
      BY <1>3, <2>2, HistoryAsks
    <3>2. HistoryAsked(a.query, a.data)
      BY <2>2, <3>1 DEF HistoryAsked
    <3>3. a.query.use \in Histories /\ a.query.window = memo[c] /\ a.data.form # "list"
      BY <2>2, <3>1, QueryFields DEF AskedBy, Histories, HistoryReads
    <3>4. a.query = Query(a.query.use, a.query.of, a.query.keys, a.query.window, a.query.bucket)
      BY <3>1, QueryFields
    <3> QED BY <3>1, <3>2, <3>3, <3>4 DEF Returned, Lists, Histories
  <2>3. CASE r = "latest"
    <3>1. /\ a.query = Query("latest", d, config[c].keys, NoWindow, "none")
          /\ a.data = [form |-> "latest", keys |-> config[c].keys]
      BY <1>3, <2>3 DEF Ask, LatestQuery
    <3> QED BY <3>1, QueryFields DEF Returned, Lists, Histories
  <2>4. CASE r = "allLatest"
    <3>1. /\ a.query = Query("latest", d, <<>>, NoWindow, "none")
          /\ a.data = [form |-> "latest", keys |-> <<>>]
      BY <1>3, <2>4 DEF Ask
    <3> QED BY <3>1, QueryFields DEF Returned, Lists, Histories
  <2>5. CASE r = "active"
    <3> DEFINE one == <<"active">>
    <3>1. /\ a.query = Query("attributes", d, one, NoWindow, "none")
          /\ a.data = [form |-> "oneScope", keys |-> one]
      BY <1>3, <2>5 DEF Ask, ActiveQuery
    <3>2. one # <<>>
      OBVIOUS
    <3> HIDE DEF one
    <3>3. /\ a.query = Query(a.query.use, a.query.of, a.query.keys, a.query.window,
                             a.query.bucket)
          /\ a.query.use = "attributes" /\ a.query.keys = one
      BY <3>1, QueryFields
    <3>4. /\ a.data.form = "oneScope" /\ a.data.keys = one
          /\ a.data = [form |-> a.data.form, keys |-> a.data.keys]
      BY <3>1
    <3> QED BY <3>2, <3>3, <3>4 DEF Returned, Lists, Histories
  <2>6. CASE r = "attributes"
    <3>1. /\ a.query = Query("attributes", d, <<>>, NoWindow, "none")
          /\ a.data = [form |-> "attributes", keys |-> <<>>]
      BY <1>3, <2>6 DEF Ask, Plain
    <3> QED BY <3>1, QueryFields DEF Returned, Lists, Histories
  <2> QED BY <2>1, <2>2, <2>3, <2>4, <2>5, <2>6
<1> QED BY <1>1, <1>2, <1>3 DEF Asks

\* What a cell finds in the cache is what it would have put there, or the key is the one two
\* of its neighbours' hooks share.
LEMMA ShapesAreOwn ==
  ASSUME CellsTypeOK, MemosAgree, RequestsAreKnown
  PROVE  ReadsOwnShape
<1> SUFFICES ASSUME NEW c \in Cells, NEW a \in Asks(c), a.query \in DOMAIN answers
             PROVE  LET got == answers[a.query] IN
                    \/ got.form = a.data.form /\ (got.form # "list" => got.keys = a.data.keys)
                    \/ OneKeyCollision(a.query)
  BY DEF ReadsOwnShape
<1> DEFINE q == a.query
           got == answers[q]
<1>1. Returned(q, a.data) /\ Returned(q, got)
  BY AsksReturn DEF RequestsAreKnown
<1>2. CASE q.use \notin Histories
  BY <1>1, <1>2 DEF Returned, Lists, Histories
<1>3. CASE q.use \in Histories
  <2>1. /\ q = Query(q.use, q.of, q.keys, q.window, q.bucket)
        /\ q.window = memo[c] /\ HistoryAsked(q, got) /\ HistoryAsked(q, a.data)
    BY <1>1, <1>3, AsksReturn DEF Returned
  <2>2. PICK c1 \in Cells : \E r \in Reads(c1) \cap HistoryReads : AskedBy(c1, r, q, got)
    BY <2>1 DEF HistoryAsked
  <2>3. PICK r1 \in Reads(c1) \cap HistoryReads : AskedBy(c1, r1, q, got)
    BY <2>2
  <2>4. PICK c2 \in Cells : \E r \in Reads(c2) \cap HistoryReads : AskedBy(c2, r, q, a.data)
    BY <2>1 DEF HistoryAsked
  <2>5. PICK r2 \in Reads(c2) \cap HistoryReads : AskedBy(c2, r2, q, a.data)
    BY <2>4
  <2>6. got.keys = a.data.keys
    BY <2>3, <2>5 DEF AskedBy
  <2>7. CASE got.form = a.data.form
    BY <2>6, <2>7
  <2>8. CASE got.form # a.data.form
    \* one read the points and the other one the keys of an automatic bucket
    <3>1. /\ q.use = "history" /\ q.bucket = "auto"
          /\ {r1, r2} = {"points", "byKey"}
          /\ got.form = r1 /\ a.data.form = r2
      BY <2>3, <2>5, <2>8 DEF AskedBy, HistoryReads
    <3>2. /\ HasSpark(c1) <=> q.window.ms = Spark
          /\ HasSpark(c2) <=> q.window.ms = Spark
          /\ HasSpark(c) <=> q.window.ms = Spark
      BY <2>1, <2>3, <2>5 DEF AskedBy, MemosAgree
    <3>3. ASSUME NEW e \in Cells, "byKey" \in Reads(e) PROVE ~ HasSpark(e)
      BY <3>3 DEF Reads, HasSpark
    <3>4. ~ HasSpark(c) /\ ~ HasSpark(c1) /\ ~ HasSpark(c2)
      BY <2>3, <2>5, <3>1, <3>2, <3>3
    <3>5. memo[c1] = q.window /\ memo[c2] = q.window
      BY <2>1, <3>4 DEF MemosAgree
    <3>6. ASSUME NEW e \in Cells, NEW r \in Reads(e) \cap HistoryReads, NEW x,
                 AskedBy(e, r, q, x), r \in {"points", "byKey"}, memo[e] = q.window
          PROVE  r \in {b.data.form : b \in {b \in UNION {Asks(f) : f \in Cells} : b.query = q}}
      <4> DEFINE b == Ask(e, r, q.of)
      <4>1. q.of \in OnScreen(e)
        BY <3>6 DEF AskedBy
      <4>2. /\ AskedBy(e, r, b.query, b.data)
            /\ b.query = Query(b.query.use, q.of, config[e].keys, memo[e], b.query.bucket)
        BY <4>1, HistoryAsks
      <4>3. b \in Asks(e)
        BY <4>1 DEF Asks
      <4> HIDE DEF b
      <4>4. b.query.use = q.use /\ b.query.bucket = q.bucket /\ config[e].keys = q.keys
        BY <4>2, <3>6 DEF AskedBy
      <4>5. b.query = q
        BY <2>1, <3>6, <4>2, <4>4
      <4>6. b.data.form = r
        BY <3>6, <4>2 DEF AskedBy
      <4> QED BY <4>3, <4>5, <4>6
    <3>7. {"points", "byKey"} \subseteq
            {b.data.form : b \in {b \in UNION {Asks(f) : f \in Cells} : b.query = q}}
      BY <2>3, <2>5, <3>1, <3>5, <3>6
    <3>8. ASSUME NEW e \in Cells, "points" \in Reads(e), ~ HasSpark(e)
          PROVE  Len(config[e].keys) = 1
      <4>1. config[e].type \in {"line-chart", "bar-chart"}
        BY <3>8 DEF Reads
      <4>2. config \in Boards
        BY DEF CellsTypeOK
      <4> QED BY <4>1, <4>2, CellsAssumption
    <3>9. Len(q.keys) = 1
      BY <2>3, <2>5, <3>1, <3>4, <3>8 DEF AskedBy
    <3> QED BY <3>1, <3>7, <3>9 DEF OneKeyCollision
  <2> QED BY <2>7, <2>8
<1> QED BY <1>2, <1>3

-----------------------------------------------------------------------------
(* What is on the screen only grows *)

LEMMA FleetPrefix ==
  ASSUME NEW n \in 0..Len(Fleet)
  PROVE  /\ Len(SubSeq(Fleet, 1, n)) = n
         /\ \A i \in 1..n : SubSeq(Fleet, 1, n)[i] = Fleet[i]
<1>1. Fleet \in Seq({Fleet[i] : i \in 1..Len(Fleet)}) /\ Len(Fleet) \in Nat
  BY CellsAssumption
<1> QED BY <1>1, SubSeqProperties

LEMMA CapIsNat ==
  ASSUME NEW c \in Cells
  PROVE  Cap(c) \in Nat
<1>1. Len(Fleet) \in Nat
  BY CellsAssumption
<1> QED BY <1>1, CellsAssumption DEF Cap

\* The devices a cell shows of a list.
LEMMA FirstDevices ==
  ASSUME NEW n \in 0..Len(Fleet), NEW k \in Nat
  PROVE  LET s == SubSeq(Fleet, 1, n) IN
         {s[i] : i \in 1..(IF Len(s) < k THEN Len(s) ELSE k)}
           = {Fleet[i] : i \in 1..(IF n < k THEN n ELSE k)}
<1> DEFINE s == SubSeq(Fleet, 1, n)
           m == IF n < k THEN n ELSE k
<1>1. Len(s) = n /\ \A i \in 1..n : s[i] = Fleet[i]
  BY FleetPrefix
<1>2. m \in 0..n
  OBVIOUS
<1>3. (IF Len(s) < k THEN Len(s) ELSE k) = m
  BY <1>1
<1> HIDE DEF s, m
<1>4. {s[i] : i \in 1..m} = {Fleet[i] : i \in 1..m}
  BY <1>1, <1>2
<1> QED BY <1>3, <1>4 DEF s, m

LEMMA NothingOnScreen ==
  ASSUME NEW c \in Cells, Resolved(c) = <<>>
  PROVE  OnScreen(c) = {}
<1>1. (IF 0 < Cap(c) THEN 0 ELSE Cap(c)) = 0
  BY CapIsNat
<1> QED BY <1>1 DEF OnScreen

LEMMA AnsweredLists ==
  ASSUME CellsTypeOK, RequestsAreKnown, QueryAnswered
  PROVE  /\ DOMAIN answers \subseteq DOMAIN answers'
         /\ registered' = registered /\ config' = config
         /\ \A q \in DOMAIN answers' : q.use \in Lists => \E n \in 0..registered :
              /\ answers'[q].keys = SubSeq(Fleet, 1, n)
              /\ q.of # "DEVICE" => n = 0
              /\ q.of = "DEVICE" /\ q \in DOMAIN asked => n = registered
              /\ q \notin DOMAIN asked => q \in DOMAIN answers /\ answers'[q] = answers[q]
<1>1. /\ answers' = [q \in DOMAIN answers \cup DOMAIN asked |->
                       IF q \in DOMAIN asked THEN Filled(q) ELSE answers[q]]
      /\ registered' = registered /\ config' = config
  BY DEF QueryAnswered
<1>2. registered \in Nat
  BY CellsAssumption DEF CellsTypeOK
<1>3. ASSUME NEW q \in DOMAIN answers', q.use \in Lists
      PROVE  \E n \in 0..registered :
              /\ answers'[q].keys = SubSeq(Fleet, 1, n)
              /\ q.of # "DEVICE" => n = 0
              /\ q.of = "DEVICE" /\ q \in DOMAIN asked => n = registered
              /\ q \notin DOMAIN asked => q \in DOMAIN answers /\ answers'[q] = answers[q]
  <2>1. CASE q \in DOMAIN asked
    <3>1. /\ answers'[q] = Filled(q) /\ asked[q].form = "list" /\ asked[q].keys = <<>>
          /\ asked[q] = [form |-> asked[q].form, keys |-> asked[q].keys]
      BY <1>1, <1>3, <2>1 DEF RequestsAreKnown, Returned
    <3>2. CASE q.of = "DEVICE"
      <4>1. answers'[q] = [asked[q] EXCEPT !.keys = SubSeq(Fleet, 1, registered)]
        BY <3>1, <3>2 DEF Filled
      <4>2. answers'[q].keys = SubSeq(Fleet, 1, registered)
        BY <3>1, <4>1
      <4> QED BY <1>2, <2>1, <3>2, <4>2
    <3>3. CASE q.of # "DEVICE"
      <4>1. answers'[q].keys = <<>>
        BY <3>1, <3>3 DEF Filled
      <4>2. SubSeq(Fleet, 1, 0) = <<>>
        BY CellsAssumption, SubSeqProperties
      <4> QED BY <1>2, <2>1, <3>3, <4>1, <4>2
    <3> QED BY <3>2, <3>3
  <2>2. CASE q \notin DOMAIN asked
    BY <1>1, <1>3, <2>2 DEF RequestsAreKnown
  <2> QED BY <2>1, <2>2
<1> QED BY <1>1, <1>3

LEMMA ScreenGrows ==
  ASSUME CellsTypeOK, RequestsAreKnown, QueryAnswered, NEW c \in Cells
  PROVE  OnScreen(c) \subseteq OnScreen(c)'
<1>1. /\ DOMAIN answers \subseteq DOMAIN answers' /\ config' = config
      /\ registered \in 0..Len(Fleet)
  BY AnsweredLists DEF CellsTypeOK
<1>2. CASE ~ config[c].all
  <2>1. Resolved(c) = Resolved(c)' \/ Resolved(c) = <<>>
    BY <1>1, <1>2 DEF Resolved, EntityQuery
  <2>2. CASE Resolved(c) = <<>>
    BY <2>2, NothingOnScreen
  <2> QED BY <1>1, <2>1, <2>2 DEF OnScreen, Cap
<1>3. CASE config[c].all
  <2> DEFINE L == List(c)
  <2>1. L.use \in Lists /\ L.of = "DEVICE" /\ List(c)' = L /\ Cap(c)' = Cap(c)
    BY <1>1 DEF List, Plain, Query, Lists, Cap
  <2>2. CASE L \notin DOMAIN answers
    <3>1. Resolved(c) = <<>>
      BY <1>3, <2>2 DEF Resolved
    <3> QED BY <3>1, NothingOnScreen
  <2>3. CASE L \in DOMAIN answers
    <3>1. Cap(c) \in Nat
      BY CapIsNat
    <3>2. PICK n \in 0..registered : answers[L].keys = SubSeq(Fleet, 1, n)
      BY <2>1, <2>3 DEF RequestsAreKnown
    <3>3. PICK m \in 0..registered :
            /\ answers'[L].keys = SubSeq(Fleet, 1, m)
            /\ L \in DOMAIN asked => m = registered
            /\ L \notin DOMAIN asked => answers'[L] = answers[L]
      BY <1>1, <2>1, <2>3, AnsweredLists
    <3>4. n \in 0..Len(Fleet) /\ m \in 0..Len(Fleet)
      BY <1>1
    <3>5. n <= m
      <4>1. CASE L \in DOMAIN asked
        BY <3>3, <4>1
      <4>2. CASE L \notin DOMAIN asked
        BY <3>2, <3>3, <3>4, <4>2, FleetPrefix
      <4> QED BY <4>1, <4>2
    <3>6. OnScreen(c) = {Fleet[i] : i \in 1..(IF n < Cap(c) THEN n ELSE Cap(c))}
      <4>1. Resolved(c) = SubSeq(Fleet, 1, n)
        BY <1>3, <2>3, <3>2 DEF Resolved
      <4> QED BY <3>4, <3>1, <4>1, FirstDevices DEF OnScreen
    <3>7. Resolved(c)' = SubSeq(Fleet, 1, m)
      BY <1>1, <1>3, <2>1, <2>3, <3>3 DEF Resolved
    <3>8. OnScreen(c)' = {Fleet[i] : i \in 1..(IF m < Cap(c) THEN m ELSE Cap(c))}
      <4> DEFINE s == SubSeq(Fleet, 1, m)
      <4>1. {s[i] : i \in 1..(IF Len(s) < Cap(c) THEN Len(s) ELSE Cap(c))}
              = {Fleet[i] : i \in 1..(IF m < Cap(c) THEN m ELSE Cap(c))}
        BY <3>1, <3>4, FirstDevices
      <4>2. Resolved(c)' = s /\ Cap(c)' = Cap(c)
        BY <2>1, <3>7
      <4> HIDE DEF s
      <4>3. OnScreen(c)' = {s[i] : i \in 1..(IF Len(s) < Cap(c) THEN Len(s) ELSE Cap(c))}
        BY <4>2 DEF OnScreen
      <4> QED BY <4>1, <4>3
    <3> QED BY <3>4, <3>5, <3>6, <3>8, <3>1
  <2> QED BY <2>2, <2>3
<1> QED BY <1>2, <1>3

LEMMA ReturnedKept ==
  ASSUME config' = config, \A c \in Cells : OnScreen(c) \subseteq OnScreen(c)',
         NEW q, NEW x, Returned(q, x)
  PROVE  Returned(q, x)'
<1>1. ASSUME HistoryAsked(q, x) PROVE HistoryAsked(q, x)'
  <2>1. PICK c \in Cells : \E r \in Reads(c) \cap HistoryReads : AskedBy(c, r, q, x)
    BY <1>1 DEF HistoryAsked
  <2>2. PICK r \in Reads(c) \cap HistoryReads : AskedBy(c, r, q, x)
    BY <2>1
  <2>3. r \in Reads(c)' /\ HasSpark(c)' = HasSpark(c)
    BY DEF Reads, HasSpark
  <2>4. AskedBy(c, r, q, x)'
    BY <2>2, <2>3 DEF AskedBy
  <2> QED BY <2>2, <2>3, <2>4 DEF HistoryAsked
<1> QED BY <1>1 DEF Returned


\* What a step leaves of the requests and of the answers stays known.
LEMMA StillAsked ==
  ASSUME RequestsAreKnown, config' = config, \A c \in Cells : OnScreen(c) \subseteq OnScreen(c)',
         NEW q \in DOMAIN asked, asked'[q] = asked[q]
  PROVE  /\ Returned(q, asked[q])'
         /\ asked'[q] = [form |-> asked'[q].form, keys |-> asked'[q].keys]
         /\ asked'[q].form = "list" => asked'[q].keys = <<>>
<1>1. PICK x : x = asked[q]
  OBVIOUS
<1>2. Returned(q, x)
  BY <1>1 DEF RequestsAreKnown
<1>3. Returned(q, x)'
  BY <1>2, ReturnedKept
<1>4. asked'[q] = x
  BY <1>1
<1>5. Returned(q, asked[q])'
  BY <1>3, <1>4 DEF Returned, HistoryAsked, AskedBy
<1> QED BY <1>5 DEF RequestsAreKnown

LEMMA StillAnswered ==
  ASSUME RequestsAreKnown, config' = config, \A c \in Cells : OnScreen(c) \subseteq OnScreen(c)',
         registered \in Nat, registered' \in Nat, registered <= registered',
         NEW q \in DOMAIN answers, answers'[q] = answers[q]
  PROVE  /\ Returned(q, answers[q])'
         /\ q.use \in Lists => \E n \in 0..registered' :
              /\ answers'[q].keys = SubSeq(Fleet, 1, n)
              /\ q.of # "DEVICE" => n = 0
<1>1. PICK x : x = answers[q]
  OBVIOUS
<1>2. Returned(q, x)
  BY <1>1 DEF RequestsAreKnown
<1>3. Returned(q, x)'
  BY <1>2, ReturnedKept
<1>4. answers'[q] = x
  BY <1>1
<1>5. Returned(q, answers[q])'
  BY <1>3, <1>4 DEF Returned, HistoryAsked, AskedBy
<1>6. ASSUME q.use \in Lists
      PROVE  \E n \in 0..registered' :
              /\ answers'[q].keys = SubSeq(Fleet, 1, n)
              /\ q.of # "DEVICE" => n = 0
  <2>1. PICK n \in 0..registered :
          answers[q].keys = SubSeq(Fleet, 1, n) /\ (q.of # "DEVICE" => n = 0)
    BY <1>6 DEF RequestsAreKnown
  <2>2. n \in 0..registered'
    OBVIOUS
  <2> QED BY <2>1, <2>2
<1> QED BY <1>5, <1>6

\* A step that starts no request and takes no answer.
LEMMA NothingNewIsKnown ==
  ASSUME CellsTypeOK, RequestsAreKnown, config' = config, answers' = answers,
         registered' \in Nat, registered <= registered', DOMAIN asked' \subseteq DOMAIN asked,
         \A q \in DOMAIN asked' : asked'[q] = asked[q]
  PROVE  RequestsAreKnown'
<1>1. registered \in Nat
  BY CellsAssumption DEF CellsTypeOK
<1>2. \A c \in Cells : OnScreen(c) \subseteq OnScreen(c)'
  BY DEF OnScreen, Resolved, List, EntityQuery, Cap
<1>3. ASSUME NEW q \in DOMAIN asked'
      PROVE  /\ Returned(q, asked[q])'
             /\ asked'[q] = [form |-> asked'[q].form, keys |-> asked'[q].keys]
             /\ asked'[q].form = "list" => asked'[q].keys = <<>>
  BY <1>2, StillAsked
<1>4. ASSUME NEW q \in DOMAIN answers'
      PROVE  /\ Returned(q, answers[q])'
             /\ q.use \in Lists => \E n \in 0..registered' :
                  /\ answers'[q].keys = SubSeq(Fleet, 1, n)
                  /\ q.of # "DEVICE" => n = 0
  BY <1>1, <1>2, StillAnswered
<1> QED BY <1>3, <1>4 DEF RequestsAreKnown

LEMMA SendIsKnown ==
  ASSUME CellsTypeOK, MemosAgree, RequestsAreKnown, NEW c \in Cells, SendQuery(c)
  PROVE  RequestsAreKnown'
<1>1. registered \in Nat /\ registered' = registered /\ config' = config /\ answers' = answers
  BY CellsAssumption DEF CellsTypeOK, SendQuery
<1>2. \A d \in Cells : OnScreen(d) \subseteq OnScreen(d)'
  BY <1>1 DEF OnScreen, Resolved, List, EntityQuery, Cap
<1>3. PICK a \in Asks(c) : asked' = [q \in {a.query} |-> a.data]
  BY DEF SendQuery
<1>4. /\ Returned(a.query, a.data)
      /\ a.data = [form |-> a.data.form, keys |-> a.data.keys]
      /\ a.data.form = "list" => a.data.keys = <<>>
  BY AsksReturn
<1>5. PICK k, x : k = a.query /\ x = a.data
  OBVIOUS
<1>6. Returned(k, x)'
  BY <1>1, <1>2, <1>4, <1>5, ReturnedKept
<1>7. DOMAIN asked' = {k} /\ asked'[k] = x
  BY <1>3, <1>5
<1>8. Returned(k, asked[k])'
  BY <1>6, <1>7 DEF Returned, HistoryAsked, AskedBy
<1>9. ASSUME NEW q \in DOMAIN asked'
      PROVE  /\ Returned(q, asked[q])'
             /\ asked'[q] = [form |-> asked'[q].form, keys |-> asked'[q].keys]
             /\ asked'[q].form = "list" => asked'[q].keys = <<>>
  <2>1. q = k
    BY <1>7
  <2>2. Returned(q, asked[q])'
    BY <1>8, <2>1 DEF Returned, HistoryAsked, AskedBy
  <2> QED BY <1>4, <1>5, <1>7, <2>1, <2>2
<1>10. ASSUME NEW q \in DOMAIN answers'
       PROVE  /\ Returned(q, answers[q])'
              /\ q.use \in Lists => \E n \in 0..registered' :
                   /\ answers'[q].keys = SubSeq(Fleet, 1, n)
                   /\ q.of # "DEVICE" => n = 0
  BY <1>1, <1>2, StillAnswered
<1> QED BY <1>9, <1>10 DEF RequestsAreKnown

\* Only lists are filled in when they arrive.
LEMMA OnlyListsAreFilled ==
  ASSUME RequestsAreKnown, NEW q \in DOMAIN asked
  PROVE  /\ Returned(q, Filled(q))
         /\ q.use \notin Lists => Filled(q) = asked[q]
<1>1. /\ Returned(q, asked[q])
      /\ asked[q] = [form |-> asked[q].form, keys |-> asked[q].keys]
  BY DEF RequestsAreKnown
<1>2. q.use \in Histories => asked[q].form # "list"
  BY <1>1 DEF Returned, HistoryAsked, AskedBy, HistoryReads
<1>3. q.use \notin Lists => asked[q].form # "list"
  BY <1>1, <1>2 DEF Returned, Lists, Histories
<1>4. CASE q.use \notin Lists
  BY <1>1, <1>3, <1>4 DEF Filled
<1>5. CASE q.use \in Lists
  <2>1. Filled(q).form = "list"
    BY <1>1, <1>5 DEF Filled, Returned
  <2> QED BY <1>1, <1>5, <2>1 DEF Returned, Lists, Histories
<1> QED BY <1>4, <1>5

LEMMA AnswerIsKnown ==
  ASSUME CellsTypeOK, RequestsAreKnown, QueryAnswered
  PROVE  RequestsAreKnown'
<1>1. /\ registered' = registered /\ config' = config /\ asked' = <<>>
      /\ answers' = [q \in DOMAIN answers \cup DOMAIN asked |->
                       IF q \in DOMAIN asked THEN Filled(q) ELSE answers[q]]
  BY DEF QueryAnswered
<1>2. \A d \in Cells : OnScreen(d) \subseteq OnScreen(d)'
  BY ScreenGrows
<1>3. DOMAIN asked' = {}
  BY <1>1
<1>4. ASSUME NEW q \in DOMAIN answers'
      PROVE  Returned(q, answers[q])'
  <2>1. PICK x : x = IF q \in DOMAIN asked THEN Filled(q) ELSE answers[q]
    OBVIOUS
  <2>2. Returned(q, x)
    <3>1. CASE q \in DOMAIN asked
      BY <2>1, <3>1, OnlyListsAreFilled
    <3>2. CASE q \notin DOMAIN asked
      BY <1>1, <2>1, <3>2 DEF RequestsAreKnown
    <3> QED BY <3>1, <3>2
  <2>3. Returned(q, x)'
    BY <1>1, <1>2, <2>2, ReturnedKept
  <2>4. answers'[q] = x
    BY <1>1, <2>1
  <2> QED BY <2>3, <2>4 DEF Returned, HistoryAsked, AskedBy
<1>5. ASSUME NEW q \in DOMAIN answers', q.use \in Lists
      PROVE  \E n \in 0..registered' :
               /\ answers'[q].keys = SubSeq(Fleet, 1, n)
               /\ q.of # "DEVICE" => n = 0
  BY <1>1, <1>5, AnsweredLists
<1> QED BY <1>3, <1>4, <1>5 DEF RequestsAreKnown

-----------------------------------------------------------------------------
(* The windows *)

\* Which cells carry a sparkline is settled when the board is opened.
LEMMA SparksStay ==
  ASSUME config' = config, NEW c \in Cells
  PROVE  HasSpark(c)' = HasSpark(c)
BY DEF HasSpark

\* A window resolved now.
LEMMA WindowOfNow ==
  ASSUME NEW w \in Ranges, NEW n \in 0..MaxClock, w.end \in 0..n
  PROVE  LET r == [ms |-> w.ms, end |-> IF w.kind = "FIXED" THEN w.end ELSE n] IN
         r \in [ms : 1..Spark, end : 0..n] /\ r.ms # Spark
<1>1. w.ms \in {1, 2}
  BY DEF Ranges
<1>2. MaxClock \in Nat
  BY CellsAssumption
<1> QED BY <1>1, <1>2 DEF Spark

LEMMA MemosInit ==
  ASSUME CellsInit PROVE MemosAgree
<1>1. /\ clock = 0 /\ 0 \in 0..MaxClock /\ range \in Ranges /\ range.end \in 0..0
      /\ memo = [c \in Cells |-> IF HasSpark(c) THEN [ms |-> Spark, end |-> clock]
                                 ELSE Resolve(range)]
  BY CellsAssumption DEF CellsInit, Ranges
<1>2. Resolve(range) \in [ms : 1..Spark, end : 0..clock] /\ Resolve(range).ms # Spark
  BY <1>1, WindowOfNow DEF Resolve
<1>3. [ms |-> Spark, end |-> clock] \in [ms : 1..Spark, end : 0..clock]
  BY <1>1 DEF Spark
<1>4. [ms |-> Spark, end |-> clock].ms = Spark
  OBVIOUS
<1> QED BY <1>1, <1>2, <1>3, <1>4 DEF MemosAgree

LEMMA MemosStep ==
  ASSUME CellsTypeOK, MemosAgree, CellsNext PROVE MemosAgree'
<1> DEFINE W(n) == [ms : 1..Spark, end : 0..n]
<1>1. clock \in 0..MaxClock /\ MaxClock \in Nat /\ clock \in Nat
  BY CellsAssumption DEF CellsTypeOK
<1>2. config' = config
  BY DEF CellsNext, Render, SendQuery, PickWindow, QueryAnswered, QueryFails, Register, PassTime
<1>3. \A c \in Cells : HasSpark(c)' = HasSpark(c)
  BY <1>2, SparksStay
<1>4. ASSUME NEW c \in Cells, Render(c) PROVE MemosAgree'
  <2>1. memo' = [memo EXCEPT ![c] = Rendered(c)] /\ clock' = clock
    BY <1>4 DEF Render
  <2>2. Rendered(c) \in W(clock) /\ (HasSpark(c) <=> Rendered(c).ms = Spark)
        /\ (~ HasSpark(c) => Rendered(c) = memo[c])
    <3>1. [ms |-> Spark, end |-> clock] \in W(clock)
      BY <1>1 DEF Spark
    <3>2. [ms |-> Spark, end |-> clock].ms = Spark
      OBVIOUS
    <3> QED BY <3>1, <3>2 DEF Rendered, MemosAgree
  <2>3. memo \in [Cells -> W(clock)]
    BY DEF MemosAgree
  <2>4. memo' \in [Cells -> W(clock)] /\ memo'[c] = Rendered(c)
        /\ \A d \in Cells : d # c => memo'[d] = memo[d]
    BY <2>1, <2>2, <2>3
  <2> QED BY <1>3, <2>1, <2>2, <2>4 DEF MemosAgree
<1>5. ASSUME NEW w \in Ranges, w.end = clock, PickWindow(w) PROVE MemosAgree'
  <2> DEFINE r == [ms |-> w.ms, end |-> IF w.kind = "FIXED" THEN w.end ELSE clock]
  <2>1. /\ clock' = clock
        /\ memo' = [c \in Cells |-> IF HasSpark(c) THEN memo[c] ELSE r]
    BY <1>5 DEF PickWindow
  <2>2. r \in W(clock) /\ r.ms # Spark
    BY <1>1, <1>5, WindowOfNow
  <2> HIDE DEF r
  <2>3. memo' \in [Cells -> W(clock)]
    BY <2>1, <2>2 DEF MemosAgree
  <2> QED BY <1>3, <2>1, <2>2, <2>3 DEF MemosAgree
<1>6. ASSUME memo' = memo, clock' = clock \/ clock' = clock + 1 PROVE MemosAgree'
  <2>1. W(clock) \subseteq W(clock')
    BY <1>1, <1>6
  <2>2. memo' \in [Cells -> W(clock')]
    BY <1>6, <2>1 DEF MemosAgree
  <2> QED BY <1>3, <1>6, <2>2 DEF MemosAgree
<1> QED BY <1>4, <1>5, <1>6
        DEF CellsNext, SendQuery, QueryAnswered, QueryFails, Register, PassTime

LEMMA FewerWindows ==
  ASSUME NEW S, IsFiniteSet(S), NEW n \in Nat, Cardinality(S) <= n, NEW T \in SUBSET S
  PROVE  IsFiniteSet(T) /\ Cardinality(T) <= n
<1>1. IsFiniteSet(T) /\ Cardinality(T) <= Cardinality(S)
  BY FS_Subset
<1>2. Cardinality(S) \in Nat /\ Cardinality(T) \in Nat
  BY <1>1, FS_CardinalityType
<1> QED BY <1>1, <1>2

\* A step after which only windows already counted are asked for.
LEMMA NoNewWindow ==
  ASSUME CellsTypeOK, WindowsAreCounted, picks' = picks,
         (AskedWindows \cup LiveWindows)' \subseteq AskedWindows \cup LiveWindows
  PROVE  WindowsAreCounted'
<1> DEFINE S == AskedWindows \cup LiveWindows
           T == (AskedWindows \cup LiveWindows)'
<1>1. picks + 1 \in Nat
  BY CellsAssumption DEF CellsTypeOK
<1>2. IsFiniteSet(S) /\ Cardinality(S) <= picks + 1 /\ T \in SUBSET S
  BY DEF WindowsAreCounted
<1> HIDE DEF S, T
<1>3. IsFiniteSet(T) /\ Cardinality(T) <= picks + 1
  BY <1>1, <1>2, FewerWindows
<1> QED BY <1>3 DEF WindowsAreCounted, T

LEMMA WindowsInit ==
  ASSUME CellsInit PROVE WindowsAreCounted
<1>1. DOMAIN answers = {} /\ DOMAIN asked = {} /\ picks = 0
  BY DEF CellsInit
<1>2. AskedWindows = {}
  BY <1>1 DEF AskedWindows
<1>3. LiveWindows \subseteq {Resolve(range)}
  BY DEF CellsInit, LiveWindows
<1>4. IsFiniteSet({Resolve(range)}) /\ Cardinality({Resolve(range)}) <= 1
  <2>1. PICK r : r = Resolve(range)
    OBVIOUS
  <2>2. IsFiniteSet({r}) /\ Cardinality({r}) = 1
    BY FS_Singleton
  <2> QED BY <2>1, <2>2
<1>5. AskedWindows \cup LiveWindows \in SUBSET {Resolve(range)}
  BY <1>2, <1>3
<1>6. /\ IsFiniteSet(AskedWindows \cup LiveWindows)
      /\ Cardinality(AskedWindows \cup LiveWindows) <= 1
  BY <1>4, <1>5, FewerWindows
<1> QED BY <1>1, <1>6 DEF WindowsAreCounted

LEMMA WindowsStep ==
  ASSUME CellsTypeOK, MemosAgree, RequestsAreKnown, WindowsAreCounted, CellsNext
  PROVE  WindowsAreCounted'
<1> DEFINE Charted(q) == q.use \in {"history", "history-raw"} /\ q.window.ms # Spark
<1>1. config' = config
  BY DEF CellsNext, Render, SendQuery, PickWindow, QueryAnswered, QueryFails, Register, PassTime
<1>2. \A c \in Cells : HasSpark(c)' = HasSpark(c)
  BY <1>1, SparksStay
<1>3. \A q \in DOMAIN answers \cup DOMAIN asked : Charted(q) => q.window \in AskedWindows
  BY DEF AskedWindows
<1>4. ASSUME NEW c \in Cells, Render(c) PROVE WindowsAreCounted'
  <2>1. /\ memo' = [memo EXCEPT ![c] = Rendered(c)] /\ answers' = answers /\ asked' = asked
        /\ picks' = picks
    BY <1>4 DEF Render
  <2>2. \A d \in Cells : ~ HasSpark(d) => memo'[d] = memo[d]
    BY <2>1 DEF Rendered, MemosAgree
  <2>3. LiveWindows' \subseteq LiveWindows /\ AskedWindows' = AskedWindows
    BY <1>2, <2>1, <2>2 DEF LiveWindows, AskedWindows
  <2> QED BY <2>1, <2>3, NoNewWindow
<1>5. ASSUME NEW c \in Cells, SendQuery(c) PROVE WindowsAreCounted'
  <2>1. PICK a \in Asks(c) : asked' = [q \in {a.query} |-> a.data]
    BY <1>5 DEF SendQuery
  <2>2. answers' = answers /\ memo' = memo /\ picks' = picks /\ DOMAIN asked' = {a.query}
    BY <1>5, <2>1 DEF SendQuery
  <2>3. Charted(a.query) => a.query.window \in LiveWindows
    BY AsksReturn DEF Histories, LiveWindows, MemosAgree
  <2>4. AskedWindows' \subseteq AskedWindows \cup LiveWindows
    BY <1>3, <2>2, <2>3 DEF AskedWindows
  <2>5. LiveWindows' = LiveWindows
    BY <1>2, <2>2 DEF LiveWindows
  <2> QED BY <2>2, <2>4, <2>5, NoNewWindow
<1>6. ASSUME NEW w \in Ranges, PickWindow(w) PROVE WindowsAreCounted'
  <2> DEFINE r == [ms |-> w.ms, end |-> IF w.kind = "FIXED" THEN w.end ELSE clock]
             S == AskedWindows \cup LiveWindows
  <2>1. /\ picks' = picks + 1 /\ answers' = answers /\ asked' = asked
        /\ memo' = [c \in Cells |-> IF HasSpark(c) THEN memo[c] ELSE r]
    BY <1>6 DEF PickWindow
  <2>2. AskedWindows' = AskedWindows
    BY <2>1 DEF AskedWindows
  <2>3. LiveWindows' \subseteq {r}
    BY <1>2, <2>1 DEF LiveWindows
  <2>4. (AskedWindows \cup LiveWindows)' \in SUBSET (S \cup {r})
    BY <2>2, <2>3
  <2>5. IsFiniteSet(S) /\ Cardinality(S) <= picks + 1 /\ picks \in Nat
    BY CellsAssumption DEF WindowsAreCounted, CellsTypeOK
  <2> HIDE DEF S, r
  <2>6. IsFiniteSet(S \cup {r}) /\ Cardinality(S \cup {r}) <= picks + 2
    <3>1. /\ IsFiniteSet(S \cup {r})
          /\ \/ Cardinality(S \cup {r}) = Cardinality(S)
             \/ Cardinality(S \cup {r}) = Cardinality(S) + 1
      BY <2>5, FS_AddElement
    <3>2. Cardinality(S) \in Nat
      BY <2>5, FS_CardinalityType
    <3> QED BY <2>5, <3>1, <3>2
  <2>7. /\ IsFiniteSet((AskedWindows \cup LiveWindows)')
        /\ Cardinality((AskedWindows \cup LiveWindows)') <= picks + 2
    BY <2>4, <2>5, <2>6, FewerWindows
  <2> QED BY <2>1, <2>5, <2>7 DEF WindowsAreCounted
<1>7. ASSUME QueryAnswered \/ QueryFails \/ Register \/ PassTime PROVE WindowsAreCounted'
  <2>1. /\ DOMAIN answers' \cup DOMAIN asked' \subseteq DOMAIN answers \cup DOMAIN asked
        /\ memo' = memo /\ picks' = picks
    BY <1>7 DEF QueryAnswered, QueryFails, Register, PassTime
  <2>2. AskedWindows' \subseteq AskedWindows
    BY <2>1 DEF AskedWindows
  <2>3. LiveWindows' = LiveWindows
    BY <1>2, <2>1 DEF LiveWindows
  <2> QED BY <2>1, <2>2, <2>3, NoNewWindow
<1> QED BY <1>4, <1>5, <1>6, <1>7 DEF CellsNext

-----------------------------------------------------------------------------
(* The steps together *)

LEMMA OneUnderWay ==
  ASSUME CellsTypeOK, CellsNext PROVE Cardinality(DOMAIN asked') <= 1
<1>1. CASE asked' = asked
  BY <1>1 DEF CellsTypeOK
<1>2. CASE asked' = <<>>
  <2>1. DOMAIN asked' = {}
    BY <1>2
  <2> QED BY <2>1, FS_EmptySet
<1>3. ASSUME NEW c \in Cells, SendQuery(c) PROVE Cardinality(DOMAIN asked') <= 1
  <2>1. PICK k, x : asked' = [q \in {k} |-> x]
    BY <1>3 DEF SendQuery
  <2>2. DOMAIN asked' = {k}
    BY <2>1
  <2>3. Cardinality({k}) = 1
    BY FS_Singleton
  <2> QED BY <2>2, <2>3
<1> QED BY <1>1, <1>2, <1>3
        DEF CellsNext, Render, PickWindow, QueryAnswered, QueryFails, Register, PassTime

LEMMA CellsTypeStep ==
  ASSUME CellsTypeOK, CellsNext, MemosAgree', RequestsAreKnown'
  PROVE  CellsTypeOK'
<1>1. config' \in Boards
  BY DEF CellsTypeOK, CellsNext, Render, SendQuery, PickWindow, QueryAnswered, QueryFails,
         Register, PassTime
<1>7. Len(Fleet) \in Nat
  BY CellsAssumption
<1>8. clock' \in 0..MaxClock
  BY CellsAssumption DEF CellsTypeOK, CellsNext, Render, SendQuery, PickWindow, QueryAnswered,
         QueryFails, Register, PassTime
<1>9. registered' = registered \/ Register
  BY DEF CellsNext, Render, SendQuery, PickWindow, QueryAnswered, QueryFails, PassTime
<1>2. clock' \in 0..MaxClock /\ registered' \in 1..Len(Fleet)
  BY <1>7, <1>8, <1>9 DEF CellsTypeOK, Register
<1>3. range' \in Ranges /\ picks' \in 0..MaxPicks
  BY CellsAssumption DEF CellsTypeOK, CellsNext, Render, SendQuery, PickWindow, QueryAnswered,
         QueryFails, Register, PassTime
<1>4. \A c \in Cells : memo'[c].ms \in 1..Spark /\ memo'[c].end \in 0..clock'
  BY DEF MemosAgree
<1>5. ASSUME NEW q \in DOMAIN answers', q.use \in Lists
      PROVE  Len(answers'[q].keys) <= registered'
  <2>1. PICK n \in 0..registered' : answers'[q].keys = SubSeq(Fleet, 1, n)
    BY <1>5 DEF RequestsAreKnown
  <2>2. n \in 0..Len(Fleet)
    BY <1>2
  <2> QED BY <2>1, <2>2, FleetPrefix
<1>6. Cardinality(DOMAIN asked') <= 1
  BY OneUnderWay
<1> QED BY <1>1, <1>2, <1>3, <1>4, <1>5, <1>6 DEF CellsTypeOK, Lists

LEMMA CellsInitInv ==
  ASSUME CellsInit PROVE CellsInductive
<1>1. DOMAIN answers = {} /\ DOMAIN asked = {}
  BY DEF CellsInit
<1>2. RequestsAreKnown
  BY <1>1 DEF RequestsAreKnown
<1>3. MemosAgree /\ WindowsAreCounted
  BY MemosInit, WindowsInit
<1>4. Cardinality(DOMAIN asked) <= 1
  BY <1>1, FS_EmptySet
<1>5. \A c \in Cells : memo[c].ms \in 1..Spark /\ memo[c].end \in 0..clock
  BY <1>3 DEF MemosAgree
<1>6. /\ config \in Boards /\ clock \in 0..MaxClock /\ range \in Ranges
      /\ picks \in 0..MaxPicks /\ registered \in 1..Len(Fleet)
  BY CellsAssumption DEF CellsInit, Ranges
<1>7. CellsTypeOK
  BY <1>1, <1>4, <1>5, <1>6 DEF CellsTypeOK
<1> QED BY <1>2, <1>3, <1>7 DEF CellsInductive

LEMMA CellsStepInv ==
  ASSUME CellsInductive, [CellsNext]_cellVars PROVE CellsInductive'
<1> USE DEF CellsInductive
<1>1. CASE CellsNext
  <2>1. MemosAgree' /\ WindowsAreCounted'
    BY <1>1, MemosStep, WindowsStep
  <2>2. RequestsAreKnown'
    <3>1. ASSUME NEW c \in Cells, SendQuery(c) PROVE RequestsAreKnown'
      BY <3>1, SendIsKnown
    <3>2. CASE QueryAnswered
      BY <3>2, AnswerIsKnown
    <3>3. registered \in Nat
      BY CellsAssumption DEF CellsTypeOK
    <3>4. DOMAIN <<>> = {}
      OBVIOUS
    <3>5. ASSUME config' = config, answers' = answers, asked' \in {asked, <<>>},
                 registered' = registered \/ registered' = registered + 1
          PROVE  RequestsAreKnown'
      BY <3>3, <3>4, <3>5, NothingNewIsKnown
    <3> QED BY <1>1, <3>1, <3>2, <3>5
            DEF CellsNext, Render, PickWindow, QueryFails, Register, PassTime
  <2>3. CellsTypeOK'
    BY <1>1, <2>1, <2>2, CellsTypeStep
  <2> QED BY <2>1, <2>2, <2>3
<1>2. CASE UNCHANGED cellVars
  <2>1. /\ config' = config /\ clock' = clock /\ range' = range /\ picks' = picks
        /\ memo' = memo /\ registered' = registered /\ asked' = asked /\ answers' = answers
    BY <1>2 DEF cellVars
  <2>2. CellsTypeOK'
    BY <2>1 DEF CellsTypeOK
  <2>3. registered \in Nat
    BY CellsAssumption DEF CellsTypeOK
  <2>4. RequestsAreKnown'
    BY <2>1, <2>3, NothingNewIsKnown
  <2>5. \A c \in Cells : HasSpark(c)' = HasSpark(c)
    BY <2>1, SparksStay
  <2>6. MemosAgree'
    BY <2>1, <2>5 DEF MemosAgree
  <2>7. (AskedWindows \cup LiveWindows)' = AskedWindows \cup LiveWindows
    BY <2>1, <2>5 DEF AskedWindows, LiveWindows
  <2>8. WindowsAreCounted'
    BY <2>1, <2>7, NoNewWindow
  <2> QED BY <2>2, <2>4, <2>6, <2>8
<1> QED BY <1>1, <1>2

\* The windows asked for are among those counted.
LEMMA FewAsked ==
  ASSUME CellsTypeOK, WindowsAreCounted PROVE HistorySettles
<1>1. picks + 1 \in Nat
  BY CellsAssumption DEF CellsTypeOK
<1>2. AskedWindows \in SUBSET (AskedWindows \cup LiveWindows)
  OBVIOUS
<1>3. Cardinality(AskedWindows) <= picks + 1
  BY <1>1, <1>2, FewerWindows DEF WindowsAreCounted
<1> QED BY <1>3 DEF HistorySettles, AskedWindows

\* Every variable of an open dashboard has its type, for every board, fleet and palette.
THEOREM CellsTypeInvariant == CellsSpec => []CellsTypeOK
<1>1. CellsInductive => CellsTypeOK
  BY DEF CellsInductive
<1> QED BY <1>1, CellsInitInv, CellsStepInv, PTL DEF CellsSpec

\* What a cell reads under one of its query keys is what its own query function returns, up
\* to the one-key history two hooks share, and a window that stands still is asked for
\* once, for every board, fleet and number of cells (datasource/history.ts, latest.ts).
THEOREM CellsAreSafe == CellsSpec => []CellsSafe
<1>1. CellsInductive => CellsSafe
  BY ShapesAreOwn, FewAsked DEF CellsInductive, CellsSafe
<1> QED BY <1>1, CellsInitInv, CellsStepInv, PTL DEF CellsSpec

-----------------------------------------------------------------------------
(* CellAlgorithms *)

\* The greater of two numbers.
LEMMA MaxOfTwo ==
  ASSUME NEW a \in Int, NEW b \in Int
  PROVE  Max({a, b}) \in {a, b} /\ Max({a, b}) >= a /\ Max({a, b}) >= b
<1>1. \E x \in {a, b} : \A y \in {a, b} : x >= y
  <2>1. CASE a >= b
    BY <2>1
  <2>2. CASE b >= a
    BY <2>2
  <2>. QED
    BY <2>1, <2>2
<1>. QED
  BY <1>1 DEF Max

\* The ten steps, one by one.
LEMMA StepValues ==
  /\ DOMAIN IntervalSteps = 1 .. 10 /\ Len(IntervalSteps) = 10
  /\ \A i \in 1 .. 10 : \/ i = 1 /\ IntervalSteps[i] = 60
                        \/ i = 2 /\ IntervalSteps[i] = 300
                        \/ i = 3 /\ IntervalSteps[i] = 900
                        \/ i = 4 /\ IntervalSteps[i] = 1800
                        \/ i = 5 /\ IntervalSteps[i] = 3600
                        \/ i = 6 /\ IntervalSteps[i] = 10800
                        \/ i = 7 /\ IntervalSteps[i] = 21600
                        \/ i = 8 /\ IntervalSteps[i] = 43200
                        \/ i = 9 /\ IntervalSteps[i] = 86400
                        \/ i = 10 /\ IntervalSteps[i] = 604800
<1>1. DOMAIN IntervalSteps = 1 .. 10 /\ Len(IntervalSteps) = 10
  BY DEF IntervalSteps
<1>2. ASSUME NEW i \in 1 .. 10
      PROVE  \/ i = 1 \/ i = 2 \/ i = 3 \/ i = 4 \/ i = 5
             \/ i = 6 \/ i = 7 \/ i = 8 \/ i = 9 \/ i = 10
  OBVIOUS
<1>3. /\ IntervalSteps[1] = 60 /\ IntervalSteps[2] = 300 /\ IntervalSteps[3] = 900
      /\ IntervalSteps[4] = 1800 /\ IntervalSteps[5] = 3600 /\ IntervalSteps[6] = 10800
      /\ IntervalSteps[7] = 21600 /\ IntervalSteps[8] = 43200 /\ IntervalSteps[9] = 86400
      /\ IntervalSteps[10] = 604800
  BY DEF IntervalSteps
<1>. QED
  BY <1>1, <1>2, <1>3

(* intervalForWindow, for a window of any length: at most TargetBuckets    *)
(* buckets where the steps allow it, and no finer step would do.           *)
THEOREM BucketsFit == \A span \in Nat : IntervalFits(span, IntervalFor(span))
<1>. SUFFICES ASSUME NEW span \in Nat PROVE IntervalFits(span, IntervalFor(span))
  OBVIOUS
<1>. DEFINE fit == {i \in DOMAIN IntervalSteps : IntervalSteps[i] * TargetBuckets >= span}
            chosen == IntervalFor(span)
<1>1. fit \in SUBSET (1 .. 10) /\ fit \in SUBSET Nat
  BY StepValues
<1>2. \A i \in 1 .. 10 : IntervalSteps[i] \in Nat /\ IntervalSteps[i] > 0
  BY StepValues
<1>3. \A i, k \in 1 .. 10 : IntervalSteps[i] < IntervalSteps[k] => i < k
  <2>. TAKE i, k \in 1 .. 10
  <2>1. k <= i => IntervalSteps[k] <= IntervalSteps[i]
    BY StepValues
  <2>. QED
    BY <2>1, <1>2
<1>4. \A i \in 1 .. 10 : i \in fit <=> IntervalSteps[i] * 500 >= span
  BY StepValues DEF TargetBuckets
<1>5. \A s \in Range(IntervalSteps) : \E i \in 1 .. 10 : s = IntervalSteps[i]
  BY StepValues DEF Range
<1>6. IntervalSteps[10] = 604800
  BY DEF IntervalSteps
<1>7. CASE fit = {}
  <2>1. chosen = IntervalSteps[10]
    BY <1>7, StepValues DEF IntervalFor
  <2>2. \A i \in 1 .. 10 : ~ (IntervalSteps[i] * 500 >= span)
    BY <1>4, <1>7
  <2>. QED
    BY <1>5, <1>6, <2>1, <2>2 DEF IntervalFits, TargetBuckets
<1>8. CASE fit # {}
  <2>. HIDE DEF fit
  <2>1. PICK m \in fit : \A y \in fit : m <= y
    BY <1>1, <1>8, LeastNumber
  <2>2. Min(fit) \in fit /\ \A y \in fit : Min(fit) <= y
    BY <2>1 DEF Min
  <2>3. chosen = IntervalSteps[Min(fit)]
    BY <1>8 DEF IntervalFor, fit
  <2>. DEFINE least == Min(fit)
  <2>. HIDE DEF least, chosen
  <2>4. least \in 1 .. 10 /\ chosen = IntervalSteps[least] /\ chosen * 500 >= span
    BY <1>1, <1>4, <2>2, <2>3 DEF least
  <2>5. \A i \in 1 .. 10 : IntervalSteps[i] < chosen => ~ (IntervalSteps[i] * 500 >= span)
    <3>. TAKE i \in 1 .. 10
    <3>1. IntervalSteps[i] < chosen => i < least
      BY <1>3, <2>4
    <3>2. i \in fit => least <= i
      BY <2>2 DEF least
    <3>. QED
      BY <1>4, <2>4, <3>1, <3>2
  <2>6. (span - 1) \div chosen < 500
    BY <2>4, StepValues
  <2>. QED
    BY <1>5, <2>4, <2>5, <2>6 DEF IntervalFits, TargetBuckets, chosen
<1>. QED
  BY <1>7, <1>8

(* Whatever a container's height and however many rows a dashboard has, no *)
(* row is lower than the least height; and once the container is measured  *)
(* the rows and the margins around them fit it, unless rows are at their   *)
(* least.                                                                  *)
THEOREM RowsFit ==
  ASSUME NEW height \in Nat, NEW rows \in Nat
  PROVE  FitsHeight(height, rows, FitRowHeight(height, rows))
<1>1. CASE rows = 0 \/ height = 0
  BY <1>1 DEF FitsHeight, FitRowHeight, MinFitRowHeight, RowHeightScroll
<1>2. CASE rows # 0 /\ height # 0
  <2>. DEFINE room == height - 16 * (rows + 1)
              high == room \div rows
  <2>1. room \in Int /\ high \in Int /\ rows * high <= room
    BY <1>2
  <2>2. Max({24, high}) \in {24, high} /\ Max({24, high}) >= 24
    <3>1. high \in Int
      BY <2>1
    <3>. HIDE DEF high
    <3>. QED
      BY <3>1, MaxOfTwo
  <2>3. FitRowHeight(height, rows) = Max({24, high})
    BY <1>2 DEF FitRowHeight, MinFitRowHeight, GridMargin
  <2>4. CASE FitRowHeight(height, rows) = 24
    BY <2>4 DEF FitsHeight, MinFitRowHeight
  <2>5. CASE FitRowHeight(height, rows) = high
    <3>. DEFINE taken == rows * high
    <3>1. taken + 16 * (rows + 1) <= height
      <4>1. taken \in Int /\ taken <= room
        BY <2>1
      <4>. HIDE DEF taken
      <4>. QED
        BY <4>1
    <3>2. high >= 24
      BY <2>2, <2>3, <2>5
    <3>. HIDE DEF high
    <3>. QED
      BY <2>5, <3>1, <3>2 DEF FitsHeight, GridMargin, MinFitRowHeight
  <2>. QED
    BY <2>2, <2>3, <2>4, <2>5
<1>. QED
  BY <1>1, <1>2

\* A widget's place, the size of one that fits the grid, and what packing keeps of them.
Layout == [x : Nat, y : Nat, w : Nat, h : Nat]
Size == {s \in [w : Nat, h : Nat] : s.w <= Columns12}
Cursor == [x : Nat, y : Nat, row : Nat, placed : Seq(Layout)]

\* No widget on the grid reaches below the line the packing starts at.
LEMMA NothingBelowBottom ==
  ASSUME NEW existing \in SUBSET Layout, IsFiniteSet(existing)
  PROVE  BottomOf(existing) \in Nat /\ \A l \in existing : l.y + l.h <= BottomOf(existing)
<1>. DEFINE ends == {l.y + l.h : l \in existing} \cup {0}
            Covers(b, f, i) == \A k \in 1 .. i : f[k].y + f[k].h <= b
<1>1. PICK n \in Nat : \E f \in [1 .. n -> existing] :
                         \A l \in existing : \E k \in 1 .. n : f[k] = l
  BY FS_NatSurjection DEF ExistsSurjection, Surjection
<1>2. PICK f \in [1 .. n -> existing] : \A l \in existing : \E k \in 1 .. n : f[k] = l
  BY <1>1
<1>3. \A l \in existing : l.y \in Nat /\ l.h \in Nat
  BY DEF Layout
<1>4. \A b \in ends : b \in Nat
  BY <1>3
<1>5. \A i \in 0 .. n : \E b \in ends : Covers(b, f, i)
  <2>. DEFINE Reached == {i \in 0 .. n : \E b \in ends : Covers(b, f, i)}
  <2>1. 0 \in Reached
    <3>1. 0 \in ends /\ Covers(0, f, 0)
      OBVIOUS
    <3>2. \E b \in ends : Covers(b, f, 0)
      <4>. HIDE DEF ends, Covers
      <4>. QED
        BY <3>1
    <3>. HIDE DEF ends, Covers
    <3>. QED
      BY <3>2
  <2>2. ASSUME NEW i \in 1 .. n, i - 1 \in Reached PROVE i \in Reached
    <3>1. PICK b \in ends : Covers(b, f, i - 1)
      BY <2>2
    <3>2. f[i] \in existing /\ f[i].y + f[i].h \in ends /\ f[i].y + f[i].h \in Nat /\ b \in Nat
      BY <1>3, <1>4
    <3>3. \A k \in 1 .. i : k \in 1 .. i - 1 \/ k = i
      OBVIOUS
    <3>4. \A k \in 1 .. i - 1 : f[k].y + f[k].h \in Nat
      BY <1>3
    <3>5. ASSUME f[i].y + f[i].h <= b PROVE \E c \in ends : Covers(c, f, i)
      <4>1. Covers(b, f, i)
        BY <3>1, <3>3, <3>5
      <4>. HIDE DEF ends, Covers
      <4>. QED
        BY <4>1
    <3>6. ASSUME b <= f[i].y + f[i].h PROVE \E c \in ends : Covers(c, f, i)
      <4>. DEFINE e == f[i].y + f[i].h
      <4>1. \A k \in 1 .. i - 1 : f[k].y + f[k].h <= e
        BY <3>1, <3>2, <3>4, <3>6
      <4>2. Covers(e, f, i)
        BY <3>2, <3>3, <4>1
      <4>3. e \in ends
        BY <3>2
      <4>. HIDE DEF ends, Covers, e
      <4>. QED
        BY <4>2, <4>3
    <3>7. f[i].y + f[i].h <= b \/ b <= f[i].y + f[i].h
      BY <3>2
    <3>8. \E c \in ends : Covers(c, f, i)
      <4>. HIDE DEF ends, Covers
      <4>. QED
        BY <3>5, <3>6, <3>7
    <3>. HIDE DEF ends, Covers
    <3>. QED
      BY <3>8
  <2>. HIDE DEF Reached
  <2>3. \A i \in 0 .. n : i \in Reached
    BY <2>1, <2>2, UpTo
  <2>. QED
    BY <2>3 DEF Reached
<1>6. PICK b \in ends : Covers(b, f, n)
  <2>. HIDE DEF ends, Covers
  <2>. QED
    BY <1>5
<1>7. \A l \in existing : l.y + l.h <= b
  BY <1>2, <1>6
<1>8. \A e \in ends : b >= e
  BY <1>4, <1>7
<1>9. Max(ends) \in ends /\ \A e \in ends : Max(ends) >= e
  BY <1>6, <1>8 DEF Max
<1>. QED
  BY <1>4, <1>9 DEF BottomOf

\* The cursors packing goes through, one for each widget.
Packing(after, existing, sizes) ==
  /\ after[0] = [x |-> 0, y |-> BottomOf(existing), row |-> 0, placed |-> <<>>]
  /\ \A i \in 1 .. Len(sizes) : after[i] = Placed(after[i - 1], sizes[i])

LEMMA PlacedIsCursor ==
  ASSUME NEW c \in Cursor, NEW s \in Size
  PROVE  Placed(c, s) \in Cursor
<1>1. c.x \in Nat /\ c.y \in Nat /\ c.row \in Nat /\ c.placed \in Seq(Layout)
  BY DEF Cursor
<1>2. s.w \in Nat /\ s.h \in Nat
  BY DEF Size
<1>. DEFINE at == Wrapped(c, s)
<1>3. at.x \in Nat /\ at.y \in Nat /\ at.row \in Nat /\ at.placed = c.placed
  BY <1>1, <1>2 DEF Wrapped, Cursor
<1>. HIDE DEF at
<1>4. [x |-> at.x, y |-> at.y, w |-> s.w, h |-> s.h] \in Layout
  BY <1>2, <1>3 DEF Layout
<1>5. Append(at.placed, [x |-> at.x, y |-> at.y, w |-> s.w, h |-> s.h]) \in Seq(Layout)
  BY <1>1, <1>3, <1>4
<1>6. at.x + s.w \in Nat /\ RowWith(at.row, s.h) \in Nat
  BY <1>2, <1>3 DEF RowWith
<1>. QED
  BY <1>3, <1>5, <1>6 DEF Placed, Cursor, at

LEMMA PackingGoes ==
  ASSUME NEW existing, BottomOf(existing) \in Nat, NEW sizes \in Seq(Size)
  PROVE  \E after : /\ Packing(after, existing, sizes)
                     /\ PackWidgets(existing, sizes) = after[Len(sizes)].placed
<1>. DEFINE start == [x |-> 0, y |-> BottomOf(existing), row |-> 0, placed |-> <<>>]
            n == Len(sizes)
            Step == [i \in 1 .. n |-> [c \in Cursor |-> Placed(c, sizes[i])]]
            Body(g) == [i \in 0 .. n |-> IF i = 0 THEN start ELSE Placed(g[i - 1], sizes[i])]
            after == CHOOSE g : g = Body(g)
<1>1. n \in Nat /\ \A i \in 1 .. n : sizes[i] \in Size
  OBVIOUS
<1>2. start \in Cursor
  <2>1. PICK bare : bare = <<>>
    OBVIOUS
  <2>2. bare \in Seq(Layout)
    BY <2>1
  <2>. QED
    BY <2>1, <2>2, Zenon DEF Cursor
<1>3. Step \in Steps(Cursor, n)
  BY <1>1, PlacedIsCursor DEF Steps
<1>4. PICK g : Follows(g, Cursor, start, n, Step)
  <2>. HIDE DEF start, Step, n
  <2>. QED
    BY <1>1, <1>2, <1>3, StepsExist
<1>5. /\ g \in [0 .. n -> Cursor]
      /\ g[0] = start
      /\ \A i \in 1 .. n : g[i] = Step[i][g[i - 1]]
  BY <1>4 DEF Follows
<1>6. \A i \in 1 .. n : g[i] = Placed(g[i - 1], sizes[i])
  <2>. TAKE i \in 1 .. n
  <2>1. g[i - 1] \in Cursor
    BY <1>1, <1>5
  <2>2. Step[i][g[i - 1]] = Placed(g[i - 1], sizes[i])
    BY <2>1
  <2>. QED
    BY <1>5, <2>2
<1>7. g = Body(g)
  <2>. HIDE DEF start
  <2>1. \A i \in 0 .. n : g[i] = Body(g)[i]
    <3>. TAKE i \in 0 .. n
    <3>1. i = 0 \/ i \in 1 .. n
      BY <1>1
    <3>. QED
      BY <3>1, <1>5, <1>6
  <2>2. DOMAIN g = 0 .. n /\ DOMAIN Body(g) = 0 .. n
    BY <1>5
  <2>3. g = [i \in 0 .. n |-> g[i]] /\ Body(g) = [i \in 0 .. n |-> Body(g)[i]]
    BY <1>5
  <2>. HIDE DEF Body
  <2>. QED
    BY <2>1, <2>3
<1>8. after = Body(after)
  <2>. HIDE DEF Body
  <2>. QED
    BY <1>7
<1>9. PackWidgets(existing, sizes) = after[Len(sizes)].placed
  BY DEF PackWidgets
<1>. HIDE DEF after
<1>10. \A i \in 0 .. n : after[i] = IF i = 0 THEN start ELSE Placed(after[i - 1], sizes[i])
  <2>. HIDE DEF start
  <2>. QED
    BY <1>8
<1>11. Packing(after, existing, sizes)
  <2>1. 0 \in 0 .. n /\ \A i \in 1 .. n : i \in 0 .. n /\ i # 0
    BY <1>1
  <2>. QED
    BY <1>10, <2>1 DEF Packing
<1>. QED
  BY <1>9, <1>11

\* A placed widget is in a row above the cursor's, or before the cursor in its row.
Behind(l, c) ==
  \/ l.y + l.h <= c.y
  \/ l.y = c.y /\ l.x + l.w <= c.x /\ l.h <= c.row

Meets(l, m) ==
  l.x < m.x + m.w /\ m.x < l.x + l.w /\ l.y < m.y + m.h /\ m.y < l.y + l.h

\* What the cursor's widgets keep as packing goes on.
PackedBehind(c, i, existing, sizes) ==
  /\ c \in Cursor /\ Len(c.placed) = i /\ c.y >= BottomOf(existing)
  /\ \A k \in 1 .. i : /\ c.placed[k].w = sizes[k].w /\ c.placed[k].h = sizes[k].h
                       /\ c.placed[k].x + c.placed[k].w <= Columns12
                       /\ c.placed[k].y >= BottomOf(existing)
                       /\ Behind(c.placed[k], c)
  /\ \A k \in 1 .. i : \A j \in 1 .. k - 1 : ~ Meets(c.placed[k], c.placed[j])

\* The next widget meets none behind the cursor, and all of them stay behind it.
LEMMA PlacedBehind ==
  ASSUME NEW existing, BottomOf(existing) \in Nat, NEW sizes \in Seq(Size),
         NEW i \in 1 .. Len(sizes), NEW c, PackedBehind(c, i - 1, existing, sizes)
  PROVE  PackedBehind(Placed(c, sizes[i]), i, existing, sizes)
<1>. DEFINE s == sizes[i]
            at == Wrapped(c, s)
            new == [x |-> at.x, y |-> at.y, w |-> s.w, h |-> s.h]
            d == Placed(c, s)
<1>1. s \in Size /\ s.w \in Nat /\ s.h \in Nat /\ s.w <= 12
  BY DEF Size, Columns12
<1>2. c \in Cursor /\ c.x \in Nat /\ c.y \in Nat /\ c.row \in Nat /\ c.placed \in Seq(Layout)
  BY DEF PackedBehind, Cursor
<1>3. /\ at.x \in Nat /\ at.y \in Nat /\ at.row \in Nat /\ at.placed = c.placed
      /\ at.x + s.w <= 12 /\ at.y >= c.y
  BY <1>1, <1>2 DEF Wrapped, Cursor, Columns12
<1>4. d \in Cursor
  BY <1>1, <1>2, PlacedIsCursor
<1>5. Len(c.placed) = i - 1 /\ c.y >= BottomOf(existing)
  BY DEF PackedBehind
<1>6. ASSUME NEW k \in 1 .. i - 1
      PROVE  /\ c.placed[k] \in Layout /\ Behind(c.placed[k], c)
             /\ c.placed[k].w = sizes[k].w /\ c.placed[k].h = sizes[k].h
             /\ c.placed[k].x + c.placed[k].w <= 12 /\ c.placed[k].y >= BottomOf(existing)
  BY <1>2, <1>5 DEF PackedBehind, Columns12
<1>7. /\ d.x = at.x + s.w /\ d.y = at.y /\ d.row = RowWith(at.row, s.h)
      /\ d.placed = Append(c.placed, new)
  BY <1>3 DEF Placed
<1>8. ASSUME NEW l \in Layout, Behind(l, c)
      PROVE  Behind(l, at)
  <2>1. l.x \in Nat /\ l.y \in Nat /\ l.w \in Nat /\ l.h \in Nat
    BY DEF Layout
  <2>2. CASE c.x + s.w <= 12
    BY <1>8, <2>2 DEF Wrapped, Columns12
  <2>3. CASE ~ (c.x + s.w <= 12)
    <3>1. at.y = c.y + c.row
      BY <1>2, <2>3 DEF Wrapped, Columns12, Cursor
    <3>. HIDE DEF at
    <3>. QED
      BY <1>2, <1>8, <2>1, <3>1 DEF Behind
  <2>. QED
    BY <2>2, <2>3
<1>. HIDE DEF at, d
<1>9. new \in Layout /\ new.x = at.x /\ new.y = at.y /\ new.w = s.w /\ new.h = s.h
  BY <1>1, <1>3 DEF Layout
<1>. HIDE DEF new
<1>10. ASSUME NEW l \in Layout, Behind(l, at)
       PROVE  ~ Meets(new, l) /\ Behind(l, d)
  <2>1. l.x \in Nat /\ l.y \in Nat /\ l.w \in Nat /\ l.h \in Nat
    BY DEF Layout
  <2>2. at.row <= RowWith(at.row, s.h) /\ RowWith(at.row, s.h) \in Nat
    BY <1>1, <1>3 DEF RowWith
  <2>3. \/ l.y + l.h <= at.y
        \/ l.y = at.y /\ l.x + l.w <= at.x /\ l.h <= at.row
    BY <1>10 DEF Behind
  <2>4. ~ (at.x < l.x + l.w /\ l.x < at.x + s.w /\ at.y < l.y + l.h /\ l.y < at.y + s.h)
    BY <1>1, <1>3, <2>1, <2>3
  <2>5. \/ l.y + l.h <= at.y
        \/ l.y = at.y /\ l.x + l.w <= at.x + s.w /\ l.h <= RowWith(at.row, s.h)
    <3>1. PICK high \in Nat : high = RowWith(at.row, s.h) /\ at.row <= high
      BY <2>2
    <3>2. l.x + l.w <= at.x => l.x + l.w <= at.x + s.w
      BY <1>1, <1>3, <2>1
    <3>3. l.h <= at.row => l.h <= high
      BY <1>3, <2>1, <3>1
    <3>. QED
      BY <2>3, <3>1, <3>2, <3>3
  <2>6. ~ Meets(new, l)
    BY <1>9, <2>4 DEF Meets
  <2>7. Behind(l, d)
    BY <1>7, <2>5 DEF Behind
  <2>. QED
    BY <2>6, <2>7
<1>11. Behind(new, d)
  <2>1. s.h <= RowWith(at.row, s.h) /\ at.x + s.w <= at.x + s.w
    BY <1>1, <1>3 DEF RowWith
  <2>. QED
    BY <1>7, <1>9, <2>1 DEF Behind
<1>12. /\ Len(d.placed) = i /\ d.placed[i] = new
       /\ \A k \in 1 .. i - 1 : d.placed[k] = c.placed[k]
  BY <1>2, <1>5, <1>7, <1>9
<1>13. \A k \in 1 .. i : k \in 1 .. i - 1 \/ k = i
  OBVIOUS
<1>14. d.y >= BottomOf(existing)
  BY <1>2, <1>3, <1>5, <1>7
<1>15. ASSUME NEW k \in 1 .. i
       PROVE  /\ d.placed[k].w = sizes[k].w /\ d.placed[k].h = sizes[k].h
              /\ d.placed[k].x + d.placed[k].w <= 12
              /\ d.placed[k].y >= BottomOf(existing)
              /\ Behind(d.placed[k], d)
  <2>1. CASE k \in 1 .. i - 1
    <3>1. Behind(c.placed[k], at)
      BY <1>6, <1>8, <2>1
    <3>. QED
      BY <1>6, <1>10, <1>12, <2>1, <3>1
  <2>2. CASE k = i
    <3>1. new.y >= BottomOf(existing)
      BY <1>2, <1>3, <1>5, <1>9
    <3>. QED
      BY <1>3, <1>9, <1>11, <1>12, <2>2, <3>1
  <2>. QED
    BY <1>13, <2>1, <2>2
<1>16. ASSUME NEW k \in 1 .. i, NEW j \in 1 .. k - 1
       PROVE  ~ Meets(d.placed[k], d.placed[j])
  <2>1. CASE k \in 1 .. i - 1
    <3>1. j \in 1 .. i - 1
      BY <2>1
    <3>. QED
      BY <1>12, <2>1, <3>1 DEF PackedBehind
  <2>2. CASE k = i
    <3>1. Behind(c.placed[j], at) /\ c.placed[j] \in Layout
      BY <1>6, <1>8, <2>2
    <3>. QED
      BY <1>10, <1>12, <2>2, <3>1
  <2>. QED
    BY <1>13, <2>1, <2>2
<1>. QED
  BY <1>4, <1>12, <1>14, <1>15, <1>16 DEF PackedBehind, Columns12, d

(* packWidgets, for any widgets on the grid and any sizes that fit its     *)
(* columns: no two widgets overlap, none leaves the grid, and sizes and    *)
(* order are kept.                                                         *)
THEOREM WidgetsArePackedApart ==
  ASSUME NEW existing \in SUBSET Layout, IsFiniteSet(existing), NEW sizes \in Seq(Size)
  PROVE  PacksApart(existing, sizes, PackWidgets(existing, sizes))
<1>. DEFINE n == Len(sizes)
            bottom == BottomOf(existing)
<1>1. bottom \in Nat /\ \A l \in existing : l.y + l.h <= bottom
  BY NothingBelowBottom
<1>2. PICK after : /\ Packing(after, existing, sizes)
                   /\ PackWidgets(existing, sizes) = after[n].placed
  BY <1>1, PackingGoes
<1>3. \A i \in 0 .. n : i \in {k \in 0 .. n : PackedBehind(after[k], k, existing, sizes)}
  <2>. DEFINE Reached == {k \in 0 .. n : PackedBehind(after[k], k, existing, sizes)}
  <2>1. 0 \in Reached
    <3>1. PICK bare : bare = <<>>
      OBVIOUS
    <3>2. bare \in Seq(Layout) /\ Len(bare) = 0
      BY <3>1
    <3>3. after[0] = [x |-> 0, y |-> bottom, row |-> 0, placed |-> bare]
      BY <1>2, <3>1, Zenon DEF Packing
    <3>4. after[0] \in Cursor /\ Len(after[0].placed) = 0 /\ after[0].y >= bottom
      BY <1>1, <3>2, <3>3 DEF Cursor
    <3>5. PackedBehind(after[0], 0, existing, sizes)
      BY <3>4 DEF PackedBehind
    <3>. QED
      BY <3>5
  <2>2. ASSUME NEW i \in 1 .. n, i - 1 \in Reached PROVE i \in Reached
    <3>1. PackedBehind(Placed(after[i - 1], sizes[i]), i, existing, sizes)
      BY <1>1, <2>2, PlacedBehind
    <3>2. after[i] = Placed(after[i - 1], sizes[i])
      BY <1>2 DEF Packing
    <3>. QED
      BY <3>1, <3>2
  <2>. HIDE DEF Reached
  <2>3. n \in Nat
    OBVIOUS
  <2>. HIDE DEF n
  <2>4. \A i \in 0 .. n : i \in Reached
    BY <2>1, <2>2, <2>3, UpTo
  <2>. QED
    BY <2>4 DEF Reached
<1>. DEFINE packed == PackWidgets(existing, sizes)
<1>4. PackedBehind(after[n], n, existing, sizes)
  BY <1>3
<1>5. packed = after[n].placed
  BY <1>2
<1>. HIDE DEF packed
<1>6. packed \in Seq(Layout) /\ Len(packed) = n
  BY <1>4, <1>5 DEF PackedBehind, Cursor
<1>7. ASSUME NEW k \in DOMAIN packed
      PROVE  /\ packed[k].w = sizes[k].w /\ packed[k].h = sizes[k].h
             /\ packed[k].x + packed[k].w <= Columns12
             /\ \A l \in existing : ~ Meets(packed[k], l)
             /\ \A j \in 1 .. k - 1 : ~ Meets(packed[k], packed[j])
  <2>1. k \in 1 .. n /\ packed[k] \in Layout /\ packed[k].y \in Nat
    <3>1. k \in 1 .. n /\ packed[k] \in Layout
      BY <1>6
    <3>. QED
      BY <3>1 DEF Layout
  <2>2. packed[k].y >= bottom
    BY <1>4, <1>5, <2>1 DEF PackedBehind
  <2>3. \A l \in existing : ~ Meets(packed[k], l)
    <3>. TAKE l \in existing
    <3>1. l.y \in Nat /\ l.h \in Nat /\ l.y + l.h <= bottom
      BY <1>1 DEF Layout
    <3>. HIDE DEF bottom
    <3>. QED
      BY <1>1, <2>1, <2>2, <3>1 DEF Meets
  <2>. QED
    BY <1>4, <1>5, <2>1, <2>3 DEF PackedBehind
<1>. QED
  BY <1>6, <1>7 DEF PacksApart, Meets, packed

\* The five severities and their ranks; "none" is not one of them.
LEMMA RankValues ==
  /\ DOMAIN Rank = {"CRITICAL", "MAJOR", "WARNING", "MINOR", "INDETERMINATE"}
  /\ \A s \in DOMAIN Rank : Rank[s] \in Nat
  /\ "none" \notin DOMAIN Rank
<1>1. DOMAIN Rank = {"CRITICAL", "MAJOR", "WARNING", "MINOR", "INDETERMINATE"}
  BY DEF Rank
<1>2. /\ Rank["CRITICAL"] = 4 /\ Rank["MAJOR"] = 3 /\ Rank["WARNING"] = 2
      /\ Rank["MINOR"] = 1 /\ Rank["INDETERMINATE"] = 0
  BY DEF Rank
<1>3. \A s \in DOMAIN Rank : Rank[s] \in Nat
  BY <1>1, <1>2
<1>4. "none" \notin DOMAIN Rank
  BY <1>1
<1>. QED
  BY <1>1, <1>3, <1>4

LEMMA KnownHasRank == \A s : Known(s) \in DOMAIN Rank
  BY RankValues DEF Known

\* An alarm that counts for the entity, and what the marker says after one more alarm.
Own(a, e) == a.of = e /\ Active(a)
Marked(best, a, e) == IF Own(a, e) THEN Worse(best, a.severity) ELSE best

\* What a marker says of the first i alarms is the worst of them that counts.
TellsWorst(best, alarms, e, i) ==
  /\ best \in {"none"} \cup DOMAIN Rank
  /\ best # "none" => \E k \in 1 .. i : Own(alarms[k], e) /\ Known(alarms[k].severity) = best
  /\ \A k \in 1 .. i : Own(alarms[k], e) =>
       best # "none" /\ Rank[Known(alarms[k].severity)] <= Rank[best]

LEMMA MarkedTellsWorst ==
  ASSUME NEW S, NEW alarms \in Seq(S), NEW e, NEW i \in 1 .. Len(alarms), NEW best,
         TellsWorst(best, alarms, e, i - 1)
  PROVE  TellsWorst(Marked(best, alarms[i], e), alarms, e, i)
<1>. DEFINE a == alarms[i]
            next == Marked(best, a, e)
<1>1. \A k \in 1 .. i : k \in 1 .. i - 1 \/ k = i
  OBVIOUS
<1>2. Known(a.severity) \in DOMAIN Rank /\ Known(a.severity) # "none"
  BY KnownHasRank, RankValues
<1>3. \A k \in 1 .. i - 1 : Own(alarms[k], e) =>
        best # "none" /\ Rank[Known(alarms[k].severity)] <= Rank[best]
  BY DEF TellsWorst
<1>4. best # "none" =>
        \E k \in 1 .. i - 1 : Own(alarms[k], e) /\ Known(alarms[k].severity) = best
  BY DEF TellsWorst
<1>5. CASE next = Known(a.severity) /\ Own(a, e)
  <2>1. best # "none" => Rank[best] <= Rank[Known(a.severity)]
    <3>. SUFFICES ASSUME best # "none" PROVE Rank[best] <= Rank[Known(a.severity)]
      OBVIOUS
    <3>1. Rank[best] \in Nat /\ Rank[Known(a.severity)] \in Nat
      BY <1>2, RankValues DEF TellsWorst
    <3>. QED
      BY <1>5, <3>1 DEF Marked, Worse
  <2>2. ASSUME NEW k \in 1 .. i, Own(alarms[k], e)
        PROVE  Rank[Known(alarms[k].severity)] <= Rank[Known(a.severity)]
    <3>1. Rank[Known(alarms[k].severity)] \in Nat /\ Rank[Known(a.severity)] \in Nat
      BY KnownHasRank, RankValues
    <3>2. CASE k = i
      BY <3>1, <3>2
    <3>3. CASE k \in 1 .. i - 1
      <4>1. best # "none" /\ Rank[Known(alarms[k].severity)] <= Rank[best]
        BY <1>3, <2>2, <3>3
      <4>2. Rank[best] \in Nat
        BY <4>1, RankValues DEF TellsWorst
      <4>. QED
        BY <2>1, <3>1, <4>1, <4>2
    <3>. QED
      BY <1>1, <3>2, <3>3
  <2>3. i \in 1 .. i
    OBVIOUS
  <2>. HIDE DEF next
  <2>4. next \in {"none"} \cup DOMAIN Rank /\ next # "none"
    BY <1>2, <1>5
  <2>. QED
    BY <1>5, <2>2, <2>3, <2>4 DEF TellsWorst, next
<1>6. CASE next = best /\ (Own(a, e) => best # "none" /\ Rank[Known(a.severity)] <= Rank[best])
  <2>1. \A k \in 1 .. i : Own(alarms[k], e) =>
          best # "none" /\ Rank[Known(alarms[k].severity)] <= Rank[best]
    BY <1>1, <1>3, <1>6
  <2>2. best # "none" =>
          \E k \in 1 .. i : Own(alarms[k], e) /\ Known(alarms[k].severity) = best
    BY <1>4
  <2>. QED
    BY <1>6, <2>1, <2>2 DEF TellsWorst
<1>7. CASE Own(a, e) /\ best # "none" /\ Rank[Known(a.severity)] <= Rank[best]
  <2>1. Rank[Known(a.severity)] \in Nat /\ Rank[best] \in Nat
    BY <1>2, <1>7, RankValues DEF TellsWorst
  <2>2. next = best
    BY <1>7, <2>1 DEF Marked, Worse
  <2>. QED
    BY <1>6, <1>7, <2>2
<1>8. CASE Own(a, e) /\ ~ (best # "none" /\ Rank[Known(a.severity)] <= Rank[best])
  <2>1. best # "none" => Rank[Known(a.severity)] > Rank[best]
    <3>1. Rank[Known(a.severity)] \in Nat
      BY <1>2, RankValues
    <3>2. best # "none" => Rank[best] \in Nat
      BY RankValues DEF TellsWorst
    <3>. QED
      BY <1>8, <3>1, <3>2
  <2>2. next = Known(a.severity)
    BY <1>8, <2>1 DEF Marked, Worse
  <2>. QED
    BY <1>5, <1>8, <2>2
<1>9. CASE ~ Own(a, e)
  <2>1. next = best
    BY <1>9 DEF Marked
  <2>. QED
    BY <1>6, <1>9, <2>1
<1>. QED
  BY <1>7, <1>8, <1>9

(* The marker of an entity on the map shows the worst severity among its   *)
(* active alarms, known or not, and none if it has no active alarm: for    *)
(* any list of alarms in any order.                                        *)
THEOREM MarkersShowTheWorst ==
  ASSUME NEW S, NEW alarms \in Seq(S), NEW e
  PROVE  MarkersTell(alarms, e, MarkerSeverity(alarms, e))
<1>. DEFINE n == Len(alarms)
            D == {"none"} \cup DOMAIN Rank
            Step == [i \in 1 .. n |-> [w \in D |-> Marked(w, alarms[i], e)]]
            Body(g) == [i \in 0 .. n |->
                          IF i = 0 THEN "none"
                          ELSE IF alarms[i].of = e /\ Active(alarms[i])
                               THEN Worse(g[i - 1], alarms[i].severity)
                               ELSE g[i - 1]]
            worst == CHOOSE g : g = Body(g)
<1>1. n \in Nat /\ "none" \in D
  OBVIOUS
<1>2. \A w \in D : \A a : Marked(w, a, e) \in D
  <2>. TAKE w \in D
  <2>. TAKE a
  <2>1. Known(a.severity) \in D
    BY KnownHasRank
  <2>. HIDE DEF D
  <2>. QED
    BY <2>1 DEF Marked, Worse
<1>3. Step \in Steps(D, n)
  <2>. HIDE DEF D, n
  <2>. QED
    BY <1>2 DEF Steps
<1>4. PICK g : Follows(g, D, "none", n, Step)
  <2>. HIDE DEF D, Step, n
  <2>. QED
    BY <1>1, <1>3, StepsExist
<1>5. g \in [0 .. n -> D] /\ g[0] = "none" /\ \A i \in 1 .. n : g[i] = Step[i][g[i - 1]]
  BY <1>4 DEF Follows
<1>6. \A i \in 1 .. n : g[i] = Marked(g[i - 1], alarms[i], e)
  <2>. TAKE i \in 1 .. n
  <2>. HIDE DEF D
  <2>1. g[i - 1] \in D
    BY <1>1, <1>5
  <2>2. Step[i][g[i - 1]] = Marked(g[i - 1], alarms[i], e)
    BY <2>1
  <2>. QED
    BY <1>5, <2>2
<1>7. g = Body(g)
  <2>. HIDE DEF D
  <2>1. \A i \in 0 .. n : g[i] = Body(g)[i]
    <3>. TAKE i \in 0 .. n
    <3>1. i = 0 \/ i \in 1 .. n
      BY <1>1
    <3>. QED
      BY <3>1, <1>5, <1>6 DEF Marked, Own
  <2>2. g = [i \in 0 .. n |-> g[i]] /\ Body(g) = [i \in 0 .. n |-> Body(g)[i]]
    BY <1>5
  <2>. HIDE DEF Body
  <2>. QED
    BY <2>1, <2>2
<1>8. worst = Body(worst)
  <2>. HIDE DEF Body
  <2>. QED
    BY <1>7
<1>9. MarkerSeverity(alarms, e) = worst[n]
  BY DEF MarkerSeverity
<1>. HIDE DEF worst
<1>10. worst[0] = "none" /\ \A i \in 1 .. n : worst[i] = Marked(worst[i - 1], alarms[i], e)
  <2>1. \A i \in 0 .. n : worst[i] = IF i = 0 THEN "none" ELSE Marked(worst[i - 1], alarms[i], e)
    BY <1>8 DEF Marked, Own
  <2>2. 0 \in 0 .. n /\ \A i \in 1 .. n : i \in 0 .. n /\ i # 0
    BY <1>1
  <2>. QED
    BY <2>1, <2>2
<1>11. \A i \in 0 .. n : TellsWorst(worst[i], alarms, e, i)
  <2>. DEFINE Reached == {i \in 0 .. n : TellsWorst(worst[i], alarms, e, i)}
  <2>1. 0 \in Reached
    <3>1. TellsWorst("none", alarms, e, 0)
      BY DEF TellsWorst
    <3>. QED
      BY <1>1, <1>10, <3>1
  <2>2. ASSUME NEW i \in 1 .. n, i - 1 \in Reached PROVE i \in Reached
    <3>1. TellsWorst(Marked(worst[i - 1], alarms[i], e), alarms, e, i)
      BY <2>2, MarkedTellsWorst
    <3>. QED
      BY <1>10, <3>1
  <2>. HIDE DEF Reached
  <2>3. \A i \in 0 .. n : i \in Reached
    BY <1>1, <2>1, <2>2, UpTo
  <2>. QED
    BY <2>3 DEF Reached
<1>. DEFINE severity == MarkerSeverity(alarms, e)
            active == {a \in Range(alarms) :
                         a.of = e /\ a.status \in {"ACTIVE_UNACK", "ACTIVE_ACK"}}
<1>12. TellsWorst(severity, alarms, e, n)
  BY <1>1, <1>9, <1>11
<1>. HIDE DEF severity
<1>13. \A a : a \in active <=> \E k \in 1 .. n : a = alarms[k] /\ Own(alarms[k], e)
  BY DEF Range, Own, Active
<1>. HIDE DEF active
<1>14. \A a \in active : severity # "none" /\ Rank[Known(a.severity)] <= Rank[severity]
  BY <1>12, <1>13 DEF TellsWorst
<1>15. severity # "none" => \E a \in active : Known(a.severity) = severity
  BY <1>12, <1>13 DEF TellsWorst
<1>. QED
  BY <1>14, <1>15 DEF MarkersTell, active, severity

(* The calendar of a window shows true weeks, day after day, none without  *)
(* a day of the window and none of its days missing: for every window.     *)
THEOREM WeeksCoverTheWindow ==
  ASSUME NEW window \in [start : Int, end : Int], window.start <= window.end
  PROVE  WeeksSpan(window, CalendarGrid(window))
<1>. DEFINE first == window.start
            last == Min({window.end, window.start + MaxDays})
            span == Min({window.end - window.start, MaxDays})
            grid == window.start - (window.start % 7)
            n == WeekCount(grid, first + span)
            weeks == CalendarGrid(window)
<1>1. first \in Int /\ window.end \in Int
  OBVIOUS
<1>2. span \in Nat /\ last = first + span
  <2>1. last = IF window.end <= first + 30 THEN window.end ELSE first + 30
    BY <1>1, MinOfTwo DEF MaxDays
  <2>2. span = IF window.end - first <= 30 THEN window.end - first ELSE 30
    BY <1>1, MinOfTwo DEF MaxDays
  <2>. HIDE DEF last, span
  <2>. QED
    BY <1>1, <2>1, <2>2
<1>3. weeks = [i \in 1 .. n |-> [d \in 1 .. 7 |-> grid + 7 * (i - 1) + d - 1]]
  BY DEF CalendarGrid
<1>4. grid \in Int /\ grid % 7 = 0 /\ grid <= first /\ first < grid + 7
  BY <1>1
<1>. HIDE DEF last, span, grid, weeks
<1>5. n \in Nat /\ n = (last - grid) \div 7 + 1 /\ n >= 1
  BY <1>1, <1>2, <1>4 DEF WeekCount
<1>. HIDE DEF n, first
<1>6. DOMAIN weeks = 1 .. n /\ Len(weeks) = n
  BY <1>3, <1>5
<1>7. ASSUME NEW i \in 1 .. n
      PROVE  Len(weeks[i]) = 7 /\ \A d \in 1 .. 7 : weeks[i][d] = grid + 7 * (i - 1) + d - 1
  BY <1>3
<1>8. ASSUME NEW i \in 1 .. n
      PROVE  /\ Len(weeks[i]) = 7 /\ weeks[i][1] % 7 = 0
             /\ \A d \in 1 .. 6 : weeks[i][d + 1] = weeks[i][d] + 1
             /\ \E d \in 1 .. 7 : weeks[i][d] \in first .. last
  <2>1. Len(weeks[i]) = 7
    BY <1>7
  <2>2. weeks[i][1] = grid + 7 * (i - 1)
    BY <1>4, <1>5, <1>7
  <2>3. (grid + 7 * (i - 1)) % 7 = 0
    BY <1>4, <1>5
  <2>4. \A d \in 1 .. 6 : weeks[i][d + 1] = weeks[i][d] + 1
    BY <1>4, <1>5, <1>7
  <2>5. CASE i = 1
    <3>1. first - grid + 1 \in 1 .. 7 /\ weeks[1][first - grid + 1] = first
      BY <1>1, <1>4, <1>5, <1>7, <2>5
    <3>. QED
      BY <1>1, <1>2, <2>1, <2>2, <2>3, <2>4, <2>5, <3>1
  <2>6. CASE i > 1
    <3>1. grid + 7 * (i - 1) \in first .. last
      BY <1>1, <1>2, <1>4, <1>5, <2>6
    <3>. QED
      BY <2>1, <2>2, <2>3, <2>4, <3>1
  <2>. QED
    BY <1>5, <2>5, <2>6
<1>9. ASSUME NEW i \in 1 .. n - 1
      PROVE  weeks[i + 1][1] = weeks[i][7] + 1
  BY <1>4, <1>5, <1>7
<1>10. ASSUME NEW day \in first .. last
       PROVE  \E i \in DOMAIN weeks : \E d \in 1 .. 7 : weeks[i][d] = day
  <2>. DEFINE i == (day - grid) \div 7 + 1
              d == ((day - grid) % 7) + 1
  <2>1. i \in 1 .. n /\ d \in 1 .. 7 /\ grid + 7 * (i - 1) + d - 1 = day
    BY <1>1, <1>2, <1>4, <1>5
  <2>. HIDE DEF i, d
  <2>2. weeks[i][d] = day
    BY <1>7, <2>1
  <2>. QED
    BY <1>6, <2>1, <2>2
<1>. QED
  BY <1>6, <1>8, <1>9, <1>10 DEF WeeksSpan, weeks, first, last

(***************************************************************************)
(* Sorting: each number of a finite set has its place behind the smaller   *)
(* ones, and these places are 1 up to the number of numbers.               *)
(***************************************************************************)
SmallerIn(S, t) == {u \in S : u < t}

LEMMA PlacesOfNumbers ==
  ASSUME NEW S \in SUBSET Int, IsFiniteSet(S)
  PROVE  /\ Cardinality(S) \in Nat
         /\ \A t \in S : Cardinality(SmallerIn(S, t)) + 1 \in 1 .. Cardinality(S)
         /\ \A t, v \in S : t < v => Cardinality(SmallerIn(S, t)) < Cardinality(SmallerIn(S, v))
<1>1. Cardinality(S) \in Nat
  BY FS_CardinalityType
<1>2. ASSUME NEW t \in S
      PROVE  /\ IsFiniteSet(SmallerIn(S, t)) /\ Cardinality(SmallerIn(S, t)) \in Nat
             /\ IsFiniteSet(SmallerIn(S, t) \cup {t})
             /\ Cardinality(SmallerIn(S, t) \cup {t}) = Cardinality(SmallerIn(S, t)) + 1
  <2>1. SmallerIn(S, t) \in SUBSET S /\ t \notin SmallerIn(S, t)
    BY DEF SmallerIn
  <2>2. IsFiniteSet(SmallerIn(S, t))
    BY <2>1, FS_Subset
  <2>. QED
    BY <2>1, <2>2, FS_CardinalityType, FS_AddElement
<1>3. ASSUME NEW t \in S PROVE Cardinality(SmallerIn(S, t)) + 1 \in 1 .. Cardinality(S)
  <2>1. SmallerIn(S, t) \cup {t} \in SUBSET S
    BY DEF SmallerIn
  <2>2. Cardinality(SmallerIn(S, t) \cup {t}) <= Cardinality(S)
    BY <2>1, FS_Subset
  <2>. QED
    BY <1>1, <1>2, <2>2
<1>4. ASSUME NEW t \in S, NEW v \in S, t < v
      PROVE  Cardinality(SmallerIn(S, t)) < Cardinality(SmallerIn(S, v))
  <2>1. \A u \in SmallerIn(S, t) \cup {t} : u \in S /\ u \in Int /\ u < v
    <3>1. t \in Int /\ v \in Int
      OBVIOUS
    <3>. QED
      BY <1>4, <3>1 DEF SmallerIn
  <2>2. SmallerIn(S, t) \cup {t} \in SUBSET SmallerIn(S, v)
    BY <2>1 DEF SmallerIn
  <2>3. Cardinality(SmallerIn(S, t) \cup {t}) <= Cardinality(SmallerIn(S, v))
    BY <1>2, <2>2, FS_Subset
  <2>4. /\ Cardinality(SmallerIn(S, t)) \in Nat /\ Cardinality(SmallerIn(S, v)) \in Nat
        /\ Cardinality(SmallerIn(S, t) \cup {t}) = Cardinality(SmallerIn(S, t)) + 1
    BY <1>2
  <2>. QED
    BY <2>3, <2>4
<1>. QED
  BY <1>1, <1>3, <1>4

\* f lists the members of S, each once and smaller ones first.
Enumerates(f, S) ==
  /\ f \in [1 .. Cardinality(S) -> S]
  /\ \A i, j \in 1 .. Cardinality(S) : i < j => f[i] < f[j]
  /\ \A t \in S : \E i \in 1 .. Cardinality(S) : f[i] = t

LEMMA AscendingEnumerates ==
  ASSUME NEW S \in SUBSET Int, IsFiniteSet(S)
  PROVE  Cardinality(S) \in Nat /\ Enumerates(Ascending(S), S)
<1>. DEFINE n == Cardinality(S)
            before(t) == Cardinality(SmallerIn(S, t))
            place == [t \in S |-> before(t) + 1]
            f == Ascending(S)
<1>1. n \in Nat /\ \A t \in S : before(t) + 1 \in 1 .. n
  BY PlacesOfNumbers
<1>2. \A t, v \in S : t < v => before(t) < before(v)
  BY PlacesOfNumbers
<1>3. f = [i \in 1 .. n |-> CHOOSE t \in S : before(t) = i - 1]
  BY DEF Ascending, SmallerIn
<1>4. \A t \in S : before(t) \in Int
  <2>. TAKE t \in S
  <2>1. SmallerIn(S, t) \in SUBSET S
    BY DEF SmallerIn
  <2>2. IsFiniteSet(SmallerIn(S, t))
    BY <2>1, FS_Subset
  <2>. QED
    BY <2>2, FS_CardinalityType
<1>. HIDE DEF before, n, f
<1>5. place \in Injection(S, 1 .. n)
  <2>1. place \in [S -> 1 .. n]
    BY <1>1
  <2>2. \A t, v \in S : place[t] = place[v] => t = v
    <3>. TAKE t \in S, v \in S
    <3>1. t < v \/ v < t \/ t = v
      OBVIOUS
    <3>. QED
      BY <1>2, <1>4, <3>1
  <2>. HIDE DEF place
  <2>. QED
    BY <2>1, <2>2 DEF Injection, IsInjective
<1>6. IsFiniteSet(1 .. n) /\ Cardinality(1 .. n) = n
  BY <1>1, FS_Interval
<1>7. place \in Surjection(S, 1 .. n)
  <2>. HIDE DEF place
  <2>. QED
    BY <1>5, <1>6, FS_Injection DEF n
<1>8. \A i \in 1 .. n : \E t \in S : before(t) = i - 1
  <2>. TAKE i \in 1 .. n
  <2>1. \E t \in S : place[t] = i
    <3>. HIDE DEF place
    <3>. QED
      BY <1>7 DEF Surjection
  <2>. QED
    BY <1>1, <1>4, <2>1
<1>9. \A i \in 1 .. n : f[i] \in S /\ before(f[i]) = i - 1
  BY <1>3, <1>8
<1>10. f \in [1 .. n -> S]
  BY <1>3, <1>9
<1>11. \A i, j \in 1 .. n : i < j => f[i] < f[j]
  <2>. SUFFICES ASSUME NEW i \in 1 .. n, NEW j \in 1 .. n, i < j PROVE f[i] < f[j]
    OBVIOUS
  <2>1. f[i] \in S /\ f[j] \in S /\ f[i] \in Int /\ f[j] \in Int
    BY <1>9
  <2>2. before(f[i]) = i - 1 /\ before(f[j]) = j - 1
    BY <1>9
  <2>3. CASE f[j] < f[i]
    <3>1. before(f[j]) < before(f[i])
      BY <1>2, <2>1, <2>3
    <3>. QED
      BY <1>1, <2>2, <3>1
  <2>4. CASE f[j] = f[i]
    BY <1>1, <2>2, <2>4
  <2>. QED
    BY <2>1, <2>3, <2>4
<1>12. \A t \in S : \E i \in 1 .. n : f[i] = t
  <2>. TAKE t \in S
  <2>1. before(t) + 1 \in 1 .. n /\ before(f[before(t) + 1]) = before(t)
    BY <1>1, <1>4, <1>9
  <2>2. f[before(t) + 1] \in S
    BY <1>9, <2>1
  <2>3. f[before(t) + 1] = t
    <3>. DEFINE v == f[before(t) + 1]
    <3>1. t \in S /\ v \in S /\ t \in Int /\ v \in Int /\ before(v) = before(t)
      BY <2>1, <2>2
    <3>. HIDE DEF v
    <3>2. ~ (t < v) /\ ~ (v < t)
      BY <1>2, <1>4, <3>1
    <3>. QED
      BY <3>1, <3>2 DEF v
  <2>. QED
    BY <2>1, <2>3
<1>. QED
  BY <1>1, <1>10, <1>11, <1>12 DEF Enumerates, n, f

(***************************************************************************)
(* Loops: the recursive function of each loop has the values it should     *)
(* have, because a function with these values can be built step by step.   *)
(***************************************************************************)
\* A series goes into the rows point by point.
LEMMA PutAllGoes ==
  ASSUME NEW rows, NEW s, NEW points, Len(points) \in Nat
  PROVE  \E after : /\ after[0] = rows
                    /\ \A i \in 1 .. Len(points) :
                         after[i] = Put(after[i - 1], s, points[i])
                    /\ PutAll(rows, s, points) = after[Len(points)]
<1>. DEFINE n == Len(points)
            more(x, i) == Put(x, s, points[i])
            Body(m, g) == [i \in 0 .. m |-> IF i = 0 THEN rows ELSE more(g[i - 1], i)]
            Grown == {m \in 0 .. n : \E g : g = Body(m, g)}
            after == CHOOSE g : g = Body(n, g)
<1>1. 0 \in Grown
  <2>. DEFINE g == [i \in 0 .. 0 |-> rows]
  <2>1. g = Body(0, g)
    OBVIOUS
  <2>. HIDE DEF g, Body
  <2>. QED
    BY <2>1
<1>2. ASSUME NEW m \in 1 .. n, m - 1 \in Grown PROVE m \in Grown
  <2>1. PICK g : g = Body(m - 1, g)
    <3>. HIDE DEF Body
    <3>. QED
      BY <1>2
  <2>. DEFINE h == [i \in 0 .. m |-> IF i = m THEN more(g[m - 1], m) ELSE g[i]]
  <2>2. \A i \in 0 .. m - 1 : h[i] = g[i]
    OBVIOUS
  <2>3. ASSUME NEW i \in 0 .. m PROVE h[i] = Body(m, h)[i]
    <3>1. CASE i = m
      <4>1. h[m] = more(g[m - 1], m) /\ h[m - 1] = g[m - 1]
        BY <2>2
      <4>. QED
        BY <3>1, <4>1
    <3>2. CASE i \in 0 .. m - 1
      <4>1. h[i] = g[i] /\ (i # 0 => h[i - 1] = g[i - 1])
        BY <2>2, <3>2
      <4>2. g[i] = IF i = 0 THEN rows ELSE more(g[i - 1], i)
        BY <2>1, <3>2
      <4>. HIDE DEF h
      <4>. QED
        BY <3>2, <4>1, <4>2
    <3>. QED
      BY <3>1, <3>2
  <2>4. h = [i \in 0 .. m |-> h[i]] /\ Body(m, h) = [i \in 0 .. m |-> Body(m, h)[i]]
    OBVIOUS
  <2>. HIDE DEF h, Body
  <2>5. h = Body(m, h)
    BY <2>3, <2>4
  <2>. QED
    BY <2>5
<1>3. n \in Grown
  <2>. HIDE DEF Grown, n
  <2>1. \A m \in 1 .. n : m - 1 \in Grown => m \in Grown
    BY <1>2
  <2>2. n \in Nat
    BY DEF n
  <2>3. \A i \in 0 .. n : i \in Grown
    BY <1>1, <2>1, <2>2, UpTo
  <2>. QED
    BY <2>2, <2>3
<1>4. after = Body(n, after)
  <2>. HIDE DEF Body
  <2>. QED
    BY <1>3
<1>5. PutAll(rows, s, points) = after[Len(points)]
  BY DEF PutAll
<1>. HIDE DEF after
<1>6. \A i \in 0 .. n : after[i] = IF i = 0 THEN rows ELSE more(after[i - 1], i)
  BY <1>4
<1>7. 0 \in 0 .. n /\ \A i \in 1 .. n : i \in 0 .. n /\ i # 0
  OBVIOUS
<1>. QED
  BY <1>5, <1>6, <1>7

\* Columns are pushed one by one.
LEMMA PushAllGoes ==
  ASSUME NEW columns, NEW cs, Len(cs) \in Nat
  PROVE  \E after : /\ after[0] = columns
                    /\ \A i \in 1 .. Len(cs) :
                         after[i] = Push(after[i - 1], cs[i])
                    /\ PushAll(columns, cs) = after[Len(cs)]
<1>. DEFINE n == Len(cs)
            more(x, i) == Push(x, cs[i])
            Body(m, g) == [i \in 0 .. m |-> IF i = 0 THEN columns ELSE more(g[i - 1], i)]
            Grown == {m \in 0 .. n : \E g : g = Body(m, g)}
            after == CHOOSE g : g = Body(n, g)
<1>1. 0 \in Grown
  <2>. DEFINE g == [i \in 0 .. 0 |-> columns]
  <2>1. g = Body(0, g)
    OBVIOUS
  <2>. HIDE DEF g, Body
  <2>. QED
    BY <2>1
<1>2. ASSUME NEW m \in 1 .. n, m - 1 \in Grown PROVE m \in Grown
  <2>1. PICK g : g = Body(m - 1, g)
    <3>. HIDE DEF Body
    <3>. QED
      BY <1>2
  <2>. DEFINE h == [i \in 0 .. m |-> IF i = m THEN more(g[m - 1], m) ELSE g[i]]
  <2>2. \A i \in 0 .. m - 1 : h[i] = g[i]
    OBVIOUS
  <2>3. ASSUME NEW i \in 0 .. m PROVE h[i] = Body(m, h)[i]
    <3>1. CASE i = m
      <4>1. h[m] = more(g[m - 1], m) /\ h[m - 1] = g[m - 1]
        BY <2>2
      <4>. QED
        BY <3>1, <4>1
    <3>2. CASE i \in 0 .. m - 1
      <4>1. h[i] = g[i] /\ (i # 0 => h[i - 1] = g[i - 1])
        BY <2>2, <3>2
      <4>2. g[i] = IF i = 0 THEN columns ELSE more(g[i - 1], i)
        BY <2>1, <3>2
      <4>. HIDE DEF h
      <4>. QED
        BY <3>2, <4>1, <4>2
    <3>. QED
      BY <3>1, <3>2
  <2>4. h = [i \in 0 .. m |-> h[i]] /\ Body(m, h) = [i \in 0 .. m |-> Body(m, h)[i]]
    OBVIOUS
  <2>. HIDE DEF h, Body
  <2>5. h = Body(m, h)
    BY <2>3, <2>4
  <2>. QED
    BY <2>5
<1>3. n \in Grown
  <2>. HIDE DEF Grown, n
  <2>1. \A m \in 1 .. n : m - 1 \in Grown => m \in Grown
    BY <1>2
  <2>2. n \in Nat
    BY DEF n
  <2>3. \A i \in 0 .. n : i \in Grown
    BY <1>1, <2>1, <2>2, UpTo
  <2>. QED
    BY <2>2, <2>3
<1>4. after = Body(n, after)
  <2>. HIDE DEF Body
  <2>. QED
    BY <1>3
<1>5. PushAll(columns, cs) = after[Len(cs)]
  BY DEF PushAll
<1>. HIDE DEF after
<1>6. \A i \in 0 .. n : after[i] = IF i = 0 THEN columns ELSE more(after[i - 1], i)
  BY <1>4
<1>7. 0 \in 0 .. n /\ \A i \in 1 .. n : i \in 0 .. n /\ i # 0
  OBVIOUS
<1>. QED
  BY <1>5, <1>6, <1>7

\* The configured columns are made concrete and pushed one after the other.
LEMMA ColumnsGo ==
  ASSUME NEW configured, NEW report, Len(configured) \in Nat
  PROVE  \E after : /\ after[0] = <<>>
                    /\ \A i \in 1 .. Len(configured) :
                         after[i] = PushAll(after[i - 1], Concrete(configured[i], report))
                    /\ TableColumns(configured, report) = after[Len(configured)]
<1>. DEFINE n == Len(configured)
            more(x, i) == PushAll(x, Concrete(configured[i], report))
            Body(m, g) == [i \in 0 .. m |-> IF i = 0 THEN <<>> ELSE more(g[i - 1], i)]
            Grown == {m \in 0 .. n : \E g : g = Body(m, g)}
            after == CHOOSE g : g = Body(n, g)
<1>1. 0 \in Grown
  <2>. DEFINE g == [i \in 0 .. 0 |-> <<>>]
  <2>1. g = Body(0, g)
    OBVIOUS
  <2>. HIDE DEF g, Body
  <2>. QED
    BY <2>1
<1>2. ASSUME NEW m \in 1 .. n, m - 1 \in Grown PROVE m \in Grown
  <2>1. PICK g : g = Body(m - 1, g)
    <3>. HIDE DEF Body
    <3>. QED
      BY <1>2
  <2>. DEFINE h == [i \in 0 .. m |-> IF i = m THEN more(g[m - 1], m) ELSE g[i]]
  <2>2. \A i \in 0 .. m - 1 : h[i] = g[i]
    OBVIOUS
  <2>3. ASSUME NEW i \in 0 .. m PROVE h[i] = Body(m, h)[i]
    <3>1. CASE i = m
      <4>1. h[m] = more(g[m - 1], m) /\ h[m - 1] = g[m - 1]
        BY <2>2
      <4>. QED
        BY <3>1, <4>1
    <3>2. CASE i \in 0 .. m - 1
      <4>1. h[i] = g[i] /\ (i # 0 => h[i - 1] = g[i - 1])
        BY <2>2, <3>2
      <4>2. g[i] = IF i = 0 THEN <<>> ELSE more(g[i - 1], i)
        BY <2>1, <3>2
      <4>. HIDE DEF h
      <4>. QED
        BY <3>2, <4>1, <4>2
    <3>. QED
      BY <3>1, <3>2
  <2>4. h = [i \in 0 .. m |-> h[i]] /\ Body(m, h) = [i \in 0 .. m |-> Body(m, h)[i]]
    OBVIOUS
  <2>. HIDE DEF h, Body
  <2>5. h = Body(m, h)
    BY <2>3, <2>4
  <2>. QED
    BY <2>5
<1>3. n \in Grown
  <2>. HIDE DEF Grown, n
  <2>1. \A m \in 1 .. n : m - 1 \in Grown => m \in Grown
    BY <1>2
  <2>2. n \in Nat
    BY DEF n
  <2>3. \A i \in 0 .. n : i \in Grown
    BY <1>1, <2>1, <2>2, UpTo
  <2>. QED
    BY <2>2, <2>3
<1>4. after = Body(n, after)
  <2>. HIDE DEF Body
  <2>. QED
    BY <1>3
<1>5. TableColumns(configured, report) = after[Len(configured)]
  BY DEF TableColumns
<1>. HIDE DEF after
<1>6. \A i \in 0 .. n : after[i] = IF i = 0 THEN <<>> ELSE more(after[i - 1], i)
  BY <1>4
<1>7. 0 \in 0 .. n /\ \A i \in 1 .. n : i \in 0 .. n /\ i # 0
  OBVIOUS
<1>. QED
  BY <1>5, <1>6, <1>7

\* One series after the other goes into the rows.
LEMMA RowsGo ==
  ASSUME NEW series, Len(series) \in Nat
  PROVE  \E after : /\ after[0] = << >>
                    /\ \A i \in 1 .. Len(series) :
                         after[i] = PutAll(after[i - 1], i, series[i])
                    /\ MergedRows(series) = RowsInOrder(after[Len(series)])
<1>. DEFINE n == Len(series)
            more(x, i) == PutAll(x, i, series[i])
            Body(m, g) == [i \in 0 .. m |-> IF i = 0 THEN << >> ELSE more(g[i - 1], i)]
            Grown == {m \in 0 .. n : \E g : g = Body(m, g)}
            after == CHOOSE g : g = Body(n, g)
<1>1. 0 \in Grown
  <2>. DEFINE g == [i \in 0 .. 0 |-> << >>]
  <2>1. g = Body(0, g)
    OBVIOUS
  <2>. HIDE DEF g, Body
  <2>. QED
    BY <2>1
<1>2. ASSUME NEW m \in 1 .. n, m - 1 \in Grown PROVE m \in Grown
  <2>1. PICK g : g = Body(m - 1, g)
    <3>. HIDE DEF Body
    <3>. QED
      BY <1>2
  <2>. DEFINE h == [i \in 0 .. m |-> IF i = m THEN more(g[m - 1], m) ELSE g[i]]
  <2>2. \A i \in 0 .. m - 1 : h[i] = g[i]
    OBVIOUS
  <2>3. ASSUME NEW i \in 0 .. m PROVE h[i] = Body(m, h)[i]
    <3>1. CASE i = m
      <4>1. h[m] = more(g[m - 1], m) /\ h[m - 1] = g[m - 1]
        BY <2>2
      <4>. QED
        BY <3>1, <4>1
    <3>2. CASE i \in 0 .. m - 1
      <4>1. h[i] = g[i] /\ (i # 0 => h[i - 1] = g[i - 1])
        BY <2>2, <3>2
      <4>2. g[i] = IF i = 0 THEN << >> ELSE more(g[i - 1], i)
        BY <2>1, <3>2
      <4>. HIDE DEF h
      <4>. QED
        BY <3>2, <4>1, <4>2
    <3>. QED
      BY <3>1, <3>2
  <2>4. h = [i \in 0 .. m |-> h[i]] /\ Body(m, h) = [i \in 0 .. m |-> Body(m, h)[i]]
    OBVIOUS
  <2>. HIDE DEF h, Body
  <2>5. h = Body(m, h)
    BY <2>3, <2>4
  <2>. QED
    BY <2>5
<1>3. n \in Grown
  <2>. HIDE DEF Grown, n
  <2>1. \A m \in 1 .. n : m - 1 \in Grown => m \in Grown
    BY <1>2
  <2>2. n \in Nat
    BY DEF n
  <2>3. \A i \in 0 .. n : i \in Grown
    BY <1>1, <2>1, <2>2, UpTo
  <2>. QED
    BY <2>2, <2>3
<1>4. after = Body(n, after)
  <2>. HIDE DEF Body
  <2>. QED
    BY <1>3
<1>5. MergedRows(series) = RowsInOrder(after[Len(series)])
  BY DEF MergedRows
<1>. HIDE DEF after
<1>6. \A i \in 0 .. n : after[i] = IF i = 0 THEN << >> ELSE more(after[i - 1], i)
  BY <1>4
<1>7. 0 \in 0 .. n /\ \A i \in 1 .. n : i \in 0 .. n /\ i # 0
  OBVIOUS
<1>. QED
  BY <1>5, <1>6, <1>7

\* The keys join the groups one by one.
LEMMA GroupsGo ==
  ASSUME NEW keys, NEW units, Len(keys) \in Nat
  PROVE  \E after : /\ after[0] = [order |-> <<>>, byUnit |-> << >>]
                    /\ \A i \in 1 .. Len(keys) :
                         after[i] = Grouped(after[i - 1], units[keys[i]], keys[i])
                    /\ UnitGroups(keys, units) = after[Len(keys)]
<1>. DEFINE n == Len(keys)
            more(x, i) == Grouped(x, units[keys[i]], keys[i])
            Body(m, g) == [i \in 0 .. m |-> IF i = 0 THEN [order |-> <<>>, byUnit |-> << >>]
                                            ELSE more(g[i - 1], i)]
            Grown == {m \in 0 .. n : \E g : g = Body(m, g)}
            after == CHOOSE g : g = Body(n, g)
<1>1. 0 \in Grown
  <2>. DEFINE g == [i \in 0 .. 0 |-> [order |-> <<>>, byUnit |-> << >>]]
  <2>1. g = Body(0, g)
    OBVIOUS
  <2>. HIDE DEF g, Body
  <2>. QED
    BY <2>1
<1>2. ASSUME NEW m \in 1 .. n, m - 1 \in Grown PROVE m \in Grown
  <2>1. PICK g : g = Body(m - 1, g)
    <3>. HIDE DEF Body
    <3>. QED
      BY <1>2
  <2>. DEFINE h == [i \in 0 .. m |-> IF i = m THEN more(g[m - 1], m) ELSE g[i]]
  <2>2. \A i \in 0 .. m - 1 : h[i] = g[i]
    OBVIOUS
  <2>3. ASSUME NEW i \in 0 .. m PROVE h[i] = Body(m, h)[i]
    <3>1. CASE i = m
      <4>1. h[m] = more(g[m - 1], m) /\ h[m - 1] = g[m - 1]
        BY <2>2
      <4>. QED
        BY <3>1, <4>1
    <3>2. CASE i \in 0 .. m - 1
      <4>1. h[i] = g[i] /\ (i # 0 => h[i - 1] = g[i - 1])
        BY <2>2, <3>2
      <4>2. g[i] = IF i = 0 THEN [order |-> <<>>, byUnit |-> << >>] ELSE more(g[i - 1], i)
        BY <2>1, <3>2
      <4>. HIDE DEF h
      <4>. QED
        BY <3>2, <4>1, <4>2
    <3>. QED
      BY <3>1, <3>2
  <2>4. h = [i \in 0 .. m |-> h[i]] /\ Body(m, h) = [i \in 0 .. m |-> Body(m, h)[i]]
    OBVIOUS
  <2>. HIDE DEF h, Body
  <2>5. h = Body(m, h)
    BY <2>3, <2>4
  <2>. QED
    BY <2>5
<1>3. n \in Grown
  <2>. HIDE DEF Grown, n
  <2>1. \A m \in 1 .. n : m - 1 \in Grown => m \in Grown
    BY <1>2
  <2>2. n \in Nat
    BY DEF n
  <2>3. \A i \in 0 .. n : i \in Grown
    BY <1>1, <2>1, <2>2, UpTo
  <2>. QED
    BY <2>2, <2>3
<1>4. after = Body(n, after)
  <2>. HIDE DEF Body
  <2>. QED
    BY <1>3
<1>5. UnitGroups(keys, units) = after[Len(keys)]
  BY DEF UnitGroups
<1>. HIDE DEF after
<1>6. \A i \in 0 .. n :
        after[i] = IF i = 0 THEN [order |-> <<>>, byUnit |-> << >>] ELSE more(after[i - 1], i)
  BY <1>4
<1>7. 0 \in 0 .. n /\ \A i \in 1 .. n : i \in 0 .. n /\ i # 0
  OBVIOUS
<1>. QED
  BY <1>5, <1>6, <1>7

\* The groups without an axis are omitted one by one.
LEMMA OmittedGo ==
  ASSUME NEW groups, Len(groups.order) \in Nat
  PROVE  \E after : /\ after[0] = <<>>
                    /\ \A i \in 1 .. Len(groups.order) :
                         after[i] = WithGroup(after[i - 1], groups, i)
                    /\ Omitted(groups) = after[Len(groups.order)]
<1>. DEFINE n == Len(groups.order)
            more(x, i) == WithGroup(x, groups, i)
            Body(m, g) == [i \in 0 .. m |-> IF i = 0 THEN <<>> ELSE more(g[i - 1], i)]
            Grown == {m \in 0 .. n : \E g : g = Body(m, g)}
            after == CHOOSE g : g = Body(n, g)
<1>1. 0 \in Grown
  <2>. DEFINE g == [i \in 0 .. 0 |-> <<>>]
  <2>1. g = Body(0, g)
    OBVIOUS
  <2>. HIDE DEF g, Body
  <2>. QED
    BY <2>1
<1>2. ASSUME NEW m \in 1 .. n, m - 1 \in Grown PROVE m \in Grown
  <2>1. PICK g : g = Body(m - 1, g)
    <3>. HIDE DEF Body
    <3>. QED
      BY <1>2
  <2>. DEFINE h == [i \in 0 .. m |-> IF i = m THEN more(g[m - 1], m) ELSE g[i]]
  <2>2. \A i \in 0 .. m - 1 : h[i] = g[i]
    OBVIOUS
  <2>3. ASSUME NEW i \in 0 .. m PROVE h[i] = Body(m, h)[i]
    <3>1. CASE i = m
      <4>1. h[m] = more(g[m - 1], m) /\ h[m - 1] = g[m - 1]
        BY <2>2
      <4>. QED
        BY <3>1, <4>1
    <3>2. CASE i \in 0 .. m - 1
      <4>1. h[i] = g[i] /\ (i # 0 => h[i - 1] = g[i - 1])
        BY <2>2, <3>2
      <4>2. g[i] = IF i = 0 THEN <<>> ELSE more(g[i - 1], i)
        BY <2>1, <3>2
      <4>. HIDE DEF h
      <4>. QED
        BY <3>2, <4>1, <4>2
    <3>. QED
      BY <3>1, <3>2
  <2>4. h = [i \in 0 .. m |-> h[i]] /\ Body(m, h) = [i \in 0 .. m |-> Body(m, h)[i]]
    OBVIOUS
  <2>. HIDE DEF h, Body
  <2>5. h = Body(m, h)
    BY <2>3, <2>4
  <2>. QED
    BY <2>5
<1>3. n \in Grown
  <2>. HIDE DEF Grown, n
  <2>1. \A m \in 1 .. n : m - 1 \in Grown => m \in Grown
    BY <1>2
  <2>2. n \in Nat
    BY DEF n
  <2>3. \A i \in 0 .. n : i \in Grown
    BY <1>1, <2>1, <2>2, UpTo
  <2>. QED
    BY <2>2, <2>3
<1>4. after = Body(n, after)
  <2>. HIDE DEF Body
  <2>. QED
    BY <1>3
<1>5. Omitted(groups) = after[Len(groups.order)]
  BY DEF Omitted
<1>. HIDE DEF after
<1>6. \A i \in 0 .. n : after[i] = IF i = 0 THEN <<>> ELSE more(after[i - 1], i)
  BY <1>4
<1>7. 0 \in 0 .. n /\ \A i \in 1 .. n : i \in 0 .. n /\ i # 0
  OBVIOUS
<1>. QED
  BY <1>5, <1>6, <1>7

\* The samples of the first series are paired one by one.
LEMMA PairsGo ==
  ASSUME NEW s, NEW t, Len(ByTime(s)) \in Nat, ByTime(t) # <<>>
  PROVE  \E after : /\ after[0] = [j |-> 1, paired |-> <<>>]
                    /\ \A i \in 1 .. Len(ByTime(s)) :
                         after[i] = Paired(ByTime(t), after[i - 1], ByTime(s)[i])
                    /\ PairSeries(s, t) = after[Len(ByTime(s))].paired
<1>. DEFINE n == Len(ByTime(s))
            more(x, i) == Paired(ByTime(t), x, ByTime(s)[i])
            Body(m, g) == [i \in 0 .. m |-> IF i = 0 THEN [j |-> 1, paired |-> <<>>]
                                            ELSE more(g[i - 1], i)]
            Grown == {m \in 0 .. n : \E g : g = Body(m, g)}
            after == CHOOSE g : g = Body(n, g)
<1>1. 0 \in Grown
  <2>. DEFINE g == [i \in 0 .. 0 |-> [j |-> 1, paired |-> <<>>]]
  <2>1. g = Body(0, g)
    OBVIOUS
  <2>. HIDE DEF g, Body
  <2>. QED
    BY <2>1
<1>2. ASSUME NEW m \in 1 .. n, m - 1 \in Grown PROVE m \in Grown
  <2>1. PICK g : g = Body(m - 1, g)
    <3>. HIDE DEF Body
    <3>. QED
      BY <1>2
  <2>. DEFINE h == [i \in 0 .. m |-> IF i = m THEN more(g[m - 1], m) ELSE g[i]]
  <2>2. \A i \in 0 .. m - 1 : h[i] = g[i]
    OBVIOUS
  <2>3. ASSUME NEW i \in 0 .. m PROVE h[i] = Body(m, h)[i]
    <3>1. CASE i = m
      <4>1. h[m] = more(g[m - 1], m) /\ h[m - 1] = g[m - 1]
        BY <2>2
      <4>. QED
        BY <3>1, <4>1
    <3>2. CASE i \in 0 .. m - 1
      <4>1. h[i] = g[i] /\ (i # 0 => h[i - 1] = g[i - 1])
        BY <2>2, <3>2
      <4>2. g[i] = IF i = 0 THEN [j |-> 1, paired |-> <<>>] ELSE more(g[i - 1], i)
        BY <2>1, <3>2
      <4>. HIDE DEF h
      <4>. QED
        BY <3>2, <4>1, <4>2
    <3>. QED
      BY <3>1, <3>2
  <2>4. h = [i \in 0 .. m |-> h[i]] /\ Body(m, h) = [i \in 0 .. m |-> Body(m, h)[i]]
    OBVIOUS
  <2>. HIDE DEF h, Body
  <2>5. h = Body(m, h)
    BY <2>3, <2>4
  <2>. QED
    BY <2>5
<1>3. n \in Grown
  <2>. HIDE DEF Grown, n
  <2>1. \A m \in 1 .. n : m - 1 \in Grown => m \in Grown
    BY <1>2
  <2>2. n \in Nat
    BY DEF n
  <2>3. \A i \in 0 .. n : i \in Grown
    BY <1>1, <2>1, <2>2, UpTo
  <2>. QED
    BY <2>2, <2>3
<1>4. after = Body(n, after)
  <2>. HIDE DEF Body
  <2>. QED
    BY <1>3
<1>5. PairSeries(s, t) = after[Len(ByTime(s))].paired
  BY DEF PairSeries
<1>. HIDE DEF after
<1>6. \A i \in 0 .. n :
        after[i] = IF i = 0 THEN [j |-> 1, paired |-> <<>>] ELSE more(after[i - 1], i)
  BY <1>4
<1>7. 0 \in 0 .. n /\ \A i \in 1 .. n : i \in 0 .. n /\ i # 0
  OBVIOUS
<1>. QED
  BY <1>5, <1>6, <1>7

(***************************************************************************)
(* Pairs: a sample of the first series lies between the middles of the     *)
(* matched sample of the second and its neighbours, and later samples lie  *)
(* behind the same middles and more.                                       *)
(***************************************************************************)
TimeSample == [ts : Int, num : BOOLEAN]
OneAtATime(s) == \A i, j \in DOMAIN s : s[i].ts = s[j].ts => i = j
InTime(b) == \A i, j \in 1 .. Len(b) : i < j => b[i].ts < b[j].ts

LEMMA SampleTimes ==
  ASSUME NEW b \in Seq(TimeSample)
  PROVE  Len(b) \in Nat /\ \A i \in 1 .. Len(b) : b[i] \in TimeSample /\ b[i].ts \in Int
<1>1. Len(b) \in Nat /\ \A i \in 1 .. Len(b) : b[i] \in TimeSample
  OBVIOUS
<1>2. \A p \in TimeSample : p.ts \in Int
  BY DEF TimeSample
<1>. QED
  BY <1>1, <1>2

\* A series by time has the series' samples, earlier ones first.
LEMMA ByTimeSorts ==
  ASSUME NEW s \in Seq(TimeSample), OneAtATime(s)
  PROVE  ByTime(s) \in Seq(TimeSample) /\ InTime(ByTime(s)) /\ Range(ByTime(s)) = Range(s)
<1>. DEFINE T == {p.ts : p \in Range(s)}
            n == Cardinality(T)
            order == Ascending(T)
            b == ByTime(s)
            times == [i \in 1 .. Len(s) |-> s[i].ts]
<1>1. /\ Len(s) \in Nat /\ Range(s) = {s[i] : i \in 1 .. Len(s)}
      /\ \A p \in Range(s) : p \in TimeSample /\ p.ts \in Int
  <2>1. Len(s) \in Nat /\ \A i \in 1 .. Len(s) : s[i] \in TimeSample
    OBVIOUS
  <2>2. Range(s) = {s[i] : i \in 1 .. Len(s)}
    BY DEF Range
  <2>3. \A p \in TimeSample : p.ts \in Int
    BY DEF TimeSample
  <2>. QED
    BY <2>1, <2>2, <2>3
<1>2. T \in SUBSET Int
  BY <1>1
<1>3. IsFiniteSet(T)
  <2>1. times \in Surjection(1 .. Len(s), T)
    <3>1. times \in [1 .. Len(s) -> T]
      BY <1>1
    <3>2. \A t \in T : \E i \in 1 .. Len(s) : times[i] = t
      BY <1>1
    <3>. HIDE DEF times, T
    <3>. QED
      BY <3>1, <3>2 DEF Surjection
  <2>2. IsFiniteSet(1 .. Len(s))
    BY <1>1, FS_Interval
  <2>. HIDE DEF times, T
  <2>. QED
    BY <2>1, <2>2, FS_Surjection
<1>4. n \in Nat /\ Enumerates(order, T)
  <2>. HIDE DEF T
  <2>. QED
    BY <1>2, <1>3, AscendingEnumerates
<1>5. /\ order \in [1 .. n -> T]
      /\ \A i, j \in 1 .. n : i < j => order[i] < order[j]
      /\ \A t \in T : \E i \in 1 .. n : order[i] = t
  BY <1>4 DEF Enumerates
<1>6. b = [i \in 1 .. n |-> CHOOSE p \in Range(s) : p.ts = order[i]]
  <2>1. b = [i \in DOMAIN order |-> CHOOSE p \in Range(s) : p.ts = order[i]]
    BY DEF ByTime
  <2>. QED
    BY <1>5, <2>1
<1>7. \A t \in T : \E p \in Range(s) : p.ts = t
  OBVIOUS
<1>8. \A p \in Range(s) : p.ts \in T
  OBVIOUS
<1>. HIDE DEF T, n, order, b
<1>9. \A i \in 1 .. n : b[i] \in Range(s) /\ b[i].ts = order[i]
  BY <1>5, <1>6, <1>7
<1>10. Len(b) = n /\ DOMAIN b = 1 .. n
  BY <1>4, <1>6
<1>11. b \in Seq(TimeSample)
  <2>1. b \in [1 .. n -> TimeSample]
    BY <1>1, <1>6, <1>9
  <2>. QED
    BY <1>4, <2>1
<1>12. InTime(b)
  BY <1>5, <1>9, <1>10 DEF InTime
<1>13. \A p, q \in Range(s) : p.ts = q.ts => p = q
  BY <1>1 DEF OneAtATime
<1>14. ASSUME NEW p \in Range(s) PROVE \E i \in 1 .. n : b[i] = p
  <2>1. PICK i \in 1 .. n : order[i] = p.ts
    BY <1>5, <1>8
  <2>. QED
    BY <1>9, <1>13, <2>1
<1>15. Range(b) = Range(s)
  <2>1. Range(b) = {b[i] : i \in 1 .. n}
    BY <1>10 DEF Range
  <2>. QED
    BY <1>9, <1>14, <2>1
<1>. QED
  BY <1>11, <1>12, <1>15 DEF b

\* The cursor stops at the last sample or before one that is further away, and it passes
\* a sample only for one that is at least as near.
LEMMA AdvanceStops ==
  ASSUME NEW b \in Seq(TimeSample), NEW j \in 1 .. Len(b), NEW p
  PROVE  /\ Advance(b, j, p) \in j .. Len(b)
         /\ \/ Advance(b, j, p) = Len(b)
            \/ Apart(b[Advance(b, j, p) + 1], p) > Apart(b[Advance(b, j, p)], p)
         /\ \A m \in j .. Advance(b, j, p) - 1 : ~ (Apart(b[m + 1], p) > Apart(b[m], p))
<1>. DEFINE stops(k) == k = Len(b) \/ Apart(b[k + 1], p) > Apart(b[k], p)
            T == {k \in j .. Len(b) : stops(k)}
            k == Min(T)
<1>1. Len(b) \in T /\ T \in SUBSET Nat
  OBVIOUS
<1>2. Advance(b, j, p) = k
  BY DEF Advance
<1>3. k \in T /\ \A m \in T : k <= m
  <2>. HIDE DEF T
  <2>1. \E n \in T : \A m \in T : n <= m
    BY <1>1, LeastNumber
  <2>. QED
    BY <2>1 DEF Min
<1>. HIDE DEF k
<1>4. ASSUME NEW m \in j .. k - 1 PROVE ~ (Apart(b[m + 1], p) > Apart(b[m], p))
  <2>. HIDE DEF stops
  <2>1. m \in j .. Len(b) /\ ~ (k <= m)
    BY <1>3
  <2>2. ~ stops(m)
    BY <1>3, <2>1
  <2>. QED
    BY <2>2 DEF stops
<1>. QED
  BY <1>2, <1>3, <1>4

Nearest(b, p) == {q \in Range(b) : \A r \in Range(b) : Apart(q, p) <= Apart(r, p)}
Match(b, p) == CHOOSE q \in Nearest(b, p) : \A r \in Nearest(b, p) : r.ts <= q.ts

\* A cursor is right for a sample if the sample is past the middle of every two neighbours
\* before the cursor, and not past the middle of the cursor's and the next.
PastMiddles(b, k, t) == \A m \in 1 .. k - 1 : b[m].ts + b[m + 1].ts <= 2 * t
RightFor(b, k, t) == PastMiddles(b, k, t) /\ (k = Len(b) \/ b[k].ts + b[k + 1].ts > 2 * t)

\* For neighbours in time, nearer or as near says on which side of their middle a sample is.
LEMMA MiddleTells ==
  ASSUME NEW q \in TimeSample, NEW r \in TimeSample, NEW p \in TimeSample, q.ts < r.ts
  PROVE  Apart(r, p) > Apart(q, p) <=> q.ts + r.ts > 2 * p.ts
<1>1. q.ts \in Int /\ r.ts \in Int /\ p.ts \in Int
  BY DEF TimeSample
<1>. QED
  BY <1>1 DEF Apart

LEMMA AdvanceIsRight ==
  ASSUME NEW b \in Seq(TimeSample), InTime(b), NEW j \in 1 .. Len(b), NEW p \in TimeSample,
         PastMiddles(b, j, p.ts)
  PROVE  Advance(b, j, p) \in 1 .. Len(b) /\ RightFor(b, Advance(b, j, p), p.ts)
<1>. DEFINE k == Advance(b, j, p)
<1>1. Len(b) \in Nat /\ \A i \in 1 .. Len(b) : b[i] \in TimeSample /\ b[i].ts \in Int
  BY SampleTimes
<1>2. k \in j .. Len(b) /\ (k = Len(b) \/ Apart(b[k + 1], p) > Apart(b[k], p))
  BY AdvanceStops
<1>3. \A m \in j .. k - 1 : ~ (Apart(b[m + 1], p) > Apart(b[m], p))
  BY AdvanceStops
<1>. HIDE DEF k
<1>4. \A m \in 1 .. Len(b) - 1 :
        Apart(b[m + 1], p) > Apart(b[m], p) <=> b[m].ts + b[m + 1].ts > 2 * p.ts
  <2>. TAKE m \in 1 .. Len(b) - 1
  <2>1. m \in 1 .. Len(b) /\ m + 1 \in 1 .. Len(b) /\ m < m + 1
    BY <1>1
  <2>. QED
    BY <1>1, <2>1, MiddleTells DEF InTime
<1>5. ASSUME NEW m \in 1 .. k - 1 PROVE b[m].ts + b[m + 1].ts <= 2 * p.ts
  <2>1. m \in 1 .. j - 1 \/ m \in j .. k - 1
    BY <1>2
  <2>2. CASE m \in 1 .. j - 1
    BY <2>2 DEF PastMiddles
  <2>3. CASE m \in j .. k - 1
    <3>1. m \in 1 .. Len(b) - 1 /\ m + 1 \in 1 .. Len(b) /\ m \in 1 .. Len(b)
      BY <1>1, <1>2, <2>3
    <3>2. ~ (b[m].ts + b[m + 1].ts > 2 * p.ts)
      BY <1>3, <1>4, <2>3, <3>1
    <3>3. b[m].ts \in Int /\ b[m + 1].ts \in Int /\ p.ts \in Int
      BY <1>1, <3>1 DEF TimeSample
    <3>. QED
      BY <3>2, <3>3
  <2>. QED
    BY <2>1, <2>2, <2>3
<1>6. k = Len(b) \/ b[k].ts + b[k + 1].ts > 2 * p.ts
  <2>. SUFFICES ASSUME k # Len(b) PROVE b[k].ts + b[k + 1].ts > 2 * p.ts
    OBVIOUS
  <2>1. k \in 1 .. Len(b) - 1
    BY <1>1, <1>2
  <2>. QED
    BY <1>2, <1>4, <2>1
<1>. QED
  BY <1>2, <1>5, <1>6 DEF RightFor, PastMiddles, k

\* Seen from a sample behind the middle of r and s, what is before r is no nearer than s;
\* from one before the middle of s and r, what is behind r is further than s.
LEMMA NearerOnLine ==
  ASSUME NEW q, NEW r, NEW s, NEW p, q.ts \in Int, r.ts \in Int, s.ts \in Int, p.ts \in Int,
         q.ts < s.ts, q.ts <= r.ts, r.ts + s.ts <= 2 * p.ts
  PROVE  Apart(s, p) <= Apart(q, p)
<1>1. q.ts < p.ts
  OBVIOUS
<1>2. Apart(q, p) = p.ts - q.ts
  BY <1>1 DEF Apart
<1>3. Apart(s, p) = IF s.ts > p.ts THEN s.ts - p.ts ELSE p.ts - s.ts
  BY DEF Apart
<1>. QED
  BY <1>2, <1>3

LEMMA FurtherOnLine ==
  ASSUME NEW q, NEW r, NEW s, NEW p, q.ts \in Int, r.ts \in Int, s.ts \in Int, p.ts \in Int,
         s.ts < q.ts, r.ts <= q.ts, s.ts + r.ts > 2 * p.ts
  PROVE  Apart(s, p) < Apart(q, p)
<1>1. q.ts > p.ts
  OBVIOUS
<1>2. Apart(q, p) = q.ts - p.ts
  BY <1>1 DEF Apart
<1>3. Apart(s, p) = IF s.ts > p.ts THEN s.ts - p.ts ELSE p.ts - s.ts
  BY DEF Apart
<1>. QED
  BY <1>2, <1>3

\* The right cursor for a sample is at its match: the last of the nearest samples.
LEMMA RightIsMatch ==
  ASSUME NEW b \in Seq(TimeSample), InTime(b), NEW p \in TimeSample,
         NEW k \in 1 .. Len(b), RightFor(b, k, p.ts)
  PROVE  Match(b, p) = b[k]
<1>1. /\ Len(b) \in Nat /\ p.ts \in Int
      /\ \A i \in 1 .. Len(b) : b[i] \in TimeSample /\ b[i].ts \in Int
  BY SampleTimes DEF TimeSample
<1>2. \A i, j \in 1 .. Len(b) : i < j => b[i].ts < b[j].ts
  BY DEF InTime
<1>3. ASSUME NEW i \in 1 .. Len(b), i < k PROVE Apart(b[k], p) <= Apart(b[i], p)
  <2>1. b[k - 1].ts + b[k].ts <= 2 * p.ts
    <3>1. k - 1 \in 1 .. k - 1 /\ (k - 1) + 1 = k
      BY <1>3
    <3>. QED
      BY <3>1 DEF RightFor, PastMiddles
  <2>2. k - 1 \in 1 .. Len(b) /\ (i = k - 1 \/ i < k - 1)
    BY <1>1, <1>3
  <2>3. b[i].ts <= b[k - 1].ts
    BY <1>1, <1>2, <2>2
  <2>4. b[i].ts \in Int /\ b[k].ts \in Int /\ b[k - 1].ts \in Int /\ b[i].ts < b[k].ts
    BY <1>1, <1>2, <1>3, <2>2
  <2>. QED
    BY <1>1, <2>1, <2>3, <2>4, NearerOnLine
<1>4. ASSUME NEW i \in 1 .. Len(b), k < i PROVE Apart(b[k], p) < Apart(b[i], p)
  <2>1. b[k].ts + b[k + 1].ts > 2 * p.ts
    BY <1>1, <1>4 DEF RightFor
  <2>2. k + 1 \in 1 .. Len(b) /\ (i = k + 1 \/ k + 1 < i)
    BY <1>1, <1>4
  <2>3. b[k + 1].ts <= b[i].ts
    BY <1>1, <1>2, <2>2
  <2>4. b[i].ts \in Int /\ b[k].ts \in Int /\ b[k + 1].ts \in Int /\ b[k].ts < b[i].ts
    BY <1>1, <1>2, <1>4, <2>2
  <2>. QED
    BY <1>1, <2>1, <2>3, <2>4, FurtherOnLine
<1>5. Range(b) = {b[i] : i \in 1 .. Len(b)}
  BY DEF Range
<1>6. \A i \in 1 .. Len(b) : Apart(b[i], p) \in Int
  BY <1>1 DEF Apart
<1>7. \A i \in 1 .. Len(b) : Apart(b[k], p) <= Apart(b[i], p)
  <2>. TAKE i \in 1 .. Len(b)
  <2>1. i < k \/ k < i \/ i = k
    BY <1>1
  <2>. QED
    BY <1>3, <1>4, <1>6, <2>1
<1>8. b[k] \in Nearest(b, p)
  BY <1>5, <1>7 DEF Nearest
<1>9. ASSUME NEW r \in Nearest(b, p) PROVE r.ts <= b[k].ts /\ (r.ts = b[k].ts => r = b[k])
  <2>1. PICK i \in 1 .. Len(b) : r = b[i]
    BY <1>5 DEF Nearest
  <2>2. Apart(b[i], p) <= Apart(b[k], p)
    BY <1>5, <2>1 DEF Nearest
  <2>3. ~ (k < i)
    BY <1>4, <1>6, <2>2
  <2>4. i < k \/ i = k
    BY <1>1, <2>3
  <2>. QED
    BY <1>1, <1>2, <2>1, <2>4
<1>10. Match(b, p) \in Nearest(b, p) /\ \A r \in Nearest(b, p) : r.ts <= Match(b, p).ts
  BY <1>8, <1>9 DEF Match
<1>11. Match(b, p).ts = b[k].ts
  <2>1. Match(b, p).ts <= b[k].ts /\ b[k].ts <= Match(b, p).ts
    BY <1>8, <1>9, <1>10
  <2>2. Match(b, p) \in Range(b)
    BY <1>10 DEF Nearest
  <2>3. Match(b, p).ts \in Int /\ b[k].ts \in Int
    BY <1>1, <1>5, <2>2
  <2>. QED
    BY <2>1, <2>3
<1>. QED
  BY <1>9, <1>10, <1>11

\* The members of a sequence with one more.
LEMMA RangeOfAppend ==
  ASSUME NEW S, NEW s \in Seq(S), NEW e
  PROVE  /\ Range(s) = {s[i] : i \in 1 .. Len(s)}
         /\ Range(Append(s, e)) = Range(s) \cup {e}
<1>1. Len(s) \in Nat /\ DOMAIN s = 1 .. Len(s)
  OBVIOUS
<1>2. /\ DOMAIN Append(s, e) = 1 .. Len(s) + 1
      /\ \A i \in 1 .. Len(s) : Append(s, e)[i] = s[i]
      /\ Append(s, e)[Len(s) + 1] = e
  OBVIOUS
<1>3. \A i : i \in 1 .. Len(s) + 1 <=> i \in 1 .. Len(s) \/ i = Len(s) + 1
  BY <1>1
<1>. QED
  BY <1>1, <1>2, <1>3 DEF Range

\* A sample that is paired, and the pair.
PairOf(b, p) == <<p.ts, Match(b, p).ts>>
IsPaired(b, p) == /\ Apart(p, Match(b, p)) <= PairTolerance
                  /\ p.num /\ Match(b, p).num

\* What the cursor and the pairs keep as the first n samples are paired.
PairsSoFar(a, b, acc, n) ==
  /\ acc.j \in 1 .. Len(b)
  /\ n = 0 => acc.j = 1 /\ acc.paired = <<>>
  /\ n > 0 => PastMiddles(b, acc.j, a[n].ts)
  /\ acc.paired \in Seq(Int \X Int)
  /\ Range(acc.paired) = {PairOf(b, a[i]) : i \in {i \in 1 .. n : IsPaired(b, a[i])}}
  /\ \A i \in 1 .. Len(acc.paired) : n > 0 /\ acc.paired[i][1] <= a[n].ts
  /\ \A i \in 1 .. Len(acc.paired) - 1 : acc.paired[i][1] < acc.paired[i + 1][1]

LEMMA OneMorePair ==
  ASSUME NEW a \in Seq(TimeSample), InTime(a), NEW b \in Seq(TimeSample), InTime(b),
         NEW n \in 1 .. Len(a), NEW acc, PairsSoFar(a, b, acc, n - 1)
  PROVE  PairsSoFar(a, b, Paired(b, acc, a[n]), n)
<1>. DEFINE p == a[n]
            k == Advance(b, acc.j, p)
            next == Paired(b, acc, p)
            e == <<p.ts, b[k].ts>>
            fits == Apart(b[k], p) <= PairTolerance /\ p.num /\ b[k].num
<1>1. /\ Len(a) \in Nat /\ \A i \in 1 .. Len(a) : a[i] \in TimeSample /\ a[i].ts \in Int
      /\ Len(b) \in Nat /\ \A i \in 1 .. Len(b) : b[i] \in TimeSample /\ b[i].ts \in Int
  BY SampleTimes
<1>2. acc.j \in 1 .. Len(b) /\ PastMiddles(b, acc.j, p.ts)
  <2>1. acc.j \in 1 .. Len(b)
    BY DEF PairsSoFar
  <2>2. CASE n = 1
    <3>1. acc.j = 1
      BY <2>2 DEF PairsSoFar
    <3>. QED
      BY <2>1, <3>1 DEF PastMiddles
  <2>3. CASE n > 1
    <3>1. PastMiddles(b, acc.j, a[n - 1].ts)
      BY <1>1, <2>3 DEF PairsSoFar
    <3>2. n - 1 \in 1 .. Len(a) /\ a[n - 1].ts \in Int /\ a[n].ts \in Int
      BY <1>1, <2>3
    <3>3. a[n - 1].ts < a[n].ts
      BY <1>1, <2>3, <3>2 DEF InTime
    <3>4. ASSUME NEW m \in 1 .. acc.j - 1 PROVE b[m].ts + b[m + 1].ts <= 2 * a[n].ts
      <4>1. m \in 1 .. Len(b) /\ m + 1 \in 1 .. Len(b)
        BY <1>1, <2>1
      <4>2. b[m].ts \in Int /\ b[m + 1].ts \in Int
        BY <1>1, <4>1
      <4>3. b[m].ts + b[m + 1].ts <= 2 * a[n - 1].ts
        BY <3>1 DEF PastMiddles
      <4>. QED
        BY <3>2, <3>3, <4>2, <4>3
    <3>. QED
      BY <2>1, <3>4 DEF PastMiddles
  <2>. QED
    BY <1>1, <2>1, <2>2, <2>3
<1>3. k \in 1 .. Len(b) /\ RightFor(b, k, p.ts)
  BY <1>1, <1>2, AdvanceIsRight
<1>4. Match(b, p) = b[k]
  BY <1>1, <1>3, RightIsMatch
<1>5. e = PairOf(b, p) /\ (fits <=> IsPaired(b, p)) /\ e \in Int \X Int /\ e[1] = p.ts
  <2>1. b[k].ts \in Int /\ p.ts \in Int
    BY <1>1, <1>3
  <2>2. Apart(b[k], p) = Apart(p, b[k])
    BY <2>1 DEF Apart
  <2>. QED
    BY <1>4, <2>1, <2>2 DEF PairOf, IsPaired
<1>6. next.j = k /\ next.paired = IF fits THEN Append(acc.paired, e) ELSE acc.paired
  BY DEF Paired
<1>7. acc.paired \in Seq(Int \X Int) /\ Len(acc.paired) \in Nat
  BY DEF PairsSoFar
<1>8. \A i \in 1 .. Len(acc.paired) :
        acc.paired[i][1] \in Int /\ acc.paired[i][1] < p.ts
  <2>. TAKE i \in 1 .. Len(acc.paired)
  <2>1. acc.paired[i] \in Int \X Int
    BY <1>7
  <2>2. n - 1 > 0 /\ acc.paired[i][1] <= a[n - 1].ts
    BY DEF PairsSoFar
  <2>3. n - 1 \in 1 .. Len(a) /\ n \in 1 .. Len(a) /\ n - 1 < n
    BY <1>1, <2>2
  <2>4. a[n - 1].ts < p.ts /\ a[n - 1].ts \in Int /\ p.ts \in Int
    BY <1>1, <2>3 DEF InTime
  <2>. QED
    BY <2>1, <2>2, <2>4
<1>9. Range(acc.paired) = {PairOf(b, a[i]) : i \in {i \in 1 .. n - 1 : IsPaired(b, a[i])}}
  BY DEF PairsSoFar
<1>10. \A i : i \in 1 .. n <=> i \in 1 .. n - 1 \/ i = n
  BY <1>1
<1>11. \A i \in 1 .. Len(acc.paired) - 1 : acc.paired[i][1] < acc.paired[i + 1][1]
  BY DEF PairsSoFar
<1>12. p.ts \in Int /\ n > 0
  BY <1>1
<1>. HIDE DEF k, e, fits, next
<1>13. PastMiddles(b, next.j, a[n].ts)
  BY <1>3, <1>6 DEF RightFor
<1>14. CASE fits
  <2>. DEFINE q == Append(acc.paired, e)
              l == Len(acc.paired)
  <2>1. /\ q \in Seq(Int \X Int) /\ Len(q) = l + 1 /\ q[l + 1] = e
        /\ \A i \in 1 .. l : q[i] = acc.paired[i]
    BY <1>5, <1>7
  <2>2. Range(q) = Range(acc.paired) \cup {e}
    BY <1>7, RangeOfAppend
  <2>3. next.paired = q
    BY <1>6, <1>14
  <2>4. l \in Nat
    BY <1>7
  <2>5. \A i : i \in 1 .. l + 1 <=> i \in 1 .. l \/ i = l + 1
    BY <2>4
  <2>. HIDE DEF q, l
  <2>6. Range(q) = {PairOf(b, a[i]) : i \in {i \in 1 .. n : IsPaired(b, a[i])}}
    BY <1>5, <1>9, <1>10, <1>14, <2>2
  <2>7. \A i \in 1 .. Len(q) : n > 0 /\ q[i][1] <= a[n].ts
    <3>. TAKE i \in 1 .. Len(q)
    <3>1. CASE i = l + 1
      BY <1>5, <1>12, <2>1, <3>1
    <3>2. CASE i \in 1 .. l
      <4>1. acc.paired[i][1] \in Int /\ acc.paired[i][1] < p.ts
        BY <1>8, <3>2 DEF l
      <4>2. q[i] = acc.paired[i]
        BY <2>1, <3>2
      <4>. QED
        BY <1>12, <4>1, <4>2
    <3>. QED
      BY <2>1, <2>5, <3>1, <3>2
  <2>8. \A i \in 1 .. Len(q) - 1 : q[i][1] < q[i + 1][1]
    <3>. TAKE i \in 1 .. Len(q) - 1
    <3>1. i \in 1 .. l /\ q[i] = acc.paired[i]
      BY <2>1, <2>4
    <3>2. CASE i = l
      <4>1. q[i + 1] = e
        BY <2>1, <3>2
      <4>. QED
        BY <1>5, <1>8, <3>1, <4>1 DEF l
    <3>3. CASE i \in 1 .. l - 1
      <4>1. i + 1 \in 1 .. l
        BY <2>4, <3>3
      <4>2. q[i + 1] = acc.paired[i + 1]
        BY <2>1, <4>1
      <4>. QED
        BY <1>11, <3>1, <3>3, <4>2 DEF l
    <3>. QED
      BY <2>1, <2>4, <3>2, <3>3
  <2>9. n # 0 /\ next.j \in 1 .. Len(b)
    BY <1>3, <1>6, <1>12
  <2>10. /\ next.paired \in Seq(Int \X Int)
         /\ Range(next.paired) = {PairOf(b, a[i]) : i \in {i \in 1 .. n : IsPaired(b, a[i])}}
         /\ \A i \in 1 .. Len(next.paired) : n > 0 /\ next.paired[i][1] <= a[n].ts
         /\ \A i \in 1 .. Len(next.paired) - 1 : next.paired[i][1] < next.paired[i + 1][1]
    BY <2>1, <2>3, <2>6, <2>7, <2>8
  <2>. QED
    BY <1>12, <1>13, <2>9, <2>10, Zenon DEF PairsSoFar, next
<1>15. CASE ~ fits
  <2>1. next.paired = acc.paired
    BY <1>6, <1>15
  <2>2. Range(acc.paired) = {PairOf(b, a[i]) : i \in {i \in 1 .. n : IsPaired(b, a[i])}}
    BY <1>5, <1>9, <1>10, <1>15
  <2>3. \A i \in 1 .. Len(acc.paired) : n > 0 /\ acc.paired[i][1] <= a[n].ts
    BY <1>8, <1>12
  <2>4. n # 0 /\ next.j \in 1 .. Len(b)
    BY <1>3, <1>6, <1>12
  <2>5. /\ next.paired \in Seq(Int \X Int)
        /\ Range(next.paired) = {PairOf(b, a[i]) : i \in {i \in 1 .. n : IsPaired(b, a[i])}}
        /\ \A i \in 1 .. Len(next.paired) : n > 0 /\ next.paired[i][1] <= a[n].ts
        /\ \A i \in 1 .. Len(next.paired) - 1 : next.paired[i][1] < next.paired[i + 1][1]
    BY <1>7, <1>11, <2>1, <2>2, <2>3
  <2>. QED
    BY <1>12, <1>13, <2>4, <2>5, Zenon DEF PairsSoFar, next
<1>. QED
  BY <1>14, <1>15 DEF next

(* Two series are joined as a chart of one against the other needs them:   *)
(* every numeric sample of the first, in time order, with the latest of    *)
(* the nearest samples of the second, where that one is numeric and near   *)
(* enough.  For any two series that have one sample at a time.             *)
THEOREM PairsAreNearest ==
  ASSUME NEW s \in Seq(TimeSample), OneAtATime(s), NEW t \in Seq(TimeSample), OneAtATime(t)
  PROVE  PairsNearest(s, t, PairSeries(s, t))
<1>. DEFINE a == ByTime(s)
            b == ByTime(t)
            n == Len(a)
            paired == PairSeries(s, t)
<1>1. a \in Seq(TimeSample) /\ InTime(a) /\ Range(a) = Range(s)
  BY ByTimeSorts
<1>2. b \in Seq(TimeSample) /\ InTime(b) /\ Range(b) = Range(t)
  BY ByTimeSorts
<1>3. n \in Nat /\ Len(b) \in Nat /\ Range(a) = {a[i] : i \in 1 .. n}
  BY <1>1, <1>2 DEF Range
<1>4. t = <<>> <=> b = <<>>
  <2>1. Range(t) = {t[i] : i \in 1 .. Len(t)} /\ Range(b) = {b[i] : i \in 1 .. Len(b)}
    BY <1>2 DEF Range
  <2>2. t = <<>> <=> Len(t) = 0
    OBVIOUS
  <2>3. b = <<>> <=> Len(b) = 0
    BY <1>2
  <2>4. Len(t) = 0 <=> Range(t) = {}
    <3>1. Len(t) \in Nat /\ (Len(t) # 0 => 1 \in 1 .. Len(t))
      OBVIOUS
    <3>2. Len(t) = 0 => 1 .. Len(t) = {}
      OBVIOUS
    <3>. QED
      BY <2>1, <3>1, <3>2
  <2>5. Len(b) = 0 <=> Range(b) = {}
    <3>1. Len(b) # 0 => 1 \in 1 .. Len(b)
      BY <1>3
    <3>2. Len(b) = 0 => 1 .. Len(b) = {}
      BY <1>3
    <3>. QED
      BY <2>1, <3>1, <3>2
  <2>. QED
    BY <1>2, <2>2, <2>3, <2>4, <2>5
<1>5. \A p : Match(b, p) = Match(t, p)
  BY <1>2 DEF Match, Nearest
<1>6. /\ Range(paired) = {PairOf(b, p) : p \in {p \in Range(s) : t # <<>> /\ IsPaired(b, p)}}
      /\ \A i \in 1 .. Len(paired) - 1 : paired[i][1] < paired[i + 1][1]
  <2>1. CASE b = <<>>
    <3>1. paired = <<>>
      BY <2>1 DEF PairSeries
    <3>2. Len(paired) = 0 /\ Range(paired) = {}
      BY <3>1 DEF Range
    <3>. QED
      BY <1>4, <2>1, <3>2
  <2>2. CASE b # <<>>
    <3>1. PICK after : /\ after[0] = [j |-> 1, paired |-> <<>>]
                       /\ \A i \in 1 .. n : after[i] = Paired(b, after[i - 1], a[i])
                       /\ paired = after[n].paired
      BY <1>3, <2>2, PairsGo
    <3>. HIDE DEF paired, a, b, n
    <3>. DEFINE Reached == {i \in 0 .. n : PairsSoFar(a, b, after[i], i)}
    <3>2. 0 \in Reached
      <4>1. PICK bare : bare = <<>>
        OBVIOUS
      <4>2. bare \in Seq(Int \X Int) /\ Len(bare) = 0 /\ Range(bare) = {}
        BY <4>1 DEF Range
      <4>3. Len(b) >= 1
        BY <1>2, <1>3, <2>2
      <4>4. after[0].j = 1 /\ after[0].paired = bare
        BY <3>1, <4>1
      <4>5. PairsSoFar(a, b, after[0], 0)
        BY <1>3, <4>1, <4>2, <4>3, <4>4 DEF PairsSoFar
      <4>. QED
        BY <1>3, <4>5
    <3>3. \A i \in 1 .. n : i - 1 \in Reached => i \in Reached
      <4>. SUFFICES ASSUME NEW i \in 1 .. n, i - 1 \in Reached PROVE i \in Reached
        OBVIOUS
      <4>1. i \in 1 .. Len(a)
        BY DEF n
      <4>2. PairsSoFar(a, b, Paired(b, after[i - 1], a[i]), i)
        BY <1>1, <1>2, <4>1, OneMorePair
      <4>. QED
        BY <3>1, <4>2
    <3>. HIDE DEF Reached
    <3>4. \A i \in 0 .. n : i \in Reached
      BY <1>3, <3>2, <3>3, UpTo
    <3>5. PairsSoFar(a, b, after[n], n)
      BY <1>3, <3>4 DEF Reached
    <3>6. Range(paired) = {PairOf(b, a[i]) : i \in {i \in 1 .. n : IsPaired(b, a[i])}}
      BY <3>1, <3>5 DEF PairsSoFar
    <3>7. \A i \in 1 .. Len(paired) - 1 : paired[i][1] < paired[i + 1][1]
      BY <3>1, <3>5 DEF PairsSoFar
    <3>8. \A p : p \in Range(s) <=> \E i \in 1 .. n : p = a[i]
      BY <1>1, <1>3
    <3>. QED
      BY <1>4, <2>2, <3>6, <3>7, <3>8
  <2>. QED
    BY <2>1, <2>2
<1>. HIDE DEF a, b, n, paired
<1>7. Range(paired) = {PairOf(t, p) : p \in {p \in Range(s) : t # <<>> /\ IsPaired(t, p)}}
  BY <1>5, <1>6 DEF PairOf, IsPaired
<1>8. {PairOf(t, p) : p \in {p \in Range(s) : t # <<>> /\ IsPaired(t, p)}} =
      {<<p.ts, Match(t, p).ts>> : p \in {p \in Range(s) :
         t # <<>> /\ p.num /\ Match(t, p).num /\ Apart(p, Match(t, p)) <= PairTolerance}}
  BY DEF PairOf, IsPaired
<1>. QED
  BY <1>6, <1>7, <1>8 DEF PairsNearest, Match, Nearest, paired

(***************************************************************************)
(* Rows: every timestamp of a series has a row, and a row the series that  *)
(* have a sample at its time.                                              *)
(***************************************************************************)
TimesFinite(rows) == DOMAIN rows \in SUBSET Int /\ IsFiniteSet(DOMAIN rows)
IsIn(rows, t, x) == t \in DOMAIN rows /\ x \in rows[t]
HasSample(points, n, t) == \E i \in 1 .. n : points[i].ts = t

LEMMA PutOne ==
  ASSUME NEW rows, TimesFinite(rows), NEW s, NEW p \in TimeSample
  PROVE  /\ TimesFinite(Put(rows, s, p))
         /\ \A t, x : IsIn(Put(rows, s, p), t, x) <=> IsIn(rows, t, x) \/ (x = s /\ t = p.ts)
<1>1. DOMAIN Put(rows, s, p) = DOMAIN rows \cup {p.ts} /\ p.ts \in Int
  BY DEF Put, TimeSample
<1>2. TimesFinite(Put(rows, s, p))
  BY <1>1, FS_AddElement DEF TimesFinite
<1>3. ASSUME NEW t, NEW x
      PROVE  IsIn(Put(rows, s, p), t, x) <=> IsIn(rows, t, x) \/ (x = s /\ t = p.ts)
  <2>1. CASE t = p.ts
    <3>1. Put(rows, s, p)[t] = RowAt(rows, p) \cup {s}
      BY <2>1 DEF Put
    <3>. QED
      BY <1>1, <2>1, <3>1 DEF IsIn, RowAt
  <2>2. CASE t # p.ts
    <3>1. t \in DOMAIN rows => Put(rows, s, p)[t] = rows[t]
      BY <2>2 DEF Put
    <3>. QED
      BY <1>1, <2>2, <3>1 DEF IsIn
  <2>. QED
    BY <2>1, <2>2
<1>. QED
  BY <1>2, <1>3

LEMMA PutSeries ==
  ASSUME NEW rows, TimesFinite(rows), NEW s, NEW points \in Seq(TimeSample)
  PROVE  /\ TimesFinite(PutAll(rows, s, points))
         /\ \A t, x : IsIn(PutAll(rows, s, points), t, x) <=>
                        IsIn(rows, t, x) \/ (x = s /\ HasSample(points, Len(points), t))
<1>. DEFINE n == Len(points)
            good(m, i) ==
              /\ TimesFinite(m)
              /\ \A t, x : IsIn(m, t, x) <=> IsIn(rows, t, x) \/ (x = s /\ HasSample(points, i, t))
<1>1. n \in Nat /\ \A i \in 1 .. n : points[i] \in TimeSample
  OBVIOUS
<1>2. PICK after : /\ after[0] = rows
                   /\ \A i \in 1 .. n : after[i] = Put(after[i - 1], s, points[i])
                   /\ PutAll(rows, s, points) = after[n]
  <2>1. Len(points) \in Nat
    OBVIOUS
  <2>. QED
    BY <2>1, PutAllGoes, SMT
<1>. DEFINE Reached == {i \in 0 .. n : good(after[i], i)}
<1>3. 0 \in Reached
  <2>1. \A t : ~ HasSample(points, 0, t)
    BY DEF HasSample
  <2>. QED
    BY <1>1, <1>2, <2>1
<1>4. ASSUME NEW i \in 1 .. n, i - 1 \in Reached PROVE i \in Reached
  <2>. DEFINE m == after[i - 1]
              p == points[i]
  <2>1. good(m, i - 1)
    BY <1>4
  <2>2. \A t : HasSample(points, i, t) <=> HasSample(points, i - 1, t) \/ t = p.ts
    <3>1. \A k : k \in 1 .. i <=> k \in 1 .. i - 1 \/ k = i
      BY <1>1
    <3>. QED
      BY <3>1 DEF HasSample
  <2>3. after[i] = Put(m, s, p) /\ p \in TimeSample
    BY <1>1, <1>2
  <2>. HIDE DEF m, p
  <2>4. /\ TimesFinite(Put(m, s, p))
        /\ \A t, x : IsIn(Put(m, s, p), t, x) <=> IsIn(m, t, x) \/ (x = s /\ t = p.ts)
    BY <2>1, <2>3, PutOne
  <2>5. good(after[i], i)
    BY <2>1, <2>2, <2>3, <2>4
  <2>. QED
    BY <1>1, <2>5
<1>. HIDE DEF Reached
<1>5. \A i \in 1 .. n : i - 1 \in Reached => i \in Reached
  BY <1>4
<1>6. \A i \in 0 .. n : i \in Reached
  BY <1>1, <1>3, <1>5, UpTo
<1>. QED
  BY <1>1, <1>2, <1>6 DEF Reached

\* Rows in order are earliest first and hold what the rows held.
LEMMA RowsSorted ==
  ASSUME NEW rows, TimesFinite(rows)
  PROVE  LET sorted == RowsInOrder(rows) IN
         /\ \A i \in 1 .. Len(sorted) - 1 : sorted[i].ts < sorted[i + 1].ts
         /\ \A t, x : IsIn(rows, t, x) <=>
              \E i \in DOMAIN sorted : sorted[i].ts = t /\ x \in sorted[i].in
<1>. DEFINE T == DOMAIN rows
            n == Cardinality(T)
            order == Ascending(T)
            sorted == RowsInOrder(rows)
<1>1. n \in Nat /\ Enumerates(order, T)
  BY AscendingEnumerates DEF TimesFinite
<1>2. /\ order \in [1 .. n -> T]
      /\ \A i, j \in 1 .. n : i < j => order[i] < order[j]
      /\ \A t \in T : \E i \in 1 .. n : order[i] = t
  BY <1>1 DEF Enumerates
<1>3. sorted = [i \in DOMAIN order |-> [ts |-> order[i], in |-> rows[order[i]]]]
  BY DEF RowsInOrder
<1>. HIDE DEF n, order, sorted
<1>4. /\ DOMAIN sorted = 1 .. n /\ Len(sorted) = n
      /\ \A i \in 1 .. n : sorted[i].ts = order[i] /\ sorted[i].in = rows[order[i]]
  BY <1>1, <1>2, <1>3
<1>5. \A i \in 1 .. Len(sorted) - 1 : sorted[i].ts < sorted[i + 1].ts
  <2>. TAKE i \in 1 .. Len(sorted) - 1
  <2>1. i \in 1 .. n /\ i + 1 \in 1 .. n /\ i < i + 1
    BY <1>1, <1>4
  <2>. QED
    BY <1>2, <1>4, <2>1
<1>6. \A t, x : IsIn(rows, t, x) <=>
        \E i \in DOMAIN sorted : sorted[i].ts = t /\ x \in sorted[i].in
  BY <1>2, <1>4 DEF IsIn
<1>. QED
  BY <1>5, <1>6 DEF sorted

(* The rows of a table of series, and the points of a chart of several:    *)
(* one for each time at which a series has a sample, oldest first, with    *)
(* all the series that have one then.  For any series in any order.        *)
THEOREM RowsMergeAll ==
  ASSUME NEW series \in Seq(Seq(TimeSample))
  PROVE  RowsMerge(series, MergedRows(series))
<1>. DEFINE n == Len(series)
            good(rows, i) ==
              /\ TimesFinite(rows)
              /\ \A t, x : IsIn(rows, t, x) <=>
                             x \in 1 .. i /\ HasSample(series[x], Len(series[x]), t)
<1>1. n \in Nat /\ \A i \in 1 .. n : series[i] \in Seq(TimeSample)
  OBVIOUS
<1>2. PICK after : /\ after[0] = << >>
                   /\ \A i \in 1 .. n : after[i] = PutAll(after[i - 1], i, series[i])
                   /\ MergedRows(series) = RowsInOrder(after[n])
  BY <1>1, RowsGo
<1>. DEFINE Reached == {i \in 0 .. n : good(after[i], i)}
<1>3. 0 \in Reached
  <2>1. DOMAIN after[0] = {}
    BY <1>2
  <2>2. TimesFinite(after[0])
    BY <2>1, FS_EmptySet DEF TimesFinite
  <2>3. \A t, x : ~ IsIn(after[0], t, x) /\ ~ (x \in 1 .. 0)
    BY <2>1 DEF IsIn
  <2>. QED
    BY <1>1, <2>2, <2>3
<1>4. ASSUME NEW i \in 1 .. n, i - 1 \in Reached PROVE i \in Reached
  <2>. DEFINE m == after[i - 1]
              points == series[i]
  <2>1. good(m, i - 1)
    BY <1>4
  <2>2. \A x : x \in 1 .. i <=> x \in 1 .. i - 1 \/ x = i
    BY <1>1
  <2>3. after[i] = PutAll(m, i, points) /\ points \in Seq(TimeSample)
    BY <1>1, <1>2
  <2>. HIDE DEF m
  <2>4. /\ TimesFinite(PutAll(m, i, points))
        /\ \A t, x : IsIn(PutAll(m, i, points), t, x) <=>
                       IsIn(m, t, x) \/ (x = i /\ HasSample(points, Len(points), t))
    BY <2>1, <2>3, PutSeries
  <2>5. good(after[i], i)
    BY <2>1, <2>2, <2>3, <2>4
  <2>. QED
    BY <1>1, <2>5
<1>. HIDE DEF Reached
<1>5. \A i \in 1 .. n : i - 1 \in Reached => i \in Reached
  BY <1>4
<1>6. \A i \in 0 .. n : i \in Reached
  BY <1>1, <1>3, <1>5, UpTo
<1>. DEFINE rows == after[n]
            sorted == MergedRows(series)
<1>7. good(rows, n)
  <2>. HIDE DEF good
  <2>1. n \in 0 .. n
    BY <1>1
  <2>. QED
    BY <1>6, <2>1 DEF Reached
<1>8. /\ \A i \in 1 .. Len(sorted) - 1 : sorted[i].ts < sorted[i + 1].ts
      /\ \A t, x : IsIn(rows, t, x) <=>
           \E i \in DOMAIN sorted : sorted[i].ts = t /\ x \in sorted[i].in
  <2>1. TimesFinite(rows)
    BY <1>7
  <2>2. sorted = RowsInOrder(rows)
    BY <1>2
  <2>. HIDE DEF rows, sorted
  <2>. QED
    BY <2>1, <2>2, RowsSorted
<1>. HIDE DEF rows, sorted
<1>9. \A x \in 1 .. n : \A t :
        HasSample(series[x], Len(series[x]), t) <=> \E p \in Range(series[x]) : p.ts = t
  <2>. TAKE x \in 1 .. n
  <2>. TAKE t
  <2>1. DOMAIN series[x] = 1 .. Len(series[x])
    BY <1>1
  <2>2. Range(series[x]) = {series[x][i] : i \in 1 .. Len(series[x])}
    BY <2>1 DEF Range
  <2>. QED
    BY <2>2 DEF HasSample
<1>10. \A t, x : (\E i \in DOMAIN sorted : sorted[i].ts = t /\ x \in sorted[i].in)
         <=> x \in DOMAIN series /\ \E p \in Range(series[x]) : p.ts = t
  <2>1. DOMAIN series = 1 .. n
    OBVIOUS
  <2>. HIDE DEF n
  <2>. QED
    BY <1>7, <1>8, <1>9, <2>1
<1>11. UNION {{<<sorted[i].ts, s>> : s \in sorted[i].in} : i \in DOMAIN sorted}
         = UNION {{<<p.ts, s>> : p \in Range(series[s])} : s \in DOMAIN series}
  <2>. DEFINE drawn == UNION {{<<sorted[i].ts, s>> : s \in sorted[i].in} : i \in DOMAIN sorted}
              due == UNION {{<<p.ts, s>> : p \in Range(series[s])} : s \in DOMAIN series}
  <2>1. \A e : e \in drawn <=> \E i \in DOMAIN sorted : \E s \in sorted[i].in :
                                 e = <<sorted[i].ts, s>>
    OBVIOUS
  <2>2. \A e : e \in due <=> \E s \in DOMAIN series : \E p \in Range(series[s]) :
                                 e = <<p.ts, s>>
    OBVIOUS
  <2>. HIDE DEF drawn, due
  <2>3. ASSUME NEW e \in drawn PROVE e \in due
    <3>1. PICK i \in DOMAIN sorted : \E s \in sorted[i].in : e = <<sorted[i].ts, s>>
      BY <2>1, <2>3
    <3>2. PICK s \in sorted[i].in : e = <<sorted[i].ts, s>>
      BY <3>1
    <3>3. s \in DOMAIN series /\ \E p \in Range(series[s]) : p.ts = sorted[i].ts
      BY <1>10, <3>1, <3>2
    <3>. QED
      BY <2>2, <3>2, <3>3
  <2>4. ASSUME NEW e \in due PROVE e \in drawn
    <3>1. PICK s \in DOMAIN series : \E p \in Range(series[s]) : e = <<p.ts, s>>
      BY <2>2, <2>4
    <3>2. PICK p \in Range(series[s]) : e = <<p.ts, s>>
      BY <3>1
    <3>3. \E i \in DOMAIN sorted : sorted[i].ts = p.ts /\ s \in sorted[i].in
      BY <1>10, <3>1, <3>2
    <3>. QED
      BY <2>1, <3>2, <3>3
  <2>. QED
    BY <2>3, <2>4 DEF drawn, due
<1>. QED
  BY <1>8, <1>11 DEF RowsMerge, sorted

(***************************************************************************)
(* Lists without repetition                                                *)
(***************************************************************************)
\* s lists the members of R, each once; S is any set that holds them.
ListsOnce(s, R, S) == s \in Seq(S) /\ IsInjective(s) /\ Range(s) = R

LEMMA NothingListed == ASSUME NEW S PROVE ListsOnce(<<>>, {}, S)
<1>1. PICK bare : bare = <<>>
  OBVIOUS
<1>2. bare \in Seq(S) /\ DOMAIN bare = {}
  BY <1>1
<1>3. IsInjective(bare) /\ Range(bare) = {}
  BY <1>2 DEF IsInjective, Range
<1>. QED
  BY <1>1, <1>2, <1>3, Zenon DEF ListsOnce

LEMMA OneMoreListed ==
  ASSUME NEW S, NEW R, NEW s, ListsOnce(s, R, S), NEW e \in S, e \notin R
  PROVE  ListsOnce(Append(s, e), R \cup {e}, S)
<1>1. s \in Seq(S) /\ IsInjective(s) /\ Range(s) = R
  BY DEF ListsOnce
<1>2. Append(s, e) \in Seq(S) /\ Range(Append(s, e)) = R \cup {e}
  BY <1>1, RangeOfAppend
<1>3. Len(s) \in Nat /\ DOMAIN s = 1 .. Len(s) /\ \A i \in 1 .. Len(s) : s[i] # e
  BY <1>1 DEF Range
<1>4. /\ DOMAIN Append(s, e) = 1 .. Len(s) + 1
      /\ \A i \in 1 .. Len(s) : Append(s, e)[i] = s[i]
      /\ Append(s, e)[Len(s) + 1] = e
  BY <1>1
<1>5. \A i : i \in 1 .. Len(s) + 1 <=> i \in 1 .. Len(s) \/ i = Len(s) + 1
  BY <1>3
<1>6. \A i, j \in DOMAIN Append(s, e) : Append(s, e)[i] = Append(s, e)[j] => i = j
  BY <1>1, <1>3, <1>4, <1>5 DEF IsInjective
<1>. QED
  BY <1>2, <1>6 DEF ListsOnce, IsInjective

\* Two lists that share nothing, one after the other.
LEMMA BothListed ==
  ASSUME NEW S, NEW R, NEW Q, NEW s, ListsOnce(s, R, S), NEW t, ListsOnce(t, Q, S),
         R \cap Q = {}
  PROVE  ListsOnce(s \o t, R \cup Q, S)
<1>. DEFINE l == Len(s)
            n == Len(t)
            b == s \o t
<1>1. s \in Seq(S) /\ IsInjective(s) /\ Range(s) = R
  BY DEF ListsOnce
<1>2. t \in Seq(S) /\ IsInjective(t) /\ Range(t) = Q
  BY DEF ListsOnce
<1>3. /\ l \in Nat /\ n \in Nat /\ DOMAIN s = 1 .. l /\ DOMAIN t = 1 .. n
      /\ \A i \in 1 .. l : s[i] \in R
      /\ \A i \in 1 .. n : t[i] \in Q
  BY <1>1, <1>2 DEF Range
<1>4. b \in Seq(S) /\ Len(b) = l + n /\ DOMAIN b = 1 .. l + n
  BY <1>1, <1>2
<1>5. \A i \in 1 .. l : i \in 1 .. l + n /\ b[i] = s[i]
  BY <1>1, <1>2
<1>6. \A i \in 1 .. n : l + i \in 1 .. l + n /\ b[l + i] = t[i]
  BY <1>1, <1>2
<1>. HIDE DEF l, n, b
<1>7. \A i \in 1 .. l + n : i \in 1 .. l \/ \E k \in 1 .. n : i = l + k
  <2>. TAKE i \in 1 .. l + n
  <2>1. i \in 1 .. l \/ (i - l \in 1 .. n /\ i = l + (i - l))
    BY <1>3
  <2>. QED
    BY <2>1
<1>8. ASSUME NEW i \in 1 .. l + n, NEW j \in 1 .. l + n, b[i] = b[j] PROVE i = j
  <2>1. CASE i \in 1 .. l /\ j \in 1 .. l
    BY <1>1, <1>3, <1>5, <1>8, <2>1 DEF IsInjective
  <2>2. CASE i \in 1 .. l /\ \E k \in 1 .. n : j = l + k
    BY <1>3, <1>5, <1>6, <1>8, <2>2
  <2>3. CASE j \in 1 .. l /\ \E k \in 1 .. n : i = l + k
    BY <1>3, <1>5, <1>6, <1>8, <2>3
  <2>4. CASE (\E k \in 1 .. n : i = l + k) /\ \E k \in 1 .. n : j = l + k
    BY <1>2, <1>3, <1>6, <1>8, <2>4 DEF IsInjective
  <2>. QED
    BY <1>7, <2>1, <2>2, <2>3, <2>4
<1>9. Range(b) = R \cup Q
  <2>1. \A x \in Range(b) : x \in R \cup Q
    BY <1>3, <1>4, <1>5, <1>6, <1>7 DEF Range
  <2>2. \A x \in R : x \in Range(b)
    BY <1>1, <1>3, <1>4, <1>5 DEF Range
  <2>3. \A x \in Q : x \in Range(b)
    BY <1>2, <1>3, <1>4, <1>6 DEF Range
  <2>. QED
    BY <2>1, <2>2, <2>3
<1>10. IsInjective(b)
  BY <1>4, <1>8 DEF IsInjective
<1>. QED
  BY <1>4, <1>9, <1>10 DEF ListsOnce, b

(***************************************************************************)
(* Columns                                                                 *)
(***************************************************************************)
IsColumn(c) == c = [source |-> c.source, scope |-> c.scope, key |-> c.key]

LEMMA PushOnce ==
  ASSUME NEW S, \A x \in S : IsColumn(x), NEW R, NEW columns, ListsOnce(columns, R, S),
         NEW c \in S
  PROVE  ListsOnce(Push(columns, c), R \cup {c}, S)
<1>1. columns \in Seq(S) /\ IsInjective(columns) /\ Range(columns) = R
  BY DEF ListsOnce
<1>2. \A x, y \in S : ColumnId(x) = ColumnId(y) <=> x = y
  <2>. TAKE x \in S, y \in S
  <2>1. x = y => ColumnId(x) = ColumnId(y)
    OBVIOUS
  <2>2. ASSUME ColumnId(x) = ColumnId(y) PROVE x = y
    <3>1. x.source = y.source /\ x.scope = y.scope /\ x.key = y.key
      BY <2>2 DEF ColumnId
    <3>2. /\ x = [source |-> x.source, scope |-> x.scope, key |-> x.key]
          /\ y = [source |-> y.source, scope |-> y.scope, key |-> y.key]
      BY DEF IsColumn
    <3>. QED
      BY <3>1, <3>2
  <2>. QED
    BY <2>1, <2>2
<1>3. \A i \in DOMAIN columns : columns[i] \in S
  BY <1>1
<1>4. (\E i \in DOMAIN columns : ColumnId(columns[i]) = ColumnId(c)) <=> c \in R
  BY <1>1, <1>2, <1>3 DEF Range
<1>5. CASE c \in R
  <2>1. Push(columns, c) = columns /\ R \cup {c} = R
    BY <1>4, <1>5 DEF Push
  <2>. QED
    BY <2>1
<1>6. CASE c \notin R
  <2>1. Push(columns, c) = Append(columns, c)
    BY <1>4, <1>6 DEF Push
  <2>. QED
    BY <1>6, <2>1, OneMoreListed
<1>. QED
  BY <1>5, <1>6

LEMMA PushAllOnce ==
  ASSUME NEW S, \A x \in S : IsColumn(x), NEW R, NEW columns, ListsOnce(columns, R, S),
         NEW cs \in Seq(S)
  PROVE  ListsOnce(PushAll(columns, cs), R \cup Range(cs), S)
<1>. DEFINE n == Len(cs)
            sofar(i) == R \cup {cs[k] : k \in 1 .. i}
<1>1. n \in Nat /\ \A i \in 1 .. n : cs[i] \in S
  OBVIOUS
<1>2. PICK after : /\ after[0] = columns
                   /\ \A i \in 1 .. n : after[i] = Push(after[i - 1], cs[i])
                   /\ PushAll(columns, cs) = after[n]
  <2>1. Len(cs) \in Nat
    OBVIOUS
  <2>. QED
    BY <2>1, PushAllGoes, SMT
<1>. DEFINE Reached == {i \in 0 .. n : ListsOnce(after[i], sofar(i), S)}
<1>3. 0 \in Reached
  <2>1. sofar(0) = R
    OBVIOUS
  <2>. HIDE DEF sofar
  <2>. QED
    BY <1>1, <1>2, <2>1
<1>4. ASSUME NEW i \in 1 .. n, i - 1 \in Reached PROVE i \in Reached
  <2>1. sofar(i) = sofar(i - 1) \cup {cs[i]}
    <3>1. \A k : k \in 1 .. i <=> k \in 1 .. i - 1 \/ k = i
      BY <1>1
    <3>. QED
      BY <3>1
  <2>. HIDE DEF sofar
  <2>2. ListsOnce(after[i - 1], sofar(i - 1), S)
    BY <1>4
  <2>3. ListsOnce(Push(after[i - 1], cs[i]), sofar(i - 1) \cup {cs[i]}, S)
    BY <1>1, <2>2, PushOnce
  <2>4. ListsOnce(after[i], sofar(i), S)
    BY <1>2, <2>1, <2>3
  <2>. QED
    BY <1>1, <2>4
<1>. HIDE DEF Reached
<1>5. \A i \in 1 .. n : i - 1 \in Reached => i \in Reached
  BY <1>4
<1>6. \A i \in 0 .. n : i \in Reached
  BY <1>1, <1>3, <1>5, UpTo
<1>7. sofar(n) = R \cup Range(cs)
  BY DEF Range
<1>8. ListsOnce(after[n], sofar(n), S)
  <2>. HIDE DEF sofar
  <2>1. n \in 0 .. n
    BY <1>1
  <2>. QED
    BY <1>6, <2>1 DEF Reached
<1>. QED
  BY <1>2, <1>7, <1>8

\* The columns a configured one stands for.
Stands(c, report) ==
  IF c.key # AnyKey THEN {c} ELSE {[c EXCEPT !.key = k] : k \in report[<<c.source, c.scope>>]}

LEMMA ConcreteStands ==
  ASSUME NEW c, IsColumn(c), NEW report, IsFiniteSet(report[<<c.source, c.scope>>])
  PROVE  /\ Concrete(c, report) \in Seq(Stands(c, report))
         /\ Range(Concrete(c, report)) = Stands(c, report)
         /\ \A x \in Stands(c, report) : IsColumn(x)
<1>. DEFINE K == report[<<c.source, c.scope>>]
            n == Cardinality(K)
            ks == SetToSeq(K)
            cs == Concrete(c, report)
            S == Stands(c, report)
<1>1. CASE c.key # AnyKey
  <2>1. cs = <<c>> /\ S = {c}
    BY <1>1 DEF Concrete, Stands
  <2>. HIDE DEF cs, S
  <2>2. <<c>> \in Seq({c}) /\ Range(<<c>>) = {c}
    BY DEF Range
  <2>. QED
    BY <2>1, <2>2 DEF cs, S
<1>2. CASE c.key = AnyKey
  <2>1. n \in Nat /\ ks \in [1 .. n -> K] /\ \A k \in K : \E i \in 1 .. n : ks[i] = k
    <3>1. n \in Nat /\ ExistsBijection(1 .. n, K)
      BY FS_CardinalityType
    <3>2. \E f \in [1 .. n -> K] : IsInjective(f)
      BY <3>1 DEF ExistsBijection, Bijection, Injection
    <3>3. ks \in [1 .. n -> K] /\ IsInjective(ks)
      BY <3>2 DEF SetToSeq
    <3>. HIDE DEF ks, K
    <3>4. IsFiniteSet(1 .. n) /\ Cardinality(1 .. n) = n
      BY <3>1, FS_Interval
    <3>5. ks \in Injection(1 .. n, K)
      BY <3>3 DEF Injection
    <3>6. ks \in Surjection(1 .. n, K)
      BY <3>4, <3>5, FS_Injection DEF K, n
    <3>. QED
      BY <3>1, <3>3, <3>6 DEF Surjection
  <2>2. cs = [i \in DOMAIN ks |-> [c EXCEPT !.key = ks[i]]]
    BY <1>2 DEF Concrete, Reported
  <2>3. S = {[c EXCEPT !.key = k] : k \in K}
    BY <1>2 DEF Stands
  <2>4. \A k : IsColumn([c EXCEPT !.key = k])
    BY DEF IsColumn
  <2>. HIDE DEF ks, n, K, S, cs
  <2>5. cs = [i \in 1 .. n |-> [c EXCEPT !.key = ks[i]]]
    BY <2>1, <2>2
  <2>6. cs \in [1 .. n -> S] /\ DOMAIN cs = 1 .. n
    BY <2>1, <2>3, <2>5
  <2>7. cs \in Seq(S)
    BY <2>1, <2>6
  <2>8. \A x \in S : \E i \in 1 .. n : cs[i] = x
    BY <2>1, <2>3, <2>5
  <2>9. Range(cs) = S
    BY <2>6, <2>8 DEF Range
  <2>. QED
    BY <2>3, <2>4, <2>7, <2>9 DEF cs, S
<1>. QED
  BY <1>1, <1>2

(* The columns of a table are the configured keys and those a wildcard     *)
(* stands for, each once, whatever the entities report.                    *)
THEOREM ColumnsAreOnce ==
  ASSUME NEW C, NEW configured \in Seq(C), NEW report,
         \A c \in Range(configured) :
           IsColumn(c) /\ IsFiniteSet(report[<<c.source, c.scope>>])
  PROVE  ColumnsOnce(configured, report, TableColumns(configured, report))
<1>. DEFINE n == Len(configured)
            own(i) == Stands(configured[i], report)
            sofar(i) == UNION {own(k) : k \in 1 .. i}
            S == sofar(n)
<1>1. n \in Nat /\ Range(configured) = {configured[i] : i \in 1 .. n}
  BY DEF Range
<1>2. ASSUME NEW i \in 1 .. n
      PROVE  /\ Concrete(configured[i], report) \in Seq(S)
             /\ Range(Concrete(configured[i], report)) = own(i)
             /\ \A x \in own(i) : x \in S /\ IsColumn(x)
  <2>. DEFINE cs == Concrete(configured[i], report)
  <2>1. cs \in Seq(own(i)) /\ Range(cs) = own(i) /\ \A x \in own(i) : IsColumn(x)
    BY <1>1, ConcreteStands
  <2>2. \A x \in own(i) : x \in S
    OBVIOUS
  <2>. HIDE DEF own, S, cs
  <2>3. cs \in Seq(S)
    BY <2>1, <2>2
  <2>. QED
    BY <2>1, <2>2, <2>3 DEF cs
<1>3. \A x \in S : IsColumn(x)
  BY <1>2
<1>4. PICK after : /\ after[0] = <<>>
                   /\ \A i \in 1 .. n :
                        after[i] = PushAll(after[i - 1], Concrete(configured[i], report))
                   /\ TableColumns(configured, report) = after[n]
  <2>1. Len(configured) \in Nat
    OBVIOUS
  <2>. QED
    BY <2>1, ColumnsGo, SMT
<1>. DEFINE Reached == {i \in 0 .. n : ListsOnce(after[i], sofar(i), S)}
<1>5. 0 \in Reached
  <2>1. sofar(0) = {}
    OBVIOUS
  <2>. HIDE DEF sofar, S
  <2>2. ListsOnce(<<>>, {}, S)
    BY NothingListed
  <2>3. ListsOnce(after[0], sofar(0), S)
    BY <1>4, <2>1, <2>2
  <2>. QED
    BY <1>1, <2>3
<1>6. ASSUME NEW i \in 1 .. n, i - 1 \in Reached PROVE i \in Reached
  <2>1. sofar(i) = sofar(i - 1) \cup own(i)
    <3>1. \A k : k \in 1 .. i <=> k \in 1 .. i - 1 \/ k = i
      BY <1>1
    <3>. HIDE DEF own
    <3>. QED
      BY <3>1
  <2>. DEFINE cs == Concrete(configured[i], report)
  <2>2. cs \in Seq(S) /\ Range(cs) = own(i)
    BY <1>2
  <2>. HIDE DEF sofar, S, own, cs
  <2>3. ListsOnce(after[i - 1], sofar(i - 1), S)
    BY <1>6
  <2>4. ListsOnce(PushAll(after[i - 1], cs), sofar(i - 1) \cup own(i), S)
    BY <1>3, <2>2, <2>3, PushAllOnce
  <2>5. ListsOnce(after[i], sofar(i), S)
    BY <1>4, <2>1, <2>4 DEF cs
  <2>. QED
    BY <1>1, <2>5
<1>. HIDE DEF Reached
<1>7. \A i \in 1 .. n : i - 1 \in Reached => i \in Reached
  BY <1>6
<1>8. \A i \in 0 .. n : i \in Reached
  BY <1>1, <1>5, <1>7, UpTo
<1>9. ListsOnce(TableColumns(configured, report), S, S)
  <2>. HIDE DEF sofar
  <2>1. n \in 0 .. n
    BY <1>1
  <2>2. ListsOnce(after[n], sofar(n), S)
    BY <1>8, <2>1 DEF Reached
  <2>. QED
    BY <1>4, <2>2
<1>. DEFINE plain == {c \in Range(configured) : c.key # AnyKey}
            wild == UNION {{[c EXCEPT !.key = k] : k \in report[<<c.source, c.scope>>]} :
                           c \in {c \in Range(configured) : c.key = AnyKey}}
<1>10. S = plain \cup wild
  <2>1. \A x : x \in S <=> \E c \in Range(configured) : x \in Stands(c, report)
    BY <1>1
  <2>2. \A x : x \in plain <=>
          \E c \in Range(configured) : c.key # AnyKey /\ x \in Stands(c, report)
    BY DEF Stands
  <2>3. \A x : x \in wild <=>
          \E c \in Range(configured) : c.key = AnyKey /\ x \in Stands(c, report)
    <3>. DEFINE expanded(c) == {[c EXCEPT !.key = k] : k \in report[<<c.source, c.scope>>]}
    <3>1. \A c : c.key = AnyKey => Stands(c, report) = expanded(c)
      BY DEF Stands
    <3>2. \A x : x \in wild <=>
            \E c \in Range(configured) : c.key = AnyKey /\ x \in expanded(c)
      <4>1. wild = UNION {expanded(c) : c \in {c \in Range(configured) : c.key = AnyKey}}
        OBVIOUS
      <4>. HIDE DEF wild, expanded
      <4>. QED
        BY <4>1
    <3>. HIDE DEF expanded, wild
    <3>. QED
      BY <3>1, <3>2
  <2>. HIDE DEF S, plain, wild
  <2>. QED
    BY <2>1, <2>2, <2>3
<1>. HIDE DEF S
<1>. QED
  BY <1>9, <1>10 DEF ColumnsOnce, ListsOnce

(***************************************************************************)
(* Axes                                                                    *)
(***************************************************************************)
UnitsOf(keys, units, n) == {units[keys[i]] : i \in 1 .. n}
KeysWith(keys, units, n, u) == {keys[i] : i \in {i \in 1 .. n : units[keys[i]] = u}}

\* The groups of the first n keys: every unit once, and under it its keys, once.
GroupsSoFar(acc, keys, units, n) ==
  /\ ListsOnce(acc.order, UnitsOf(keys, units, n), UnitsOf(keys, units, Len(keys)))
  /\ DOMAIN acc.byUnit = UnitsOf(keys, units, n)
  /\ \A u \in UnitsOf(keys, units, n) :
       ListsOnce(acc.byUnit[u], KeysWith(keys, units, n, u), Range(keys))

LEMMA OneMoreGrouped ==
  ASSUME NEW K, NEW keys \in Seq(K), IsInjective(keys), NEW units, NEW n \in 1 .. Len(keys),
         NEW acc, GroupsSoFar(acc, keys, units, n - 1)
  PROVE  GroupsSoFar(Grouped(acc, units[keys[n]], keys[n]), keys, units, n)
<1>. DEFINE k == keys[n]
            u == units[k]
            next == Grouped(acc, u, k)
            before == UnitsOf(keys, units, n - 1)
            all == UnitsOf(keys, units, Len(keys))
<1>1. /\ Len(keys) \in Nat /\ DOMAIN keys = 1 .. Len(keys)
      /\ Range(keys) = {keys[i] : i \in 1 .. Len(keys)}
      /\ \A i : i \in 1 .. n <=> i \in 1 .. n - 1 \/ i = n
      /\ \A i \in 1 .. n - 1 : i \in 1 .. Len(keys) /\ keys[i] # k
  <2>1. Len(keys) \in Nat /\ DOMAIN keys = 1 .. Len(keys)
    OBVIOUS
  <2>2. Range(keys) = {keys[i] : i \in 1 .. Len(keys)}
    BY <2>1 DEF Range
  <2>3. \A i : i \in 1 .. n <=> i \in 1 .. n - 1 \/ i = n
    BY <2>1
  <2>4. \A i \in 1 .. n - 1 : i \in 1 .. Len(keys) /\ i # n
    BY <2>1
  <2>5. \A i \in 1 .. n - 1 : keys[i] # keys[n]
    BY <2>1, <2>4 DEF IsInjective
  <2>. QED
    BY <2>1, <2>2, <2>3, <2>4, <2>5
<1>2. UnitsOf(keys, units, n) = before \cup {u} /\ u \in all /\ k \in Range(keys)
  BY <1>1 DEF UnitsOf
<1>3. /\ KeysWith(keys, units, n, u) = KeysWith(keys, units, n - 1, u) \cup {k}
      /\ k \notin KeysWith(keys, units, n - 1, u)
      /\ \A v : v # u => KeysWith(keys, units, n, v) = KeysWith(keys, units, n - 1, v)
      /\ u \notin before => KeysWith(keys, units, n - 1, u) = {}
  <2>1. KeysWith(keys, units, n, u) = KeysWith(keys, units, n - 1, u) \cup {k}
    BY <1>1 DEF KeysWith
  <2>2. k \notin KeysWith(keys, units, n - 1, u)
    BY <1>1 DEF KeysWith
  <2>3. \A v : v # u => KeysWith(keys, units, n, v) = KeysWith(keys, units, n - 1, v)
    BY <1>1 DEF KeysWith
  <2>4. u \notin before => KeysWith(keys, units, n - 1, u) = {}
    BY DEF KeysWith, UnitsOf
  <2>. QED
    BY <2>1, <2>2, <2>3, <2>4
<1>4. ListsOnce(acc.order, before, all) /\ DOMAIN acc.byUnit = before
  BY DEF GroupsSoFar
<1>5. \A v \in before : ListsOnce(acc.byUnit[v], KeysWith(keys, units, n - 1, v), Range(keys))
  BY DEF GroupsSoFar
<1>6. /\ next.order = IF u \in before THEN acc.order ELSE Append(acc.order, u)
      /\ DOMAIN next.byUnit = before \cup {u}
      /\ \A v \in before \cup {u} :
           next.byUnit[v] = IF v = u THEN Append(KeysUnder(acc, u), k) ELSE acc.byUnit[v]
  <2>. HIDE DEF k, u, before
  <2>. QED
    BY <1>4 DEF Grouped
<1>. HIDE DEF k, u, next, before, all
<1>7. ListsOnce(next.order, before \cup {u}, all)
  <2>1. CASE u \in before
    <3>1. before \cup {u} = before /\ next.order = acc.order
      BY <1>6, <2>1
    <3>. QED
      BY <1>4, <3>1
  <2>2. CASE u \notin before
    <3>1. next.order = Append(acc.order, u)
      BY <1>6, <2>2
    <3>. QED
      BY <1>2, <1>4, <2>2, <3>1, OneMoreListed
  <2>. QED
    BY <2>1, <2>2
<1>8. ListsOnce(KeysUnder(acc, u), KeysWith(keys, units, n - 1, u), Range(keys))
  <2>1. CASE u \in before
    <3>1. KeysUnder(acc, u) = acc.byUnit[u]
      BY <1>4, <2>1 DEF KeysUnder
    <3>. QED
      BY <1>5, <2>1, <3>1
  <2>2. CASE u \notin before
    <3>1. KeysUnder(acc, u) = <<>>
      BY <1>4, <2>2 DEF KeysUnder
    <3>. QED
      BY <1>3, <2>2, <3>1, NothingListed
  <2>. QED
    BY <2>1, <2>2
<1>9. ListsOnce(Append(KeysUnder(acc, u), k), KeysWith(keys, units, n, u), Range(keys))
  BY <1>2, <1>3, <1>8, OneMoreListed
<1>10. ASSUME NEW v \in before \cup {u}
       PROVE  ListsOnce(next.byUnit[v], KeysWith(keys, units, n, v), Range(keys))
  <2>1. CASE v = u
    BY <1>6, <1>9, <2>1
  <2>2. CASE v # u
    <3>1. v \in before /\ next.byUnit[v] = acc.byUnit[v]
      BY <1>6, <2>2
    <3>. QED
      BY <1>3, <1>5, <2>2, <3>1
  <2>. QED
    BY <2>1, <2>2
<1>. QED
  BY <1>2, <1>6, <1>7, <1>10 DEF GroupsSoFar, next, all, k, u

LEMMA AllGrouped ==
  ASSUME NEW K, NEW keys \in Seq(K), IsInjective(keys), NEW units
  PROVE  GroupsSoFar(UnitGroups(keys, units), keys, units, Len(keys))
<1>. DEFINE n == Len(keys)
<1>1. n \in Nat
  OBVIOUS
<1>2. PICK after : /\ after[0] = [order |-> <<>>, byUnit |-> << >>]
                   /\ \A i \in 1 .. n : after[i] = Grouped(after[i - 1], units[keys[i]], keys[i])
                   /\ UnitGroups(keys, units) = after[n]
  <2>1. Len(keys) \in Nat
    OBVIOUS
  <2>. QED
    BY <2>1, GroupsGo, SMT
<1>. DEFINE Reached == {i \in 0 .. n : GroupsSoFar(after[i], keys, units, i)}
<1>3. 0 \in Reached
  <2>1. UnitsOf(keys, units, 0) = {}
    BY DEF UnitsOf
  <2>2. after[0].order = <<>> /\ DOMAIN after[0].byUnit = {}
    BY <1>2
  <2>3. ListsOnce(after[0].order, {}, UnitsOf(keys, units, Len(keys)))
    BY <2>2, NothingListed
  <2>4. GroupsSoFar(after[0], keys, units, 0)
    BY <2>1, <2>2, <2>3 DEF GroupsSoFar
  <2>. QED
    BY <1>1, <2>4
<1>4. ASSUME NEW i \in 1 .. n, i - 1 \in Reached PROVE i \in Reached
  <2>1. GroupsSoFar(after[i - 1], keys, units, i - 1)
    BY <1>4
  <2>2. GroupsSoFar(Grouped(after[i - 1], units[keys[i]], keys[i]), keys, units, i)
    BY <2>1, OneMoreGrouped
  <2>. QED
    BY <1>1, <1>2, <2>2
<1>. HIDE DEF Reached
<1>5. \A i \in 1 .. n : i - 1 \in Reached => i \in Reached
  BY <1>4
<1>6. \A i \in 0 .. n : i \in Reached
  BY <1>1, <1>3, <1>5, UpTo
<1>. QED
  BY <1>1, <1>2, <1>6 DEF Reached

\* The keys of the units from the third on.
BeyondTwo(groups, keys, units, i) ==
  UNION {KeysWith(keys, units, Len(keys), groups.order[m]) : m \in 3 .. i}

LEMMA OmittedListed ==
  ASSUME NEW keys, Len(keys) \in Nat, NEW units, NEW groups,
         GroupsSoFar(groups, keys, units, Len(keys))
  PROVE  LET n == Len(groups.order) IN
         /\ n \in Nat
         /\ ListsOnce(Omitted(groups), BeyondTwo(groups, keys, units, n), Range(keys))
         /\ n <= 2 => Omitted(groups) = <<>>
<1>. DEFINE order == groups.order
            n == Len(order)
            own(m) == KeysWith(keys, units, Len(keys), order[m])
            sofar(i) == BeyondTwo(groups, keys, units, i)
<1>1. /\ order \in Seq(UnitsOf(keys, units, Len(keys))) /\ IsInjective(order)
      /\ \A u \in UnitsOf(keys, units, Len(keys)) :
           ListsOnce(groups.byUnit[u], KeysWith(keys, units, Len(keys), u), Range(keys))
  BY DEF GroupsSoFar, ListsOnce
<1>2. n \in Nat /\ \A m \in 1 .. n : order[m] \in UnitsOf(keys, units, Len(keys))
  BY <1>1
<1>3. \A m \in 1 .. n : ListsOnce(groups.byUnit[order[m]], own(m), Range(keys))
  BY <1>1, <1>2
<1>4. \A m, j \in 1 .. n : order[m] = order[j] => m = j
  BY <1>1 DEF IsInjective
<1>5. \A m : \A k \in own(m) : units[k] = order[m]
  BY DEF KeysWith
<1>6. PICK after : /\ after[0] = <<>>
                   /\ \A i \in 1 .. n : after[i] = WithGroup(after[i - 1], groups, i)
                   /\ Omitted(groups) = after[n]
  BY <1>2, OmittedGo, SMT
<1>. DEFINE good(i) == /\ ListsOnce(after[i], sofar(i), Range(keys))
                       /\ i <= 2 => after[i] = <<>>
            Reached == {i \in 0 .. n : good(i)}
<1>7. ASSUME NEW i \in 0 .. 2, after[i] = <<>> PROVE good(i)
  <2>1. sofar(i) = {}
    BY DEF BeyondTwo
  <2>2. ListsOnce(<<>>, {}, Range(keys))
    BY NothingListed
  <2>. HIDE DEF sofar
  <2>3. ListsOnce(after[i], sofar(i), Range(keys))
    BY <1>7, <2>1, <2>2
  <2>. QED
    BY <1>7, <2>3
<1>8. 0 \in Reached
  <2>1. good(0)
    BY <1>6, <1>7
  <2>. HIDE DEF good
  <2>. QED
    BY <1>2, <2>1
<1>9. ASSUME NEW i \in 1 .. n, i - 1 \in Reached PROVE good(i)
  <2>1. ListsOnce(after[i - 1], sofar(i - 1), Range(keys)) /\ (i - 1 <= 2 => after[i - 1] = <<>>)
    BY <1>9
  <2>2. CASE i <= 2
    <3>1. i \in 0 .. 2 /\ after[i - 1] = <<>>
      BY <1>2, <2>1, <2>2
    <3>2. after[i] = <<>>
      BY <1>6, <2>2, <3>1 DEF WithGroup
    <3>. QED
      BY <1>7, <3>1, <3>2
  <2>3. CASE i > 2
    <3>1. sofar(i) = sofar(i - 1) \cup own(i)
      <4>1. \A m : m \in 3 .. i <=> m \in 3 .. i - 1 \/ m = i
        BY <1>2, <2>3
      <4>. QED
        BY <4>1 DEF BeyondTwo
    <3>2. sofar(i - 1) \cap own(i) = {}
      <4>1. \A m \in 3 .. i - 1 : m \in 1 .. n /\ m # i
        BY <1>2
      <4>2. \A k \in sofar(i - 1) : \E m \in 3 .. i - 1 : k \in own(m)
        BY DEF BeyondTwo
      <4>. HIDE DEF sofar, own
      <4>3. ASSUME NEW k \in sofar(i - 1), k \in own(i) PROVE FALSE
        <5>1. PICK m \in 3 .. i - 1 : k \in own(m)
          BY <4>2
        <5>2. order[m] = order[i]
          BY <1>5, <4>3, <5>1
        <5>. QED
          BY <1>4, <4>1, <5>1, <5>2
      <4>. QED
        BY <4>3
    <3>3. after[i] = after[i - 1] \o groups.byUnit[order[i]]
      <4>1. ~ (i <= 2)
        BY <1>2, <2>3
      <4>2. after[i] = WithGroup(after[i - 1], groups, i)
        BY <1>6
      <4>. QED
        BY <4>1, <4>2, Zenon DEF WithGroup
    <3>4. ListsOnce(groups.byUnit[order[i]], own(i), Range(keys))
      BY <1>3
    <3>. HIDE DEF sofar, own
    <3>5. ListsOnce(after[i], sofar(i), Range(keys))
      BY <2>1, <3>1, <3>2, <3>3, <3>4, BothListed
    <3>. QED
      BY <1>2, <2>3, <3>5
  <2>. QED
    BY <1>2, <2>2, <2>3
<1>. HIDE DEF good
<1>10. \A i \in 1 .. n : i - 1 \in Reached => i \in Reached
  BY <1>2, <1>9
<1>. HIDE DEF Reached
<1>11. \A i \in 0 .. n : i \in Reached
  BY <1>2, <1>8, <1>10, UpTo
<1>12. good(n)
  BY <1>2, <1>11 DEF Reached
<1>. QED
  BY <1>2, <1>6, <1>12 DEF good

(* A comparison chart has at most two axes, of different units; each axis  *)
(* has all keys of its unit, once; the others are omitted, once, and only  *)
(* if there are two axes.  For any list of keys and any units.             *)
THEOREM AxesByUnit ==
  ASSUME NEW K, NEW keys \in Seq(K), IsInjective(keys), NEW units
  PROVE  GroupsByUnit(keys, units, GroupKeysByUnit(keys, units))
<1>. DEFINE l == Len(keys)
            groups == UnitGroups(keys, units)
            order == groups.order
            n == Len(order)
            two == Min({2, n})
            grouped == GroupKeysByUnit(keys, units)
            axes == grouped.axes
            onAxis(i) == {k \in Range(keys) : units[k] = axes[i].unit}
            own(i) == KeysWith(keys, units, l, order[i])
<1>1. l \in Nat /\ Range(keys) = {keys[i] : i \in 1 .. l}
  BY DEF Range
<1>2. GroupsSoFar(groups, keys, units, l)
  BY AllGrouped
<1>3. /\ n \in Nat
      /\ ListsOnce(Omitted(groups), BeyondTwo(groups, keys, units, n), Range(keys))
      /\ n <= 2 => Omitted(groups) = <<>>
  BY <1>1, <1>2, OmittedListed
<1>4. /\ order \in Seq(UnitsOf(keys, units, l)) /\ IsInjective(order)
      /\ Range(order) = UnitsOf(keys, units, l)
      /\ \A u \in UnitsOf(keys, units, l) :
           ListsOnce(groups.byUnit[u], KeysWith(keys, units, l, u), Range(keys))
  BY <1>2 DEF GroupsSoFar, ListsOnce
<1>5. two = IF n <= 2 THEN n ELSE 2
  <2>1. two = IF 2 <= n THEN 2 ELSE n
    BY <1>3, MinOfTwo
  <2>. HIDE DEF two, n
  <2>. QED
    BY <1>3, <2>1
<1>6. /\ axes = [i \in 1 .. two |-> [unit |-> order[i], keys |-> groups.byUnit[order[i]]]]
      /\ grouped.omitted = Omitted(groups)
  BY DEF GroupKeysByUnit
<1>7. \A k \in Range(keys) : units[k] \in UnitsOf(keys, units, l)
  BY <1>1 DEF UnitsOf
<1>8. \A u : KeysWith(keys, units, l, u) = {k \in Range(keys) : units[k] = u}
  BY <1>1 DEF KeysWith
<1>9. /\ \A i \in 1 .. n : order[i] \in UnitsOf(keys, units, l)
      /\ \A i, j \in 1 .. n : order[i] = order[j] => i = j
      /\ \A u \in UnitsOf(keys, units, l) : \E i \in 1 .. n : order[i] = u
  <2>1. DOMAIN order = 1 .. n
    BY <1>4
  <2>. QED
    BY <1>4, <2>1 DEF IsInjective, Range
<1>. HIDE DEF l, groups, order, n, two, grouped
<1>10. /\ DOMAIN axes = 1 .. two /\ Len(axes) = two
       /\ \A i \in 1 .. two : /\ i \in 1 .. n
                              /\ axes[i].unit = order[i]
                              /\ axes[i].keys = groups.byUnit[order[i]]
  <2>1. two \in Nat /\ \A i \in 1 .. two : i \in 1 .. n
    BY <1>3, <1>5
  <2>2. DOMAIN axes = 1 .. two /\ Len(axes) = two
    BY <1>6, <2>1
  <2>. QED
    BY <1>6, <2>1, <2>2
<1>. HIDE DEF axes
<1>11. Len(axes) <= 2 /\ (n > 2 => Len(axes) = 2)
  BY <1>3, <1>5, <1>10
<1>12. \A i, j \in DOMAIN axes : axes[i].unit = axes[j].unit => i = j
  BY <1>9, <1>10
<1>13. \A i \in DOMAIN axes : onAxis(i) = own(i)
  BY <1>8, <1>10
<1>14. \A i \in DOMAIN axes : IsInjective(axes[i].keys) /\ Range(axes[i].keys) = onAxis(i)
  <2>. TAKE i \in DOMAIN axes
  <2>1. i \in 1 .. two
    BY <1>10
  <2>2. order[i] \in UnitsOf(keys, units, l) /\ axes[i].keys = groups.byUnit[order[i]]
    BY <1>9, <1>10, <2>1
  <2>3. ListsOnce(axes[i].keys, own(i), Range(keys))
    BY <1>4, <2>2
  <2>4. own(i) = onAxis(i)
    BY <1>13
  <2>. HIDE DEF own, onAxis
  <2>. QED
    BY <2>3, <2>4 DEF ListsOnce
<1>15. /\ IsInjective(grouped.omitted)
       /\ Range(grouped.omitted) = BeyondTwo(groups, keys, units, n)
       /\ grouped.omitted # <<>> => n > 2
  BY <1>3, <1>6 DEF ListsOnce
<1>16. BeyondTwo(groups, keys, units, n) =
         Range(keys) \ UNION {onAxis(i) : i \in DOMAIN axes}
  <2>1. \A k : k \in BeyondTwo(groups, keys, units, n) <=>
          \E i \in 3 .. n : k \in Range(keys) /\ units[k] = order[i]
    BY <1>8 DEF BeyondTwo, order, l
  <2>2. \A k : k \in UNION {onAxis(i) : i \in DOMAIN axes} <=>
          \E i \in 1 .. two : k \in Range(keys) /\ units[k] = order[i]
    BY <1>10
  <2>3. \A i : i \in 1 .. n <=> i \in 1 .. two \/ i \in 3 .. n
    BY <1>3, <1>5
  <2>4. \A i : ~ (i \in 1 .. two /\ i \in 3 .. n)
    BY <1>3, <1>5
  <2>5. \A k \in Range(keys) : \E i \in 1 .. n : order[i] = units[k]
    BY <1>7, <1>9
  <2>6. ASSUME NEW k \in Range(keys)
        PROVE  (\E i \in 3 .. n : units[k] = order[i])
                 <=> ~ (\E i \in 1 .. two : units[k] = order[i])
    BY <1>9, <2>3, <2>4, <2>5
  <2>. DEFINE shown == UNION {onAxis(i) : i \in DOMAIN axes}
              rest == BeyondTwo(groups, keys, units, n)
  <2>. HIDE DEF shown, rest
  <2>7. \A k : k \in rest <=> k \in Range(keys) /\ k \notin shown
    BY <2>1, <2>2, <2>6 DEF shown, rest
  <2>8. rest = Range(keys) \ shown
    BY <2>7
  <2>. QED
    BY <2>8 DEF shown, rest
<1>. HIDE DEF own, onAxis
<1>17. Range(grouped.omitted) = Range(keys) \ UNION {onAxis(i) : i \in DOMAIN axes}
  BY <1>15, <1>16
<1>18. grouped.omitted # <<>> => Len(axes) = 2
  BY <1>11, <1>15
<1>. QED
  BY <1>11, <1>12, <1>14, <1>15, <1>17, <1>18 DEF GroupsByUnit, axes, onAxis, grouped

(***************************************************************************)
(* All the algorithms together                                             *)
(***************************************************************************)
(* Every sample that can be chosen gets from its algorithm what the        *)
(* algorithm is for: whatever spans, series, widgets, keys, columns,       *)
(* windows and alarms there are.                                           *)
THEOREM SamplesAgree == AlgorithmsInit => AlgorithmsAgree
<1>. SUFFICES ASSUME AlgorithmsInit PROVE AlgorithmsAgree
  OBVIOUS
<1>1. ASSUME NEW s \in Spans, sample = [use |-> "interval", span |-> s]
      PROVE  AlgorithmsAgree
  <2>1. s \in Nat
    BY AlgorithmsAssumption
  <2>2. IntervalFits(s, IntervalFor(s))
    BY <2>1, BucketsFit
  <2>. QED
    BY <1>1, <2>2 DEF AlgorithmsAgree
<1>2. ASSUME NEW a \in Trails, NEW b \in Trails, sample = [use |-> "pairs", a |-> a, b |-> b]
      PROVE  AlgorithmsAgree
  <2>1. a \in Seq(TimeSample) /\ OneAtATime(a) /\ b \in Seq(TimeSample) /\ OneAtATime(b)
    BY AlgorithmsAssumption DEF TimeSample, OneAtATime
  <2>2. PairsNearest(a, b, PairSeries(a, b))
    BY <2>1, PairsAreNearest
  <2>. QED
    BY <1>2, <2>2 DEF AlgorithmsAgree
<1>3. ASSUME NEW l \in Layouts, NEW s \in Sizes,
             sample = [use |-> "pack", existing |-> l, sizes |-> s]
      PROVE  AlgorithmsAgree
  <2>1. l \in SUBSET Layout /\ IsFiniteSet(l)
    BY AlgorithmsAssumption DEF Layout
  <2>2. s \in Seq(Size)
    <3>1. s \in Seq([w : 0 .. 12, h : Nat])
      BY AlgorithmsAssumption
    <3>2. Len(s) \in Nat /\ \A i \in 1 .. Len(s) : s[i] \in [w : 0 .. 12, h : Nat]
      <4>1. PICK boxes : boxes = [w : 0 .. 12, h : Nat]
        OBVIOUS
      <4>2. s \in Seq(boxes)
        BY <3>1, <4>1, Zenon
      <4>3. Len(s) \in Nat /\ \A i \in 1 .. Len(s) : s[i] \in boxes
        BY <4>2
      <4>. QED
        BY <4>1, <4>3, Zenon
    <3>3. \A i \in 1 .. Len(s) : s[i] \in Size
      BY <3>2 DEF Size, Columns12
    <3>4. s = [i \in 1 .. Len(s) |-> s[i]]
      BY <3>1
    <3>5. s \in [1 .. Len(s) -> Size]
      BY <3>3, <3>4
    <3>. QED
      BY <3>2, <3>5
  <2>3. PacksApart(l, s, PackWidgets(l, s))
    BY <2>1, <2>2, WidgetsArePackedApart
  <2>. QED
    BY <1>3, <2>3 DEF AlgorithmsAgree
<1>4. ASSUME NEW h \in Heights, NEW r \in 0 .. 8,
             sample = [use |-> "fit", height |-> h, rows |-> r]
      PROVE  AlgorithmsAgree
  <2>1. h \in Nat /\ r \in Nat
    BY AlgorithmsAssumption
  <2>2. FitsHeight(h, r, FitRowHeight(h, r))
    BY <2>1, RowsFit
  <2>. QED
    BY <1>4, <2>2 DEF AlgorithmsAgree
<1>5. ASSUME NEW k \in KeyLists, NEW u \in UnitTables,
             sample = [use |-> "axes", keys |-> k, units |-> u]
      PROVE  AlgorithmsAgree
  <2>1. k \in Seq(Range(k)) /\ IsInjective(k)
    BY AlgorithmsAssumption
  <2>2. GroupsByUnit(k, u, GroupKeysByUnit(k, u))
    BY <2>1, AxesByUnit
  <2>. QED
    BY <1>5, <2>2 DEF AlgorithmsAgree
<1>6. ASSUME NEW c \in DataKeyLists, NEW r \in EntityReports,
             sample = [use |-> "columns", configured |-> c, report |-> r]
      PROVE  AlgorithmsAgree
  <2>1. /\ c \in Seq(Range(c))
        /\ \A x \in Range(c) : IsColumn(x) /\ IsFiniteSet(r[<<x.source, x.scope>>])
    BY AlgorithmsAssumption DEF IsColumn
  <2>2. ColumnsOnce(c, r, TableColumns(c, r))
    BY <2>1, ColumnsAreOnce
  <2>. QED
    BY <1>6, <2>2 DEF AlgorithmsAgree
<1>7. ASSUME NEW w \in DayWindows, sample = [use |-> "calendar", window |-> w]
      PROVE  AlgorithmsAgree
  <2>1. w \in [start : Int, end : Int] /\ w.start <= w.end
    BY AlgorithmsAssumption
  <2>2. WeeksSpan(w, CalendarGrid(w))
    BY <2>1, WeeksCoverTheWindow
  <2>. QED
    BY <1>7, <2>2 DEF AlgorithmsAgree
<1>8. ASSUME NEW a \in Trails, NEW b \in Trails, sample = [use |-> "rows", series |-> <<a, b>>]
      PROVE  AlgorithmsAgree
  <2>1. a \in Seq(TimeSample) /\ b \in Seq(TimeSample)
    BY AlgorithmsAssumption DEF TimeSample
  <2>2. <<a, b>> \in Seq(Seq(TimeSample))
    BY <2>1
  <2>3. RowsMerge(<<a, b>>, MergedRows(<<a, b>>))
    BY <2>2, RowsMergeAll
  <2>. QED
    BY <1>8, <2>3 DEF AlgorithmsAgree
<1>9. ASSUME NEW a \in AlarmLists, sample = [use |-> "marker", alarms |-> a]
      PROVE  AlgorithmsAgree
  <2>1. a \in Seq(Range(a))
    BY AlgorithmsAssumption
  <2>2. \A e : MarkersTell(a, e, MarkerSeverity(a, e))
    BY <2>1, MarkersShowTheWorst
  <2>. QED
    BY <1>9, <2>2 DEF AlgorithmsAgree
<1>. QED
  BY <1>1, <1>2, <1>3, <1>4, <1>5, <1>6, <1>7, <1>8, <1>9 DEF AlgorithmsInit

=============================================================================
