--------------------------- MODULE MC_Application ---------------------------
(***************************************************************************)
(* The services and the pages that share no state with one another: a      *)
(* behaviour runs one of them, chosen at the start, and the others keep    *)
(* one initial state.  Each part has a small instance of its own.          *)
(***************************************************************************)
EXTENDS ReadCache, Access, ScopeWalk, Sessions, UserAccounts, DashboardEditor, WidgetPanel,
        AdminConsole, ClientWizard, DashboardCells, EntityPage, CellAlgorithms, TLC

CONSTANTS
  acme, plant, u1, u2, gate, hall, nobody,  \* two customers, two requests, a device, an asset
  d1, d2, a1, k1, k2, none,                 \* two devices, an asset and keys for the panel
  w1                                        \* a widget; the editor has d1 as well

VARIABLE part

-----------------------------------------------------------------------------
(* Access: a customer above another, and four kinds of session *)
MCScope == (acme :> {acme, plant}) @@ (plant :> {plant})
Profile(authority, customer, r) == [authority |-> authority, customer |-> customer, role |-> r]
ProfileOrder ==
  <<Profile("TENANT_ADMIN", NoCustomer, "none"), Profile("CUSTOMER_USER", plant, "ADMIN"),
    Profile("CUSTOMER_USER", NoCustomer, "ADMIN"), Profile("CUSTOMER_USER", acme, "READER")>>
MCProfiles == {ProfileOrder[i] : i \in DOMAIN ProfileOrder}
\* the two requests are interchangeable: pairs of profiles in one order only
OrderedSessions ==
  \E i \in DOMAIN ProfileOrder : \E j \in i..Len(ProfileOrder) :
    session = (u1 :> ProfileOrder[i]) @@ (u2 :> ProfileOrder[j])

(* WidgetPanel: entities of both kinds that report different keys *)
MCKindOf == (d1 :> "DEVICE") @@ (d2 :> "DEVICE") @@ (a1 :> "ASSET")
MCReportedKeys == (d1 :> {k1}) @@ (d2 :> {k1, k2}) @@ (a1 :> {k2})

(* AdminConsole: a client with a child client, and an asset below the first *)
MCAbove == "c1" :> "none" @@ "c2" :> "c1"
MCLevelsOf == "c1" :> 1 @@ "c2" :> 3
MCStart == "s1" :> [at |-> "c1", client |-> "c1", level |-> 0, name |-> 0]

MCDefaultNames == <<"site", "area">>

(* DashboardCells: pairs of widgets that may share what they ask for *)
MCFleet == <<"d1", "d2">>
Temp == <<"k1">>
Both == <<"k1", "k2">>
One(t, ks) == [type |-> t, all |-> FALSE, id |-> "d1", keys |-> ks, opts |-> {}]
All(t, ks) == [type |-> t, all |-> TRUE, id |-> "none", keys |-> ks, opts |-> {}]
With(cfg, opts) == [cfg EXCEPT !.opts = opts]
MCBoards ==
  {[c \in Cells |-> pair[IF c = "c1" THEN 1 ELSE 2]] : pair \in {
     <<One("line-chart", Temp), One("timeseries-table", Temp)>>,
     <<One("bar-chart", Temp), One("calendar-heatmap", Temp)>>,
     <<One("multi-key-chart", Both), One("movement-heatmap", Both)>>,
     <<With(One("value-tile", Temp), {"sparkline"}), One("value-cards", Both)>>,
     <<One("gauge", Temp), One("value-map", Both)>>,
     <<All("line-chart", Temp), With(All("scatter", Both), {"FLEET"})>>,
     <<With(All("attributes-table", <<>>), {"ATTRIBUTE", "TELEMETRY"}), All("fleet-map", <<>>)>>,
     <<One("scatter", Temp), One("donut", <<>>)>>,
     <<With(All("donut", <<>>), {"ENTITY_TYPE"}), One("map", Both)>>}}

(* CellAlgorithms: samples around the limits of each algorithm *)
MCSpans == {0, 29999, 30000, 30001} \cup
  UNION {{s * 500 - 1, s * 500, s * 500 + 1} : s \in {300, 3600, 86400, 604800}}
\* newest first, as the API returns them; one sample at most is no number
MCTrails ==
  UNION {{[i \in DOMAIN o |-> [ts |-> o[i], num |-> o[i] # n]] : n \in {0, 3}} :
           o \in {SetToSortSeq(S, >) : S \in {S \in SUBSET (1..7) : Cardinality(S) <= 3}}}
MCSizes == SeqOf({[w |-> 4, h |-> 2], [w |-> 7, h |-> 3], [w |-> 12, h |-> 1]}, 4)
MCLayouts == {{}, {[x |-> 0, y |-> 0, w |-> 12, h |-> 2], [x |-> 3, y |-> 1, w |-> 2, h |-> 4]}}
MCKeyLists == {<<>>, <<"k1">>, <<"k1", "k2", "k3", "k4">>}
MCUnitTables == [{"k1", "k2", "k3", "k4"} -> {"", "C", "bar"}]
Column(source, scope, key) == [source |-> source, scope |-> scope, key |-> key]
MCEntityReports ==
  [{<<"ATTRIBUTE", "CLIENT">>, <<"ATTRIBUTE", "SERVER">>, <<"TELEMETRY", "">>} ->
     {{}, {"temp"}, {"temp", "rssi"}}]
MCDataKeyLists ==
  SeqOf({Column("ATTRIBUTE", "CLIENT", "*"), Column("ATTRIBUTE", "SERVER", "temp"),
         Column("TELEMETRY", "", "temp"), Column("TELEMETRY", "", "*")}, 3)
MCDayWindows == {[start |-> s, end |-> e] : s \in 7..13, e \in {14, 20, 21, 22, 60}}
Alarm(of, status, severity) == [of |-> of, status |-> status, severity |-> severity]
MCAlarmLists ==
  SeqOf({Alarm("e1", "ACTIVE_ACK", "MINOR"), Alarm("e1", "ACTIVE_UNACK", "CRITICAL"),
         Alarm("e1", "CLEARED_ACK", "MAJOR"), Alarm("e1", "ACTIVE_UNACK", "odd"),
         Alarm("e2", "ACTIVE_UNACK", "WARNING")}, 3)
MCHeights == {0, 100, 336, 337, 900}

-----------------------------------------------------------------------------
Parts == {"cache", "access", "walk", "sessions", "accounts", "editor", "panel", "console",
          "wizard", "cells", "page", "algorithms"}

Init ==
  /\ part \in Parts
  /\ CacheInit /\ (part # "cache" => kind = "latest")
  /\ AccessInit
  /\ part = "access" => OrderedSessions
  /\ part # "access" => /\ session = [c \in Calls |-> CHOOSE p \in Profiles : TRUE]
                        /\ \A a \in DOMAIN owner : owner[a] = NoCustomer
  /\ WalkInit
  /\ part # "walk" => /\ table = <<Root>>
                      /\ \A r \in Rows : above[r] = Root
                      /\ \A g \in Goods : holder[g] = Root
  /\ SessionInit
  /\ UsersInit
  /\ EditorInit
  /\ part # "editor" => role = (CHOOSE r \in Roles : TRUE) /\ stored = NoCopy
  /\ PanelInit /\ (part # "panel" => placed = NoWidget)
  /\ ConsoleInit
  /\ WizardInit
  /\ CellsInit
  /\ part # "cells" => /\ config = CHOOSE b \in Boards : TRUE
                       /\ range.kind = "LAST" /\ registered = 1
  /\ PageInit /\ (part # "page" => \A k \in PageKeys : reading[k] = 0)
  /\ IF part = "algorithms" THEN AlgorithmsInit ELSE sample = [use |-> "interval", span |-> 0]

\* BOUND: a third session while one request is in flight, so that an original saved by the
\* first login outlives the second; with two sessions the requests overlap.
ThirdTokenAlone == Len(issued') = MaxTokens => \A c \in Slots \ {1} : calls'[c].op = "none"

\* BOUND: of two logins, or two impersonations, in flight one is answered before the other
\* is served.
OneMints == \A c \in Slots \ {1} :
              /\ calls'[c].op \in {"login", "impersonate"} /\ calls'[1].op = calls'[c].op
              => Len(issued') < MaxTokens - 1

\* BOUND: the last click, which leaves a node that was left before or takes an asset along to
\* another client, with one request or failure only; two of them overlap with two clicks.
LastClickAlone == moves' = MaxMoves => made' < MaxRequests

\* BOUND: a second widget, so that two removals overlap, or saves of somebody else.
SecondWidgetAlone == others' > 0 => d1 \notin stored'.widgets \cup page'.staged

Next ==
  \/ /\ part = "cache" /\ CacheNext
     /\ UNCHANGED <<part, sample, accessVars, walkVars, sessionVars, users, editorVars,
                     panelVars, consoleVars, wizardVars, cellVars, pageVars>>
  \/ /\ part = "access" /\ AccessNext
     /\ UNCHANGED <<part, sample, cacheVars, walkVars, sessionVars, users, editorVars,
                     panelVars, consoleVars, wizardVars, cellVars, pageVars>>
  \/ /\ part = "walk" /\ WalkNext
     /\ UNCHANGED <<part, sample, cacheVars, accessVars, sessionVars, users, editorVars,
                     panelVars, consoleVars, wizardVars, cellVars, pageVars>>
  \/ /\ part = "sessions" /\ SessionNext /\ ThirdTokenAlone /\ OneMints
     /\ UNCHANGED <<part, sample, cacheVars, accessVars, walkVars, users, editorVars,
                     panelVars, consoleVars, wizardVars, cellVars, pageVars>>
  \/ /\ part = "accounts" /\ UsersNext
     /\ UNCHANGED <<part, sample, cacheVars, accessVars, walkVars, sessionVars, editorVars,
                     panelVars, consoleVars, wizardVars, cellVars, pageVars>>
  \/ /\ part = "editor" /\ EditorNext /\ SecondWidgetAlone
     /\ UNCHANGED <<part, sample, cacheVars, accessVars, walkVars, sessionVars, users,
                     panelVars, consoleVars, wizardVars, cellVars, pageVars>>
  \/ /\ part = "panel" /\ PanelNext
     /\ UNCHANGED <<part, sample, cacheVars, accessVars, walkVars, sessionVars, users,
                     editorVars, consoleVars, wizardVars, cellVars, pageVars>>
  \/ /\ part = "console" /\ ConsoleNext /\ LastClickAlone
     /\ UNCHANGED <<part, sample, cacheVars, accessVars, walkVars, sessionVars, users,
                     editorVars, panelVars, wizardVars, cellVars, pageVars>>
  \/ /\ part = "wizard" /\ WizardNext
     /\ UNCHANGED <<part, sample, cacheVars, accessVars, walkVars, sessionVars, users,
                     editorVars, panelVars, consoleVars, cellVars, pageVars>>
  \/ /\ part = "cells" /\ CellsNext
     /\ UNCHANGED <<part, sample, cacheVars, accessVars, walkVars, sessionVars, users,
                     editorVars, panelVars, consoleVars, wizardVars, pageVars>>
  \/ /\ part = "page" /\ PageNext
     /\ UNCHANGED <<part, sample, cacheVars, accessVars, walkVars, sessionVars, users,
                     editorVars, panelVars, consoleVars, wizardVars, cellVars>>

vars == <<part, sample, cacheVars, accessVars, walkVars, sessionVars, users, editorVars,
          panelVars, consoleVars, wizardVars, cellVars, pageVars>>

Spec == Init /\ [][Next]_vars

-----------------------------------------------------------------------------
\* The state of the part that runs has its type.
ApplicationTypeOK ==
  /\ part = "cache" => CacheTypeOK
  /\ part = "access" => AccessTypeOK
  /\ part = "walk" => WalkTypeOK
  /\ part = "sessions" => SessionTypeOK
  /\ part = "accounts" => UsersTypeOK
  /\ part = "editor" => EditorTypeOK
  /\ part = "panel" => PanelTypeOK
  /\ part = "console" => ConsoleTypeOK
  /\ part = "wizard" => WizardTypeOK
  /\ part = "cells" => CellsTypeOK
  /\ part = "page" => PageTypeOK

\* What a step may never do: link or claim outside the caller's scope, drop a session that
\* is alive without a reason, or take back a sharing the page did not touch.
NothingUndone == ScopedMoves /\ LiveSessionKept /\ SharingKept
=============================================================================
