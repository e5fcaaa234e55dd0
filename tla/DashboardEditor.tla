--------------------------- MODULE DashboardEditor ---------------------------
(***************************************************************************)
(* One dashboard: the service that stores it (dashboards.service.ts), the  *)
(* page of one user that edits it (app/dashboard/[id]/page.tsx with        *)
(* DashboardCanvas.tsx), and everybody else, who saves it whole at any     *)
(* moment.  The page edits a copy and sends it back whole; the service     *)
(* replaces everything in one transaction.  Between the two stands the     *)
(* query cache of the tab, which outlives the page.                        *)
(*                                                                         *)
(* A sharing is what visibility, customerScope and customerAccess amount   *)
(* to: "private", "own" (the creator's customer), "given" (another         *)
(* customer) or "all".                                                     *)
(***************************************************************************)
EXTENDS Naturals, FiniteSets

CONSTANTS Widgets,
          MaxSaves, \* BOUND: saves of the page
          MaxOthers \* BOUND: saves of everybody else

Roles == {"sysadmin", "creator", "colleague", "stranger", "reader"}
Sharings == {"private", "own", "given", "all"}

ASSUME EditorAssumption == Widgets # {} /\ MaxSaves \in Nat /\ MaxOthers \in Nat

VARIABLES
    role,   \* what the user is to this dashboard
    stored, \* Postgres: the dashboard; shares counts the changes of its sharing
    cache,  \* the tab's query cache
    fetch,  \* the tab's GET, and whether the last one failed
    page,   \* the page
    saves,  \* its PUT and POST requests
    others  \* the saves of everybody else so far

editorVars == <<role, stored, cache, fetch, page, saves, others>>

SaveIds == 1 .. MaxSaves
NoCopy == [state |-> "none", widgets |-> {}, sharing |-> "private", shares |-> 0]
Copies == [state : {"none", "live", "deleted"}, widgets : SUBSET Widgets, sharing : Sharings,
           shares : 0 .. MaxOthers + MaxSaves]

Closed ==
    [phase |-> "closed", new |-> FALSE, seeded |-> FALSE, staged |-> {}, sharing |-> "private",
     exiting |-> {}, \* the widget that fades before it is removed
     meant |-> {},   \* history: the widgets it was filled with and what the user did to them
     lost |-> {},    \* history: removals that were forgotten
     shares |-> 0]   \* history: the last sharing fetched
Unsent == [phase |-> "unused", mine |-> FALSE, create |-> FALSE,
           widgets |-> {}, sharing |-> "private", shares |-> 0]
NoFetch == [phase |-> "none", failed |-> FALSE, copy |-> NoCopy]

EditorInit ==
    /\ role \in Roles
    /\ stored \in {NoCopy} \cup
         [state : {"live"}, widgets : {{CHOOSE w \in Widgets : TRUE}}, sharing : {"own"},
          shares : {0}]
    /\ cache = NoCopy /\ fetch = NoFetch /\ page = Closed /\ others = 0
    /\ saves = [n \in SaveIds |-> Unsent]

CanView(sharing) ==
    \/ role = "sysadmin" \/ sharing = "all"
    \/ sharing = "private" /\ role = "creator"
    \/ sharing = "own" /\ role \in {"creator", "colleague", "reader"}
    \/ sharing = "given" /\ role = "stranger"

-----------------------------------------------------------------------------
\* The page.
Seeded_everyTime(p, copy) ==
    [p EXCEPT !.seeded = TRUE, !.sharing = copy.sharing, !.shares = copy.shares,
              !.staged = copy.widgets]
\* The effect on new data: the first copy fills the editor, each refreshes the sharing.
Seeded(p, copy) ==
    LET q == [p EXCEPT !.seeded = TRUE, !.sharing = copy.sharing, !.shares = copy.shares] IN
    IF p.seeded THEN q ELSE [q EXCEPT !.staged = copy.widgets, !.meant = copy.widgets]

IsLive(copy) == copy.state = "live"
Opened == LET p == [Closed EXCEPT !.phase = "viewing"] IN
          IF IsLive(cache) THEN Seeded(p, cache) ELSE p

\* What the cache holds is shown at once and fetched again.
OpenPage ==
    /\ page.phase = "closed"
    /\ page' = Opened
    /\ fetch' = [fetch EXCEPT !.phase = IF @ = "none" THEN "asked" ELSE @]
    /\ UNCHANGED <<role, stored, cache, saves, others>>

OpenNew ==
    /\ page.phase = "closed" /\ role # "reader"
    /\ page' = [Closed EXCEPT !.phase = "editing", !.new = TRUE]
    /\ UNCHANGED <<role, stored, cache, fetch, saves, others>>

Orphaned(n) == [saves[n] EXCEPT !.mine = FALSE]
\* Requests go on without the page.
ClosePage ==
    /\ page.phase # "closed"
    /\ page' = Closed
    /\ saves' = [n \in SaveIds |-> Orphaned(n)]
    /\ UNCHANGED <<role, stored, cache, fetch, others>>

\* An entry nobody shows is dropped after five minutes.
Forget ==
    /\ page.phase = "closed" \/ page.new
    /\ fetch.phase = "none"
    /\ cache' = NoCopy /\ fetch' = NoFetch
    /\ UNCHANGED <<role, stored, page, saves, others>>

MayRead == IsLive(stored) /\ CanView(stored.sharing)
\* GET /dashboards/:id reads one version.
FetchReads ==
    /\ fetch.phase = "asked" /\ MayRead
    /\ fetch' = [fetch EXCEPT !.phase = "read", !.copy = stored]
    /\ UNCHANGED <<role, stored, cache, page, saves, others>>

\* A failed one (403, 404) leaves the data; the error replaces the canvas, and the widget that
\* was fading stays.
PageFetchFails ==
    /\ fetch.phase = "asked" /\ ~MayRead
    /\ fetch' = [NoFetch EXCEPT !.failed = TRUE]
    /\ page' = IF page.new THEN page
               ELSE [page EXCEPT !.exiting = {}, !.lost = @ \cup page.exiting]
    /\ UNCHANGED <<role, stored, cache, saves, others>>

FetchAnswers ==
    /\ fetch.phase = "read"
    /\ cache' = fetch.copy
    /\ page' = IF page.phase = "closed" \/ page.new THEN page ELSE Seeded(page, fetch.copy)
    /\ fetch' = NoFetch
    /\ UNCHANGED <<role, stored, saves, others>>

Shown == page.new \/ ~fetch.failed
Editing == page.phase = "editing" /\ Shown

StartEditing ==
    /\ page.phase = "viewing" /\ page.seeded /\ Shown /\ role # "reader"
    /\ page' = [page EXCEPT !.phase = "editing"]
    /\ UNCHANGED <<role, stored, cache, fetch, saves, others>>

AddWidget(w) ==
    /\ Editing /\ w \notin page.staged
    /\ page' = [page EXCEPT !.staged = @ \cup {w}, !.meant = @ \cup {w}]
    /\ UNCHANGED <<role, stored, cache, fetch, saves, others>>

\* Confirmed in the dialog: the widget begins to fade; one still fading is forgotten.
RemoveWidget(w) ==
    /\ Editing /\ w \in page.staged
    /\ page' = [page EXCEPT !.exiting = {w}, !.meant = @ \ {w},
                            !.lost = (@ \cup page.exiting) \ {w}]
    /\ UNCHANGED <<role, stored, cache, fetch, saves, others>>

AnimationEnds ==
    /\ page.exiting # {}
    /\ page' = [page EXCEPT !.staged = @ \ page.exiting, !.exiting = {},
                            !.lost = @ \ page.exiting]
    /\ UNCHANGED <<role, stored, cache, fetch, saves, others>>

Unused == {n \in SaveIds : saves[n].phase = "unused"}
\* handleSave: the staged widgets with the sharing the page last saw; the button stays enabled.
Save ==
    /\ Editing /\ Unused # {}
    /\ LET n == CHOOSE i \in Unused : TRUE IN
       saves' = [saves EXCEPT ![n] =
                   [phase |-> "sent", mine |-> TRUE, create |-> page.new,
                    widgets |-> page.staged, sharing |-> page.sharing, shares |-> page.shares]]
    /\ UNCHANGED <<role, stored, cache, fetch, page, others>>

-----------------------------------------------------------------------------
\* The service.
MoveTo(n, phase) == saves' = [saves EXCEPT ![n].phase = phase]
MayEdit == role \in {"sysadmin", "creator"}
\* resolveCustomerIds: what a save by anyone but a sysadmin may grant.
Refuses(sharing) == sharing = "all" /\ role # "sysadmin"
Granted(sharing) == IF sharing = "given" /\ role # "sysadmin" THEN "own" ELSE sharing

\* save() reads the row and decides before the transaction; create() only decides.
CheckSave(n) ==
    /\ saves[n].phase = "sent"
    /\ MoveTo(n, IF \/ ~saves[n].create /\ ~(IsLive(stored) /\ MayEdit)
                    \/ Refuses(saves[n].sharing)
                 THEN "refused" ELSE "checked")
    /\ UNCHANGED <<role, stored, cache, fetch, page, others>>

Replaced(widgets, sharing) ==
    stored' = [state |-> "live", widgets |-> widgets, sharing |-> sharing,
               shares |-> stored.shares +
                            (IF IsLive(stored) /\ sharing # stored.sharing THEN 1 ELSE 0)]

\* The transaction replaces everything, whatever was saved since the page's copy.
CommitSave(n) ==
    /\ saves[n].phase = "checked"
    /\ IF saves[n].create THEN stored.state = "none" /\ role = "creator" ELSE IsLive(stored)
    /\ Replaced(saves[n].widgets, Granted(saves[n].sharing))
    /\ MoveTo(n, "committed")
    /\ UNCHANGED <<role, cache, fetch, page, others>>

\* A create makes another dashboard; an update of a row deleted since rolls back.
CommitElsewhere(n) ==
    /\ saves[n].phase = "checked"
    /\ \/ saves[n].create /\ (stored.state # "none" \/ role # "creator") /\ MoveTo(n, "other")
       \/ ~saves[n].create /\ ~IsLive(stored) /\ MoveTo(n, "refused")
    /\ UNCHANGED <<role, stored, cache, fetch, page, others>>

\* The answer is a new read, which may fail after the save took effect.
ReadSaved(n) ==
    /\ saves[n].phase = "committed"
    /\ MoveTo(n, IF MayRead THEN "ok" ELSE "refused")
    /\ UNCHANGED <<role, stored, cache, fetch, page, others>>

Done == [Unsent EXCEPT !.phase = "done"]
\* The queries are invalidated: an open page asks again, whatever was on its way.  A created
\* dashboard's page replaces whatever page the user is on by then, unless it is that page.
SaveSucceeds(n) ==
    LET shown == page.phase # "closed" /\ ~page.new
        turns == saves[n].create /\ ~shown
        open == turns \/ shown IN
    /\ saves[n].phase = "ok"
    /\ fetch' = IF open THEN [fetch EXCEPT !.phase = "asked", !.copy = NoCopy] ELSE fetch
    /\ page' = IF turns THEN Opened
               ELSE IF saves[n].mine THEN [page EXCEPT !.phase = "viewing"] ELSE page
    /\ saves' = [i \in SaveIds |-> IF i = n THEN Done
                                   ELSE IF turns THEN Orphaned(i) ELSE saves[i]]
    /\ UNCHANGED <<role, stored, cache, others>>

\* The user is taken to the other dashboard's page, from wherever the create's answer finds
\* them.
OtherSucceeds(n) ==
    /\ saves[n].phase = "other"
    /\ page' = Closed
    /\ saves' = [i \in SaveIds |-> IF i = n THEN Done ELSE Orphaned(i)]
    /\ UNCHANGED <<role, stored, cache, fetch, others>>

\* A toast; the page stays as it is.
SaveFails(n) ==
    /\ saves[n].phase = "refused"
    /\ saves' = [saves EXCEPT ![n] = Done]
    /\ UNCHANGED <<role, stored, cache, fetch, page, others>>

\* Another page, or a PUT outside the pages, which have no field for the sharing.
OthersSave(widgets, sharing) ==
    /\ IsLive(stored) /\ others < MaxOthers
    /\ Replaced(widgets, sharing)
    /\ others' = others + 1
    /\ UNCHANGED <<role, cache, fetch, page, saves>>

\* From the gallery, by whoever may.
DeleteDashboard ==
    /\ IsLive(stored)
    /\ stored' = [NoCopy EXCEPT !.state = "deleted"]
    /\ UNCHANGED <<role, cache, fetch, page, saves, others>>

EditorNext ==
    \/ OpenPage \/ OpenNew \/ ClosePage \/ Forget
    \/ FetchReads \/ PageFetchFails \/ FetchAnswers
    \/ StartEditing
    \/ \E w \in Widgets : AddWidget(w)
    \/ \E w \in Widgets : RemoveWidget(w)
    \/ AnimationEnds \/ Save
    \/ \E n \in SaveIds : CheckSave(n)
    \/ \E n \in SaveIds : CommitSave(n)
    \/ \E n \in SaveIds : CommitElsewhere(n)
    \/ \E n \in SaveIds : ReadSaved(n)
    \/ \E n \in SaveIds : SaveSucceeds(n)
    \/ \E n \in SaveIds : OtherSucceeds(n)
    \/ \E n \in SaveIds : SaveFails(n)
    \/ \E widgets \in SUBSET Widgets, sharing \in Sharings : OthersSave(widgets, sharing)
    \/ DeleteDashboard

EditorSpec == EditorInit /\ [][EditorNext]_editorVars

-----------------------------------------------------------------------------
EditorTypeOK ==
    /\ role \in Roles /\ others \in 0 .. MaxOthers
    /\ stored \in Copies /\ cache \in Copies
    /\ fetch \in [phase : {"none", "asked", "read"}, failed : BOOLEAN, copy : Copies]
    /\ page \in [phase : {"closed", "viewing", "editing"}, new : BOOLEAN, seeded : BOOLEAN,
                 staged : SUBSET Widgets, sharing : Sharings, exiting : SUBSET Widgets,
                 meant : SUBSET Widgets, lost : SUBSET Widgets,
                 shares : 0 .. MaxOthers + MaxSaves]
    /\ saves \in [SaveIds -> [phase : {"unused", "sent", "checked", "committed", "other", "ok",
                                       "refused", "done"},
                              mine : BOOLEAN, create : BOOLEAN, widgets : SUBSET Widgets,
                              sharing : Sharings, shares : 0 .. MaxOthers + MaxSaves]]

\* The editor holds the widgets it was first filled with and what the user did to them since,
\* through every refetch, save and failed save; only a removal confirmed while another widget
\* fades, or cut short by an error, is lost (page.tsx:60-75, DashboardCanvas.tsx:103-108).
EditsKept == page.staged = page.meant \cup page.exiting \cup page.lost

\* A save of this page puts back an older sharing only if the sharing changed after the copy
\* the page last fetched; otherwise it may only narrow a grant to another customer to the
\* creator's own (page.tsx:62-66, dashboards.service.ts:192-208).
SharingKept ==
    [][\A n \in SaveIds :
         CommitSave(n) /\ IsLive(stored) /\ stored'.sharing # stored.sharing
         => \/ stored.shares # saves[n].shares
            \/ stored.sharing = "given" /\ stored'.sharing = "own" /\ role = "creator"]_editorVars
=============================================================================
