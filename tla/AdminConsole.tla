---------------------------- MODULE AdminConsole ----------------------------
(***************************************************************************)
(* The admin page (app/admin/page.tsx): a drill-down from clients through  *)
(* one column of assets per hierarchy level to the devices of the node     *)
(* that is selected last, with a dialog for each thing one can do there.   *)
(*                                                                         *)
(* A column shows what the query cache holds for its parent node.  Requests*)
(* are served one at a time at a moment of their own (what goes on inside  *)
(* one is the subject of Hierarchy); what the page does with the answer    *)
(* depends on whether the panel still listens: closing a dialog resets its *)
(* mutation, and the callbacks given to mutate() are never called.         *)
(***************************************************************************)
EXTENDS Naturals, Sequences, FiniteSets

CONSTANTS Clients, NoClient,
          AssetPool,        \* ids ThingsBoard has given or may give to assets
          Start,         \* the assets there are when the page is opened
          Above,         \* the parent of each client, or NoClient
          LevelsOf,      \* how many hierarchy levels each client has
          DefaultLevels, \* DEFAULT_HIERARCHY_LEVELS (4 in the code)
          MaxRequests,   \* BOUND: requests, failed fetches and changes elsewhere
          MaxMoves,      \* BOUND: clicks that select or leave a node
          MaxAnswers     \* BOUND: fetches ThingsBoard has begun to serve at a time

ASSUME ConsoleAssumption ==
    /\ NoClient \notin Clients \cup AssetPool /\ Clients \cap AssetPool = {}
    /\ Above \in [Clients -> Clients \cup {NoClient}] /\ LevelsOf \in [Clients -> Nat]
    /\ DefaultLevels \in Nat \ {0} /\ MaxRequests \in Nat /\ MaxMoves \in Nat

VARIABLES
    tree,    \* each asset: where it hangs, and what it is called (labels are left out)
    linked,  \* the assets the device is linked to
    column,  \* query cache, for each node: what was fetched last, and the fetch under way
    path,    \* the clients and the assets selected, and whether the levels have loaded
    dialog,  \* the dialog on top, of which column, about which row
    pending,   \* requests under way
    made,    \* BOUND: requests, failed fetches and changes elsewhere so far
    moves,   \* BOUND: clicks so far
    missed,  \* history: nodes on the screen with a change the page will not ask for
    mismatch, \* history: a creation was refused that did not fit the tree
    undone   \* history: assets whose rename a save undid though its dialog showed it

consoleVars ==
    <<tree, linked, column, path, dialog, pending, made, moves, missed, mismatch, undone>>

Nodes == Clients \cup AssetPool
Unborn == "unborn"
Deleted == "deleted"
NoAnswer == [rows |-> {}, device |-> FALSE]
NotLoaded == [rows |-> {}, device |-> FALSE, loaded |-> FALSE, phase |-> "none",
              answer |-> NoAnswer]
NoRow == [id |-> NoClient, name |-> 0]
NoDialog == [kind |-> "none", level |-> 0, row |-> NoRow]

\* The assets the page finds were created by AssetsService.create, which checks the parent.
ASSUME StartAssumption ==
    /\ Unborn \notin Nodes /\ Deleted \notin Nodes
    /\ DOMAIN Start \subseteq AssetPool
    /\ Start \in [DOMAIN Start -> [at : Clients \cup DOMAIN Start, client : Clients,
                                   level : Nat, name : {0}]]
    /\ \A a \in DOMAIN Start :
         LET n == Start[a].at IN
         IF n \in Clients THEN Start[a].client = n /\ Start[a].level = 0
         ELSE Start[a].client = Start[n].client /\ Start[a].level = Start[n].level + 1

ConsoleInit ==
    /\ tree = [a \in AssetPool |-> IF a \in DOMAIN Start THEN Start[a] ELSE
                 [at |-> Unborn, client |-> NoClient, level |-> 0, name |-> 0]]
    /\ linked = {}
    /\ column = [n \in Nodes |-> NotLoaded]
    /\ path = [clients |-> <<>>, assets |-> <<>>, loaded |-> FALSE]
    /\ dialog = NoDialog /\ pending = {} /\ made = 0 /\ moves = 0
    /\ missed = {} /\ mismatch = FALSE /\ undone = {}

-----------------------------------------------------------------------------
Client == IF path.clients = <<>> THEN NoClient ELSE path.clients[Len(path.clients)]

\* The columns: the client's own levels but the last, or the default ones.
Levels == IF path.loaded /\ LevelsOf[Client] > 0 THEN LevelsOf[Client] ELSE DefaultLevels
ParentAt(level) ==
    IF level = 0 THEN Client
    ELSE IF level <= Len(path.assets) THEN path.assets[level] ELSE NoClient
Columns == {level \in 0 .. Levels - 2 : ParentAt(level) # NoClient}
ActiveNode == IF path.assets = <<>> THEN Client ELSE path.assets[Len(path.assets)]
Displayed == {ParentAt(level) : level \in Columns} \cup ({ActiveNode} \ {NoClient})

\* The children of a node, as ThingsBoard has them.
RowsOf(n) == {[id |-> a, name |-> tree[a].name] : a \in {b \in AssetPool : tree[b].at = n}}
ChildrenOf(n) == [rows |-> RowsOf(n), device |-> n \in linked]

\* The Contains relations are read first; the names are read afterwards, and an asset that is
\* gone by then is dropped.
Named(answer) ==
    [answer EXCEPT !.rows = {[id |-> r.id, name |-> tree[r.id].name] :
                               r \in {s \in @ : tree[s.id].at # Deleted}}]
\* An answer under way that will not say what ThingsBoard has now.
Late(n) ==
    \/ column[n].phase = "listed" /\ Named(column[n].answer) # ChildrenOf(n)
    \/ column[n].phase = "read" /\ column[n].answer # ChildrenOf(n)

AskFor(n) == [column[n] EXCEPT !.phase = "sent", !.answer = NoAnswer]

Gone(x) == x.level > Levels' - 2
Unheard(c) == [c EXCEPT !.heard = FALSE]
\* A column, or the device column, that was not on the node before.
NewlyOn(n) ==
    \/ \E level \in Columns' : ParentAt(level)' = n /\ (level \in Columns => ParentAt(level) # n)
    \/ ActiveNode' = n /\ ActiveNode # n
\* A query that gets an observer is stale at once (staleTime 0) and is fetched, unless a fetch
\* is under way, of an earlier time the node was on the screen perhaps: that one is joined.
\* A column that leaves the screen takes its dialog along and no longer listens.
Show ==
    /\ column' = [n \in Nodes |->
                    IF NewlyOn(n) /\ column[n].phase = "none" THEN AskFor(n) ELSE column[n]]
    /\ pending' = {IF Gone(c) THEN Unheard(c) ELSE c : c \in pending}
    /\ dialog' = IF Gone(dialog) THEN NoDialog ELSE dialog
    /\ missed' = (missed \cap Displayed') \cup {n \in Displayed' \ Displayed : Late(n)}

ServerKept == UNCHANGED <<tree, linked, made, mismatch, undone>>
Free == dialog.kind = "none"
Clicks == moves < MaxMoves /\ moves' = moves + 1

\* The rows of the Clients column.
VisibleCustomers ==
    IF Client = NoClient THEN {c \in Clients : Above[c] = NoClient}
    ELSE {Client} \cup {c \in Clients : Above[c] = Client}
SelectCustomer_assetsKept(c) ==
    /\ Free /\ c \in VisibleCustomers /\ c # Client
    /\ path' = [path EXCEPT !.clients = Append(@, c), !.loaded = FALSE]
    /\ Show /\ Clicks /\ ServerKept
SelectCustomer(c) ==
    /\ Free /\ c \in VisibleCustomers /\ c # Client
    /\ path' = [clients |-> Append(path.clients, c), assets |-> <<>>, loaded |-> FALSE]
    /\ Show /\ Clicks /\ ServerKept
NavigateCustomerTrail(i) ==
    /\ Free /\ i \in 0 .. Len(path.clients)
    /\ path' = [clients |-> SubSeq(path.clients, 1, i), assets |-> <<>>,
                loaded |-> path.loaded /\ i = Len(path.clients)]
    /\ Show /\ Clicks /\ ServerKept
HierarchyLoads ==
    /\ Client # NoClient /\ ~path.loaded
    /\ path' = [path EXCEPT !.loaded = TRUE]
    /\ Show /\ ServerKept /\ UNCHANGED moves

\* A click on the selected row collapses its level, on another one replaces it.
SelectAsset(level, row) ==
    /\ Free /\ level \in Columns /\ row \in column[ParentAt(level)].rows
    /\ path' = [path EXCEPT !.assets =
                  IF level < Len(@) /\ @[level + 1] = row.id THEN SubSeq(@, 1, level)
                  ELSE Append(SubSeq(@, 1, level), row.id)]
    /\ Show /\ Clicks /\ ServerKept

-----------------------------------------------------------------------------
FetchOnly(n, entry) ==
    /\ column' = [column EXCEPT ![n] = entry]
    /\ UNCHANGED <<tree, linked, path, dialog, pending, moves, mismatch, undone>>

\* EntitiesService.getRelationChildren: the relations, then the entities.
ListsChildren(n) ==
    /\ column[n].phase = "sent"
    /\ Cardinality({m \in Nodes : column[m].phase \in {"listed", "read"}}) < MaxAnswers
    /\ FetchOnly(n, [column[n] EXCEPT !.phase = "listed", !.answer = ChildrenOf(n)])
    /\ UNCHANGED <<missed, made>>
ReadsChildren(n) ==
    /\ column[n].phase = "listed"
    /\ FetchOnly(n, [column[n] EXCEPT !.phase = "read", !.answer = Named(@)])
    /\ UNCHANGED <<missed, made>>

\* The answer, whether or not the node is still on the screen.
Fetched(n) ==
    /\ column[n].phase = "read"
    /\ FetchOnly(n, [rows |-> column[n].answer.rows, device |-> column[n].answer.device,
                     loaded |-> TRUE, phase |-> "none", answer |-> NoAnswer])
    /\ missed' = IF Late(n) THEN missed ELSE missed \ {n}
    /\ UNCHANGED made

\* A fetch that fails is tried again, and given up if it fails again or its node has left the
\* screen; what an earlier one brought is kept.
ColumnFetchRetries(n) ==
    /\ column[n].phase \in {"listed", "read"} /\ n \in Displayed
    /\ FetchOnly(n, AskFor(n)) /\ UNCHANGED <<missed, made>>
ColumnFetchFails(n) ==
    /\ column[n].phase # "none" /\ made < MaxRequests /\ made' = made + 1
    /\ FetchOnly(n, [column[n] EXCEPT !.phase = "none", !.answer = NoAnswer])
    /\ missed' = missed \cup ({n} \cap Displayed)

Opens(kind, level, row) ==
    /\ Free
    /\ dialog' = [kind |-> kind, level |-> level, row |-> row]
    /\ ServerKept /\ UNCHANGED <<column, path, pending, moves, missed>>
\* The Add button of a column.
OpenAdd(level) == level \in Columns /\ Opens("add", level, NoRow)
\* The Edit and Delete buttons of a row; the edit dialog is seeded from the row.
OpenRow(kind, level, row) ==
    /\ level \in Columns /\ row \in column[ParentAt(level)].rows
    /\ Opens(kind, level, row)
\* Assign, in the device column.
OpenAssign == ActiveNode \in AssetPool /\ Opens("assign", 0, NoRow)

\* closeAddDialog, closeDeleteDialog and closeAssign reset their mutation; closing the
\* edit dialog does not.
CloseDialog ==
    /\ dialog.kind # "none"
    /\ dialog' = NoDialog
    /\ pending' = {IF c.panel = dialog.kind /\ c.level = dialog.level /\ c.panel # "edit"
                   THEN Unheard(c) ELSE c : c \in pending}
    /\ UNCHANGED <<tree, linked, column, path, made, moves, missed, mismatch, undone>>

Pending(kind) == \E c \in pending : c.panel = kind /\ c.level = dialog.level /\ c.heard

\* The row being edited no longer shows the name; a rename of it is under way that its
\* panel, unmounted since, no longer waits for.
OutOfDate == tree[dialog.row.id].name # dialog.row.name
Forgotten == \E c \in pending : c.panel = "edit" /\ c.row.id = dialog.row.id /\ ~c.heard

\* mutate(): the request carries what is on the screen now.
SendsOff(kind, node, row, next) ==
    /\ dialog.kind = kind /\ ~Pending(kind) /\ made < MaxRequests
    /\ made' = made + 1
    /\ pending' = pending \cup {[n |-> made, panel |-> kind, level |-> dialog.level, node |-> node,
                             client |-> Client, row |-> row, heard |-> TRUE,
                             own |-> Levels = LevelsOf[Client],
                             old |-> kind = "edit" /\ (OutOfDate \/ Forgotten),
                             phase |-> "sent"]}
    /\ dialog' = next
    /\ UNCHANGED <<tree, linked, column, path, moves, missed, mismatch, undone>>

SubmitCreate ==
    /\ dialog.level \in Columns
    /\ SendsOff("add", ParentAt(dialog.level), NoRow, dialog)
ConfirmDelete == SendsOff("delete", ParentAt(dialog.level), dialog.row, dialog)
SubmitAssign == SendsOff("assign", ActiveNode, NoRow, dialog)

\* The edit dialog closes at once; it sends name and label, whichever was changed.
SubmitEdit(renames) ==
    SendsOff("edit", ParentAt(dialog.level),
          IF renames THEN [dialog.row EXCEPT !.name = made + 1] ELSE dialog.row, NoDialog)

\* Unassign has no dialog and no reset.
Unassign ==
    /\ Free /\ ActiveNode \in AssetPool /\ column[ActiveNode].device /\ made < MaxRequests
    /\ made' = made + 1
    /\ pending' = pending \cup {[n |-> made, panel |-> "unassign", level |-> 0,
                             node |-> ActiveNode,
                             client |-> Client, row |-> NoRow, heard |-> TRUE, own |-> TRUE,
                             old |-> FALSE, phase |-> "sent"]}
    /\ UNCHANGED <<tree, linked, column, path, dialog, moves, missed, mismatch, undone>>

-----------------------------------------------------------------------------
Reaches(c, phase) == pending' = (pending \ {c}) \cup {[c EXCEPT !.phase = phase]}
\* An error: the dialog, if it is still there, stays open with the message.
Ends(c) == pending' = pending \ {c}
PageKept == UNCHANGED <<column, path, dialog, made, moves>>

Exists(a) == a \in AssetPool /\ tree[a].at \notin {Unborn, Deleted}
LevelExists(c) == c.level < LevelsOf[c.client]
ParentFits(c) ==
    IF c.level = 0 THEN c.node = c.client
    ELSE Exists(c.node) /\ tree[c.node].client = c.client /\ tree[c.node].level + 1 = c.level
NewAssets == {a \in AssetPool : tree[a].at = Unborn}

\* AssetsService.create, seen from outside.
ServeCreate(c) ==
    /\ c.panel = "add" /\ c.phase = "sent"
    /\ IF LevelExists(c) /\ ParentFits(c)
       THEN /\ NewAssets # {}
            /\ tree' = [tree EXCEPT ![CHOOSE a \in NewAssets : TRUE] =
                          [at |-> c.node, client |-> c.client, level |-> c.level,
                           name |-> c.n + 1]]
            /\ Reaches(c, "done") /\ UNCHANGED mismatch
       ELSE /\ mismatch' = (mismatch \/ (c.own /\ (c.node \notin AssetPool \/ Exists(c.node))))
            /\ Ends(c) /\ UNCHANGED tree
    /\ PageKept /\ UNCHANGED <<linked, missed, undone>>

\* AssetsService.delete: refused while anything hangs below; a missing asset is no error.
ServeDelete(c) ==
    /\ c.panel = "delete" /\ c.phase = "sent"
    /\ IF RowsOf(c.row.id) = {} /\ c.row.id \notin linked
       THEN tree' = [tree EXCEPT ![c.row.id].at = Deleted] /\ Reaches(c, "done")
       ELSE Ends(c) /\ UNCHANGED tree
    /\ PageKept /\ UNCHANGED <<linked, missed, mismatch, undone>>

\* PATCH /assets/:id with name and label.
ServeEdit(c) ==
    /\ c.panel = "edit" /\ c.phase = "sent"
    /\ IF Exists(c.row.id)
       THEN /\ tree' = [tree EXCEPT ![c.row.id].name = c.row.name]
            /\ undone' = IF c.row.name < tree[c.row.id].name /\ ~c.old /\ c.heard
                         THEN undone \cup {c.row.id} ELSE undone
            /\ Reaches(c, "done")
       ELSE Ends(c) /\ UNCHANGED <<tree, undone>>
    /\ PageKept /\ UNCHANGED <<linked, missed, mismatch>>

ServeLink(c) ==
    /\ c.panel \in {"assign", "unassign"} /\ c.phase = "sent"
    /\ IF Exists(c.node)
       THEN /\ linked' = IF c.panel = "assign" THEN linked \cup {c.node} ELSE linked \ {c.node}
            /\ Reaches(c, "done")
       ELSE Ends(c) /\ UNCHANGED linked
    /\ PageKept /\ UNCHANGED <<tree, missed, mismatch, undone>>

\* No answer, or an error of ThingsBoard, before anything was done.
ServeFails(c) ==
    /\ c.phase = "sent"
    /\ Ends(c)
    /\ PageKept /\ UNCHANGED <<tree, linked, missed, mismatch, undone>>

\* An error after everything, or a part of it, was done: the names of the edited asset's
\* customer cannot be resolved, the device is linked but not handed over to the customer,
\* the asset is deleted but not its assignment, or the answer is lost.
ErrorAfterEffect(c) ==
    /\ c.phase = "done"
    /\ Ends(c) /\ missed' = missed \cup ({c.node} \cap Displayed)
    /\ PageKept /\ UNCHANGED <<tree, linked, mismatch, undone>>

Closes(c) == c.heard /\ c.panel \in {"add", "delete", "assign"}
\* Links refresh from the hook, whoever listens; the others from the panel's callback.
Refreshes(c) == c.heard \/ c.panel \in {"assign", "unassign"}

\* invalidateQueries: of the active queries only, one that is idle is fetched and one under
\* way started again, but the first load of a node is joined.
InvalidateChildren(n) ==
    IF n \in Displayed /\ (column[n].loaded \/ column[n].phase = "none")
    THEN column' = [column EXCEPT ![n] = AskFor(n)] /\ UNCHANGED missed
    ELSE /\ missed' = IF n \in Displayed /\ Late(n) THEN missed \cup {n} ELSE missed
         /\ UNCHANGED column

Succeeds(c) ==
    /\ c.phase = "done"
    /\ pending' = pending \ {c}
    /\ dialog' = IF Closes(c) THEN NoDialog ELSE dialog
    /\ IF Refreshes(c) THEN InvalidateChildren(c.node)
       ELSE missed' = missed \cup ({c.node} \cap Displayed) /\ UNCHANGED column
    /\ UNCHANGED <<tree, linked, path, made, moves, mismatch, undone>>

\* Another administrator deletes an asset.
DeletedElsewhere(a) ==
    /\ Exists(a) /\ RowsOf(a) = {} /\ a \notin linked /\ made < MaxRequests
    /\ made' = made + 1
    /\ missed' = missed \cup ({tree[a].at} \cap Displayed)
    /\ tree' = [tree EXCEPT ![a].at = Deleted]
    /\ UNCHANGED <<linked, column, path, dialog, pending, moves, mismatch, undone>>

ConsoleNext ==
    \/ \E c \in Clients : SelectCustomer(c)
    \/ \E i \in 0 .. Len(path.clients) : NavigateCustomerTrail(i)
    \/ HierarchyLoads
    \/ \E n \in Nodes :
         \/ ListsChildren(n) \/ ReadsChildren(n) \/ Fetched(n)
         \/ ColumnFetchRetries(n) \/ ColumnFetchFails(n)
    \/ \E level \in Columns :
         \/ OpenAdd(level)
         \/ \E row \in column[ParentAt(level)].rows :
              \/ SelectAsset(level, row) \/ OpenRow("edit", level, row)
              \/ OpenRow("delete", level, row)
    \/ OpenAssign \/ CloseDialog
    \/ SubmitCreate \/ ConfirmDelete \/ SubmitAssign \/ Unassign
    \/ \E renames \in BOOLEAN : SubmitEdit(renames)
    \/ \E c \in pending :
         \/ ServeCreate(c) \/ ServeDelete(c) \/ ServeEdit(c) \/ ServeLink(c) \/ ServeFails(c)
         \/ ErrorAfterEffect(c) \/ Succeeds(c)
    \/ \E a \in AssetPool : DeletedElsewhere(a)

ConsoleSpec == ConsoleInit /\ [][ConsoleNext]_consoleVars

-----------------------------------------------------------------------------
ConsoleTypeOK ==
    /\ tree \in [AssetPool -> [at : Nodes \cup {Unborn, Deleted}, client : Clients \cup {NoClient},
                            level : Nat, name : Nat]]
    /\ linked \subseteq AssetPool /\ missed \subseteq Nodes /\ undone \subseteq AssetPool
    /\ column \in [Nodes -> [rows : SUBSET [id : AssetPool, name : Nat], device : BOOLEAN,
                             loaded : BOOLEAN, phase : {"none", "sent", "listed", "read"},
                             answer : [rows : SUBSET [id : AssetPool, name : Nat],
                                       device : BOOLEAN]]]
    /\ path.clients \in Seq(Clients) /\ path.assets \in Seq(AssetPool)
    /\ dialog.kind \in {"none", "add", "edit", "delete", "assign"}
    /\ made \in 0 .. MaxRequests /\ moves \in 0 .. MaxMoves

(* What the page asks to create always fits the tree: the parent is of the *)
(* column before, of the same client, and one level above.  The backend    *)
(* refuses only because the parent was deleted meanwhile or the columns    *)
(* were the default ones and not the client's own.                         *)
CreationsFit == ~mismatch

(* When nothing is under way for a node on the screen, its column shows    *)
(* what ThingsBoard has, in spite of answers read before a write and come  *)
(* after it, unless a fetch failed, somebody else changed the node, the    *)
(* write ended in an error after its effect or with nobody listening, or a *)
(* fetch older than the write was joined: the first load of the node, or   *)
(* one begun before the node left the screen.                              *)
ColumnsCatchUp ==
    \A n \in Displayed :
        (column[n].phase = "none" /\ \A c \in pending : c.node # n) =>
            \/ n \in missed
            \/ column[n].rows = RowsOf(n) /\ column[n].device = (n \in linked)

(* Saving a label sends the name along: it undoes a rename only if that    *)
(* was complete and the dialog's row did not show it, or if the panel that *)
(* waited for it had been unmounted.                                       *)
RenamesKept == undone = {}

(* The three together: creations fit the hierarchy, the columns catch up,  *)
(* and no edit undoes another rename unseen.                               *)
ConsoleSafe == CreationsFit /\ ColumnsCatchUp /\ RenamesKept
=============================================================================
