--------------------------- MODULE Console_proofs ---------------------------
(***************************************************************************)
(* AdminConsole, proved: the page asks for creations that fit, its columns *)
(* catch up and no save undoes a rename unseen, for every set of clients   *)
(* and assets, every hierarchy and every number of requests.               *)
(***************************************************************************)
EXTENDS AdminConsole, SequenceTheorems, TLAPS

-----------------------------------------------------------------------------
(* The inductive invariant *)

Sent == {"add", "edit", "delete", "assign", "unassign"}
TreeRecords == [at : Nodes \cup {Unborn, Deleted}, client : Clients \cup {NoClient},
                level : Nat, name : Nat]
AnswerRecords == [rows : SUBSET [id : AssetPool, name : Nat], device : BOOLEAN]
ColumnRecords == [rows : SUBSET [id : AssetPool, name : Nat], device : BOOLEAN,
                  loaded : BOOLEAN, phase : {"none", "sent", "listed", "read"},
                  answer : AnswerRecords]
RowRecords == [id : AssetPool \cup {NoClient}, name : Nat]
DialogRecords == [kind : {"none", "add", "edit", "delete", "assign"}, level : Nat,
                  row : RowRecords]
PathRecords == [clients : Seq(Clients), assets : Seq(AssetPool), loaded : BOOLEAN]
RequestRecords == [n : Nat, panel : Sent, level : Nat, node : Nodes \cup {NoClient},
                   client : Clients \cup {NoClient}, row : RowRecords, heard : BOOLEAN,
                   own : BOOLEAN, old : BOOLEAN, phase : {"sent", "done"}]

ConsoleShapes ==
  /\ tree \in [AssetPool -> TreeRecords]
  /\ linked \subseteq AssetPool /\ missed \subseteq Nodes
  /\ column \in [Nodes -> ColumnRecords]
  /\ path \in PathRecords
  /\ dialog \in DialogRecords
  /\ pending \subseteq RequestRecords
  /\ made \in 0..MaxRequests

\* An asset keeps its client and its level when it is deleted.
AssetAt(a, client, level) ==
  a \in AssetPool /\ tree[a].at # Unborn /\ tree[a].client = client /\ tree[a].level = level
ChildOf(a, n) ==
  IF n \in Clients THEN AssetAt(a, n, 0)
  ELSE /\ n \in AssetPool /\ tree[n].at # Unborn
       /\ AssetAt(a, tree[n].client, tree[n].level + 1)
HangsAt(a, n) == ChildOf(a, n) /\ tree[a].at \in {n, Deleted}

\* What hangs below a node is one level deeper and of the same client: in ThingsBoard, in
\* the columns, in the answers under way and in the path that is selected.
TreeIsNested == \A a \in AssetPool : tree[a].at \in Nodes => ChildOf(a, tree[a].at)
Held(n) == column[n].rows \cup column[n].answer.rows
ColumnsAreNested == \A n \in Nodes : \A row \in Held(n) : HangsAt(row.id, n)
PathIsNested ==
  /\ \A i \in 1..Len(path.assets) : AssetAt(path.assets[i], Client, i - 1)
  /\ path.clients = <<>> => path.assets = <<>> /\ ~ path.loaded

\* A dialog is about a row of its column; a request about what its dialog showed.
DialogIsNested ==
  /\ dialog.kind \in {"edit", "delete"} =>
       /\ HangsAt(dialog.row.id, ParentAt(dialog.level))
       /\ AssetAt(dialog.row.id, Client, dialog.level)
  /\ dialog.kind = "assign" => ActiveNode \in AssetPool
RequestIsNested(c) ==
  /\ c.panel = "add" =>
       /\ c.client \in Clients
       /\ c.level = 0 => c.node = c.client
       /\ c.level # 0 => AssetAt(c.node, c.client, c.level - 1)
       /\ c.own => c.level < LevelsOf[c.client]
  /\ c.panel \in {"edit", "delete"} =>
       HangsAt(c.row.id, c.node) /\ AssetAt(c.row.id, c.client, c.level)
  /\ c.panel \in {"assign", "unassign"} => c.node \in AssetPool
ConsoleNested ==
  /\ TreeIsNested /\ ColumnsAreNested /\ PathIsNested /\ DialogIsNested
  /\ \A c \in pending : RequestIsNested(c)

\* Names are numbered by the request that gives them.
NamesAreGiven ==
  /\ \A a \in AssetPool : tree[a].name <= made
  /\ \A n \in Nodes : \A row \in Held(n) : row.name <= made
  /\ dialog.row.name <= made
  /\ \A c \in pending : c.n < made /\ c.row.name <= made

\* An edit its panel waits for, of a row that was up to date, is the only one of its asset,
\* and ThingsBoard has no later name.
EditsAreAlone ==
  \A c \in pending :
    c.panel = "edit" /\ c.heard /\ ~ c.old =>
      /\ \A d \in pending : d.panel = "edit" /\ d.row.id = c.row.id => d = c
      /\ c.phase = "sent" => tree[c.row.id].name <= c.row.name

\* What a column shows, or will when the fetch under way returns, is what ThingsBoard has.
UpToDate(n) ==
  /\ ~ Late(n)
  /\ column[n].phase = "none" =>
       column[n].rows = RowsOf(n) /\ column[n].device = (n \in linked)

\* A node on the screen that is behind will be fetched when the answer of a write arrives,
\* or the page will not ask for it.
BehindIsKnown ==
  \A n \in Displayed :
    n \in missed \/ UpToDate(n) \/ \E c \in pending : c.node = n /\ c.phase = "done"

ConsoleInductive ==
  /\ ConsoleShapes /\ ConsoleNested /\ NamesAreGiven /\ EditsAreAlone /\ BehindIsKnown
  /\ ~ mismatch /\ undone = {}

-----------------------------------------------------------------------------
(* Requests as records *)

\* A request that went one step further: it may have been answered, or lost its listener.
Continues(c, d) ==
  /\ d \in RequestRecords /\ d.n = c.n /\ d.panel = c.panel /\ d.level = c.level
  /\ d.node = c.node /\ d.client = c.client /\ d.row = c.row /\ d.own = c.own /\ d.old = c.old
  /\ d.heard => c.heard

LEMMA UnheardContinues ==
  ASSUME NEW c \in RequestRecords
  PROVE  /\ Continues(c, Unheard(c)) /\ Unheard(c).heard = FALSE
         /\ Unheard(c).phase = c.phase
<1> DEFINE d == [n |-> c.n, panel |-> c.panel, level |-> c.level, node |-> c.node,
                 client |-> c.client, row |-> c.row, heard |-> FALSE, own |-> c.own,
                 old |-> c.old, phase |-> c.phase]
<1>1. Unheard(c) = d
  <2>1. ASSUME NEW no
        PROVE  [c EXCEPT !.heard = no] =
                 [n |-> c.n, panel |-> c.panel, level |-> c.level, node |-> c.node,
                  client |-> c.client, row |-> c.row, heard |-> no, own |-> c.own,
                  old |-> c.old, phase |-> c.phase]
    BY DEF RequestRecords
  <2> QED BY <2>1 DEF Unheard
<1>2. d \in RequestRecords
  BY DEF RequestRecords
<1>3. /\ d.n = c.n /\ d.panel = c.panel /\ d.level = c.level /\ d.node = c.node
      /\ d.client = c.client /\ d.row = c.row /\ d.own = c.own /\ d.old = c.old
      /\ d.heard = FALSE /\ d.phase = c.phase
  OBVIOUS
<1> HIDE DEF d
<1> QED BY <1>1, <1>2, <1>3 DEF Continues

LEMMA ReachedContinues ==
  ASSUME NEW c \in RequestRecords
  PROVE  /\ Continues(c, [c EXCEPT !.phase = "done"])
         /\ [c EXCEPT !.phase = "done"].heard = c.heard
         /\ [c EXCEPT !.phase = "done"].phase = "done"
<1> DEFINE d == [n |-> c.n, panel |-> c.panel, level |-> c.level, node |-> c.node,
                 client |-> c.client, row |-> c.row, heard |-> c.heard, own |-> c.own,
                 old |-> c.old, phase |-> "done"]
<1>1. [c EXCEPT !.phase = "done"] = d
  BY DEF RequestRecords
<1>2. d \in RequestRecords
  BY DEF RequestRecords
<1>3. /\ d.n = c.n /\ d.panel = c.panel /\ d.level = c.level /\ d.node = c.node
      /\ d.client = c.client /\ d.row = c.row /\ d.own = c.own /\ d.old = c.old
      /\ d.heard = c.heard /\ d.phase = "done"
  OBVIOUS
<1> HIDE DEF d
<1> QED BY <1>1, <1>2, <1>3 DEF Continues

LEMMA ContinuesItself ==
  ASSUME NEW c \in RequestRecords PROVE Continues(c, c)
BY DEF Continues

-----------------------------------------------------------------------------
(* The path and its columns *)

LEMMA ClientSelected ==
  ASSUME path \in PathRecords
  PROVE  /\ Client \in Clients \cup {NoClient}
         /\ path.clients # <<>> => Client \in Clients
         /\ path.clients = <<>> => Client = NoClient
<1>1. path.clients \in Seq(Clients)
  BY DEF PathRecords
<1>2. path.clients # <<>> => Len(path.clients) \in 1..Len(path.clients)
  BY <1>1, EmptySeq, LenProperties
<1> QED BY <1>1, <1>2, ElementOfSeq DEF Client

LEMMA AssetsSelected ==
  ASSUME path \in PathRecords
  PROVE  /\ Len(path.assets) \in Nat
         /\ \A i \in 1..Len(path.assets) : path.assets[i] \in AssetPool
         /\ path.assets # <<>> => Len(path.assets) \in 1..Len(path.assets)
<1>1. path.assets \in Seq(AssetPool)
  BY DEF PathRecords
<1> QED BY <1>1, ElementOfSeq, LenProperties, EmptySeq

LEMMA ActiveSelected ==
  ASSUME path \in PathRecords
  PROVE  ActiveNode \in Nodes \cup {NoClient}
BY ClientSelected, AssetsSelected DEF ActiveNode, Nodes

LEMMA ParentSelected ==
  ASSUME path \in PathRecords, NEW level \in Nat
  PROVE  ParentAt(level) \in Nodes \cup {NoClient}
<1>1. CASE level = 0
  BY <1>1, ClientSelected DEF ParentAt, Nodes
<1>2. CASE level # 0 /\ level <= Len(path.assets)
  BY <1>2, AssetsSelected DEF ParentAt, Nodes
<1> QED BY <1>1, <1>2 DEF ParentAt

LEMMA ColumnParents ==
  ASSUME path \in PathRecords, PathIsNested, NEW level \in Columns
  PROVE  /\ level \in Nat /\ ParentAt(level) \in Nodes /\ Client \in Clients
         /\ level = 0 => ParentAt(level) = Client
         /\ level # 0 => /\ level \in 1..Len(path.assets)
                         /\ ParentAt(level) = path.assets[level]
                         /\ AssetAt(ParentAt(level), Client, level - 1)
         /\ level <= Levels - 2 /\ Levels \in Nat
<1>1. Levels \in Nat
  BY ConsoleAssumption, ClientSelected DEF Levels, PathIsNested
<1>2. level \in Nat /\ level <= Levels - 2 /\ ParentAt(level) # NoClient
  BY <1>1 DEF Columns
<1>3. ParentAt(level) \in Nodes
  BY <1>2, ParentSelected
<1>4. CASE level = 0
  BY <1>1, <1>2, <1>3, <1>4, ClientSelected DEF ParentAt
<1>5. CASE level # 0
  <2>1. level <= Len(path.assets) /\ ParentAt(level) = path.assets[level]
    BY <1>2, <1>5 DEF ParentAt
  <2>2. level \in 1..Len(path.assets)
    BY <1>2, <1>5, <2>1, AssetsSelected
  <2>3. path.clients # <<>>
    BY <2>2, EmptySeq DEF PathIsNested
  <2> QED BY <1>1, <1>2, <1>3, <1>5, <2>1, <2>2, <2>3, ClientSelected DEF PathIsNested
<1> QED BY <1>4, <1>5

LEMMA RowsBelow ==
  ASSUME path \in PathRecords, PathIsNested, ColumnsAreNested, tree \in [AssetPool -> TreeRecords],
         NEW level \in Columns, NEW row \in column[ParentAt(level)].rows
  PROVE  HangsAt(row.id, ParentAt(level)) /\ AssetAt(row.id, Client, level)
<1>1. HangsAt(row.id, ParentAt(level))
  BY ColumnParents DEF ColumnsAreNested, Held
<1>2. CASE level = 0
  BY <1>1, <1>2, ColumnParents DEF HangsAt, ChildOf
<1>3. CASE level # 0
  <2> DEFINE n == ParentAt(level)
  <2>1. AssetAt(n, Client, level - 1) /\ level \in Nat
    BY <1>3, ColumnParents
  <2>2. n \notin Clients
    BY <2>1, ConsoleAssumption DEF AssetAt
  <2>3. AssetAt(row.id, tree[n].client, tree[n].level + 1)
    BY <1>1, <2>2 DEF HangsAt, ChildOf
  <2>4. tree[n].client = Client /\ tree[n].level + 1 = level
    BY <2>1 DEF AssetAt
  <2> QED BY <1>1, <2>3, <2>4
<1> QED BY <1>2, <1>3

LEMMA NodesOnScreen == path \in PathRecords /\ PathIsNested => Displayed \subseteq Nodes
<1> SUFFICES ASSUME path \in PathRecords, PathIsNested PROVE Displayed \subseteq Nodes
  OBVIOUS
<1>1. \A level \in Columns : ParentAt(level) \in Nodes
  BY ColumnParents
<1> QED BY <1>1, ActiveSelected DEF Displayed

LEMMA NodesOnNextScreen ==
  (path \in PathRecords /\ PathIsNested)' => (Displayed \subseteq Nodes)'
BY NodesOnScreen, PTL

-----------------------------------------------------------------------------
(* The tree only grows and dies *)

TreeGoesOn ==
  \A a \in AssetPool : tree[a].at # Unborn =>
    /\ tree'[a].client = tree[a].client /\ tree'[a].level = tree[a].level
    /\ tree'[a].at \in {tree[a].at, Deleted}

LEMMA StaysAt ==
  ASSUME TreeGoesOn, NEW a, NEW client, NEW level, AssetAt(a, client, level)
  PROVE  AssetAt(a, client, level)'
<1>1. Unborn # Deleted
  BY DEF Unborn, Deleted
<1> QED BY <1>1 DEF AssetAt, TreeGoesOn

LEMMA StaysBelow ==
  ASSUME TreeGoesOn, NEW a, NEW n, ChildOf(a, n)
  PROVE  ChildOf(a, n)'
<1>1. CASE n \in Clients
  BY <1>1, StaysAt DEF ChildOf
<1>2. CASE n \notin Clients
  <2>1. PICK c, l : c = tree[n].client /\ l = tree[n].level + 1
    OBVIOUS
  <2>2. n \in AssetPool /\ tree[n].at # Unborn /\ AssetAt(a, c, l)
    BY <1>2, <2>1 DEF ChildOf
  <2>3. AssetAt(a, c, l)' /\ tree'[n].client = c /\ tree'[n].level + 1 = l
        /\ tree'[n].at # Unborn
    BY <2>1, <2>2, StaysAt DEF TreeGoesOn, Unborn, Deleted
  <2> QED BY <1>2, <2>2, <2>3 DEF ChildOf, AssetAt
<1> QED BY <1>1, <1>2

LEMMA StaysHanging ==
  ASSUME TreeGoesOn, NEW a, NEW n, HangsAt(a, n)
  PROVE  HangsAt(a, n)'
<1>1. a \in AssetPool /\ tree[a].at # Unborn
  BY DEF HangsAt, ChildOf, AssetAt
<1>2. tree'[a].at \in {n, Deleted}
  BY <1>1 DEF HangsAt, TreeGoesOn
<1> QED BY <1>2, StaysBelow DEF HangsAt

-----------------------------------------------------------------------------
(* Requests under way *)

LEMMA RequestStaysNested ==
  ASSUME TreeGoesOn, NEW c, NEW d, RequestIsNested(c), Continues(c, d)
  PROVE  RequestIsNested(d)'
<1> USE DEF Continues
<1>1. CASE c.panel = "add"
  <2>1. PICK l : l = c.level - 1
    OBVIOUS
  <2>2. c.level # 0 => AssetAt(c.node, c.client, l)'
    BY <1>1, <2>1, StaysAt DEF RequestIsNested
  <2>3. /\ d.client \in Clients /\ (d.level = 0 => d.node = d.client)
        /\ d.own => d.level < LevelsOf[d.client]
    BY <1>1 DEF RequestIsNested
  <2>4. d.level # 0 => AssetAt(d.node, d.client, d.level - 1)'
    BY <2>1, <2>2 DEF AssetAt
  <2> QED BY <1>1, <2>3, <2>4 DEF RequestIsNested
<1>2. CASE c.panel \in {"edit", "delete"}
  <2>1. PICK a, n, l, k : a = c.row.id /\ n = c.node /\ l = c.level /\ k = c.client
    OBVIOUS
  <2>2. HangsAt(a, n)' /\ AssetAt(a, k, l)'
    BY <1>2, <2>1, StaysAt, StaysHanging DEF RequestIsNested
  <2>3. d.row.id = a /\ d.node = n /\ d.level = l /\ d.client = k
    BY <2>1
  <2>4. HangsAt(d.row.id, d.node)'
    BY <2>2, <2>3 DEF HangsAt, ChildOf, AssetAt
  <2>5. AssetAt(d.row.id, d.client, d.level)'
    BY <2>2, <2>3 DEF AssetAt
  <2> QED BY <1>2, <2>4, <2>5 DEF RequestIsNested
<1>3. CASE c.panel \notin {"add", "edit", "delete"}
  BY <1>3 DEF RequestIsNested
<1> QED BY <1>1, <1>2, <1>3

\* Requests whose panel goes away.
LEMMA SomeUnheard ==
  ASSUME pending \subseteq RequestRecords, NEW S,
         pending' = {IF c \in S THEN Unheard(c) ELSE c : c \in pending}
  PROVE  /\ pending' \subseteq RequestRecords
         /\ \A d \in pending' : \E c \in pending : Continues(c, d) /\ d.phase = c.phase
         /\ \A c \in pending : \E d \in pending' : d.node = c.node /\ d.phase = c.phase
         /\ EditsAreAlone /\ tree' = tree => EditsAreAlone'
<1>1. ASSUME NEW c \in pending
      PROVE  /\ Continues(c, c) /\ Continues(c, Unheard(c))
             /\ Unheard(c).heard = FALSE /\ Unheard(c).phase = c.phase
  BY UnheardContinues, ContinuesItself
<1>2. ASSUME NEW d \in pending'
      PROVE  \E c \in pending : /\ Continues(c, d) /\ d.phase = c.phase
                                /\ d = IF c \in S THEN Unheard(c) ELSE c
  BY <1>1
<1>3. ASSUME NEW c \in pending
      PROVE  \E d \in pending' : d.node = c.node /\ d.phase = c.phase
  <2>1. (IF c \in S THEN Unheard(c) ELSE c) \in pending'
    BY <1>3
  <2>2. CASE c \in S
    BY <1>1, <1>3, <2>1, <2>2 DEF Continues
  <2> QED BY <1>3, <2>1, <2>2
<1>4. ASSUME EditsAreAlone, tree' = tree, NEW d \in pending', d.panel = "edit", d.heard,
             ~ d.old
      PROVE  /\ \A e \in pending' : e.panel = "edit" /\ e.row.id = d.row.id => e = d
             /\ d.phase = "sent" => tree'[d.row.id].name <= d.row.name
  <2>1. PICK c \in pending : Continues(c, d) /\ d = IF c \in S THEN Unheard(c) ELSE c
    BY <1>2
  <2>2. d = c /\ c \notin S
    BY <1>1, <1>4, <2>1
  <2>3. ASSUME NEW e \in pending', e.panel = "edit", e.row.id = d.row.id PROVE e = d
    <3>1. PICK f \in pending : Continues(f, e) /\ e = IF f \in S THEN Unheard(f) ELSE f
      BY <1>2
    <3>2. f = c
      BY <1>4, <2>2, <2>3, <3>1 DEF EditsAreAlone, Continues
    <3> QED BY <2>2, <3>1, <3>2
  <2> QED BY <1>4, <2>2, <2>3 DEF EditsAreAlone
<1>5. pending' \subseteq RequestRecords
  BY <1>2 DEF Continues
<1> QED BY <1>2, <1>3, <1>4, <1>5 DEF EditsAreAlone

\* A request is served, or gets its answer.
LEMMA OneAnswered ==
  ASSUME pending \subseteq RequestRecords, NEW c \in pending,
         pending' = pending \ {c} \/ Reaches(c, "done")
  PROVE  /\ pending' \subseteq RequestRecords
         /\ \A d \in pending' : \E e \in pending : Continues(e, d)
         /\ \A d \in pending \ {c} : d \in pending'
         /\ Reaches(c, "done") => \E d \in pending' : d.node = c.node /\ d.phase = "done"
<1> DEFINE r == [c EXCEPT !.phase = "done"]
<1>1. Continues(c, r) /\ r.phase = "done"
  BY ReachedContinues
<1>2. pending' = pending \ {c} \/ pending' = (pending \ {c}) \cup {r}
  BY DEF Reaches
<1>3. Reaches(c, "done") => r \in pending'
  BY DEF Reaches
<1> HIDE DEF r
<1>4. \A d \in pending : Continues(d, d)
  BY ContinuesItself
<1> QED BY <1>1, <1>2, <1>3, <1>4 DEF Continues

LEMMA OneEditAnswered ==
  ASSUME pending \subseteq RequestRecords, NEW c \in pending, EditsAreAlone,
         \A d \in pending : RequestIsNested(d),
         pending' = pending \ {c} \/ Reaches(c, "done"),
         \A a \in AssetPool : tree[a].at # Unborn /\ ~ (c.panel = "edit" /\ c.row.id = a) =>
           tree'[a].name = tree[a].name
  PROVE  EditsAreAlone'
<1> DEFINE r == [c EXCEPT !.phase = "done"]
<1>1. Continues(c, r) /\ r.phase = "done" /\ r.heard = c.heard
  BY ReachedContinues
<1>2. pending' = pending \ {c} \/ pending' = (pending \ {c}) \cup {r}
  BY DEF Reaches
<1> HIDE DEF r
<1>3. SUFFICES ASSUME NEW d \in pending', d.panel = "edit", d.heard, ~ d.old
               PROVE  /\ \A e \in pending' : e.panel = "edit" /\ e.row.id = d.row.id => e = d
                      /\ d.phase = "sent" => tree'[d.row.id].name <= d.row.name
  BY DEF EditsAreAlone
<1>4. CASE d \in pending \ {c}
  <2>1. c.panel = "edit" => c.row.id # d.row.id
    BY <1>3, <1>4 DEF EditsAreAlone
  <2>2. \A e \in pending' : e.panel = "edit" /\ e.row.id = d.row.id => e = d
    BY <1>1, <1>2, <1>3, <1>4, <2>1 DEF EditsAreAlone, Continues
  <2>3. d.row.id \in AssetPool /\ tree[d.row.id].at # Unborn
    BY <1>3, <1>4 DEF RequestIsNested, AssetAt
  <2>4. tree'[d.row.id].name = tree[d.row.id].name
    BY <2>1, <2>3
  <2> QED BY <1>3, <1>4, <2>2, <2>4 DEF EditsAreAlone
<1>5. CASE d \notin pending \ {c}
  <2>1. d = r /\ pending' = (pending \ {c}) \cup {r}
    BY <1>2, <1>3, <1>5
  <2>2. \A e \in pending : e.panel = "edit" /\ e.row.id = c.row.id => e = c
    BY <1>1, <1>3, <2>1 DEF EditsAreAlone, Continues
  <2> QED BY <1>1, <2>1, <2>2 DEF Continues
<1> QED BY <1>4, <1>5

-----------------------------------------------------------------------------
(* Moving about *)

InPhase(x, phase, answer) == [x EXCEPT !.phase = phase, !.answer = answer]
FetchPhases == {"none", "sent", "listed", "read"}
IsInPhase(y, x, phase, answer) ==
  /\ y \in ColumnRecords /\ y.rows = x.rows /\ y.device = x.device
  /\ y.phase = phase /\ y.answer = answer

LEMMA PhaseSet ==
  ASSUME NEW x \in ColumnRecords, NEW phase \in FetchPhases, NEW answer \in AnswerRecords
  PROVE  IsInPhase(InPhase(x, phase, answer), x, phase, answer)
<1> DEFINE y == [rows |-> x.rows, device |-> x.device, loaded |-> x.loaded,
                 phase |-> phase, answer |-> answer]
<1>1. InPhase(x, phase, answer) = y
  <2>1. PICK z : z = [x EXCEPT !.phase = phase]
    OBVIOUS
  <2>2. InPhase(x, phase, answer) = [z EXCEPT !.answer = answer]
    BY <2>1, Zenon DEF InPhase
  <2>3. z = [rows |-> x.rows, device |-> x.device, loaded |-> x.loaded,
             phase |-> phase, answer |-> x.answer]
    BY <2>1 DEF ColumnRecords
  <2>4. ASSUME NEW r, NEW d, NEW l, NEW p, NEW a, NEW b, NEW w,
               w = [rows |-> r, device |-> d, loaded |-> l, phase |-> p, answer |-> a]
        PROVE  [w EXCEPT !.answer = b] =
                 [rows |-> r, device |-> d, loaded |-> l, phase |-> p, answer |-> b]
    BY <2>4
  <2>5. [z EXCEPT !.answer = answer] = y
    BY <2>3, <2>4
  <2> QED BY <2>2, <2>5
<1>2. y \in ColumnRecords
  BY DEF ColumnRecords, FetchPhases
<1> QED BY <1>1, <1>2 DEF IsInPhase

LEMMA NoAnswerHeld == NoAnswer \in AnswerRecords /\ NoAnswer.rows = {}
BY DEF NoAnswer, AnswerRecords

LEMMA AskedAgain ==
  ASSUME column \in [Nodes -> ColumnRecords], NEW n \in Nodes
  PROVE  /\ AskFor(n) \in ColumnRecords /\ AskFor(n).rows = column[n].rows
         /\ AskFor(n).answer.rows = {} /\ AskFor(n).phase = "sent"
<1>1. column[n] \in ColumnRecords
  OBVIOUS
<1>2. AskFor(n) = InPhase(column[n], "sent", NoAnswer)
  BY Zenon DEF AskFor, InPhase
<1>3. "sent" \in FetchPhases
  BY DEF FetchPhases
<1>4. IsInPhase(InPhase(column[n], "sent", NoAnswer), column[n], "sent", NoAnswer)
  BY <1>1, <1>3, PhaseSet, NoAnswerHeld, Zenon
<1>5. IsInPhase(AskFor(n), column[n], "sent", NoAnswer)
  BY <1>2, <1>4
<1> QED BY <1>5, NoAnswerHeld DEF IsInPhase

\* A fetch ThingsBoard has not begun to serve is never late.
LEMMA SentIsUpToDate ==
  ASSUME NEW n, column'[n].phase = "sent"
  PROVE  UpToDate(n)'
BY DEF UpToDate, Late

LEMMA SameView ==
  ASSUME tree' = tree, linked' = linked, NEW n, column'[n] = column[n]
  PROVE  (Late(n)' <=> Late(n)) /\ (UpToDate(n)' <=> UpToDate(n))
<1>1. ChildrenOf(n)' = ChildrenOf(n) /\ RowsOf(n)' = RowsOf(n)
  BY DEF ChildrenOf, RowsOf
<1>2. Named(column[n].answer)' = Named(column[n].answer)
  BY DEF Named
<1>3. Late(n)' <=> Late(n)
  BY <1>1, <1>2 DEF Late
<1> QED BY <1>1, <1>3 DEF UpToDate

\* A change elsewhere in the tree: the answers under way name the same assets.
LEMMA OtherAnswers ==
  ASSUME ColumnsAreNested, column' = column, NEW n \in Nodes,
         \A b \in AssetPool : tree[b].at \in {n, Deleted} =>
           tree'[b].name = tree[b].name /\ tree'[b].at = tree[b].at,
         RowsOf(n)' = RowsOf(n), n \in linked' <=> n \in linked
  PROVE  UpToDate(n)' <=> UpToDate(n)
<1> DEFINE A == column[n].answer.rows
<1>1. \A s \in A : tree'[s.id].name = tree[s.id].name /\ tree'[s.id].at = tree[s.id].at
  BY DEF ColumnsAreNested, Held, HangsAt, ChildOf, AssetAt
<1>2. {s \in A : tree'[s.id].at # Deleted} = {s \in A : tree[s.id].at # Deleted}
  BY <1>1
<1>3. {[id |-> r.id, name |-> tree'[r.id].name] : r \in {s \in A : tree'[s.id].at # Deleted}}
        = {[id |-> r.id, name |-> tree[r.id].name] : r \in {s \in A : tree[s.id].at # Deleted}}
  BY <1>1, <1>2
<1>4. Named(column[n].answer)' = Named(column[n].answer)
  BY <1>3 DEF Named
<1>5. ChildrenOf(n)' = ChildrenOf(n)
  BY DEF ChildrenOf
<1>6. Late(n)' <=> Late(n)
  BY <1>4, <1>5 DEF Late
<1> QED BY <1>6 DEF UpToDate

\* What ThingsBoard holds, and the rows shown of it, stay nested when nothing new is added.
LEMMA NothingServed ==
  ASSUME tree' = tree
  PROVE  /\ TreeGoesOn
         /\ TreeIsNested => TreeIsNested'
         /\ \A n : RowsOf(n)' = RowsOf(n)
<1>1. TreeGoesOn
  BY DEF TreeGoesOn
<1>2. ASSUME TreeIsNested PROVE TreeIsNested'
  BY <1>2 DEF TreeIsNested, ChildOf, AssetAt
<1> QED BY <1>1, <1>2 DEF RowsOf

LEMMA ColumnsStayNested ==
  ASSUME TreeGoesOn, ColumnsAreNested, \A n \in Nodes : Held(n)' \subseteq Held(n)
  PROVE  ColumnsAreNested'
<1> SUFFICES ASSUME NEW n \in Nodes, NEW row \in Held(n)'
             PROVE  HangsAt(row.id, n)'
  BY DEF ColumnsAreNested
<1>1. PICK a : a = row.id
  OBVIOUS
<1>2. HangsAt(a, n)'
  BY <1>1, StaysHanging DEF ColumnsAreNested
<1> QED BY <1>1, <1>2 DEF HangsAt, ChildOf, AssetAt

LEMMA DialogStaysNested ==
  ASSUME TreeGoesOn, DialogIsNested, path \in PathRecords, dialog \in DialogRecords,
         dialog' = NoDialog \/ dialog' = dialog,
         dialog'.kind # "none" => Client' = Client /\ path'.assets = path.assets
  PROVE  DialogIsNested'
<1>1. CASE dialog'.kind = "none"
  BY <1>1 DEF DialogIsNested
<1>2. CASE dialog'.kind # "none"
  <2>1. dialog' = dialog /\ Client' = Client /\ path'.assets = path.assets
    BY <1>2 DEF NoDialog
  <2>2. ActiveNode' = ActiveNode
    BY <2>1 DEF ActiveNode
  <2>3. ASSUME dialog.kind \in {"edit", "delete"}
        PROVE  /\ HangsAt(dialog.row.id, ParentAt(dialog.level))'
               /\ AssetAt(dialog.row.id, Client, dialog.level)'
    <3>1. PICK a, n, k, l : /\ a = dialog.row.id /\ n = ParentAt(dialog.level) /\ k = Client
                            /\ l = dialog.level
      OBVIOUS
    <3>2. HangsAt(a, n)' /\ AssetAt(a, k, l)'
      BY <2>3, <3>1, StaysAt, StaysHanging DEF DialogIsNested
    <3>3. dialog'.row.id = a /\ ParentAt(dialog.level)' = n /\ Client' = k /\ dialog'.level = l
      BY <2>1, <3>1 DEF ParentAt
    <3>4. HangsAt(dialog.row.id, ParentAt(dialog.level))'
      BY <3>2, <3>3 DEF HangsAt, ChildOf, AssetAt
    <3>5. AssetAt(dialog.row.id, Client, dialog.level)'
      BY <3>2, <3>3 DEF AssetAt
    <3> QED BY <3>4, <3>5
  <2> QED BY <2>1, <2>2, <2>3 DEF DialogIsNested
<1> QED BY <1>1, <1>2

LEMMA RequestsStayNested ==
  ASSUME TreeGoesOn, \A c \in pending : RequestIsNested(c),
         \A d \in pending' : \E c \in pending : Continues(c, d)
  PROVE  \A d \in pending' : RequestIsNested(d)'
BY RequestStaysNested

\* The dialog that is left, when a column leaves or an answer closes it.
LEMMA DialogRecord ==
  ASSUME dialog \in DialogRecords, dialog.row.name <= made,
         dialog' = NoDialog \/ dialog' = dialog, made \in Nat
  PROVE  dialog' \in DialogRecords /\ dialog'.row.name <= made
BY DEF DialogRecords, NoDialog, NoRow, RowRecords

LEMMA NamesHeld ==
  ASSUME column \in [Nodes -> ColumnRecords]
  PROVE  \A n \in Nodes : \A row \in Held(n) : row.id \in AssetPool /\ row.name \in Nat
BY DEF ColumnRecords, AnswerRecords, Held

\* Names stay given as long as requests go on and columns show what they did.
LEMMA NamesStayGiven ==
  ASSUME NamesAreGiven, made \in Nat, made' \in Nat, made <= made',
         pending \subseteq RequestRecords,
         tree' = tree, column \in [Nodes -> ColumnRecords],
         \A n \in Nodes : Held(n)' \subseteq Held(n),
         dialog'.row.name <= made', dialog'.row.name \in Nat,
         tree \in [AssetPool -> TreeRecords],
         \A d \in pending' : \E c \in pending : Continues(c, d)
  PROVE  NamesAreGiven'
<1>1. \A a \in AssetPool : tree'[a].name <= made'
  BY DEF NamesAreGiven, TreeRecords
<1>2. \A n \in Nodes : \A row \in Held(n)' : row.name <= made'
  BY NamesHeld DEF NamesAreGiven
<1>3. ASSUME NEW d \in pending' PROVE d.n < made' /\ d.row.name <= made'
  <2>1. PICK c \in pending : Continues(c, d)
    OBVIOUS
  <2>2. c.n \in Nat /\ c.row.name \in Nat
    BY DEF RequestRecords, RowRecords
  <2> QED BY <2>1, <2>2 DEF NamesAreGiven, Continues
<1> QED BY <1>1, <1>2, <1>3 DEF NamesAreGiven

\* A node that gets on the screen gets there by a column of its own.
LEMMA NewOnScreen ==
  ASSUME NEW n \in Displayed', n \notin Displayed
  PROVE  NewlyOn(n)
<1>1. CASE n = ActiveNode' /\ n # NoClient
  BY <1>1 DEF Displayed, NewlyOn
<1>2. ASSUME NEW level \in Columns', n = ParentAt(level)' PROVE NewlyOn(n)
  <2>1. level \in Columns => ParentAt(level) # n
    BY DEF Displayed
  <2> QED BY <1>2, <2>1 DEF NewlyOn
<1> QED BY <1>1, <1>2 DEF Displayed

LEMMA ConsoleShown ==
  ASSUME ConsoleInductive, ServerKept, Show, path' \in PathRecords, PathIsNested',
         dialog.kind = "none" \/ (Client' = Client /\ path'.assets = path.assets)
  PROVE  ConsoleInductive'
<1> USE DEF ConsoleInductive
<1>1. /\ tree' = tree /\ linked' = linked /\ made' = made /\ mismatch' = mismatch
      /\ undone' = undone
  BY DEF ServerKept
<1>2. ASSUME NEW n \in Nodes
      PROVE  /\ column'[n] \in ColumnRecords /\ Held(n)' \subseteq Held(n)
             /\ column'[n] = column[n] \/ column'[n].phase = "sent"
             /\ NewlyOn(n) /\ column[n].phase = "none" => column'[n].phase = "sent"
  <2>1. column'[n] = IF NewlyOn(n) /\ column[n].phase = "none" THEN AskFor(n) ELSE column[n]
    BY DEF Show
  <2>2. column \in [Nodes -> ColumnRecords]
    BY DEF ConsoleShapes
  <2> QED BY <2>1, <2>2, AskedAgain DEF Held
<1>3. column' \in [Nodes -> ColumnRecords]
  BY <1>2 DEF Show
<1>4. /\ TreeGoesOn /\ TreeIsNested' /\ \A n : RowsOf(n)' = RowsOf(n)
  BY <1>1, NothingServed DEF ConsoleNested
<1>5. dialog' = NoDialog \/ dialog' = dialog
  BY DEF Show
<1>6. dialog'.kind # "none" => Client' = Client /\ path'.assets = path.assets
  BY <1>5 DEF NoDialog
<1>7. dialog' \in DialogRecords /\ dialog'.row.name <= made /\ dialog'.row.name \in Nat
  <2>1. made \in Nat
    BY ConsoleAssumption DEF ConsoleShapes
  <2>2. dialog' \in DialogRecords /\ dialog'.row.name <= made
    BY <1>5, <2>1, DialogRecord DEF ConsoleShapes, NamesAreGiven
  <2> QED BY <2>2 DEF DialogRecords, RowRecords
<1>8. /\ pending' \subseteq RequestRecords
      /\ \A d \in pending' : \E c \in pending : Continues(c, d) /\ d.phase = c.phase
      /\ \A c \in pending : \E d \in pending' : d.node = c.node /\ d.phase = c.phase
      /\ EditsAreAlone'
  <2> DEFINE S == {c \in pending : Gone(c)}
  <2>1. pending' = {IF c \in S THEN Unheard(c) ELSE c : c \in pending}
    BY DEF Show
  <2>2. pending \subseteq RequestRecords
    BY DEF ConsoleShapes
  <2> HIDE DEF S
  <2> QED BY <1>1, <2>1, <2>2, SomeUnheard
<1>9. ConsoleShapes'
  <2>1. missed' \subseteq Nodes
    BY NodesOnNextScreen DEF Show, ConsoleShapes
  <2> QED BY <1>1, <1>3, <1>7, <1>8, <2>1 DEF ConsoleShapes
<1>10. ConsoleNested'
  <2>1. ColumnsAreNested'
    BY <1>2, <1>4, ColumnsStayNested DEF ConsoleNested
  <2>2. DialogIsNested'
    BY <1>4, <1>5, <1>6, DialogStaysNested DEF ConsoleNested, ConsoleShapes
  <2>3. \A d \in pending' : RequestIsNested(d)'
    BY <1>4, <1>8, RequestsStayNested DEF ConsoleNested
  <2> QED BY <1>4, <2>1, <2>2, <2>3 DEF ConsoleNested
<1>11. NamesAreGiven'
  <2>1. made \in Nat
    BY ConsoleAssumption DEF ConsoleShapes
  <2> QED BY <1>1, <1>2, <1>7, <1>8, <2>1, NamesStayGiven DEF ConsoleShapes
<1>12. BehindIsKnown'
  <2> SUFFICES ASSUME NEW n \in Displayed'
               PROVE  \/ n \in missed' \/ UpToDate(n)'
                      \/ \E c \in pending' : c.node = n /\ c.phase = "done"
    BY DEF BehindIsKnown
  <2>1. n \in Nodes
    BY NodesOnNextScreen
  <2>2. CASE column'[n].phase = "sent"
    BY <2>2, SentIsUpToDate
  <2>3. CASE column'[n].phase # "sent" /\ n \notin Displayed
    <3>1. NewlyOn(n)
      BY <2>3, NewOnScreen
    <3>2. column'[n] = column[n] /\ column[n].phase # "none"
      BY <1>2, <2>1, <2>3, <3>1
    <3>3. Late(n) => n \in missed'
      BY <2>3 DEF Show
    <3> QED BY <1>1, <3>2, <3>3, SameView DEF UpToDate
  <2>4. CASE column'[n].phase # "sent" /\ n \in Displayed
    <3>1. n \in missed \/ UpToDate(n) \/ \E c \in pending : c.node = n /\ c.phase = "done"
      BY <2>4 DEF BehindIsKnown
    <3>2. n \in missed => n \in missed'
      BY DEF Show
    <3>3. column'[n] = column[n]
      BY <1>2, <2>1, <2>4
    <3> QED BY <1>1, <1>8, <3>1, <3>2, <3>3, SameView
  <2> QED BY <2>2, <2>3, <2>4
<1> QED BY <1>1, <1>8, <1>9, <1>10, <1>11, <1>12

\* The path after a click: it is nested, and the dialog, if one is open, keeps its node.
NavigatesWell ==
  path' \in PathRecords /\ PathIsNested'

LEMMA NestedPath ==
  ASSUME tree' = tree, NEW cs \in Seq(Clients), NEW as \in Seq(AssetPool), NEW l \in BOOLEAN,
         path' = [clients |-> cs, assets |-> as, loaded |-> l],
         cs = <<>> => as = <<>> /\ l = FALSE,
         \A i \in 1..Len(as) :
           AssetAt(as[i], IF cs = <<>> THEN NoClient ELSE cs[Len(cs)], i - 1)
  PROVE  NavigatesWell
<1>1. path'.clients = cs /\ path'.assets = as /\ path'.loaded = l /\ path' \in PathRecords
  BY DEF PathRecords
<1>2. Client' = IF cs = <<>> THEN NoClient ELSE cs[Len(cs)]
  BY <1>1 DEF Client
<1>3. \A i \in 1..Len(as) : AssetAt(as[i], Client, i - 1)'
  BY <1>2 DEF AssetAt
<1>4. \A i \in 1..Len(path'.assets) : AssetAt(path.assets[i], Client, i - 1)'
  BY <1>1, <1>3 DEF AssetAt
<1> QED BY <1>1, <1>4 DEF NavigatesWell, PathIsNested

LEMMA CustomerNavigates ==
  ASSUME ConsoleInductive, NEW c \in Clients, SelectCustomer(c)
  PROVE  NavigatesWell
<1>1. path.clients \in Seq(Clients)
  BY DEF ConsoleInductive, ConsoleShapes, PathRecords
<1> DEFINE cs == Append(path.clients, c)
           as == <<>>
<1>2. cs \in Seq(Clients) /\ cs # <<>>
  BY <1>1, AppendProperties, EmptySeq
<1>3. path' = [clients |-> cs, assets |-> as, loaded |-> FALSE] /\ tree' = tree
  BY DEF SelectCustomer, ServerKept
<1>4. as \in Seq(AssetPool) /\ Len(as) = 0
  BY EmptySeq
<1> HIDE DEF cs, as
<1>5. \A i \in 1..Len(as) :
        AssetAt(as[i], IF cs = <<>> THEN NoClient ELSE cs[Len(cs)], i - 1)
  BY <1>4
<1> QED BY <1>2, <1>3, <1>4, <1>5, NestedPath

LEMMA TrailNavigates ==
  ASSUME ConsoleInductive, NEW j, NavigateCustomerTrail(j)
  PROVE  NavigatesWell
<1>1. path.clients \in Seq(Clients) /\ j \in 0..Len(path.clients) /\ path.loaded \in BOOLEAN
  BY DEF ConsoleInductive, ConsoleShapes, PathRecords, NavigateCustomerTrail
<1> DEFINE cs == SubSeq(path.clients, 1, j)
           as == <<>>
           l == path.loaded /\ j = Len(path.clients)
<1>2. cs \in Seq(Clients) /\ Len(cs) = j
  BY <1>1, SubSeqProperties, LenProperties
<1>3. path' = [clients |-> cs, assets |-> as, loaded |-> l] /\ tree' = tree
  BY DEF NavigateCustomerTrail, ServerKept
<1>4. as \in Seq(AssetPool) /\ Len(as) = 0 /\ as = <<>> /\ l \in BOOLEAN
  BY EmptySeq
<1>5. cs = <<>> => l = FALSE
  <2>1. CASE j = 0 /\ Len(path.clients) = 0
    <3>1. path.clients = <<>>
      BY <1>1, <2>1, EmptySeq
    <3> QED BY <3>1 DEF ConsoleInductive, ConsoleNested, PathIsNested
  <2>2. CASE j = 0 /\ Len(path.clients) # 0
    BY <2>2
  <2>3. CASE j # 0
    BY <1>2, <2>3, EmptySeq
  <2> QED BY <2>1, <2>2, <2>3
<1> HIDE DEF cs, as, l
<1>6. \A i \in 1..Len(as) :
        AssetAt(as[i], IF cs = <<>> THEN NoClient ELSE cs[Len(cs)], i - 1)
  BY <1>4
<1> QED BY <1>2, <1>3, <1>4, <1>5, <1>6, NestedPath

\* The client stays the same, and so do the assets above the level that is clicked.
LEMMA SameClient ==
  ASSUME ConsoleInductive, tree' = tree, path.clients # <<>>, NEW as \in Seq(AssetPool),
         NEW l \in BOOLEAN,
         path' = [clients |-> path.clients, assets |-> as, loaded |-> l],
         \A i \in 1..Len(as) : AssetAt(as[i], Client, i - 1)
  PROVE  NavigatesWell
<1>1. path.clients \in Seq(Clients)
  BY DEF ConsoleInductive, ConsoleShapes, PathRecords
<1>2. Client = path.clients[Len(path.clients)]
  BY DEF Client
<1>3. \A i \in 1..Len(as) : AssetAt(as[i], IF path.clients = <<>> THEN NoClient
                                           ELSE path.clients[Len(path.clients)], i - 1)
  BY <1>2 DEF AssetAt
<1>4. PICK cs : cs = path.clients
  OBVIOUS
<1>5. \A i \in 1..Len(as) : AssetAt(as[i], IF cs = <<>> THEN NoClient ELSE cs[Len(cs)], i - 1)
  BY <1>3, <1>4 DEF AssetAt
<1> QED BY <1>1, <1>4, <1>5, NestedPath

LEMMA LoadNavigates ==
  ASSUME ConsoleInductive, HierarchyLoads
  PROVE  /\ NavigatesWell
         /\ Client' = Client /\ path'.assets = path.assets
<1>1. path \in PathRecords /\ path.clients # <<>> /\ tree' = tree
  BY ClientSelected DEF ConsoleInductive, ConsoleShapes, HierarchyLoads, ServerKept
<1>2. ASSUME NEW v PROVE [path EXCEPT !.loaded = v] =
                           [clients |-> path.clients, assets |-> path.assets, loaded |-> v]
  BY <1>1 DEF PathRecords
<1>3. path' = [clients |-> path.clients, assets |-> path.assets, loaded |-> TRUE]
  BY <1>2 DEF HierarchyLoads
<1>4. PICK as : as = path.assets
  OBVIOUS
<1>5. as \in Seq(AssetPool)
  BY <1>1, <1>4 DEF PathRecords
<1>6. \A i \in 1..Len(as) : AssetAt(as[i], Client, i - 1)
  BY <1>4 DEF ConsoleInductive, ConsoleNested, PathIsNested
<1>7. NavigatesWell
  BY <1>1, <1>3, <1>4, <1>5, <1>6, SameClient
<1> QED BY <1>3, <1>7 DEF Client

LEMMA AssetNavigates ==
  ASSUME ConsoleInductive, NEW level \in Columns, NEW row \in column[ParentAt(level)].rows,
         SelectAsset(level, row)
  PROVE  NavigatesWell
<1> DEFINE up == SubSeq(path.assets, 1, level)
<1>1. path \in PathRecords /\ tree' = tree /\ path.assets \in Seq(AssetPool)
      /\ path.loaded \in BOOLEAN
  BY DEF ConsoleInductive, ConsoleShapes, PathRecords, SelectAsset, ServerKept
<1>2. /\ level \in Nat /\ level <= Len(path.assets) /\ Len(path.assets) \in Nat
      /\ path.clients # <<>>
  BY <1>1, ColumnParents, ClientSelected, ConsoleAssumption, AssetsSelected
     DEF ConsoleInductive, ConsoleNested
<1>3. AssetAt(row.id, Client, level)
  BY <1>1, RowsBelow DEF ConsoleInductive, ConsoleNested, ConsoleShapes
<1>4. up \in Seq(AssetPool) /\ Len(up) = level /\ \A i \in 1..level : up[i] = path.assets[i]
  BY <1>1, <1>2, SubSeqProperties
<1>5. \A i \in 1..level : AssetAt(up[i], Client, i - 1)
  BY <1>2, <1>4 DEF ConsoleInductive, ConsoleNested, PathIsNested
<1>6. ASSUME NEW v PROVE [path EXCEPT !.assets = v] =
                           [clients |-> path.clients, assets |-> v, loaded |-> path.loaded]
  BY <1>1 DEF PathRecords
<1> HIDE DEF up
<1>7. path' \in {[clients |-> path.clients, assets |-> v, loaded |-> path.loaded] :
                   v \in {up, Append(up, row.id)}}
  BY <1>6 DEF SelectAsset, up
<1>8. PICK as \in {up, Append(up, row.id)} :
        path' = [clients |-> path.clients, assets |-> as, loaded |-> path.loaded]
  BY <1>7
<1>9. row.id \in AssetPool
  BY <1>3 DEF AssetAt
<1>10. as \in Seq(AssetPool) /\ \A i \in 1..Len(as) : AssetAt(as[i], Client, i - 1)
  <2>1. CASE as = up
    BY <1>4, <1>5, <2>1
  <2>2. CASE as = Append(up, row.id)
    <3>1. /\ as \in Seq(AssetPool) /\ Len(as) = level + 1 /\ as[level + 1] = row.id
          /\ \A i \in 1..level : as[i] = up[i]
      BY <1>4, <1>9, <2>2, AppendProperties
    <3>2. ASSUME NEW i \in 1..Len(as) PROVE AssetAt(as[i], Client, i - 1)
      <4>1. CASE i = level + 1
        <5>1. i - 1 = level
          BY <1>2, <4>1
        <5>2. as[i] = row.id
          BY <3>1, <4>1
        <5> QED BY <1>3, <5>1, <5>2
      <4>2. CASE i # level + 1
        <5>1. i \in 1..level
          BY <1>2, <3>1, <4>2
        <5> QED BY <1>5, <3>1, <5>1
      <4> QED BY <4>1, <4>2
    <3> QED BY <3>1, <3>2
  <2> QED BY <2>1, <2>2
<1> QED BY <1>1, <1>2, <1>8, <1>10, SameClient

LEMMA SamePath ==
  ASSUME path' = path
  PROVE  /\ Client' = Client /\ ActiveNode' = ActiveNode /\ Displayed' = Displayed
         /\ path \in PathRecords => path' \in PathRecords
         /\ Levels' = Levels /\ Columns' = Columns
         /\ \A level : ParentAt(level)' = ParentAt(level)
<1>1. Client' = Client /\ ActiveNode' = ActiveNode /\ Levels' = Levels
  BY DEF Client, ActiveNode, Levels
<1>2. \A level : ParentAt(level)' = ParentAt(level)
  BY <1>1 DEF ParentAt
<1>3. Columns' = Columns
  BY <1>1, <1>2 DEF Columns
<1>4. {ParentAt(level) : level \in Columns}' = {ParentAt(level) : level \in Columns}
  BY <1>2, <1>3
<1>5. Displayed' = Displayed
  BY <1>1, <1>4 DEF Displayed
<1> QED BY <1>1, <1>2, <1>3, <1>5

LEMMA PathStaysNested ==
  ASSUME TreeGoesOn, PathIsNested, path' = path
  PROVE  PathIsNested'
<1>1. Client' = Client
  BY SamePath
<1>2. ASSUME NEW i \in 1..Len(path'.assets) PROVE AssetAt(path.assets[i], Client, i - 1)'
  <2>1. PICK a, k, l : a = path.assets[i] /\ k = Client /\ l = i - 1
    OBVIOUS
  <2>2. AssetAt(a, k, l)'
    BY <2>1, StaysAt DEF PathIsNested
  <2> QED BY <1>1, <2>1, <2>2 DEF AssetAt
<1> QED BY <1>2 DEF PathIsNested

-----------------------------------------------------------------------------
(* The columns are fetched *)

LEMMA RowsAreKnown ==
  ASSUME ConsoleInductive, NEW n \in Nodes, NEW row \in RowsOf(n)
  PROVE  /\ row \in [id : AssetPool, name : Nat] /\ row.name <= made
         /\ HangsAt(row.id, n)
<1>1. PICK a \in AssetPool : tree[a].at = n /\ row = [id |-> a, name |-> tree[a].name]
  BY DEF RowsOf
<1>2. tree[a].name \in Nat /\ tree[a].name <= made
  BY <1>1 DEF ConsoleInductive, ConsoleShapes, TreeRecords, NamesAreGiven
<1>3. HangsAt(a, n)
  BY <1>1 DEF ConsoleInductive, ConsoleNested, TreeIsNested, HangsAt
<1>4. row.id = a /\ row.name = tree[a].name
  BY <1>1
<1> QED BY <1>1, <1>2, <1>3, <1>4

\* The names an answer gets are those of the assets it lists.
LEMMA NamesRead ==
  ASSUME ConsoleInductive, NEW n \in Nodes
  PROVE  LET x == Named(column[n].answer) IN
         /\ x \in AnswerRecords
         /\ \A row \in x.rows : HangsAt(row.id, n) /\ row.name <= made
<1> DEFINE x == column[n].answer
           S == {[id |-> r.id, name |-> tree[r.id].name] :
                   r \in {s \in x.rows : tree[s.id].at # Deleted}}
<1>1. x \in AnswerRecords /\ x.rows \subseteq [id : AssetPool, name : Nat]
  BY DEF ConsoleInductive, ConsoleShapes, ColumnRecords, AnswerRecords
<1>2. Named(x) = [x EXCEPT !.rows = S]
  BY <1>1 DEF Named, AnswerRecords
<1>3. ASSUME NEW row \in S
      PROVE  /\ row \in [id : AssetPool, name : Nat] /\ row.name <= made
             /\ HangsAt(row.id, n)
  <2>1. PICK r \in x.rows : row = [id |-> r.id, name |-> tree[r.id].name]
    OBVIOUS
  <2>2. r.id \in AssetPool /\ row.id = r.id /\ row.name = tree[r.id].name
    BY <1>1, <2>1
  <2>3. HangsAt(r.id, n)
    BY <2>1 DEF ConsoleInductive, ConsoleNested, ColumnsAreNested, Held
  <2>4. tree[r.id].name \in Nat /\ tree[r.id].name <= made
    BY <2>2 DEF ConsoleInductive, ConsoleShapes, TreeRecords, NamesAreGiven
  <2> QED BY <2>1, <2>2, <2>3, <2>4
<1>4. S \subseteq [id : AssetPool, name : Nat]
  BY <1>3
<1> HIDE DEF S
<1>5. [x EXCEPT !.rows = S] \in AnswerRecords /\ [x EXCEPT !.rows = S].rows = S
  BY <1>1, <1>4 DEF AnswerRecords
<1> QED BY <1>2, <1>3, <1>5

\* What ThingsBoard lists is named as it stands.
LEMMA ListedIsNamed ==
  ASSUME NEW n \in Nodes
  PROVE  Named(ChildrenOf(n)) = ChildrenOf(n)
<1> DEFINE R == RowsOf(n)
<1>1. Deleted # n
  BY StartAssumption
<1>2. ASSUME NEW r \in R PROVE tree[r.id].at = n /\ [id |-> r.id, name |-> tree[r.id].name] = r
  BY DEF RowsOf
<1>3. {s \in R : tree[s.id].at # Deleted} = R
  BY <1>1, <1>2
<1>4. {[id |-> r.id, name |-> tree[r.id].name] : r \in R} = R
  BY <1>2
<1>5. ChildrenOf(n).rows = R
  BY DEF ChildrenOf
<1> HIDE DEF R
<1>6. Named(ChildrenOf(n)) = [ChildrenOf(n) EXCEPT !.rows = R]
  BY <1>3, <1>4, <1>5 DEF Named
<1> QED BY <1>5, <1>6 DEF ChildrenOf

\* A column that only moves to another phase of its fetch.
LEMMA PhaseMoves ==
  ASSUME ConsoleInductive, NEW n \in Nodes,
         NEW phase \in FetchPhases, NEW answer \in AnswerRecords,
         FetchOnly(n, InPhase(column[n], phase, answer)),
         \A row \in answer.rows : HangsAt(row.id, n) /\ row.name <= made
  PROVE  /\ column' \in [Nodes -> ColumnRecords]
         /\ \A m \in Nodes \ {n} : column'[m] = column[m]
         /\ \A row \in Held(n)' : HangsAt(row.id, n) /\ row.name <= made
         /\ column'[n].phase = phase /\ column'[n].answer = answer
         /\ column'[n].rows = column[n].rows /\ column'[n].device = column[n].device
<1>1. column \in [Nodes -> ColumnRecords] /\ column[n] \in ColumnRecords
  BY DEF ConsoleInductive, ConsoleShapes
<1>2. PICK x, v : x = column[n] /\ v = InPhase(x, phase, answer)
  OBVIOUS
<1>3. /\ v \in ColumnRecords /\ v.rows = x.rows /\ v.device = x.device
      /\ v.phase = phase /\ v.answer = answer
  <2>1. x \in ColumnRecords
    BY <1>1, <1>2
  <2>2. IsInPhase(InPhase(x, phase, answer), x, phase, answer)
    BY <2>1, PhaseSet, Zenon
  <2> QED BY <1>2, <2>2 DEF IsInPhase
<1>4. column' = [column EXCEPT ![n] = v]
  BY <1>2 DEF FetchOnly
<1>5. column' \in [Nodes -> ColumnRecords] /\ column'[n] = v
  BY <1>1, <1>3, <1>4
<1>6. \A row \in Held(n)' : HangsAt(row.id, n) /\ row.name <= made
  BY <1>2, <1>3, <1>5 DEF Held, ConsoleInductive, ConsoleNested, ColumnsAreNested, NamesAreGiven
<1> QED BY <1>1, <1>2, <1>3, <1>4, <1>5, <1>6

ColumnFetches(n) ==
  \/ ListsChildren(n) \/ ReadsChildren(n) \/ Fetched(n)
  \/ ColumnFetchRetries(n) \/ ColumnFetchFails(n)

\* What a step of a fetch does to its column, and what is known afterwards.
LEMMA ColumnMoves ==
  ASSUME ConsoleInductive, NEW n \in Nodes, ColumnFetches(n)
  PROVE  /\ column' \in [Nodes -> ColumnRecords]
         /\ \A m \in Nodes \ {n} : column'[m] = column[m]
         /\ \A row \in Held(n)' : HangsAt(row.id, n) /\ row.name <= made
         /\ missed \ {n} \subseteq missed' /\ missed' \subseteq missed \cup {n}
         /\ n \in Displayed => \/ n \in missed' \/ UpToDate(n)'
                               \/ n \notin missed /\ ~ UpToDate(n)
<1>1. tree' = tree /\ linked' = linked
  BY DEF ColumnFetches, ListsChildren, ReadsChildren, Fetched, ColumnFetchRetries,
         ColumnFetchFails, FetchOnly
<1>2. /\ column \in [Nodes -> ColumnRecords] /\ column[n] \in ColumnRecords
      /\ column[n].answer \in AnswerRecords /\ NoAnswer \in AnswerRecords
      /\ NoAnswer.rows = {}
  BY NoAnswerHeld DEF ConsoleInductive, ConsoleShapes, ColumnRecords
<1>3. CASE ListsChildren(n)
  <2>1. ChildrenOf(n) \in AnswerRecords /\ ChildrenOf(n).rows = RowsOf(n)
    BY RowsAreKnown DEF ChildrenOf, AnswerRecords
  <2>2. /\ FetchOnly(n, InPhase(column[n], "listed", ChildrenOf(n)))
        /\ missed' = missed
    BY <1>3, Zenon DEF ListsChildren, InPhase
  <2>3. \A row \in ChildrenOf(n).rows : HangsAt(row.id, n) /\ row.name <= made
    BY <2>1, RowsAreKnown
  <2>4. /\ column' \in [Nodes -> ColumnRecords]
        /\ \A m \in Nodes \ {n} : column'[m] = column[m]
        /\ \A row \in Held(n)' : HangsAt(row.id, n) /\ row.name <= made
        /\ column'[n].phase = "listed" /\ column'[n].answer = ChildrenOf(n)
    BY <2>1, <2>2, <2>3, PhaseMoves DEF FetchPhases
  <2>5. ChildrenOf(n)' = ChildrenOf(n) /\ Named(column[n].answer)' = Named(ChildrenOf(n))
    BY <1>1, <2>4 DEF ChildrenOf, RowsOf, Named
  <2>6. UpToDate(n)'
    BY <2>4, <2>5, ListedIsNamed DEF UpToDate, Late
  <2> QED BY <2>2, <2>4, <2>6
<1>4. CASE ReadsChildren(n)
  <2> DEFINE x == Named(column[n].answer)
  <2>1. /\ x \in AnswerRecords
        /\ \A row \in x.rows : HangsAt(row.id, n) /\ row.name <= made
    BY NamesRead
  <2>2. /\ FetchOnly(n, InPhase(column[n], "read", x))
        /\ missed' = missed /\ column[n].phase = "listed"
    BY <1>4, Zenon DEF ReadsChildren, InPhase
  <2>3. Late(n) <=> x # ChildrenOf(n)
    BY <2>2 DEF Late
  <2> HIDE DEF x
  <2>4. /\ column' \in [Nodes -> ColumnRecords]
        /\ \A m \in Nodes \ {n} : column'[m] = column[m]
        /\ \A row \in Held(n)' : HangsAt(row.id, n) /\ row.name <= made
        /\ column'[n].phase = "read" /\ column'[n].answer = x
    BY <2>1, <2>2, PhaseMoves DEF FetchPhases
  <2>5. ChildrenOf(n)' = ChildrenOf(n)
    BY <1>1 DEF ChildrenOf, RowsOf
  <2>6. UpToDate(n) => UpToDate(n)'
    BY <2>2, <2>3, <2>4, <2>5 DEF UpToDate, Late
  <2> QED BY <2>2, <2>4, <2>6
<1>5. CASE Fetched(n)
  <2> DEFINE a == column[n].answer
             v == [rows |-> a.rows, device |-> a.device, loaded |-> TRUE,
                   phase |-> "none", answer |-> NoAnswer]
  <2>2. /\ v \in ColumnRecords /\ v.rows = a.rows /\ v.device = a.device
        /\ v.phase = "none" /\ v.answer.rows = {}
    BY <1>2 DEF ColumnRecords, AnswerRecords
  <2>3. /\ column' = [column EXCEPT ![n] = v] /\ column[n].phase = "read"
        /\ missed' = IF Late(n) THEN missed ELSE missed \ {n}
    BY <1>5 DEF Fetched, FetchOnly
  <2>4. Late(n) <=> a # ChildrenOf(n)
    BY <2>3 DEF Late
  <2> HIDE DEF v
  <2>5. column' \in [Nodes -> ColumnRecords] /\ column'[n] = v
        /\ \A m \in Nodes \ {n} : column'[m] = column[m]
    BY <1>2, <2>2, <2>3
  <2>6. \A row \in Held(n)' : HangsAt(row.id, n) /\ row.name <= made
    BY <2>2, <2>5 DEF Held, ConsoleInductive, ConsoleNested, ColumnsAreNested, NamesAreGiven
  <2>7. ~ Late(n) => UpToDate(n)'
    <3>1. ASSUME ~ Late(n) PROVE a.rows = RowsOf(n) /\ a.device = (n \in linked)
      BY <2>4, <3>1 DEF ChildrenOf
    <3>2. RowsOf(n)' = RowsOf(n)
      BY <1>1 DEF RowsOf
    <3> QED BY <1>1, <2>2, <2>5, <3>1, <3>2 DEF UpToDate, Late
  <2>8. Late(n) => ~ UpToDate(n) /\ missed' = missed
    BY <2>3 DEF UpToDate
  <2> QED BY <2>3, <2>5, <2>6, <2>7, <2>8
<1>6. CASE ColumnFetchRetries(n)
  <2>1. /\ FetchOnly(n, InPhase(column[n], "sent", NoAnswer))
        /\ missed' = missed
    BY <1>6, Zenon DEF ColumnFetchRetries, AskFor, InPhase
  <2>2. /\ column' \in [Nodes -> ColumnRecords]
        /\ \A m \in Nodes \ {n} : column'[m] = column[m]
        /\ \A row \in Held(n)' : HangsAt(row.id, n) /\ row.name <= made
        /\ column'[n].phase = "sent"
    BY <1>2, <2>1, PhaseMoves DEF FetchPhases
  <2> QED BY <2>1, <2>2, SentIsUpToDate
<1>7. CASE ColumnFetchFails(n)
  <2>1. /\ FetchOnly(n, InPhase(column[n], "none", NoAnswer))
        /\ missed' = missed \cup ({n} \cap Displayed)
    BY <1>7, Zenon DEF ColumnFetchFails, InPhase
  <2>2. /\ column' \in [Nodes -> ColumnRecords]
        /\ \A m \in Nodes \ {n} : column'[m] = column[m]
        /\ \A row \in Held(n)' : HangsAt(row.id, n) /\ row.name <= made
    BY <1>2, <2>1, PhaseMoves DEF FetchPhases
  <2> QED BY <2>1, <2>2
<1> QED BY <1>3, <1>4, <1>5, <1>6, <1>7 DEF ColumnFetches

\* A step that only fetches: one column changes, and what is known to be missed.
LEMMA ConsoleFetches ==
  ASSUME ConsoleInductive, NEW n \in Nodes, ColumnFetches(n)
  PROVE  ConsoleInductive'
<1> USE DEF ConsoleInductive
<1>1. /\ tree' = tree /\ linked' = linked /\ mismatch' = mismatch
      /\ undone' = undone /\ path' = path /\ dialog' = dialog /\ pending' = pending
      /\ made' = made \/ (made < MaxRequests /\ made' = made + 1)
  BY DEF ColumnFetches, ListsChildren, ReadsChildren, Fetched, ColumnFetchRetries,
         ColumnFetchFails, FetchOnly
<1>2. /\ made \in Nat /\ made' \in 0..MaxRequests /\ made' \in Nat /\ made <= made'
      /\ dialog \in DialogRecords /\ pending \subseteq RequestRecords
  BY <1>1, ConsoleAssumption DEF ConsoleShapes
<1>3. /\ column' \in [Nodes -> ColumnRecords]
      /\ \A m \in Nodes \ {n} : column'[m] = column[m]
      /\ \A row \in Held(n)' : HangsAt(row.id, n) /\ row.name <= made
      /\ missed \ {n} \subseteq missed' /\ missed' \subseteq missed \cup {n}
      /\ n \in Displayed => \/ n \in missed' \/ UpToDate(n)'
                            \/ n \notin missed /\ ~ UpToDate(n)
  BY ColumnMoves
<1>4. /\ TreeGoesOn /\ TreeIsNested' /\ \A m : RowsOf(m)' = RowsOf(m)
  BY <1>1, NothingServed DEF ConsoleNested
<1>5. ConsoleShapes'
  BY <1>1, <1>2, <1>3 DEF ConsoleShapes
<1>6. ASSUME NEW m \in Nodes, NEW row \in Held(m)'
      PROVE  HangsAt(row.id, m)' /\ row.name <= made'
  <2>1. HangsAt(row.id, m) /\ row.name <= made
    <3>1. CASE m = n
      BY <1>3, <3>1
    <3>2. CASE m # n
      BY <1>3, <3>2 DEF Held, ConsoleNested, ColumnsAreNested, NamesAreGiven
    <3> QED BY <3>1, <3>2
  <2>2. HangsAt(row.id, m)'
    <3>1. PICK b : b = row.id
      OBVIOUS
    <3>2. HangsAt(b, m)'
      BY <1>4, <2>1, <3>1, StaysHanging
    <3> QED BY <3>1, <3>2 DEF HangsAt, ChildOf, AssetAt
  <2>3. row.name \in Nat
    <3>1. (column \in [Nodes -> ColumnRecords])'
      BY <1>3
    <3>2. \A k \in Nodes : \A r \in Held(k)' : r.name \in Nat
      BY <3>1 DEF Held, ColumnRecords, AnswerRecords
    <3> QED BY <3>2
  <2> QED BY <1>2, <2>1, <2>2, <2>3
<1>7. ConsoleNested'
  <2>1. ColumnsAreNested'
    BY <1>6 DEF ColumnsAreNested
  <2>2. DialogIsNested' /\ PathIsNested'
    BY <1>1, <1>4, SamePath, PathStaysNested, DialogStaysNested DEF ConsoleNested, ConsoleShapes
  <2>3. \A d \in pending' : \E c \in pending : Continues(c, d)
    BY <1>1, ContinuesItself DEF ConsoleShapes
  <2>4. \A d \in pending' : RequestIsNested(d)'
    BY <1>4, <2>3, RequestsStayNested DEF ConsoleNested
  <2> QED BY <1>4, <2>1, <2>2, <2>4 DEF ConsoleNested
<1>8. NamesAreGiven'
  <2>1. \A a \in AssetPool : tree'[a].name <= made'
    BY <1>1, <1>2 DEF NamesAreGiven, ConsoleShapes, TreeRecords
  <2>2. dialog'.row.name <= made'
    BY <1>1, <1>2 DEF NamesAreGiven, DialogRecords, RowRecords
  <2>3. ASSUME NEW d \in pending' PROVE d.n < made' /\ d.row.name <= made'
    <3>1. d.n \in Nat /\ d.row.name \in Nat /\ d.n < made /\ d.row.name <= made
      BY <1>1, <1>2 DEF NamesAreGiven, RequestRecords, RowRecords
    <3> QED BY <1>2, <3>1
  <2> QED BY <1>6, <2>1, <2>2, <2>3 DEF NamesAreGiven
<1>9. EditsAreAlone'
  BY <1>1 DEF EditsAreAlone
<1>10. BehindIsKnown'
  <2>1. Displayed' = Displayed /\ Displayed \subseteq Nodes
    BY <1>1, SamePath, NodesOnScreen DEF ConsoleShapes, ConsoleNested
  <2>2. ASSUME NEW m \in Displayed
        PROVE  \/ m \in missed' \/ UpToDate(m)'
               \/ \E c \in pending : c.node = m /\ c.phase = "done"
    <3>1. m \in missed \/ UpToDate(m) \/ \E c \in pending : c.node = m /\ c.phase = "done"
      BY DEF BehindIsKnown
    <3>2. CASE m = n
      BY <1>3, <3>1, <3>2
    <3>3. CASE m # n
      <4>1. UpToDate(m)' <=> UpToDate(m)
        BY <1>1, <1>3, <2>1, <3>3, SameView
      <4> QED BY <1>3, <3>1, <3>3, <4>1
    <3> QED BY <3>2, <3>3
  <2> QED BY <1>1, <2>1, <2>2 DEF BehindIsKnown
<1> QED BY <1>1, <1>5, <1>7, <1>8, <1>9, <1>10

-----------------------------------------------------------------------------
(* The dialogs *)

\* A step of the page that leaves ThingsBoard, the columns and the path alone.
LEMMA PageActs ==
  ASSUME ConsoleInductive, UNCHANGED <<tree, linked, column, path, missed, mismatch, undone>>,
         made' \in 0..MaxRequests, made <= made',
         dialog' \in DialogRecords, dialog'.row.name <= made', DialogIsNested',
         pending' \subseteq RequestRecords, \A d \in pending' : RequestIsNested(d)',
         \A d \in pending' : d.n < made' /\ d.row.name <= made',
         \A c \in pending : \E d \in pending' : d.node = c.node /\ d.phase = c.phase,
         EditsAreAlone'
  PROVE  ConsoleInductive'
<1> USE DEF ConsoleInductive
<1>1. /\ tree' = tree /\ linked' = linked /\ column' = column /\ path' = path
      /\ missed' = missed /\ mismatch' = mismatch /\ undone' = undone
  OBVIOUS
<1>2. /\ TreeGoesOn /\ TreeIsNested' /\ \A m : RowsOf(m)' = RowsOf(m)
  BY <1>1, NothingServed DEF ConsoleNested
<1>3. ConsoleShapes'
  BY <1>1 DEF ConsoleShapes
<1>4. ConsoleNested'
  <2>1. ColumnsAreNested' /\ PathIsNested'
    BY <1>1, <1>2, ColumnsStayNested, PathStaysNested DEF ConsoleNested, Held
  <2> QED BY <1>2, <2>1 DEF ConsoleNested
<1>5. NamesAreGiven'
  <2>1. made \in Nat /\ made' \in Nat
    BY ConsoleAssumption DEF ConsoleShapes
  <2>2. \A a \in AssetPool : tree'[a].name <= made'
    BY <1>1, <2>1 DEF NamesAreGiven, ConsoleShapes, TreeRecords
  <2>3. ASSUME NEW n \in Nodes, NEW row \in Held(n)' PROVE row.name <= made'
    <3>1. row \in Held(n)
      BY <1>1, <2>3 DEF Held
    <3>2. row.name \in Nat /\ row.name <= made
      BY <3>1, NamesHeld DEF NamesAreGiven, ConsoleShapes
    <3> QED BY <2>1, <3>2
  <2> QED BY <2>2, <2>3 DEF NamesAreGiven
<1>6. BehindIsKnown'
  <2>1. Displayed' = Displayed
    BY <1>1, SamePath
  <2>2. ASSUME NEW n \in Displayed
        PROVE  \/ n \in missed' \/ UpToDate(n)'
               \/ \E c \in pending' : c.node = n /\ c.phase = "done"
    BY <1>1, SameView DEF BehindIsKnown
  <2> QED BY <1>1, <2>1, <2>2 DEF BehindIsKnown
<1> QED BY <1>1, <1>3, <1>4, <1>5, <1>6

\* What is under way when nothing is sent.
LEMMA RequestsKept ==
  ASSUME ConsoleInductive, tree' = tree, made' = made, pending' \subseteq RequestRecords,
         \A d \in pending' : \E c \in pending : Continues(c, d)
  PROVE  /\ \A d \in pending' : RequestIsNested(d)'
         /\ \A d \in pending' : d.n < made' /\ d.row.name <= made'
<1>1. TreeGoesOn
  BY NothingServed
<1>2. \A d \in pending' : RequestIsNested(d)'
  BY <1>1, RequestsStayNested DEF ConsoleInductive, ConsoleNested
<1>3. ASSUME NEW d \in pending' PROVE d.n < made' /\ d.row.name <= made'
  <2>1. PICK c \in pending : Continues(c, d)
    OBVIOUS
  <2> QED BY <2>1 DEF ConsoleInductive, NamesAreGiven, Continues
<1> QED BY <1>2, <1>3

LEMMA DialogOpens ==
  ASSUME ConsoleInductive, NEW kind, NEW level, NEW row, Opens(kind, level, row),
         \/ kind = "add" /\ level \in Columns /\ row = NoRow
         \/ kind = "assign" /\ level = 0 /\ row = NoRow /\ ActiveNode \in AssetPool
         \/ /\ kind \in {"edit", "delete"} /\ level \in Columns
            /\ row \in column[ParentAt(level)].rows
  PROVE  ConsoleInductive'
<1> DEFINE d == [kind |-> kind, level |-> level, row |-> row]
<1>1. /\ UNCHANGED <<tree, linked, column, path, missed, mismatch, undone>>
      /\ made' = made /\ pending' = pending /\ dialog' = d
  BY DEF Opens, ServerKept
<1>2. /\ path \in PathRecords /\ PathIsNested /\ made \in Nat /\ made \in 0..MaxRequests
      /\ pending \subseteq RequestRecords
  BY ConsoleAssumption DEF ConsoleInductive, ConsoleShapes, ConsoleNested
<1>3. level \in Nat
  BY <1>2, ColumnParents
<1>4. row \in RowRecords /\ row.name <= made
  <2>1. CASE row = NoRow
    BY <1>2, <2>1 DEF NoRow, RowRecords
  <2>2. CASE level \in Columns /\ row \in column[ParentAt(level)].rows
    <3>1. ParentAt(level) \in Nodes
      BY <1>2, <2>2, ColumnParents
    <3> QED BY <2>2, <3>1
            DEF ConsoleInductive, ConsoleShapes, ColumnRecords, RowRecords, NamesAreGiven, Held
  <2> QED BY <2>1, <2>2
<1>5. d.kind = kind /\ d.level = level /\ d.row = row
  OBVIOUS
<1>6. d \in DialogRecords
  BY <1>3, <1>4 DEF DialogRecords
<1> HIDE DEF d
<1>7. DialogIsNested'
  <2>1. ASSUME kind \in {"edit", "delete"}
        PROVE  HangsAt(row.id, ParentAt(level)) /\ AssetAt(row.id, Client, level)
    BY <1>2, <2>1, RowsBelow DEF ConsoleInductive, ConsoleNested, ConsoleShapes
  <2>2. ASSUME kind \in {"edit", "delete"}
        PROVE  /\ HangsAt(dialog.row.id, ParentAt(dialog.level))'
               /\ AssetAt(dialog.row.id, Client, dialog.level)'
    <3>1. ParentAt(dialog.level)' = ParentAt(level) /\ Client' = Client /\ tree' = tree
      BY <1>1, <1>5, SamePath DEF ParentAt
    <3> QED BY <1>1, <1>5, <2>1, <2>2, <3>1 DEF HangsAt, ChildOf, AssetAt
  <2>3. ActiveNode' = ActiveNode
    BY <1>1, SamePath
  <2> QED BY <1>1, <1>5, <2>2, <2>3 DEF DialogIsNested
<1>8. /\ \A e \in pending' : RequestIsNested(e)'
      /\ \A e \in pending' : e.n < made' /\ e.row.name <= made'
  <2>1. \A e \in pending' : \E c \in pending : Continues(c, e)
    BY <1>1, <1>2, ContinuesItself
  <2> QED BY <1>1, <1>2, <2>1, RequestsKept
<1>9. EditsAreAlone'
  BY <1>1 DEF ConsoleInductive, EditsAreAlone
<1> QED BY <1>1, <1>2, <1>4, <1>5, <1>6, <1>7, <1>8, <1>9, PageActs

LEMMA DialogCloses ==
  ASSUME ConsoleInductive, CloseDialog
  PROVE  ConsoleInductive'
<1>1. /\ UNCHANGED <<tree, linked, column, path, missed, mismatch, undone>>
      /\ made' = made /\ dialog' = NoDialog
  BY DEF CloseDialog
<1>2. made \in Nat /\ made \in 0..MaxRequests /\ pending \subseteq RequestRecords
  BY ConsoleAssumption DEF ConsoleInductive, ConsoleShapes
<1>3. /\ pending' \subseteq RequestRecords
      /\ \A d \in pending' : \E c \in pending : Continues(c, d) /\ d.phase = c.phase
      /\ \A c \in pending : \E d \in pending' : d.node = c.node /\ d.phase = c.phase
      /\ EditsAreAlone'
  <2> DEFINE S == {c \in pending : /\ c.panel = dialog.kind /\ c.level = dialog.level
                                   /\ c.panel # "edit"}
  <2>1. pending' = {IF c \in S THEN Unheard(c) ELSE c : c \in pending}
    BY DEF CloseDialog
  <2> HIDE DEF S
  <2> QED BY <1>1, <1>2, <2>1, SomeUnheard DEF ConsoleInductive
<1>4. dialog' \in DialogRecords /\ dialog'.row.name <= made'
  BY <1>1, <1>2 DEF NoDialog, NoRow, DialogRecords, RowRecords
<1>5. DialogIsNested'
  BY <1>1 DEF NoDialog, DialogIsNested
<1>6. /\ \A d \in pending' : RequestIsNested(d)'
      /\ \A d \in pending' : d.n < made' /\ d.row.name <= made'
  BY <1>1, <1>3, RequestsKept
<1> QED BY <1>1, <1>2, <1>3, <1>4, <1>5, <1>6, PageActs

-----------------------------------------------------------------------------
(* Requests are sent *)

\* A new request is nested, and an edit is the first one of its level that is heard.
LEMMA OneMoreSent ==
  ASSUME ConsoleInductive, UNCHANGED <<tree, linked, column, path, missed, mismatch, undone>>,
         NEW c \in RequestRecords, pending' = pending \cup {c}, c.n = made, made' = made + 1,
         made < MaxRequests, dialog' = dialog \/ dialog' = NoDialog,
         RequestIsNested(c), c.row.name <= made + 1,
         c.panel = "edit" => \A d \in pending : d.panel = "edit" /\ d.heard => d.level # c.level,
         c.panel = "edit" /\ ~ c.old =>
           /\ \A d \in pending : d.panel = "edit" /\ d.row.id = c.row.id => d.heard
           /\ tree[c.row.id].name <= c.row.name
  PROVE  ConsoleInductive'
<1>1. /\ tree' = tree /\ path' = path /\ pending \subseteq RequestRecords
      /\ made \in Nat /\ made' \in 0..MaxRequests /\ made <= made' /\ made' \in Nat
      /\ path \in PathRecords /\ dialog \in DialogRecords
  BY ConsoleAssumption DEF ConsoleInductive, ConsoleShapes
<1>2. TreeGoesOn
  BY <1>1, NothingServed
<1>3. dialog' \in DialogRecords /\ dialog'.row.name <= made'
  <2>1. dialog.row.name \in Nat /\ dialog.row.name <= made
    BY <1>1 DEF ConsoleInductive, NamesAreGiven, DialogRecords, RowRecords
  <2>2. NoDialog \in DialogRecords /\ NoDialog.row.name = 0
    BY DEF NoDialog, NoRow, DialogRecords, RowRecords
  <2> QED BY <1>1, <2>1, <2>2
<1>4. DialogIsNested'
  BY <1>1, <1>2, SamePath, DialogStaysNested DEF ConsoleInductive, ConsoleNested
<1>5. \A d \in pending' : RequestIsNested(d)'
  <2>1. ASSUME NEW d, RequestIsNested(d), d \in RequestRecords PROVE RequestIsNested(d)'
    BY <1>2, <2>1, ContinuesItself, RequestStaysNested
  <2> QED BY <1>1, <2>1 DEF ConsoleInductive, ConsoleNested
<1>6. \A d \in pending' : d.n < made' /\ d.row.name <= made'
  <2>1. \A d \in pending : d.n \in Nat /\ d.row.name \in Nat
    BY <1>1 DEF RequestRecords, RowRecords
  <2> QED BY <1>1, <2>1 DEF ConsoleInductive, NamesAreGiven
<1>7. EditsAreAlone'
  <2>1. ASSUME NEW d \in pending, d.panel = "edit", d.heard, c.panel = "edit"
        PROVE  d.row.id # c.row.id
    <3>1. d.level # c.level /\ RequestIsNested(d)
      BY <2>1 DEF ConsoleInductive, ConsoleNested
    <3> QED BY <2>1, <3>1 DEF RequestIsNested, AssetAt
  <2>2. SUFFICES ASSUME NEW d \in pending', d.panel = "edit", d.heard, ~ d.old
                 PROVE  /\ \A e \in pending' : e.panel = "edit" /\ e.row.id = d.row.id => e = d
                        /\ d.phase = "sent" => tree'[d.row.id].name <= d.row.name
    BY DEF EditsAreAlone
  <2>3. CASE d \in pending
    BY <1>1, <2>1, <2>2, <2>3 DEF ConsoleInductive, EditsAreAlone
  <2>4. CASE d = c
    BY <1>1, <2>1, <2>2, <2>4
  <2> QED BY <2>3, <2>4
<1> QED BY <1>1, <1>3, <1>4, <1>5, <1>6, <1>7, PageActs

LEMMA RequestRecord ==
  ASSUME NEW n \in Nat, NEW panel \in Sent, NEW level \in Nat, NEW node \in Nodes \cup {NoClient},
         NEW client \in Clients \cup {NoClient}, NEW row \in RowRecords, NEW heard \in BOOLEAN,
         NEW own \in BOOLEAN, NEW old \in BOOLEAN
  PROVE  LET c == [n |-> n, panel |-> panel, level |-> level, node |-> node, client |-> client,
                   row |-> row, heard |-> heard, own |-> own, old |-> old, phase |-> "sent"]
         IN /\ c \in RequestRecords /\ c.n = n /\ c.panel = panel /\ c.level = level
            /\ c.node = node /\ c.client = client /\ c.row = row /\ c.heard = heard
            /\ c.own = own /\ c.old = old /\ c.phase = "sent"
BY DEF RequestRecords

LEMMA SendsOne ==
  ASSUME ConsoleInductive, NEW kind \in Sent, NEW node \in Nodes \cup {NoClient},
         NEW row \in RowRecords, NEW next, SendsOff(kind, node, row, next)
  PROVE  \E c \in RequestRecords :
           /\ pending' = pending \cup {c} /\ c.n = made /\ c.panel = kind
           /\ c.level = dialog.level /\ c.node = node /\ c.client = Client /\ c.row = row
           /\ c.heard /\ c.phase = "sent"
           /\ c.own = (Levels = LevelsOf[Client])
           /\ c.old = (kind = "edit" /\ (OutOfDate \/ Forgotten))
<1> DEFINE own == Levels = LevelsOf[Client]
           old == kind = "edit" /\ (OutOfDate \/ Forgotten)
<1>1. made \in Nat /\ dialog.level \in Nat /\ Client \in Clients \cup {NoClient}
      /\ own \in BOOLEAN /\ old \in BOOLEAN
  BY ConsoleAssumption, ClientSelected DEF ConsoleInductive, ConsoleShapes, DialogRecords
<1>2. pending' = pending \cup {[n |-> made, panel |-> kind, level |-> dialog.level, node |-> node,
                                client |-> Client, row |-> row, heard |-> TRUE,
                                own |-> own, old |-> old, phase |-> "sent"]}
  BY DEF SendsOff
<1> HIDE DEF own, old
<1>3. PICK h \in BOOLEAN : h = TRUE
  OBVIOUS
<1>4. PICK c : c = [n |-> made, panel |-> kind, level |-> dialog.level, node |-> node,
                    client |-> Client, row |-> row, heard |-> h,
                    own |-> own, old |-> old, phase |-> "sent"]
  OBVIOUS
<1>5. pending' = pending \cup {c}
  BY <1>2, <1>3, <1>4
<1>6. /\ c \in RequestRecords /\ c.n = made /\ c.panel = kind /\ c.level = dialog.level
      /\ c.node = node /\ c.client = Client /\ c.row = row /\ c.heard = h
      /\ c.own = own /\ c.old = old /\ c.phase = "sent"
  BY <1>1, <1>4, RequestRecord
<1> QED BY <1>3, <1>5, <1>6 DEF own, old

LEMMA SendsKeep ==
  ASSUME NEW kind, NEW node, NEW row, NEW next, SendsOff(kind, node, row, next)
  PROVE  /\ UNCHANGED <<tree, linked, column, path, missed, mismatch, undone>>
         /\ made' = made + 1 /\ made < MaxRequests /\ dialog' = next /\ dialog.kind = kind
         /\ \A d \in pending : d.panel = kind /\ d.heard => d.level # dialog.level
BY DEF SendsOff, Pending

LEMMA CreateIsSent ==
  ASSUME ConsoleInductive, SubmitCreate
  PROVE  ConsoleInductive'
<1> DEFINE node == ParentAt(dialog.level)
<1>1. /\ path \in PathRecords /\ PathIsNested /\ dialog.level \in Columns
      /\ SendsOff("add", node, NoRow, dialog) /\ made \in Nat
  BY ConsoleAssumption DEF ConsoleInductive, ConsoleShapes, ConsoleNested, SubmitCreate
<1>2. /\ dialog.level \in Nat /\ node \in Nodes /\ Client \in Clients
      /\ dialog.level = 0 => node = Client
      /\ dialog.level # 0 => AssetAt(node, Client, dialog.level - 1)
      /\ dialog.level <= Levels - 2 /\ Levels \in Nat
  BY <1>1, ColumnParents
<1>3. NoRow \in RowRecords /\ NoRow.name = 0 /\ "add" \in Sent
  BY DEF NoRow, RowRecords, Sent
<1> HIDE DEF node
<1>4. PICK c \in RequestRecords :
         /\ pending' = pending \cup {c} /\ c.n = made /\ c.panel = "add"
         /\ c.level = dialog.level /\ c.node = node /\ c.client = Client /\ c.row = NoRow
         /\ c.own = (Levels = LevelsOf[Client])
  BY <1>1, <1>2, <1>3, SendsOne
<1>5. RequestIsNested(c)
  <2>1. c.level # 0 => AssetAt(c.node, c.client, c.level - 1)
    BY <1>2, <1>4 DEF AssetAt
  <2>2. c.own => Levels = LevelsOf[Client]
    BY <1>4
  <2>3. c.own => c.level < LevelsOf[c.client]
    BY <1>2, <1>4, <2>2
  <2> QED BY <1>2, <1>4, <2>1, <2>3 DEF RequestIsNested
<1> QED BY <1>1, <1>3, <1>4, <1>5, SendsKeep, OneMoreSent

LEMMA DeleteIsSent ==
  ASSUME ConsoleInductive, ConfirmDelete
  PROVE  ConsoleInductive'
<1> DEFINE node == ParentAt(dialog.level)
<1>1. /\ SendsOff("delete", node, dialog.row, dialog) /\ made \in Nat
      /\ dialog.kind = "delete" /\ dialog.row \in RowRecords /\ dialog.row.name <= made
      /\ dialog.level \in Nat /\ dialog.row.name \in Nat
  BY ConsoleAssumption
     DEF ConsoleInductive, ConsoleShapes, ConfirmDelete, SendsOff, DialogRecords, NamesAreGiven,
         RowRecords
<1>2. node \in Nodes \cup {NoClient} /\ "delete" \in Sent
  BY <1>1, ParentSelected DEF ConsoleInductive, ConsoleShapes, Sent
<1>3. HangsAt(dialog.row.id, node) /\ AssetAt(dialog.row.id, Client, dialog.level)
  BY <1>1 DEF ConsoleInductive, ConsoleNested, DialogIsNested
<1> HIDE DEF node
<1>4. PICK c \in RequestRecords :
         /\ pending' = pending \cup {c} /\ c.n = made /\ c.panel = "delete"
         /\ c.level = dialog.level /\ c.node = node /\ c.client = Client /\ c.row = dialog.row
  <2>1. PICK r, next : r = dialog.row /\ next = dialog
    OBVIOUS
  <2>2. SendsOff("delete", node, r, next) /\ r \in RowRecords
    BY <1>1, <2>1
  <2>3. \E c \in RequestRecords :
           /\ pending' = pending \cup {c} /\ c.n = made /\ c.panel = "delete"
           /\ c.level = dialog.level /\ c.node = node /\ c.client = Client /\ c.row = r
    BY <1>2, <2>2, SendsOne
  <2> QED BY <2>1, <2>3
<1>5. RequestIsNested(c)
  BY <1>3, <1>4 DEF RequestIsNested
<1>6. c.row.name <= made + 1
  BY <1>1, <1>4
<1> QED BY <1>1, <1>4, <1>5, <1>6, SendsKeep, OneMoreSent

LEMMA LinkIsSent ==
  ASSUME ConsoleInductive, SubmitAssign \/ Unassign
  PROVE  ConsoleInductive'
<1>1. /\ made \in Nat /\ ActiveNode \in AssetPool /\ NoRow \in RowRecords /\ NoRow.name = 0
      /\ {"assign", "unassign"} \subseteq Sent
  BY ConsoleAssumption DEF ConsoleInductive, ConsoleShapes, ConsoleNested, DialogIsNested,
     SubmitAssign, Unassign, SendsOff, NoRow, RowRecords, Sent
<1>2. ActiveNode \in Nodes \cup {NoClient}
  BY <1>1 DEF Nodes
<1>3. CASE SubmitAssign
  <2>1. SendsOff("assign", ActiveNode, NoRow, dialog)
    BY <1>3 DEF SubmitAssign
  <2>2. PICK c \in RequestRecords :
           /\ pending' = pending \cup {c} /\ c.n = made /\ c.panel = "assign"
           /\ c.node = ActiveNode /\ c.row = NoRow
    BY <1>1, <1>2, <2>1, SendsOne
  <2>3. RequestIsNested(c)
    BY <1>1, <2>2 DEF RequestIsNested
  <2> QED BY <1>1, <2>1, <2>2, <2>3, SendsKeep, OneMoreSent
<1>4. CASE Unassign
  <2>1. PICK h \in BOOLEAN, o \in BOOLEAN : h = TRUE /\ o = FALSE
    OBVIOUS
  <2>2. PICK c : c = [n |-> made, panel |-> "unassign", level |-> 0, node |-> ActiveNode,
                      client |-> Client, row |-> NoRow, heard |-> h, own |-> h,
                      old |-> o, phase |-> "sent"]
    OBVIOUS
  <2>3. Client \in Clients \cup {NoClient}
    BY ClientSelected DEF ConsoleInductive, ConsoleShapes
  <2>4. /\ c \in RequestRecords /\ c.n = made /\ c.panel = "unassign" /\ c.node = ActiveNode
        /\ c.row = NoRow
    BY <1>1, <1>2, <2>2, <2>3, RequestRecord
  <2>5. pending' = pending \cup {c} /\ made' = made + 1 /\ made < MaxRequests /\ dialog' = dialog
        /\ UNCHANGED <<tree, linked, column, path, missed, mismatch, undone>>
    BY <1>4, <2>1, <2>2 DEF Unassign
  <2>6. RequestIsNested(c)
    BY <1>1, <2>4 DEF RequestIsNested
  <2> QED BY <1>1, <2>4, <2>5, <2>6, OneMoreSent
<1> QED BY <1>3, <1>4

LEMMA EditIsSent ==
  ASSUME ConsoleInductive, NEW renames \in BOOLEAN, SubmitEdit(renames)
  PROVE  ConsoleInductive'
<1> DEFINE node == ParentAt(dialog.level)
           row == IF renames THEN [dialog.row EXCEPT !.name = made + 1] ELSE dialog.row
<1>1. /\ SendsOff("edit", node, row, NoDialog) /\ made \in Nat
      /\ dialog.kind = "edit" /\ dialog.row \in RowRecords /\ dialog.row.name <= made
      /\ dialog.level \in Nat /\ dialog.row.name \in Nat
  BY ConsoleAssumption
     DEF ConsoleInductive, ConsoleShapes, SubmitEdit, SendsOff, DialogRecords, NamesAreGiven,
         RowRecords
<1>2. node \in Nodes \cup {NoClient} /\ "edit" \in Sent
  BY <1>1, ParentSelected DEF ConsoleInductive, ConsoleShapes, Sent
<1>3. HangsAt(dialog.row.id, node) /\ AssetAt(dialog.row.id, Client, dialog.level)
  BY <1>1 DEF ConsoleInductive, ConsoleNested, DialogIsNested
<1>4. /\ row \in RowRecords /\ row.id = dialog.row.id /\ row.name <= made + 1
      /\ dialog.row.name <= row.name
  BY <1>1 DEF RowRecords
<1> HIDE DEF node, row
<1>5. PICK c \in RequestRecords :
         /\ pending' = pending \cup {c} /\ c.n = made /\ c.panel = "edit"
         /\ c.level = dialog.level /\ c.node = node /\ c.client = Client /\ c.row = row
         /\ c.old = ("edit" = "edit" /\ (OutOfDate \/ Forgotten))
  BY <1>1, <1>2, <1>4, SendsOne
<1>6. RequestIsNested(c)
  BY <1>3, <1>4, <1>5 DEF RequestIsNested
<1>7. ~ c.old => /\ \A d \in pending : d.panel = "edit" /\ d.row.id = c.row.id => d.heard
                 /\ tree[c.row.id].name <= c.row.name
  BY <1>1, <1>4, <1>5 DEF OutOfDate, Forgotten
<1> QED BY <1>1, <1>4, <1>5, <1>6, <1>7, SendsKeep, OneMoreSent

-----------------------------------------------------------------------------
(* Requests are served *)

\* A request is served: the tree and the links change at its node alone, and if they do
\* its answer is under way.
LEMMA OneServed ==
  ASSUME ConsoleInductive, NEW c \in pending, c.phase = "sent", PageKept, missed' = missed,
         pending' = pending \ {c} \/ Reaches(c, "done"),
         Reaches(c, "done") \/ (tree' = tree /\ linked' = linked),
         tree' \in [AssetPool -> TreeRecords], TreeGoesOn, TreeIsNested',
         \A a \in AssetPool : tree'[a].name <= made, linked' \subseteq AssetPool,
         \A n \in Nodes \ {c.node} : RowsOf(n)' = RowsOf(n) /\ (n \in linked' <=> n \in linked),
         \A a \in AssetPool : tree[a].at \in (Nodes \ {c.node}) \cup {Deleted} =>
           tree'[a].name = tree[a].name /\ tree'[a].at = tree[a].at,
         \A a \in AssetPool : tree[a].at # Unborn /\ ~ (c.panel = "edit" /\ c.row.id = a) =>
           tree'[a].name = tree[a].name,
         ~ mismatch', undone' = {}
  PROVE  ConsoleInductive'
<1> USE DEF ConsoleInductive
<1>1. column' = column /\ path' = path /\ dialog' = dialog /\ made' = made
  BY DEF PageKept
<1>2. /\ pending \subseteq RequestRecords /\ path \in PathRecords /\ dialog \in DialogRecords
      /\ made \in Nat
  BY ConsoleAssumption DEF ConsoleShapes
<1>3. /\ pending' \subseteq RequestRecords
      /\ \A d \in pending' : \E e \in pending : Continues(e, d)
      /\ \A d \in pending \ {c} : d \in pending'
      /\ Reaches(c, "done") => \E d \in pending' : d.node = c.node /\ d.phase = "done"
  BY <1>2, OneAnswered
<1>4. EditsAreAlone'
  BY <1>2, OneEditAnswered DEF ConsoleNested
<1>5. ConsoleShapes'
  BY <1>1, <1>3 DEF ConsoleShapes
<1>6. ConsoleNested'
  <2>1. ColumnsAreNested' /\ PathIsNested'
    BY <1>1, ColumnsStayNested, PathStaysNested DEF ConsoleNested, Held
  <2>2. DialogIsNested'
    BY <1>1, <1>2, SamePath, DialogStaysNested DEF ConsoleNested
  <2>3. \A d \in pending' : RequestIsNested(d)'
    BY <1>3, RequestsStayNested DEF ConsoleNested
  <2> QED BY <2>1, <2>2, <2>3 DEF ConsoleNested
<1>7. NamesAreGiven'
  <2>1. ASSUME NEW d \in pending' PROVE d.n < made' /\ d.row.name <= made'
    <3>1. PICK e \in pending : Continues(e, d)
      BY <1>3
    <3> QED BY <1>1, <3>1 DEF NamesAreGiven, Continues
  <2> QED BY <1>1, <2>1 DEF NamesAreGiven, Held
<1>8. BehindIsKnown'
  <2>1. Displayed' = Displayed /\ Displayed \subseteq Nodes
    BY <1>1, <1>2, SamePath, NodesOnScreen DEF ConsoleNested
  <2>2. SUFFICES ASSUME NEW n \in Displayed
                 PROVE  \/ n \in missed' \/ UpToDate(n)'
                        \/ \E d \in pending' : d.node = n /\ d.phase = "done"
    BY <2>1 DEF BehindIsKnown
  <2>3. CASE n = c.node /\ Reaches(c, "done")
    BY <1>3, <2>3
  <2>4. CASE n # c.node \/ ~ Reaches(c, "done")
    <3>1. UpToDate(n)' <=> UpToDate(n)
      <4>1. CASE n # c.node
        <5>1. n \in Nodes \ {c.node} /\ ColumnsAreNested
          BY <2>1, <4>1 DEF ConsoleNested
        <5>2. \A b \in AssetPool : tree[b].at \in {n, Deleted} =>
                tree'[b].name = tree[b].name /\ tree'[b].at = tree[b].at
          BY <5>1
        <5>3. RowsOf(n)' = RowsOf(n) /\ (n \in linked' <=> n \in linked)
          BY <5>1
        <5> QED BY <1>1, <5>1, <5>2, <5>3, OtherAnswers
      <4>2. CASE ~ Reaches(c, "done")
        BY <1>1, <4>2, SameView
      <4> QED BY <2>4, <4>1, <4>2
    <3>2. ASSUME NEW d \in pending, d.node = n, d.phase = "done"
          PROVE  \E e \in pending' : e.node = n /\ e.phase = "done"
      BY <1>3, <3>2
    <3> QED BY <1>1, <3>1, <3>2 DEF BehindIsKnown
  <2> QED BY <2>3, <2>4
<1> QED BY <1>1, <1>4, <1>5, <1>6, <1>7, <1>8

LEMMA AssetEdited ==
  ASSUME NEW x \in TreeRecords
  PROVE  /\ LET y == [x EXCEPT !.at = Deleted] IN
              /\ y \in TreeRecords /\ y.at = Deleted /\ y.client = x.client
              /\ y.level = x.level /\ y.name = x.name
         /\ \A name \in Nat : LET y == [x EXCEPT !.name = name] IN
              /\ y \in TreeRecords /\ y.at = x.at /\ y.client = x.client
              /\ y.level = x.level /\ y.name = name
BY DEF TreeRecords

\* An asset that is deleted, or renamed, stays where it was nested.
LEMMA OneAssetChanged ==
  ASSUME tree \in [AssetPool -> TreeRecords], TreeIsNested, NEW a \in AssetPool,
         NEW x \in TreeRecords, tree[a].at # Unborn,
         x.client = tree[a].client, x.level = tree[a].level, x.at \in {tree[a].at, Deleted},
         tree' = [tree EXCEPT ![a] = x]
  PROVE  /\ tree' \in [AssetPool -> TreeRecords] /\ TreeGoesOn /\ TreeIsNested'
         /\ tree'[a] = x /\ \A b \in AssetPool \ {a} : tree'[b] = tree[b]
         /\ \A n \in Nodes : n # tree[a].at => RowsOf(n)' = RowsOf(n)
<1>1. /\ tree' \in [AssetPool -> TreeRecords]
      /\ tree'[a] = x /\ \A b \in AssetPool \ {a} : tree'[b] = tree[b]
  OBVIOUS
<1>2. TreeGoesOn
  BY <1>1 DEF TreeGoesOn
<1>3. Deleted \notin Nodes
  BY StartAssumption
<1>4. ASSUME NEW b \in AssetPool, tree'[b].at \in Nodes PROVE ChildOf(b, tree[b].at)'
  <2>1. PICK n : n = tree[b].at
    OBVIOUS
  <2>2. tree'[b].at = n
    BY <1>1, <1>3, <1>4, <2>1
  <2>3. ChildOf(b, n)
    BY <1>4, <2>1, <2>2 DEF TreeIsNested
  <2>4. ChildOf(b, n)'
    BY <1>2, <2>3, StaysBelow
  <2> QED BY <2>2, <2>4 DEF ChildOf, AssetAt
<1>5. ASSUME NEW n \in Nodes, n # tree[a].at PROVE RowsOf(n)' = RowsOf(n)
  <2>1. {b \in AssetPool : tree'[b].at = n} = {b \in AssetPool : tree[b].at = n}
    BY <1>1, <1>3, <1>5
  <2>2. \A b \in {b \in AssetPool : tree[b].at = n} : tree'[b] = tree[b]
    BY <1>1, <1>5
  <2> QED BY <2>1, <2>2 DEF RowsOf
<1> QED BY <1>1, <1>2, <1>4, <1>5 DEF TreeIsNested

\* A request that changes nothing: it failed or was refused.
LEMMA NothingChanges ==
  ASSUME ConsoleInductive, NEW c \in pending, c.phase = "sent", PageKept, missed' = missed,
         pending' = pending \ {c} \/ Reaches(c, "done"), tree' = tree,
         linked' = linked \/ Reaches(c, "done"), linked' \subseteq AssetPool,
         \A n \in Nodes \ {c.node} : n \in linked' <=> n \in linked,
         ~ mismatch', undone' = {}
  PROVE  ConsoleInductive'
<1>1. /\ tree' \in [AssetPool -> TreeRecords] /\ TreeGoesOn /\ TreeIsNested'
      /\ \A a \in AssetPool : tree'[a].name <= made
      /\ \A n : RowsOf(n)' = RowsOf(n)
  BY NothingServed DEF ConsoleInductive, ConsoleShapes, ConsoleNested, NamesAreGiven
<1> QED BY <1>1, OneServed

LEMMA CreateIsServed ==
  ASSUME ConsoleInductive, NEW c \in pending, ServeCreate(c)
  PROVE  ConsoleInductive'
<1>1. /\ c \in RequestRecords /\ RequestIsNested(c) /\ c.panel = "add" /\ c.phase = "sent"
      /\ c.client \in Clients /\ c.n \in Nat /\ c.n < made /\ c.level \in Nat
      /\ PageKept /\ linked' = linked /\ missed' = missed /\ undone' = {}
      /\ tree \in [AssetPool -> TreeRecords] /\ linked \subseteq AssetPool /\ TreeIsNested
  BY DEF ConsoleInductive, ConsoleShapes, ConsoleNested, NamesAreGiven, ServeCreate,
         RequestIsNested, RequestRecords
<1>2. CASE LevelExists(c) /\ ParentFits(c)
  <2>13. PICK a, x : a = (CHOOSE b \in NewAssets : TRUE)
            /\ x = [at |-> c.node, client |-> c.client, level |-> c.level, name |-> c.n + 1]
    OBVIOUS
  <2>1. /\ NewAssets # {} /\ tree' = [tree EXCEPT ![a] = x] /\ Reaches(c, "done")
        /\ mismatch' = mismatch
    BY <1>2, <2>13 DEF ServeCreate
  <2>2. a \in AssetPool /\ tree[a].at = Unborn
    <3>1. a \in NewAssets
      BY <2>1, <2>13
    <3> QED BY <3>1 DEF NewAssets
  <2>3. /\ c.level = 0 => c.node = c.client
        /\ c.level # 0 => /\ c.node \in AssetPool /\ tree[c.node].at # Unborn
                          /\ tree[c.node].client = c.client
                          /\ tree[c.node].level + 1 = c.level
    BY <1>2 DEF ParentFits, Exists
  <2>4. x \in TreeRecords /\ x.at = c.node /\ x.client = c.client /\ x.level = c.level
        /\ x.name = c.n + 1 /\ c.node \in Nodes
    <3>1. c.node \in Nodes
      BY <1>1, <2>3 DEF Nodes
    <3> QED BY <1>1, <2>13, <3>1 DEF TreeRecords
  <2>5. /\ tree' \in [AssetPool -> TreeRecords] /\ tree'[a] = x
        /\ \A b \in AssetPool \ {a} : tree'[b] = tree[b]
    BY <1>1, <2>1, <2>2, <2>4
  <2>6. TreeGoesOn
    BY <2>2, <2>5 DEF TreeGoesOn
  <2>7. Unborn \notin Nodes /\ Deleted \notin Nodes
    BY StartAssumption
  <2>8. TreeIsNested'
    <3>1. ChildOf(a, x.at)'
      <4>1. AssetAt(a, c.client, c.level)'
        BY <2>2, <2>4, <2>5, <2>7 DEF AssetAt
      <4>2. CASE c.level = 0
        BY <1>1, <2>3, <2>4, <4>1, <4>2 DEF ChildOf, AssetAt
      <4>3. CASE c.level # 0
        <5>1. c.node # a /\ c.node \notin Clients
          BY <2>2, <2>3, <4>3, ConsoleAssumption
        <5>2. tree'[c.node] = tree[c.node]
          BY <2>3, <2>5, <4>3, <5>1
        <5> QED BY <2>3, <2>4, <4>1, <4>3, <5>1, <5>2 DEF ChildOf, AssetAt
      <4> QED BY <4>2, <4>3
    <3>2. ASSUME NEW b \in AssetPool, b # a, tree'[b].at \in Nodes
          PROVE  ChildOf(b, tree[b].at)'
      <4>1. PICK n : n = tree[b].at
        OBVIOUS
      <4>2. tree'[b].at = n /\ ChildOf(b, n)
        BY <1>1, <2>5, <3>2, <4>1 DEF TreeIsNested
      <4>3. ChildOf(b, n)'
        BY <2>6, <4>2, StaysBelow
      <4> QED BY <4>2, <4>3 DEF ChildOf, AssetAt
    <3>3. ChildOf(a, tree[a].at)'
      BY <2>5, <3>1 DEF ChildOf, AssetAt
    <3> QED BY <3>2, <3>3 DEF TreeIsNested
  <2>9. \A b \in AssetPool : tree'[b].name <= made
    BY <1>1, <2>4, <2>5 DEF ConsoleInductive, NamesAreGiven, ConsoleShapes
  <2>10. ASSUME NEW n \in Nodes \ {c.node} PROVE RowsOf(n)' = RowsOf(n)
    <3>1. {b \in AssetPool : tree'[b].at = n} = {b \in AssetPool : tree[b].at = n}
      BY <2>2, <2>4, <2>5, <2>7
    <3>2. \A b \in {b \in AssetPool : tree[b].at = n} : tree'[b] = tree[b]
      BY <2>2, <2>5, <2>7
    <3> QED BY <3>1, <3>2 DEF RowsOf
  <2>11. \A b \in AssetPool : tree[b].at # Unborn =>
           tree'[b].name = tree[b].name /\ tree'[b].at = tree[b].at
    BY <2>2, <2>5
  <2>12. ~ mismatch' /\ linked' \subseteq AssetPool
    BY <1>1, <2>1 DEF ConsoleInductive
  <2>14. \A b \in AssetPool : tree[b].at \in (Nodes \ {c.node}) \cup {Deleted} =>
           tree'[b].name = tree[b].name /\ tree'[b].at = tree[b].at
    BY <2>7, <2>11 DEF Unborn, Deleted
  <2> QED BY <1>1, <2>1, <2>5, <2>6, <2>8, <2>9, <2>10, <2>11, <2>12, <2>14, OneServed
<1>3. CASE ~ (LevelExists(c) /\ ParentFits(c))
  <2>1. /\ pending' = pending \ {c} /\ tree' = tree
        /\ mismatch' = (mismatch \/ (c.own /\ (c.node \notin AssetPool \/ Exists(c.node))))
    BY <1>3 DEF ServeCreate, Ends
  <2>2. ASSUME c.own, c.node \notin AssetPool \/ Exists(c.node) PROVE FALSE
    <3>1. LevelExists(c)
      BY <1>1, <2>2 DEF RequestIsNested, LevelExists
    <3>2. CASE c.level = 0
      BY <1>1, <1>3, <3>1, <3>2 DEF RequestIsNested, ParentFits
    <3>3. CASE c.level # 0
      <4>1. AssetAt(c.node, c.client, c.level - 1)
        BY <1>1, <3>3 DEF RequestIsNested
      <4>2. Exists(c.node) /\ tree[c.node].client = c.client /\ tree[c.node].level = c.level - 1
        BY <2>2, <4>1 DEF AssetAt
      <4>3. tree[c.node].level + 1 = c.level
        BY <1>1, <4>2
      <4> QED BY <1>3, <3>1, <3>3, <4>2, <4>3 DEF ParentFits
    <3> QED BY <3>2, <3>3
  <2>3. ~ mismatch'
    BY <2>1, <2>2 DEF ConsoleInductive
  <2> QED BY <1>1, <2>1, <2>3, NothingChanges
<1> QED BY <1>2, <1>3

LEMMA ServedRow ==
  ASSUME ConsoleInductive, NEW c \in pending, c.panel \in {"edit", "delete"}
  PROVE  /\ c.row.id \in AssetPool /\ tree[c.row.id].at # Unborn
         /\ tree[c.row.id].at \in {c.node, Deleted} /\ tree[c.row.id] \in TreeRecords
         /\ c.row.name \in Nat /\ c.row.name <= made
BY DEF ConsoleInductive, ConsoleShapes, ConsoleNested, RequestIsNested, HangsAt, AssetAt,
       NamesAreGiven, RequestRecords, RowRecords

LEMMA DeleteIsServed ==
  ASSUME ConsoleInductive, NEW c \in pending, ServeDelete(c)
  PROVE  ConsoleInductive'
<1> DEFINE a == c.row.id
<1>1. /\ c.panel = "delete" /\ c.phase = "sent" /\ PageKept /\ linked' = linked
      /\ missed' = missed /\ mismatch' = mismatch /\ undone' = undone
      /\ linked \subseteq AssetPool
  BY DEF ServeDelete, ConsoleInductive, ConsoleShapes
<1>2. CASE tree' = [tree EXCEPT ![a].at = Deleted] /\ Reaches(c, "done")
  <2>1. /\ a \in AssetPool /\ tree[a].at # Unborn /\ tree[a].at \in {c.node, Deleted}
        /\ tree[a] \in TreeRecords
    BY <1>1, ServedRow
  <2>2. PICK x : x = [tree[a] EXCEPT !.at = Deleted]
    OBVIOUS
  <2>3. /\ x \in TreeRecords /\ x.at = Deleted /\ x.client = tree[a].client
        /\ x.level = tree[a].level /\ x.name = tree[a].name
    BY <2>1, <2>2, AssetEdited
  <2>4. tree' = [tree EXCEPT ![a] = x] /\ tree \in [AssetPool -> TreeRecords] /\ TreeIsNested
    BY <1>2, <2>2 DEF ConsoleInductive, ConsoleShapes, ConsoleNested
  <2>5. /\ tree' \in [AssetPool -> TreeRecords] /\ TreeGoesOn /\ TreeIsNested'
        /\ tree'[a] = x /\ \A b \in AssetPool \ {a} : tree'[b] = tree[b]
        /\ \A n \in Nodes : n # tree[a].at => RowsOf(n)' = RowsOf(n)
    BY <2>1, <2>3, <2>4, OneAssetChanged
  <2>6. Deleted \notin Nodes
    BY StartAssumption
  <2>7. \A b \in AssetPool : tree'[b].name = tree[b].name
    BY <2>3, <2>5
  <2>8. \A b \in AssetPool : tree'[b].name <= made
    BY <2>7 DEF ConsoleInductive, NamesAreGiven
  <2>9. \A b \in AssetPool : tree[b].at \in (Nodes \ {c.node}) \cup {Deleted} =>
          tree'[b].name = tree[b].name /\ tree'[b].at = tree[b].at
    BY <2>1, <2>3, <2>5, <2>6, <2>7
  <2> QED BY <1>1, <1>2, <2>1, <2>5, <2>6, <2>7, <2>8, <2>9, OneServed DEF ConsoleInductive
<1>3. CASE tree' = tree /\ pending' = pending \ {c}
  BY <1>1, <1>3, NothingChanges DEF ConsoleInductive
<1> QED BY <1>2, <1>3 DEF ServeDelete, Ends

LEMMA EditIsServed ==
  ASSUME ConsoleInductive, NEW c \in pending, ServeEdit(c)
  PROVE  ConsoleInductive'
<1> DEFINE a == c.row.id
<1>1. /\ c.panel = "edit" /\ c.phase = "sent" /\ PageKept /\ linked' = linked
      /\ missed' = missed /\ mismatch' = mismatch /\ linked \subseteq AssetPool
      /\ c.heard \in BOOLEAN /\ c.old \in BOOLEAN
  BY DEF ServeEdit, ConsoleInductive, ConsoleShapes, RequestRecords
<1>2. CASE Exists(a)
  <2>1. /\ a \in AssetPool /\ tree[a].at # Unborn /\ tree[a].at \in {c.node, Deleted}
        /\ tree[a] \in TreeRecords /\ c.row.name \in Nat /\ c.row.name <= made
    BY <1>1, ServedRow
  <2>2. PICK x : x = [tree[a] EXCEPT !.name = c.row.name]
    OBVIOUS
  <2>3. /\ x \in TreeRecords /\ x.at = tree[a].at /\ x.client = tree[a].client
        /\ x.level = tree[a].level /\ x.name = c.row.name
    BY <2>1, <2>2, AssetEdited
  <2>4. /\ tree' = [tree EXCEPT ![a] = x] /\ tree \in [AssetPool -> TreeRecords]
        /\ TreeIsNested /\ Reaches(c, "done")
    BY <1>2, <2>2 DEF ConsoleInductive, ConsoleShapes, ConsoleNested, ServeEdit
  <2>5. /\ tree' \in [AssetPool -> TreeRecords] /\ TreeGoesOn /\ TreeIsNested'
        /\ tree'[a] = x /\ \A b \in AssetPool \ {a} : tree'[b] = tree[b]
        /\ \A n \in Nodes : n # tree[a].at => RowsOf(n)' = RowsOf(n)
    BY <2>1, <2>3, <2>4, OneAssetChanged
  <2>6. Deleted \notin Nodes
    BY StartAssumption
  <2>7. \A b \in AssetPool : b # a => tree'[b].name = tree[b].name
    BY <2>5
  <2>8. \A b \in AssetPool : tree'[b].name <= made
    BY <2>1, <2>3, <2>5, <2>7 DEF ConsoleInductive, NamesAreGiven
  <2>9. undone' = {}
    <3>1. c.heard /\ ~ c.old => tree[a].name <= c.row.name
      BY <1>1 DEF ConsoleInductive, EditsAreAlone
    <3>2. tree[a].name \in Nat
      BY <2>1 DEF TreeRecords
    <3>3. ~ (c.row.name < tree[a].name /\ ~ c.old /\ c.heard)
      BY <2>1, <3>1, <3>2
    <3> QED BY <1>2, <3>3 DEF ServeEdit, ConsoleInductive
  <2>10. \A b \in AssetPool : tree[b].at \in (Nodes \ {c.node}) \cup {Deleted} =>
           tree'[b].name = tree[b].name /\ tree'[b].at = tree[b].at
    BY <1>2, <2>1, <2>5, <2>6, <2>7 DEF Exists
  <2> QED BY <1>1, <2>1, <2>4, <2>5, <2>6, <2>7, <2>8, <2>9, <2>10, OneServed
          DEF ConsoleInductive
<1>3. CASE ~ Exists(a)
  <2>1. tree' = tree /\ pending' = pending \ {c} /\ undone' = undone
    BY <1>3 DEF ServeEdit, Ends
  <2> QED BY <1>1, <2>1, NothingChanges DEF ConsoleInductive
<1> QED BY <1>2, <1>3

LEMMA LinkIsServed ==
  ASSUME ConsoleInductive, NEW c \in pending, ServeLink(c) \/ ServeFails(c)
  PROVE  ConsoleInductive'
<1>1. /\ c.phase = "sent" /\ PageKept /\ tree' = tree /\ missed' = missed
      /\ mismatch' = mismatch /\ undone' = undone /\ linked \subseteq AssetPool
      /\ RequestIsNested(c)
  BY DEF ServeLink, ServeFails, ConsoleInductive, ConsoleShapes, ConsoleNested
<1>2. \/ pending' = pending \ {c} /\ linked' = linked
      \/ /\ Reaches(c, "done") /\ c.node \in AssetPool
         /\ linked' = linked \cup {c.node} \/ linked' = linked \ {c.node}
  BY DEF ServeLink, ServeFails, Ends, Exists
<1> QED BY <1>1, <1>2, NothingChanges DEF ConsoleInductive

LEMMA AnswerArrives ==
  ASSUME ConsoleInductive, NEW c \in pending, Succeeds(c) \/ ErrorAfterEffect(c)
  PROVE  ConsoleInductive'
<1> USE DEF ConsoleInductive
<1>1. /\ c.phase = "done" /\ pending' = pending \ {c}
      /\ dialog' = dialog \/ dialog' = NoDialog
      /\ tree' = tree /\ linked' = linked /\ path' = path /\ made' = made
      /\ mismatch' = mismatch /\ undone' = undone
  BY DEF Succeeds, ErrorAfterEffect, Ends, PageKept
<1>2. /\ pending \subseteq RequestRecords /\ path \in PathRecords /\ dialog \in DialogRecords
      /\ made \in Nat /\ column \in [Nodes -> ColumnRecords]
      /\ tree \in [AssetPool -> TreeRecords] /\ missed \subseteq Nodes
  BY ConsoleAssumption DEF ConsoleShapes
<1>3. Displayed' = Displayed /\ Displayed \subseteq Nodes
  BY <1>1, <1>2, SamePath, NodesOnScreen DEF ConsoleNested
<1>4. /\ column' \in [Nodes -> ColumnRecords] /\ missed' \subseteq Nodes
      /\ \A n \in Nodes : Held(n)' \subseteq Held(n)
      /\ \A n \in Nodes \ {c.node} : column'[n] = column[n]
      /\ missed \subseteq missed'
      /\ c.node \in Displayed => c.node \in missed' \/ UpToDate(c.node)'
  <2>1. CASE Succeeds(c) /\ Refreshes(c) /\ c.node \in Displayed
             /\ (column[c.node].loaded \/ column[c.node].phase = "none")
    <3>1. column' = [column EXCEPT ![c.node] = AskFor(c.node)] /\ missed' = missed
      BY <2>1 DEF Succeeds, InvalidateChildren
    <3>2. c.node \in Nodes
      BY <1>3, <2>1
    <3>3. PICK v : v = AskFor(c.node)
      OBVIOUS
    <3>4. /\ v \in ColumnRecords /\ v.rows = column[c.node].rows /\ v.answer.rows = {}
          /\ v.phase = "sent"
      BY <1>2, <3>2, <3>3, AskedAgain
    <3>5. column' \in [Nodes -> ColumnRecords] /\ column'[c.node] = v
          /\ \A n \in Nodes \ {c.node} : column'[n] = column[n]
      BY <1>2, <3>1, <3>2, <3>3, <3>4
    <3>6. \A n \in Nodes : Held(n)' \subseteq Held(n)
      BY <3>4, <3>5 DEF Held
    <3>7. UpToDate(c.node)'
      <4>1. PICK m : m = c.node
        OBVIOUS
      <4>2. UpToDate(m)'
        BY <3>4, <3>5, <4>1, SentIsUpToDate
      <4> QED BY <4>1, <4>2 DEF UpToDate, Late, Named, ChildrenOf, RowsOf
    <3> QED BY <1>2, <3>1, <3>5, <3>6, <3>7
  <2>2. CASE Succeeds(c) /\ Refreshes(c) /\ c.node \in Displayed
             /\ ~ (column[c.node].loaded \/ column[c.node].phase = "none")
    <3>1. column' = column
          /\ missed' = IF Late(c.node) THEN missed \cup {c.node} ELSE missed
      BY <2>2 DEF Succeeds, InvalidateChildren
    <3>2. PICK m : m = c.node
      OBVIOUS
    <3>3. ~ Late(m) => UpToDate(m)'
      <4>1. ~ Late(m) => UpToDate(m)
        BY <2>2, <3>2 DEF UpToDate
      <4> QED BY <1>1, <3>1, <4>1, SameView
    <3>4. ~ Late(c.node) => UpToDate(c.node)'
      BY <3>2, <3>3 DEF UpToDate, Late, Named, ChildrenOf, RowsOf
    <3> QED BY <1>2, <1>3, <2>2, <3>1, <3>4 DEF Held
  <2>3. CASE ~ (Succeeds(c) /\ Refreshes(c) /\ c.node \in Displayed)
    <3>1. /\ column' = column /\ missed \subseteq missed'
          /\ missed' \subseteq missed \cup Displayed
          /\ c.node \in Displayed => c.node \in missed'
      BY <2>3 DEF Succeeds, InvalidateChildren, ErrorAfterEffect, PageKept
    <3> QED BY <1>2, <1>3, <3>1 DEF Held
  <2> QED BY <2>1, <2>2, <2>3
<1>5. /\ pending' \subseteq RequestRecords
      /\ \A d \in pending' : \E e \in pending : Continues(e, d)
      /\ \A d \in pending \ {c} : d \in pending'
  BY <1>1, <1>2, OneAnswered
<1>6. EditsAreAlone'
  BY <1>1, <1>2, OneEditAnswered DEF ConsoleNested
<1>7. dialog' \in DialogRecords /\ dialog'.row.name <= made /\ dialog'.row.name \in Nat
  <2>1. dialog' \in DialogRecords /\ dialog'.row.name <= made
    BY <1>1, <1>2, DialogRecord DEF NamesAreGiven
  <2> QED BY <2>1 DEF DialogRecords, RowRecords
<1>8. ConsoleShapes'
  BY <1>1, <1>4, <1>5, <1>7 DEF ConsoleShapes
<1>9. TreeGoesOn /\ TreeIsNested' /\ \A n : RowsOf(n)' = RowsOf(n)
  BY <1>1, NothingServed DEF ConsoleNested
<1>10. ConsoleNested'
  <2>1. ColumnsAreNested' /\ PathIsNested'
    BY <1>1, <1>4, <1>9, ColumnsStayNested, PathStaysNested DEF ConsoleNested
  <2>2. DialogIsNested'
    BY <1>1, <1>2, <1>9, SamePath, DialogStaysNested DEF ConsoleNested
  <2>3. \A d \in pending' : RequestIsNested(d)'
    BY <1>5, <1>9, RequestsStayNested DEF ConsoleNested
  <2> QED BY <1>9, <2>1, <2>2, <2>3 DEF ConsoleNested
<1>11. NamesAreGiven'
  BY <1>1, <1>2, <1>4, <1>5, <1>7, NamesStayGiven
<1>12. BehindIsKnown'
  <2>1. ASSUME NEW n \in Displayed
        PROVE  \/ n \in missed' \/ UpToDate(n)'
               \/ \E d \in pending' : d.node = n /\ d.phase = "done"
    <3>1. CASE n = c.node
      <4>1. UpToDate(c.node)' => UpToDate(n)'
        BY <3>1 DEF UpToDate, Late, Named, ChildrenOf, RowsOf
      <4> QED BY <1>4, <3>1, <4>1
    <3>2. CASE n # c.node
      <4>1. UpToDate(n)' <=> UpToDate(n)
        BY <1>1, <1>3, <1>4, <3>2, SameView
      <4> QED BY <1>4, <1>5, <3>2, <4>1 DEF BehindIsKnown
    <3> QED BY <3>1, <3>2
  <2> QED BY <1>3, <2>1 DEF BehindIsKnown
<1> QED BY <1>1, <1>6, <1>8, <1>10, <1>11, <1>12

LEMMA AssetDisappears ==
  ASSUME ConsoleInductive, NEW a \in AssetPool, DeletedElsewhere(a)
  PROVE  ConsoleInductive'
<1> USE DEF ConsoleInductive
<1>1. /\ made' = made + 1 /\ made < MaxRequests /\ Exists(a)
      /\ missed' = missed \cup ({tree[a].at} \cap Displayed)
      /\ linked' = linked /\ column' = column /\ path' = path /\ dialog' = dialog
      /\ pending' = pending /\ mismatch' = mismatch /\ undone' = undone
  BY DEF DeletedElsewhere
<1>2. /\ pending \subseteq RequestRecords /\ path \in PathRecords /\ dialog \in DialogRecords
      /\ made \in Nat /\ made' \in Nat /\ made' \in 0..MaxRequests
      /\ column \in [Nodes -> ColumnRecords]
      /\ tree \in [AssetPool -> TreeRecords] /\ missed \subseteq Nodes
  BY <1>1, ConsoleAssumption DEF ConsoleShapes
<1>3. Displayed' = Displayed /\ Displayed \subseteq Nodes
  BY <1>1, <1>2, SamePath, NodesOnScreen DEF ConsoleNested
<1>4. PICK x : x = [tree[a] EXCEPT !.at = Deleted]
  OBVIOUS
<1>5. /\ x \in TreeRecords /\ x.at = Deleted /\ x.client = tree[a].client
      /\ x.level = tree[a].level /\ x.name = tree[a].name
  BY <1>2, <1>4, AssetEdited
<1>6. tree' = [tree EXCEPT ![a] = x]
  BY <1>4 DEF DeletedElsewhere
<1>7. /\ tree' \in [AssetPool -> TreeRecords] /\ TreeGoesOn /\ TreeIsNested'
      /\ tree'[a] = x /\ \A b \in AssetPool \ {a} : tree'[b] = tree[b]
      /\ \A n \in Nodes : n # tree[a].at => RowsOf(n)' = RowsOf(n)
  BY <1>1, <1>2, <1>5, <1>6, OneAssetChanged DEF ConsoleNested, Exists
<1>8. \A b \in AssetPool : tree'[b].name = tree[b].name
  BY <1>5, <1>7
<1>9. ConsoleShapes'
  BY <1>1, <1>2, <1>3, <1>7 DEF ConsoleShapes
<1>10. \A d \in pending' : \E c \in pending : Continues(c, d)
  BY <1>1, <1>2, ContinuesItself
<1>11. ConsoleNested'
  <2>1. ColumnsAreNested' /\ PathIsNested'
    BY <1>1, <1>7, ColumnsStayNested, PathStaysNested DEF ConsoleNested, Held
  <2>2. DialogIsNested'
    BY <1>1, <1>2, <1>7, SamePath, DialogStaysNested DEF ConsoleNested
  <2>3. \A d \in pending' : RequestIsNested(d)'
    BY <1>7, <1>10, RequestsStayNested DEF ConsoleNested
  <2> QED BY <1>7, <2>1, <2>2, <2>3 DEF ConsoleNested
<1>12. NamesAreGiven'
  <2>1. \A b \in AssetPool : tree'[b].name <= made'
    BY <1>1, <1>2, <1>8 DEF NamesAreGiven, TreeRecords
  <2>2. ASSUME NEW n \in Nodes, NEW row \in Held(n)' PROVE row.name <= made'
    <3>1. row \in Held(n)
      BY <1>1, <2>2 DEF Held
    <3>2. row.name \in Nat /\ row.name <= made
      BY <1>2, <3>1, NamesHeld DEF NamesAreGiven
    <3> QED BY <1>1, <1>2, <3>2
  <2>3. dialog'.row.name <= made'
    BY <1>1, <1>2 DEF NamesAreGiven, DialogRecords, RowRecords
  <2>4. ASSUME NEW d \in pending' PROVE d.n < made' /\ d.row.name <= made'
    <3>1. d.n \in Nat /\ d.row.name \in Nat /\ d.n < made /\ d.row.name <= made
      BY <1>1, <1>2 DEF NamesAreGiven, RequestRecords, RowRecords
    <3> QED BY <1>1, <1>2, <3>1
  <2> QED BY <2>1, <2>2, <2>3, <2>4 DEF NamesAreGiven
<1>13. EditsAreAlone'
  <2>1. \A d \in pending : d.panel = "edit" => d.row.id \in AssetPool
    BY DEF ConsoleNested, RequestIsNested, AssetAt
  <2> QED BY <1>1, <1>8, <2>1 DEF EditsAreAlone
<1>14. BehindIsKnown'
  <2>1. ASSUME NEW n \in Displayed
        PROVE  \/ n \in missed' \/ UpToDate(n)'
               \/ \E d \in pending' : d.node = n /\ d.phase = "done"
    <3>1. CASE n = tree[a].at
      BY <1>1, <3>1
    <3>2. CASE n # tree[a].at
      <4>1. n \in Nodes /\ ColumnsAreNested /\ RowsOf(n)' = RowsOf(n)
        BY <1>3, <1>7, <3>2 DEF ConsoleNested
      <4>2. tree[a].at # Deleted
        BY <1>1 DEF Exists
      <4>3. \A b \in AssetPool : tree[b].at \in {n, Deleted} =>
              tree'[b].name = tree[b].name /\ tree'[b].at = tree[b].at
        BY <1>7, <3>2, <4>2
      <4>4. UpToDate(n)' <=> UpToDate(n)
        BY <1>1, <4>1, <4>3, OtherAnswers
      <4> QED BY <1>1, <4>4 DEF BehindIsKnown
    <3> QED BY <3>1, <3>2
  <2> QED BY <1>1, <1>3, <2>1 DEF BehindIsKnown
<1> QED BY <1>1, <1>9, <1>11, <1>12, <1>13, <1>14

-----------------------------------------------------------------------------
(* The steps together *)

LEMMA StartIsNested ==
  ASSUME ConsoleInit
  PROVE  /\ tree \in [AssetPool -> TreeRecords] /\ TreeIsNested
         /\ \A a \in AssetPool : tree[a].name = 0
<1> DEFINE none == [at |-> Unborn, client |-> NoClient, level |-> 0, name |-> 0]
<1>1. tree = [a \in AssetPool |-> IF a \in DOMAIN Start THEN Start[a] ELSE none]
  BY DEF ConsoleInit
<1>2. none \in TreeRecords /\ none.at = Unborn /\ none.name = 0
  BY DEF TreeRecords
<1> HIDE DEF none
<1>3. /\ Unborn \notin Nodes /\ DOMAIN Start \subseteq AssetPool
      /\ \A a \in DOMAIN Start :
           /\ Start[a] \in TreeRecords /\ Start[a].name = 0
           /\ Start[a].at \in Clients \cup DOMAIN Start /\ Start[a].at # Unborn
  BY StartAssumption DEF TreeRecords, Nodes
<1>4. /\ tree \in [AssetPool -> TreeRecords]
      /\ \A a \in AssetPool : tree[a].name = 0
  BY <1>1, <1>2, <1>3
<1>5. ASSUME NEW a \in AssetPool, tree[a].at \in Nodes PROVE ChildOf(a, tree[a].at)
  <2>1. a \in DOMAIN Start /\ tree[a] = Start[a]
    BY <1>1, <1>2, <1>3, <1>5
  <2>2. PICK n : n = Start[a].at
    OBVIOUS
  <2>3. n \in Clients \cup DOMAIN Start /\ tree[a].at # Unborn
    BY <1>3, <2>1, <2>2
  <2>4. CASE n \in Clients
    <3>1. Start[a].client = n /\ Start[a].level = 0
      BY StartAssumption, <2>1, <2>2, <2>4
    <3> QED BY <2>1, <2>2, <2>3, <2>4, <3>1 DEF ChildOf, AssetAt
  <2>5. CASE n \notin Clients
    <3>1. Start[a].client = Start[n].client /\ Start[a].level = Start[n].level + 1
      BY StartAssumption, <2>1, <2>2, <2>5
    <3>2. n \in AssetPool /\ tree[n] = Start[n] /\ tree[n].at # Unborn
      BY <1>1, <1>3, <2>3, <2>5
    <3> QED BY <2>1, <2>2, <2>3, <2>5, <3>1, <3>2 DEF ChildOf, AssetAt
  <2> QED BY <2>1, <2>2, <2>4, <2>5
<1> QED BY <1>4, <1>5 DEF TreeIsNested

LEMMA ConsoleInitInv ==
  ASSUME ConsoleInit PROVE ConsoleInductive
<1>1. /\ tree \in [AssetPool -> TreeRecords] /\ TreeIsNested
      /\ \A a \in AssetPool : tree[a].name = 0
  BY StartIsNested
<1> DEFINE closed == [clients |-> <<>>, assets |-> <<>>, loaded |-> FALSE]
<1>2. /\ linked = {} /\ column = [n \in Nodes |-> NotLoaded] /\ path = closed
      /\ dialog = NoDialog /\ pending = {} /\ made = 0 /\ missed = {} /\ ~ mismatch
      /\ undone = {}
  BY DEF ConsoleInit
<1>3. NotLoaded \in ColumnRecords /\ NotLoaded.rows = {} /\ NotLoaded.answer.rows = {}
  BY NoAnswerHeld DEF ColumnRecords, NotLoaded
<1>4. closed \in PathRecords /\ closed.clients = <<>> /\ closed.assets = <<>>
      /\ closed.loaded = FALSE
  BY EmptySeq DEF PathRecords
<1>5. NoDialog \in DialogRecords /\ NoDialog.kind = "none" /\ NoDialog.row.name = 0
  BY DEF NoDialog, NoRow, DialogRecords, RowRecords
<1> HIDE DEF closed
<1>6. ConsoleShapes
  BY <1>1, <1>2, <1>3, <1>4, <1>5, ConsoleAssumption DEF ConsoleShapes
<1>7. PathIsNested
  <2>1. Len(path.assets) = 0
    BY <1>2, <1>4, EmptySeq
  <2> QED BY <1>2, <1>4, <2>1 DEF PathIsNested
<1>8. ConsoleNested
  BY <1>1, <1>2, <1>3, <1>5, <1>7 DEF ConsoleNested, ColumnsAreNested, DialogIsNested, Held
<1>9. NamesAreGiven /\ EditsAreAlone
  BY <1>1, <1>2, <1>3, <1>5 DEF NamesAreGiven, EditsAreAlone, Held
<1>10. BehindIsKnown
  <2>1. path \in PathRecords
    BY <1>2, <1>4
  <2>2. Client = NoClient
    BY <1>2, <1>4 DEF Client
  <2>3. ActiveNode = NoClient
    BY <1>2, <1>4, <2>2 DEF ActiveNode
  <2>4. Columns = {}
    <3>1. ASSUME NEW level \in Columns PROVE FALSE
      BY <1>7, <2>1, <2>2, ColumnParents, ConsoleAssumption
    <3> QED BY <3>1
  <2>5. Displayed = {}
    BY <2>3, <2>4 DEF Displayed
  <2> QED BY <2>5 DEF BehindIsKnown
<1> QED BY <1>2, <1>6, <1>8, <1>9, <1>10 DEF ConsoleInductive

LEMMA ConsoleNavigates ==
  ASSUME ConsoleInductive,
         \/ \E c \in Clients : SelectCustomer(c)
         \/ \E j \in 0 .. Len(path.clients) : NavigateCustomerTrail(j)
         \/ HierarchyLoads
         \/ \E level \in Columns : \E row \in column[ParentAt(level)].rows :
              SelectAsset(level, row)
  PROVE  ConsoleInductive'
<1>1. NavigatesWell
  BY CustomerNavigates, TrailNavigates, LoadNavigates, AssetNavigates
<1>2. ServerKept /\ Show
  BY DEF SelectCustomer, NavigateCustomerTrail, HierarchyLoads, SelectAsset
<1>3. dialog.kind = "none" \/ (Client' = Client /\ path'.assets = path.assets)
  BY LoadNavigates DEF SelectCustomer, NavigateCustomerTrail, SelectAsset, Free
<1> QED BY <1>1, <1>2, <1>3, ConsoleShown DEF NavigatesWell

LEMMA ConsoleStepInv ==
  ASSUME ConsoleInductive, [ConsoleNext]_consoleVars PROVE ConsoleInductive'
<1>1. ASSUME NEW level \in Columns, OpenAdd(level) PROVE ConsoleInductive'
  BY <1>1, DialogOpens DEF OpenAdd
<1>2. ASSUME NEW level \in Columns, NEW row \in column[ParentAt(level)].rows,
             OpenRow("edit", level, row) \/ OpenRow("delete", level, row)
      PROVE  ConsoleInductive'
  BY <1>2, DialogOpens DEF OpenRow
<1>3. CASE OpenAssign
  BY <1>3, DialogOpens DEF OpenAssign
<1>4. CASE SubmitCreate \/ ConfirmDelete \/ SubmitAssign \/ Unassign
           \/ \E renames \in BOOLEAN : SubmitEdit(renames)
  BY <1>4, CreateIsSent, DeleteIsSent, LinkIsSent, EditIsSent
<1>5. ASSUME NEW c \in pending,
             \/ ServeCreate(c) \/ ServeDelete(c) \/ ServeEdit(c) \/ ServeLink(c)
             \/ ServeFails(c) \/ ErrorAfterEffect(c) \/ Succeeds(c)
      PROVE  ConsoleInductive'
  BY <1>5, CreateIsServed, DeleteIsServed, EditIsServed, LinkIsServed, AnswerArrives
<1>6. CASE UNCHANGED consoleVars
  <2>1. /\ UNCHANGED <<tree, linked, column, path, missed, mismatch, undone>>
        /\ made' = made /\ dialog' = dialog /\ pending' = pending
    BY <1>6 DEF consoleVars
  <2>2. /\ made \in Nat /\ made \in 0..MaxRequests /\ pending \subseteq RequestRecords
        /\ dialog \in DialogRecords /\ dialog.row.name <= made /\ path \in PathRecords
    BY ConsoleAssumption DEF ConsoleInductive, ConsoleShapes, NamesAreGiven
  <2>3. \A d \in pending' : \E c \in pending : Continues(c, d)
    BY <2>1, <2>2, ContinuesItself
  <2>4. /\ \A d \in pending' : RequestIsNested(d)'
        /\ \A d \in pending' : d.n < made' /\ d.row.name <= made'
    BY <2>1, <2>2, <2>3, RequestsKept
  <2>5. DialogIsNested'
    BY <2>1, <2>2, SamePath, NothingServed, DialogStaysNested DEF ConsoleInductive, ConsoleNested
  <2>6. EditsAreAlone'
    BY <2>1 DEF ConsoleInductive, EditsAreAlone
  <2> QED BY <2>1, <2>2, <2>4, <2>5, <2>6, PageActs
<1>7. ASSUME NEW n \in Nodes, ColumnFetches(n) PROVE ConsoleInductive'
  BY <1>7, ConsoleFetches
<1>8. ASSUME NEW a \in AssetPool, DeletedElsewhere(a) PROVE ConsoleInductive'
  BY <1>8, AssetDisappears
<1>9. CASE CloseDialog
  BY <1>9, DialogCloses
<1> QED BY <1>1, <1>2, <1>3, <1>4, <1>5, <1>6, <1>7, <1>8, <1>9, ConsoleNavigates
        DEF ConsoleNext, ColumnFetches

\* The clicks are counted.
MovesBounded == moves \in 0 .. MaxMoves

LEMMA MovesInit ==
  ASSUME ConsoleInit PROVE MovesBounded
BY ConsoleAssumption DEF ConsoleInit, MovesBounded

LEMMA MovesStep ==
  ASSUME MovesBounded, [ConsoleNext]_consoleVars PROVE MovesBounded'
<1>1. moves' = moves \/ (moves < MaxMoves /\ moves' = moves + 1)
  <2>1. ASSUME Clicks PROVE moves < MaxMoves /\ moves' = moves + 1
    BY <2>1 DEF Clicks
  <2>2. ASSUME \/ \E c \in Clients : SelectCustomer(c)
               \/ \E i \in 0 .. Len(path.clients) : NavigateCustomerTrail(i)
               \/ \E level \in Columns : \E row \in column[ParentAt(level)].rows :
                    SelectAsset(level, row)
        PROVE  Clicks
    BY <2>2 DEF SelectCustomer, NavigateCustomerTrail, SelectAsset
  <2>3. ASSUME \E n \in Nodes : ColumnFetches(n) PROVE moves' = moves
    BY <2>3 DEF ColumnFetches, ListsChildren, ReadsChildren, Fetched, ColumnFetchRetries,
                ColumnFetchFails, FetchOnly
  <2>4. ASSUME NEW kind, NEW level, NEW x, Opens(kind, level, x) PROVE moves' = moves
    BY <2>4 DEF Opens
  <2>5. ASSUME NEW kind, NEW node, NEW x, NEW next, SendsOff(kind, node, x, next)
        PROVE  moves' = moves
    BY <2>5 DEF SendsOff
  <2>6. ASSUME NEW c \in pending,
               \/ ServeCreate(c) \/ ServeDelete(c) \/ ServeEdit(c) \/ ServeLink(c)
               \/ ServeFails(c) \/ ErrorAfterEffect(c) \/ Succeeds(c)
        PROVE  moves' = moves
    BY <2>6 DEF ServeCreate, ServeDelete, ServeEdit, ServeLink, ServeFails, ErrorAfterEffect,
                Succeeds, PageKept
  <2>7. ASSUME \/ HierarchyLoads \/ CloseDialog \/ Unassign \/ UNCHANGED consoleVars
               \/ \E a \in AssetPool : DeletedElsewhere(a)
        PROVE  moves' = moves
    BY <2>7 DEF HierarchyLoads, CloseDialog, Unassign, DeletedElsewhere, consoleVars
  <2>8. ASSUME \/ SubmitCreate \/ ConfirmDelete \/ SubmitAssign
               \/ \E renames \in BOOLEAN : SubmitEdit(renames)
        PROVE  moves' = moves
    BY <2>5, <2>8 DEF SubmitCreate, ConfirmDelete, SubmitAssign, SubmitEdit
  <2>9. ASSUME \/ OpenAssign \/ \E level \in Columns : OpenAdd(level)
               \/ \E level \in Columns : \E row \in column[ParentAt(level)].rows :
                    OpenRow("edit", level, row) \/ OpenRow("delete", level, row)
        PROVE  moves' = moves
    BY <2>4, <2>9 DEF OpenAssign, OpenAdd, OpenRow
  <2> QED BY <2>1, <2>2, <2>3, <2>6, <2>7, <2>8, <2>9 DEF ConsoleNext, ColumnFetches
<1> QED BY <1>1, ConsoleAssumption DEF MovesBounded

\* The history and the columns follow from it.
LEMMA ConsoleInductiveIsSafe ==
  ASSUME ConsoleInductive
  PROVE  ConsoleSafe /\ (MovesBounded => ConsoleTypeOK)
<1>1. MovesBounded => ConsoleTypeOK
  BY DEF ConsoleInductive, ConsoleShapes, ConsoleTypeOK, TreeRecords, ColumnRecords,
         AnswerRecords, PathRecords, DialogRecords, MovesBounded
<1>2. ColumnsCatchUp
  BY DEF ConsoleInductive, BehindIsKnown, UpToDate, ColumnsCatchUp
<1> QED BY <1>1, <1>2 DEF ConsoleInductive, ConsoleSafe, CreationsFit, RenamesKept

\* Every variable of the admin page has its type.
THEOREM ConsoleTypeInvariant == ConsoleSpec => []ConsoleTypeOK
BY ConsoleInitInv, ConsoleStepInv, MovesInit, MovesStep, ConsoleInductiveIsSafe, PTL
   DEF ConsoleSpec

\* What the page asks to create fits the hierarchy, a column nobody is fetching shows what
\* ThingsBoard has or the page was never told, and saving a label undoes no rename its dialog
\* showed, for every set of clients and assets and every number of requests
\* (app/admin/page.tsx, AdminAssetPanel.tsx, EditEntityDialog.tsx).
THEOREM ConsoleIsSafe == ConsoleSpec => []ConsoleSafe
BY ConsoleInitInv, ConsoleStepInv, ConsoleInductiveIsSafe, PTL DEF ConsoleSpec

=============================================================================
