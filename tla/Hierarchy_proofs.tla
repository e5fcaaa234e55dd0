-------------------------- MODULE Hierarchy_proofs --------------------------
(***************************************************************************)
(* Proofs about Hierarchy for every set of customers and assets, every     *)
(* number of levels and of faults.                                         *)
(*                                                                         *)
(* LevelsInv, AssetInv, CustomerInv and TreeInv are inductive, each with   *)
(* the ones before it: what a creation in progress, or an asset both       *)
(* stores have, may rely on.                                               *)
(***************************************************************************)
EXTENDS Hierarchy, TLAPS

\* a, or the request that creates it, counts on its customer's level.
Claims(a) == a \in rows \/ InFlight(a)

Customer(a) == request[a].customer

Parent(a) == request[a].parent

\* The excuses of the properties, by the entity that was leaving.
Overlapped(e, a) == <<e, a>> \in overlapped

LevelsInv ==
  /\ \A a \in Assets : creating[a] \in {"idle", "level", "checked"} => a \notin rows
  /\ \A a \in Assets : Claims(a) =>
       /\ creating[Customer(a)] \notin {"idle", "created"}
       /\ \/ <<Customer(a), request[a].level>> \in levels
          \/ Overlapped(Customer(a), a)
       /\ Unsettled(Customer(a)) => Overlapped(Customer(a), a)

\* Where a is in the stores, at every point of its creation.
AssetOK(a) ==
  /\ creating[a] \in {"idle", "level", "checked"} => a \notin tb /\ deleting[a] = "no"
  /\ creating[a] \in {"idle", "level", "checked", "created", "assigned"} => a \notin rows
  /\ creating[a] \in {"tracked", "undo_row", "done"} => (a \in tb => a \in rows)
  /\ creating[a] = "undo_entity" => a \notin rows \/ a \in faults
  /\ creating[a] = "failed" => a \notin tb \cup rows \/ a \in faults
  /\ creating[a] = "done" =>
       (a \in rows => \/ a \in tb
                      \/ deleting[a] = "erased"
                      \/ a \in faults
                      \/ Overlapped(Customer(a), a))
  /\ deleting[a] = "erased" => a \notin tb
  /\ a \in owned => creating[a] # "idle"

AssetInv == \A a \in Assets : AssetOK(a)

\* The excuses of TreeIntact.
Excused(a) == Overlapped(Parent(a), a) \/ Overlapped(Customer(a), a)

\* The creation of a relies on what it read about its parent.
Reading(a) == creating[a] \in {"level", "checked", "created", "assigned", "tracked"}

Standing(a) == creating[a] = "done" /\ a \in tb /\ a \in rows

\* The parent of a is under it, and no deletion of the parent has missed a.
Upright(a) ==
  LET p == Parent(a)
  IN /\ p \in tb
     /\ <<p, a>> \in relations
     /\ p \in Assets => /\ p \in rows
                        /\ deleting[p] \notin {"checked", "erased"}
                        /\ deleting[p] = "listed" => a \in listed[p]

PlacedOK(a) ==
  LET p == Parent(a)
  IN /\ creating[a] = "level" => p \in Assets
     /\ (Reading(a) \/ creating[a] = "done") /\ p \in Customers =>
          p = Customer(a) /\ request[a].level = 0
     /\ (Reading(a) \/ creating[a] = "done") /\ p \in Assets => creating[p] # "idle"
     /\ (Reading(a) \/ creating[a] = "done") /\ creating[a] # "level" /\ p \in Assets =>
          /\ request[p].customer = Customer(a)
          /\ request[p].level + 1 = request[a].level
     /\ (Reading(a) \/ Standing(a)) /\ p \in Assets /\ InFlight(p) => Overlapped(p, a)
     /\ Reading(a) /\ p \in Assets /\ deleting[p] # "no" => Overlapped(p, a)
     /\ Reading(a) /\ creating[a] # "level" /\ p \in Assets => p \in rows \/ Overlapped(p, a)
     /\ Standing(a) => Upright(a) \/ Excused(a)

TreeInv == \A a \in Assets : PlacedOK(a)

CustomerOK(c) ==
  /\ creating[c] \notin {"level", "checked", "assigned", "tracked", "undo_row"}
  /\ creating[c] = "idle" => c \notin tb /\ deleting[c] = "no"
  /\ deleting[c] # "listed"
  /\ deleting[c] = "erased" => c \notin tb
  /\ creating[c] = "undo_entity" => ~ HasLevels(c) \/ c \in faults
  /\ creating[c] = "failed" => (c \notin tb /\ ~ HasLevels(c)) \/ c \in faults
  /\ creating[c] = "created" /\ deleting[c] # "no" => Overlapped(c, c)
  /\ creating[c] = "created" => c \in tb \/ c \in faults \/ Overlapped(c, c)
  /\ creating[c] = "done" => \/ c \in tb <=> HasLevels(c)
                             \/ deleting[c] = "erased"
                             \/ c \in faults
                             \/ Overlapped(c, c)

CustomerInv == \A c \in Customers : CustomerOK(c)

LEMMA InitType == Init => TypeOK
BY DEF Init, TypeOK, HasLevels, Entities

LEMMA TypeStep == TypeOK /\ [Next]_vars => TypeOK'
<1>. SUFFICES ASSUME TypeOK, [Next]_vars PROVE TypeOK'
  OBVIOUS
<1>. DEFINE HandlersTyped ==
       /\ creating' \in [Entities -> Working \cup {"idle", "done", "failed"}]
       /\ deleting' \in [Entities -> {"no", "listed", "checked", "erased"}]
       /\ listed' \in [Assets -> SUBSET Assets]
       /\ request' \in [Assets -> Request \cup {NoRequest}]
<1>. DEFINE StoresTyped ==
       /\ tb' \in SUBSET Entities /\ owned' \in SUBSET Assets
       /\ relations' \in SUBSET (Entities \X Assets)
       /\ levels' \in SUBSET (Customers \X Levels)
       /\ rows' \in SUBSET Assets /\ faults' \in SUBSET Entities
       /\ overlapped' \in SUBSET (Entities \X Entities)
<1>. DEFINE RequestsKnown ==
       \A b \in Assets : creating'[b] # "idle" => request'[b] \in Request
<1>. DEFINE LevelsFounded ==
       \A d \in Customers : HasLevels(d)' => creating'[d] \notin {"idle", "created"}
<1>. USE EntitiesAssumption, LevelsAssumption DEF TypeOK, HasLevels, Entities, stores, Working
<1>1. ASSUME NEW c \in Customers, CreateCustomer(c) PROVE TypeOK'
  <2>1. HandlersTyped
    BY <1>1 DEF CreateCustomer, CreateMoves, KeepTb, Faulty
  <2>2. StoresTyped
    BY <1>1 DEF CreateCustomer, CreateMoves, KeepTb, Faulty
  <2>3. RequestsKnown
    BY <1>1 DEF CreateCustomer, CreateMoves, KeepTb, Faulty
  <2>4. LevelsFounded
    BY <1>1 DEF CreateCustomer, CreateMoves, KeepTb, Faulty
  <2>. QED
    BY <2>1, <2>2, <2>3, <2>4
<1>2. ASSUME NEW c \in Customers, CountAssets(c) PROVE TypeOK'
  <2>1. HandlersTyped
    BY <1>2 DEF CountAssets, StartDelete, DeleteMoves
  <2>2. StoresTyped
    BY <1>2 DEF CountAssets, StartDelete, DeleteMoves
  <2>3. RequestsKnown
    BY <1>2 DEF CountAssets, StartDelete, DeleteMoves
  <2>4. LevelsFounded
    BY <1>2 DEF CountAssets, StartDelete, DeleteMoves
  <2>. QED
    BY <2>1, <2>2, <2>3, <2>4
<1>3. ASSUME NEW c \in Customers, NEW L \in Hierarchies, WriteLevels(c, L) PROVE TypeOK'
  BY <1>3 DEF WriteLevels, CreateMoves, KeepTb, Faulty
<1>4. ASSUME NEW a \in Assets, NEW r \in Request, StartAsset(a, r) PROVE TypeOK'
  <2>1. HandlersTyped
    BY <1>4 DEF StartAsset, Request
  <2>2. StoresTyped
    BY <1>4 DEF StartAsset, Request
  <2>3. RequestsKnown
    BY <1>4 DEF StartAsset, Request
  <2>4. LevelsFounded
    BY <1>4 DEF StartAsset, Request
  <2>. QED
    BY <2>1, <2>2, <2>3, <2>4
<1>5. ASSUME NEW a \in Assets, CheckParent(a) PROVE TypeOK'
  BY <1>5 DEF CheckParent, CreateMoves, KeepTb, Faulty
<1>6. ASSUME NEW a \in Assets, CreateAsset(a) PROVE TypeOK'
  <2>1. HandlersTyped
    BY <1>6 DEF CreateAsset, CreateMoves, KeepTb, Faulty
  <2>2. StoresTyped
    BY <1>6 DEF CreateAsset, CreateMoves, KeepTb, Faulty
  <2>3. RequestsKnown
    BY <1>6 DEF CreateAsset, CreateMoves, KeepTb, Faulty
  <2>4. LevelsFounded
    BY <1>6 DEF CreateAsset, CreateMoves, KeepTb, Faulty
  <2>. QED
    BY <2>1, <2>2, <2>3, <2>4
<1>7. ASSUME NEW a \in Assets, AssignAsset(a) PROVE TypeOK'
  BY <1>7 DEF AssignAsset, CreateMoves, KeepTb, Faulty
<1>8. ASSUME NEW a \in Assets, TrackAsset(a) PROVE TypeOK'
  BY <1>8 DEF TrackAsset, CreateMoves, KeepTb, Faulty
<1>9. ASSUME NEW a \in Assets, RelateAsset(a) PROVE TypeOK'
  <2>1. relations' \in SUBSET (Entities \X Assets)
    <3>1. CASE relations' = relations
      BY <3>1
    <3>2. CASE /\ {a, request[a].parent} \subseteq tb
               /\ relations' = relations \cup {<<request[a].parent, a>>}
      <4>1. request[a].parent \in Entities
        BY <3>2
      <4>. QED
        BY <3>2, <4>1
    <3>. QED
      BY <1>9, <3>1, <3>2 DEF RelateAsset
  <2>2. creating' \in [Entities -> Working \cup {"idle", "done", "failed"}]
    BY <1>9 DEF RelateAsset, CreateMoves
  <2>3. RequestsKnown
    BY <1>9 DEF RelateAsset, CreateMoves
  <2>4. LevelsFounded
    BY <1>9 DEF RelateAsset, CreateMoves
  <2>. QED
    BY <1>9, <2>1, <2>2, <2>3, <2>4 DEF RelateAsset, CreateMoves
<1>10. ASSUME NEW a \in Assets, UndoRow(a) PROVE TypeOK'
  <2>1. HandlersTyped
    BY <1>10 DEF UndoRow, CreateMoves, KeepTb, Faulty
  <2>2. StoresTyped
    BY <1>10 DEF UndoRow, CreateMoves, KeepTb, Faulty
  <2>3. RequestsKnown
    BY <1>10 DEF UndoRow, CreateMoves, KeepTb, Faulty
  <2>4. LevelsFounded
    BY <1>10 DEF UndoRow, CreateMoves, KeepTb, Faulty
  <2>. QED
    BY <2>1, <2>2, <2>3, <2>4
<1>11. ASSUME NEW a \in Assets, ListChildren(a) PROVE TypeOK'
  <2>1. HandlersTyped
    BY <1>11 DEF ListChildren, StartDelete, DeleteMoves
  <2>2. StoresTyped
    BY <1>11 DEF ListChildren, StartDelete, DeleteMoves
  <2>3. RequestsKnown
    BY <1>11 DEF ListChildren, StartDelete, DeleteMoves
  <2>4. LevelsFounded
    BY <1>11 DEF ListChildren, StartDelete, DeleteMoves
  <2>. QED
    BY <2>1, <2>2, <2>3, <2>4
<1>12. ASSUME NEW a \in Assets, CheckChildren(a) PROVE TypeOK'
  BY <1>12 DEF CheckChildren, DeleteMoves
<1>13. ASSUME NEW x \in Entities, UndoEntity(x) PROVE TypeOK'
  BY <1>13 DEF UndoEntity, CreateMoves, Erase, KeepTb, Faulty
<1>14. ASSUME NEW x \in Entities, EraseEntity(x) PROVE TypeOK'
  BY <1>14 DEF EraseEntity, DeleteMoves, Erase, KeepTb, Faulty
<1>15. ASSUME NEW x \in Entities, EraseRows(x) PROVE TypeOK'
  BY <1>15 DEF EraseRows, DeleteMoves, KeepTb, Faulty
<1>16. ASSUME Crash PROVE TypeOK'
  <2>1. /\ creating' \in [Entities -> Working \cup {"idle", "done", "failed"}]
        /\ deleting' \in [Entities -> {"no", "listed", "checked", "erased"}]
        /\ listed' \in [Assets -> SUBSET Assets]
    BY <1>16 DEF Crash
  <2>2. faults' \in SUBSET Entities
    BY <1>16 DEF Crash, Faulty
  <2>3. RequestsKnown
    BY <1>16 DEF Crash, InFlight
  <2>4. LevelsFounded
    BY <1>16 DEF Crash, InFlight
  <2>. QED
    BY <1>16, <2>1, <2>2, <2>3, <2>4 DEF Crash
<1>17. CASE UNCHANGED vars
  BY <1>17 DEF vars
<1>. QED
  BY <1>1, <1>2, <1>3, <1>4, <1>5, <1>6, <1>7, <1>8, <1>9, <1>10, <1>11, <1>12, <1>13,
     <1>14, <1>15, <1>16, <1>17
     DEF Next

\* Every variable keeps its type, a creation in progress has its request, and no
\* customer has levels before its creation wrote them.
THEOREM HierarchyTypeInvariant == Spec => []TypeOK
BY InitType, TypeStep, PTL DEF Spec

----------------------------------------------------------------------------
(* Rows and levels.                                                        *)

\* Who claims a level has a request for it.
LEMMA ClaimType ==
  ASSUME TypeOK, LevelsInv, NEW a \in Assets, Claims(a)
  PROVE  request[a] \in Request /\ Customer(a) \in Customers /\ Parent(a) \in Entities
BY DEF TypeOK, LevelsInv, Claims, InFlight, Working, Request, Customer, Parent, Entities

\* Steps that start no creation and no deletion, and remove no level.
LEMMA LevelsFrame ==
  ASSUME TypeOK, LevelsInv, UNCHANGED request,
         levels \subseteq levels', overlapped \subseteq overlapped',
         \A a \in Assets : Claims(a)' => Claims(a),
         \A a \in Assets : creating'[a] \in {"idle", "level", "checked"} => a \notin rows',
         \A c \in Customers :
           /\ creating[c] \notin {"idle", "created"} => creating'[c] \notin {"idle", "created"}
           /\ creating[c] \notin {"idle", "created"} /\ Unsettled(c)' => Unsettled(c)
  PROVE  LevelsInv'
<1>1. ASSUME NEW a \in Assets, Claims(a)', NEW d \in Customers, d = request[a].customer
      PROVE  /\ creating'[d] \notin {"idle", "created"}
             /\ <<d, request[a].level>> \in levels' \/ <<d, a>> \in overlapped'
             /\ Unsettled(d)' => <<d, a>> \in overlapped'
  <2>1. Claims(a) /\ d = Customer(a)
    BY <1>1 DEF Customer
  <2>2. /\ creating[d] \notin {"idle", "created"}
        /\ <<d, request[a].level>> \in levels \/ <<d, a>> \in overlapped
        /\ Unsettled(d) => <<d, a>> \in overlapped
    BY <2>1 DEF LevelsInv, Overlapped
  <2>. QED
    BY <2>2
<1>2. ASSUME NEW a \in Assets, Claims(a)'
      PROVE  request[a].customer \in Customers
  BY <1>2, ClaimType DEF Customer
<1>3. ASSUME NEW a \in Assets, Claims(a)'
      PROVE  (/\ creating[Customer(a)] \notin {"idle", "created"}
              /\ \/ <<Customer(a), request[a].level>> \in levels
                 \/ Overlapped(Customer(a), a)
              /\ Unsettled(Customer(a)) => Overlapped(Customer(a), a))'
  BY <1>1, <1>2, <1>3 DEF Customer, Overlapped, Unsettled, InFlight
<1>. QED
  BY <1>3 DEF LevelsInv

LEMMA InitLevels == Init => LevelsInv
BY DEF Init, LevelsInv, Claims, InFlight, Working, Entities

LEMMA StartAssetLevels ==
  ASSUME TypeOK, LevelsInv, NEW a \in Assets, NEW r \in Request, StartAsset(a, r)
  PROVE  LevelsInv'
<1>. DEFINE c == r.customer
<1>1. /\ c \in Customers /\ <<c, r.level>> \in levels
      /\ request'[a] = r
      /\ Unsettled(c) => <<c, a>> \in overlapped'
      /\ creating[c] \notin {"idle", "created"}
  BY DEF StartAsset, Request, TypeOK, HasLevels
<1>2. /\ \A x \in Entities : x # a => creating'[x] = creating[x]
      /\ \A x \in Assets : x # a => request'[x] = request[x]
      /\ creating'[a] \in {"level", "checked"}
      /\ UNCHANGED <<levels, rows, deleting>> /\ overlapped \subseteq overlapped'
  BY DEF StartAsset, TypeOK, stores, Entities
<1>3. a \notin rows'
  BY DEF StartAsset, LevelsInv, stores
<1>4. \A x \in Customers : x # a /\ x \in Entities
  BY EntitiesAssumption DEF Entities
<1>5. \A x \in Customers : Unsettled(x)' <=> Unsettled(x)
  BY <1>2, <1>4 DEF Unsettled, InFlight
<1>6. ASSUME NEW b \in Assets
      PROVE  creating'[b] \in {"idle", "level", "checked"} => b \notin rows'
  BY <1>2, <1>3 DEF LevelsInv, Entities
<1>7. ASSUME NEW b \in Assets, Claims(b)', NEW d \in Customers, d = request'[b].customer
      PROVE  /\ creating'[d] \notin {"idle", "created"}
             /\ <<d, request'[b].level>> \in levels' \/ <<d, b>> \in overlapped'
             /\ Unsettled(d)' => <<d, b>> \in overlapped'
  <2>1. CASE b = a
    BY <1>1, <1>2, <1>4, <1>5, <1>7, <2>1
  <2>2. CASE b # a
    <3>1. Claims(b) /\ d = Customer(b) /\ request'[b] = request[b]
      BY <1>2, <1>7, <2>2 DEF Claims, InFlight, Customer, Entities
    <3>2. /\ creating[d] \notin {"idle", "created"}
          /\ <<d, request[b].level>> \in levels \/ <<d, b>> \in overlapped
          /\ Unsettled(d) => <<d, b>> \in overlapped
      BY <3>1 DEF LevelsInv, Overlapped
    <3>. QED
      BY <1>2, <1>4, <1>5, <3>1, <3>2
  <2>. QED
    BY <2>1, <2>2
<1>8. ASSUME NEW b \in Assets, Claims(b)'
      PROVE  request'[b].customer \in Customers
  BY <1>1, <1>2, <1>8, ClaimType DEF Claims, InFlight, Customer, Entities
<1>. QED
  <2>1. ASSUME NEW b \in Assets, Claims(b)'
        PROVE  (/\ creating[Customer(b)] \notin {"idle", "created"}
                /\ \/ <<Customer(b), request[b].level>> \in levels
                   \/ Overlapped(Customer(b), b)
                /\ Unsettled(Customer(b)) => Overlapped(Customer(b), b))'
    BY <1>7, <1>8, <2>1 DEF Customer, Overlapped, Unsettled, InFlight
  <2>. QED
    BY <1>6, <2>1 DEF LevelsInv

LEMMA CountAssetsLevels ==
  ASSUME TypeOK, LevelsInv, NEW c \in Customers, CountAssets(c)
  PROVE  LevelsInv'
<1>1. /\ UNCHANGED <<levels, rows, creating, request>>
      /\ overlapped \subseteq overlapped'
      /\ \A d \in Customers : d # c => (Unsettled(d)' <=> Unsettled(d))
  BY EntitiesAssumption DEF CountAssets, StartDelete, DeleteMoves, stores, Unsettled, InFlight,
     TypeOK, Entities
<1>2. ASSUME NEW a \in Assets, Claims(a), request[a].customer = c
      PROVE  <<c, a>> \in overlapped'
  <2>1. a \notin rows
    BY <1>2 DEF CountAssets
  <2>2. a \in Entities /\ InFlight(a) /\ c \in Uses(a)
    BY <1>2, <2>1, EntitiesAssumption DEF Claims, Uses, Entities
  <2>. QED
    BY <2>2 DEF CountAssets, StartDelete
<1>3. ASSUME NEW a \in Assets, Claims(a)'
      PROVE  (/\ creating[Customer(a)] \notin {"idle", "created"}
              /\ \/ <<Customer(a), request[a].level>> \in levels
                 \/ Overlapped(Customer(a), a)
              /\ Unsettled(Customer(a)) => Overlapped(Customer(a), a))'
  <2>1. Claims(a)
    BY <1>1, <1>3 DEF Claims, InFlight
  <2>2. Customer(a) \in Customers
    BY <2>1, ClaimType
  <2>3. /\ creating[Customer(a)] \notin {"idle", "created"}
        /\ <<Customer(a), request[a].level>> \in levels \/ <<Customer(a), a>> \in overlapped
        /\ Unsettled(Customer(a)) => <<Customer(a), a>> \in overlapped
    BY <2>1 DEF LevelsInv, Overlapped
  <2>4. Customer(a)' = Customer(a)
    BY <1>1 DEF Customer
  <2>5. CASE Customer(a) = c
    BY <1>1, <1>2, <2>1, <2>3, <2>4, <2>5 DEF Customer, Overlapped
  <2>6. CASE Customer(a) # c
    <3>1. ASSUME NEW d \in Customers, d = Customer(a)
          PROVE  Unsettled(d)' => <<d, a>> \in overlapped'
      BY <1>1, <2>3, <2>6, <3>1
    <3>. QED
      BY <1>1, <2>2, <2>3, <2>4, <3>1 DEF Overlapped, Unsettled, InFlight
  <2>. QED
    BY <2>5, <2>6
<1>. QED
  BY <1>1, <1>3 DEF LevelsInv

LEMMA EraseRowsLevels ==
  ASSUME TypeOK, LevelsInv, NEW e \in Entities, EraseRows(e)
  PROVE  LevelsInv'
<1>1. /\ UNCHANGED <<creating, request, overlapped>>
      /\ rows' \subseteq rows
      /\ \A l \in levels : l \in levels' \/ l[1] = e
      /\ deleting[e] = "erased"
      /\ \A d \in Entities : Unsettled(d)' => Unsettled(d)
  BY DEF EraseRows, DeleteMoves, Unsettled, InFlight, TypeOK
<1>2. ASSUME NEW a \in Assets, Claims(a)'
      PROVE  (/\ creating[Customer(a)] \notin {"idle", "created"}
              /\ \/ <<Customer(a), request[a].level>> \in levels
                 \/ Overlapped(Customer(a), a)
              /\ Unsettled(Customer(a)) => Overlapped(Customer(a), a))'
  <2>1. Claims(a) /\ Customer(a)' = Customer(a)
    BY <1>1, <1>2 DEF Claims, InFlight, Customer
  <2>2. Customer(a) \in Customers /\ Customer(a) \in Entities
    BY <2>1, ClaimType DEF Entities
  <2>3. /\ creating[Customer(a)] \notin {"idle", "created"}
        /\ <<Customer(a), request[a].level>> \in levels \/ <<Customer(a), a>> \in overlapped
        /\ Unsettled(Customer(a)) => <<Customer(a), a>> \in overlapped
    BY <2>1 DEF LevelsInv, Overlapped
  <2>4. CASE Customer(a) = e
    BY <1>1, <2>1, <2>3, <2>4 DEF Overlapped, Unsettled
  <2>5. CASE Customer(a) # e
    <3>1. ASSUME NEW d \in Entities, d = Customer(a)
          PROVE  Unsettled(d)' => <<d, a>> \in overlapped'
      BY <1>1, <2>3, <3>1
    <3>. QED
      BY <1>1, <2>1, <2>2, <2>3, <2>5, <3>1 DEF Overlapped, Unsettled, InFlight
  <2>. QED
    BY <2>4, <2>5
<1>. QED
  BY <1>1, <1>2 DEF LevelsInv

LEMMA LevelsStep == TypeOK /\ LevelsInv /\ [Next]_vars => LevelsInv'
<1>. SUFFICES ASSUME TypeOK, LevelsInv, [Next]_vars PROVE LevelsInv'
  OBVIOUS
<1>. DEFINE Harmless ==
       /\ UNCHANGED request
       /\ levels \subseteq levels' /\ overlapped \subseteq overlapped'
       /\ \A b \in Assets : Claims(b)' => Claims(b)
       /\ \A b \in Assets : creating'[b] \in {"idle", "level", "checked"} => b \notin rows'
       /\ \A d \in Customers : creating[d] \notin {"idle", "created"} =>
            creating'[d] \notin {"idle", "created"} /\ (Unsettled(d)' => Unsettled(d))
<1>0. Harmless => LevelsInv'
  BY LevelsFrame
<1>. USE EntitiesAssumption DEF TypeOK, Entities, stores, Unsettled, InFlight, Claims, Working
<1>1. ASSUME NEW c \in Customers, CreateCustomer(c) PROVE LevelsInv'
  BY <1>0, <1>1 DEF CreateCustomer, CreateMoves, Faulty, LevelsInv
<1>2. ASSUME NEW c \in Customers, NEW L \in Hierarchies, WriteLevels(c, L) PROVE LevelsInv'
  BY <1>0, <1>2 DEF WriteLevels, CreateMoves, LevelsInv
<1>3. ASSUME NEW a \in Assets, CheckParent(a) PROVE LevelsInv'
  BY <1>0, <1>3 DEF CheckParent, CreateMoves, LevelsInv
<1>4. ASSUME NEW a \in Assets, CreateAsset(a) PROVE LevelsInv'
  BY <1>0, <1>4 DEF CreateAsset, CreateMoves, LevelsInv
<1>5. ASSUME NEW a \in Assets, AssignAsset(a) PROVE LevelsInv'
  BY <1>0, <1>5 DEF AssignAsset, CreateMoves, LevelsInv
<1>6. ASSUME NEW a \in Assets, TrackAsset(a) PROVE LevelsInv'
  BY <1>0, <1>6 DEF TrackAsset, CreateMoves, LevelsInv
<1>7. ASSUME NEW a \in Assets, RelateAsset(a) PROVE LevelsInv'
  BY <1>0, <1>7 DEF RelateAsset, CreateMoves, LevelsInv
<1>8. ASSUME NEW a \in Assets, UndoRow(a) PROVE LevelsInv'
  BY <1>0, <1>8 DEF UndoRow, CreateMoves, LevelsInv
<1>9. ASSUME NEW a \in Assets, ListChildren(a) PROVE LevelsInv'
  BY <1>0, <1>9 DEF ListChildren, StartDelete, DeleteMoves, LevelsInv
<1>10. ASSUME NEW a \in Assets, CheckChildren(a) PROVE LevelsInv'
  BY <1>0, <1>10 DEF CheckChildren, DeleteMoves, LevelsInv
<1>11. ASSUME NEW x \in Entities, UndoEntity(x) PROVE LevelsInv'
  BY <1>0, <1>11 DEF UndoEntity, CreateMoves, LevelsInv
<1>12. ASSUME NEW x \in Entities, EraseEntity(x) PROVE LevelsInv'
  BY <1>0, <1>12 DEF EraseEntity, DeleteMoves, LevelsInv
<1>13. ASSUME Crash PROVE LevelsInv'
  BY <1>0, <1>13 DEF Crash, LevelsInv
<1>14. ASSUME UNCHANGED vars PROVE LevelsInv'
  BY <1>0, <1>14 DEF vars, LevelsInv
<1>. QED
  BY <1>1, <1>2, <1>3, <1>4, <1>5, <1>6, <1>7, <1>8, <1>9, <1>10, <1>11, <1>12, <1>13,
     <1>14, StartAssetLevels, CountAssetsLevels, EraseRowsLevels
     DEF Next

----------------------------------------------------------------------------
(* Assets in the two stores.                                               *)

LEMMA InitAssets == Init => AssetInv
BY DEF Init, AssetInv, AssetOK, Entities

\* An asset a step is not about keeps its place, or leaves with its customer.
LEMMA AssetFrame ==
  ASSUME NEW a \in Assets, AssetOK(a),
         UNCHANGED <<creating[a], deleting[a], request[a]>>,
         a \in rows' <=> a \in rows,
         a \in tb' => a \in tb, a \in owned' => a \in owned,
         faults \subseteq faults', overlapped \subseteq overlapped',
         a \in tb /\ a \notin tb' /\ a \in rows => Overlapped(Customer(a), a)
  PROVE  AssetOK(a)'
BY DEF AssetOK, Overlapped, Customer

\* What ThingsBoard deletes with x: x, or the assets of a customer on its way out.
LEMMA EraseEffect ==
  ASSUME TypeOK, LevelsInv, NEW x \in Entities, Unsettled(x), Erase(x),
         UNCHANGED <<request, rows, overlapped>>
  PROVE  /\ x \notin tb' /\ tb' \subseteq tb /\ owned' \subseteq owned
         /\ relations' \subseteq relations
         /\ \A a \in Assets : a # x /\ a \in tb /\ a \notin tb' /\ Claims(a) =>
              a \in owned /\ Overlapped(Customer(a), a) /\ Customer(a) = x
         /\ \A c \in Customers : c # x /\ c \in tb => c \in tb'
         /\ \A r \in relations : r \in relations' \/ r[1] \notin tb' \/ r[2] \notin tb'
<1>. DEFINE property == {a \in owned : request[a].customer = x}
<1>1. PICK also \in {{}, property} :
        LET S == {x} \cup also
        IN /\ tb' = tb \ S
           /\ owned' = owned \ (S \cup property)
           /\ relations' = {r \in relations : r[1] \notin S /\ r[2] \notin S}
  BY DEF Erase
<1>2. also \subseteq property
  BY <1>1
<1>3. ASSUME NEW a \in Assets, a # x, a \in tb, a \notin tb', Claims(a)
      PROVE  a \in owned /\ Overlapped(Customer(a), a) /\ Customer(a) = x
  <2>1. a \in owned /\ Customer(a) = x
    BY <1>1, <1>2, <1>3 DEF Customer
  <2>. QED
    BY <1>3, <2>1 DEF LevelsInv
<1>4. \A c \in Customers : c # x /\ c \in tb => c \in tb'
  BY <1>1, <1>2, EntitiesAssumption DEF TypeOK
<1>. QED
  BY <1>1, <1>2, <1>3, <1>4

LEMMA EraseFrame ==
  ASSUME TypeOK, LevelsInv, NEW x \in Entities, Unsettled(x), Erase(x),
         UNCHANGED <<request, rows, overlapped>>, faults \subseteq faults',
         NEW a \in Assets, a # x, AssetOK(a), UNCHANGED <<creating[a], deleting[a]>>
  PROVE  AssetOK(a)'
<1>1. /\ a \in tb' => a \in tb
      /\ a \in owned' => a \in owned
      /\ a \in tb /\ a \notin tb' /\ a \in rows => Overlapped(Customer(a), a)
  BY EraseEffect DEF Claims
<1>. QED
  BY <1>1, AssetFrame

LEMMA AssetStep == TypeOK /\ LevelsInv /\ AssetInv /\ [Next]_vars => AssetInv'
<1>. SUFFICES ASSUME TypeOK, LevelsInv, AssetInv, [Next]_vars, NEW b \in Assets
              PROVE  AssetOK(b)'
  BY DEF AssetInv
<1>0. AssetOK(b)
  BY DEF AssetInv
<1>. USE EntitiesAssumption, <1>0 DEF TypeOK, Entities, stores
<1>1. ASSUME NEW c \in Customers, CreateCustomer(c) PROVE AssetOK(b)'
  BY <1>1, AssetFrame DEF CreateCustomer, CreateMoves, Faulty
<1>2. ASSUME NEW c \in Customers, NEW L \in Hierarchies, WriteLevels(c, L) PROVE AssetOK(b)'
  BY <1>2, AssetFrame DEF WriteLevels, CreateMoves, KeepTb, Faulty
<1>3. ASSUME NEW c \in Customers, CountAssets(c) PROVE AssetOK(b)'
  BY <1>3, AssetFrame DEF CountAssets, StartDelete, DeleteMoves
<1>4. ASSUME NEW a \in Assets, CheckParent(a) PROVE AssetOK(b)'
  <2>1. CASE b = a
    BY <1>4, <2>1 DEF CheckParent, CreateMoves, KeepTb, Faulty, AssetOK, Overlapped, Customer
  <2>2. CASE b # a
    BY <1>4, <2>2, AssetFrame DEF CheckParent, CreateMoves, KeepTb, Faulty
  <2>. QED
    BY <2>1, <2>2
<1>5. ASSUME NEW a \in Assets, CreateAsset(a) PROVE AssetOK(b)'
  <2>1. CASE b = a
    <3>1. /\ b \notin rows' /\ b \notin tb /\ creating[b] = "checked"
          /\ UNCHANGED <<owned, deleting>> /\ deleting[b] = "no"
      BY <1>5, <2>1 DEF CreateAsset, CreateMoves, AssetOK
    <3>. QED
      BY <1>5, <2>1, <3>1 DEF CreateAsset, CreateMoves, Faulty, AssetOK
  <2>2. CASE b # a
    BY <1>5, <2>2, AssetFrame DEF CreateAsset, CreateMoves, KeepTb, Faulty
  <2>. QED
    BY <2>1, <2>2
<1>6. ASSUME NEW a \in Assets, AssignAsset(a) PROVE AssetOK(b)'
  <2>1. CASE b = a
    BY <1>6, <2>1 DEF AssignAsset, CreateMoves, KeepTb, Faulty, AssetOK, Overlapped, Customer
  <2>2. CASE b # a
    BY <1>6, <2>2, AssetFrame DEF AssignAsset, CreateMoves, KeepTb, Faulty
  <2>. QED
    BY <2>1, <2>2
<1>7. ASSUME NEW a \in Assets, TrackAsset(a) PROVE AssetOK(b)'
  <2>1. CASE b = a
    BY <1>7, <2>1 DEF TrackAsset, CreateMoves, KeepTb, Faulty, AssetOK, Overlapped, Customer
  <2>2. CASE b # a
    BY <1>7, <2>2, AssetFrame DEF TrackAsset, CreateMoves, KeepTb, Faulty
  <2>. QED
    BY <2>1, <2>2
<1>8. ASSUME NEW a \in Assets, RelateAsset(a) PROVE AssetOK(b)'
  <2>1. CASE b = a
    BY <1>8, <2>1 DEF RelateAsset, CreateMoves, KeepTb, Faulty, AssetOK, Overlapped, Customer
  <2>2. CASE b # a
    BY <1>8, <2>2, AssetFrame DEF RelateAsset, CreateMoves, KeepTb, Faulty
  <2>. QED
    BY <2>1, <2>2
<1>9. ASSUME NEW a \in Assets, UndoRow(a) PROVE AssetOK(b)'
  <2>1. CASE b = a
    BY <1>9, <2>1 DEF UndoRow, CreateMoves, KeepTb, Faulty, AssetOK, Overlapped, Customer
  <2>2. CASE b # a
    BY <1>9, <2>2, AssetFrame DEF UndoRow, CreateMoves, KeepTb, Faulty
  <2>. QED
    BY <2>1, <2>2
<1>10. ASSUME NEW a \in Assets, NEW r \in Request, StartAsset(a, r) PROVE AssetOK(b)'
  <2>1. CASE b = a
    BY <1>10, <2>1 DEF StartAsset, AssetOK, Overlapped, Customer
  <2>2. CASE b # a
    BY <1>10, <2>2, AssetFrame DEF StartAsset
  <2>. QED
    BY <2>1, <2>2
<1>11. ASSUME NEW a \in Assets, ListChildren(a) PROVE AssetOK(b)'
  <2>1. CASE b = a
    BY <1>11, <2>1 DEF ListChildren, StartDelete, DeleteMoves, AssetOK, Overlapped, Customer
  <2>2. CASE b # a
    BY <1>11, <2>2, AssetFrame DEF ListChildren, StartDelete, DeleteMoves
  <2>. QED
    BY <2>1, <2>2
<1>12. ASSUME NEW a \in Assets, CheckChildren(a) PROVE AssetOK(b)'
  <2>1. CASE b = a
    BY <1>12, <2>1 DEF CheckChildren, DeleteMoves, AssetOK, Overlapped, Customer
  <2>2. CASE b # a
    BY <1>12, <2>2, AssetFrame DEF CheckChildren, DeleteMoves
  <2>. QED
    BY <2>1, <2>2
<1>13. ASSUME NEW x \in Entities, EraseRows(x) PROVE AssetOK(b)'
  <2>1. CASE b = x
    BY <1>13, <2>1 DEF EraseRows, DeleteMoves, KeepTb, Faulty, AssetOK, Overlapped, Customer
  <2>2. CASE b # x
    BY <1>13, <2>2, AssetFrame DEF EraseRows, DeleteMoves, KeepTb, Faulty
  <2>. QED
    BY <2>1, <2>2
<1>14. ASSUME NEW x \in Entities, UndoEntity(x) PROVE AssetOK(b)'
  <2>1. CASE b = x
    BY <1>14, <2>1 DEF UndoEntity, CreateMoves, Erase, KeepTb, Faulty, AssetOK
  <2>2. CASE b # x /\ Erase(x)
    <3>1. Unsettled(x)
      BY <1>14 DEF UndoEntity, Unsettled, InFlight, Working
    <3>2. /\ creating'[b] = creating[b] /\ faults \subseteq faults'
          /\ UNCHANGED <<request, rows, overlapped, deleting>>
      BY <1>14, <2>2 DEF UndoEntity, CreateMoves, Faulty
    <3>. QED
      BY <2>2, <3>1, <3>2, EraseFrame
  <2>3. CASE b # x /\ KeepTb
    BY <1>14, <2>3, AssetFrame DEF UndoEntity, CreateMoves, KeepTb, Faulty
  <2>. QED
    BY <1>14, <2>1, <2>2, <2>3 DEF UndoEntity
<1>15. ASSUME NEW x \in Entities, EraseEntity(x) PROVE AssetOK(b)'
  <2>1. CASE b = x
    BY <1>15, <2>1
       DEF EraseEntity, DeleteMoves, Erase, KeepTb, Faulty, AssetOK, Overlapped, Customer
  <2>2. CASE b # x /\ Erase(x)
    <3>1. Unsettled(x)
      BY <1>15 DEF EraseEntity, Unsettled
    <3>2. /\ deleting'[b] = deleting[b] /\ faults \subseteq faults'
          /\ UNCHANGED <<request, rows, overlapped, creating>>
      BY <1>15, <2>2 DEF EraseEntity, DeleteMoves, Faulty
    <3>. QED
      BY <2>2, <3>1, <3>2, EraseFrame
  <2>3. CASE b # x /\ KeepTb
    BY <1>15, <2>3, AssetFrame DEF EraseEntity, DeleteMoves, KeepTb, Faulty
  <2>. QED
    BY <1>15, <2>1, <2>2, <2>3 DEF EraseEntity
<1>16. ASSUME Crash PROVE AssetOK(b)'
  <2>1. /\ UNCHANGED <<tb, rows, owned, request, overlapped>>
        /\ creating'[b] = IF InFlight(b) THEN "failed" ELSE creating[b]
        /\ deleting'[b] = "no" /\ faults \subseteq faults'
        /\ Unsettled(b) => b \in faults'
    BY <1>16 DEF Crash, Faulty
  <2>. QED
    BY <2>1 DEF AssetOK, Unsettled, InFlight, Working, Overlapped, Customer
<1>17. CASE UNCHANGED vars
  BY <1>17, AssetFrame DEF vars
<1>. QED
  BY <1>1, <1>2, <1>3, <1>4, <1>5, <1>6, <1>7, <1>8, <1>9, <1>10, <1>11, <1>12, <1>13,
     <1>14, <1>15, <1>16, <1>17 DEF Next

----------------------------------------------------------------------------
(* Customers in the two stores.                                            *)

LEMMA InitCustomers == Init => CustomerInv
BY DEF Init, CustomerInv, CustomerOK, HasLevels, Entities

LEMMA CustomerFrame ==
  ASSUME NEW c \in Customers, CustomerOK(c), UNCHANGED <<creating[c], deleting[c]>>,
         c \in tb' <=> c \in tb, HasLevels(c)' <=> HasLevels(c),
         faults \subseteq faults', overlapped \subseteq overlapped'
  PROVE  CustomerOK(c)'
BY DEF CustomerOK, Overlapped

LEMMA CustomerStep == TypeOK /\ LevelsInv /\ CustomerInv /\ [Next]_vars => CustomerInv'
<1>. SUFFICES ASSUME TypeOK, LevelsInv, CustomerInv, [Next]_vars, NEW d \in Customers
              PROVE  CustomerOK(d)'
  BY DEF CustomerInv
<1>0. CustomerOK(d) /\ d \in Entities /\ d \notin Assets
  BY EntitiesAssumption DEF CustomerInv, Entities
<1>. USE EntitiesAssumption, <1>0 DEF TypeOK, stores
<1>1. ASSUME NEW c \in Customers, CreateCustomer(c) PROVE CustomerOK(d)'
  <2>1. CASE d = c
    BY <1>1, <2>1, LevelsAssumption
       DEF CreateCustomer, CreateMoves, Faulty, CustomerOK, HasLevels, Overlapped
  <2>2. CASE d # c
    BY <1>1, <2>2, CustomerFrame DEF CreateCustomer, CreateMoves, Faulty, HasLevels, Entities
  <2>. QED
    BY <2>1, <2>2
<1>2. ASSUME NEW c \in Customers, NEW L \in Hierarchies, WriteLevels(c, L) PROVE CustomerOK(d)'
  <2>1. CASE d = c
    <3>1. /\ creating[d] = "created" /\ ~ HasLevels(d)
          /\ UNCHANGED <<tb, deleting, overlapped>> /\ faults \subseteq faults'
      BY <1>2, <2>1 DEF WriteLevels, CreateMoves, KeepTb, Faulty
    <3>2. CASE creating'[d] = "done"
      <4>1. PICK l \in L : l \in Levels
        BY LevelsAssumption
      <4>2. <<d, l>> \in levels'
        BY <1>2, <2>1, <3>2, <4>1 DEF WriteLevels, CreateMoves
      <4>3. HasLevels(d)'
        BY <4>1, <4>2 DEF HasLevels
      <4>. QED
        BY <3>1, <3>2, <4>3 DEF CustomerOK, Overlapped
    <3>3. CASE creating'[d] = "undo_entity" /\ levels' = levels
      BY <3>1, <3>3 DEF CustomerOK, HasLevels, Overlapped
    <3>4. CASE creating'[d] = "undo_entity" /\ d \in faults'
      BY <3>1, <3>4 DEF CustomerOK, Overlapped
    <3>. QED
      BY <1>2, <2>1, <3>2, <3>3, <3>4 DEF WriteLevels, CreateMoves, Faulty, Entities
  <2>2. CASE d # c
    BY <1>2, <2>2, CustomerFrame
       DEF WriteLevels, CreateMoves, KeepTb, Faulty, HasLevels, Entities
  <2>. QED
    BY <2>1, <2>2
<1>3. ASSUME NEW c \in Customers, CountAssets(c) PROVE CustomerOK(d)'
  <2>1. CASE d = c
    BY <1>3, <2>1, LevelsAssumption
       DEF CountAssets, StartDelete, DeleteMoves, InFlight, Working, Uses, CustomerOK,
           HasLevels, Overlapped
  <2>2. CASE d # c
    BY <1>3, <2>2, CustomerFrame
       DEF CountAssets, StartDelete, DeleteMoves, InFlight, Working, Uses, HasLevels,
           Entities
  <2>. QED
    BY <2>1, <2>2
<1>4. ASSUME NEW a \in Assets, CheckParent(a) PROVE CustomerOK(d)'
  BY <1>4, CustomerFrame DEF CheckParent, CreateMoves, KeepTb, HasLevels, Entities
<1>5. ASSUME NEW a \in Assets, CreateAsset(a) PROVE CustomerOK(d)'
  BY <1>5, CustomerFrame DEF CreateAsset, CreateMoves, KeepTb, Faulty, HasLevels, Entities
<1>6. ASSUME NEW a \in Assets, AssignAsset(a) PROVE CustomerOK(d)'
  BY <1>6, CustomerFrame DEF AssignAsset, CreateMoves, KeepTb, HasLevels, Entities
<1>7. ASSUME NEW a \in Assets, TrackAsset(a) PROVE CustomerOK(d)'
  BY <1>7, CustomerFrame DEF TrackAsset, CreateMoves, KeepTb, Faulty, HasLevels, Entities
<1>8. ASSUME NEW a \in Assets, RelateAsset(a) PROVE CustomerOK(d)'
  BY <1>8, CustomerFrame DEF RelateAsset, CreateMoves, KeepTb, HasLevels, Entities
<1>9. ASSUME NEW a \in Assets, UndoRow(a) PROVE CustomerOK(d)'
  BY <1>9, CustomerFrame DEF UndoRow, CreateMoves, KeepTb, Faulty, HasLevels, Entities
<1>10. ASSUME NEW a \in Assets, NEW r \in Request, StartAsset(a, r) PROVE CustomerOK(d)'
  BY <1>10, CustomerFrame DEF StartAsset, HasLevels, Entities
<1>11. ASSUME NEW a \in Assets, ListChildren(a) PROVE CustomerOK(d)'
  BY <1>11, CustomerFrame DEF ListChildren, StartDelete, DeleteMoves, HasLevels, Entities
<1>12. ASSUME NEW a \in Assets, CheckChildren(a) PROVE CustomerOK(d)'
  BY <1>12, CustomerFrame DEF CheckChildren, DeleteMoves, HasLevels, Entities
<1>13. ASSUME NEW x \in Entities, EraseRows(x) PROVE CustomerOK(d)'
  <2>1. CASE d = x
    BY <1>13, <2>1, LevelsAssumption
       DEF EraseRows, DeleteMoves, KeepTb, Faulty, CustomerOK, HasLevels, Overlapped
  <2>2. CASE d # x
    BY <1>13, <2>2, CustomerFrame
       DEF EraseRows, DeleteMoves, KeepTb, Faulty, HasLevels, Entities
  <2>. QED
    BY <2>1, <2>2
<1>14. ASSUME NEW x \in Entities, UndoEntity(x) PROVE CustomerOK(d)'
  <2>1. CASE d = x
    BY <1>14, <2>1
       DEF UndoEntity, CreateMoves, Erase, KeepTb, Faulty, CustomerOK, HasLevels, Overlapped
  <2>2. CASE d # x /\ Erase(x)
    <3>1. Unsettled(x) /\ UNCHANGED <<request, rows, overlapped, levels>>
      BY <1>14 DEF UndoEntity, CreateMoves, Unsettled, InFlight, Working
    <3>2. d \in tb' <=> d \in tb
      BY <2>2, <3>1, EraseEffect
    <3>. QED
      BY <1>14, <2>2, <3>1, <3>2, CustomerFrame DEF UndoEntity, CreateMoves, Faulty, HasLevels
  <2>3. CASE d # x /\ KeepTb
    BY <1>14, <2>3, CustomerFrame DEF UndoEntity, CreateMoves, KeepTb, Faulty, HasLevels
  <2>. QED
    BY <1>14, <2>1, <2>2, <2>3 DEF UndoEntity
<1>15. ASSUME NEW x \in Entities, EraseEntity(x) PROVE CustomerOK(d)'
  <2>1. CASE d = x
    BY <1>15, <2>1
       DEF EraseEntity, DeleteMoves, Erase, KeepTb, Faulty, CustomerOK, HasLevels,
           Overlapped
  <2>2. CASE d # x /\ Erase(x)
    <3>1. Unsettled(x) /\ UNCHANGED <<request, rows, overlapped, levels>>
      BY <1>15 DEF EraseEntity, DeleteMoves, Unsettled, InFlight, Working
    <3>2. d \in tb' <=> d \in tb
      BY <2>2, <3>1, EraseEffect
    <3>. QED
      BY <1>15, <2>2, <3>1, <3>2, CustomerFrame DEF EraseEntity, DeleteMoves, Faulty, HasLevels
  <2>3. CASE d # x /\ KeepTb
    BY <1>15, <2>3, CustomerFrame DEF EraseEntity, DeleteMoves, KeepTb, Faulty, HasLevels
  <2>. QED
    BY <1>15, <2>1, <2>2, <2>3 DEF EraseEntity
<1>16. ASSUME Crash PROVE CustomerOK(d)'
  <2>1. /\ UNCHANGED <<tb, levels, overlapped>>
        /\ creating'[d] = IF InFlight(d) THEN "failed" ELSE creating[d]
        /\ deleting'[d] = "no" /\ faults \subseteq faults'
        /\ Unsettled(d) => d \in faults'
    BY <1>16 DEF Crash, Faulty
  <2>. QED
    BY <2>1 DEF CustomerOK, Unsettled, InFlight, Working, Overlapped, HasLevels
<1>17. CASE UNCHANGED vars
  BY <1>17, CustomerFrame DEF vars, HasLevels
<1>. QED
  BY <1>1, <1>2, <1>3, <1>4, <1>5, <1>6, <1>7, <1>8, <1>9, <1>10, <1>11, <1>12, <1>13,
     <1>14, <1>15, <1>16, <1>17
     DEF Next

----------------------------------------------------------------------------
(* An asset under its parent.                                              *)

LEMMA InitTree == Init => TreeInv
BY DEF Init, TreeInv, PlacedOK, Reading, Standing, Entities

\* A step the placement of a survives: nothing it relies on goes without an excuse.
LEMMA TreeFrame ==
  ASSUME NEW a \in Assets, PlacedOK(a), UNCHANGED request[a],
         Reading(a)' => Reading(a),
         creating'[a] = "level" => creating[a] = "level",
         creating[a] = "level" => creating'[a] \in {"level", "failed"},
         creating'[a] = "done" => creating[a] = "done",
         \A p \in Assets : creating[p] # "idle" =>
           /\ request'[p] = request[p]
           /\ creating'[p] # "idle"
           /\ InFlight(p)' => InFlight(p),
         \A p \in Assets : p = Parent(a) /\ Reading(a)' =>
           /\ deleting'[p] # "no" => deleting[p] # "no" \/ <<p, a>> \in overlapped'
           /\ p \in rows => p \in rows' \/ <<p, a>> \in overlapped',
         overlapped \subseteq overlapped',
         Standing(a)' => Standing(a),
         Standing(a)' /\ Upright(a) => Upright(a)' \/ Excused(a)'
  PROVE  PlacedOK(a)'
<1>. DEFINE p == Parent(a)
<1>1. Parent(a)' = p /\ Customer(a)' = Customer(a) /\ request'[a] = request[a]
  BY DEF Parent, Customer
<1>2. Excused(a) => Excused(a)'
  BY <1>1 DEF Excused, Overlapped
<1>3. Standing(a)' => Upright(a)' \/ Excused(a)'
  BY <1>2 DEF PlacedOK
<1>4. (Reading(a) \/ creating[a] = "done")' => Reading(a) \/ creating[a] = "done"
  OBVIOUS
<1>5. ASSUME p \in Assets, Reading(a)' \/ creating'[a] = "done"
      PROVE  /\ creating'[p] # "idle"
             /\ request'[p] = request[p]
             /\ creating'[p] \in Working => InFlight(p)
  <2>1. creating[p] # "idle"
    BY <1>4, <1>5 DEF PlacedOK
  <2>. QED
    BY <1>5, <2>1 DEF InFlight
<1>6. ASSUME p \in Assets, Reading(a)'
      PROVE  deleting'[p] # "no" => <<p, a>> \in overlapped'
  BY <1>6 DEF PlacedOK, Overlapped
<1>7. ASSUME p \in Assets, Reading(a)', creating'[a] # "level"
      PROVE  p \in rows' \/ <<p, a>> \in overlapped'
  <2>1. creating[a] # "level"
    BY <1>7 DEF Reading
  <2>. QED
    BY <1>7, <2>1 DEF PlacedOK, Overlapped
<1>8. ASSUME p \in Assets, Reading(a)' \/ Standing(a)'
      PROVE  creating'[p] \in Working => <<p, a>> \in overlapped'
  BY <1>5, <1>8 DEF PlacedOK, Overlapped, Standing
<1>9. ASSUME p \in Assets, Reading(a)' \/ creating'[a] = "done", creating'[a] # "level"
      PROVE  /\ request'[p].customer = Customer(a)
             /\ request'[p].level + 1 = request'[a].level
  <2>1. creating[a] # "level"
    BY <1>9 DEF Reading
  <2>. QED
    BY <1>1, <1>4, <1>5, <1>9, <2>1 DEF PlacedOK
<1>10. ASSUME p \in Customers, Reading(a)' \/ creating'[a] = "done"
       PROVE  p = Customer(a) /\ request'[a].level = 0
  BY <1>1, <1>4, <1>10 DEF PlacedOK
<1>11. creating'[a] = "level" => p \in Assets
  BY DEF PlacedOK
<1>. QED
  BY <1>1, <1>3, <1>5, <1>6, <1>7, <1>8, <1>9, <1>10, <1>11 DEF PlacedOK, Overlapped, InFlight

\* An upright asset stays so while nothing is removed and no deletion moves.
LEMMA UprightGrows ==
  ASSUME NEW a \in Assets, Upright(a), UNCHANGED <<request[a], deleting, listed>>,
         tb \subseteq tb', relations \subseteq relations', rows \subseteq rows'
  PROVE  Upright(a)'
BY DEF Upright, Parent

LEMMA EraseUpright ==
  ASSUME TypeOK, LevelsInv, AssetInv, NEW x \in Entities, Unsettled(x), Erase(x),
         UNCHANGED <<request, rows, overlapped, listed>>,
         NEW a \in Assets, PlacedOK(a), Standing(a), a \in tb', Upright(a),
         Parent(a) = x /\ x \in Assets => Overlapped(x, a),
         Parent(a) # x => deleting'[Parent(a)] = deleting[Parent(a)]
  PROVE  Upright(a)' \/ Excused(a)'
<1>. DEFINE p == Parent(a)
<1>1. /\ Parent(a)' = p /\ Customer(a)' = Customer(a) /\ Claims(a)
      /\ p \in tb /\ <<p, a>> \in relations /\ p \in Entities
  BY DEF Parent, Customer, Claims, Standing, Upright, TypeOK
<1>2. CASE Customer(a) = x
  BY <1>1, <1>2 DEF LevelsInv, Excused, Overlapped
<1>3. CASE p = x /\ x \in Assets
  BY <1>1, <1>3 DEF Excused, Overlapped
<1>4. CASE p = x /\ x \in Customers
  BY <1>2, <1>4 DEF PlacedOK, Standing
<1>5. CASE p # x /\ Customer(a) # x
  <2>1. p \in tb'
    <3>1. CASE p \in Customers
      BY <1>1, <1>5, <3>1, EraseEffect
    <3>2. CASE p \in Assets
      <4>1. Claims(p) /\ Customer(p) = Customer(a)
        BY <3>2 DEF Upright, Claims, PlacedOK, Standing, Customer
      <4>. QED
        BY <1>1, <1>5, <3>2, <4>1, EraseEffect
    <3>. QED
      BY <1>1, <3>1, <3>2 DEF Entities
  <2>2. <<p, a>> \in relations'
    BY <1>1, <2>1, EraseEffect
  <2>. QED
    BY <1>1, <1>5, <2>1, <2>2 DEF Upright
<1>. QED
  BY <1>1, <1>2, <1>3, <1>4, <1>5 DEF Entities

LEMMA StartAssetTree ==
  ASSUME TypeOK, AssetInv, TreeInv, NEW a \in Assets, NEW r \in Request, StartAsset(a, r),
         NEW b \in Assets
  PROVE  PlacedOK(b)'
<1>. USE EntitiesAssumption DEF TypeOK, Entities, stores
<1>0. PlacedOK(b) /\ creating[a] = "idle" /\ a \notin tb \cup rows
  BY DEF TreeInv, StartAsset, AssetInv, AssetOK
<1>1. CASE b = a
  <2>1. /\ request'[a] = r /\ r.parent \in Entities /\ r.customer \in Customers
        /\ UNCHANGED <<tb, rows, deleting>> /\ overlapped \subseteq overlapped'
        /\ \A x \in Entities : x # a => creating'[x] = creating[x]
        /\ \A x \in Assets : x # a => request'[x] = request[x]
    BY DEF StartAsset, Request
  <2>2. CASE r.parent = r.customer
    <3>1. creating'[a] = "checked" /\ r.level = 0 /\ r.parent \in Customers
      BY <2>1, <2>2 DEF StartAsset
    <3>. QED
      BY <1>1, <2>1, <2>2, <3>1 DEF PlacedOK, Parent, Customer, Reading, Standing
  <2>3. CASE r.parent # r.customer
    <3>1. /\ creating'[a] = "level" /\ r.parent \in Assets /\ r.parent \in tb \cup rows
          /\ Unsettled(r.parent) => <<r.parent, a>> \in overlapped'
      BY <2>1, <2>3 DEF StartAsset
    <3>2. r.parent # a /\ creating[r.parent] # "idle"
      BY <1>0, <3>1 DEF AssetInv, AssetOK
    <3>. QED
      BY <1>1, <2>1, <2>3, <3>1, <3>2
         DEF PlacedOK, Parent, Customer, Reading, Standing, Unsettled, InFlight, Overlapped
  <2>. QED
    BY <2>2, <2>3
<1>2. CASE b # a
  <2>1. /\ creating'[b] = creating[b] /\ request'[b] = request[b]
        /\ \A p \in Assets : creating[p] # "idle" =>
             request'[p] = request[p] /\ creating'[p] = creating[p]
        /\ UNCHANGED <<tb, rows, relations, deleting,
           listed>> /\ overlapped \subseteq overlapped'
    BY <1>0, <1>2 DEF StartAsset
  <2>2. Standing(b)' => Standing(b)
    BY <2>1 DEF Standing
  <2>3. Upright(b) => Upright(b)'
    BY <2>1, UprightGrows
  <2>. QED
    BY <1>0, <2>1, <2>2, <2>3, TreeFrame DEF Reading, InFlight
<1>. QED
  BY <1>1, <1>2

LEMMA RelateAssetTree ==
  ASSUME TypeOK, TreeInv, NEW a \in Assets, RelateAsset(a), NEW b \in Assets
  PROVE  PlacedOK(b)'
<1>. USE EntitiesAssumption DEF TypeOK, Entities
<1>0. /\ PlacedOK(b) /\ creating[a] = "tracked" /\ relations \subseteq relations'
      /\ UNCHANGED <<tb, rows, request, deleting, listed, overlapped>>
      /\ creating' = [creating EXCEPT ![a] = creating'[a]] /\ creating'[a] \in {"done",
         "undo_row"}
  BY DEF TreeInv, RelateAsset, CreateMoves
<1>1. CASE b = a /\ creating'[a] = "done"
  <2>. DEFINE p == Parent(a)
  <2>1. /\ p \in tb /\ <<p, a>> \in relations' /\ p \in Entities
    BY <1>0, <1>1 DEF RelateAsset, CreateMoves, Parent
  <2>2. PlacedOK(a) /\ Reading(a)
    BY <1>0, <1>1 DEF Reading
  <2>3. ASSUME p \in Assets
        PROVE  /\ creating'[p] # "idle"
               /\ creating'[p] \in Working => <<p, a>> \in overlapped
               /\ p \in rows \/ <<p, a>> \in overlapped
               /\ deleting[p] = "no" \/ <<p, a>> \in overlapped
               /\ request[p].customer = Customer(a) /\ request[p].level + 1 = request[a].level
    BY <1>0, <2>2, <2>3 DEF PlacedOK, InFlight, Overlapped, Working
  <2>4. p \in Customers => p = Customer(a) /\ request[a].level = 0
    BY <2>2 DEF PlacedOK
  <2>5. Parent(a)' = p /\ Customer(a)' = Customer(a) /\ request'[a] = request[a]
    BY <1>0 DEF Parent, Customer
  <2>6. Upright(a)' \/ Excused(a)'
    BY <1>0, <2>1, <2>3, <2>5 DEF Upright, Excused, Overlapped
  <2>. QED
    BY <1>0, <1>1, <2>1, <2>3, <2>4, <2>5, <2>6
       DEF PlacedOK, Reading, InFlight, Overlapped
<1>2. CASE b # a \/ creating'[a] = "undo_row"
  <2>1. /\ \A x \in Assets : /\ creating[x] # "idle" => creating'[x] # "idle"
                             /\ creating'[x] \in Working => creating[x] \in Working
        /\ creating'[b] = creating[b] \/ (creating'[b] = "undo_row" /\ creating[b] = "tracked")
    BY <1>0, <1>2 DEF Working
  <2>2. Standing(b)' => Standing(b)
    BY <1>0, <2>1 DEF Standing
  <2>3. Upright(b) => Upright(b)'
    BY <1>0, UprightGrows
  <2>. QED
    BY <1>0, <2>1, <2>2, <2>3, TreeFrame DEF Reading, InFlight
<1>. QED
  BY <1>0, <1>1, <1>2

\* The deletion and the rollback of x: the same call, whatever becomes of the request.
LEMMA EraseTree ==
  ASSUME TypeOK, LevelsInv, AssetInv, TreeInv, NEW x \in Entities, Erase(x), NEW b \in Assets,
         UNCHANGED <<request, rows, overlapped, listed>>,
         \/ /\ UNCHANGED deleting /\ InFlight(x)
            /\ creating' = [creating EXCEPT ![x] = "failed"]
         \/ /\ UNCHANGED creating /\ deleting[x] = "checked"
            /\ deleting' = [deleting EXCEPT ![x] = deleting'[x]]
  PROVE  PlacedOK(b)'
<1>. USE EntitiesAssumption DEF TypeOK, Entities
<1>0. PlacedOK(b) /\ Unsettled(x) /\ request'[b] = request[b]
  BY DEF TreeInv, Unsettled
<1>1. /\ \A q \in Assets : /\ creating[q] # "idle" => creating'[q] # "idle"
                           /\ creating'[q] \in Working => creating[q] \in Working
      /\ \A q \in Assets : deleting'[q] # "no" => deleting[q] # "no"
      /\ creating'[b] = creating[b] \/ creating'[b] = "failed"
  BY DEF InFlight, Working
<1>2. Standing(b)' => Standing(b)
  BY <1>0, <1>1, EraseEffect DEF Standing
<1>3. ASSUME Standing(b)', Upright(b)
      PROVE  Upright(b)' \/ Excused(b)'
  <2>1. Standing(b) /\ b \in tb'
    BY <1>2, <1>3 DEF Standing
  <2>2. Parent(b) = x /\ x \in Assets => Overlapped(x, b)
    BY <1>0, <1>3, <2>1 DEF PlacedOK, Upright
  <2>3. Parent(b) # x => deleting'[Parent(b)] = deleting[Parent(b)]
    BY <1>3 DEF Upright
  <2>. QED
    BY <1>0, <1>3, <2>1, <2>2, <2>3, EraseUpright
<1>. QED
  BY <1>0, <1>1, <1>2, <1>3, TreeFrame DEF Reading, InFlight

LEMMA TreeStep ==
  TypeOK /\ LevelsInv /\ AssetInv /\ TreeInv /\ [Next]_vars => TreeInv'
<1>. SUFFICES ASSUME TypeOK, LevelsInv, AssetInv, TreeInv, [Next]_vars, NEW b \in Assets
              PROVE  PlacedOK(b)'
  BY DEF TreeInv
<1>0. PlacedOK(b) /\ AssetOK(b) /\ b \in Entities
  BY DEF TreeInv, AssetInv, Entities
<1>. USE EntitiesAssumption DEF TypeOK, Entities, stores
\* Steps that leave requests, relations and deletions alone, and remove nothing.
<1>. DEFINE Plain ==
       /\ UNCHANGED <<request, deleting, listed, overlapped>>
       /\ tb \subseteq tb' /\ relations \subseteq relations' /\ rows \subseteq rows'
       /\ \A q \in Assets : /\ creating[q] # "idle" => creating'[q] # "idle"
                            /\ creating'[q] \in Working => creating[q] \in Working
<1>1. ASSUME Plain, Reading(b)' => Reading(b), Standing(b)' => Standing(b),
             creating'[b] = "level" => creating[b] = "level",
             creating[b] = "level" => creating'[b] \in {"level", "failed"},
             creating'[b] = "done" => creating[b] = "done"
      PROVE  PlacedOK(b)'
  <2>1. Upright(b) => Upright(b)'
    BY <1>1, UprightGrows
  <2>. QED
    BY <1>0, <1>1, <2>1, TreeFrame DEF InFlight
<1>2. ASSUME NEW c \in Customers, CreateCustomer(c) PROVE PlacedOK(b)'
  BY <1>1, <1>2 DEF CreateCustomer, CreateMoves, Reading, Standing
<1>3. ASSUME NEW c \in Customers, NEW L \in Hierarchies, WriteLevels(c, L) PROVE PlacedOK(b)'
  BY <1>1, <1>3 DEF WriteLevels, CreateMoves, KeepTb, Reading, Standing
<1>4. ASSUME NEW c \in Customers, CountAssets(c) PROVE PlacedOK(b)'
  <2>1. /\ UNCHANGED <<stores, request, creating, listed>> /\ overlapped \subseteq overlapped'
        /\ \A q \in Assets : deleting'[q] = deleting[q]
    BY <1>4 DEF CountAssets, StartDelete, DeleteMoves
  <2>2. Upright(b) => Upright(b)'
    BY <2>1 DEF Upright, Parent
  <2>. QED
    BY <1>0, <2>1, <2>2, TreeFrame DEF Reading, Standing, InFlight
<1>5. ASSUME NEW a \in Assets, NEW r \in Request, StartAsset(a, r) PROVE PlacedOK(b)'
  BY <1>5, StartAssetTree
<1>6. ASSUME NEW a \in Assets, CheckParent(a) PROVE PlacedOK(b)'
  <2>1. CASE b = a
    <3>1. /\ UNCHANGED <<stores, request, deleting, listed, overlapped>>
          /\ creating[a] = "level"
          /\ creating' = [creating EXCEPT ![a] = IF ParentFits(a) THEN "checked" ELSE "failed"]
      BY <1>6 DEF CheckParent, CreateMoves
    <3>2. CASE ~ ParentFits(a)
      BY <2>1, <3>1, <3>2 DEF PlacedOK, Reading, Standing
    <3>3. CASE ParentFits(a)
      <4>1. /\ creating'[a] = "checked" /\ Parent(a) \in Assets /\ Parent(a) \in rows
            /\ request[Parent(a)].customer = Customer(a)
            /\ request[Parent(a)].level + 1 = request[a].level
        BY <1>0, <2>1, <3>1, <3>3 DEF ParentFits, PlacedOK, Parent, Customer
      <4>2. /\ creating[Parent(a)] # "idle"
            /\ creating[Parent(a)] \in Working => Overlapped(Parent(a), a)
            /\ deleting[Parent(a)] # "no" => Overlapped(Parent(a), a)
        BY <1>0, <2>1, <3>1, <4>1 DEF PlacedOK, Reading, InFlight
      <4>3. Parent(a)' = Parent(a) /\ Customer(a)' = Customer(a)
        BY <3>1 DEF Parent, Customer
      <4>4. /\ creating'[Parent(a)] # "idle"
            /\ creating'[Parent(a)] \in Working => creating[Parent(a)] \in Working
        BY <3>1, <4>1, <4>2 DEF Working
      <4>. QED
        BY <2>1, <3>1, <4>1, <4>2, <4>3, <4>4
           DEF PlacedOK, Reading, Standing, InFlight, Overlapped
    <3>. QED
      BY <3>2, <3>3
  <2>2. CASE b # a
    BY <1>1, <1>6, <2>2 DEF CheckParent, CreateMoves, Reading, Standing, Working
  <2>. QED
    BY <2>1, <2>2
<1>7. ASSUME NEW a \in Assets, CreateAsset(a) PROVE PlacedOK(b)'
  <2>1. Plain /\ (creating'[b] = creating[b] \/ creating[b] = "checked")
    BY <1>7 DEF CreateAsset, CreateMoves, Working
  <2>2. creating'[b] = creating[b] \/ creating'[b] \in {"created", "failed"}
    BY <1>7 DEF CreateAsset, CreateMoves
  <2>3. Standing(b)' => Standing(b)
    BY <1>0, <1>7, <2>1, <2>2 DEF Standing, AssetOK, CreateAsset
  <2>. QED
    BY <1>1, <2>1, <2>2, <2>3 DEF Reading
<1>8. ASSUME NEW a \in Assets, AssignAsset(a) PROVE PlacedOK(b)'
  BY <1>1, <1>8 DEF AssignAsset, CreateMoves, Reading, Standing, Working
<1>9. ASSUME NEW a \in Assets, TrackAsset(a) PROVE PlacedOK(b)'
  BY <1>1, <1>9 DEF TrackAsset, CreateMoves, KeepTb, Reading, Standing, Working
<1>10. ASSUME NEW a \in Assets, RelateAsset(a) PROVE PlacedOK(b)'
  BY <1>10, RelateAssetTree
<1>11. ASSUME NEW a \in Assets, UndoRow(a) PROVE PlacedOK(b)'
  <2>1. /\ UNCHANGED <<tb, relations, request, deleting, listed, overlapped>>
        /\ rows' \in {rows, rows \ {a}} /\ creating[a] = "undo_row"
        /\ creating' = [creating EXCEPT ![a] = creating'[a]]
        /\ creating'[a] \in {"undo_entity", "failed"}
    BY <1>11 DEF UndoRow, CreateMoves, KeepTb
  <2>2. Reading(b) \/ Standing(b) => Parent(b) # a \/ Overlapped(a, b)
    BY <1>0, <2>1 DEF PlacedOK, InFlight, Working
  <2>3. Standing(b)' => Standing(b)
    BY <2>1 DEF Standing
  <2>4. Reading(b)' => Reading(b)
    BY <2>1 DEF Reading
  <2>5. ASSUME Standing(b)', Upright(b)
        PROVE  Upright(b)' \/ Excused(b)'
    BY <2>1, <2>2, <2>3, <2>5 DEF Upright, Excused, Overlapped, Parent
  <2>. QED
    BY <1>0, <2>1, <2>2, <2>3, <2>4, <2>5, TreeFrame DEF InFlight, Working, Overlapped
<1>12. ASSUME NEW a \in Assets, ListChildren(a) PROVE PlacedOK(b)'
  <2>1. /\ UNCHANGED <<stores, request, creating>> /\ overlapped \subseteq overlapped'
        /\ deleting' = [deleting EXCEPT ![a] = "listed"]
        /\ listed' = [listed EXCEPT ![a] = {x \in Assets : <<a, x>> \in relations}]
    BY <1>12 DEF ListChildren, StartDelete, DeleteMoves
  <2>2. Reading(b) /\ Parent(b) = a => <<a, b>> \in overlapped'
    BY <1>0, <1>12 DEF ListChildren, StartDelete, Reading, InFlight, Working, Uses, Parent
  <2>3. Upright(b) => Upright(b)'
    BY <2>1 DEF Upright, Parent
  <2>. QED
    BY <1>0, <2>1, <2>2, <2>3, TreeFrame DEF Reading, Standing, InFlight
<1>13. ASSUME NEW a \in Assets, CheckChildren(a) PROVE PlacedOK(b)'
  <2>1. /\ UNCHANGED <<stores, request, creating, overlapped>>
        /\ deleting[a] = "listed"
        /\ deleting' = [deleting EXCEPT ![a] = IF listed[a] \cap tb = {} THEN "checked" ELSE "no"]
        /\ listed' = [listed EXCEPT ![a] = {}]
    BY <1>13 DEF CheckChildren, DeleteMoves
  <2>2. ASSUME Standing(b), Upright(b) PROVE Upright(b)'
    <3>1. CASE Parent(b) = a
      <4>1. b \in listed[a] \cap tb
        BY <2>1, <2>2, <3>1 DEF Standing, Upright
      <4>. QED
        BY <2>1, <2>2, <3>1, <4>1 DEF Upright, Parent
    <3>2. CASE Parent(b) # a
      BY <2>1, <2>2, <3>2 DEF Upright, Parent
    <3>. QED
      BY <3>1, <3>2
  <2>. QED
    BY <1>0, <2>1, <2>2, TreeFrame DEF Reading, Standing, InFlight
<1>14. ASSUME NEW x \in Entities, UndoEntity(x) PROVE PlacedOK(b)'
  <2>1. CASE Erase(x)
    BY <1>14, <2>1, EraseTree DEF UndoEntity, CreateMoves, InFlight, Working
  <2>2. CASE KeepTb
    BY <1>1, <1>14, <2>2 DEF UndoEntity, CreateMoves, KeepTb, Reading, Standing, Working
  <2>. QED
    BY <1>14, <2>1, <2>2 DEF UndoEntity
<1>15. ASSUME NEW x \in Entities, EraseEntity(x) PROVE PlacedOK(b)'
  <2>1. /\ UNCHANGED <<request, creating, rows, listed, overlapped>> /\ deleting[x] = "checked"
        /\ deleting' = [deleting EXCEPT ![x] = deleting'[x]]
    BY <1>15 DEF EraseEntity, DeleteMoves
  <2>2. CASE Erase(x)
    BY <2>1, <2>2, EraseTree
  <2>3. CASE KeepTb
    <3>1. UNCHANGED <<tb, relations>>
      BY <2>3 DEF KeepTb
    <3>2. Upright(b) => Upright(b)'
      BY <2>1, <3>1 DEF Upright, Parent
    <3>. QED
      BY <1>0, <2>1, <3>1, <3>2, TreeFrame DEF Reading, Standing, InFlight
  <2>. QED
    BY <1>15, <2>2, <2>3 DEF EraseEntity
<1>16. ASSUME NEW x \in Entities, EraseRows(x) PROVE PlacedOK(b)'
  <2>1. /\ UNCHANGED <<tb, relations, request, creating, listed, overlapped>>
        /\ deleting[x] = "erased" /\ deleting' = [deleting EXCEPT ![x] = "no"]
        /\ rows' \in {rows, rows \ {x}}
    BY <1>16 DEF EraseRows, DeleteMoves, KeepTb
  <2>2. Reading(b) /\ Parent(b) = x /\ x \in Assets => Overlapped(x, b)
    BY <1>0, <2>1 DEF PlacedOK
  <2>3. Upright(b) => Upright(b)'
    BY <2>1 DEF Upright, Parent
  <2>. QED
    BY <1>0, <2>1, <2>2, <2>3, TreeFrame DEF Reading, Standing, InFlight, Overlapped
<1>17. ASSUME Crash PROVE PlacedOK(b)'
  <2>1. /\ UNCHANGED <<stores, request, overlapped>>
        /\ creating' = [y \in Entities |-> IF InFlight(y) THEN "failed" ELSE creating[y]]
        /\ deleting' = [y \in Entities |-> "no"]
    BY <1>17 DEF Crash
  <2>2. /\ \A q \in Assets : /\ creating[q] # "idle" => creating'[q] # "idle"
                             /\ creating'[q] \in Working => creating[q] \in Working
        /\ creating'[b] = creating[b] \/ creating'[b] = "failed"
    BY <2>1 DEF InFlight, Working
  <2>3. Upright(b) => Upright(b)'
    BY <2>1 DEF Upright, Parent
  <2>. QED
    BY <1>0, <2>1, <2>2, <2>3, TreeFrame DEF Reading, Standing, InFlight
<1>18. CASE UNCHANGED vars
  BY <1>1, <1>18 DEF vars, Reading, Standing
<1>. QED
  BY <1>2, <1>3, <1>4, <1>5, <1>6, <1>7, <1>8, <1>9, <1>10, <1>11, <1>12, <1>13, <1>14,
     <1>15, <1>16, <1>17, <1>18 DEF Next

----------------------------------------------------------------------------

HierarchyInv == TypeOK /\ LevelsInv /\ AssetInv /\ CustomerInv /\ TreeInv

LEMMA Inductive == Spec => []HierarchyInv
<1>1. Init => HierarchyInv
  BY InitType, InitLevels, InitAssets, InitCustomers, InitTree DEF HierarchyInv
<1>2. HierarchyInv /\ [Next]_vars => HierarchyInv'
  BY TypeStep, LevelsStep, AssetStep, CustomerStep, TreeStep DEF HierarchyInv
<1>. QED
  BY <1>1, <1>2, PTL DEF Spec

\* delete() of a customer, whose check and writes are three calls, takes the level
\* of a tracked asset only if that asset was being created meanwhile.
THEOREM LevelsAreKept == Spec => []RowLosesLevelOnlyByOverlap
<1>1. HierarchyInv => RowLosesLevelOnlyByOverlap
  BY
     DEF HierarchyInv, LevelsInv, RowLosesLevelOnlyByOverlap, Claims, Overlapped, Customer,
         TypeOK
<1>. QED
  BY <1>1, Inductive, PTL

\* The compensations of both create() and the two steps of both delete() leave an
\* entity in both stores or in neither, if none of them was cut short.
THEOREM StoresStayTogether == Spec => []StoresAgree
<1>1. ASSUME HierarchyInv, NEW a \in Assets, AtRest(a)
      PROVE  (a \in tb <=> a \in rows) \/ <<request[a].customer, a>> \in overlapped
  BY <1>1 DEF HierarchyInv, TypeOK, AssetInv, AssetOK, AtRest, InFlight, Working, Entities,
     Overlapped, Customer
<1>2. ASSUME HierarchyInv, NEW c \in Customers, AtRest(c)
      PROVE  (c \in tb <=> HasLevels(c)) \/ <<c, c>> \in overlapped
  BY <1>2 DEF HierarchyInv, TypeOK, CustomerInv, CustomerOK, AtRest, InFlight, Working,
     Entities, Overlapped
<1>3. HierarchyInv => StoresAgree
  BY <1>1, <1>2 DEF StoresAgree
<1>. QED
  BY <1>3, Inductive, PTL

\* The checks of delete() and of create() keep every asset under its parent, unless
\* the parent or the customer was leaving while the asset was created.
THEOREM TreeStaysIntact == Spec => []TreeIntact
<1>1. ASSUME HierarchyInv, NEW a \in Assets, creating[a] = "done", a \in tb \cap rows,
             NEW p, p = request[a].parent
      PROVE  \/ /\ p \in tb
                /\ <<p, a>> \in relations
                /\ p \in Customers => request[a].level = 0
                /\ p \in Assets => ParentFits(a)
             \/ <<p, a>> \in overlapped
             \/ <<request[a].customer, a>> \in overlapped
  <2>1. PlacedOK(a) /\ Standing(a)
    BY <1>1 DEF HierarchyInv, TreeInv, Standing
  <2>2. Upright(a) \/ Excused(a)
    BY <2>1 DEF PlacedOK
  <2>. QED
    BY <1>1, <2>1, <2>2
       DEF PlacedOK, Upright, Excused, Overlapped, Parent, Customer, ParentFits
<1>2. HierarchyInv => TreeIntact
  BY <1>1 DEF TreeIntact
<1>. QED
  BY <1>2, Inductive, PTL

=============================================================================
