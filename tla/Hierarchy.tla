----------------------------- MODULE Hierarchy -----------------------------
(***************************************************************************)
(* backend/src/customers/customers.service.ts, assets/assets.service.ts:   *)
(* customers and their asset trees, kept in two stores with no common      *)
(* transaction.  ThingsBoard holds the entities and their Contains         *)
(* relations; Postgres holds the levels of each customer's hierarchy and   *)
(* one row per asset with its customer and level.                          *)
(*                                                                         *)
(* Every await of a handler is a point where other requests run, the       *)
(* process may stop, and the call may fail, before or after it took effect.*)
(* ThingsBoard (external) refuses to assign or relate an entity it does    *)
(* not have, drops the relations of a deleted entity, and on deleting a    *)
(* customer keeps or deletes the assets it owns.  Devices, names and the   *)
(* scope check (Forbidden before anything is read) are left out.           *)
(***************************************************************************)
EXTENDS Naturals, FiniteSets

CONSTANTS
  Customers,
  Assets,
  MaxLevel,    \* bound: highest levelIndex of a hierarchy
  Hierarchies, \* the level sets customers are created with
  MaxFaults,   \* bound: entities whose repair is cut short
  NoRequest    \* the request of an asset nobody has asked to create

Entities == Customers \cup Assets

Levels == 0 .. MaxLevel

Request == [customer : Customers, parent : Entities, level : Levels]

ASSUME EntitiesAssumption == Customers \cap Assets = {}
ASSUME LevelsAssumption == MaxLevel \in Nat /\ Hierarchies \subseteq (SUBSET Levels) \ {{}}
ASSUME FaultsAssumption == MaxFaults \in Nat
ASSUME NoRequestAssumption == NoRequest \notin Request

VARIABLES
  tb,         \* entities ThingsBoard has
  owned,      \* assets whose owner in ThingsBoard is the customer they were created for
  relations,  \* Contains relations, <<parent, child>>
  levels,     \* rows of CustomerHierarchyLevels: <<customerId, levelIndex>>
  rows,       \* assets with a row in AssetHierarchyAssignment
  request,    \* the DTO an asset is created from
  creating,   \* where the create() of an entity stands
  deleting,   \* where the delete() of an entity stands: one at a time per entity
  listed,     \* children the delete() of an asset read from its relations
  faults,     \* history: entities whose repair was cut short by a failure or a crash
  overlapped  \* history: <<e, x>>, e was being deleted while x, which uses e, was created

vars == <<tb, owned, relations, levels, rows, request, creating, deleting,
          listed, faults, overlapped>>

stores == <<tb, owned, relations, levels, rows>>

Working == {"level", "checked", "created", "assigned", "tracked", "undo_row", "undo_entity"}

InFlight(x) == creating[x] \in Working

HasLevels(c) == \E l \in Levels : <<c, l>> \in levels

TypeOK ==
  /\ tb \in SUBSET Entities
  /\ owned \in SUBSET Assets
  /\ relations \in SUBSET (Entities \X Assets)
  /\ levels \in SUBSET (Customers \X Levels)
  /\ rows \in SUBSET Assets
  /\ request \in [Assets -> Request \cup {NoRequest}]
  /\ creating \in [Entities -> Working \cup {"idle", "done", "failed"}]
  /\ deleting \in [Entities -> {"no", "listed", "checked", "erased"}]
  /\ listed \in [Assets -> SUBSET Assets]
  /\ faults \in SUBSET Entities
  /\ overlapped \in SUBSET (Entities \X Entities)
  /\ \A a \in Assets : creating[a] # "idle" => request[a] \in Request
  /\ \A c \in Customers : HasLevels(c) => creating[c] \notin {"idle", "created"}

Init ==
  /\ tb = {}
  /\ owned = {}
  /\ relations = {}
  /\ levels = {}
  /\ rows = {}
  /\ request = [a \in Assets |-> NoRequest]
  /\ creating = [x \in Entities |-> "idle"]
  /\ deleting = [x \in Entities |-> "no"]
  /\ listed = [a \in Assets |-> {}]
  /\ faults = {}
  /\ overlapped = {}

----------------------------------------------------------------------------
(* Steps of a handler.                                                     *)

\* What a creation reads or refers to.
Uses(x) ==
  IF x \in Customers THEN {x} ELSE {request[x].customer, request[x].parent}

\* A creation in progress may be rolled back, and takes x with it.
Unsettled(e) == deleting[e] # "no" \/ InFlight(e)

\* The creation of x goes on after its next await.
CreateMoves(x, to) ==
  /\ creating' = [creating EXCEPT ![x] = to]
  /\ UNCHANGED <<request, deleting, listed, overlapped>>

DeleteMoves(e, to) ==
  /\ deleting' = [deleting EXCEPT ![e] = to]
  /\ UNCHANGED <<request, creating>>

Faulty(S) ==
  /\ faults' = faults \cup S
  /\ Cardinality(faults') <= MaxFaults

\* ThingsBoard deletes e, its relations, and with a customer perhaps its assets.
Erase(e) ==
  LET property == {a \in owned : request[a].customer = e}
  IN \E also \in {{}, property} :
       LET S == {e} \cup also
       IN /\ tb' = tb \ S
          /\ owned' = owned \ (S \cup property)
          /\ relations' = {r \in relations : r[1] \notin S /\ r[2] \notin S}

KeepTb == UNCHANGED <<tb, owned, relations>>

----------------------------------------------------------------------------
(* CustomersService.create()                                               *)

\* The POST, or its answer is lost and the customer stays unknown to the caller.
CreateCustomer(c) ==
  /\ creating[c] = "idle"
  /\ tb' = tb \cup {c}
  /\ \/ CreateMoves(c, "created") /\ UNCHANGED faults
     \/ CreateMoves(c, "failed") /\ Faulty({c})
  /\ UNCHANGED <<owned, relations, levels, rows>>

WriteLevels_retried(c, L) ==
  /\ creating[c] = "created"
  /\ \/ levels' = levels \cup ({c} \X L) /\ CreateMoves(c, "done") /\ UNCHANGED faults
     \/ levels' = levels \cup ({c} \X L) /\ CreateMoves(c, "created") /\ Faulty({c})
  /\ KeepTb
  /\ UNCHANGED rows

\* createMany(): all the rows of the DTO or none; a failed call may have written them.
WriteLevels(c, L) ==
  /\ creating[c] = "created"
  /\ \/ /\ levels' = levels \cup ({c} \X L)
        /\ \/ CreateMoves(c, "done") /\ UNCHANGED faults
           \/ CreateMoves(c, "undo_entity") /\ Faulty({c})
     \/ CreateMoves(c, "undo_entity") /\ UNCHANGED <<levels, faults>>
  /\ KeepTb
  /\ UNCHANGED rows

\* The compensating deleteCustomer() or deleteAsset() ends the request either way.
UndoEntity(x) ==
  /\ creating[x] = "undo_entity"
  /\ CreateMoves(x, "failed")
  /\ \/ Erase(x) /\ UNCHANGED faults
     \/ KeepTb /\ Faulty({x})
  /\ UNCHANGED <<levels, rows>>

----------------------------------------------------------------------------
(* AssetsService.create()                                                  *)

\* The level of the request exists; a customer is the parent of level 0 only, an
\* asset one whose id the client can have read somewhere.
StartAsset(a, r) ==
  /\ creating[a] = "idle"
  /\ <<r.customer, r.level>> \in levels
  /\ r.parent \in (tb \cup rows) \cap Assets \/ (r.parent = r.customer /\ r.level = 0)
  /\ request' = [request EXCEPT ![a] = r]
  /\ creating' = [creating EXCEPT ![a] = IF r.parent = r.customer THEN "checked" ELSE "level"]
  /\ overlapped' = overlapped \cup
       {<<e, a>> : e \in {e \in {r.customer, r.parent} : Unsettled(e)}}
  /\ UNCHANGED <<stores, deleting, listed, faults>>

ParentFits_anyCustomer(a) ==
  LET p == request[a].parent
  IN p \in rows /\ request[p].level + 1 = request[a].level

\* The parent asset is tracked, under the same customer, one level above.
ParentFits(a) ==
  LET p == request[a].parent
  IN /\ p \in rows
     /\ request[p].customer = request[a].customer
     /\ request[p].level + 1 = request[a].level

CheckParent(a) ==
  /\ creating[a] = "level"
  /\ CreateMoves(a, IF ParentFits(a) THEN "checked" ELSE "failed")
  /\ UNCHANGED <<stores, faults>>

CreateAsset(a) ==
  /\ creating[a] = "checked"
  /\ \/ /\ tb' = tb \cup {a}
        /\ \/ CreateMoves(a, "created") /\ UNCHANGED faults
           \/ CreateMoves(a, "failed") /\ Faulty({a})
     \/ CreateMoves(a, "failed") /\ UNCHANGED <<tb, faults>>
  /\ UNCHANGED <<owned, relations, levels, rows>>

\* The owner is reassigned; any failure rolls the asset back.
AssignAsset(a) ==
  /\ creating[a] = "created"
  /\ \/ /\ {a, request[a].customer} \subseteq tb
        /\ owned' = owned \cup {a}
        /\ CreateMoves(a, "assigned") \/ CreateMoves(a, "undo_entity")
     \/ CreateMoves(a, "undo_entity") /\ UNCHANGED owned
  /\ UNCHANGED <<tb, relations, levels, rows, faults>>

\* The row is written; its rollback deletes the asset only.
TrackAsset(a) ==
  /\ creating[a] = "assigned"
  /\ \/ /\ rows' = rows \cup {a}
        /\ \/ CreateMoves(a, "tracked") /\ UNCHANGED faults
           \/ CreateMoves(a, "undo_entity") /\ Faulty({a})
     \/ CreateMoves(a, "undo_entity") /\ UNCHANGED <<rows, faults>>
  /\ KeepTb
  /\ UNCHANGED levels

RelateAsset_rowKept(a) ==
  /\ creating[a] = "tracked"
  /\ \/ /\ {a, request[a].parent} \subseteq tb
        /\ relations' = relations \cup {<<request[a].parent, a>>}
        /\ CreateMoves(a, "done")
     \/ CreateMoves(a, "undo_entity") /\ UNCHANGED relations
  /\ UNCHANGED <<tb, owned, levels, rows, faults>>

\* The Contains relation; a failed call, whether or not it took effect, rolls back.
RelateAsset(a) ==
  /\ creating[a] = "tracked"
  /\ \/ /\ {a, request[a].parent} \subseteq tb
        /\ relations' = relations \cup {<<request[a].parent, a>>}
        /\ CreateMoves(a, "done") \/ CreateMoves(a, "undo_row")
     \/ CreateMoves(a, "undo_row") /\ UNCHANGED relations
  /\ UNCHANGED <<tb, owned, levels, rows, faults>>

\* delete() of the row throws when there is none (P2025) or the call fails, and
\* then nothing deletes the asset.
UndoRow(a) ==
  /\ creating[a] = "undo_row"
  /\ \/ a \in rows /\ rows' = rows \ {a} /\ CreateMoves(a, "undo_entity") /\ UNCHANGED faults
     \/ a \notin rows /\ CreateMoves(a, "failed") /\ UNCHANGED <<rows, faults>>
     \/ rows' \in {rows, rows \ {a}} /\ CreateMoves(a, "failed") /\ Faulty({a})
  /\ KeepTb
  /\ UNCHANGED levels

----------------------------------------------------------------------------
(* delete() of both services: check, ThingsBoard, Postgres                 *)

\* The first read of delete(e): creations under way may add below e what it misses.
StartDelete(e, to) ==
  /\ deleting[e] = "no"
  /\ DeleteMoves(e, to)
  /\ overlapped' = overlapped \cup
       {<<e, x>> : x \in {x \in Entities : InFlight(x) /\ e \in Uses(x)}}
  /\ UNCHANGED <<stores, faults>>

\* getRelationChildren() reads the relations ...
ListChildren(a) ==
  /\ a \in tb \cup rows
  /\ StartDelete(a, "listed")
  /\ listed' = [listed EXCEPT ![a] = {b \in Assets : <<a, b>> \in relations}]

CheckChildren_unchecked(a) ==
  /\ deleting[a] = "listed"
  /\ DeleteMoves(a, "checked")
  /\ listed' = [listed EXCEPT ![a] = {}]
  /\ UNCHANGED <<stores, faults, overlapped>>

\* ... then fetches each child: one that is gone does not count.
CheckChildren(a) ==
  /\ deleting[a] = "listed"
  /\ DeleteMoves(a, IF listed[a] \cap tb = {} THEN "checked" ELSE "no")
  /\ listed' = [listed EXCEPT ![a] = {}]
  /\ UNCHANGED <<stores, faults, overlapped>>

CountAssets_unchecked(c) ==
  /\ c \in tb \/ HasLevels(c)
  /\ StartDelete(c, "checked")
  /\ UNCHANGED listed

\* assetHierarchyAssignment.count() is zero.
CountAssets(c) ==
  /\ c \in tb \/ HasLevels(c)
  /\ {a \in rows : request[a].customer = c} = {}
  /\ StartDelete(c, "checked")
  /\ UNCHANGED listed

\* 404 is as good as success; any other failure ends the request.
EraseEntity(e) ==
  /\ deleting[e] = "checked"
  /\ \/ Erase(e) /\ DeleteMoves(e, "erased") /\ UNCHANGED faults
     \/ Erase(e) /\ DeleteMoves(e, "no") /\ Faulty({e})
     \/ KeepTb /\ DeleteMoves(e, "no") /\ UNCHANGED faults
  /\ UNCHANGED <<levels, rows, listed, overlapped>>

EraseRows(e) ==
  /\ deleting[e] = "erased"
  /\ DeleteMoves(e, "no")
  /\ \/ /\ rows' = rows \ {e}
        /\ levels' = {l \in levels : l[1] # e}
        /\ UNCHANGED faults
     \/ Faulty({e}) /\ UNCHANGED <<rows, levels>>
  /\ KeepTb
  /\ UNCHANGED <<listed, overlapped>>

----------------------------------------------------------------------------

\* Nothing on disk says which requests were in progress when the process stopped.
Crash ==
  /\ \E x \in Entities : Unsettled(x)
  /\ creating' = [x \in Entities |-> IF InFlight(x) THEN "failed" ELSE creating[x]]
  /\ deleting' = [x \in Entities |-> "no"]
  /\ Faulty({x \in Entities : Unsettled(x)})
  /\ listed' = [a \in Assets |-> {}]
  /\ UNCHANGED <<stores, request, overlapped>>

Next ==
  \/ \E c \in Customers :
       \/ CreateCustomer(c)
       \/ \E L \in Hierarchies : WriteLevels(c, L)
       \/ CountAssets(c)
  \/ \E a \in Assets :
       \/ \E r \in Request : StartAsset(a, r)
       \/ CheckParent(a)
       \/ CreateAsset(a)
       \/ AssignAsset(a)
       \/ TrackAsset(a)
       \/ RelateAsset(a)
       \/ UndoRow(a)
       \/ ListChildren(a)
       \/ CheckChildren(a)
  \/ \E x \in Entities :
       \/ UndoEntity(x)
       \/ EraseEntity(x)
       \/ EraseRows(x)
  \/ Crash

Spec == Init /\ [][Next]_vars

----------------------------------------------------------------------------

AtRest(x) == ~ InFlight(x) /\ deleting[x] = "no" /\ x \notin faults

\* Once the requests about an entity ended without a failed repair, both stores
\* have it or neither has: an asset and its row, a customer and its levels.
\* Only a deletion of the customer meanwhile can part them.
StoresAgree ==
  /\ \A a \in Assets :
       AtRest(a) => \/ a \in tb <=> a \in rows
                    \/ <<request[a].customer, a>> \in overlapped
  /\ \A c \in Customers :
       AtRest(c) => \/ c \in tb <=> HasLevels(c)
                    \/ <<c, c>> \in overlapped

\* A row names a level its customer defines, unless the asset was created while
\* the customer was being deleted.
RowLosesLevelOnlyByOverlap ==
  \A a \in rows :
    \/ <<request[a].customer, request[a].level>> \in levels
    \/ <<request[a].customer, a>> \in overlapped

\* The parent of an asset both stores have is in both stores too, under the same
\* customer and one level above, and related to it, unless the parent or the
\* customer was being deleted, or rolled back, while the asset was created.
TreeIntact ==
  \A a \in Assets :
    (creating[a] = "done" /\ a \in tb \cap rows) =>
      LET p == request[a].parent
      IN \/ /\ p \in tb
            /\ <<p, a>> \in relations
            /\ p \in Customers => request[a].level = 0
            /\ p \in Assets => ParentFits(a)
         \/ <<p, a>> \in overlapped
         \/ <<request[a].customer, a>> \in overlapped

\* customers.service.ts:66-71: deletion is blocked while an asset is tracked, so
\* that no row references a customer without a hierarchy definition.
RowsHaveLevel ==
  \A a \in rows : <<request[a].customer, request[a].level>> \in levels
=============================================================================
