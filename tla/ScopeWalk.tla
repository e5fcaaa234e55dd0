----------------------------- MODULE ScopeWalk -----------------------------
(***************************************************************************)
(* Which customers and devices a customer user is shown.  The table of     *)
(* customers is read page by page (fetchAllPages) while it may change; the *)
(* customers below the caller's are the fixed point of parentCustomerId    *)
(* (resolveScopedCustomerIds); then each of them is asked for its devices, *)
(* page by page as well (list), while devices may be handed over; the      *)
(* result is paged in memory (applyClientSidePagination).                  *)
(***************************************************************************)
EXTENDS Naturals, Sequences, SequencesExt, FiniteSetsExt

CONSTANTS Rows,       \* customers there may be
          Goods,      \* devices
          Root,       \* the caller's customer
          PageSize,   \* rows ThingsBoard returns at most (200 in the code)
          MaxChanges  \* BOUND: changes in ThingsBoard during the walk

ASSUME WalkAssumption ==
    /\ PageSize \in Nat \ {0} /\ Root \in Rows /\ MaxChanges \in Nat
    /\ IsFiniteSet(Rows) /\ IsFiniteSet(Goods)

VARIABLES
    table,   \* ThingsBoard: its customers, in the order it returns them
    above,   \* parentCustomerId of each; Root's own is itself, which changes nothing
    holder,  \* ThingsBoard: the customer each device belongs to
    walk,    \* the pages fetched so far, and how far the request is
    listing, \* customers with pages of devices to come, pages read, and what came back
    changes, \* BOUND: changes so far
    shrunk,  \* history: a customer was deleted during the walk
    born,    \* history: customers created since it began
    handed,  \* history: devices handed over during the listing
    shifted  \* history: customers whose devices changed between two of their pages

walkVars == <<table, above, holder, walk, listing, changes, shrunk, born, handed, shifted>>

InOrder(ids) == {s \in [1 .. Cardinality(ids) -> ids] : IsInjective(s)}

WalkInit ==
    /\ \E ids \in {i \in SUBSET Rows : Root \in i} : table \in InOrder(ids)
    /\ above \in {p \in [Rows -> Rows] : p[Root] = Root}
    /\ holder \in [Goods -> Rows]
    /\ walk = [page |-> 0, got |-> <<>>, phase |-> "walking"]
    /\ listing = [left |-> {}, scope |-> {}, pages |-> [k \in Rows |-> 0], items |-> <<>>]
    /\ changes = 0 /\ shrunk = FALSE /\ born = {} /\ handed = {} /\ shifted = {}

Slice(items, page, size) ==
    [data |-> SubSeq(items, page * size + 1, Min({(page + 1) * size, Len(items)})),
     hasNext |-> (page + 1) * size < Len(items)]

\* One pass over the rows, in their order; a row added counts for the rows after it.
Pass(found, rows) ==
    LET acc[i \in 0 .. Len(rows)] ==
            IF i = 0 THEN found
            ELSE IF above[rows[i]] \in acc[i - 1] THEN acc[i - 1] \cup {rows[i]} ELSE acc[i - 1] IN
    acc[Len(rows)]

ScopeIds_onePass(rows) == Pass({Root}, rows)
\* Passes until one adds nothing: each before that adds a row.
ScopeIds(rows) ==
    LET after[n \in 0 .. Len(rows)] == IF n = 0 THEN {Root} ELSE Pass(after[n - 1], rows) IN
    after[Len(rows)]

\* One request; after the last page the scope is computed and its customers asked.
FetchPage ==
    /\ walk.phase = "walking"
    /\ LET res == Slice(table, walk.page, PageSize)
           got == walk.got \o res.data IN
       /\ walk' = [page |-> walk.page + 1, got |-> got,
                   phase |-> IF res.hasNext THEN "walking" ELSE "walked"]
       /\ listing' = IF res.hasNext THEN listing
                     ELSE [left |-> ScopeIds(got), scope |-> ScopeIds(got),
                           pages |-> [k \in Rows |-> 0], items |-> <<>>]
    /\ UNCHANGED <<table, above, holder, changes, shrunk, born, handed, shifted>>

\* A customer's devices, in the order ThingsBoard returns them.
DevicesOf(k) == SetToSeq({g \in Goods : holder[g] = k})

\* The requests of all customers run at once, each following its own pages.
ListDevices(k) ==
    /\ k \in listing.left
    /\ LET res == Slice(DevicesOf(k), listing.pages[k], PageSize) IN
       listing' = [listing EXCEPT !.left = IF res.hasNext THEN @ ELSE @ \ {k},
                                  !.pages[k] = @ + 1, !.items = @ \o res.data]
    /\ UNCHANGED <<table, above, holder, walk, changes, shrunk, born, handed, shifted>>

Changes == changes < MaxChanges /\ changes' = changes + 1 /\ UNCHANGED <<above, walk, listing>>

CreateRow ==
    /\ Changes
    /\ \E k \in Rows \ ToSet(table), i \in 1 .. Len(table) + 1 :
         table' = InsertAt(table, i, k) /\ born' = born \cup {k}
    /\ UNCHANGED <<holder, shrunk, handed, shifted>>
DeleteRow ==
    /\ Changes
    /\ \E i \in DOMAIN table : table[i] # Root /\ table' = RemoveAt(table, i)
    /\ shrunk' = (shrunk \/ walk.phase = "walking")
    /\ UNCHANGED <<holder, born, handed, shifted>>
HandOver ==
    /\ Changes
    /\ \E g \in Goods, k \in Rows :
         /\ k # holder[g]
         /\ holder' = [holder EXCEPT ![g] = k]
         /\ handed' = IF walk.phase = "walked" THEN handed \cup {g} ELSE handed
         /\ shifted' = shifted \cup {c \in {k, holder[g]} \cap listing.left : listing.pages[c] > 0}
    /\ UNCHANGED <<table, shrunk, born>>

WalkNext ==
    \/ FetchPage \/ \E k \in Rows : ListDevices(k)
    \/ CreateRow \/ DeleteRow \/ HandOver

WalkSpec == WalkInit /\ [][WalkNext]_walkVars

-----------------------------------------------------------------------------
WalkTypeOK ==
    /\ table \in Seq(Rows) /\ IsInjective(table)
    /\ above \in [Rows -> Rows] /\ holder \in [Goods -> Rows]
    /\ walk.got \in Seq(Rows) /\ walk.phase \in {"walking", "walked"}
    /\ listing.left \subseteq listing.scope /\ listing.scope \subseteq Rows
    /\ listing.items \in Seq(Goods) /\ listing.pages \in [Rows -> Nat]
    /\ changes \in 0 .. MaxChanges /\ born \subseteq Rows
    /\ handed \subseteq Goods /\ shifted \subseteq Rows

\* Reference: k is below Root if going up from it, through rows that are there, ends at Root.
Beneath(rows) ==
    {k \in rows \cup {Root} :
        \E n \in 0 .. Cardinality(Rows) :
            \E path \in [0 .. n -> rows \cup {Root}] :
                /\ path[0] = k /\ path[n] = Root
                /\ \A i \in 0 .. n - 1 : path[i + 1] = above[path[i]]}

(* The scope is the caller's customer and all below it: no stranger, no    *)
(* matter how the table is ordered or what cycles its parents form, and    *)
(* nobody missing who is still there, unless a deletion shifted the pages. *)
ScopeIsDescendants ==
    walk.phase = "walked" =>
        /\ listing.scope = Beneath(ToSet(walk.got))
        /\ shrunk \/ Beneath(ToSet(table) \ born) \subseteq listing.scope

(* The finished list names every device in scope exactly once, unless it   *)
(* was handed over meanwhile or another one was, to or from its customer,  *)
(* between two pages of that customer's devices, which moves the rows over *)
(* the page boundary; and the pages cut from a list, followed until        *)
(* hasNext is false, are the list again.                                   *)
ListedOnce ==
    walk.phase = "walked" /\ listing.left = {} =>
        /\ \A g \in {d \in Goods \ handed : holder[d] \notin shifted} :
             Cardinality({i \in DOMAIN listing.items : listing.items[i] = g})
                = IF holder[g] \in listing.scope THEN 1 ELSE 0
        /\ \A items \in {listing.items, walk.got}, size \in 1 .. 3 :
             LET last == Min({p \in 0 .. Len(items) : ~Slice(items, p, size).hasNext}) IN
             FlattenSeq([p \in 1 .. last + 1 |-> Slice(items, p - 1, size).data]) = items

(* Both together: the scope a request is checked against, and the list it  *)
(* gets.                                                                   *)
WalkSafe == ScopeIsDescendants /\ ListedOnce
=============================================================================
