------------------------------- MODULE Access -------------------------------
(***************************************************************************)
(* Who may do what: the guards every REST request passes, in the order of  *)
(* app.module.ts, and the handlers that move a device between customers or *)
(* overwrite an entity.  Each await of a guard or a handler is a step, so  *)
(* what was read may have changed by the time it is used.                  *)
(*                                                                         *)
(* The hierarchy of customers is fixed here; Scope is what                 *)
(* resolveScopedCustomerIds returns for each of them (ScopeWalk, ReadCache).*)
(***************************************************************************)
EXTENDS Naturals, Sequences

CONSTANTS Calls,      \* requests, one for each member
          Customers, NoCustomer,
          Assets, Devices,
          Scope,      \* for each customer, itself and its descendants
          Profiles    \* the sessions a request may carry

ASSUME AccessAssumption ==
    /\ NoCustomer \notin Customers
    /\ Assets \cap Devices = {} /\ (Assets \cup Devices) \cap Customers = {}
    /\ \A p \in Profiles : p.customer \in Customers \cup {NoCustomer}
    /\ Scope \in [Customers -> SUBSET Customers]
    /\ \A k \in Customers : k \in Scope[k]

VARIABLES
    session, \* each request's session
    owner,   \* ThingsBoard: the customer each asset and device belongs to
    row,     \* Postgres: the customer whose hierarchy tracks the asset
    links,   \* ThingsBoard: Contains relations from assets to devices
    info,    \* ThingsBoard: the fields of each entity, by the request that set them
    call,    \* each request
    reowned, \* history: devices that have changed hands
    moved,   \* history: requests whose device has, since they looked at its owner
    wanted,  \* history: the last value anybody asked for, by entity and field
    raced    \* history: entities written from a copy that was out of date

accessVars == <<session, owner, row, links, info, call, reowned, moved, wanted, raced>>

Things == Assets \cup Devices \cup Customers
Fields == {"name", "label"}
Nil == "nothing"

-----------------------------------------------------------------------------
\* The routes: method, how the guard learns the type of :id, role, handler.
On(method, type, role, handler) ==
    [method |-> method, type |-> type, role |-> role, handler |-> handler]

AssetRoutes ==
    {On("GET", "none", "any", "elsewhere"), On("POST", "none", "any", "elsewhere"),
     On("GET", "ASSET", "any", "elsewhere"), On("DELETE", "ASSET", "any", "elsewhere"),
     On("PATCH", "ASSET", "any", "patch"), On("POST", "ASSET", "any", "link"),
     On("DELETE", "ASSET", "any", "unlink")}
DeviceRoutes ==
    {On("GET", "none", "any", "elsewhere"), On("GET", "DEVICE", "any", "elsewhere"),
     On("PATCH", "DEVICE", "any", "patch"), On("POST", "none", "any", "claim")}
CustomerRoutes ==
    {On("GET", "none", "any", "elsewhere"), On("GET", "CUSTOMER", "any", "elsewhere"),
     On("POST", "none", "SYSADMIN", "elsewhere"), On("PATCH", "CUSTOMER", "SYSADMIN", "patch"),
     On("DELETE", "CUSTOMER", "SYSADMIN", "elsewhere")}
UserRoutes == {On(m, "none", "SYSADMIN", "elsewhere") : m \in {"GET", "POST", "DELETE"}}
\* The generic routes name the type in the query.
EntityRoutes ==
    {On("GET", t, "any", "elsewhere") : t \in {"none", "ASSET", "DEVICE", "CUSTOMER"}}
AttributeRoutes ==
    {On(m, t, "any", "elsewhere") : m \in {"GET", "POST"}, t \in {"ASSET", "DEVICE", "CUSTOMER"}}
Routes == AssetRoutes \cup DeviceRoutes \cup CustomerRoutes \cup UserRoutes
              \cup EntityRoutes \cup AttributeRoutes

Mutating == {"POST", "PUT", "PATCH", "DELETE"}
SetBy(route) == CASE route.handler # "patch" -> {{}}
                  [] route.type = "ASSET" -> SUBSET Fields
                  [] route.type = "DEVICE" -> SUBSET {"label"}
                  [] OTHER -> SUBSET {"name"}
Targets(route) == CASE route.type = "ASSET" -> Assets
                    [] route.type = "DEVICE" -> Devices
                    [] route.type = "CUSTOMER" -> Customers
                    [] OTHER -> {Nil}

Unset == [f \in Fields |-> Nil]
NoCall(phase) ==
    [phase |-> phase, todo |-> <<>>, route |-> On("GET", "none", "any", "elsewhere"),
     target |-> Nil, device |-> Nil, sets |-> {}, copy |-> Unset]
\* Answered, refused or failed: the caller has his status, the server keeps nothing.
Ended == NoCall("ended")

AccessInit ==
    /\ session \in [Calls -> Profiles]
    /\ row \in [Assets -> Customers \cup {NoCustomer}]
    /\ owner \in [Assets \cup Devices -> Customers \cup {NoCustomer}]
    /\ \A a \in Assets : row[a] \in {owner[a], NoCustomer}
    /\ links = {}
    /\ info = [e \in Things |-> Unset] /\ wanted = info
    /\ call = [c \in Calls |-> NoCall("idle")]
    /\ reowned = {} /\ moved = {} /\ raced = {}

-----------------------------------------------------------------------------
Admin(c) == session[c].authority \in {"TENANT_ADMIN", "SYS_ADMIN"}
Owner(e) == IF e \in Customers THEN e ELSE owner[e]
InScope(c, e) ==
    /\ session[c].customer # NoCustomer
    /\ Owner(e) \in Scope[session[c].customer]

Scoped_queryOnly(c, route) ==
    ~Admin(c) /\ route \in EntityRoutes \cup AttributeRoutes /\ route.type # "none"
\* A sysadmin and a route without an entity type pass the scope guard.
Scoped(c, route) == ~Admin(c) /\ route.type # "none"

\* ReaderBlockGuard, then the controller's RolesGuard.
Admitted(c, route) ==
    /\ ~(route.method \in Mutating /\ session[c].role = "READER")
    /\ route.role = "SYSADMIN" => Admin(c)

LinkSteps_assetOnly(c) ==
    IF Admin(c) THEN <<"relate", "row">> ELSE <<"asset", "relate", "row">>
LinkSteps(c) == IF Admin(c) THEN <<"relate", "row">> ELSE <<"asset", "device", "relate", "row">>
Handler(c, route) ==
    CASE route.handler = "link" -> LinkSteps(c)
      [] route.handler = "unlink" -> IF Admin(c) THEN <<"unrelate">> ELSE <<"asset", "unrelate">>
      [] route.handler = "claim" -> <<"look", "assign", "elsewhere">>
      [] route.handler = "patch" -> <<"read", "write">>
      [] OTHER -> <<"elsewhere">>
\* claimDevice refuses sysadmins and sessions without a customer before it looks.
Refused(c, route) ==
    \/ ~Admitted(c, route)
    \/ route.handler = "claim" /\ (Admin(c) \/ session[c].customer = NoCustomer)
Enter(c, r) == IF Refused(c, r.route) THEN Ended
               ELSE [r EXCEPT !.phase = "handling", !.todo = Handler(c, r.route)]

Becomes(c, r) == call' = [call EXCEPT ![c] = r]
\* The next await; the last one answers the request.
Onward(r, todo) == IF todo = <<>> THEN Ended ELSE [r EXCEPT !.todo = todo]
Next1(c) == Onward(call[c], Tail(call[c].todo))
At(c, step) == call[c].todo # <<>> /\ Head(call[c].todo) = step

StartCall(c) ==
    /\ call[c].phase = "idle"
    /\ \E route \in Routes : \E e \in Targets(route), s \in SetBy(route),
          d \in (IF route.handler \in {"link", "unlink", "claim"} THEN Devices ELSE {Nil}) :
         LET r == [call[c] EXCEPT !.phase = "guard", !.todo = <<"guard">>, !.route = route,
                                  !.target = e, !.device = d, !.sets = s] IN
         Becomes(c, IF Scoped(c, route) THEN r ELSE Enter(c, r))
    /\ UNCHANGED <<session, owner, row, links, info, reowned, moved, wanted, raced>>

\* isInScope, in the guard and again in the service.
CheckScope(c) ==
    /\ At(c, "guard") \/ At(c, "asset") \/ At(c, "device")
    /\ LET r == call[c] IN
       Becomes(c, IF ~InScope(c, IF At(c, "device") THEN r.device ELSE r.target)
                  THEN Ended
                  ELSE IF At(c, "guard") THEN Enter(c, r) ELSE Next1(c))
    /\ moved' = IF At(c, "device") THEN moved \ {c} ELSE moved
    /\ UNCHANGED <<session, owner, row, links, info, reowned, wanted, raced>>

Relate(c) ==
    /\ At(c, "relate") \/ At(c, "unrelate")
    /\ LET l == {<<call[c].target, call[c].device>>} IN
       links' = IF At(c, "relate") THEN links \cup l ELSE links \ l
    /\ Becomes(c, Next1(c))
    /\ UNCHANGED <<session, owner, row, info, reowned, moved, wanted, raced>>

\* Only a tracked asset passes its customer on to the device.
FindRow(c) ==
    /\ At(c, "row")
    /\ Becomes(c, IF row[call[c].target] = NoCustomer THEN Next1(c)
                  ELSE Onward(call[c], <<"assign">>))
    /\ UNCHANGED <<session, owner, row, links, info, reowned, moved, wanted, raced>>

\* claimDevice: a device with an owner is a conflict.
LookAtOwner(c) ==
    /\ At(c, "look")
    /\ Becomes(c, IF owner[call[c].device] = NoCustomer THEN Next1(c)
                  ELSE Ended)
    /\ moved' = moved \ {c}
    /\ UNCHANGED <<session, owner, row, links, info, reowned, wanted, raced>>

AssignDevice(c) ==
    /\ At(c, "assign")
    /\ LET d == call[c].device
           k == IF call[c].route.handler = "claim" THEN session[c].customer
                ELSE row[call[c].target] IN
       /\ owner' = [owner EXCEPT ![d] = k]
       /\ reowned' = reowned \cup {d}
       /\ moved' = moved \cup {o \in Calls : o # c /\ call[o].device = d}
    /\ Becomes(c, Next1(c))
    /\ UNCHANGED <<session, row, links, info, wanted, raced>>

ReadEntity(c) ==
    /\ At(c, "read")
    /\ Becomes(c, [Next1(c) EXCEPT !.copy = info[call[c].target]])
    /\ UNCHANGED <<session, owner, row, links, info, reowned, moved, wanted, raced>>

Merged_undefinedToo(c) == [f \in Fields |-> IF f \in call[c].sets THEN c ELSE Nil]
\* The fields of the request over those that were read.
Merged(c) == [f \in Fields |-> IF f \in call[c].sets THEN c ELSE call[c].copy[f]]

WriteEntity(c) ==
    /\ At(c, "write")
    /\ LET e == call[c].target IN
       /\ info' = [info EXCEPT ![e] = Merged(c)]
       /\ wanted' = [wanted EXCEPT ![e] =
                       [f \in Fields |-> IF f \in call[c].sets THEN c ELSE @[f]]]
       /\ raced' = IF info[e] = call[c].copy THEN raced ELSE raced \cup {e}
    /\ Becomes(c, Next1(c))
    /\ UNCHANGED <<session, owner, row, links, reowned, moved>>

\* A handler that changes none of this state, or the closing getById.
Elsewhere(c) ==
    /\ At(c, "elsewhere")
    /\ Becomes(c, Next1(c))
    /\ UNCHANGED <<session, owner, row, links, info, reowned, moved, wanted, raced>>

\* Any of the awaits may reject: the request ends, what it has done stays.
UpstreamFails(c) ==
    /\ call[c].todo # <<>>
    /\ Becomes(c, Ended)
    /\ UNCHANGED <<session, owner, row, links, info, reowned, moved, wanted, raced>>

AccessNext ==
    \E c \in Calls :
        \/ StartCall(c) \/ CheckScope(c) \/ Relate(c) \/ FindRow(c) \/ LookAtOwner(c)
        \/ AssignDevice(c) \/ ReadEntity(c) \/ WriteEntity(c) \/ Elsewhere(c) \/ UpstreamFails(c)

AccessSpec == AccessInit /\ [][AccessNext]_accessVars

-----------------------------------------------------------------------------
AccessTypeOK ==
    /\ session \in [Calls -> Profiles]
    /\ owner \in [Assets \cup Devices -> Customers \cup {NoCustomer}]
    /\ row \in [Assets -> Customers \cup {NoCustomer}]
    /\ links \subseteq Assets \X Devices
    /\ info \in [Things -> [Fields -> Calls \cup {Nil}]]
    /\ wanted \in [Things -> [Fields -> Calls \cup {Nil}]]
    /\ reowned \subseteq Devices /\ moved \subseteq Calls /\ raced \subseteq Things
    /\ \A c \in Calls : /\ call[c].phase \in {"idle", "guard", "handling", "ended"}
                        /\ call[c].todo = <<>> <=> call[c].phase \notin {"guard", "handling"}

(* Whatever the route, a handler runs only for a session that may: no      *)
(* reader in a handler that changes something, no customer user in one for *)
(* sysadmins, and none at an entity outside his hierarchy, unless a device *)
(* has changed hands since the guard looked.                               *)
HandlersAreGuarded ==
    \A c \in Calls : call[c].phase = "handling" =>
        LET route == call[c].route IN
        /\ session[c].role = "READER" => route.method = "GET"
        /\ ~Admin(c) => /\ route.role # "SYSADMIN"
                        /\ \/ route.type = "none" \/ InScope(c, call[c].target)
                           \/ call[c].target \in reowned

(* A device changes hands by a request of a sysadmin, or by one that hands *)
(* it to a customer of its own hierarchy and takes it from there or from   *)
(* nobody; only a request overtaken by another takes it from a stranger.   *)
ScopedMoves ==
    [][\A d \in Devices : owner'[d] # owner[d] =>
         \E c \in Calls :
             /\ call[c].device = d /\ call'[c] # call[c]
             /\ \/ Admin(c)
                \/ /\ session[c].customer # NoCustomer
                   /\ owner'[d] \in Scope[session[c].customer]
                   /\ \/ c \in moved \/ InScope(c, d)
                      \/ owner[d] = NoCustomer /\ call[c].route.handler = "claim"]_accessVars

(* An update keeps the fields it does not name: every field has the value  *)
(* last asked for, unless two updates of the entity overlapped.            *)
LostUpdateOnlyByOverlap ==
    \A e \in Things : e \in raced \/ info[e] = wanted[e]
=============================================================================
