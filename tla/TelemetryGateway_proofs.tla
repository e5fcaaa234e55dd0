---------------------- MODULE TelemetryGateway_proofs ----------------------
(***************************************************************************)
(* Proofs about TelemetryGateway on top of ThingsboardWs, for all sets of  *)
(* entities and browser sockets and every finite set of subscribe frames.  *)
(***************************************************************************)
EXTENDS TelemetryGateway, ThingsboardWs_proofs

SameKey(g, h) == ClientOf[g] = ClientOf[h] /\ KeyOf[g] = KeyOf[h]

\* A stored closure is one that can be called, of this socket and entity.
StoredHeld ==
  \A c \in Clients, k \in Keys :
    subs[c][k] \in Calls =>
      /\ caller[subs[c][k]] = "held"
      /\ ClientOf[subs[c][k]] = c /\ KeyOf[subs[c][k]] = k

\* The upstream service is called by handlers that got that far only.
CallersEntered == \A h \in Calls : caller[h] # "idle" => handler[h] = "entered"

\* What `overtaken' leaves: handlers that still have their reservation and socket.
FlightsReserved ==
  \A h \in InFlight \ overtaken : Stored(h) = "reserved" /\ ws[ClientOf[h]] # "closed"



GatewayInductive ==
  /\ TypeOK
  /\ IInv
  /\ StoredHeld
  /\ CallersEntered
  /\ FlightsReserved
  /\ ReservationsExclude
  /\ LeakOnlyIfOvertaken

-----------------------------------------------------------------------------
(* What the steps do to the upstream service and to the map *)

LEMMA StoreIsUpdate ==
  ASSUME TypeOK, NEW h \in Calls, NEW v \in {"none", "reserved"} \cup Calls, Store(h, v)
  PROVE  /\ subs' \in [Clients -> [Keys -> {"none", "reserved"} \cup Calls]]
         /\ \A c \in Clients, k \in Keys :
              subs'[c][k] = IF c = ClientOf[h] /\ k = KeyOf[h] THEN v ELSE subs[c][k]
<1>. DEFINE c == ClientOf[h]
            k == KeyOf[h]
            row == [subs[c] EXCEPT ![k] = v]
<1>1. c \in Clients /\ k \in Keys
  BY ClientsAssumption, CallsAssumption
<1>2. subs' = [subs EXCEPT ![c] = row]
  BY DEF Store, TypeOK
<1>. HIDE DEF c, k
<1>3. subs \in [Clients -> [Keys -> {"none", "reserved"} \cup Calls]]
  BY DEF TypeOK
<1>4. /\ row \in [Keys -> {"none", "reserved"} \cup Calls]
      /\ \A j \in Keys : row[j] = IF j = k THEN v ELSE subs[c][j]
  BY <1>1, <1>3
<1>. HIDE DEF row
<1>5. \A d \in Clients : subs'[d] = IF d = c THEN row ELSE subs[d]
  BY <1>2, <1>3
<1>6. subs' \in [Clients -> [Keys -> {"none", "reserved"} \cup Calls]]
  BY <1>1, <1>2, <1>3, <1>4
<1>7. ASSUME NEW d \in Clients, NEW j \in Keys
      PROVE  subs'[d][j] = IF d = c /\ j = k THEN v ELSE subs[d][j]
  BY <1>4, <1>5, <1>7
<1>. QED
  BY <1>6, <1>7 DEF c, k

\* Closures that are called are released, and nothing else happens to a call.
LEMMA ReleaseCallers ==
  ASSUME NEW S \in SUBSET Calls, Release(S)
  PROVE  \A h \in Calls :
           caller'[h] = IF h \in S /\ caller[h] = "held" THEN "released" ELSE caller[h]
BY DEF Release, Leaving

LEMMA SubscribeCallers ==
  ASSUME WsTypeOK, NEW h \in Calls, Subscribe(h)
  PROVE  /\ caller[h] = "idle" /\ caller'[h] \in {"held", "connecting"}
         /\ \A g \in Calls \ {h} : caller'[g] = caller[g]
BY DEF Subscribe, WsTypeOK

LEMMA SettlingCallers ==
  ASSUME WsTypeOK, NEW outcome, Settle(outcome)
  PROVE  \A h \in Calls :
           caller'[h] = IF caller[h] = "connecting" THEN outcome ELSE caller[h]
BY DEF Settle, Waiting, WsTypeOK

LEMMA QuietCallers == ASSUME QuietNext PROVE UNCHANGED caller
BY DEF QuietNext, TokenResolves, Drop, CloseCurrent, CloseOther, ReconnectTimer, Destroy,
       Push, HandleMessage

LEMMA TeardownEntries ==
  ASSUME TypeOK, NEW c \in Clients, Teardown(c)
  PROVE  /\ subs' \in [Clients -> [Keys -> {"none", "reserved"} \cup Calls]]
         /\ \A d \in Clients, k \in Keys :
              subs'[d][k] = IF d = c THEN "none" ELSE subs[d][k]
BY DEF Teardown, TypeOK

LEMMA UnsubscribeEntries ==
  ASSUME TypeOK, NEW c \in Clients, NEW k \in Keys, UnsubscribeFrame(c, k)
  PROVE  /\ subs' \in [Clients -> [Keys -> {"none", "reserved"} \cup Calls]]
         /\ \A d \in Clients, j \in Keys :
              subs'[d][j] = IF d = c /\ j = k THEN "none" ELSE subs[d][j]
<1>. DEFINE row == [subs[c] EXCEPT ![k] = "none"]
<1>1. subs \in [Clients -> [Keys -> {"none", "reserved"} \cup Calls]]
  BY DEF TypeOK
<1>2. subs' = [subs EXCEPT ![c] = row]
  BY DEF UnsubscribeFrame, TypeOK
<1>3. /\ row \in [Keys -> {"none", "reserved"} \cup Calls]
      /\ \A j \in Keys : row[j] = IF j = k THEN "none" ELSE subs[c][j]
  BY <1>1
<1>. HIDE DEF row
<1>4. \A d \in Clients : subs'[d] = IF d = c THEN row ELSE subs[d]
  BY <1>1, <1>2
<1>5. subs' \in [Clients -> [Keys -> {"none", "reserved"} \cup Calls]]
  BY <1>1, <1>2, <1>3
<1>6. ASSUME NEW d \in Clients, NEW j \in Keys
      PROVE  subs'[d][j] = IF d = c /\ j = k THEN "none" ELSE subs[d][j]
  BY <1>3, <1>4, <1>6
<1>. QED
  BY <1>5, <1>6

\* Handlers that await the same attempt for one socket and entity.
Mine(c, k) == {h \in Waiting : ClientOf[h] = c /\ KeyOf[h] = k}

LEMMA SettledEntries ==
  ASSUME TypeOK, NEW ok \in BOOLEAN, SettleHandlers(ok)
  PROVE  /\ subs' \in [Clients -> [Keys -> {"none", "reserved"} \cup Calls]]
         /\ \A c \in Clients, k \in Keys :
              /\ Mine(c, k) = {} => subs'[c][k] = subs[c][k]
              /\ Mine(c, k) # {} => IF ok THEN subs'[c][k] \in Mine(c, k)
                                    ELSE subs'[c][k] = "none"
<1>1. ASSUME NEW c \in Clients, NEW k \in Keys
      PROVE  subs'[c][k] = IF Mine(c, k) = {} THEN subs[c][k]
                           ELSE IF ok THEN CHOOSE h \in Mine(c, k) : TRUE ELSE "none"
  BY <1>1 DEF SettleHandlers, Mine
<1>2. ASSUME NEW c \in Clients, NEW k \in Keys
      PROVE  /\ Mine(c, k) = {} => subs'[c][k] = subs[c][k]
             /\ Mine(c, k) # {} => IF ok THEN subs'[c][k] \in Mine(c, k)
                                   ELSE subs'[c][k] = "none"
  BY <1>1, <1>2
<1>3. ASSUME NEW c \in Clients, NEW k \in Keys
      PROVE  subs'[c][k] \in {"none", "reserved"} \cup Calls
  <2>1. Mine(c, k) \subseteq Calls
    BY DEF Mine, Waiting
  <2>2. subs[c][k] \in {"none", "reserved"} \cup Calls
    BY <1>3 DEF TypeOK
  <2>. QED
    BY <1>2, <1>3, <2>1, <2>2
<1>4. subs' = [c \in Clients |-> [k \in Keys |-> subs'[c][k]]]
  BY DEF SettleHandlers
<1>. QED
  BY <1>2, <1>3, <1>4

-----------------------------------------------------------------------------
(* Types, and the invariants of the upstream service *)

GwTypes ==
  /\ ws \in [Clients -> {"new", "open", "closing", "closed"}]
  /\ alive \in [Clients -> BOOLEAN]
  /\ sessions \in [Clients -> {"absent", "pending", "live", "null"}]
  /\ revalidator \in [Clients -> BOOLEAN]
  /\ subs \in [Clients -> [Keys -> {"none", "reserved"} \cup Calls]]
  /\ handler \in [Calls -> {"idle", "session", "scope", "entered", "refused"}]

LEMMA InitType == Init => TypeOK /\ IInv
BY WsInitType, InitIInv DEF Init, TypeOK

LEMMA HandlerTypes ==
  ASSUME TypeOK, NEW h \in Calls, HandlerStep(h)
  PROVE  GwTypes'
<1>0. ClientOf[h] \in Clients
  BY ClientsAssumption
<1>1. CASE SubscribeFrame(h) \/ NoSession(h) \/ AlreadySubscribed(h)
  BY <1>0, <1>1 DEF SubscribeFrame, NoSession, AlreadySubscribed, Closing, TypeOK, GwTypes
<1>2. CASE Reserve(h) \/ ScopeRefused(h)
  <2>1. subs' \in [Clients -> [Keys -> {"none", "reserved"} \cup Calls]]
    BY <1>2, StoreIsUpdate DEF Reserve, ScopeRefused
  <2>. QED
    BY <1>2, <2>1 DEF Reserve, ScopeRefused, TypeOK, GwTypes
<1>3. CASE ScopeGranted(h)
  <2>1. subs' \in [Clients -> [Keys -> {"none", "reserved"} \cup Calls]]
    BY <1>3, StoreIsUpdate DEF ScopeGranted, TypeOK
  <2>. QED
    BY <1>3, <2>1 DEF ScopeGranted, TypeOK, GwTypes
<1>. QED
  BY <1>1, <1>2, <1>3 DEF HandlerStep

LEMMA ClientTypes ==
  ASSUME TypeOK, NEW c \in Clients, ClientStep(c)
  PROVE  GwTypes'
<1>1. CASE Connect(c) \/ ConnectWithoutToken(c) \/ SessionEnds(c)
  BY <1>1 DEF Connect, ConnectWithoutToken, SessionEnds, TypeOK, GwTypes
<1>2. CASE SessionResolves(c)
  BY <1>2 DEF SessionResolves, Closing, TypeOK, GwTypes
<1>3. CASE Disconnect(c) \/ Revalidate(c)
  <2>1. subs' \in [Clients -> [Keys -> {"none", "reserved"} \cup Calls]]
    BY <1>3, TeardownEntries DEF Disconnect, Revalidate
  <2>. QED
    BY <1>3, <2>1 DEF Disconnect, Revalidate, Teardown, Closing, TypeOK, GwTypes
<1>4. CASE \E k \in Keys : UnsubscribeFrame(c, k)
  <2>1. subs' \in [Clients -> [Keys -> {"none", "reserved"} \cup Calls]]
    BY <1>4, UnsubscribeEntries
  <2>. QED
    BY <1>4, <2>1 DEF UnsubscribeFrame, TypeOK, GwTypes
<1>. QED
  BY <1>1, <1>2, <1>3, <1>4 DEF ClientStep

\* Whatever the gateway does, the upstream service takes one of its own steps.
LEMMA ServiceStep ==
  ASSUME TypeOK, IInv, Next
  PROVE  WsTypeOK' /\ IInv'
<1>. USE DEF TypeOK
<1>1. CASE UNCHANGED wsVars
  BY <1>1, WsNextType, NextIInv
<1>2. ASSUME NEW S \in SUBSET Calls, Release(S)
      PROVE  WsTypeOK' /\ IInv'
  BY <1>2, ReleaseType, ReleaseIInv
<1>3. ASSUME NEW h \in Calls, HandlerStep(h)
      PROVE  WsTypeOK' /\ IInv'
  <2>1. CASE ScopeGranted(h)
    BY <2>1, SubscribeType, SubscribeIInv DEF ScopeGranted
  <2>2. CASE ~ ScopeGranted(h)
    BY <1>1, <1>3, <2>2 DEF HandlerStep, SubscribeFrame, NoSession, AlreadySubscribed,
       Reserve, ScopeRefused
  <2>. QED
    BY <2>1, <2>2
<1>4. ASSUME NEW c \in Clients, ClientStep(c)
      PROVE  WsTypeOK' /\ IInv'
  <2>1. CASE Disconnect(c) \/ Revalidate(c)
    <3>1. Release({subs[c][k] : k \in Keys} \cap Calls)
      BY <2>1 DEF Disconnect, Revalidate, Teardown
    <3>. QED
      BY <3>1, <1>2
  <2>2. CASE \E k \in Keys : UnsubscribeFrame(c, k)
    <3>1. PICK k \in Keys : Release({subs[c][k]} \cap Calls)
      BY <2>2 DEF UnsubscribeFrame
    <3>. QED
      BY <3>1, <1>2
  <2>3. CASE Connect(c) \/ ConnectWithoutToken(c) \/ SessionResolves(c) \/ SessionEnds(c)
    BY <1>1, <2>3 DEF Connect, ConnectWithoutToken, SessionResolves, SessionEnds
  <2>. QED
    BY <1>4, <2>1, <2>2, <2>3 DEF ClientStep
<1>5. CASE UpstreamOpens \/ UpstreamFails
  BY <1>5, SettlingType, SettlingIInv DEF UpstreamOpens, UpstreamFails
<1>6. CASE UpstreamQuiet
  BY <1>6, QuietType, QuietIInv DEF UpstreamQuiet
<1>. QED
  BY <1>3, <1>4, <1>5, <1>6 DEF Next

LEMMA NextType ==
  ASSUME TypeOK, IInv, Next
  PROVE  TypeOK' /\ IInv'
<1>1. WsTypeOK' /\ IInv'
  BY ServiceStep
<1>2. overtaken' \in SUBSET Calls
  BY DEF Next, NoteOvertaken, InFlight, TypeOK
<1>3. GwTypes'
  <2>1. CASE \E h \in Calls : HandlerStep(h)
    BY <2>1, HandlerTypes
  <2>2. CASE \E c \in Clients : ClientStep(c)
    BY <2>2, ClientTypes
  <2>3. CASE UpstreamOpens \/ UpstreamFails
    <3>1. subs' \in [Clients -> [Keys -> {"none", "reserved"} \cup Calls]]
      BY <2>3, SettledEntries DEF UpstreamOpens, UpstreamFails
    <3>. QED
      BY <2>3, <3>1 DEF UpstreamOpens, UpstreamFails, SettleHandlers, TypeOK, GwTypes
  <2>4. CASE UpstreamQuiet
    BY <2>4 DEF UpstreamQuiet, gwVars, TypeOK, GwTypes
  <2>. QED
    BY <2>1, <2>2, <2>3, <2>4 DEF Next
<1>. QED
  BY <1>1, <1>2, <1>3 DEF TypeOK, GwTypes

-----------------------------------------------------------------------------
(* The inductive step.  A closure and its reference can be parted only by  *)
(* another handler of the same socket and entity that is still in flight,  *)
(* and the reservation such a handler made is not there any more: it has   *)
(* been overtaken.                                                         *)

Rest == StoredHeld /\ CallersEntered /\ ReservationsExclude /\ LeakOnlyIfOvertaken

LEMMA Noted ==
  ASSUME NoteOvertaken
  PROVE  overtaken \subseteq overtaken'
BY DEF NoteOvertaken

LEMMA FlightsEnd ==
  ASSUME ReservationsExclude, NoteOvertaken, InFlight' \subseteq InFlight
  PROVE  ReservationsExclude'
BY Noted DEF ReservationsExclude, SameKey

\* A handler in flight whose key holds a closure has been overtaken.
LEMMA ClosureOvertakes ==
  ASSUME TypeOK, FlightsReserved, NEW g \in InFlight, Stored(g) # "reserved"
  PROVE  g \in overtaken
BY DEF FlightsReserved

\* Steps that touch no call, no key and no handler in flight.
Calm ==
  /\ UNCHANGED <<caller, subs>>
  /\ \A c \in Clients : ws'[c] = "closed" => ws[c] = "closed"
  /\ \A h \in Calls : handler'[h] = handler[h]
                      \/ {handler[h], handler'[h]} \cap {"scope", "entered"} = {}

LEMMA CalmKeeps ==
  ASSUME TypeOK, Rest, NoteOvertaken, Calm
  PROVE  Rest'
<1>1. StoredHeld'
  BY DEF Calm, Rest, StoredHeld
<1>2. CallersEntered'
  BY DEF Calm, Rest, CallersEntered
<1>3. InFlight' \subseteq InFlight
  BY DEF Calm, InFlight
<1>4. ReservationsExclude'
  BY <1>3, FlightsEnd DEF Rest
<1>5. LeakOnlyIfOvertaken'
  <2>1. ASSUME NEW h \in Calls, caller'[h] = "held",
               \A g \in overtaken' : ~ SameKey(g, h)
        PROVE  Stored(h)' = h /\ ws'[ClientOf[h]] # "closed"
    <3>1. \A g \in overtaken : ~ SameKey(g, h)
      BY <2>1, Noted
    <3>2. Stored(h) = h /\ ws[ClientOf[h]] # "closed"
      BY <2>1, <3>1 DEF Calm, Rest, LeakOnlyIfOvertaken, SameKey
    <3>3. Stored(h)' = Stored(h)
      BY DEF Calm, Stored
    <3>. QED
      BY <3>2, <3>3, ClientsAssumption DEF Calm
  <2>. QED
    BY <2>1 DEF LeakOnlyIfOvertaken, SameKey
<1>. QED
  BY <1>1, <1>2, <1>4, <1>5 DEF Rest

LEMMA CalmSteps ==
  ASSUME TypeOK,
         \/ UpstreamQuiet
         \/ \E c \in Clients : \/ Connect(c) \/ ConnectWithoutToken(c)
                               \/ SessionResolves(c) \/ SessionEnds(c)
         \/ \E h \in Calls : SubscribeFrame(h) \/ NoSession(h) \/ AlreadySubscribed(h)
  PROVE  Calm
<1>1. CASE UpstreamQuiet
  BY <1>1, QuietCallers DEF UpstreamQuiet, gwVars, Calm
<1>2. ASSUME NEW c \in Clients,
             Connect(c) \/ ConnectWithoutToken(c) \/ SessionResolves(c) \/ SessionEnds(c)
      PROVE  Calm
  BY <1>2 DEF Connect, ConnectWithoutToken, SessionResolves, SessionEnds, Closing, wsVars,
     TypeOK, Calm
<1>3. ASSUME NEW h \in Calls, SubscribeFrame(h) \/ NoSession(h) \/ AlreadySubscribed(h)
      PROVE  Calm
  BY <1>3, ClientsAssumption DEF SubscribeFrame, NoSession, AlreadySubscribed, Closing,
     wsVars, TypeOK, Calm
<1>. QED
  BY <1>1, <1>2, <1>3

\* Only a reservation begins a flight.
LEMMA NoNewFlight ==
  ASSUME TypeOK, Rest, Next, ~ \E g \in Calls : Reserve(g), NEW h \in Calls, h \in InFlight'
  PROVE  h \in InFlight
<1>1. ASSUME NEW g \in Calls, HandlerStep(g) PROVE h \in InFlight
  <2>1. CASE SubscribeFrame(g) \/ NoSession(g) \/ AlreadySubscribed(g)
    BY <2>1, CalmSteps DEF Calm, InFlight
  <2>2. CASE ScopeRefused(g)
    BY <2>2 DEF ScopeRefused, wsVars, TypeOK, InFlight
  <2>3. CASE ScopeGranted(g)
    <3>1. \A f \in Calls \ {g} : caller'[f] = caller[f] /\ handler'[f] = handler[f]
      BY <2>3, SubscribeCallers DEF ScopeGranted, TypeOK
    <3>. QED
      BY <2>3, <3>1 DEF ScopeGranted, InFlight
  <2>. QED
    BY <1>1, <2>1, <2>2, <2>3 DEF HandlerStep
<1>2. ASSUME NEW c \in Clients, ClientStep(c) PROVE h \in InFlight
  <2>1. CASE Connect(c) \/ ConnectWithoutToken(c) \/ SessionResolves(c) \/ SessionEnds(c)
    BY <2>1, CalmSteps DEF Calm, InFlight
  <2>2. CASE Disconnect(c) \/ Revalidate(c) \/ \E k \in Keys : UnsubscribeFrame(c, k)
    <3>1. UNCHANGED handler /\ \E S \in SUBSET Calls : Release(S)
      BY <2>2 DEF Disconnect, Revalidate, Teardown, UnsubscribeFrame
    <3>. QED
      BY <3>1, ReleaseCallers DEF InFlight
  <2>. QED
    BY <1>2, <2>1, <2>2 DEF ClientStep
<1>3. CASE UpstreamOpens \/ UpstreamFails
  <2>1. UNCHANGED handler
    BY <1>3 DEF UpstreamOpens, UpstreamFails, SettleHandlers
  <2>2. \E outcome \in {"held", "failed"} : Settle(outcome)
    BY <1>3 DEF UpstreamOpens, UpstreamFails, Open, TokenFails, HandshakeFails
  <2>. QED
    BY <2>1, <2>2, SettlingCallers DEF InFlight, TypeOK
<1>4. CASE UpstreamQuiet
  BY <1>4, CalmSteps DEF Calm, InFlight
<1>. QED
  BY <1>1, <1>2, <1>3, <1>4 DEF Next

\* A flight begins with a reservation, and whoever loses one is noted.
LEMMA FlightsKept ==
  ASSUME TypeOK, FlightsReserved, Rest, Next
  PROVE  FlightsReserved'
<1>1. ASSUME NEW h \in InFlight', h \notin InFlight
      PROVE  Stored(h)' = "reserved"
  <2>1. h \in Calls /\ (handler'[h] = "scope" \/ (handler'[h] = "entered"
                                                   /\ caller'[h] = "connecting"))
    BY <1>1 DEF InFlight
  <2>2. handler[h] # "scope" /\ ~ (handler[h] = "entered" /\ caller[h] = "connecting")
    BY <1>1, <2>1 DEF InFlight
  <2>3. CASE \E g \in Calls : Reserve(g)
    <3>. PICK g \in Calls : Reserve(g)
      BY <2>3
    <3>1. g = h
      BY <2>1, <2>2 DEF Reserve, wsVars, TypeOK
    <3>2. Stored(h)' = "reserved"
      BY <3>1, <2>1, StoreIsUpdate, ClientsAssumption, CallsAssumption DEF Reserve, Stored
    <3>. QED
      BY <3>2
  <2>4. CASE ~ \E g \in Calls : Reserve(g)
    <3>1. h \in InFlight
      BY <2>1, <2>2, <2>4, NoNewFlight
    <3>. QED
      BY <3>1, <1>1
  <2>. QED
    BY <2>3, <2>4
<1>2. ASSUME NEW h \in InFlight', h \notin overtaken'
      PROVE  Stored(h)' = "reserved" /\ ws'[ClientOf[h]] # "closed"
  <2>1. CASE h \in InFlight
    BY <1>2, <2>1 DEF Next, NoteOvertaken, FlightsReserved
  <2>2. CASE h \notin InFlight
    BY <1>1, <1>2, <2>2 DEF Next, NoteOvertaken
  <2>. QED
    BY <2>1, <2>2
<1>. QED
  BY <1>2 DEF FlightsReserved

\* A key is reserved only when it is free: an earlier flight was overtaken.
LEMMA ReserveKeeps ==
  ASSUME TypeOK, Rest, FlightsReserved, NoteOvertaken, NEW h \in Calls, Reserve(h)
  PROVE  Rest'
<1>0. /\ handler[h] = "session" /\ Stored(h) = "none"
      /\ UNCHANGED <<caller, ws>>
      /\ \A g \in Calls : handler'[g] = IF g = h THEN "scope" ELSE handler[g]
  BY DEF Reserve, wsVars, TypeOK
<1>1. \A c \in Clients, k \in Keys :
         subs'[c][k] = IF c = ClientOf[h] /\ k = KeyOf[h] THEN "reserved" ELSE subs[c][k]
  BY StoreIsUpdate DEF Reserve
<1>2. StoredHeld'
  BY <1>0, <1>1, ClientsAssumption DEF Rest, StoredHeld
<1>3. CallersEntered'
  BY <1>0 DEF Rest, CallersEntered
<1>4. InFlight' \subseteq InFlight \cup {h}
  BY <1>0 DEF InFlight
<1>5. ASSUME NEW g \in InFlight, SameKey(g, h)
      PROVE  g \in overtaken
  <2>1. Stored(g) = "none"
    BY <1>0, <1>5 DEF SameKey, Stored
  <2>. QED
    BY <2>1, ClosureOvertakes
<1>6. ReservationsExclude'
  BY <1>4, <1>5, Noted DEF Rest, ReservationsExclude, SameKey
<1>7. LeakOnlyIfOvertaken'
  <2>1. ASSUME NEW g \in Calls, caller'[g] = "held",
               \A f \in overtaken' : ~ SameKey(f, g)
        PROVE  Stored(g)' = g /\ ws'[ClientOf[g]] # "closed"
    <3>1. Stored(g) = g /\ ws[ClientOf[g]] # "closed"
      BY <1>0, <2>1, Noted DEF Rest, LeakOnlyIfOvertaken, SameKey
    <3>2. ~ SameKey(g, h)
      BY <1>0, <3>1, ClientsAssumption DEF SameKey, Stored
    <3>3. Stored(g)' = Stored(g)
      BY <1>1, <3>2, ClientsAssumption, CallsAssumption DEF SameKey, Stored
    <3>. QED
      BY <1>0, <3>1, <3>3
  <2>. QED
    BY <2>1 DEF LeakOnlyIfOvertaken, SameKey
<1>. QED
  BY <1>2, <1>3, <1>6, <1>7 DEF Rest

LEMMA ScopeRefusedKeeps ==
  ASSUME TypeOK, Rest, FlightsReserved, NoteOvertaken, NEW h \in Calls, ScopeRefused(h)
  PROVE  Rest'
<1>0. /\ handler[h] = "scope"
      /\ UNCHANGED <<caller, ws>>
      /\ \A g \in Calls : handler'[g] = IF g = h THEN "refused" ELSE handler[g]
  BY DEF ScopeRefused, wsVars, TypeOK
<1>1. \A c \in Clients, k \in Keys :
         subs'[c][k] = IF c = ClientOf[h] /\ k = KeyOf[h] THEN "none" ELSE subs[c][k]
  BY StoreIsUpdate DEF ScopeRefused
<1>2. StoredHeld'
  BY <1>0, <1>1, ClientsAssumption DEF Rest, StoredHeld
<1>3. CallersEntered'
  BY <1>0 DEF Rest, CallersEntered
<1>4. InFlight' \subseteq InFlight /\ h \in InFlight
  BY <1>0 DEF InFlight
<1>5. ReservationsExclude'
  BY <1>4, FlightsEnd DEF Rest
<1>6. LeakOnlyIfOvertaken'
  <2>1. ASSUME NEW g \in Calls, caller'[g] = "held",
               \A f \in overtaken' : ~ SameKey(f, g)
        PROVE  Stored(g)' = g /\ ws'[ClientOf[g]] # "closed"
    <3>1. Stored(g) = g /\ ws[ClientOf[g]] # "closed"
      BY <1>0, <2>1, Noted DEF Rest, LeakOnlyIfOvertaken, SameKey
    <3>2. ~ SameKey(g, h)
      <4>1. h \notin overtaken \/ ~ SameKey(h, g)
        BY <2>1, Noted
      <4>2. SameKey(g, h) => Stored(h) = g
        BY <3>1 DEF SameKey, Stored
      <4>. QED
        BY <1>4, <4>1, <4>2, ClosureOvertakes, ClientsAssumption DEF SameKey
    <3>3. Stored(g)' = Stored(g)
      BY <1>1, <3>2, ClientsAssumption, CallsAssumption DEF SameKey, Stored
    <3>. QED
      BY <1>0, <3>1, <3>3
  <2>. QED
    BY <2>1 DEF LeakOnlyIfOvertaken, SameKey
<1>. QED
  BY <1>2, <1>3, <1>5, <1>6 DEF Rest

\* A new closure is stored where its handler's reservation was, if it still was.
LEMMA ScopeGrantedKeeps ==
  ASSUME TypeOK, Rest, FlightsReserved, NoteOvertaken, NEW h \in Calls, ScopeGranted(h)
  PROVE  Rest'
<1>0. /\ handler[h] = "scope" /\ caller[h] = "idle" /\ UNCHANGED ws
      /\ caller'[h] \in {"held", "connecting"}
      /\ \A g \in Calls : handler'[g] = IF g = h THEN "entered" ELSE handler[g]
      /\ \A g \in Calls \ {h} : caller'[g] = caller[g]
  BY SubscribeCallers DEF ScopeGranted, TypeOK
<1>1. CASE caller'[h] = "held"
  <2>. USE <1>1
  <2>1. \A c \in Clients, k \in Keys :
           subs'[c][k] = IF c = ClientOf[h] /\ k = KeyOf[h] THEN h ELSE subs[c][k]
    BY StoreIsUpdate DEF ScopeGranted
  <2>2. StoredHeld'
    <3>1. ASSUME NEW c \in Clients, NEW k \in Keys, subs'[c][k] \in Calls
          PROVE  /\ caller'[subs'[c][k]] = "held"
                 /\ ClientOf[subs'[c][k]] = c /\ KeyOf[subs'[c][k]] = k
      <4>1. CASE c = ClientOf[h] /\ k = KeyOf[h]
        BY <2>1, <4>1
      <4>2. CASE ~ (c = ClientOf[h] /\ k = KeyOf[h])
        <5>1. subs'[c][k] = subs[c][k]
          BY <2>1, <4>2
        <5>2. /\ caller[subs[c][k]] = "held"
              /\ ClientOf[subs[c][k]] = c /\ KeyOf[subs[c][k]] = k
          BY <3>1, <5>1 DEF Rest, StoredHeld
        <5>. QED
          BY <1>0, <3>1, <5>1, <5>2
      <4>. QED
        BY <4>1, <4>2
    <3>. QED
      BY <3>1 DEF StoredHeld
  <2>3. CallersEntered'
    BY <1>0 DEF Rest, CallersEntered
  <2>4. InFlight' \subseteq InFlight /\ h \in InFlight
    BY <1>0 DEF InFlight
  <2>5. ReservationsExclude'
    BY <2>4, FlightsEnd DEF Rest
  <2>6. LeakOnlyIfOvertaken'
    <3>1. ASSUME NEW g \in Calls, caller'[g] = "held",
                 \A f \in overtaken' : ~ SameKey(f, g)
          PROVE  Stored(g)' = g /\ ws'[ClientOf[g]] # "closed"
      <4>0. \A f \in overtaken : ~ SameKey(f, g)
        BY <3>1, Noted
      <4>1. CASE g = h
        <5>1. h \notin overtaken
          BY <4>0, <4>1 DEF SameKey
        <5>2. ws[ClientOf[h]] # "closed"
          BY <2>4, <5>1 DEF FlightsReserved
        <5>3. Stored(h)' = h
          BY <2>1, ClientsAssumption, CallsAssumption DEF Stored
        <5>. QED
          BY <1>0, <4>1, <5>2, <5>3
      <4>2. CASE g # h
        <5>1. Stored(g) = g /\ ws[ClientOf[g]] # "closed"
          BY <1>0, <3>1, <4>0, <4>2 DEF Rest, LeakOnlyIfOvertaken, SameKey
        <5>2. ~ SameKey(g, h)
          <6>1. h \notin overtaken \/ ~ SameKey(h, g)
            BY <4>0
          <6>2. SameKey(g, h) => Stored(h) = g
            BY <5>1 DEF SameKey, Stored
          <6>. QED
            BY <2>4, <6>1, <6>2, ClosureOvertakes, ClientsAssumption DEF SameKey
        <5>3. Stored(g)' = Stored(g)
          BY <2>1, <5>2, ClientsAssumption, CallsAssumption DEF SameKey, Stored
        <5>. QED
          BY <1>0, <5>1, <5>3
      <4>. QED
        BY <4>1, <4>2
    <3>. QED
      BY <3>1 DEF LeakOnlyIfOvertaken, SameKey
  <2>. QED
    BY <2>2, <2>3, <2>5, <2>6 DEF Rest
<1>2. CASE caller'[h] # "held"
  <2>0. UNCHANGED subs
    BY <1>2 DEF ScopeGranted
  <2>1. StoredHeld'
    BY <1>0, <2>0 DEF Rest, StoredHeld
  <2>2. CallersEntered'
    BY <1>0 DEF Rest, CallersEntered
  <2>3. InFlight' \subseteq InFlight
    BY <1>0 DEF InFlight
  <2>4. ReservationsExclude'
    BY <2>3, FlightsEnd DEF Rest
  <2>5. LeakOnlyIfOvertaken'
    <3>1. ASSUME NEW g \in Calls, caller'[g] = "held",
                 \A f \in overtaken' : ~ SameKey(f, g)
          PROVE  Stored(g)' = g /\ ws'[ClientOf[g]] # "closed"
      <4>1. caller[g] = "held"
        BY <1>0, <1>2, <3>1
      <4>2. Stored(g) = g /\ ws[ClientOf[g]] # "closed"
        BY <3>1, <4>1, Noted DEF Rest, LeakOnlyIfOvertaken, SameKey
      <4>. QED
        BY <1>0, <2>0, <4>2 DEF Stored
    <3>. QED
      BY <3>1 DEF LeakOnlyIfOvertaken, SameKey
  <2>. QED
    BY <2>1, <2>2, <2>4, <2>5 DEF Rest
<1>. QED
  BY <1>1, <1>2

\* The handlers that waited: each is in flight, and with it any other of its key.
LEMMA SettleKeeps ==
  ASSUME TypeOK, Rest, FlightsReserved, NoteOvertaken,
         NEW ok \in BOOLEAN, NEW outcome, outcome = IF ok THEN "held" ELSE "failed",
         Settle(outcome), SettleHandlers(ok)
  PROVE  Rest'
<1>0. /\ UNCHANGED <<ws, handler>>
      /\ \A h \in Calls : caller'[h] = IF caller[h] = "connecting" THEN outcome ELSE caller[h]
  BY SettlingCallers DEF SettleHandlers, TypeOK
<1>1. \A c \in Clients, k \in Keys :
         /\ Mine(c, k) = {} => subs'[c][k] = subs[c][k]
         /\ Mine(c, k) # {} => IF ok THEN subs'[c][k] \in Mine(c, k) ELSE subs'[c][k] = "none"
  BY SettledEntries
<1>2. \A c \in Clients, k \in Keys : \A h \in Mine(c, k) :
         /\ h \in Calls /\ h \in InFlight
         /\ caller[h] = "connecting" /\ ClientOf[h] = c /\ KeyOf[h] = k
  BY DEF Mine, Waiting, InFlight, Rest, CallersEntered
<1>3. StoredHeld'
  <2>1. ASSUME NEW c \in Clients, NEW k \in Keys, subs'[c][k] \in Calls
        PROVE  /\ caller'[subs'[c][k]] = "held"
               /\ ClientOf[subs'[c][k]] = c /\ KeyOf[subs'[c][k]] = k
    <3>1. CASE Mine(c, k) = {}
      <4>1. subs'[c][k] = subs[c][k]
        BY <1>1, <3>1
      <4>2. /\ caller[subs[c][k]] = "held"
            /\ ClientOf[subs[c][k]] = c /\ KeyOf[subs[c][k]] = k
        BY <2>1, <4>1 DEF Rest, StoredHeld
      <4>. QED
        BY <1>0, <2>1, <4>1, <4>2
    <3>2. CASE Mine(c, k) # {}
      <4>1. ok /\ subs'[c][k] \in Mine(c, k)
        BY <1>1, <2>1, <3>2, ClientsAssumption
      <4>2. caller[subs'[c][k]] = "connecting"
        BY <1>2, <4>1
      <4>. QED
        BY <1>0, <1>2, <2>1, <4>1, <4>2
    <3>. QED
      BY <3>1, <3>2
  <2>. QED
    BY <2>1 DEF StoredHeld
<1>4. CallersEntered'
  BY <1>0 DEF Rest, CallersEntered
<1>5. InFlight' \subseteq InFlight
  BY <1>0 DEF InFlight
<1>6. ReservationsExclude'
  BY <1>5, FlightsEnd DEF Rest
<1>7. LeakOnlyIfOvertaken'
  <2>1. ASSUME NEW h \in Calls, caller'[h] = "held",
               \A f \in overtaken' : ~ SameKey(f, h)
        PROVE  Stored(h)' = h /\ ws'[ClientOf[h]] # "closed"
    <3>. DEFINE c == ClientOf[h]
                k == KeyOf[h]
    <3>0. /\ c \in Clients /\ k \in Keys
          /\ \A f \in overtaken : ~ SameKey(f, h)
      BY <2>1, Noted, ClientsAssumption, CallsAssumption
    <3>1. \A g \in Mine(c, k) : g \in InFlight /\ SameKey(g, h) /\ g \notin overtaken
      BY <1>2, <3>0 DEF SameKey
    <3>2. CASE caller[h] = "held"
      <4>1. Stored(h) = h /\ ws[c] # "closed"
        BY <2>1, <3>0, <3>2 DEF Rest, LeakOnlyIfOvertaken, SameKey
      <4>2. ASSUME NEW g \in Mine(c, k)
            PROVE  FALSE
        <5>1. Stored(g) = h
          BY <3>1, <4>1, <4>2 DEF SameKey, Stored
        <5>. QED
          BY <3>1, <4>2, <5>1, ClosureOvertakes, ClientsAssumption
      <4>3. subs'[c][k] = subs[c][k]
        BY <1>1, <3>0, <4>2
      <4>. QED
        BY <1>0, <4>1, <4>3 DEF Stored
    <3>3. CASE caller[h] # "held"
      <4>1. caller[h] = "connecting" /\ ok
        BY <1>0, <2>1, <3>3
      <4>2. h \in Mine(c, k)
        BY <4>1 DEF Mine, Waiting
      <4>3. subs'[c][k] \in Mine(c, k)
        BY <1>1, <3>0, <4>1, <4>2
      <4>4. subs'[c][k] = h
        <5>1. SameKey(subs'[c][k], h)
          BY <3>1, <4>3
        <5>. QED
          BY <3>1, <4>2, <4>3, <5>1 DEF Rest, ReservationsExclude, SameKey
      <4>5. ws[c] # "closed"
        BY <3>1, <4>2 DEF FlightsReserved
      <4>. QED
        BY <1>0, <4>4, <4>5 DEF Stored
    <3>. QED
      BY <3>2, <3>3
  <2>. QED
    BY <2>1 DEF LeakOnlyIfOvertaken, SameKey
<1>. QED
  BY <1>3, <1>4, <1>6, <1>7 DEF Rest

\* What is taken from the map is released, and nothing of another socket or entity.
LEMMA RemovalKeeps ==
  ASSUME TypeOK, Rest, NoteOvertaken, NEW c \in Clients, NEW K \in SUBSET Keys,
         Release({subs[c][k] : k \in K} \cap Calls),
         \A d \in Clients, k \in Keys :
           subs'[d][k] = IF d = c /\ k \in K THEN "none" ELSE subs[d][k],
         UNCHANGED handler,
         \A d \in Clients : ws'[d] = "closed" => ws[d] = "closed" \/ (d = c /\ K = Keys)
  PROVE  Rest'
<1>. DEFINE S == {subs[c][k] : k \in K} \cap Calls
<1>0. \A h \in Calls :
         caller'[h] = IF h \in S /\ caller[h] = "held" THEN "released" ELSE caller[h]
  BY ReleaseCallers
<1>1. \A h \in S : ClientOf[h] = c /\ KeyOf[h] \in K /\ caller[h] = "held"
  BY DEF Rest, StoredHeld
<1>2. StoredHeld'
  <2>1. ASSUME NEW d \in Clients, NEW k \in Keys, subs'[d][k] \in Calls
        PROVE  /\ caller'[subs'[d][k]] = "held"
               /\ ClientOf[subs'[d][k]] = d /\ KeyOf[subs'[d][k]] = k
    <3>1. ~ (d = c /\ k \in K) /\ subs'[d][k] = subs[d][k]
      BY <2>1, ClientsAssumption
    <3>2. /\ caller[subs[d][k]] = "held"
          /\ ClientOf[subs[d][k]] = d /\ KeyOf[subs[d][k]] = k
      BY <2>1, <3>1 DEF Rest, StoredHeld
    <3>3. subs[d][k] \notin S
      BY <1>1, <3>1, <3>2
    <3>. QED
      BY <1>0, <2>1, <3>1, <3>2, <3>3
  <2>. QED
    BY <2>1 DEF StoredHeld
<1>. HIDE DEF S
<1>3. CallersEntered'
  <2>1. \A h \in Calls : caller'[h] # "idle" => caller[h] # "idle"
    BY <1>0
  <2>. QED
    BY <2>1 DEF Rest, CallersEntered
<1>4. InFlight' \subseteq InFlight
  BY <1>0 DEF InFlight
<1>5. ReservationsExclude'
  BY <1>4, FlightsEnd DEF Rest
<1>6. LeakOnlyIfOvertaken'
  <2>1. ASSUME NEW h \in Calls, caller'[h] = "held",
               \A f \in overtaken' : ~ SameKey(f, h)
        PROVE  Stored(h)' = h /\ ws'[ClientOf[h]] # "closed"
    <3>0. ClientOf[h] \in Clients /\ KeyOf[h] \in Keys
      BY ClientsAssumption, CallsAssumption
    <3>1. caller[h] = "held" /\ h \notin S
      BY <1>0, <2>1
    <3>2. Stored(h) = h /\ ws[ClientOf[h]] # "closed"
      BY <2>1, <3>1, Noted DEF Rest, LeakOnlyIfOvertaken, SameKey
    <3>3. ~ (ClientOf[h] = c /\ KeyOf[h] \in K)
      BY <3>1, <3>2 DEF Stored, S
    <3>. QED
      BY <3>0, <3>2, <3>3 DEF Stored
  <2>. QED
    BY <2>1 DEF LeakOnlyIfOvertaken, SameKey
<1>. QED
  BY <1>2, <1>3, <1>5, <1>6 DEF Rest

LEMMA NextKeeps ==
  ASSUME GatewayInductive, Next
  PROVE  GatewayInductive'
<1>0. /\ TypeOK /\ IInv /\ Rest /\ FlightsReserved /\ NoteOvertaken
      /\ TypeOK' /\ IInv'
  BY NextType DEF GatewayInductive, Rest, Next
<1>1. ASSUME NEW h \in Calls, HandlerStep(h)
      PROVE  Rest'
  <2>1. CASE SubscribeFrame(h) \/ NoSession(h) \/ AlreadySubscribed(h)
    BY <1>0, <2>1, CalmSteps, CalmKeeps
  <2>. QED
    BY <1>0, <1>1, <2>1, ReserveKeeps, ScopeRefusedKeeps, ScopeGrantedKeeps DEF HandlerStep
<1>2. ASSUME NEW c \in Clients, ClientStep(c)
      PROVE  Rest'
  <2>1. CASE Connect(c) \/ ConnectWithoutToken(c) \/ SessionResolves(c) \/ SessionEnds(c)
    BY <1>0, <2>1, CalmSteps, CalmKeeps
  <2>2. CASE Disconnect(c) \/ Revalidate(c)
    <3>1. /\ Release({subs[c][k] : k \in Keys} \cap Calls)
          /\ \A d \in Clients, k \in Keys :
               subs'[d][k] = IF d = c /\ k \in Keys THEN "none" ELSE subs[d][k]
      BY <1>0, <2>2, TeardownEntries DEF Disconnect, Revalidate, Teardown
    <3>2. /\ UNCHANGED handler
          /\ \A d \in Clients : ws'[d] = "closed" => ws[d] = "closed" \/ d = c
      BY <1>0, <2>2 DEF Disconnect, Revalidate, Closing, TypeOK
    <3>. QED
      BY <1>0, <3>1, <3>2, RemovalKeeps
  <2>3. CASE \E k \in Keys : UnsubscribeFrame(c, k)
    <3>. PICK k \in Keys : UnsubscribeFrame(c, k)
      BY <2>3
    <3>1. \A d \in Clients, j \in Keys :
             subs'[d][j] = IF d = c /\ j \in {k} THEN "none" ELSE subs[d][j]
      BY <1>0, UnsubscribeEntries
    <3>2. /\ Release({subs[c][j] : j \in {k}} \cap Calls)
          /\ UNCHANGED handler
          /\ \A d \in Clients :
               ws'[d] = "closed" => ws[d] = "closed" \/ (d = c /\ {k} = Keys)
      <4>1. {subs[c][j] : j \in {k}} = {subs[c][k]}
        OBVIOUS
      <4>. QED
        BY <4>1 DEF UnsubscribeFrame
    <3>3. {k} \in SUBSET Keys
      OBVIOUS
    <3>. QED
      BY <1>0, <3>1, <3>2, <3>3, RemovalKeeps
  <2>. QED
    BY <1>2, <2>1, <2>2, <2>3 DEF ClientStep
<1>3. ASSUME UpstreamOpens PROVE Rest'
  <2>1. Settle("held") /\ SettleHandlers(TRUE)
    BY <1>3 DEF UpstreamOpens, Open
  <2>. QED
    BY <1>0, <2>1, SettleKeeps
<1>4. ASSUME UpstreamFails PROVE Rest'
  <2>1. Settle("failed") /\ SettleHandlers(FALSE)
    BY <1>4 DEF UpstreamFails, TokenFails, HandshakeFails
  <2>. QED
    BY <1>0, <2>1, SettleKeeps
<1>5. ASSUME UpstreamQuiet PROVE Rest'
  BY <1>0, <1>5, CalmSteps, CalmKeeps
<1>6. Rest'
  BY <1>1, <1>2, <1>3, <1>4, <1>5 DEF Next
<1>. QED
  <2>1. FlightsReserved'
    BY <1>0, FlightsKept
  <2>. QED
    BY <1>0, <1>6, <2>1 DEF GatewayInductive, Rest

LEMMA InitKeeps == Init => GatewayInductive
<1>. SUFFICES ASSUME Init PROVE GatewayInductive
  OBVIOUS
<1>1. TypeOK /\ IInv
  BY InitType
<1>2. InFlight = {}
  BY DEF Init, InFlight
<1>3. StoredHeld
  BY ClientsAssumption DEF Init, StoredHeld
<1>4. CallersEntered /\ LeakOnlyIfOvertaken
  BY DEF Init, WsInit, CallersEntered, LeakOnlyIfOvertaken
<1>. QED
  BY <1>1, <1>2, <1>3, <1>4 DEF GatewayInductive, FlightsReserved, ReservationsExclude

LEMMA GatewayInvariant == Spec => []GatewayInductive
<1>1. GatewayInductive /\ UNCHANGED vars => GatewayInductive'
  BY DEF GatewayInductive, vars, wsVars, gwVars, TypeOK, WsTypeOK, IInv, RefCountExact,
     Active, UpstreamMatchesMap, SubCmd, OneConnection, Waiting, CmdIdsFresh, StoredHeld,
     CallersEntered, FlightsReserved, ReservationsExclude, InFlight, Stored, LeakOnlyIfOvertaken
<1>. QED
  BY <1>1, InitKeeps, NextKeeps, PTL DEF Spec

-----------------------------------------------------------------------------

\* The gateway's state keeps its types: a map entry is a reservation or a closure.
THEOREM GatewayTypeInvariant == Spec => []TypeOK
BY GatewayInvariant, PTL DEF GatewayInductive

\* The gateway calls the upstream service only in ways it was proved for: counts,
\* upstream subscriptions and the single connection stay as they are there.
THEOREM GatewayKeepsService ==
  Spec => [](RefCountExact /\ UpstreamMatchesMap /\ OneConnection)
BY GatewayInvariant, PTL DEF GatewayInductive, IInv

\* A stored closure has not been called, and its entity is streamed while the socket is open.
THEOREM StoredClosuresStream == Spec => []StoredSubscriptionsStream
<1>1. GatewayInductive => StoredSubscriptionsStream
  <2>. SUFFICES ASSUME GatewayInductive, NEW c \in Clients, NEW k \in Keys,
                       subs[c][k] \in Calls
                PROVE  LET h == subs[c][k]
                       IN /\ caller[h] = "held" /\ ClientOf[h] = c /\ KeyOf[h] = k
                          /\ h \in subscriptions[k].listeners
                          /\ socket = "open" => SubCmd(k) \in tbSubs
    BY DEF StoredSubscriptionsStream
  <2>1. /\ caller[subs[c][k]] = "held"
        /\ ClientOf[subs[c][k]] = c /\ KeyOf[subs[c][k]] = k
    BY DEF GatewayInductive, StoredHeld
  <2>2. subs[c][k] \in subscriptions[k].listeners /\ k \in Active
    BY <2>1 DEF GatewayInductive, IInv, RefCountExact
  <2>3. socket = "open" => SubCmd(k) \in tbSubs
    BY <2>2 DEF GatewayInductive, IInv, UpstreamMatchesMap
  <2>. QED
    BY <2>1, <2>2, <2>3
<1>. QED
  BY <1>1, GatewayInvariant, PTL

\* While a handler has its reservation no other one of the same socket and entity gets
\* past the map.
THEOREM ReservationsAreExclusive == Spec => []ReservationsExclude
BY GatewayInvariant, PTL DEF GatewayInductive

\* No reference is lost but to a handler whose reservation or socket went away in flight.
THEOREM LeaksAreOvertaken == Spec => []LeakOnlyIfOvertaken
BY GatewayInvariant, PTL DEF GatewayInductive
=============================================================================
