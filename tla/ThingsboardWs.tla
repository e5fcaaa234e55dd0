--------------------------- MODULE ThingsboardWs ---------------------------
(***************************************************************************)
(* backend/src/thingsboard/thingsboard-ws.service.ts: the one upstream     *)
(* WebSocket to ThingsBoard, the ref-counted subscriptions multiplexed on  *)
(* it, and its reconnection.                                               *)
(*                                                                         *)
(* Node runs one callback at a time and drains its microtasks before the   *)
(* next, so a step here is one callback with the continuations it settles: *)
(* the 'open' event also resumes every subscribe() that awaited it.  The   *)
(* points where other callbacks run in between are the token lookup, the   *)
(* handshake, the reconnect timer and the time between a socket leaving    *)
(* OPEN and its 'close' event.                                             *)
(***************************************************************************)
EXTENDS Naturals, FiniteSets

CONSTANTS
  Keys,      \* entities ("<entityType>:<entityId>")
  Calls,     \* calls of subscribe(), each with a listener of its own
  KeyOf,     \* the entity each call subscribes to
  MaxFrames  \* bound: telemetry frames in flight from ThingsBoard

ASSUME CallsAssumption == IsFiniteSet(Calls) /\ KeyOf \in [Calls -> Keys]
ASSUME FramesAssumption == MaxFrames \in Nat

VARIABLES
  socket,        \* this.socket: "null", "open", or "closing" until its 'close' event
  connecting,    \* this.connecting: "no", else awaiting the "token" or the "handshake"
  dying,         \* other sockets (failed or replaced) whose 'close' event is to come
  timers,        \* reconnect timers set and not yet fired
  nextCmdId,
  subscriptions, \* Keys -> entry, NoEntry for a key the Map does not have
  destroyed,
  caller,        \* where each call of subscribe() stands
  tbSubs,        \* subscriptions ThingsBoard has open on this.socket
  frames         \* telemetry frames sent by ThingsBoard, not yet handled

wsVars == <<socket, connecting, dying, timers, nextCmdId, subscriptions,
            destroyed, caller, tbSubs, frames>>

NoEntry == [cmdId |-> 0, refCount |-> 0, listeners |-> {}]

TbSub == [cmdId : Nat, key : Keys]

WsTypeOK ==
  /\ socket \in {"null", "open", "closing"}
  /\ connecting \in {"no", "token", "handshake"}
  /\ dying \in Nat
  /\ timers \in Nat
  /\ nextCmdId \in Nat \ {0}
  /\ subscriptions \in
       [Keys -> [cmdId : Nat, refCount : Nat, listeners : SUBSET Calls]]
  /\ destroyed \in BOOLEAN
  /\ caller \in [Calls -> {"idle", "connecting", "held", "failed", "released"}]
  /\ tbSubs \in SUBSET TbSub
  /\ frames \in SUBSET TbSub

WsInit ==
  /\ socket = "null"
  /\ connecting = "no"
  /\ dying = 0
  /\ timers = 0
  /\ nextCmdId = 1
  /\ subscriptions = [k \in Keys |-> NoEntry]
  /\ destroyed = FALSE
  /\ caller = [c \in Calls |-> "idle"]
  /\ tbSubs = {}
  /\ frames = {}

----------------------------------------------------------------------------

\* The keys of the subscriptions Map.
Active == {k \in Keys : subscriptions[k] # NoEntry}

\* The tsSubCmd that sendSubscribe() sends for key k.
SubCmd(k) == [cmdId |-> subscriptions[k].cmdId, key |-> k]

\* The calls whose promise is pending on the connection attempt.
Waiting == {c \in Calls : caller[c] = "connecting"}

Settle(outcome) ==
  caller' = [c \in Calls |-> IF c \in Waiting THEN outcome ELSE caller[c]]

EnsureConnected_openIgnored ==
  connecting' = IF connecting # "no" THEN connecting ELSE "token"

\* ensureConnected(): an open socket is used, an attempt under way is shared.
EnsureConnected ==
  connecting' = IF socket = "open" \/ connecting # "no" THEN connecting ELSE "token"

\* scheduleReconnect(): the delay is abstracted, a timer may fire at any time.
ScheduleReconnect ==
  timers' = IF destroyed \/ Active = {} THEN timers ELSE timers + 1

FreshCmdId_reused == Cardinality(Active) + 1

\* this.nextCmdId++ for a new entry.
FreshCmdId == nextCmdId

\* subscribe(): only the call that takes refCount to 1 connects and sends.
Subscribe(c) ==
  LET k == KeyOf[c]
      found == k \in Active
      cmd == IF found THEN subscriptions[k].cmdId ELSE FreshCmdId
      refs == subscriptions[k].refCount + 1
  IN /\ caller[c] = "idle"
     /\ subscriptions' = [subscriptions EXCEPT ![k] =
          [cmdId |-> cmd, refCount |-> refs, listeners |-> @.listeners \cup {c}]]
     /\ nextCmdId' = IF found THEN nextCmdId ELSE nextCmdId + 1
     /\ \/ /\ refs # 1
           /\ caller' = [caller EXCEPT ![c] = "held"]
           /\ UNCHANGED <<connecting, tbSubs>>
        \/ /\ refs = 1
           /\ socket = "open"
           /\ tbSubs' = tbSubs \cup {[cmdId |-> cmd, key |-> k]}
           /\ caller' = [caller EXCEPT ![c] = "held"]
           /\ UNCHANGED connecting
        \/ /\ refs = 1
           /\ socket # "open"
           /\ EnsureConnected
           /\ caller' = [caller EXCEPT ![c] = "connecting"]
           /\ UNCHANGED tbSubs
     /\ UNCHANGED <<socket, dying, timers, destroyed, frames>>

Leaving_flagless(S) == S

\* A closure does nothing the second time it is called.
Leaving(S) == {c \in S : caller[c] = "held"}

\* refCount once the closures of S have decremented it.
RefsWithout(k, S) == subscriptions[k].refCount - Cardinality({c \in S : KeyOf[c] = k})

\* The unsubscribe closures of S are called, one after another in one callback.
\* An entry whose refCount reaches 0 is deleted, and its subscription closed
\* upstream if the socket is open.
Release(S) ==
  LET gone == Leaving(S)
      dropped == {k \in Active : RefsWithout(k, gone) <= 0}
  IN /\ subscriptions' = [k \in Keys |->
          IF k \in Active \ dropped
            THEN [cmdId |-> subscriptions[k].cmdId, refCount |-> RefsWithout(k, gone),
                  listeners |-> subscriptions[k].listeners \ gone]
            ELSE NoEntry]
     /\ tbSubs' = IF socket = "open"
                    THEN {s \in tbSubs :
                            \A k \in dropped : s.cmdId # subscriptions[k].cmdId}
                    ELSE tbSubs
     /\ caller' = [c \in Calls |-> IF c \in gone THEN "released" ELSE caller[c]]
     /\ UNCHANGED <<socket, connecting, dying, timers, nextCmdId, destroyed, frames>>

Unsubscribe(c) ==
  /\ caller[c] \in {"held", "released"}
  /\ Release({c})

----------------------------------------------------------------------------

\* connect(): getToken() resolves and the socket is created ...
TokenResolves ==
  /\ connecting = "token"
  /\ connecting' = "handshake"
  /\ UNCHANGED <<socket, dying, timers, nextCmdId, subscriptions, destroyed,
                 caller, tbSubs, frames>>

\* ... or rejects (or the socket cannot be created), and so does every
\* subscribe() awaiting the attempt.  There is no socket, so no 'close' event and no
\* scheduleReconnect(); the refCount and listener of the rejected calls stay.
TokenFails ==
  /\ connecting = "token"
  /\ connecting' = "no"
  /\ Settle("failed")
  /\ UNCHANGED <<socket, dying, timers, nextCmdId, subscriptions, destroyed,
                 tbSubs, frames>>

Resubscribed_omitted == tbSubs

\* The loop of the 'open' handler over the Map.
Resubscribed == {SubCmd(k) : k \in Active}

\* 'open': this.socket is replaced and every entry is subscribed again.
Open ==
  /\ connecting = "handshake"
  /\ connecting' = "no"
  /\ socket' = "open"
  /\ dying' = IF socket = "null" THEN dying ELSE dying + 1
  /\ tbSubs' = Resubscribed
  /\ Settle("held")
  /\ UNCHANGED <<timers, nextCmdId, subscriptions, destroyed, frames>>

HandshakeFails_schedulesToo ==
  /\ connecting = "handshake"
  /\ connecting' = "no"
  /\ dying' = dying + 1
  /\ ScheduleReconnect
  /\ Settle("failed")
  /\ UNCHANGED <<socket, nextCmdId, subscriptions, destroyed, tbSubs, frames>>

\* 'error' before 'open': the attempt rejects, its 'close' event is to come.
HandshakeFails ==
  /\ connecting = "handshake"
  /\ connecting' = "no"
  /\ dying' = dying + 1
  /\ Settle("failed")
  /\ UNCHANGED <<socket, timers, nextCmdId, subscriptions, destroyed, tbSubs, frames>>

\* The connection ends: close frame, network error.
Drop ==
  /\ socket = "open"
  /\ socket' = "closing"
  /\ tbSubs' = {}
  /\ UNCHANGED <<connecting, dying, timers, nextCmdId, subscriptions, destroyed,
                 caller, frames>>

\* 'close' of this.socket.
CloseCurrent ==
  /\ socket = "closing"
  /\ socket' = "null"
  /\ ScheduleReconnect
  /\ UNCHANGED <<connecting, dying, nextCmdId, subscriptions, destroyed, caller,
                 tbSubs, frames>>

CloseOther_unscheduled ==
  /\ dying > 0
  /\ dying' = dying - 1
  /\ UNCHANGED <<socket, connecting, timers, nextCmdId, subscriptions, destroyed,
                 caller, tbSubs, frames>>

\* 'close' of a socket that is not (or no longer) this.socket.
CloseOther ==
  /\ dying > 0
  /\ dying' = dying - 1
  /\ ScheduleReconnect
  /\ UNCHANGED <<socket, connecting, nextCmdId, subscriptions, destroyed, caller,
                 tbSubs, frames>>

ReconnectTimer_unguarded ==
  /\ timers' = timers - 1
  /\ IF destroyed \/ Active = {} THEN UNCHANGED connecting ELSE EnsureConnected
  /\ UNCHANGED <<socket, dying, nextCmdId, subscriptions, destroyed, caller,
                 tbSubs, frames>>

\* The callback of setTimeout().
ReconnectTimer ==
  /\ timers > 0
  /\ timers' = timers - 1
  /\ IF destroyed \/ Active = {} THEN UNCHANGED connecting ELSE EnsureConnected
  /\ UNCHANGED <<socket, dying, nextCmdId, subscriptions, destroyed, caller,
                 tbSubs, frames>>

\* onModuleDestroy()
Destroy ==
  /\ ~ destroyed
  /\ destroyed' = TRUE
  /\ IF socket = "open" THEN socket' = "closing" /\ tbSubs' = {}
                        ELSE UNCHANGED <<socket, tbSubs>>
  /\ UNCHANGED <<connecting, dying, timers, nextCmdId, subscriptions, caller, frames>>

----------------------------------------------------------------------------

\* ThingsBoard pushes an update on one of the open subscriptions.
Push(s) ==
  /\ Cardinality(frames) < MaxFrames
  /\ frames' = frames \cup {s}
  /\ UNCHANGED <<socket, connecting, dying, timers, nextCmdId, subscriptions,
                 destroyed, caller, tbSubs>>

\* handleMessage(): the listeners a frame is handed to.
Recipients(f) ==
  UNION {subscriptions[k].listeners :
           k \in {j \in Active : subscriptions[j].cmdId = f.cmdId}}

HandleMessage(f) ==
  /\ frames' = frames \ {f}
  /\ UNCHANGED <<socket, connecting, dying, timers, nextCmdId, subscriptions,
                 destroyed, caller, tbSubs>>

----------------------------------------------------------------------------

\* The steps that settle no call of subscribe().
QuietNext ==
  \/ TokenResolves
  \/ Drop
  \/ CloseCurrent
  \/ CloseOther
  \/ ReconnectTimer
  \/ Destroy
  \/ \E s \in tbSubs : Push(s)
  \/ \E f \in frames : HandleMessage(f)

WsNext ==
  \/ \E c \in Calls : Subscribe(c)
  \/ \E c \in Calls : Unsubscribe(c)
  \/ TokenFails
  \/ Open
  \/ HandshakeFails
  \/ QuietNext

\* Node's event loop delivers every event and fires every timer; ThingsBoard,
\* retried for ever, accepts a handshake at last.
WsFairness ==
  /\ WF_wsVars(TokenResolves \/ TokenFails)
  /\ SF_wsVars(Open)
  /\ WF_wsVars(CloseCurrent)
  /\ WF_wsVars(CloseOther)
  /\ WF_wsVars(ReconnectTimer)

WsSpec == WsInit /\ [][WsNext]_wsVars

WsFairSpec == WsSpec /\ WsFairness
----------------------------------------------------------------------------
(* Properties *)

\* Every listener that unsubscribe() has not removed is counted once: the
\* refCount of an entry is the number of its listeners, those are the calls
\* that hold it, still wait for the socket, or failed while waiting, and a key
\* without such a call has no entry (subscribe/unsubscribe, lines 46-88).
RefCountExact ==
  \A k \in Keys :
    LET e == subscriptions[k]
    IN /\ e.refCount = Cardinality(e.listeners)
       /\ e.listeners = {c \in Calls : /\ KeyOf[c] = k
                                      /\ caller[c] \in {"held", "connecting", "failed"}}
       /\ k \in Active <=> e.listeners # {}

\* On an open socket ThingsBoard streams exactly the entries of the Map, each
\* under its current cmdId, whatever order of subscribe(), unsubscribe(), drops
\* and reconnections led there; on any other it streams nothing (112-121).
UpstreamMatchesMap ==
  tbSubs = IF socket = "open" THEN {SubCmd(k) : k \in Active} ELSE {}

\* There is one upstream connection: none is being opened while this.socket is
\* open, and nobody waits for a connection that is not being opened (90-103).
OneConnection ==
  /\ connecting # "no" => socket # "open"
  /\ Waiting # {} => connecting # "no"

\* A frame still in flight when its entity was unsubscribed and subscribed again
\* never reaches the listeners of another entity: cmdIds are not reused (186-203).
FramesReachOwnListeners ==
  \A f \in frames : \A c \in Recipients(f) : KeyOf[c] = f.key

\* Retries do not multiply: connection attempts, sockets about to close and
\* reconnect timers together are at most the calls that ever subscribed.
RetryChainsBounded ==
  dying + timers + (IF socket = "null" THEN 0 ELSE 1) + (IF connecting = "no" THEN 0 ELSE 1)
    <= Cardinality({c \in Calls : caller[c] # "idle"})

\* Something is under way that leads to another connection attempt.
RecoveryPending ==
  \/ connecting # "no"
  \/ socket = "closing"
  \/ dying > 0
  \/ timers > 0

\* Somebody subscribed, and nothing will ever reconnect the socket for them.
Stranded == ~ destroyed /\ Active # {} /\ socket # "open" /\ ~ RecoveryPending

\* While an entry waits for the socket, a recovery is under way; the one step
\* that can lose it is a failed token lookup in connect() (105-150).
RecoveryLostOnlyByTokenFailure ==
  [][~ Stranded /\ Stranded' => TokenFails]_wsVars

\* Every subscribed entity is streamed again after any outage, unless the
\* service was stranded by a failed token lookup.
ActiveResumes ==
  \A k \in Keys :
    k \in Active ~> SubCmd(k) \in tbSubs \/ k \notin Active \/ destroyed \/ Stranded

\* The service implements the feed its callers rely on.
Feed == INSTANCE SharedFeed WITH
  holders <- [k \in Keys |-> subscriptions[k].listeners],
  up      <- socket = "open",
  feed    <- {s.key : s \in tbSubs}

FeedSpec == Feed!Spec

\* 03-01-PLAN.md, AC-5: when the upstream socket drops, the backend reconnects
\* and re-establishes every active subscription: each entity a caller holds is
\* streamed again, if it is held long enough.
DropIsRecovered ==
  \A k \in Keys :
    LET wanted == \E c \in Calls : KeyOf[c] = k /\ caller[c] = "held"
    IN socket = "closing" /\ wanted ~> SubCmd(k) \in tbSubs \/ ~ wanted \/ destroyed
=============================================================================
