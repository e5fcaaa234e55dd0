-------------------------- MODULE TelemetryGateway --------------------------
(***************************************************************************)
(* backend/src/telemetry/telemetry.gateway.ts on top of ThingsboardWs: the *)
(* browsers' WebSockets on /ws/telemetry, the session each was opened      *)
(* with, and the map of unsubscribe closures kept per browser socket.      *)
(*                                                                         *)
(* handleSubscribe awaits three times (the session, isInScope, the         *)
(* upstream subscribe); unsubscribe frames, disconnects and session        *)
(* revalidations run between.  A call of ThingsboardWs is one handled      *)
(* `subscribe' frame.  Frames whose payload is invalid change no state and *)
(* are left out.                                                           *)
(***************************************************************************)
EXTENDS ThingsboardWs

CONSTANTS
  Clients,  \* browser sockets
  ClientOf  \* the browser socket each subscribe frame arrives on

ASSUME ClientsAssumption ==
  /\ ClientOf \in [Calls -> Clients]
  /\ "none" \notin Calls /\ "reserved" \notin Calls

VARIABLES
  ws,          \* readyState of each browser socket
  alive,       \* is the session key still in Redis?  (AuthService)
  sessions,    \* the looked-up session of a socket: a pending promise, then its value
  revalidator, \* is the 60 s revalidation interval of a socket running?
  subs,        \* clientSubs: "none", "reserved" (the no-op) or a call's closure
  handler,     \* where each handleSubscribe stands
  overtaken    \* history: handlers whose reservation was removed under them

gwVars == <<ws, alive, sessions, revalidator, subs, handler>>

vars == <<wsVars, gwVars, overtaken>>

TypeOK ==
  /\ WsTypeOK
  /\ ws \in [Clients -> {"new", "open", "closing", "closed"}]
  /\ alive \in [Clients -> BOOLEAN]
  /\ sessions \in [Clients -> {"absent", "pending", "live", "null"}]
  /\ revalidator \in [Clients -> BOOLEAN]
  /\ subs \in [Clients -> [Keys -> {"none", "reserved"} \cup Calls]]
  /\ handler \in [Calls -> {"idle", "session", "scope", "entered", "refused"}]
  /\ overtaken \in SUBSET Calls

Init ==
  /\ WsInit
  /\ ws = [c \in Clients |-> "new"]
  /\ alive = [c \in Clients |-> TRUE]
  /\ sessions = [c \in Clients |-> "absent"]
  /\ revalidator = [c \in Clients |-> FALSE]
  /\ subs = [c \in Clients |-> [k \in Keys |-> "none"]]
  /\ handler = [h \in Calls |-> "idle"]
  /\ overtaken = {}

----------------------------------------------------------------------------

\* client.close(1008): no effect on a socket already closing or closed.
Closing(c) == [ws EXCEPT ![c] = IF @ = "open" THEN "closing" ELSE @]

Stored(h) == subs[ClientOf[h]][KeyOf[h]]

\* clientSubs.set(key, v) and clientSubs.delete(key) for handler h.
Store(h, v) == subs' = [subs EXCEPT ![ClientOf[h]][KeyOf[h]] = v]

\* handleConnection, up to its first await.
Connect(c) ==
  /\ ws[c] = "new"
  /\ ws' = [ws EXCEPT ![c] = "open"]
  /\ sessions' = [sessions EXCEPT ![c] = "pending"]
  /\ UNCHANGED <<wsVars, alive, revalidator, subs, handler>>

ConnectWithoutToken(c) ==
  /\ ws[c] = "new"
  /\ ws' = [ws EXCEPT ![c] = "closing"]
  /\ UNCHANGED <<wsVars, alive, sessions, revalidator, subs, handler>>

SessionResolves_noInterval(c) ==
  /\ sessions[c] = "pending"
  /\ sessions' = [sessions EXCEPT ![c] = IF alive[c] THEN "live" ELSE "null"]
  /\ ws' = IF alive[c] THEN ws ELSE Closing(c)
  /\ UNCHANGED <<wsVars, alive, revalidator, subs, handler>>

\* handleConnection resumes.  The socket may have closed meanwhile: the
\* interval is set all the same.
SessionResolves(c) ==
  /\ sessions[c] = "pending"
  /\ IF alive[c]
       THEN /\ sessions' = [sessions EXCEPT ![c] = "live"]
            /\ revalidator' = [revalidator EXCEPT ![c] = TRUE]
            /\ UNCHANGED ws
       ELSE /\ sessions' = [sessions EXCEPT ![c] = "null"]
            /\ ws' = Closing(c)
            /\ UNCHANGED revalidator
  /\ UNCHANGED <<wsVars, alive, subs, handler>>

\* Logout, or expiry of the Redis key.
SessionEnds(c) ==
  /\ alive[c]
  /\ alive' = [alive EXCEPT ![c] = FALSE]
  /\ UNCHANGED <<wsVars, ws, sessions, revalidator, subs, handler>>

Teardown_mapOnly(c) ==
  /\ subs' = [subs EXCEPT ![c] = [k \in Keys |-> "none"]]
  /\ revalidator' = [revalidator EXCEPT ![c] = FALSE]
  /\ UNCHANGED wsVars

\* handleDisconnect(client): also called by the revalidation.
Teardown(c) ==
  /\ Release({subs[c][k] : k \in Keys} \cap Calls)
  /\ subs' = [subs EXCEPT ![c] = [k \in Keys |-> "none"]]
  /\ revalidator' = [revalidator EXCEPT ![c] = FALSE]

\* The 'close' event of a browser socket.
Disconnect(c) ==
  /\ ws[c] \in {"open", "closing"}
  /\ ws' = [ws EXCEPT ![c] = "closed"]
  /\ Teardown(c)
  /\ UNCHANGED <<alive, sessions, handler>>

\* The revalidation tick that finds the session gone.  A tick that finds it,
\* or that Redis does not answer, changes nothing.
Revalidate(c) ==
  /\ revalidator[c]
  /\ ~ alive[c]
  /\ Teardown(c)
  /\ ws' = Closing(c)
  /\ UNCHANGED <<alive, sessions, handler>>

----------------------------------------------------------------------------

\* handleSubscribe is entered, and awaits the session.
SubscribeFrame(h) ==
  /\ handler[h] = "idle"
  /\ ws[ClientOf[h]] \in {"open", "closing"}
  /\ handler' = [handler EXCEPT ![h] = "session"]
  /\ UNCHANGED <<wsVars, ws, alive, sessions, revalidator, subs>>

NoSession(h) ==
  /\ handler[h] = "session"
  /\ sessions[ClientOf[h]] \in {"absent", "null"}
  /\ ws' = Closing(ClientOf[h])
  /\ handler' = [handler EXCEPT ![h] = "refused"]
  /\ UNCHANGED <<wsVars, alive, sessions, revalidator, subs>>

AlreadySubscribed(h) ==
  /\ handler[h] = "session"
  /\ sessions[ClientOf[h]] = "live"
  /\ Stored(h) # "none"
  /\ handler' = [handler EXCEPT ![h] = "refused"]
  /\ UNCHANGED <<wsVars, ws, alive, sessions, revalidator, subs>>

Reserve_afterScope(h) ==
  /\ handler[h] = "session"
  /\ sessions[ClientOf[h]] = "live"
  /\ Stored(h) = "none"
  /\ handler' = [handler EXCEPT ![h] = "scope"]
  /\ UNCHANGED <<wsVars, ws, alive, sessions, revalidator, subs>>

\* The key is reserved with a no-op closure, and isInScope is awaited.
Reserve(h) ==
  /\ handler[h] = "session"
  /\ sessions[ClientOf[h]] = "live"
  /\ Stored(h) = "none"
  /\ Store(h, "reserved")
  /\ handler' = [handler EXCEPT ![h] = "scope"]
  /\ UNCHANGED <<wsVars, ws, alive, sessions, revalidator>>

ScopeRefused_keyKept(h) ==
  /\ handler[h] = "scope"
  /\ handler' = [handler EXCEPT ![h] = "refused"]
  /\ UNCHANGED <<wsVars, ws, alive, sessions, revalidator, subs>>

\* isInScope answers no, or rejects.
ScopeRefused(h) ==
  /\ handler[h] = "scope"
  /\ Store(h, "none")
  /\ handler' = [handler EXCEPT ![h] = "refused"]
  /\ UNCHANGED <<wsVars, ws, alive, sessions, revalidator>>

\* tbWs.subscribe() is called; if it need not wait for the upstream socket its
\* closure is stored in the same microtask run.
ScopeGranted(h) ==
  /\ handler[h] = "scope"
  /\ Subscribe(h)
  /\ IF caller'[h] = "held" THEN Store(h, h) ELSE UNCHANGED subs
  /\ handler' = [handler EXCEPT ![h] = "entered"]
  /\ UNCHANGED <<ws, alive, sessions, revalidator>>

\* What the handlers awaiting the upstream socket do when it settles: store
\* their closure, or delete their key.
SettleHandlers(ok) ==
  /\ subs' = [c \in Clients |-> [k \in Keys |->
       LET mine == {h \in Waiting : ClientOf[h] = c /\ KeyOf[h] = k}
       IN IF mine = {} THEN subs[c][k]
          ELSE IF ok THEN CHOOSE h \in mine : TRUE
          ELSE "none"]]
  /\ UNCHANGED <<ws, alive, sessions, revalidator, handler>>

UpstreamOpens == Open /\ SettleHandlers(TRUE)

UpstreamFails == (TokenFails \/ HandshakeFails) /\ SettleHandlers(FALSE)

UpstreamQuiet == QuietNext /\ UNCHANGED gwVars

UnsubscribeFrame_keyKept(c, k) ==
  /\ ws[c] \in {"open", "closing"}
  /\ subs[c][k] # "none"
  /\ Release({subs[c][k]} \cap Calls)
  /\ UNCHANGED gwVars

\* handleUnsubscribe: a frame for a key the map does not have changes nothing.
UnsubscribeFrame(c, k) ==
  /\ ws[c] \in {"open", "closing"}
  /\ subs[c][k] # "none"
  /\ Release({subs[c][k]} \cap Calls)
  /\ subs' = [subs EXCEPT ![c][k] = "none"]
  /\ UNCHANGED <<ws, alive, sessions, revalidator, handler>>

----------------------------------------------------------------------------

\* Handlers between the reservation of their key and its replacement.
InFlight ==
  {h \in Calls : \/ handler[h] = "scope"
                 \/ handler[h] = "entered" /\ caller[h] = "connecting"}

\* History: an unsubscribe frame, a teardown or another handler of the same
\* key removed a reservation that was there, or the socket closed before.
NoteOvertaken ==
  overtaken' = overtaken \cup
    {h \in InFlight' : \/ h \in InFlight /\ Stored(h) = "reserved" /\ Stored(h)' # "reserved"
                       \/ ws'[ClientOf[h]] = "closed"}

HandlerStep(h) ==
  \/ SubscribeFrame(h)
  \/ NoSession(h)
  \/ AlreadySubscribed(h)
  \/ Reserve(h)
  \/ ScopeRefused(h)
  \/ ScopeGranted(h)

ClientStep(c) ==
  \/ Connect(c)
  \/ ConnectWithoutToken(c)
  \/ SessionResolves(c)
  \/ SessionEnds(c)
  \/ Disconnect(c)
  \/ Revalidate(c)
  \/ \E k \in Keys : UnsubscribeFrame(c, k)

Next ==
  /\ \/ \E h \in Calls : HandlerStep(h)
     \/ \E c \in Clients : ClientStep(c)
     \/ UpstreamOpens
     \/ UpstreamFails
     \/ UpstreamQuiet
  /\ NoteOvertaken

\* Redis answers every lookup and at last a revalidation, ThingsBoard every
\* scope request, token lookup and handshake (if only with a failure).  What
\* the browsers do is not fair.
Fairness ==
  /\ \A c \in Clients :
       /\ WF_vars(SessionResolves(c) /\ NoteOvertaken)
       /\ WF_vars(Revalidate(c) /\ NoteOvertaken)
  /\ \A h \in Calls :
       /\ WF_vars((ScopeRefused(h) \/ ScopeGranted(h)) /\ NoteOvertaken)
  /\ WF_vars(TokenResolves /\ UNCHANGED gwVars /\ NoteOvertaken)
  /\ WF_vars((UpstreamOpens \/ UpstreamFails) /\ connecting = "handshake" /\ NoteOvertaken)

Spec == Init /\ [][Next]_vars /\ Fairness

----------------------------------------------------------------------------
(* Properties *)

\* A closure in the map is one that was not called yet, of this client and
\* entity; and a client with such a closure is streamed its entity whenever
\* the upstream socket is open (handleSubscribe with subscribe/unsubscribe).
StoredSubscriptionsStream ==
  \A c \in Clients, k \in Keys :
    subs[c][k] \in Calls =>
      LET h == subs[c][k]
      IN /\ caller[h] = "held" /\ ClientOf[h] = c /\ KeyOf[h] = k
         /\ h \in subscriptions[k].listeners
         /\ socket = "open" => SubCmd(k) \in tbSubs

\* Of two subscribe frames for one client and entity handled at once, only one
\* gets past the map while it has its reservation: none takes a second
\* reference upstream, unless an unsubscribe frame, a teardown or the failure
\* of an overtaken handler freed the key (lines 153-160).
ReservationsExclude ==
  \A g, h \in InFlight :
    g # h /\ ClientOf[g] = ClientOf[h] /\ KeyOf[g] = KeyOf[h]
    => g \in overtaken \/ h \in overtaken

\* Every reference a handler took upstream can be given back: its closure is
\* in the map of a socket whose 'close' event is to come.  A closure can be lost
\* only for a client and entity of which some handler lost its reservation, or
\* its socket, while it was in flight (lines 117-198).
LeakOnlyIfOvertaken ==
  \A h \in Calls :
    /\ caller[h] = "held"
    /\ \A g \in overtaken : ClientOf[g] # ClientOf[h] \/ KeyOf[g] # KeyOf[h]
    => Stored(h) = h /\ ws[ClientOf[h]] # "closed"

\* A reserved key does not stay reserved: the handler behind it stores its
\* closure or frees the key, whatever Redis, ThingsBoard and the socket answer.
ReservationsSettle ==
  \A c \in Clients, k \in Keys : subs[c][k] = "reserved" ~> subs[c][k] # "reserved"

\* Logout and expiry end the stream of an authenticated socket without the
\* browser sending anything (lines 93-114).
SessionEndClosesSocket ==
  \A c \in Clients :
    ws[c] = "open" /\ sessions[c] # "absent" /\ ~ alive[c] ~> ws[c] # "open"

\* 03-01-PLAN.md, AC-4: after an unsubscribe frame or a disconnect the backend
\* stops relaying, and gives up the upstream subscription with the last client
\* that needs it.  No subscribe of the client being in flight, its listeners
\* and references are gone.
UnsubscribeAndDisconnectCleanUp ==
  \A c \in Clients, k \in Keys :
    LET calls == {h \in Calls : ClientOf[h] = c /\ KeyOf[h] = k}
    IN /\ ws[c] = "closed" \/ subs[c][k] = "none"
       /\ calls \cap InFlight = {}
       => \A h \in calls : caller[h] # "held"
=============================================================================
