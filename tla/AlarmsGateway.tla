--------------------------- MODULE AlarmsGateway ---------------------------
(***************************************************************************)
(* backend/src/alarms/alarms.gateway.ts: the browsers' WebSockets on       *)
(* /ws/alarms.  A subscription is a poll loop of its own: an interval that *)
(* fetches the entity's alarms and pushes the states it has not seen.      *)
(*                                                                         *)
(* Unlike TelemetryGateway it reserves nothing before it awaits (the scope *)
(* check, then the whole first poll), and setInterval() does not wait for  *)
(* the poll before it: polls of one subscription overlap when ThingsBoard  *)
(* answers late.  Frames whose payload is invalid are left out, and so is  *)
(* everything of an alarm but its fingerprint.                             *)
(***************************************************************************)
EXTENDS Naturals, Sequences, SequencesExt

CONSTANTS
  Keys,       \* entities
  Clients,    \* browser sockets
  Calls,      \* subscribe frames
  KeyOf,      \* the entity of each frame
  ClientOf,   \* the socket each frame arrives on
  MaxChanges, \* bound: fingerprints the alarm of an entity goes through
  MaxPolls    \* bound: overlapping polls of one subscription

ASSUME FramesAssumption ==
  KeyOf \in [Calls -> Keys] /\ ClientOf \in [Calls -> Clients] /\ "none" \notin Calls
ASSUME BoundsAssumption == MaxChanges \in Nat /\ MaxPolls \in Nat \ {0}

Slots == 1..MaxPolls

VARIABLES
  ws,        \* readyState of each browser socket
  sessions,  \* the session lookup of a socket
  handler,   \* where each handleSubscribe stands
  subs,      \* clientSubs: "none" or the call whose interval is stored
  intervals, \* the calls whose interval is running
  polls,     \* requests of each call; an answer on its way carries what was read
  seen,      \* the fingerprints each call has met
  alarm,     \* the fingerprint of the alarm on each entity, 0 before it is raised
  inbox      \* alarm frames sent to each browser

vars == <<ws, sessions, handler, subs, intervals, polls, seen, alarm, inbox>>

Fingerprints == 1..MaxChanges

Poll == [at : {"idle", "asked", "answered"}, fp : Fingerprints \cup {0}]

Idle == [at |-> "idle", fp |-> 0]

Asked == [at |-> "asked", fp |-> 0]

TypeOK ==
  /\ ws \in [Clients -> {"new", "open", "closing", "closed"}]
  /\ sessions \in [Clients -> {"absent", "pending", "live", "null"}]
  /\ handler \in [Calls -> {"idle", "session", "scope", "polling", "subscribed", "refused"}]
  /\ subs \in [Clients -> [Keys -> {"none"} \cup Calls]]
  /\ intervals \in SUBSET Calls
  /\ polls \in [Calls -> [Slots -> Poll]]
  /\ seen \in [Calls -> SUBSET Fingerprints]
  /\ alarm \in [Keys -> Fingerprints \cup {0}]
  /\ inbox \in [Clients -> Seq([by : Calls, fp : Fingerprints])]

Init ==
  /\ ws = [c \in Clients |-> "new"]
  /\ sessions = [c \in Clients |-> "absent"]
  /\ handler = [h \in Calls |-> "idle"]
  /\ subs = [c \in Clients |-> [k \in Keys |-> "none"]]
  /\ intervals = {}
  /\ polls = [h \in Calls |-> [i \in Slots |-> Idle]]
  /\ seen = [h \in Calls |-> {}]
  /\ alarm = [k \in Keys |-> 0]
  /\ inbox = [c \in Clients |-> <<>>]

----------------------------------------------------------------------------

Closing(c) == [ws EXCEPT ![c] = IF @ = "open" THEN "closing" ELSE @]

Stored(h) == subs[ClientOf[h]][KeyOf[h]]

\* handleConnection, up to its await.
Connect(c) ==
  /\ ws[c] = "new"
  /\ ws' = [ws EXCEPT ![c] = "open"]
  /\ sessions' = [sessions EXCEPT ![c] = "pending"]
  /\ UNCHANGED <<handler, subs, intervals, polls, seen, alarm, inbox>>

ConnectWithoutToken(c) ==
  /\ ws[c] = "new"
  /\ ws' = [ws EXCEPT ![c] = "closing"]
  /\ UNCHANGED <<sessions, handler, subs, intervals, polls, seen, alarm, inbox>>

SessionResolves(c, found) ==
  /\ sessions[c] = "pending"
  /\ sessions' = [sessions EXCEPT ![c] = IF found THEN "live" ELSE "null"]
  /\ ws' = IF found THEN ws ELSE Closing(c)
  /\ UNCHANGED <<handler, subs, intervals, polls, seen, alarm, inbox>>

Disconnect_intervalsKept(c) ==
  /\ ws[c] \in {"open", "closing"}
  /\ ws' = [ws EXCEPT ![c] = "closed"]
  /\ subs' = [subs EXCEPT ![c] = [k \in Keys |-> "none"]]
  /\ UNCHANGED <<sessions, handler, intervals, polls, seen, alarm, inbox>>

\* The 'close' event: handleDisconnect.
Disconnect(c) ==
  /\ ws[c] \in {"open", "closing"}
  /\ ws' = [ws EXCEPT ![c] = "closed"]
  /\ intervals' = intervals \ {subs[c][k] : k \in Keys}
  /\ subs' = [subs EXCEPT ![c] = [k \in Keys |-> "none"]]
  /\ UNCHANGED <<sessions, handler, polls, seen, alarm, inbox>>

----------------------------------------------------------------------------

\* handleSubscribe is entered, and awaits the session.
SubscribeFrame(h) ==
  /\ handler[h] = "idle"
  /\ ws[ClientOf[h]] \in {"open", "closing"}
  /\ handler' = [handler EXCEPT ![h] = "session"]
  /\ UNCHANGED <<ws, sessions, subs, intervals, polls, seen, alarm, inbox>>

NoSession(h) ==
  /\ handler[h] = "session"
  /\ sessions[ClientOf[h]] \in {"absent", "null"}
  /\ ws' = Closing(ClientOf[h])
  /\ handler' = [handler EXCEPT ![h] = "refused"]
  /\ UNCHANGED <<sessions, subs, intervals, polls, seen, alarm, inbox>>

AlreadySubscribed(h) ==
  /\ handler[h] = "session"
  /\ sessions[ClientOf[h]] = "live"
  /\ Stored(h) # "none"
  /\ handler' = [handler EXCEPT ![h] = "refused"]
  /\ UNCHANGED <<ws, sessions, subs, intervals, polls, seen, alarm, inbox>>

\* isInScope is awaited; the key is not reserved.
CheckScope(h) ==
  /\ handler[h] = "session"
  /\ sessions[ClientOf[h]] = "live"
  /\ Stored(h) = "none"
  /\ handler' = [handler EXCEPT ![h] = "scope"]
  /\ UNCHANGED <<ws, sessions, subs, intervals, polls, seen, alarm, inbox>>

\* isInScope answers no, or rejects.
OutOfScope(h) ==
  /\ handler[h] = "scope"
  /\ handler' = [handler EXCEPT ![h] = "refused"]
  /\ UNCHANGED <<ws, sessions, subs, intervals, polls, seen, alarm, inbox>>

\* poll() up to its request, which takes the first free slot.
Ask(h) ==
  \E i \in Slots :
    /\ polls[h][i] = Idle
    /\ \A j \in 1..(i - 1) : polls[h][j] # Idle
    /\ polls' = [polls EXCEPT ![h][i] = Asked]

InScope(h) ==
  /\ handler[h] = "scope"
  /\ Ask(h)
  /\ handler' = [handler EXCEPT ![h] = "polling"]
  /\ UNCHANGED <<ws, sessions, subs, intervals, seen, alarm, inbox>>

\* The interval fires, whether or not the poll before it has returned.
Tick(h) ==
  /\ h \in intervals
  /\ Ask(h)
  /\ UNCHANGED <<ws, sessions, handler, subs, intervals, seen, alarm, inbox>>

\* After `await poll()' in handleSubscribe: setInterval() and clientSubs.set(),
\* whatever became of the socket and of the key meanwhile.  A poll of the
\* interval has nothing to do after it.
AfterPoll(h) ==
  IF handler[h] = "polling"
    THEN /\ handler' = [handler EXCEPT ![h] = "subscribed"]
         /\ intervals' = intervals \cup {h}
         /\ subs' = [subs EXCEPT ![ClientOf[h]][KeyOf[h]] = h]
    ELSE UNCHANGED <<handler, intervals, subs>>

PollFails_endsLoop(h, i) ==
  /\ polls[h][i] = Asked
  /\ polls' = [polls EXCEPT ![h][i] = Idle]
  /\ IF handler[h] = "polling" THEN AfterPoll(h)
       ELSE intervals' = intervals \ {h} /\ UNCHANGED <<handler, subs>>
  /\ UNCHANGED <<ws, sessions, seen, alarm, inbox>>

\* The request fails; poll() logs it.
PollFails(h, i) ==
  /\ polls[h][i] = Asked
  /\ polls' = [polls EXCEPT ![h][i] = Idle]
  /\ AfterPoll(h)
  /\ UNCHANGED <<ws, sessions, seen, alarm, inbox>>

\* ThingsBoard reads the alarms of the entity.
Answer(h, i) ==
  /\ polls[h][i] = Asked
  /\ polls' = [polls EXCEPT ![h][i] = [at |-> "answered", fp |-> alarm[KeyOf[h]]]]
  /\ UNCHANGED <<ws, sessions, handler, subs, intervals, seen, alarm, inbox>>

Push_unremembered(h, fp) ==
  LET c == ClientOf[h]
  IN /\ UNCHANGED seen
     /\ inbox' = IF fp # 0 /\ ws[c] = "open"
                   THEN [inbox EXCEPT ![c] = Append(@, [by |-> h, fp |-> fp])]
                   ELSE inbox

Push_firstPollSilent(h, fp) ==
  LET c == ClientOf[h]
      unseen == fp # 0 /\ fp \notin seen[h]
  IN /\ seen' = IF unseen THEN [seen EXCEPT ![h] = @ \cup {fp}] ELSE seen
     /\ inbox' = IF unseen /\ ws[c] = "open" /\ handler[h] = "subscribed"
                   THEN [inbox EXCEPT ![c] = Append(@, [by |-> h, fp |-> fp])]
                   ELSE inbox

Push_emptyPageToo(h, fp) ==
  LET c == ClientOf[h]
  IN /\ seen' = IF fp # 0 THEN [seen EXCEPT ![h] = @ \cup {fp}] ELSE seen
     /\ inbox' = IF fp \notin seen[h] /\ ws[c] = "open"
                   THEN [inbox EXCEPT ![c] = Append(@, [by |-> h, fp |-> fp])]
                   ELSE inbox

\* The loop over the page: an unseen fingerprint is remembered, and sent if the
\* socket is open.
Push(h, fp) ==
  LET c == ClientOf[h]
      unseen == fp # 0 /\ fp \notin seen[h]
  IN /\ seen' = IF unseen THEN [seen EXCEPT ![h] = @ \cup {fp}] ELSE seen
     /\ inbox' = IF unseen /\ ws[c] = "open"
                   THEN [inbox EXCEPT ![c] = Append(@, [by |-> h, fp |-> fp])]
                   ELSE inbox

\* The answer reaches poll().
PollReturns(h, i) ==
  /\ polls[h][i].at = "answered"
  /\ Push(h, polls[h][i].fp)
  /\ polls' = [polls EXCEPT ![h][i] = Idle]
  /\ AfterPoll(h)
  /\ UNCHANGED <<ws, sessions, alarm>>

\* handleUnsubscribe
UnsubscribeFrame(c, k) ==
  /\ ws[c] \in {"open", "closing"}
  /\ subs[c][k] # "none"
  /\ intervals' = intervals \ {subs[c][k]}
  /\ subs' = [subs EXCEPT ![c][k] = "none"]
  /\ UNCHANGED <<ws, sessions, handler, polls, seen, alarm, inbox>>

\* ThingsBoard raises, acknowledges or clears the alarm of entity k.
AlarmChanges(k) ==
  /\ alarm[k] < MaxChanges
  /\ alarm' = [alarm EXCEPT ![k] = @ + 1]
  /\ UNCHANGED <<ws, sessions, handler, subs, intervals, polls, seen, inbox>>

----------------------------------------------------------------------------

HandlerStep(h) ==
  \/ SubscribeFrame(h)
  \/ NoSession(h)
  \/ AlreadySubscribed(h)
  \/ CheckScope(h)
  \/ OutOfScope(h)
  \/ InScope(h)
  \/ Tick(h)
  \/ \E i \in Slots : PollFails(h, i) \/ Answer(h, i) \/ PollReturns(h, i)

ClientStep(c) ==
  \/ Connect(c)
  \/ ConnectWithoutToken(c)
  \/ \E found \in BOOLEAN : SessionResolves(c, found)
  \/ Disconnect(c)
  \/ \E k \in Keys : UnsubscribeFrame(c, k)

Next ==
  \/ \E h \in Calls : HandlerStep(h)
  \/ \E c \in Clients : ClientStep(c)
  \/ \E k \in Keys : AlarmChanges(k)

\* Intervals fire, answers are processed, and ThingsBoard does not fail every
\* poll.  Nothing is assumed of the browsers or of the alarms.
Fairness ==
  \A h \in Calls :
    /\ WF_vars(Tick(h))
    /\ \A i \in Slots : SF_vars(Answer(h, i)) /\ WF_vars(PollReturns(h, i))

Spec == Init /\ [][Next]_vars /\ Fairness

----------------------------------------------------------------------------
(* Properties *)

\* A poll loop nothing can stop any more: its interval is in no map.
Orphan(h) == h \in intervals /\ Stored(h) # h

\* A poll loop is orphaned at one place only: where a handler comes back from
\* its first poll and its socket has closed, or another handler of the client
\* has subscribed the entity meanwhile.  Unsubscribing and disconnecting always
\* stop the loops they take out of the map (lines 97-179).
OrphansOnlyByLateStart ==
  [][\A h \in Calls : Orphan(h)' /\ ~ Orphan(h) =>
       \E g \in Calls :
         /\ ClientOf[g] = ClientOf[h] /\ KeyOf[g] = KeyOf[h]
         /\ handler[g] = "polling" /\ handler'[g] = "subscribed"
         /\ ws[ClientOf[g]] = "closed" \/ Stored(g) # "none"]_vars

\* A subscription sends each alarm state once, though its polls overlap and
\* return in any order (139-149).
NoFrameTwice == \A c \in Clients : IsInjective(inbox[c])

\* What a subscription will not send any more because it has seen it, it has
\* sent, as long as the socket is open (142-148).
SeenWasSent ==
  \A h \in Calls : \A fp \in seen[h] :
    LET c == ClientOf[h]
    IN ws[c] = "open" => [by |-> h, fp |-> fp] \in Range(inbox[c])

\* A subscribed browser gets the state of the alarm, if the alarm stays in it
\* and the browser stays: failed and late polls are made up for (139-157).
AlarmReachesSubscriber ==
  \A h \in Calls, fp \in Fingerprints :
    LET c == ClientOf[h]
        wanted == Stored(h) = h /\ ws[c] = "open" /\ alarm[KeyOf[h]] = fp
    IN wanted ~> [by |-> h, fp |-> fp] \in Range(inbox[c]) \/ ~ wanted

\* 03-02-PLAN.md, Task 2: the gateway has TelemetryGateway's per-client cleanup
\* on disconnect.  When a socket has closed and none of its handlers is under
\* way, no poll loop of it is left.
DisconnectStopsPolling ==
  \A c \in Clients :
    /\ ws[c] = "closed"
    /\ \A h \in Calls : ClientOf[h] = c => handler[h] \in {"idle", "subscribed", "refused"}
    => \A h \in intervals : ClientOf[h] # c
=============================================================================
