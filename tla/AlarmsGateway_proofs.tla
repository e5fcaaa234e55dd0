------------------------ MODULE AlarmsGateway_proofs ------------------------
(***************************************************************************)
(* Proofs about AlarmsGateway for all sets of entities, sockets and        *)
(* subscribe frames and any number of polls and alarm changes.             *)
(***************************************************************************)
EXTENDS AlarmsGateway, TLAPS

Frame == [by : Calls, fp : Fingerprints]

-----------------------------------------------------------------------------
(* Types *)

LEMMA InitType == Init => TypeOK
BY BoundsAssumption DEF Init, TypeOK, Poll, Idle, Slots, Fingerprints

LEMMA ClientType ==
  ASSUME TypeOK, NEW c \in Clients, ClientStep(c)
  PROVE  TypeOK'
<1>1. CASE Connect(c) \/ ConnectWithoutToken(c)
  BY <1>1 DEF Connect, ConnectWithoutToken, TypeOK
<1>2. CASE \E found \in BOOLEAN : SessionResolves(c, found)
  BY <1>2 DEF SessionResolves, Closing, TypeOK
<1>3. CASE Disconnect(c)
  <2>1. intervals' \in SUBSET Calls
    BY <1>3 DEF Disconnect, TypeOK
  <2>2. subs' \in [Clients -> [Keys -> {"none"} \cup Calls]]
    BY <1>3 DEF Disconnect, TypeOK
  <2>3. ws' \in [Clients -> {"new", "open", "closing", "closed"}]
    BY <1>3 DEF Disconnect, TypeOK
  <2>. QED
    BY <1>3, <2>1, <2>2, <2>3 DEF Disconnect, TypeOK
<1>4. CASE \E k \in Keys : UnsubscribeFrame(c, k)
  <2>. PICK k \in Keys : UnsubscribeFrame(c, k)
    BY <1>4
  <2>1. subs' = [subs EXCEPT ![c] = [subs[c] EXCEPT ![k] = "none"]]
    BY DEF UnsubscribeFrame, TypeOK
  <2>2. [subs[c] EXCEPT ![k] = "none"] \in [Keys -> {"none"} \cup Calls]
    BY DEF TypeOK
  <2>3. subs' \in [Clients -> [Keys -> {"none"} \cup Calls]]
    BY <2>1, <2>2 DEF TypeOK
  <2>4. intervals' \in SUBSET Calls
    BY DEF UnsubscribeFrame, TypeOK
  <2>. QED
    BY <2>3, <2>4 DEF UnsubscribeFrame, TypeOK
<1>. QED
  BY <1>1, <1>2, <1>3, <1>4 DEF ClientStep

LEMMA AskType ==
  ASSUME TypeOK, NEW h \in Calls, Ask(h)
  PROVE  polls' \in [Calls -> [Slots -> Poll]]
BY DEF Ask, Asked, Poll, TypeOK

LEMMA AfterPollType ==
  ASSUME TypeOK, NEW h \in Calls, AfterPoll(h)
  PROVE  /\ handler' \in
              [Calls -> {"idle", "session", "scope", "polling", "subscribed", "refused"}]
         /\ subs' \in [Clients -> [Keys -> {"none"} \cup Calls]]
         /\ intervals' \in SUBSET Calls
<1>. DEFINE c == ClientOf[h]
            k == KeyOf[h]
<1>1. c \in Clients /\ k \in Keys
  BY FramesAssumption
<1>2. CASE handler[h] = "polling"
  <2>. HIDE DEF c, k
  <2>1. subs' = [subs EXCEPT ![c] = [subs[c] EXCEPT ![k] = h]]
    BY <1>1, <1>2 DEF AfterPoll, TypeOK, c, k
  <2>2. [subs[c] EXCEPT ![k] = h] \in [Keys -> {"none"} \cup Calls]
    BY <1>1 DEF TypeOK
  <2>3. subs' \in [Clients -> [Keys -> {"none"} \cup Calls]]
    BY <1>1, <2>1, <2>2 DEF TypeOK
  <2>. QED
    BY <1>2, <2>3 DEF AfterPoll, TypeOK
<1>3. CASE handler[h] # "polling"
  BY <1>3 DEF AfterPoll, TypeOK
<1>. QED
  BY <1>2, <1>3

LEMMA HandlerType ==
  ASSUME TypeOK, NEW h \in Calls, HandlerStep(h)
  PROVE  TypeOK'
<1>. USE FramesAssumption
<1>1. CASE SubscribeFrame(h) \/ AlreadySubscribed(h) \/ CheckScope(h) \/ OutOfScope(h)
  BY <1>1 DEF SubscribeFrame, AlreadySubscribed, CheckScope, OutOfScope, TypeOK
<1>2. CASE NoSession(h)
  BY <1>2 DEF NoSession, Closing, TypeOK
<1>3. CASE InScope(h)
  BY <1>3, AskType DEF InScope, TypeOK
<1>4. CASE Tick(h)
  BY <1>4, AskType DEF Tick, TypeOK
<1>5. ASSUME NEW i \in Slots, PollFails(h, i)
      PROVE  TypeOK'
  <2>1. polls' \in [Calls -> [Slots -> Poll]]
    BY <1>5 DEF PollFails, Idle, Poll, TypeOK
  <2>. QED
    BY <1>5, <2>1, AfterPollType DEF PollFails, TypeOK
<1>6. ASSUME NEW i \in Slots, Answer(h, i)
      PROVE  TypeOK'
  <2>1. alarm[KeyOf[h]] \in Fingerprints \cup {0}
    BY DEF TypeOK
  <2>2. polls' \in [Calls -> [Slots -> Poll]]
    BY <1>6, <2>1 DEF Answer, Poll, TypeOK
  <2>. QED
    BY <1>6, <2>2 DEF Answer, TypeOK
<1>7. ASSUME NEW i \in Slots, PollReturns(h, i)
      PROVE  TypeOK'
  <2>. DEFINE fp == polls[h][i].fp
              c == ClientOf[h]
  <2>1. fp \in Fingerprints \cup {0} /\ c \in Clients
    BY DEF TypeOK, Poll
  <2>2. polls' \in [Calls -> [Slots -> Poll]]
    BY <1>7 DEF PollReturns, Idle, Poll, TypeOK
  <2>3. fp # 0 => [by |-> h, fp |-> fp] \in Frame
    BY <2>1 DEF Frame
  <2>4. inbox' \in [Clients -> Seq(Frame)]
    <3>1. inbox \in [Clients -> Seq(Frame)]
      BY DEF TypeOK, Frame
    <3>2. fp # 0 => Append(inbox[c], [by |-> h, fp |-> fp]) \in Seq(Frame)
      BY <2>1, <2>3, <3>1
    <3>. QED
      BY <1>7, <2>1, <3>1, <3>2 DEF PollReturns, Push
  <2>5. seen' \in [Calls -> SUBSET Fingerprints]
    BY <1>7, <2>1 DEF PollReturns, Push, TypeOK
  <2>. QED
    BY <1>7, <2>2, <2>4, <2>5, AfterPollType DEF PollReturns, TypeOK, Frame
<1>. QED
  BY <1>1, <1>2, <1>3, <1>4, <1>5, <1>6, <1>7 DEF HandlerStep

LEMMA NextType == TypeOK /\ [Next]_vars => TypeOK'
<1>. SUFFICES ASSUME TypeOK, [Next]_vars
              PROVE  TypeOK'
  OBVIOUS
<1>1. CASE \E h \in Calls : HandlerStep(h)
  BY <1>1, HandlerType
<1>2. CASE \E c \in Clients : ClientStep(c)
  BY <1>2, ClientType
<1>3. CASE \E k \in Keys : AlarmChanges(k)
  <2>. PICK k \in Keys : AlarmChanges(k)
    BY <1>3
  <2>1. alarm[k] + 1 \in Fingerprints
    BY BoundsAssumption DEF AlarmChanges, TypeOK, Fingerprints
  <2>. QED
    BY <2>1 DEF AlarmChanges, TypeOK
<1>4. CASE UNCHANGED vars
  BY <1>4 DEF vars, TypeOK
<1>. QED
  BY <1>1, <1>2, <1>3, <1>4 DEF Next

\* The sockets, the handlers, the poll loops and what they sent keep their types.
THEOREM AlarmsTypeInvariant == Spec => []TypeOK
BY InitType, NextType, PTL DEF Spec

-----------------------------------------------------------------------------
(* What was sent *)

\* A frame in an inbox was sent by a subscription of that socket that has seen its state.
SentWasSeen ==
  \A c \in Clients : \A i \in DOMAIN inbox[c] :
    LET f == inbox[c][i] IN ClientOf[f.by] = c /\ f.fp \in seen[f.by]

\* Before a socket is connected none of its handlers has run.
NothingBeforeConnect ==
  \A h \in Calls : ws[ClientOf[h]] = "new" =>
    /\ handler[h] = "idle" /\ h \notin intervals /\ seen[h] = {}
    /\ \A i \in Slots : polls[h][i].at = "idle"

AlarmsInductive ==
  TypeOK /\ SentWasSeen /\ NothingBeforeConnect /\ NoFrameTwice /\ SeenWasSent

LEMMA InitInductive == Init => AlarmsInductive
<1>. SUFFICES ASSUME Init PROVE AlarmsInductive
  OBVIOUS
<1>1. SentWasSeen /\ NothingBeforeConnect /\ SeenWasSent
  BY FramesAssumption DEF Init, SentWasSeen, NothingBeforeConnect, SeenWasSent, Idle
<1>2. NoFrameTwice
  BY DEF Init, NoFrameTwice, IsInjective
<1>. QED
  BY <1>1, <1>2, InitType DEF AlarmsInductive

\* Steps that send nothing: what was seen and sent is as before, no socket opens after a
\* handler of it has run.
LEMMA QuietStep ==
  ASSUME AlarmsInductive, TypeOK', UNCHANGED <<seen, inbox>>, NothingBeforeConnect',
         \A c \in Clients : ws'[c] = "open" => ws[c] \in {"new", "open"}
  PROVE  AlarmsInductive'
<1>1. SentWasSeen' /\ NoFrameTwice'
  BY DEF AlarmsInductive, SentWasSeen, NoFrameTwice
<1>2. SeenWasSent'
  BY FramesAssumption DEF AlarmsInductive, SeenWasSent, NothingBeforeConnect
<1>. QED
  BY <1>1, <1>2 DEF AlarmsInductive

LEMMA ClientInductive ==
  ASSUME AlarmsInductive, NEW c \in Clients, ClientStep(c)
  PROVE  AlarmsInductive'
<1>1. TypeOK'
  BY ClientType DEF AlarmsInductive
<1>2. /\ \A d \in Clients : ws'[d] = "open" => ws[d] \in {"new", "open"}
      /\ \A d \in Clients : ws'[d] = "new" => ws[d] = "new"
      /\ UNCHANGED <<seen, inbox, handler, polls>> /\ intervals' \subseteq intervals
  BY DEF ClientStep, Connect, ConnectWithoutToken, SessionResolves, Disconnect, UnsubscribeFrame,
         Closing, AlarmsInductive, TypeOK
<1>3. NothingBeforeConnect'
  BY <1>2, FramesAssumption DEF AlarmsInductive, NothingBeforeConnect
<1>. QED
  BY <1>1, <1>2, <1>3, QuietStep

\* An answer reaches poll(): at most one new state is remembered and sent.
LEMMA ReturnInductive ==
  ASSUME AlarmsInductive, NEW h \in Calls, NEW i \in Slots, PollReturns(h, i)
  PROVE  AlarmsInductive'
<1>. DEFINE c == ClientOf[h]
            fp == polls[h][i].fp
<1>. USE FramesAssumption DEF AlarmsInductive
<1>1. TypeOK'
  BY HandlerType DEF HandlerStep
<1>2. c \in Clients /\ fp \in Fingerprints \cup {0} /\ inbox[c] \in Seq(Frame)
  <2>1. inbox \in [Clients -> Seq(Frame)] /\ polls[h][i] \in Poll /\ c \in Clients
    BY DEF TypeOK, Frame
  <2>. QED
    BY <2>1 DEF Poll
<1>3. ws[c] # "new" /\ UNCHANGED ws
  BY DEF PollReturns, NothingBeforeConnect
<1>4. NothingBeforeConnect'
  <2>. SUFFICES ASSUME NEW g \in Calls, ws[ClientOf[g]] = "new"
                PROVE  /\ handler'[g] = "idle" /\ g \notin intervals' /\ seen'[g] = {}
                       /\ \A j \in Slots : polls'[g][j].at = "idle"
    BY <1>3 DEF NothingBeforeConnect
  <2>1. g # h
    BY <1>3
  <2>2. handler'[g] = handler[g] /\ (g \in intervals' => g \in intervals)
    BY <2>1 DEF PollReturns, AfterPoll, TypeOK
  <2>3. seen'[g] = seen[g] /\ polls'[g] = polls[g]
    BY <2>1 DEF PollReturns, Push, TypeOK
  <2>. QED
    BY <2>2, <2>3 DEF NothingBeforeConnect
<1>5. CASE fp = 0 \/ fp \in seen[h]
  <2>1. UNCHANGED <<seen, inbox>>
    BY <1>5 DEF PollReturns, Push
  <2>. QED
    BY <1>1, <1>3, <1>4, <2>1, QuietStep
<1>6. CASE fp # 0 /\ fp \notin seen[h]
  <2>. DEFINE f == [by |-> h, fp |-> fp]
  <2>1. /\ seen' = [seen EXCEPT ![h] = @ \cup {fp}]
        /\ inbox' = IF ws[c] = "open" THEN [inbox EXCEPT ![c] = Append(@, f)] ELSE inbox
    BY <1>6 DEF PollReturns, Push
  <2>2. \A j \in DOMAIN inbox[c] : inbox[c][j] # f
    BY <1>2, <1>6 DEF SentWasSeen
  <2>3. \A g \in Calls : seen'[g] = IF g = h THEN seen[h] \cup {fp} ELSE seen[g]
    BY <2>1 DEF TypeOK
  <2>4. \A d \in Clients : \A j \in DOMAIN inbox[d] : inbox[d][j] \in Frame
    <3>1. inbox \in [Clients -> Seq(Frame)]
      BY DEF TypeOK, Frame
    <3>. QED
      BY <3>1
  <2>. HIDE DEF f
  <2>5. CASE ws[c] = "open"
    <3>1. /\ \A d \in Clients : d # c => inbox'[d] = inbox[d]
          /\ inbox'[c] = Append(inbox[c], f)
      BY <1>2, <2>1, <2>5 DEF TypeOK
    <3>2. /\ DOMAIN inbox'[c] = 1..(Len(inbox[c]) + 1)
          /\ DOMAIN inbox[c] = 1..Len(inbox[c]) /\ Len(inbox[c]) \in Nat
          /\ \A j \in DOMAIN inbox[c] : inbox'[c][j] = inbox[c][j]
          /\ inbox'[c][Len(inbox[c]) + 1] = f
      <4>1. f \in Frame
        BY <1>2, <1>6 DEF f, Frame
      <4>. QED
        BY <1>2, <3>1, <4>1
    <3>3. SentWasSeen'
      <4>. SUFFICES ASSUME NEW d \in Clients, NEW j \in DOMAIN inbox'[d]
                    PROVE  /\ ClientOf[inbox'[d][j].by] = d
                           /\ inbox'[d][j].fp \in seen'[inbox'[d][j].by]
        BY DEF SentWasSeen
      <4>1. CASE d # c \/ j \in DOMAIN inbox[c]
        <5>1. j \in DOMAIN inbox[d] /\ inbox'[d][j] = inbox[d][j]
          BY <3>1, <3>2, <4>1
        <5>. QED
          BY <2>3, <2>4, <5>1 DEF SentWasSeen, Frame
      <4>2. CASE d = c /\ j \notin DOMAIN inbox[c]
        <5>1. inbox'[d][j] = f
          BY <3>2, <4>2
        <5>. QED
          BY <2>3, <4>2, <5>1 DEF f
      <4>. QED
        BY <4>1, <4>2
    <3>4. NoFrameTwice'
      <4>1. IsInjective(inbox'[c])
        <5>1. \A m, n \in DOMAIN inbox[c] : inbox[c][m] = inbox[c][n] => m = n
          BY <1>2 DEF NoFrameTwice, IsInjective
        <5>. QED
          BY <2>2, <3>2, <5>1 DEF IsInjective
      <4>. QED
        BY <3>1, <4>1 DEF NoFrameTwice
    <3>5. SeenWasSent'
      <4>. SUFFICES ASSUME NEW g \in Calls, NEW e \in seen'[g], ws[ClientOf[g]] = "open"
                    PROVE  [by |-> g, fp |-> e] \in Range(inbox'[ClientOf[g]])
        BY <1>3 DEF SeenWasSent
      <4>1. CASE g = h /\ e = fp
        BY <3>2, <4>1 DEF Range, f
      <4>2. CASE g # h \/ e # fp
        <5>1. [by |-> g, fp |-> e] \in Range(inbox[ClientOf[g]])
          BY <2>3, <4>2 DEF SeenWasSent
        <5>. QED
          BY <3>1, <3>2, <5>1 DEF Range
      <4>. QED
        BY <4>1, <4>2
    <3>. QED
      BY <1>1, <1>4, <3>3, <3>4, <3>5
  <2>6. CASE ws[c] # "open"
    <3>1. SentWasSeen' /\ NoFrameTwice'
      BY <2>1, <2>3, <2>4, <2>6 DEF SentWasSeen, NoFrameTwice, Frame
    <3>2. SeenWasSent'
      BY <1>3, <2>1, <2>3, <2>6 DEF SeenWasSent
    <3>. QED
      BY <1>1, <1>4, <3>1, <3>2
  <2>. QED
    BY <2>5, <2>6
<1>. QED
  BY <1>2, <1>5, <1>6

LEMMA HandlerInductive ==
  ASSUME AlarmsInductive, NEW h \in Calls, HandlerStep(h)
  PROVE  AlarmsInductive'
<1>. USE FramesAssumption DEF AlarmsInductive
<1>1. CASE \E i \in Slots : PollReturns(h, i)
  BY <1>1, ReturnInductive
<1>2. CASE ~ \E i \in Slots : PollReturns(h, i)
  <2>1. TypeOK'
    BY HandlerType
  <2>2. UNCHANGED <<seen, inbox>>
    BY <1>2 DEF HandlerStep, SubscribeFrame, NoSession, AlreadySubscribed, CheckScope, OutOfScope,
                InScope, Tick, PollFails, Answer
  <2>3. /\ \A c \in Clients : ws'[c] = "open" => ws[c] = "open"
        /\ \A c \in Clients : ws'[c] = "new" => ws[c] = "new"
    BY <1>2 DEF HandlerStep, SubscribeFrame, NoSession, AlreadySubscribed, CheckScope, OutOfScope,
                InScope, Tick, PollFails, Answer, Closing, TypeOK
  <2>4. ws[ClientOf[h]] # "new"
    BY <1>2 DEF HandlerStep, SubscribeFrame, NoSession, AlreadySubscribed, CheckScope, OutOfScope,
                InScope, Tick, PollFails, Answer, NothingBeforeConnect, Asked
  <2>5. \A g \in Calls : g # h =>
          handler'[g] = handler[g] /\ polls'[g] = polls[g]
          /\ (g \in intervals' => g \in intervals)
    BY <1>2 DEF HandlerStep, SubscribeFrame, NoSession, AlreadySubscribed, CheckScope, OutOfScope,
                InScope, Tick, Ask, PollFails, Answer, AfterPoll, TypeOK
  <2>6. NothingBeforeConnect'
    BY <2>2, <2>3, <2>4, <2>5 DEF NothingBeforeConnect
  <2>. QED
    BY <2>1, <2>2, <2>3, <2>6, QuietStep
<1>. QED
  BY <1>1, <1>2

LEMMA NextInductive == AlarmsInductive /\ [Next]_vars => AlarmsInductive'
<1>. SUFFICES ASSUME AlarmsInductive, [Next]_vars
              PROVE  AlarmsInductive'
  OBVIOUS
<1>1. CASE \E h \in Calls : HandlerStep(h)
  BY <1>1, HandlerInductive
<1>2. CASE \E c \in Clients : ClientStep(c)
  BY <1>2, ClientInductive
<1>3. CASE (\E k \in Keys : AlarmChanges(k)) \/ UNCHANGED vars
  <2>1. TypeOK'
    BY NextType DEF AlarmsInductive
  <2>2. UNCHANGED <<ws, handler, intervals, polls, seen, inbox>>
    BY <1>3 DEF AlarmChanges, vars
  <2>3. NothingBeforeConnect'
    BY <2>2 DEF AlarmsInductive, NothingBeforeConnect
  <2>. QED
    BY <2>1, <2>2, <2>3, QuietStep
<1>. QED
  BY <1>1, <1>2, <1>3 DEF Next

LEMMA AlarmsInvariant == Spec => []AlarmsInductive
BY InitInductive, NextInductive, PTL DEF Spec

\* However its polls overlap, a subscription sends each state of an alarm once (139-149).
THEOREM FramesAreSentOnce == Spec => []NoFrameTwice
<1>1. AlarmsInductive => NoFrameTwice
  BY DEF AlarmsInductive
<1>. QED
  BY <1>1, AlarmsInvariant, PTL

\* A state a subscription will not send again was sent, as long as its socket is open.
THEOREM SeenStatesWereSent == Spec => []SeenWasSent
<1>1. AlarmsInductive => SeenWasSent
  BY DEF AlarmsInductive
<1>. QED
  BY <1>1, AlarmsInvariant, PTL

-----------------------------------------------------------------------------
(* Poll loops *)

LEMMA OrphanStep ==
  ASSUME TypeOK, [Next]_vars, NEW h \in Calls, Orphan(h)', ~ Orphan(h)
  PROVE  \E g \in Calls :
           /\ ClientOf[g] = ClientOf[h] /\ KeyOf[g] = KeyOf[h]
           /\ handler[g] = "polling" /\ handler'[g] = "subscribed"
           /\ ws[ClientOf[g]] = "closed" \/ Stored(g) # "none"
<1>. USE FramesAssumption
<1>1. CASE \E c \in Clients : Disconnect(c)
  BY <1>1 DEF Disconnect, Orphan, Stored, TypeOK
<1>2. CASE \E c \in Clients, k \in Keys : UnsubscribeFrame(c, k)
  BY <1>2 DEF UnsubscribeFrame, Orphan, Stored, TypeOK
<1>3. ASSUME NEW g \in Calls, AfterPoll(g), handler[g] = "polling"
      PROVE  /\ ClientOf[g] = ClientOf[h] /\ KeyOf[g] = KeyOf[h]
             /\ handler[g] = "polling" /\ handler'[g] = "subscribed" /\ Stored(g) # "none"
  <2>1. g # h
    BY <1>3 DEF AfterPoll, Orphan, Stored, TypeOK
  <2>2. h \in intervals /\ Stored(h) = h
    BY <1>3, <2>1 DEF AfterPoll, Orphan
  <2>3. ClientOf[g] = ClientOf[h] /\ KeyOf[g] = KeyOf[h]
    <3>1. \A c \in Clients, k \in Keys :
            c # ClientOf[g] \/ k # KeyOf[g] => subs'[c][k] = subs[c][k]
      BY <1>3 DEF AfterPoll, TypeOK
    <3>2. subs'[ClientOf[h]][KeyOf[h]] # h
      BY DEF Orphan, Stored
    <3>. QED
      BY <2>2, <3>1, <3>2 DEF Stored
  <2>. QED
    BY <1>3, <2>2, <2>3 DEF AfterPoll, Stored, TypeOK
<1>4. CASE UNCHANGED <<intervals, subs>>
  BY <1>4 DEF Orphan, Stored
<1>5. CASE \E g \in Calls, i \in Slots : PollFails(g, i) \/ PollReturns(g, i)
  BY <1>3, <1>4, <1>5 DEF PollFails, PollReturns, AfterPoll
<1>. QED
  BY <1>1, <1>2, <1>4, <1>5
  DEF Next, HandlerStep, ClientStep, SubscribeFrame, NoSession, AlreadySubscribed, CheckScope,
      OutOfScope, InScope, Tick, Answer, Connect, ConnectWithoutToken, SessionResolves,
      AlarmChanges, vars

\* A poll loop is orphaned only where a handler comes back from its first poll too late
\* (157): unsubscribing and disconnecting stop the loops they take out of the map.
THEOREM LoopsAreStopped == Spec => OrphansOnlyByLateStart
<1>1. TypeOK /\ [Next]_vars =>
        [\A h \in Calls : Orphan(h)' /\ ~ Orphan(h) =>
           \E g \in Calls :
             /\ ClientOf[g] = ClientOf[h] /\ KeyOf[g] = KeyOf[h]
             /\ handler[g] = "polling" /\ handler'[g] = "subscribed"
             /\ ws[ClientOf[g]] = "closed" \/ Stored(g) # "none"]_vars
  BY OrphanStep
<1>. QED
  BY <1>1, AlarmsTypeInvariant, PTL DEF Spec, OrphansOnlyByLateStart
=============================================================================
