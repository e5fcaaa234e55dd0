------------------------ MODULE ThingsboardWs_proofs ------------------------
(***************************************************************************)
(* Proofs about ThingsboardWs for every set of entities and every finite   *)
(* set of calls: its invariants, then that it implements SharedFeed and    *)
(* loses the recovery of a dropped connection at one step only.            *)
(***************************************************************************)
EXTENDS ThingsboardWs, FiniteSetTheorems, TLAPS

LEMMA CallSets ==
  ASSUME NEW S \in SUBSET Calls
  PROVE  IsFiniteSet(S) /\ Cardinality(S) \in Nat
BY CallsAssumption, FS_Subset, FS_CardinalityType

LEMMA RefsWithoutType ==
  ASSUME WsTypeOK, NEW k \in Keys, NEW S \in SUBSET Calls
  PROVE  RefsWithout(k, S) \in Int
<1>1. {c \in S : KeyOf[c] = k} \in SUBSET Calls
  OBVIOUS
<1>. QED
  BY <1>1, CallSets DEF RefsWithout, WsTypeOK

LEMMA WsInitType == WsInit => WsTypeOK
<1>. SUFFICES ASSUME WsInit PROVE WsTypeOK
  OBVIOUS
<1>1. subscriptions \in [Keys -> [cmdId : Nat, refCount : Nat, listeners : SUBSET Calls]]
  BY DEF WsInit, NoEntry
<1>2. caller \in [Calls -> {"idle", "connecting", "held", "failed", "released"}]
  BY DEF WsInit
<1>3. nextCmdId \in Nat \ {0} /\ dying \in Nat /\ timers \in Nat
  BY DEF WsInit
<1>4. tbSubs \in SUBSET TbSub /\ frames \in SUBSET TbSub
  BY DEF WsInit
<1>5. /\ socket \in {"null", "open", "closing"}
      /\ connecting \in {"no", "token", "handshake"}
      /\ destroyed \in BOOLEAN
  BY DEF WsInit
<1>. QED
  BY <1>1, <1>2, <1>3, <1>4, <1>5 DEF WsTypeOK

LEMMA SubscribeType ==
  ASSUME WsTypeOK, NEW c \in Calls, Subscribe(c)
  PROVE  WsTypeOK'
<1>. DEFINE k == KeyOf[c]
<1>1. k \in Keys
  BY CallsAssumption
<1>2. subscriptions' \in
        [Keys -> [cmdId : Nat, refCount : Nat, listeners : SUBSET Calls]]
  BY <1>1 DEF Subscribe, WsTypeOK, FreshCmdId
<1>3. tbSubs' \in SUBSET TbSub
  BY <1>1 DEF Subscribe, WsTypeOK, FreshCmdId, TbSub
<1>4. nextCmdId' \in Nat \ {0}
  BY DEF Subscribe, WsTypeOK
<1>5. /\ caller' \in [Calls -> {"idle", "connecting", "held", "failed", "released"}]
      /\ connecting' \in {"no", "token", "handshake"}
  BY DEF Subscribe, WsTypeOK, EnsureConnected
<1>. QED
  BY <1>2, <1>3, <1>4, <1>5 DEF Subscribe, WsTypeOK

LEMMA ReleaseType ==
  ASSUME WsTypeOK, NEW S \in SUBSET Calls, Release(S)
  PROVE  WsTypeOK'
<1>. DEFINE gone == Leaving(S)
            dropped == {k \in Active : RefsWithout(k, gone) <= 0}
<1>1. gone \in SUBSET Calls
  BY DEF Leaving
<1>2. ASSUME NEW k \in Active \ dropped
      PROVE  RefsWithout(k, gone) \in Nat
  BY <1>1, <1>2, RefsWithoutType DEF Active
<1>3. subscriptions' \in
        [Keys -> [cmdId : Nat, refCount : Nat, listeners : SUBSET Calls]]
  BY <1>2 DEF Release, WsTypeOK, NoEntry, Active
<1>4. caller' \in [Calls -> {"idle", "connecting", "held", "failed", "released"}]
  BY DEF Release, WsTypeOK
<1>5. tbSubs' \in SUBSET TbSub
  BY DEF Release, WsTypeOK
<1>. QED
  BY <1>3, <1>4, <1>5 DEF Release, WsTypeOK

LEMMA SettlingType ==
  ASSUME WsTypeOK, TokenFails \/ Open \/ HandshakeFails
  PROVE  WsTypeOK'
<1>1. CASE TokenFails
  BY <1>1 DEF TokenFails, Settle, WsTypeOK
<1>2. CASE HandshakeFails
  BY <1>2 DEF HandshakeFails, Settle, WsTypeOK
<1>3. CASE Open
  <2>1. Resubscribed \in SUBSET TbSub
    BY DEF Resubscribed, SubCmd, Active, TbSub, WsTypeOK
  <2>. QED
    BY <1>3, <2>1 DEF Open, Settle, WsTypeOK
<1>. QED
  BY <1>1, <1>2, <1>3

LEMMA QuietType ==
  ASSUME WsTypeOK, QuietNext
  PROVE  WsTypeOK'
<1>1. CASE TokenResolves
  BY <1>1 DEF TokenResolves, WsTypeOK
<1>2. CASE Drop
  BY <1>2 DEF Drop, WsTypeOK
<1>3. CASE CloseCurrent
  BY <1>3 DEF CloseCurrent, ScheduleReconnect, WsTypeOK
<1>4. CASE CloseOther
  BY <1>4 DEF CloseOther, ScheduleReconnect, WsTypeOK
<1>5. CASE ReconnectTimer
  BY <1>5 DEF ReconnectTimer, EnsureConnected, WsTypeOK
<1>6. CASE Destroy
  BY <1>6 DEF Destroy, WsTypeOK
<1>7. CASE \E s \in tbSubs : Push(s)
  BY <1>7 DEF Push, WsTypeOK
<1>8. CASE \E f \in frames : HandleMessage(f)
  BY <1>8 DEF HandleMessage, WsTypeOK
<1>. QED
  BY <1>1, <1>2, <1>3, <1>4, <1>5, <1>6, <1>7, <1>8 DEF QuietNext

LEMMA WsNextType == WsTypeOK /\ [WsNext]_wsVars => WsTypeOK'
<1>. SUFFICES ASSUME WsTypeOK, [WsNext]_wsVars
              PROVE  WsTypeOK'
  OBVIOUS
<1>1. CASE \E c \in Calls : Subscribe(c)
  BY <1>1, SubscribeType
<1>2. CASE \E c \in Calls : Unsubscribe(c)
  <2>1. PICK c \in Calls : Release({c})
    BY <1>2 DEF Unsubscribe
  <2>2. {c} \in SUBSET Calls
    OBVIOUS
  <2>. QED
    BY <2>1, <2>2, ReleaseType
<1>3. CASE TokenFails \/ Open \/ HandshakeFails
  BY <1>3, SettlingType
<1>4. CASE QuietNext
  BY <1>4, QuietType
<1>5. CASE UNCHANGED wsVars
  BY <1>5 DEF wsVars, WsTypeOK
<1>. QED
  BY <1>1, <1>2, <1>3, <1>4, <1>5 DEF WsNext

\* Every variable of the service keeps its type, whatever the entities and
\* however many calls of subscribe() there are.
THEOREM WsTypeInvariant == WsSpec => []WsTypeOK
BY WsInitType, WsNextType, PTL DEF WsSpec
----------------------------------------------------------------------------

\* The inductive invariant: the properties the runs check, and that cmdIds in
\* the Map and in flight were all issued and name one entity each.
CmdIdsFresh ==
  /\ \A k \in Active : subscriptions[k].cmdId # 0 /\ subscriptions[k].cmdId < nextCmdId
  /\ \A j, k \in Active : subscriptions[j].cmdId = subscriptions[k].cmdId => j = k
  /\ \A f \in frames :
       /\ f.cmdId < nextCmdId
       /\ \A k \in Active : subscriptions[k].cmdId = f.cmdId => k = f.key

IInv ==
  /\ WsTypeOK
  /\ RefCountExact
  /\ UpstreamMatchesMap
  /\ OneConnection
  /\ CmdIdsFresh

\* An entry is in the Map exactly if its refCount is positive.
LEMMA ActiveHasRefs ==
  ASSUME WsTypeOK, RefCountExact, NEW k \in Keys
  PROVE  k \in Active <=> subscriptions[k].refCount # 0
<1>1. IsFiniteSet(subscriptions[k].listeners)
  BY CallSets DEF WsTypeOK
<1>2. Cardinality(subscriptions[k].listeners) = 0 <=> subscriptions[k].listeners = {}
  BY <1>1, FS_EmptySet
<1>. QED
  BY <1>2 DEF RefCountExact

LEMMA InitIInv == WsInit => IInv
<1>. SUFFICES ASSUME WsInit PROVE IInv
  OBVIOUS
<1>1. WsTypeOK
  BY WsInitType
<1>2. Active = {}
  BY DEF Active, WsInit
<1>3. RefCountExact
  BY <1>2, FS_EmptySet DEF RefCountExact, WsInit, NoEntry
<1>4. UpstreamMatchesMap /\ OneConnection /\ CmdIdsFresh
  BY <1>2 DEF UpstreamMatchesMap, OneConnection, CmdIdsFresh, Waiting, WsInit
<1>. QED
  BY <1>1, <1>3, <1>4 DEF IInv

LEMMA SubscribeIInv ==
  ASSUME IInv, NEW c \in Calls, Subscribe(c)
  PROVE  IInv'
<1>. DEFINE k == KeyOf[c]
            e == subscriptions[k]
            cmd == IF k \in Active THEN e.cmdId ELSE nextCmdId
<1>. USE DEF IInv
<1>1. WsTypeOK'
  BY SubscribeType
<1>2. k \in Keys
  BY CallsAssumption
<1>3. subscriptions' = [subscriptions EXCEPT ![k] =
        [cmdId |-> cmd, refCount |-> e.refCount + 1, listeners |-> e.listeners \cup {c}]]
  BY <1>2 DEF Subscribe, FreshCmdId, WsTypeOK
<1>4. c \notin e.listeners
  BY <1>2 DEF RefCountExact, Subscribe
<1>5. Active' = Active \cup {k}
  BY <1>2, <1>3 DEF Active, NoEntry, WsTypeOK
<1>6. /\ caller' \in {[caller EXCEPT ![c] = "held"], [caller EXCEPT ![c] = "connecting"]}
      /\ caller[c] = "idle"
  BY DEF Subscribe
<1>7. RefCountExact'
  <2>. SUFFICES ASSUME NEW j \in Keys
       PROVE /\ subscriptions'[j].refCount = Cardinality(subscriptions'[j].listeners)
             /\ subscriptions'[j].listeners =
                  {d \in Calls : KeyOf[d] = j /\ caller'[d] \in {"held", "connecting", "failed"}}
             /\ j \in Active' <=> subscriptions'[j].listeners # {}
    BY DEF RefCountExact
  <2>1. CASE j = k
    <3>1. Cardinality(e.listeners \cup {c}) = Cardinality(e.listeners) + 1
      BY <1>2, <1>4, CallSets, FS_AddElement DEF WsTypeOK
    <3>2. e.refCount = Cardinality(e.listeners)
      BY <1>2 DEF RefCountExact
    <3>3. e.listeners \cup {c} =
            {d \in Calls : KeyOf[d] = k /\ caller'[d] \in {"held", "connecting", "failed"}}
      BY <1>2, <1>6 DEF RefCountExact, WsTypeOK
    <3>4. /\ subscriptions'[j].refCount = e.refCount + 1
          /\ subscriptions'[j].listeners = e.listeners \cup {c}
      BY <1>2, <1>3, <2>1 DEF WsTypeOK
    <3>. QED
      BY <1>5, <2>1, <3>1, <3>2, <3>3, <3>4
  <2>2. CASE j # k
    <3>1. subscriptions'[j] = subscriptions[j]
      BY <1>3, <2>2 DEF WsTypeOK
    <3>2. \A d \in Calls : KeyOf[d] = j => caller'[d] = caller[d]
      BY <1>6, <2>2 DEF WsTypeOK
    <3>. QED
      BY <1>5, <2>2, <3>1, <3>2 DEF RefCountExact
  <2>. QED
    BY <2>1, <2>2
<1>8. e.refCount + 1 = 1 <=> k \notin Active
  BY <1>2, ActiveHasRefs DEF WsTypeOK
<1>9. \A j \in Active : SubCmd(j)' = SubCmd(j)
  BY <1>2, <1>3 DEF SubCmd, WsTypeOK, Active
<1>10. SubCmd(k)' = [cmdId |-> cmd, key |-> k]
  BY <1>2, <1>3 DEF SubCmd, WsTypeOK
<1>11. UpstreamMatchesMap'
  <2>1. CASE e.refCount + 1 = 1 /\ socket = "open"
    <3>1. tbSubs' = tbSubs \cup {[cmdId |-> cmd, key |-> k]} /\ socket' = "open"
      BY <2>1 DEF Subscribe, FreshCmdId
    <3>2. {SubCmd(j) : j \in Active}' = {SubCmd(j) : j \in Active} \cup {SubCmd(k)'}
      BY <1>5, <1>9
    <3>. QED
      BY <2>1, <3>1, <3>2, <1>10 DEF UpstreamMatchesMap
  <2>2. CASE e.refCount + 1 # 1 /\ socket = "open"
    <3>1. tbSubs' = tbSubs /\ socket' = "open"
      BY <2>2 DEF Subscribe
    <3>2. k \in Active
      BY <1>8, <2>2
    <3>3. {SubCmd(j) : j \in Active}' = {SubCmd(j) : j \in Active}
      BY <1>5, <1>9, <3>2
    <3>. QED
      BY <2>2, <3>1, <3>3 DEF UpstreamMatchesMap
  <2>3. CASE socket # "open"
    BY <2>3 DEF Subscribe, UpstreamMatchesMap
  <2>. QED
    BY <2>1, <2>2, <2>3
<1>12. OneConnection'
  <2>1. CASE e.refCount + 1 = 1 /\ socket # "open"
    BY <2>1 DEF Subscribe, EnsureConnected, OneConnection, WsTypeOK
  <2>2. CASE ~ (e.refCount + 1 = 1 /\ socket # "open")
    <3>1. caller' = [caller EXCEPT ![c] = "held"] /\ connecting' = connecting /\ socket' = socket
      BY <2>2 DEF Subscribe
    <3>2. Waiting' \subseteq Waiting
      BY <3>1 DEF Waiting, WsTypeOK
    <3>. QED
      BY <3>1, <3>2 DEF OneConnection
  <2>. QED
    BY <2>1, <2>2
<1>13. CmdIdsFresh'
  <2>1. nextCmdId' = (IF k \in Active THEN nextCmdId ELSE nextCmdId + 1) /\ frames' = frames
    BY DEF Subscribe
  <2>2. \A j \in Active : subscriptions'[j].cmdId = subscriptions[j].cmdId
    BY <1>2, <1>3 DEF WsTypeOK, Active
  <2>3. subscriptions'[k].cmdId = cmd
    BY <1>2, <1>3 DEF WsTypeOK
  <2>4. \A j \in Active : subscriptions[j].cmdId \in Nat
    BY DEF Active, WsTypeOK
  <2>5. \A f \in frames : f.cmdId \in Nat
    BY DEF WsTypeOK, TbSub
  <2>6. nextCmdId \in Nat \ {0}
    BY DEF WsTypeOK
  <2>. HIDE DEF k, cmd, e, IInv
  <2>7. CmdIdsFresh
    BY DEF IInv
  <2>. QED
    BY <1>5, <2>1, <2>2, <2>3, <2>4, <2>5, <2>6, <2>7 DEF CmdIdsFresh, cmd, e
<1>. QED
  BY <1>1, <1>7, <1>11, <1>12, <1>13
\* What Release(S) leaves of every entry: the listeners that did not leave,
\* counted exactly, and no entry for a key that lost its last one.
LEMMA ReleaseEntries ==
  ASSUME WsTypeOK, RefCountExact, NEW S \in SUBSET Calls, Release(S), NEW k \in Keys
  PROVE  /\ subscriptions'[k].listeners = subscriptions[k].listeners \ Leaving(S)
         /\ subscriptions'[k].refCount = Cardinality(subscriptions'[k].listeners)
         /\ k \in Active' <=> subscriptions'[k].listeners # {}
         /\ k \in Active \ Active' <=> k \in Active /\ RefsWithout(k, Leaving(S)) <= 0
         /\ k \in Active' => k \in Active /\ subscriptions'[k].cmdId = subscriptions[k].cmdId
<1>. DEFINE gone == Leaving(S)
            L == subscriptions[k].listeners
            n == RefsWithout(k, gone)
<1>1. gone \in SUBSET Calls /\ L \in SUBSET Calls
  BY DEF Leaving, WsTypeOK
<1>2. L \cap gone = {c \in gone : KeyOf[c] = k}
  BY <1>1 DEF RefCountExact, Leaving
<1>3. n = Cardinality(L) - Cardinality(L \cap gone)
  BY <1>2 DEF RefsWithout, RefCountExact
<1>4. n = Cardinality(L \ gone)
  BY <1>1, <1>3, CallSets, FS_Difference
<1>5. n \in Nat /\ (n = 0 <=> L \ gone = {})
  BY <1>1, <1>4, CallSets, FS_EmptySet
<1>6. CASE k \in Active /\ n > 0
  <2>1. subscriptions'[k] = [cmdId |-> subscriptions[k].cmdId, refCount |-> n,
                             listeners |-> L \ gone]
    BY <1>5, <1>6 DEF Release
  <2>2. subscriptions'[k] # NoEntry
    BY <1>6, <2>1 DEF NoEntry
  <2>. QED
    BY <1>4, <1>5, <1>6, <2>1, <2>2 DEF Active
<1>7. CASE k \in Active /\ n <= 0
  <2>1. subscriptions'[k] = NoEntry
    BY <1>7 DEF Release
  <2>. QED
    BY <1>5, <1>7, <2>1, FS_EmptySet DEF NoEntry, Active
<1>8. CASE k \notin Active
  <2>1. subscriptions'[k] = NoEntry
    BY <1>8 DEF Release
  <2>2. L = {}
    BY <1>8 DEF RefCountExact
  <2>. QED
    BY <1>8, <2>1, <2>2, FS_EmptySet DEF NoEntry, Active
<1>. QED
  BY <1>5, <1>6, <1>7, <1>8

LEMMA ReleaseIInv ==
  ASSUME IInv, NEW S \in SUBSET Calls, Release(S)
  PROVE  IInv'
<1>. DEFINE gone == Leaving(S)
<1>1. WsTypeOK /\ RefCountExact /\ WsTypeOK'
  BY ReleaseType DEF IInv
<1>2. ASSUME NEW k \in Keys
      PROVE  /\ subscriptions'[k].listeners = subscriptions[k].listeners \ gone
             /\ subscriptions'[k].refCount = Cardinality(subscriptions'[k].listeners)
             /\ k \in Active' <=> subscriptions'[k].listeners # {}
             /\ k \in Active \ Active' <=> k \in Active /\ RefsWithout(k, gone) <= 0
             /\ k \in Active' => k \in Active /\ subscriptions'[k].cmdId = subscriptions[k].cmdId
  BY <1>1, ReleaseEntries
<1>3. caller' = [c \in Calls |-> IF c \in gone THEN "released" ELSE caller[c]]
  BY DEF Release
<1>4. gone = {c \in S : caller[c] = "held"}
  BY DEF Leaving
<1>. HIDE DEF gone
<1>5. RefCountExact'
  <2>. SUFFICES ASSUME NEW k \in Keys
       PROVE  subscriptions'[k].listeners =
                {d \in Calls : KeyOf[d] = k /\ caller'[d] \in {"held", "connecting", "failed"}}
    BY <1>2 DEF RefCountExact
  <2>1. subscriptions[k].listeners =
          {d \in Calls : KeyOf[d] = k /\ caller[d] \in {"held", "connecting", "failed"}}
    BY <1>1 DEF RefCountExact
  <2>. QED
    BY <1>2, <1>3, <1>4, <2>1
<1>6. Active' \subseteq Active
  BY <1>2 DEF Active
<1>7. UpstreamMatchesMap'
  <2>1. CASE socket = "open"
    <3>1. tbSubs' = {s \in tbSubs : \A k \in Active \ Active' : s.cmdId # subscriptions[k].cmdId}
      BY <1>2, <2>1 DEF Release, Active, gone
    <3>2. tbSubs = {SubCmd(k) : k \in Active}
      BY <2>1 DEF IInv, UpstreamMatchesMap
    <3>3. \A k \in Active' : SubCmd(k)' = SubCmd(k)
      BY <1>2 DEF SubCmd, Active
    <3>4. ASSUME NEW k \in Active
          PROVE  k \in Active' <=>
                   \A j \in Active \ Active' : SubCmd(k).cmdId # subscriptions[j].cmdId
      BY DEF IInv, CmdIdsFresh, SubCmd
    <3>5. tbSubs' = {SubCmd(k) : k \in Active'}
      BY <1>6, <3>1, <3>2, <3>4
    <3>6. {SubCmd(k) : k \in Active}' = {SubCmd(k) : k \in Active'}
      BY <3>3
    <3>. QED
      BY <2>1, <3>5, <3>6 DEF UpstreamMatchesMap, Release
  <2>2. CASE socket # "open"
    BY <2>2 DEF Release, IInv, UpstreamMatchesMap
  <2>. QED
    BY <2>1, <2>2
<1>8. OneConnection'
  <2>1. Waiting' \subseteq Waiting
    BY <1>3 DEF Waiting
  <2>. QED
    BY <2>1 DEF Release, IInv, OneConnection
<1>9. CmdIdsFresh'
  <2>1. \A k \in Active' : k \in Active /\ subscriptions'[k].cmdId = subscriptions[k].cmdId
    BY <1>2 DEF Active
  <2>. QED
    BY <2>1 DEF Release, IInv, CmdIdsFresh
<1>. QED
  BY <1>1, <1>5, <1>7, <1>8, <1>9 DEF IInv

\* The steps that settle the waiting calls one way or the other keep them
\* among the listeners that are counted.
LEMMA SettleKeepsCount ==
  ASSUME WsTypeOK, RefCountExact, UNCHANGED subscriptions,
         Settle("held") \/ Settle("failed")
  PROVE  RefCountExact' /\ Waiting' = {} /\ Active' = Active
<1>1. Active' = Active
  BY DEF Active
<1>2. \A c \in Calls : caller'[c] \in {"held", "connecting", "failed"}
                        <=> caller[c] \in {"held", "connecting", "failed"}
  BY DEF Settle, Waiting
<1>3. Waiting' = {}
  BY DEF Settle, Waiting
<1>. QED
  BY <1>1, <1>2, <1>3 DEF RefCountExact

LEMMA SettlingIInv ==
  ASSUME IInv, TokenFails \/ Open \/ HandshakeFails
  PROVE  IInv'
<1>1. WsTypeOK /\ RefCountExact /\ WsTypeOK'
  BY SettlingType DEF IInv
<1>2. /\ UNCHANGED <<subscriptions, nextCmdId, frames>>
      /\ Settle("held") \/ Settle("failed")
  BY DEF TokenFails, Open, HandshakeFails
<1>3. RefCountExact' /\ Waiting' = {} /\ Active' = Active
  BY <1>1, <1>2, SettleKeepsCount
<1>4. CmdIdsFresh'
  BY <1>2, <1>3 DEF IInv, CmdIdsFresh
<1>5. OneConnection'
  BY <1>3 DEF OneConnection, TokenFails, Open, HandshakeFails
<1>6. UpstreamMatchesMap'
  <2>1. CASE Open
    <3>1. {SubCmd(k) : k \in Active}' = {SubCmd(k) : k \in Active}
      BY <1>2, <1>3 DEF SubCmd
    <3>. QED
      BY <2>1, <3>1 DEF Open, Resubscribed, UpstreamMatchesMap
  <2>2. CASE TokenFails \/ HandshakeFails
    <3>1. socket # "open"
      BY <2>2 DEF IInv, OneConnection, TokenFails, HandshakeFails
    <3>. QED
      BY <2>2, <3>1 DEF TokenFails, HandshakeFails, UpstreamMatchesMap, IInv
  <2>. QED
    BY <2>1, <2>2
<1>. QED
  BY <1>1, <1>3, <1>4, <1>5, <1>6 DEF IInv

LEMMA QuietIInv ==
  ASSUME IInv, QuietNext
  PROVE  IInv'
<1>1. WsTypeOK /\ WsTypeOK'
  BY QuietType DEF IInv
<1>2. UNCHANGED <<subscriptions, nextCmdId, caller>>
  BY DEF QuietNext, TokenResolves, Drop, CloseCurrent, CloseOther, ReconnectTimer,
         Destroy, Push, HandleMessage
<1>3. Active' = Active /\ Waiting' = Waiting
  BY <1>2 DEF Active, Waiting
<1>4. RefCountExact'
  BY <1>2, <1>3 DEF IInv, RefCountExact
<1>5. {SubCmd(k) : k \in Active}' = {SubCmd(k) : k \in Active}
  BY <1>2, <1>3 DEF SubCmd
<1>6. UpstreamMatchesMap'
  BY <1>5 DEF IInv, UpstreamMatchesMap, QuietNext, TokenResolves, Drop, CloseCurrent,
         CloseOther, ReconnectTimer, Destroy, Push, HandleMessage
<1>7. OneConnection'
  BY <1>3 DEF IInv, OneConnection, QuietNext, TokenResolves, Drop, CloseCurrent,
         CloseOther, ReconnectTimer, EnsureConnected, Destroy, Push, HandleMessage
<1>8. CmdIdsFresh'
  <2>1. CASE \E s \in tbSubs : Push(s)
    <3>1. PICK s \in tbSubs : frames' = frames \cup {s}
      BY <2>1 DEF Push
    <3>2. PICK j \in Active : s = SubCmd(j)
      BY <3>1 DEF IInv, UpstreamMatchesMap
    <3>3. /\ s.cmdId < nextCmdId
          /\ \A k \in Active : subscriptions[k].cmdId = s.cmdId => k = s.key
      BY <3>2 DEF IInv, CmdIdsFresh, SubCmd
    <3>. QED
      BY <1>2, <1>3, <3>1, <3>3 DEF IInv, CmdIdsFresh
  <2>2. CASE ~ \E s \in tbSubs : Push(s)
    <3>1. frames' \subseteq frames
      BY <2>2 DEF QuietNext, TokenResolves, Drop, CloseCurrent, CloseOther,
             ReconnectTimer, Destroy, HandleMessage
    <3>. QED
      BY <1>2, <1>3, <3>1 DEF IInv, CmdIdsFresh
  <2>. QED
    BY <2>1, <2>2
<1>. QED
  BY <1>1, <1>4, <1>6, <1>7, <1>8 DEF IInv

LEMMA NextIInv == IInv /\ [WsNext]_wsVars => IInv'
<1>. SUFFICES ASSUME IInv, [WsNext]_wsVars
              PROVE  IInv'
  OBVIOUS
<1>1. CASE \E c \in Calls : Subscribe(c)
  BY <1>1, SubscribeIInv
<1>2. CASE \E c \in Calls : Unsubscribe(c)
  <2>1. PICK c \in Calls : Release({c})
    BY <1>2 DEF Unsubscribe
  <2>2. {c} \in SUBSET Calls
    OBVIOUS
  <2>. QED
    BY <2>1, <2>2, ReleaseIInv
<1>3. CASE TokenFails \/ Open \/ HandshakeFails
  BY <1>3, SettlingIInv
<1>4. CASE QuietNext
  BY <1>4, QuietIInv
<1>5. CASE UNCHANGED wsVars
  BY <1>5 DEF wsVars, IInv, WsTypeOK, RefCountExact, Active, UpstreamMatchesMap,
         SubCmd, OneConnection, Waiting, CmdIdsFresh
<1>. QED
  BY <1>1, <1>2, <1>3, <1>4, <1>5 DEF WsNext

LEMMA Inductive == WsSpec => []IInv
BY InitIInv, NextIInv, PTL DEF WsSpec

\* refCounts never leak or underflow inside the service.
THEOREM RefCountsAreExact == WsSpec => []RefCountExact
BY Inductive, PTL DEF IInv

\* An open socket carries exactly the Map's subscriptions, under their cmdIds.
THEOREM UpstreamFollowsMap == WsSpec => []UpstreamMatchesMap
BY Inductive, PTL DEF IInv

\* At most one upstream connection is open or being opened.
THEOREM SingleConnection == WsSpec => []OneConnection
BY Inductive, PTL DEF IInv

\* No frame reaches a listener of another entity.
THEOREM FramesAreRouted == WsSpec => []FramesReachOwnListeners
<1>1. IInv => FramesReachOwnListeners
  BY DEF IInv, CmdIdsFresh, RefCountExact, FramesReachOwnListeners, Recipients, Active
<1>. QED
  BY <1>1, Inductive, PTL

----------------------------------------------------------------------------

Callers == {c \in Calls : caller[c] # "idle"}

\* Attempts, sockets and timers: what RetryChainsBounded bounds.
Chains ==
  dying + timers + (IF socket = "null" THEN 0 ELSE 1) + (IF connecting = "no" THEN 0 ELSE 1)

\* Only a new call starts another chain; every other step hands one on or ends it.
LEMMA ChainsHandedOn ==
  ASSUME WsTypeOK, WsNext, \A c \in Calls : ~ Subscribe(c)
  PROVE  Chains' <= Chains /\ Callers' = Callers
<1>1. dying \in Nat /\ timers \in Nat
  BY DEF WsTypeOK
<1>2. CASE \E c \in Calls : Unsubscribe(c)
  <2>1. PICK c \in Calls : Release({c})
    BY <1>2 DEF Unsubscribe
  <2>2. Callers' = Callers
    BY <2>1 DEF Release, Leaving, Callers
  <2>3. Chains' = Chains
    BY <2>1 DEF Release, Chains
  <2>. QED
    BY <1>1, <2>2, <2>3 DEF Chains
<1>3. CASE TokenFails \/ Open \/ HandshakeFails
  <2>1. Callers' = Callers
    BY <1>3 DEF TokenFails, Open, HandshakeFails, Settle, Waiting, Callers
  <2>2. Chains' <= Chains
    BY <1>1, <1>3 DEF TokenFails, Open, HandshakeFails, Chains
  <2>. QED
    BY <2>1, <2>2
<1>4. CASE QuietNext
  <2>1. Callers' = Callers
    BY <1>4 DEF QuietNext, TokenResolves, Drop, CloseCurrent, CloseOther,
           ReconnectTimer, Destroy, Push, HandleMessage, Callers
  <2>2. Chains' <= Chains
    BY <1>1, <1>4 DEF QuietNext, TokenResolves, Drop, CloseCurrent, CloseOther,
           ScheduleReconnect, ReconnectTimer, EnsureConnected, Destroy, Push,
           HandleMessage, Chains
  <2>. QED
    BY <2>1, <2>2
<1>. QED
  BY <1>2, <1>3, <1>4 DEF WsNext

LEMMA SubscribeAddsOneChain ==
  ASSUME WsTypeOK, NEW c \in Calls, Subscribe(c)
  PROVE  /\ Chains' <= Chains + 1
         /\ Cardinality(Callers') = Cardinality(Callers) + 1
<1>1. Callers' = Callers \cup {c} /\ c \notin Callers
  BY DEF Subscribe, Callers, WsTypeOK
<1>2. IsFiniteSet(Callers)
  BY CallSets DEF Callers
<1>3. Cardinality(Callers') = Cardinality(Callers) + 1
  BY <1>1, <1>2, FS_AddElement
<1>4. Chains' <= Chains + 1
  BY DEF Subscribe, EnsureConnected, Chains, WsTypeOK
<1>. QED
  BY <1>3, <1>4

\* However often the connection fails, at most one attempt, closing socket or
\* retry timer exists per call that ever subscribed.
THEOREM RetriesDoNotMultiply == WsSpec => []RetryChainsBounded
<1>1. RetryChainsBounded <=> Chains <= Cardinality(Callers)
  BY DEF RetryChainsBounded, Chains, Callers
<1>2. WsInit => RetryChainsBounded
  <2>1. WsInit => Chains = 0 /\ Callers = {}
    BY DEF WsInit, Chains, Callers
  <2>. QED
    BY <1>1, <2>1, FS_EmptySet
<1>3. WsTypeOK /\ RetryChainsBounded /\ [WsNext]_wsVars => RetryChainsBounded'
  <2>. SUFFICES ASSUME WsTypeOK, Chains <= Cardinality(Callers), [WsNext]_wsVars
                PROVE  Chains' <= Cardinality(Callers')
    BY DEF RetryChainsBounded, Chains, Callers
  <2>1. Chains \in Nat /\ Chains' \in Int /\ Cardinality(Callers) \in Nat
    <3>1. WsTypeOK'
      BY WsNextType
    <3>. QED
      BY <3>1, CallSets DEF Chains, WsTypeOK, Callers
  <2>2. CASE \E c \in Calls : Subscribe(c)
    BY <2>1, <2>2, SubscribeAddsOneChain
  <2>3. CASE WsNext /\ \A c \in Calls : ~ Subscribe(c)
    BY <2>1, <2>3, ChainsHandedOn
  <2>4. CASE UNCHANGED wsVars
    BY <2>4 DEF wsVars, Chains, Callers
  <2>. QED
    BY <2>2, <2>3, <2>4
<1>. QED
  BY <1>2, <1>3, WsInitType, WsNextType, PTL DEF WsSpec

-----------------------------------------------------------------------------
(* The abstract feed *)

\* The two states of a step, as the lemmas below use them.
BothSides == IInv /\ IInv'

Holders == [k \in Keys |-> subscriptions[k].listeners]

Fed == {s.key : s \in tbSubs}

\* The abstract feed is the Map's keys on an open socket, and nothing else.
LEMMA FeedIsActive ==
  ASSUME UpstreamMatchesMap
  PROVE  Fed = IF socket = "open" THEN Active ELSE {}
<1>1. CASE socket = "open"
  <2>1. tbSubs = {SubCmd(k) : k \in Active}
    BY <1>1 DEF UpstreamMatchesMap
  <2>2. \A k \in Active : SubCmd(k).key = k
    BY DEF SubCmd
  <2>. QED
    BY <1>1, <2>1, <2>2 DEF Fed
<1>2. CASE socket # "open"
  BY <1>2 DEF UpstreamMatchesMap, Fed
<1>. QED
  BY <1>1, <1>2

LEMMA FeedIsActiveNext ==
  ASSUME UpstreamMatchesMap'
  PROVE  Fed' = IF socket' = "open" THEN Active' ELSE {}
<1>1. CASE socket' = "open"
  <2>1. tbSubs' = {SubCmd(k) : k \in Active}'
    BY <1>1 DEF UpstreamMatchesMap
  <2>2. \A k \in Active' : SubCmd(k)'.key = k
    BY DEF SubCmd
  <2>. QED
    BY <1>1, <2>1, <2>2 DEF Fed
<1>2. CASE socket' # "open"
  BY <1>2 DEF UpstreamMatchesMap, Fed
<1>. QED
  BY <1>1, <1>2

LEMMA HeldIsActive ==
  ASSUME RefCountExact
  PROVE  Active = {k \in Keys : Holders[k] # {}}
BY DEF RefCountExact, Holders, Active

LEMMA InitRefines == WsInit => Feed!Init
BY DEF WsInit, NoEntry, Feed!Init

LEMMA SubscribeRefines ==
  ASSUME BothSides, NEW c \in Calls, Subscribe(c)
  PROVE  Feed!Join(c)
<1>. DEFINE k == KeyOf[c]
<1>1. k \in Keys
  BY CallsAssumption
<1>2. c \notin Holders[k]
  BY <1>1 DEF BothSides, IInv, RefCountExact, Subscribe, Holders
<1>3. \A j \in Keys :
        subscriptions'[j].listeners =
          IF j = k THEN subscriptions[k].listeners \cup {c} ELSE subscriptions[j].listeners
  BY <1>1 DEF Subscribe, BothSides, IInv, WsTypeOK
<1>4. Holders' = [Holders EXCEPT ![k] = @ \cup {c}]
  BY <1>1, <1>3 DEF Holders
<1>5. Active' = Active \cup {k}
  BY <1>1, <1>3 DEF BothSides, IInv, RefCountExact, Active
<1>6. socket' = socket
  BY DEF Subscribe
<1>7. Fed = (IF socket = "open" THEN Active ELSE {})
  BY FeedIsActive DEF BothSides, IInv
<1>8. Fed' = (IF socket' = "open" THEN Active' ELSE {})
  BY FeedIsActiveNext DEF BothSides, IInv
<1>. QED
  BY <1>2, <1>4, <1>5, <1>6, <1>7, <1>8 DEF Feed!Join, Holders, Fed

LEMMA ReleaseRefines ==
  ASSUME BothSides, NEW S \in SUBSET Calls, Release(S),
         NEW gone \in SUBSET Calls, gone = Leaving(S)
  PROVE  Feed!Leave(gone)
<1>1. ASSUME NEW k \in Keys
      PROVE  /\ subscriptions'[k].listeners = subscriptions[k].listeners \ gone
             /\ k \in Active' => k \in Active
  BY ReleaseEntries DEF BothSides, IInv
<1>2. Holders' = [k \in Keys |-> Holders[k] \ gone]
  BY <1>1 DEF Holders
<1>3. Active' = {k \in Active : Holders'[k] # {}}
  BY <1>1 DEF BothSides, IInv, RefCountExact, Active, Holders
<1>4. socket' = socket
  BY DEF Release
<1>5. Fed = (IF socket = "open" THEN Active ELSE {})
  BY FeedIsActive DEF BothSides, IInv
<1>6. Fed' = (IF socket' = "open" THEN Active' ELSE {})
  BY FeedIsActiveNext DEF BothSides, IInv
<1>. QED
  BY <1>2, <1>3, <1>4, <1>5, <1>6 DEF Feed!Leave, Holders, Fed

\* The remaining steps leave the Map alone.
LEMMA ConnectionRefines ==
  ASSUME BothSides, TokenFails \/ Open \/ HandshakeFails \/ QuietNext
  PROVE  Feed!Next \/ UNCHANGED Feed!vars
<1>1. subscriptions' = subscriptions
  BY DEF TokenFails, Open, HandshakeFails, QuietNext, TokenResolves, Drop, CloseCurrent,
         CloseOther, ReconnectTimer, Destroy, Push, HandleMessage
<1>2. Holders' = Holders /\ Active' = Active
  BY <1>1 DEF Holders, Active
<1>3. Fed = (IF socket = "open" THEN Active ELSE {})
  BY FeedIsActive DEF BothSides, IInv
<1>4. Fed' = (IF socket' = "open" THEN Active ELSE {})
  BY <1>2, FeedIsActiveNext DEF BothSides, IInv
<1>5. CASE (socket = "open") = (socket' = "open")
  BY <1>2, <1>3, <1>4, <1>5 DEF Feed!vars, Holders, Fed
<1>6. CASE socket # "open" /\ socket' = "open"
  <2>1. Active = {k \in Keys : Holders[k] # {}}
    BY HeldIsActive DEF BothSides, IInv
  <2>. QED
    BY <1>2, <1>4, <1>6, <2>1 DEF Feed!ConnectionUp, Feed!Held, Feed!Next, Holders, Fed
<1>7. CASE socket = "open" /\ socket' # "open"
  BY <1>2, <1>4, <1>7 DEF Feed!ConnectionDown, Feed!Next, Holders, Fed
<1>. QED
  BY <1>5, <1>6, <1>7

LEMMA StepRefines ==
  BothSides /\ [WsNext]_wsVars => [Feed!Next]_(Feed!vars)
<1>. SUFFICES ASSUME BothSides, [WsNext]_wsVars
              PROVE  Feed!Next \/ UNCHANGED Feed!vars
  OBVIOUS
<1>1. CASE \E c \in Calls : Subscribe(c)
  BY <1>1, SubscribeRefines DEF Feed!Next
<1>2. CASE \E c \in Calls : Unsubscribe(c)
  <2>1. PICK c \in Calls : Release({c})
    BY <1>2 DEF Unsubscribe
  <2>2. {c} \in SUBSET Calls /\ Leaving({c}) \in SUBSET Calls
    BY DEF Leaving
  <2>3. PICK T \in SUBSET Calls : T = Leaving({c})
    BY <2>2
  <2>4. Feed!Leave(T)
    BY <2>1, <2>2, <2>3, ReleaseRefines
  <2>. QED
    BY <2>4 DEF Feed!Next
<1>3. CASE TokenFails \/ Open \/ HandshakeFails \/ QuietNext
  BY <1>3, ConnectionRefines
<1>4. CASE UNCHANGED wsVars
  BY <1>4 DEF wsVars, Feed!vars
<1>. QED
  BY <1>1, <1>2, <1>3, <1>4 DEF WsNext

\* The service is the shared feed its callers rely on: every step of it is a
\* step of SharedFeed or leaves the feed as it is.
THEOREM ServiceImplementsFeed == WsSpec => FeedSpec
<1>1. IInv /\ IInv' /\ [WsNext]_wsVars => [Feed!Next]_(Feed!vars)
  BY StepRefines DEF BothSides
<1>. QED
  BY <1>1, InitRefines, Inductive, PTL DEF WsSpec, FeedSpec, Feed!Spec

----------------------------------------------------------------------------

\* subscribe() never leaves an entry behind without a way to a connection.
LEMMA SubscribeRecovers ==
  ASSUME IInv, NEW c \in Calls, Subscribe(c), ~ Stranded
  PROVE  ~ Stranded'
<1>. DEFINE k == KeyOf[c]
<1>1. k \in Keys
  BY CallsAssumption
<1>2. UNCHANGED <<socket, dying, timers, destroyed>>
  BY DEF Subscribe
<1>3. CASE k \in Active
  <2>1. subscriptions[k].refCount + 1 # 1
    BY <1>1, <1>3, ActiveHasRefs DEF IInv, WsTypeOK
  <2>2. connecting' = connecting
    BY <2>1 DEF Subscribe
  <2>. QED
    BY <1>2, <1>3, <2>2 DEF Stranded, RecoveryPending
<1>4. CASE k \notin Active
  <2>1. subscriptions[k].refCount + 1 = 1
    BY <1>1, <1>4, ActiveHasRefs DEF IInv, WsTypeOK
  <2>2. socket' = "open" \/ connecting' # "no"
    BY <2>1, <1>2 DEF Subscribe, EnsureConnected
  <2>. QED
    BY <2>2 DEF Stranded, RecoveryPending
<1>. QED
  BY <1>3, <1>4

LEMMA ConnectionRecovers ==
  ASSUME IInv, Open \/ HandshakeFails \/ QuietNext, ~ Stranded
  PROVE  ~ Stranded'
<1>1. subscriptions' = subscriptions /\ Active' = Active
  BY DEF Open, HandshakeFails, QuietNext, TokenResolves, Drop, CloseCurrent,
         CloseOther, ReconnectTimer, Destroy, Push, HandleMessage, Active
<1>2. dying \in Nat /\ timers \in Nat
  BY DEF IInv, WsTypeOK
<1>. QED
  BY <1>1, <1>2 DEF Stranded, RecoveryPending, Open, HandshakeFails, QuietNext,
     TokenResolves, Drop, CloseCurrent, CloseOther, ScheduleReconnect, ReconnectTimer,
     EnsureConnected, Destroy, Push, HandleMessage

\* Only a failed token lookup leaves subscribed entities without a connection,
\* an attempt or a retry.
THEOREM RecoveryIsKept == WsSpec => RecoveryLostOnlyByTokenFailure
<1>1. IInv /\ [WsNext]_wsVars => [~ Stranded /\ Stranded' => TokenFails]_wsVars
  <2>. SUFFICES ASSUME IInv, WsNext, ~ Stranded, Stranded', ~ TokenFails
                PROVE  FALSE
    OBVIOUS
  <2>1. CASE \E c \in Calls : Subscribe(c)
    BY <2>1, SubscribeRecovers
  <2>2. CASE \E c \in Calls : Unsubscribe(c)
    <3>1. PICK c \in Calls : Release({c})
      BY <2>2 DEF Unsubscribe
    <3>2. {c} \in SUBSET Calls
      OBVIOUS
    <3>3. \A k \in Keys : k \in Active' => k \in Active
      BY <3>1, <3>2, ReleaseEntries DEF IInv
    <3>4. Active' \subseteq Active
      BY <3>3 DEF Active
    <3>. QED
      BY <3>1, <3>4 DEF Release, Stranded, RecoveryPending
  <2>3. CASE Open \/ HandshakeFails \/ QuietNext
    BY <2>3, ConnectionRecovers
  <2>. QED
    BY <2>1, <2>2, <2>3 DEF WsNext
<1>. QED
  BY <1>1, Inductive, PTL DEF WsSpec, RecoveryLostOnlyByTokenFailure
=============================================================================
