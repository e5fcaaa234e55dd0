------------------------ MODULE Application_proofs ------------------------
(***************************************************************************)
(* Proofs about the pages and forms with state of their own.  They share   *)
(* no variables; each section is about one.                                *)
(***************************************************************************)
EXTENDS MC_Application, Backend_proofs, Dashboard_proofs, Console_proofs, TLAPS

-----------------------------------------------------------------------------
(* EntityPage *)

Frame == [key : PageKeys, at : 0..MaxReadings]
Ringing == [of : Alarms, status : 0..MaxReadings]

\* Types, of the variables PageTypeOK leaves out too.
PageTypes ==
  /\ reading \in [PageKeys -> 0..MaxReadings]
  /\ alarm \in [Alarms -> 0..MaxReadings]
  /\ selected \in PageKeys \cup {NoPageKey}
  /\ snapshot \in [PageKeys -> 0..MaxReadings]
  /\ asking \in [PageKeys -> [phase : {"no", "sent", "served"}, at : 0..MaxReadings]]
  /\ shown \in [key : PageKeys \cup {NoPageKey}, at : 0..MaxReadings]
  /\ frames \in Seq(Frame) /\ Len(frames) <= MaxFrames
  /\ live \in Seq(Ringing)
  /\ rings \in Seq(Ringing) /\ Len(rings) <= MaxFrames
  /\ heard \in [at : [PageKeys -> 0..MaxReadings], alarms : SUBSET Alarms]

\* No answer and no snapshot is ahead of the device.
AnswersAreOld ==
  \A k \in PageKeys : snapshot[k] <= reading[k] /\ asking[k].at <= reading[k]

\* The message handler is the first render's for ever.
HandlerIsFirst == handler = NoPageKey

\* Nothing takes an alarm out of the live list.
LiveIsHeard == heard.alarms = {live[i].of : i \in DOMAIN live}

PageInductive ==
  PageTypes /\ AnswersAreOld /\ HandlerIsFirst /\ LiveIsHeard /\ ValueOfSelected

LEMMA PageInitInv == PageInit => PageInductive
<1>. SUFFICES ASSUME PageInit PROVE PageInductive
  OBVIOUS
<1>. USE PageAssumption DEF PageInit
<1>1. /\ reading \in [PageKeys -> 0..MaxReadings]
      /\ alarm \in [Alarms -> 0..MaxReadings]
      /\ selected \in PageKeys \cup {NoPageKey}
      /\ snapshot \in [PageKeys -> 0..MaxReadings]
  OBVIOUS
<1>2. asking \in [PageKeys -> [phase : {"no", "sent", "served"}, at : 0..MaxReadings]]
  BY DEF NotAsking
<1>3. shown \in [key : PageKeys \cup {NoPageKey}, at : 0..MaxReadings]
  BY DEF NothingShown
<1>4. /\ frames \in Seq(Frame) /\ Len(frames) <= MaxFrames
      /\ live \in Seq(Ringing) /\ rings \in Seq(Ringing) /\ Len(rings) <= MaxFrames
  OBVIOUS
<1>5. heard \in [at : [PageKeys -> 0..MaxReadings], alarms : SUBSET Alarms]
  OBVIOUS
<1>6. AnswersAreOld /\ HandlerIsFirst /\ LiveIsHeard /\ ValueOfSelected
  BY DEF AnswersAreOld, HandlerIsFirst, LiveIsHeard, ValueOfSelected, NotAsking
<1>. QED
  BY <1>1, <1>2, <1>3, <1>4, <1>5, <1>6 DEF PageInductive, PageTypes

\* A key becomes the selected one, by the first answer or by the user.
LEMMA SelectsInv ==
  ASSUME PageInductive, NEW k \in PageKeys, Selects(k),
         UNCHANGED <<reading, alarm, snapshot, handler, frames, base, live, rings, heard>>
  PROVE  PageInductive'
<1>. USE PageAssumption DEF PageInductive
<1>1. /\ selected' = k
      /\ shown' = IF snapshot[k] > 0 THEN [key |-> k, at |-> snapshot[k]] ELSE NothingShown
  BY DEF Selects, Seeding
<1>2. asking' \in [PageKeys -> [phase : {"no", "sent", "served"}, at : 0..MaxReadings]]
      /\ \A j \in PageKeys : asking'[j].at <= reading[j]
  BY DEF Selects, NotAsking, PageTypes, AnswersAreOld
<1>3. shown' \in [key : PageKeys \cup {NoPageKey}, at : 0..MaxReadings]
  BY <1>1 DEF NothingShown, PageTypes
<1>4. PageTypes'
  BY <1>1, <1>2, <1>3 DEF PageTypes
<1>5. AnswersAreOld' /\ HandlerIsFirst' /\ LiveIsHeard'
  BY <1>2 DEF AnswersAreOld, HandlerIsFirst, LiveIsHeard
<1>6. ValueOfSelected'
  BY <1>1 DEF ValueOfSelected, AnswersAreOld, NothingShown
<1>. QED
  BY <1>4, <1>5, <1>6

LEMMA QueriesInv ==
  ASSUME PageInductive, NEW k \in PageKeys,
         ServeLatest(k) \/ LatestArrives(k) \/ LatestFails(k)
  PROVE  PageInductive'
<1>. USE PageAssumption DEF PageInductive
<1>1. CASE ServeLatest(k) \/ LatestFails(k)
  <2>0. PICK a \in 0..MaxReadings, p \in {"no", "served"} :
          asking' = [asking EXCEPT ![k] = [phase |-> p, at |-> a]] /\ a <= reading[k]
    <3>1. CASE ServeLatest(k)
      <4>1. reading[k] \in 0..MaxReadings
        BY DEF PageTypes
      <4>2. asking' = [asking EXCEPT ![k] = [phase |-> "served", at |-> reading[k]]]
        BY <3>1 DEF ServeLatest
      <4>3. reading[k] <= reading[k]
        BY <4>1
      <4>. WITNESS reading[k] \in 0..MaxReadings, "served" \in {"no", "served"}
      <4>. QED
        BY <4>2, <4>3
    <3>2. CASE LatestFails(k)
      <4>1. 0 \in 0..MaxReadings /\ reading[k] \in Nat
        BY DEF PageTypes
      <4>2. asking' = [asking EXCEPT ![k] = [phase |-> "no", at |-> 0]]
        BY <3>2 DEF LatestFails, NotAsking
      <4>3. 0 <= reading[k]
        BY <4>1
      <4>. WITNESS 0 \in 0..MaxReadings, "no" \in {"no", "served"}
      <4>. QED
        BY <4>2, <4>3
    <3>. QED
      BY <1>1, <3>1, <3>2
  <2>1. /\ asking' \in [PageKeys -> [phase : {"no", "sent", "served"}, at : 0..MaxReadings]]
        /\ \A j \in PageKeys : asking'[j].at <= reading[j]
    BY <2>0 DEF PageTypes, AnswersAreOld
  <2>2. UNCHANGED <<reading, alarm, selected, snapshot, shown, handler, frames, live, rings,
                    heard>>
    BY <1>1 DEF ServeLatest, LatestFails
  <2>3. PageTypes'
    BY <2>1, <2>2 DEF PageTypes
  <2>4. AnswersAreOld' /\ HandlerIsFirst' /\ LiveIsHeard'
    BY <2>1, <2>2 DEF AnswersAreOld, HandlerIsFirst, LiveIsHeard
  <2>5. ValueOfSelected'
    BY <2>2 DEF ValueOfSelected, NothingShown
  <2>. QED
    BY <2>3, <2>4, <2>5
<1>2. CASE LatestArrives(k)
  <2>0. asking[k].at \in 0..MaxReadings /\ asking[k].at <= reading[k]
    BY DEF PageTypes, AnswersAreOld
  <2>1. asking' \in [PageKeys -> [phase : {"no", "sent", "served"}, at : 0..MaxReadings]]
        /\ \A j \in PageKeys : asking'[j].at <= reading[j]
    BY <1>2 DEF LatestArrives, NotAsking, PageTypes, AnswersAreOld
  <2>2. /\ snapshot' \in [PageKeys -> 0..MaxReadings]
        /\ \A j \in PageKeys : snapshot'[j] <= reading[j]
    BY <1>2, <2>0 DEF LatestArrives, PageTypes, AnswersAreOld
  <2>3. UNCHANGED <<reading, alarm, selected, handler, frames, live, rings, heard>>
    BY <1>2 DEF LatestArrives
  <2>4. shown' = IF k = selected /\ asking[k].at # snapshot[k]
                 THEN [key |-> k, at |-> asking[k].at] ELSE shown
    BY <1>2 DEF LatestArrives
  <2>5. shown' \in [key : PageKeys \cup {NoPageKey}, at : 0..MaxReadings]
    BY <2>0, <2>4 DEF PageTypes
  <2>6. PageTypes'
    BY <2>1, <2>2, <2>3, <2>5 DEF PageTypes
  <2>7. ValueOfSelected'
    BY <2>0, <2>3, <2>4 DEF ValueOfSelected, NothingShown
  <2>. QED
    BY <2>1, <2>2, <2>3, <2>6, <2>7 DEF AnswersAreOld, HandlerIsFirst, LiveIsHeard
<1>. QED
  BY <1>1, <1>2

\* The device and the sockets.
LEMMA ReportInv ==
  ASSUME PageInductive, NEW k \in PageKeys, Report(k)
  PROVE  PageInductive'
<1>. USE PageAssumption DEF PageInductive
<1>0. reading[k] + 1 \in 0..MaxReadings
  <2>1. reading[k] \in 0..MaxReadings /\ reading[k] < MaxReadings
    BY DEF Report, PageTypes
  <2>. QED
    BY <2>1
<1>1. /\ reading' \in [PageKeys -> 0..MaxReadings]
      /\ \A j \in PageKeys : reading[j] <= reading'[j]
      /\ reading[k] + 1 \in 0..MaxReadings
  <2>1. reading' = [reading EXCEPT ![k] = reading[k] + 1]
    BY DEF Report
  <2>2. reading \in [PageKeys -> 0..MaxReadings]
    BY DEF PageTypes
  <2>3. reading' \in [PageKeys -> 0..MaxReadings]
    BY <1>0, <2>1, <2>2
  <2>4. ASSUME NEW j \in PageKeys PROVE reading[j] <= reading'[j]
    <3>1. reading[j] \in Nat /\ reading'[j] = IF j = k THEN reading[j] + 1 ELSE reading[j]
      BY <2>1, <2>2, <2>4
    <3>. QED
      BY <3>1
  <2>. QED
    BY <1>0, <2>3, <2>4
<1>2. /\ frames' = Append(frames, [key |-> k, at |-> reading[k] + 1])
      /\ UNCHANGED <<alarm, selected, snapshot, asking, shown, handler, live, rings, heard>>
  BY DEF Report
<1>3. frames' \in Seq(Frame) /\ Len(frames') <= MaxFrames
  <2>1. [key |-> k, at |-> reading[k] + 1] \in Frame
    BY <1>1 DEF Frame
  <2>2. frames \in Seq(Frame) /\ Len(frames) < MaxFrames
    BY DEF PageTypes, Report
  <2>. QED
    BY <1>2, <2>1, <2>2
<1>4. PageTypes'
  BY <1>1, <1>2, <1>3 DEF PageTypes
<1>5. AnswersAreOld'
  <2>1. ASSUME NEW j \in PageKeys
        PROVE  snapshot[j] <= reading'[j] /\ asking[j].at <= reading'[j]
    <3>1. /\ snapshot[j] \in Nat /\ asking[j].at \in Nat
          /\ reading[j] \in Nat /\ reading'[j] \in Nat
      BY <1>1, <2>1 DEF PageTypes
    <3>2. snapshot[j] <= reading[j] /\ asking[j].at <= reading[j] /\ reading[j] <= reading'[j]
      BY <1>1, <2>1 DEF AnswersAreOld
    <3>. QED
      BY <3>1, <3>2
  <2>. QED
    BY <1>2, <2>1 DEF AnswersAreOld
<1>6. ValueOfSelected'
  <2>1. CASE shown = NothingShown
    BY <1>2, <2>1 DEF ValueOfSelected, NothingShown
  <2>2. CASE shown # NothingShown
    <3>1. shown.key = selected /\ shown.at <= reading[shown.key]
      BY <2>2 DEF ValueOfSelected
    <3>2. CASE shown.key \in PageKeys
      <4>1. /\ shown.at \in Nat /\ reading[shown.key] \in Nat /\ reading'[shown.key] \in Nat
            /\ reading[shown.key] <= reading'[shown.key]
        BY <1>1, <3>2 DEF PageTypes
      <4>. QED
        BY <1>2, <3>1, <4>1 DEF ValueOfSelected
    <3>3. CASE shown.key \notin PageKeys
      <4>1. reading'[shown.key] = reading[shown.key]
        BY <3>3 DEF Report, PageTypes
      <4>. QED
        BY <1>2, <3>1, <4>1 DEF ValueOfSelected
    <3>. QED
      BY <3>2, <3>3
  <2>. QED
    BY <2>1, <2>2
<1>. QED
  BY <1>2, <1>4, <1>5, <1>6 DEF HandlerIsFirst, LiveIsHeard

LEMMA RingInv ==
  ASSUME PageInductive, NEW a \in Alarms, Ring(a)
  PROVE  PageInductive'
<1>. USE PageAssumption DEF PageInductive
<1>1. /\ alarm' = [alarm EXCEPT ![a] = alarm[a] + 1]
      /\ rings' = Append(rings, [of |-> a, status |-> alarm[a] + 1])
      /\ UNCHANGED <<reading, selected, snapshot, asking, shown, handler, frames, live, heard>>
  BY DEF Ring
<1>2. alarm[a] + 1 \in 0..MaxReadings
  <2>1. alarm[a] \in 0..MaxReadings /\ alarm[a] < MaxReadings
    BY DEF Ring, PageTypes
  <2>. QED
    BY <2>1
<1>3. alarm' \in [Alarms -> 0..MaxReadings]
  BY <1>1, <1>2 DEF PageTypes
<1>4. rings' \in Seq(Ringing) /\ Len(rings') <= MaxFrames
  <2>1. [of |-> a, status |-> alarm[a] + 1] \in Ringing
    BY <1>2 DEF Ringing
  <2>2. rings \in Seq(Ringing) /\ Len(rings) < MaxFrames
    BY DEF PageTypes, Ring
  <2>. QED
    BY <1>1, <2>1, <2>2
<1>5. PageTypes'
  BY <1>1, <1>3, <1>4 DEF PageTypes
<1>6. AnswersAreOld' /\ HandlerIsFirst' /\ LiveIsHeard'
  BY <1>1 DEF AnswersAreOld, HandlerIsFirst, LiveIsHeard
<1>7. ValueOfSelected'
  BY <1>1 DEF ValueOfSelected, NothingShown
<1>. QED
  BY <1>5, <1>6, <1>7

\* The handler of the first render has no key: it drops the frame.
LEMMA FrameArrivesInv ==
  ASSUME PageInductive, FrameArrives
  PROVE  PageInductive'
<1>. USE PageAssumption DEF PageInductive
<1>0. PICK f : f = Head(frames)
  OBVIOUS
<1>1. /\ frames # <<>> /\ frames' = Tail(frames)
      /\ UNCHANGED <<reading, alarm, selected, snapshot, asking, handler, live, rings>>
      /\ shown' = shown
      /\ heard' = [heard EXCEPT !.at[f.key] =
                     IF asking[f.key] = NotAsking THEN f.at ELSE heard.at[f.key]]
  BY <1>0 DEF FrameArrives, HandlerIsFirst
<1>2. frames \in Seq(Frame) /\ Len(frames) <= MaxFrames /\ MaxFrames \in Nat
  BY DEF PageTypes
<1>3. f \in Frame /\ frames' \in Seq(Frame) /\ Len(frames') <= MaxFrames
  BY <1>0, <1>1, <1>2
<1>4. /\ heard.at \in [PageKeys -> 0..MaxReadings] /\ heard.alarms \in SUBSET Alarms
      /\ heard = [at |-> heard.at, alarms |-> heard.alarms]
  BY DEF PageTypes
<1>5. PICK n \in 0..MaxReadings :
        heard' = [at |-> [heard.at EXCEPT ![f.key] = n], alarms |-> heard.alarms]
  BY <1>1, <1>3, <1>4 DEF Frame
<1>6. heard' \in [at : [PageKeys -> 0..MaxReadings], alarms : SUBSET Alarms]
      /\ heard'.alarms = heard.alarms
  <2>1. [heard.at EXCEPT ![f.key] = n] \in [PageKeys -> 0..MaxReadings]
    BY <1>4, <1>5
  <2>. QED
    BY <1>4, <1>5, <2>1
<1>7. PageTypes'
  BY <1>1, <1>3, <1>6 DEF PageTypes
<1>8. AnswersAreOld' /\ HandlerIsFirst' /\ LiveIsHeard'
  BY <1>1, <1>6 DEF AnswersAreOld, HandlerIsFirst, LiveIsHeard
<1>9. ValueOfSelected'
  BY <1>1 DEF ValueOfSelected, NothingShown
<1>. QED
  BY <1>7, <1>8, <1>9

LEMMA RingArrivesInv ==
  ASSUME PageInductive, RingArrives
  PROVE  PageInductive'
<1>. USE PageAssumption DEF PageInductive
<1>0. PICK r : r = Head(rings)
  OBVIOUS
<1>1. /\ rings # <<>> /\ rings' = Tail(rings)
      /\ live' = <<r>> \o live
      /\ heard' = [heard EXCEPT !.alarms = heard.alarms \cup {r.of}]
      /\ UNCHANGED <<reading, alarm, selected, snapshot, asking, shown, handler, frames>>
  BY <1>0 DEF RingArrives, Prepended
<1>2. /\ rings \in Seq(Ringing) /\ Len(rings) <= MaxFrames /\ MaxFrames \in Nat
      /\ live \in Seq(Ringing)
  BY DEF PageTypes
<1>3. r \in Ringing /\ rings' \in Seq(Ringing) /\ Len(rings') <= MaxFrames
  BY <1>0, <1>1, <1>2
<1>4. live' \in Seq(Ringing)
  BY <1>1, <1>2, <1>3
<1>5. heard' \in [at : [PageKeys -> 0..MaxReadings], alarms : SUBSET Alarms]
      /\ heard'.alarms = heard.alarms \cup {r.of}
  <2>1. /\ heard.at \in [PageKeys -> 0..MaxReadings] /\ heard.alarms \in SUBSET Alarms
        /\ heard = [at |-> heard.at, alarms |-> heard.alarms]
    BY DEF PageTypes
  <2>2. heard' = [at |-> heard.at, alarms |-> heard.alarms \cup {r.of}]
    BY <1>1, <2>1
  <2>3. r.of \in Alarms
    BY <1>3 DEF Ringing
  <2>. QED
    BY <2>1, <2>2, <2>3
<1>6. {live'[i].of : i \in DOMAIN live'} = {live[i].of : i \in DOMAIN live} \cup {r.of}
  <2>1. Len(live') = Len(live) + 1 /\ Len(live) \in Nat
        /\ DOMAIN live' = 1..(Len(live) + 1) /\ DOMAIN live = 1..Len(live)
    BY <1>1, <1>2, <1>3, <1>4
  <2>2. live'[1] = r /\ \A i \in DOMAIN live : live'[i + 1] = live[i]
    BY <1>1, <1>2, <1>3
  <2>3. ASSUME NEW i \in DOMAIN live'
        PROVE  i = 1 \/ (i - 1 \in DOMAIN live /\ live'[i] = live[i - 1])
    BY <2>1, <2>2, <2>3
  <2>4. \A i \in DOMAIN live : i + 1 \in DOMAIN live' /\ live'[i + 1].of = live[i].of
    BY <2>1, <2>2
  <2>5. 1 \in DOMAIN live' /\ live'[1].of = r.of
    BY <2>1, <2>2
  <2>. QED
    BY <2>2, <2>3, <2>4, <2>5
<1>7. PageTypes'
  BY <1>1, <1>3, <1>4, <1>5 DEF PageTypes
<1>8. AnswersAreOld' /\ HandlerIsFirst' /\ LiveIsHeard'
  BY <1>1, <1>5, <1>6 DEF AnswersAreOld, HandlerIsFirst, LiveIsHeard
<1>9. ValueOfSelected'
  BY <1>1 DEF ValueOfSelected, NothingShown
<1>. QED
  BY <1>7, <1>8, <1>9

LEMMA PageNextInv == PageInductive /\ [PageNext]_pageVars => PageInductive'
<1>. SUFFICES ASSUME PageInductive, [PageNext]_pageVars PROVE PageInductive'
  OBVIOUS
<1>1. ASSUME NEW k \in PageKeys, SelectKey(k) PROVE PageInductive'
  BY <1>1, SelectsInv DEF SelectKey
<1>2. CASE KeysArrive
  BY <1>2, SelectsInv DEF KeysArrive
<1>3. CASE AlarmsArrive
  <2>1. UNCHANGED <<reading, alarm, selected, snapshot, asking, shown, handler, frames, live,
                    rings, heard>>
    BY <1>3 DEF AlarmsArrive
  <2>. QED
    BY <2>1 DEF PageInductive, PageTypes, AnswersAreOld, HandlerIsFirst, LiveIsHeard,
               ValueOfSelected, NothingShown
<1>4. CASE UNCHANGED pageVars
  BY <1>4 DEF pageVars, PageInductive, PageTypes, AnswersAreOld, HandlerIsFirst, LiveIsHeard,
             ValueOfSelected, NothingShown
<1>. QED
  BY <1>1, <1>2, <1>3, <1>4, ReportInv, QueriesInv, RingInv, FrameArrivesInv, RingArrivesInv
  DEF PageNext

\* The rows are the live alarms the fetched list lacks, and the fetched ones.
LEMMA LiveIsListed == LiveIsHeard => DeliveredAlarmsListed
  BY DEF LiveIsHeard, DeliveredAlarmsListed, AlarmRows

\* Whatever the order of keys, answers, frames and clicks, the tile never shows a reading of
\* another key or one that was never reported, and no delivered alarm is missing from the
\* rows: for any keys and alarms, any number of readings and any number of frames under way.
THEOREM PageIsSafe == PageSpec => []PageSafe
<1>1. PageInductive => PageSafe
  BY LiveIsListed DEF PageInductive, PageSafe
<1>. QED
  BY <1>1, PageInitInv, PageNextInv, PTL DEF PageSpec

-----------------------------------------------------------------------------
(* UserAccounts *)

\* An attempt has no account before its first request, and only accounts that exist are
\* active.
AttemptInv(n) ==
  /\ users[n].phase \in {"idle", "post"} => ~ users[n].there
  /\ users[n].active => users[n].there
  /\ users[n].there => users[n].active \/ users[n].phase \in {"link", "activate", "cut"}

\* No two accounts share an address.
Unshared ==
  \A n, k \in Attempts :
    n # k /\ users[n].there /\ users[k].there => users[k].email # users[n].email

UsersInductive == UsersTypeOK /\ (\A n \in Attempts : AttemptInv(n)) /\ Unshared

LEMMA UsersInitInv == UsersInit => UsersInductive
  BY UsersAssumption DEF UsersInit, UsersInductive, UsersTypeOK, AttemptInv, Unshared, Phases

\* What one attempt does to its own record: its address stays, and an account appears only at
\* an address that is free.
LEMMA AttemptMovesInv ==
  ASSUME UsersInductive, NEW n \in Attempts,
         NEW r \in [email : Emails \cup {NoEmail}, phase : Phases,
                    there : BOOLEAN, active : BOOLEAN],
         users' = [users EXCEPT ![n] = r],
         r.phase \in {"idle", "post"} => ~ r.there,
         r.active => r.there,
         r.there => r.active \/ r.phase \in {"link", "activate", "cut"},
         r.there => /\ r.email = users[n].email
                    /\ users[n].there \/ ~ Taken(r.email)
  PROVE  UsersInductive'
<1>1. UsersTypeOK'
  BY DEF UsersInductive, UsersTypeOK
<1>2. \A k \in Attempts : users'[k] = IF k = n THEN r ELSE users[k]
  BY DEF UsersInductive, UsersTypeOK
<1>3. \A k \in Attempts : AttemptInv(k)'
  BY <1>2 DEF UsersInductive, AttemptInv
<1>4. Unshared'
  <2>1. ASSUME NEW k \in Attempts, k # n, r.there, users[k].there
        PROVE  users[k].email # r.email
    BY <2>1 DEF UsersInductive, Unshared, Taken
  <2>. QED
    BY <1>2, <2>1 DEF UsersInductive, Unshared
<1>. QED
  BY <1>1, <1>3, <1>4 DEF UsersInductive

LEMMA UsersNextInv == UsersInductive /\ [UsersNext]_users => UsersInductive'
<1>. SUFFICES ASSUME UsersInductive, [UsersNext]_users PROVE UsersInductive'
  OBVIOUS
<1>. DEFINE Moved(n, phase, there, active) ==
       [email |-> users[n].email, phase |-> phase, there |-> there, active |-> active]
<1>1. ASSUME NEW n \in Attempts
      PROVE  /\ users[n] \in [email : Emails \cup {NoEmail}, phase : Phases,
                              there : BOOLEAN, active : BOOLEAN]
             /\ AttemptInv(n)
  BY <1>1 DEF UsersInductive, UsersTypeOK
<1>2. ASSUME NEW n \in Attempts, NEW phase, NEW there, NEW active,
             Goes(n, phase, there, active)
      PROVE  users' = [users EXCEPT ![n] = Moved(n, phase, there, active)]
  <2>1. users' = [[[users EXCEPT ![n].phase = phase] EXCEPT ![n].there = there]
                     EXCEPT ![n].active = active]
    BY <1>2 DEF Goes
  <2>2. DOMAIN users = Attempts /\ users = [k \in Attempts |-> users[k]]
    BY DEF UsersInductive, UsersTypeOK
  <2>3. PICK r \in [email : Emails \cup {NoEmail}, phase : Phases,
                    there : BOOLEAN, active : BOOLEAN] : r = users[n]
    BY <1>1, <1>2
  <2>4. PICK one : one = [r EXCEPT !.phase = phase]
    OBVIOUS
  <2>5. PICK two : two = [one EXCEPT !.there = there]
    OBVIOUS
  <2>6. PICK three : three = [two EXCEPT !.active = active]
    OBVIOUS
  <2>7. one = [email |-> r.email, phase |-> phase, there |-> r.there, active |-> r.active]
    BY <2>3, <2>4
  <2>8. two = [email |-> r.email, phase |-> phase, there |-> there, active |-> r.active]
    BY <2>5, <2>7
  <2>9. three = [email |-> r.email, phase |-> phase, there |-> there, active |-> active]
    BY <2>6, <2>8
  <2>10. users' = [users EXCEPT ![n] = three]
    BY <1>2, <2>1, <2>2, <2>3, <2>4, <2>5, <2>6
  <2>. QED
    BY <2>3, <2>9, <2>10
<1>3. ASSUME NEW n \in Attempts, NEW email \in Emails, StartUser(n, email)
      PROVE  UsersInductive'
  <2>. DEFINE r == [email |-> email, phase |-> "post", there |-> users[n].there,
                    active |-> users[n].active]
  <2>1. users' = [users EXCEPT ![n] = r]
    BY <1>1, <1>3 DEF StartUser, UsersInductive, UsersTypeOK
  <2>2. ~ users[n].there /\ ~ users[n].active
    BY <1>1, <1>3 DEF StartUser, AttemptInv
  <2>3. r \in [email : Emails \cup {NoEmail}, phase : Phases, there : BOOLEAN, active : BOOLEAN]
    BY <1>1 DEF Phases
  <2>. QED
    BY <2>1, <2>2, <2>3, AttemptMovesInv
<1>4. ASSUME NEW n \in Attempts, NEW phase \in {"link", "activate", "ok", "cut"},
             NEW there \in BOOLEAN, NEW active \in BOOLEAN,
             Goes(n, phase, there, active),
             active => there,
             phase = "ok" /\ there => active,
             there => users[n].there \/ ~ Taken(users[n].email)
      PROVE  UsersInductive'
  <2>1. Moved(n, phase, there, active)
          \in [email : Emails \cup {NoEmail}, phase : Phases, there : BOOLEAN, active : BOOLEAN]
    BY <1>1, <1>4 DEF Phases
  <2>2. users' = [users EXCEPT ![n] = Moved(n, phase, there, active)]
    BY <1>2, <1>4
  <2>. QED
    BY <1>4, <2>1, <2>2, AttemptMovesInv
<1>5. ASSUME NEW n \in Attempts, NEW phase \in Phases, Goes(n, phase, FALSE, FALSE)
      PROVE  UsersInductive'
  <2>1. Moved(n, phase, FALSE, FALSE)
          \in [email : Emails \cup {NoEmail}, phase : Phases, there : BOOLEAN, active : BOOLEAN]
    BY <1>1, <1>5
  <2>2. users' = [users EXCEPT ![n] = Moved(n, phase, FALSE, FALSE)]
    BY <1>2, <1>5
  <2>. QED
    BY <2>1, <2>2, AttemptMovesInv
<1>6. ASSUME NEW n \in Attempts, PostUser(n) PROVE UsersInductive'
  BY <1>4, <1>5, <1>6 DEF PostUser, Phases
<1>7. ASSUME NEW n \in Attempts, GetActivationLink(n) PROVE UsersInductive'
  BY <1>4, <1>5, <1>7 DEF GetActivationLink, GoesIfThere, Phases
<1>8. ASSUME NEW n \in Attempts, Activate(n) PROVE UsersInductive'
  BY <1>4, <1>5, <1>8 DEF Activate, GoesIfThere, Phases
<1>9. ASSUME NEW n \in Attempts, CutShort(n) PROVE UsersInductive'
  BY <1>1, <1>4, <1>9 DEF CutShort
<1>10. ASSUME NEW n \in Attempts, DeleteUser(n) PROVE UsersInductive'
  BY <1>1, <1>5, <1>10 DEF DeleteUser
<1>11. CASE UNCHANGED users
  BY <1>11 DEF UsersInductive, UsersTypeOK, AttemptInv, Unshared
<1>. QED
  BY <1>3, <1>6, <1>7, <1>8, <1>9, <1>10, <1>11 DEF UsersNext

\* However creations of users overlap, fail half-way or meet a deletion: an account nobody can
\* sign in to belongs to a creation under way or cut short, and no two share an address.
THEOREM UsersAccountsWork == UsersSpec => []AccountsWork
<1>1. UsersInductive => AccountsWork
  BY DEF UsersInductive, AttemptInv, Unshared, AccountsWork
<1>. QED
  BY <1>1, UsersInitInv, UsersNextInv, PTL DEF UsersSpec

-----------------------------------------------------------------------------
(* ClientWizard *)

\* The form's levels are a sequence, and the last request names a client and its levels.
WizardInductive ==
  /\ wizard.levels \in Seq(Names \cup {BlankName})
  /\ wizard \in [step : Nat, name : Names \cup {BlankName}, levels : {wizard.levels}]
  /\ posts \in Nat
  /\ created.levels \in Seq([levelIndex : Nat, name : Names])
  /\ created.name \in Names \/ posts = 0

LEMMA WizardInitInv == WizardInit => WizardInductive
<1>. SUFFICES ASSUME WizardInit PROVE WizardInductive
  OBVIOUS
<1>1. PICK bare : bare = <<>>
  OBVIOUS
<1>2. created = [name |-> BlankName, levels |-> bare]
  BY <1>1, Zenon DEF WizardInit
<1>3. created.levels = bare
  BY <1>2
<1>4. PICK S : S = [levelIndex : Nat, name : Names]
  OBVIOUS
<1>5. bare \in Seq(S)
  BY <1>1
<1>6. created.levels \in Seq([levelIndex : Nat, name : Names])
  BY <1>3, <1>4, <1>5
<1>. QED
  BY <1>6, WizardAssumption DEF WizardInit, WizardInductive, NewWizard

\* An edit of the form, which leaves the request alone.
LEMMA TurnsInv ==
  ASSUME WizardInductive, NEW to \in Nat, NEW name \in Names \cup {BlankName},
         NEW levels \in Seq(Names \cup {BlankName}),
         wizard' = [step |-> to, name |-> name, levels |-> levels],
         UNCHANGED <<created, posts>>
  PROVE  WizardInductive'
  BY DEF WizardInductive

LEMMA EditsInv ==
  ASSUME WizardInductive, NEW levels \in Seq(Names \cup {BlankName}), Edits(levels)
  PROVE  WizardInductive'
<1>1. /\ wizard' = [step |-> wizard.step, name |-> wizard.name, levels |-> levels]
      /\ wizard.step \in Nat /\ wizard.name \in Names \cup {BlankName}
      /\ UNCHANGED <<created, posts>>
  BY DEF WizardInductive, Edits, Turns
<1>. QED
  BY <1>1, TurnsInv

LEMMA SubmitInv ==
  ASSUME WizardInductive, Submit
  PROVE  WizardInductive'
<1>1. wizard.levels \in Seq(Names \cup {BlankName})
  BY DEF WizardInductive
<1>2. PICK levels : levels = wizard.levels
  OBVIOUS
<1>3. PICK numbered : numbered = Numbered(levels)
  OBVIOUS
<1>4. \A i \in DOMAIN levels : levels[i] \in Names
  BY <1>1, <1>2 DEF Submit, LevelsValid, ToSet
<1>5. PICK S : S = [levelIndex : Nat, name : Names]
  OBVIOUS
<1>6. numbered \in Seq(S)
  <2>1. /\ numbered = [i \in 1..Len(levels) |-> [levelIndex |-> i - 1, name |-> levels[i]]]
        /\ DOMAIN levels = 1..Len(levels) /\ Len(levels) \in Nat
    BY <1>1, <1>2, <1>3 DEF Numbered
  <2>2. \A i \in 1..Len(levels) : [levelIndex |-> i - 1, name |-> levels[i]] \in S
    BY <1>4, <1>5, <2>1
  <2>. QED
    BY <2>1, <2>2
<1>7. /\ wizard' = wizard /\ posts' = posts + 1
      /\ created' = [name |-> wizard.name, levels |-> numbered]
      /\ wizard.name # BlankName
  BY <1>2, <1>3 DEF Submit
<1>. QED
  BY <1>5, <1>6, <1>7 DEF WizardInductive

LEMMA WizardNextInv == WizardInductive /\ [WizardNext]_wizardVars => WizardInductive'
<1>. SUFFICES ASSUME WizardInductive, [WizardNext]_wizardVars PROVE WizardInductive'
  OBVIOUS
<1>. USE WizardAssumption
<1>1. /\ wizard.levels \in Seq(Names \cup {BlankName})
      /\ wizard.step \in Nat /\ wizard.name \in Names \cup {BlankName}
      /\ wizard = [step |-> wizard.step, name |-> wizard.name, levels |-> wizard.levels]
  BY DEF WizardInductive
<1>2. ASSUME NEW name \in Names \cup {BlankName}, TypeName(name) PROVE WizardInductive'
  <2>1. /\ wizard' = [step |-> wizard.step, name |-> name, levels |-> wizard.levels]
        /\ UNCHANGED <<created, posts>>
    BY <1>1, <1>2 DEF TypeName, Turns
  <2>. QED
    BY <1>1, <2>1, TurnsInv
<1>3. ASSUME NEW to \in Nat, Turns([wizard EXCEPT !.step = to]) PROVE WizardInductive'
  <2>1. /\ wizard' = [step |-> to, name |-> wizard.name, levels |-> wizard.levels]
        /\ UNCHANGED <<created, posts>>
    BY <1>1, <1>3 DEF Turns
  <2>. QED
    BY <1>1, <2>1, TurnsInv
<1>4. CASE GoNext
  <2>1. Turns([wizard EXCEPT !.step = wizard.step + 1]) /\ wizard.step + 1 \in Nat
    BY <1>1, <1>4 DEF GoNext
  <2>. QED
    BY <1>3, <2>1
<1>5. CASE GoBack
  <2>1. Turns([wizard EXCEPT !.step = wizard.step - 1]) /\ wizard.step - 1 \in Nat
    BY <1>1, <1>5 DEF GoBack
  <2>. QED
    BY <1>3, <2>1
<1>6. CASE AddLevel
  <2>1. Append(wizard.levels, BlankName) \in Seq(Names \cup {BlankName})
    BY <1>1
  <2>. QED
    BY <1>6, <2>1, EditsInv DEF AddLevel
<1>7. ASSUME NEW i \in DOMAIN wizard.levels, NEW name \in Names \cup {BlankName},
             NameLevel(i, name)
      PROVE  WizardInductive'
  BY <1>1, <1>7, EditsInv DEF NameLevel
<1>8. ASSUME NEW i \in DOMAIN wizard.levels, MoveUp(i) PROVE WizardInductive'
  <2>1. i \in 1..Len(wizard.levels) /\ i - 1 \in 1..Len(wizard.levels)
    BY <1>1, <1>8 DEF MoveUp
  <2>2. [wizard.levels EXCEPT ![i] = wizard.levels[i - 1], ![i - 1] = wizard.levels[i]]
          \in Seq(Names \cup {BlankName})
    BY <1>1, <2>1
  <2>. QED
    BY <1>8, <2>2, EditsInv DEF MoveUp
<1>9. ASSUME NEW i \in DOMAIN wizard.levels, RemoveLevel(i) PROVE WizardInductive'
  <2>1. RemoveAt(wizard.levels, i) \in Seq(Names \cup {BlankName})
    BY <1>1, <1>9 DEF RemoveAt
  <2>. QED
    BY <1>9, <2>1, EditsInv DEF RemoveLevel
<1>10. ASSUME wizard' \in {wizard, NewWizard}, UNCHANGED <<created, posts>>
       PROVE  WizardInductive'
  <2>1. CASE wizard' = wizard
    BY <1>1, <1>10, <2>1, TurnsInv
  <2>2. CASE wizard' = NewWizard
    <3>1. DefaultNames \in Seq(Names \cup {BlankName})
      OBVIOUS
    <3>. QED
      BY <1>10, <2>2, <3>1, TurnsInv DEF NewWizard
  <2>. QED
    BY <1>10, <2>1, <2>2
<1>11. CASE ClientCreated \/ ClientRefused \/ CloseWizard \/ UNCHANGED wizardVars
  BY <1>10, <1>11 DEF ClientCreated, ClientRefused, CloseWizard, wizardVars
<1>. QED
  BY <1>2, <1>4, <1>5, <1>6, <1>7, <1>8, <1>9, <1>11, SubmitInv DEF WizardNext

-----------------------------------------------------------------------------
(* DashboardEditor *)

\* The page is a record with these fields.
PageShape ==
  page = [phase |-> page.phase, new |-> page.new, seeded |-> page.seeded,
          staged |-> page.staged, sharing |-> page.sharing, exiting |-> page.exiting,
          meant |-> page.meant, lost |-> page.lost, shares |-> page.shares]

\* So is each save.
SavesShape ==
  saves = [n \in SaveIds |->
             [phase |-> saves[n].phase, mine |-> saves[n].mine, create |-> saves[n].create,
              widgets |-> saves[n].widgets, sharing |-> saves[n].sharing,
              shares |-> saves[n].shares]]

\* Which EXCEPT relies on.
EditorShapes ==
  /\ PageShape
  /\ fetch = [phase |-> fetch.phase, failed |-> fetch.failed, copy |-> fetch.copy]
  /\ SavesShape
  /\ stored.shares \in Nat

\* Only a filled editor, or that of a new dashboard, is edited; until it is filled nothing
\* fades and nothing is lost.
IsFilled ==
  /\ page.phase = "editing" => page.new \/ page.seeded
  /\ ~ page.new /\ ~ page.seeded => page.exiting = {} /\ page.lost = {}

\* A sharing the dashboard has had: it is the stored one unless that changed since.
KnownCopy(sharing, shares) ==
  /\ stored.state # "none"
  /\ IsLive(stored) => /\ shares \in Nat /\ shares <= stored.shares
                       /\ shares = stored.shares => sharing = stored.sharing

SavePending(n) == saves[n].phase \in {"sent", "checked"} /\ ~ saves[n].create

KnownCopies ==
  /\ IsLive(cache) => KnownCopy(cache.sharing, cache.shares)
  /\ fetch.phase = "read" => KnownCopy(fetch.copy.sharing, fetch.copy.shares)
  /\ page.seeded => KnownCopy(page.sharing, page.shares)
  /\ \A n \in SaveIds : SavePending(n) => KnownCopy(saves[n].sharing, saves[n].shares)

\* A checked update is by somebody who may edit.
CheckedByEditors == \A n \in SaveIds : saves[n].phase = "checked" => saves[n].create \/ MayEdit

PageIsKept == EditsKept /\ page.meant \cap page.exiting = {} /\ IsFilled

EditorInductive == EditorShapes /\ PageIsKept /\ KnownCopies /\ CheckedByEditors

LEMMA EditorInitInv == EditorInit => EditorInductive
<1>. SUFFICES ASSUME EditorInit PROVE EditorInductive
  OBVIOUS
<1>1. EditorShapes
  BY DEF EditorInit, EditorShapes, PageShape, SavesShape, Closed, NoFetch, Unsent, NoCopy
<1>2. PageIsKept
  BY DEF EditorInit, PageIsKept, EditsKept, IsFilled, Closed
<1>3. KnownCopies /\ CheckedByEditors
  BY DEF EditorInit, KnownCopies, CheckedByEditors, SavePending, IsLive, NoCopy, NoFetch, Closed,
         Unsent
<1>. QED
  BY <1>1, <1>2, <1>3 DEF EditorInductive

\* What is known stays known: every change of the sharing is counted, and a dashboard that was
\* deleted does not come back.
LEMMA KnownStays ==
  ASSUME EditorInductive, [EditorNext]_editorVars
  PROVE  /\ stored'.shares \in Nat
         /\ \A sharing, shares : KnownCopy(sharing, shares) => KnownCopy(sharing, shares)'
<1>1. stored.shares \in Nat
  BY DEF EditorInductive, EditorShapes
<1>2. ASSUME NEW widgets, NEW granted, Replaced(widgets, granted),
             stored.state = "none" \/ IsLive(stored)
      PROVE  /\ stored'.shares \in Nat
             /\ \A sharing, shares : KnownCopy(sharing, shares) => KnownCopy(sharing, shares)'
  BY <1>1, <1>2 DEF Replaced, KnownCopy, IsLive
<1>3. ASSUME NEW n \in SaveIds, CommitSave(n)
      PROVE  /\ stored'.shares \in Nat
             /\ \A sharing, shares : KnownCopy(sharing, shares) => KnownCopy(sharing, shares)'
  BY <1>2, <1>3 DEF CommitSave
<1>4. ASSUME NEW widgets, NEW sharing, OthersSave(widgets, sharing)
      PROVE  /\ stored'.shares \in Nat
             /\ \A sh, shares : KnownCopy(sh, shares) => KnownCopy(sh, shares)'
  BY <1>2, <1>4 DEF OthersSave
<1>5. CASE DeleteDashboard
  BY <1>5 DEF DeleteDashboard, NoCopy, KnownCopy, IsLive
<1>6. CASE UNCHANGED stored
  BY <1>1, <1>6 DEF KnownCopy, IsLive
<1>7. ASSUME ~ UNCHANGED stored
      PROVE  \/ \E n \in SaveIds : CommitSave(n)
             \/ \E widgets \in SUBSET Widgets, sharing \in Sharings : OthersSave(widgets, sharing)
             \/ DeleteDashboard
  BY <1>7
  DEF EditorNext, editorVars, OpenPage, OpenNew, ClosePage, Forget, FetchReads, PageFetchFails,
      FetchAnswers, StartEditing, AddWidget, RemoveWidget, AnimationEnds, Save, CheckSave,
      CommitElsewhere, ReadSaved, SaveSucceeds, OtherSucceeds, SaveFails
<1>. QED
  BY <1>3, <1>4, <1>5, <1>6, <1>7

\* What the page may become, and what it then shows.
LEMMA SeededKept ==
  ASSUME EditorInductive, ~ page.new, NEW copy, page' = Seeded(page, copy)
  PROVE  /\ PageIsKept' /\ page'.seeded
         /\ page'.sharing = copy.sharing /\ page'.shares = copy.shares
         /\ PageShape'
  BY DEF EditorInductive, EditorShapes, PageShape, PageIsKept, EditsKept, IsFilled, Seeded

LEMMA OpenedKept ==
  ASSUME EditorInductive, page' = Opened
  PROVE  /\ PageIsKept' /\ PageShape'
         /\ page'.seeded => /\ IsLive(cache)
                            /\ page'.sharing = cache.sharing /\ page'.shares = cache.shares
  BY DEF Opened, Seeded, Closed, PageIsKept, EditsKept, IsFilled, PageShape

\* The editor's own steps, which keep the sharing.
LEMMA EditingKept ==
  ASSUME EditorInductive,
         \/ StartEditing \/ AnimationEnds
         \/ \E w \in Widgets : AddWidget(w) \/ RemoveWidget(w)
  PROVE  /\ PageIsKept' /\ PageShape'
         /\ page'.seeded = page.seeded
         /\ page'.sharing = page.sharing /\ page'.shares = page.shares
<1>. USE DEF EditorInductive, EditorShapes, PageShape, PageIsKept, EditsKept, IsFilled
<1>1. CASE StartEditing
  BY <1>1 DEF StartEditing
<1>2. CASE AnimationEnds
  BY <1>2 DEF AnimationEnds
<1>3. ASSUME NEW w \in Widgets, AddWidget(w)
      PROVE  /\ PageIsKept' /\ PageShape'
             /\ page'.seeded = page.seeded
             /\ page'.sharing = page.sharing /\ page'.shares = page.shares
  BY <1>3 DEF AddWidget, Editing
<1>4. ASSUME NEW w \in Widgets, RemoveWidget(w)
      PROVE  /\ PageIsKept' /\ PageShape'
             /\ page'.seeded = page.seeded
             /\ page'.sharing = page.sharing /\ page'.shares = page.shares
  <2>1. page' = [phase |-> page.phase, new |-> page.new, seeded |-> page.seeded,
                 staged |-> page.staged, sharing |-> page.sharing, exiting |-> {w},
                 meant |-> page.meant \ {w}, lost |-> (page.lost \cup page.exiting) \ {w},
                 shares |-> page.shares]
    BY <1>4 DEF RemoveWidget
  <2>2. page.phase = "editing" /\ w \in page.staged
    BY <1>4 DEF RemoveWidget, Editing
  <2>. QED
    BY <2>1, <2>2
<1>. QED
  BY <1>1, <1>2, <1>3, <1>4

\* Every step leaves the page with its widgets, and with a sharing the dashboard has had.
LEMMA PageMoves ==
  ASSUME EditorInductive, [EditorNext]_editorVars
  PROVE  /\ PageIsKept' /\ PageShape'
         /\ page'.seeded => KnownCopy(page.sharing, page.shares)'
<1>. DEFINE Goal == /\ PageIsKept' /\ PageShape'
                    /\ page'.seeded => KnownCopy(page.sharing, page.shares)'
<1>1. \A sharing, shares : KnownCopy(sharing, shares) => KnownCopy(sharing, shares)'
  BY KnownStays
<1>2. page.seeded => KnownCopy(page.sharing, page.shares)
  BY DEF EditorInductive, KnownCopies
<1>3. ASSUME PageIsKept', PageShape', page'.seeded = page.seeded,
             page'.sharing = page.sharing, page'.shares = page.shares
      PROVE  Goal
  <2>1. PICK sharing, shares : sharing = page.sharing /\ shares = page.shares
    OBVIOUS
  <2>2. page.seeded => KnownCopy(sharing, shares)'
    BY <1>1, <1>2, <2>1
  <2>. QED
    BY <1>3, <2>1, <2>2 DEF KnownCopy
<1>4. ASSUME page' = page PROVE Goal
  <2>1. PageIsKept' /\ PageShape'
    BY <1>4 DEF EditorInductive, EditorShapes, PageShape, PageIsKept, EditsKept, IsFilled
  <2>. QED
    BY <1>3, <1>4, <2>1
<1>5. ASSUME page' = Closed \/ page' = [Closed EXCEPT !.phase = "editing", !.new = TRUE]
      PROVE  Goal
  <2>1. PICK phase \in {"closed", "editing"}, new \in BOOLEAN :
          /\ page' = [phase |-> phase, new |-> new, seeded |-> FALSE, staged |-> {},
                      sharing |-> "private", exiting |-> {}, meant |-> {}, lost |-> {},
                      shares |-> 0]
          /\ phase = "editing" => new
    BY <1>5 DEF Closed
  <2>. QED
    BY <2>1 DEF PageShape, PageIsKept, EditsKept, IsFilled
<1>6. ASSUME page' = Opened PROVE Goal
  <2>1. /\ PageIsKept' /\ PageShape'
        /\ page'.seeded => /\ IsLive(cache)
                           /\ page'.sharing = cache.sharing /\ page'.shares = cache.shares
    BY <1>6, OpenedKept
  <2>2. PICK sharing, shares : sharing = cache.sharing /\ shares = cache.shares
    OBVIOUS
  <2>3. IsLive(cache) => KnownCopy(sharing, shares)'
    BY <1>1, <2>2 DEF EditorInductive, KnownCopies
  <2>. QED
    BY <2>1, <2>2, <2>3 DEF KnownCopy
<1>7. ASSUME FetchAnswers, ~ page.new, page' = Seeded(page, fetch.copy) PROVE Goal
  <2>1. /\ PageIsKept' /\ page'.seeded /\ PageShape'
        /\ page'.sharing = fetch.copy.sharing /\ page'.shares = fetch.copy.shares
    BY <1>7, SeededKept
  <2>2. PICK sharing, shares : sharing = fetch.copy.sharing /\ shares = fetch.copy.shares
    OBVIOUS
  <2>3. KnownCopy(sharing, shares)'
    BY <1>1, <1>7, <2>2 DEF EditorInductive, KnownCopies, FetchAnswers
  <2>. QED
    BY <2>1, <2>2, <2>3 DEF KnownCopy
<1>8. ASSUME page' = [page EXCEPT !.exiting = {}, !.lost = page.lost \cup page.exiting], ~ page.new
      PROVE  Goal
  <2>1. page' = [phase |-> page.phase, new |-> page.new, seeded |-> page.seeded,
                 staged |-> page.staged, sharing |-> page.sharing, exiting |-> {},
                 meant |-> page.meant, lost |-> page.lost \cup page.exiting,
                 shares |-> page.shares]
    BY <1>8 DEF EditorInductive, EditorShapes, PageShape
  <2>2. PageIsKept' /\ PageShape'
    BY <2>1 DEF EditorInductive, PageShape, PageIsKept, EditsKept, IsFilled
  <2>. QED
    BY <1>3, <2>1, <2>2
<1>9. ASSUME page' = [page EXCEPT !.phase = "viewing"] PROVE Goal
  <2>1. page' = [phase |-> "viewing", new |-> page.new, seeded |-> page.seeded,
                 staged |-> page.staged, sharing |-> page.sharing, exiting |-> page.exiting,
                 meant |-> page.meant, lost |-> page.lost, shares |-> page.shares]
    BY <1>9 DEF EditorInductive, EditorShapes, PageShape
  <2>2. PageIsKept' /\ PageShape'
    BY <2>1 DEF EditorInductive, PageShape, PageIsKept, EditsKept, IsFilled
  <2>. QED
    BY <1>3, <2>1, <2>2
<1>10. CASE OpenPage \/ OpenNew \/ ClosePage
  BY <1>5, <1>6, <1>10 DEF OpenPage, OpenNew, ClosePage
<1>11. CASE PageFetchFails \/ FetchAnswers
  BY <1>4, <1>7, <1>8, <1>11 DEF PageFetchFails, FetchAnswers
<1>12. CASE \/ StartEditing \/ AnimationEnds
            \/ \E w \in Widgets : AddWidget(w) \/ RemoveWidget(w)
  BY <1>3, <1>12, EditingKept
<1>13. ASSUME NEW n \in SaveIds, SaveSucceeds(n) \/ OtherSucceeds(n) PROVE Goal
  BY <1>4, <1>5, <1>6, <1>9, <1>13 DEF SaveSucceeds, OtherSucceeds
<1>14. ASSUME page' # page
       PROVE  \/ OpenPage \/ OpenNew \/ ClosePage \/ PageFetchFails \/ FetchAnswers
              \/ StartEditing \/ AnimationEnds
              \/ \E w \in Widgets : AddWidget(w) \/ RemoveWidget(w)
              \/ \E n \in SaveIds : SaveSucceeds(n) \/ OtherSucceeds(n)
  BY <1>14
  DEF EditorNext, editorVars, Forget, FetchReads, Save, CheckSave, CommitSave, CommitElsewhere,
      ReadSaved, SaveFails, OthersSave, DeleteDashboard
<1>. QED
  BY <1>4, <1>10, <1>11, <1>12, <1>13, <1>14

\* What is fetched is the stored dashboard, and what is cached was fetched.
LEMMA FetchMoves ==
  ASSUME EditorInductive, [EditorNext]_editorVars
  PROVE  /\ fetch' = [phase |-> fetch'.phase, failed |-> fetch'.failed, copy |-> fetch'.copy]
         /\ fetch'.phase = "read" => KnownCopy(fetch.copy.sharing, fetch.copy.shares)'
         /\ IsLive(cache') => KnownCopy(cache.sharing, cache.shares)'
<1>. DEFINE Shape == fetch' = [phase |-> fetch'.phase, failed |-> fetch'.failed,
                               copy |-> fetch'.copy]
            Read == fetch'.phase = "read" => KnownCopy(fetch.copy.sharing, fetch.copy.shares)'
            Cached == IsLive(cache') => KnownCopy(cache.sharing, cache.shares)'
<1>1. \A sharing, shares : KnownCopy(sharing, shares) => KnownCopy(sharing, shares)'
  BY KnownStays
<1>2. ASSUME fetch' = fetch PROVE Shape /\ Read
  <2>1. PICK sharing, shares : sharing = fetch.copy.sharing /\ shares = fetch.copy.shares
    OBVIOUS
  <2>2. fetch.phase = "read" => KnownCopy(sharing, shares)'
    BY <1>1, <2>1 DEF EditorInductive, KnownCopies
  <2>3. Read
    BY <1>2, <2>1, <2>2 DEF KnownCopy
  <2>. QED
    BY <1>2, <2>3 DEF EditorInductive, EditorShapes
<1>3. ASSUME cache' = cache PROVE Cached
  <2>1. PICK sharing, shares : sharing = cache.sharing /\ shares = cache.shares
    OBVIOUS
  <2>2. IsLive(cache) => KnownCopy(sharing, shares)'
    BY <1>1, <2>1 DEF EditorInductive, KnownCopies
  <2>. QED
    BY <1>3, <2>1, <2>2 DEF KnownCopy
<1>4. ASSUME fetch'.phase # "read",
             \/ fetch' = NoFetch
             \/ fetch' = [NoFetch EXCEPT !.failed = TRUE]
             \/ fetch' = [fetch EXCEPT !.phase = "asked"]
             \/ fetch' = [fetch EXCEPT !.phase = "asked", !.copy = NoCopy]
      PROVE  Shape /\ Read
  BY <1>4 DEF NoFetch, EditorInductive, EditorShapes
<1>5. CASE OpenPage
  <2>1. fetch' = fetch \/ fetch' = [fetch EXCEPT !.phase = "asked"]
    BY <1>5 DEF OpenPage, EditorInductive, EditorShapes
  <2>2. cache' = cache
    BY <1>5 DEF OpenPage
  <2>3. ASSUME fetch' = [fetch EXCEPT !.phase = "asked"] PROVE fetch'.phase # "read"
    BY <2>3 DEF EditorInductive, EditorShapes
  <2>. QED
    BY <1>2, <1>3, <1>4, <2>1, <2>2, <2>3
<1>6. CASE Forget
  <2>1. fetch' = NoFetch /\ fetch'.phase # "read" /\ ~ IsLive(cache')
    BY <1>6 DEF Forget, NoFetch, NoCopy, IsLive
  <2>. QED
    BY <1>4, <2>1
<1>7. CASE FetchReads
  <2>1. fetch' = [phase |-> "read", failed |-> fetch.failed, copy |-> stored]
        /\ stored' = stored /\ cache' = cache /\ stored.state = "live" /\ stored.shares \in Nat
    BY <1>7 DEF FetchReads, MayRead, IsLive, EditorInductive, EditorShapes
  <2>2. Shape /\ Read
    BY <2>1 DEF KnownCopy, IsLive
  <2>. QED
    BY <1>3, <2>1, <2>2
<1>8. CASE PageFetchFails
  <2>1. fetch' = [NoFetch EXCEPT !.failed = TRUE] /\ fetch'.phase # "read" /\ cache' = cache
    BY <1>8 DEF PageFetchFails, NoFetch
  <2>. QED
    BY <1>3, <1>4, <2>1
<1>9. CASE FetchAnswers
  <2>1. fetch' = NoFetch /\ fetch'.phase # "read" /\ cache' = fetch.copy /\ fetch.phase = "read"
    BY <1>9 DEF FetchAnswers, NoFetch
  <2>2. PICK sharing, shares : sharing = fetch.copy.sharing /\ shares = fetch.copy.shares
    OBVIOUS
  <2>3. KnownCopy(sharing, shares)'
    BY <1>1, <2>1, <2>2 DEF EditorInductive, KnownCopies
  <2>4. Cached
    BY <2>1, <2>2, <2>3 DEF KnownCopy
  <2>. QED
    BY <1>4, <2>1, <2>4
<1>10. ASSUME NEW n \in SaveIds, SaveSucceeds(n) PROVE Shape /\ Read /\ Cached
  <2>1. fetch' = fetch \/ fetch' = [fetch EXCEPT !.phase = "asked", !.copy = NoCopy]
    BY <1>10 DEF SaveSucceeds
  <2>2. ASSUME fetch' = [fetch EXCEPT !.phase = "asked", !.copy = NoCopy]
        PROVE  fetch'.phase # "read"
    BY <2>2 DEF EditorInductive, EditorShapes
  <2>3. cache' = cache
    BY <1>10 DEF SaveSucceeds
  <2>. QED
    BY <1>2, <1>3, <1>4, <2>1, <2>2, <2>3
<1>11. ASSUME fetch' # fetch \/ cache' # cache
       PROVE  \/ OpenPage \/ Forget \/ FetchReads \/ PageFetchFails \/ FetchAnswers
              \/ \E n \in SaveIds : SaveSucceeds(n)
  BY <1>11
  DEF EditorNext, editorVars, OpenNew, ClosePage, StartEditing, AddWidget, RemoveWidget,
      AnimationEnds, Save, CheckSave, CommitSave, CommitElsewhere, ReadSaved, OtherSucceeds,
      SaveFails, OthersSave, DeleteDashboard
<1>. QED
  BY <1>2, <1>3, <1>5, <1>6, <1>7, <1>8, <1>9, <1>10, <1>11

\* A save that waits for its transaction is one that waited, or the page's new one.
LEMMA SavesMoves ==
  ASSUME EditorInductive, [EditorNext]_editorVars
  PROVE  /\ SavesShape'
         /\ \A n \in SaveIds : SavePending(n)' => KnownCopy(saves[n].sharing, saves[n].shares)'
         /\ CheckedByEditors'
<1>. DEFINE Same(i) == /\ saves'[i].create = saves[i].create
                       /\ saves'[i].sharing = saves[i].sharing
                       /\ saves'[i].shares = saves[i].shares
            Goal == /\ SavesShape'
                    /\ \A n \in SaveIds :
                         SavePending(n)' => KnownCopy(saves[n].sharing, saves[n].shares)'
                    /\ CheckedByEditors'
<1>1. \A sharing, shares : KnownCopy(sharing, shares) => KnownCopy(sharing, shares)'
  BY KnownStays
<1>2. SavesShape
  BY DEF SavesShape, EditorInductive, EditorShapes
<1>3. role' = role
  BY DEF EditorNext, editorVars, OpenPage, OpenNew, ClosePage, Forget, FetchReads,
         PageFetchFails, FetchAnswers, StartEditing, AddWidget, RemoveWidget, AnimationEnds,
         Save, CheckSave, CommitSave, CommitElsewhere, ReadSaved, SaveSucceeds, OtherSucceeds,
         SaveFails, OthersSave, DeleteDashboard
<1>4. ASSUME SavesShape',
             \A i \in SaveIds : SavePending(i)' => SavePending(i) /\ Same(i),
             \A i \in SaveIds : saves'[i].phase = "checked"
                                  => saves'[i].create \/ MayEdit
      PROVE  Goal
  <2>1. ASSUME NEW i \in SaveIds, SavePending(i)'
        PROVE  KnownCopy(saves[i].sharing, saves[i].shares)'
    <3>1. PICK sharing, shares : sharing = saves[i].sharing /\ shares = saves[i].shares
      OBVIOUS
    <3>2. KnownCopy(sharing, shares)
      BY <1>4, <2>1, <3>1 DEF EditorInductive, KnownCopies
    <3>3. KnownCopy(sharing, shares)'
      BY <1>1, <3>2
    <3>. QED
      BY <1>4, <2>1, <3>1, <3>3 DEF KnownCopy
  <2>2. CheckedByEditors'
    BY <1>3, <1>4 DEF CheckedByEditors, MayEdit
  <2>. QED
    BY <1>4, <2>1, <2>2
<1>5. ASSUME SavesShape',
             \A i \in SaveIds : saves'[i].phase \in {"sent", "checked"}
                                  => saves'[i].phase = saves[i].phase /\ Same(i)
      PROVE  Goal
  <2>1. \A i \in SaveIds : SavePending(i)' => SavePending(i) /\ Same(i)
    BY <1>5 DEF SavePending
  <2>2. \A i \in SaveIds : saves'[i].phase = "checked" => saves'[i].create \/ MayEdit
    BY <1>5 DEF EditorInductive, CheckedByEditors
  <2>. QED
    BY <1>4, <1>5, <2>1, <2>2
<1>6. ASSUME UNCHANGED saves PROVE Goal
  <2>1. SavesShape'
    BY <1>2, <1>6 DEF SavesShape
  <2>. QED
    BY <1>5, <1>6, <2>1
<1>7. ASSUME NEW n \in SaveIds, NEW phase, MoveTo(n, phase)
      PROVE  /\ SavesShape'
             /\ saves'[n].phase = phase
             /\ \A i \in SaveIds : Same(i) /\ (i # n => saves'[i] = saves[i])
  BY <1>2, <1>7 DEF SavesShape, MoveTo
<1>8. ASSUME NEW n \in SaveIds, NEW phase, phase \notin {"sent", "checked"}, MoveTo(n, phase)
      PROVE  Goal
  <2>1. SavesShape'
    BY <1>7, <1>8
  <2>2. \A i \in SaveIds : saves'[i].phase \in {"sent", "checked"}
                             => saves'[i].phase = saves[i].phase /\ Same(i)
    BY <1>7, <1>8
  <2>. QED
    BY <1>5, <2>1, <2>2
<1>9. ASSUME NEW done \in SUBSET SaveIds,
             \A i \in SaveIds : saves'[i] \in {saves[i], Orphaned(i)} \cup
                                              (IF i \in done THEN {Done} ELSE {}),
             saves' = [i \in SaveIds |-> saves'[i]]
      PROVE  Goal
  <2>1. \A i \in SaveIds : saves'[i] = Done
          \/ /\ saves'[i].phase = saves[i].phase /\ Same(i)
             /\ saves'[i] = [phase |-> saves[i].phase, mine |-> saves'[i].mine,
                             create |-> saves[i].create, widgets |-> saves[i].widgets,
                             sharing |-> saves[i].sharing, shares |-> saves[i].shares]
    BY <1>2, <1>9 DEF SavesShape, Orphaned
  <2>2. SavesShape'
    BY <1>9, <2>1 DEF SavesShape, Done, Unsent
  <2>3. Done.phase \notin {"sent", "checked"}
    BY DEF Done, Unsent
  <2>. QED
    BY <1>5, <2>1, <2>2, <2>3
<1>10. CASE ClosePage
  <2>1. saves' = [i \in SaveIds |-> Orphaned(i)]
    BY <1>10 DEF ClosePage
  <2>2. {} \in SUBSET SaveIds
    OBVIOUS
  <2>. QED
    BY <1>9, <2>1, <2>2
<1>11. ASSUME NEW n \in SaveIds, SaveSucceeds(n) \/ OtherSucceeds(n) \/ SaveFails(n)
       PROVE  Goal
  <2>1. {n} \in SUBSET SaveIds
    OBVIOUS
  <2>2. saves = [i \in SaveIds |-> saves[i]]
    BY <1>2 DEF SavesShape
  <2>3. /\ saves' = [i \in SaveIds |-> saves'[i]]
        /\ \A i \in SaveIds : saves'[i] \in {saves[i], Orphaned(i)} \cup
                                            (IF i \in {n} THEN {Done} ELSE {})
    BY <1>11, <2>2 DEF SaveSucceeds, OtherSucceeds, SaveFails
  <2>. QED
    BY <1>9, <2>1, <2>3
<1>12. CASE Save
  <2>1. PICK n \in SaveIds :
          saves' = [saves EXCEPT ![n] =
                      [phase |-> "sent", mine |-> TRUE, create |-> page.new,
                       widgets |-> page.staged, sharing |-> page.sharing,
                       shares |-> page.shares]]
    <3>1. Unused # {} /\ Unused \subseteq SaveIds
      BY <1>12 DEF Save, Unused
    <3>2. (CHOOSE i \in Unused : TRUE) \in SaveIds
      BY <3>1
    <3>. QED
      BY <1>12, <3>2 DEF Save
  <2>2. UNCHANGED <<page, stored, role>> /\ (page.phase = "editing")
    BY <1>12 DEF Save, Editing
  <2>3. \A i \in SaveIds : i # n => saves'[i] = saves[i]
    BY <1>2, <2>1 DEF SavesShape
  <2>4. saves'[n] = [phase |-> "sent", mine |-> TRUE, create |-> page.new,
                     widgets |-> page.staged, sharing |-> page.sharing, shares |-> page.shares]
    BY <1>2, <2>1 DEF SavesShape
  <2>5. SavesShape'
    BY <1>2, <2>1 DEF SavesShape
  <2>6. ASSUME NEW i \in SaveIds, SavePending(i)'
        PROVE  KnownCopy(saves[i].sharing, saves[i].shares)'
    <3>1. CASE i = n
      <4>1. page.seeded
        BY <2>2, <2>4, <2>6, <3>1 DEF SavePending, EditorInductive, PageIsKept, IsFilled
      <4>2. KnownCopy(page.sharing, page.shares)
        BY <4>1 DEF EditorInductive, KnownCopies
      <4>. QED
        BY <2>2, <2>4, <3>1, <4>2 DEF KnownCopy
    <3>2. CASE i # n
      <4>1. KnownCopy(saves[i].sharing, saves[i].shares)
        BY <2>3, <2>6, <3>2 DEF SavePending, EditorInductive, KnownCopies
      <4>. QED
        BY <2>2, <2>3, <3>2, <4>1 DEF KnownCopy
    <3>. QED
      BY <3>1, <3>2
  <2>7. CheckedByEditors'
    BY <2>2, <2>3, <2>4 DEF EditorInductive, CheckedByEditors, MayEdit
  <2>. QED
    BY <2>5, <2>6, <2>7
<1>13. ASSUME NEW n \in SaveIds, CheckSave(n) PROVE Goal
  <2>1. PICK phase \in {"refused", "checked"} :
          /\ MoveTo(n, phase)
          /\ phase = "checked" => saves[n].create \/ MayEdit
    BY <1>13 DEF CheckSave
  <2>2. /\ SavesShape' /\ saves'[n].phase = phase
        /\ \A i \in SaveIds : Same(i) /\ (i # n => saves'[i] = saves[i])
    BY <1>7, <2>1
  <2>3. \A i \in SaveIds : SavePending(i)' => SavePending(i) /\ Same(i)
    BY <1>13, <2>2 DEF SavePending, CheckSave
  <2>4. \A i \in SaveIds : saves'[i].phase = "checked" => saves'[i].create \/ MayEdit
    BY <2>1, <2>2 DEF EditorInductive, CheckedByEditors
  <2>. QED
    BY <1>4, <2>2, <2>3, <2>4
<1>14. ASSUME NEW n \in SaveIds, CommitSave(n) \/ CommitElsewhere(n) \/ ReadSaved(n)
       PROVE  Goal
  BY <1>8, <1>14 DEF CommitSave, CommitElsewhere, ReadSaved
<1>15. ASSUME ~ UNCHANGED saves
       PROVE  \/ ClosePage \/ Save
              \/ \E n \in SaveIds :
                   \/ SaveSucceeds(n) \/ OtherSucceeds(n) \/ SaveFails(n) \/ CheckSave(n)
                   \/ CommitSave(n) \/ CommitElsewhere(n) \/ ReadSaved(n)
  BY <1>15
  DEF EditorNext, editorVars, OpenPage, OpenNew, Forget, FetchReads, PageFetchFails,
      FetchAnswers, StartEditing, AddWidget, RemoveWidget, AnimationEnds, OthersSave,
      DeleteDashboard
<1>. QED
  BY <1>6, <1>10, <1>11, <1>12, <1>13, <1>14, <1>15

LEMMA EditorNextInv == EditorInductive /\ [EditorNext]_editorVars => EditorInductive'
  BY KnownStays, PageMoves, FetchMoves, SavesMoves
  DEF EditorInductive, EditorShapes, SavesShape, KnownCopies

\* The widgets in the editor are those it was filled with and what the user did to them,
\* through any number of refetches, saves and failures and any number of widgets.
THEOREM EditorKeepsEdits == EditorSpec => []EditsKept
<1>1. EditorInductive => EditsKept
  BY DEF EditorInductive, PageIsKept
<1>. QED
  BY <1>1, EditorInitInv, EditorNextInv, PTL DEF EditorSpec

\* However many saves are under way and however often others save: a save takes back a sharing
\* only if it changed after the page last fetched it, or if it may not grant it.
THEOREM EditorKeepsSharing == EditorSpec => SharingKept
<1>1. ASSUME EditorInductive, NEW n \in SaveIds, CommitSave(n), IsLive(stored),
             stored'.sharing # stored.sharing
      PROVE  \/ stored.shares # saves[n].shares
             \/ stored.sharing = "given" /\ stored'.sharing = "own" /\ role = "creator"
  <2>1. /\ saves[n].phase = "checked" /\ ~ saves[n].create
        /\ stored'.sharing = Granted(saves[n].sharing)
    BY <1>1 DEF CommitSave, Replaced, IsLive
  <2>2. MayEdit
    BY <1>1, <2>1 DEF EditorInductive, CheckedByEditors
  <2>3. stored.shares = saves[n].shares => stored.sharing = saves[n].sharing
    BY <1>1, <2>1 DEF EditorInductive, KnownCopies, SavePending, KnownCopy
  <2>. QED
    BY <1>1, <2>1, <2>2, <2>3 DEF Granted, MayEdit
<1>2. EditorInductive /\ [EditorNext]_editorVars
        => [\A n \in SaveIds :
              CommitSave(n) /\ IsLive(stored) /\ stored'.sharing # stored.sharing
              => \/ stored.shares # saves[n].shares
                 \/ stored.sharing = "given" /\ stored'.sharing = "own"
                      /\ role = "creator"]_editorVars
  BY <1>1
<1>. QED
  BY <1>2, EditorInitInv, EditorNextInv, PTL DEF EditorSpec, SharingKept

-----------------------------------------------------------------------------
(* Sessions *)

Foreign(t) == issued[t].user # issued[t].mintedBy

\* What a request under way brings: a login a session of its own, an impersonation one of
\* somebody else that a sysadmin asked for, recorded once it is answered; and the end of an
\* impersonation names a session the tab has let go of.
Sound(r) ==
  /\ r.token \in DOMAIN issued \cup {NoToken} /\ r.result \in DOMAIN issued \cup {NoToken}
  /\ r.op = "impersonate" =>
       /\ r.user \in Users \ Sysadmins
       /\ r.step \in {"in", "minted", "done"} =>
            r.token \in DOMAIN issued /\ issued[r.token].user \in Sysadmins
       /\ r.step \in {"minted", "done"} =>
            /\ r.result \in DOMAIN issued
            /\ issued[r.result].user = r.user /\ issued[r.result].mintedBy \in Sysadmins
       /\ r.step = "done" => logRow[r.result] = "open"
  /\ r.op = "login" =>
       /\ r.user \in Users
       /\ r.step = "done" =>
            /\ r.result \in DOMAIN issued
            /\ issued[r.result].user = r.user /\ issued[r.result].mintedBy = r.user
  /\ r.op = "me" /\ r.step = "done" => r.token \in DOMAIN issued
  /\ r.op = "end" => r.result \in DOMAIN issued /\ Foreign(r.result) /\ r.result # tab.token
  /\ r.step = "minted" => r.op = "impersonate"

CallsSound == \A c \in Slots : Sound(calls[c])

\* A session that an impersonation minted is nobody else's business yet.
ResultsApart ==
  \A c \in Slots : calls[c].op = "impersonate" /\ calls[c].result # NoToken =>
    /\ calls[c].result # tab.meta
    /\ \A d \in Slots \ {c} :
         calls[d].op \in {"impersonate", "end"} => calls[d].result # calls[c].result

ForeignAreCustomers == \A t \in DOMAIN issued : Foreign(t) => issued[t].user \notin Sysadmins

\* The saved original is a session somebody signed in to: who did last, while the tab acts
\* under a session of somebody else.
SavedInv ==
  tab.original # NoToken =>
    /\ ~ Foreign(tab.original)
    /\ ~ abandoned => /\ issued[tab.original].user = person
                      /\ tab.token # NoToken /\ Foreign(tab.token)

\* With nothing saved, the session of the tab is one that its user signed in to, or a foreign
\* one under which no impersonation can be asked for.
ActingInv ==
  tab.original = NoToken /\ tab.token # NoToken =>
    /\ ~ abandoned /\ ~ Foreign(tab.token) => issued[tab.token].user = person
    /\ Foreign(tab.token) =>
         /\ tab.me \notin Sysadmins
         /\ \A c \in Slots : calls[c].heard =>
              calls[c].op # "impersonate" /\ (calls[c].op = "me" => calls[c].token = tab.token)

MetaInv == tab.meta # NoToken => Foreign(tab.meta)

\* What is or will be cached of /auth/me is about the session of the tab.
RoleInv ==
  /\ RoleShownIsOwn
  /\ \A c \in Slots : calls[c].op = "me" /\ calls[c].heard =>
       \/ softened \/ Heard("end")
       \/ tab.token # NoToken /\ calls[c].token = tab.token
  /\ tab.token = NoToken => \/ softened
                            \/ tab.me = NoUser /\ ~ Heard("me")

TabInv == SavedInv /\ ActingInv /\ MetaInv /\ RoleInv

SessionInductive ==
  SessionTypeOK /\ CallsSound /\ ResultsApart /\ ForeignAreCustomers /\ TabInv
  /\ ImpersonationAudited

LEMMA IdleIsCall == Idle \in Call /\ Idle.op = "none" /\ Idle.step = "sent"
                    /\ Idle.token = NoToken /\ Idle.result = NoToken
  BY DEF Idle, Call

LEMMA SessionInitInv == SessionInit => SessionInductive
<1>. SUFFICES ASSUME SessionInit PROVE SessionInductive
  OBVIOUS
<1>0. Slots = DOMAIN calls /\ \A c \in Slots : calls[c] = Idle /\ calls[c].op = "none"
  BY IdleIsCall DEF SessionInit
<1>1. DOMAIN issued = {} /\ issued \in Seq(Session) /\ Len(issued) = 0
  BY DEF SessionInit
<1>2. SessionTypeOK
  <2>1. tab \in Tab
    BY DEF SessionInit, Tab
  <2>2. calls \in [Slots -> Call]
    BY IdleIsCall DEF SessionInit
  <2>3. logRow \in [Tokens -> {"none", "open", "ended"}]
    BY DEF SessionInit
  <2>4. {tab.token, tab.original, tab.meta} \ {NoToken} = {}
    BY DEF SessionInit
  <2>5. Len(issued) <= MaxTokens
    BY <1>1, SessionsAssumption
  <2>6. store \subseteq DOMAIN issued /\ person \in Users \cup {NoUser}
        /\ abandoned \in BOOLEAN /\ softened \in BOOLEAN
    BY DEF SessionInit
  <2>. QED
    BY <1>1, <2>1, <2>2, <2>3, <2>4, <2>5, <2>6 DEF SessionTypeOK
<1>3. CallsSound /\ ResultsApart
  BY <1>0, IdleIsCall DEF CallsSound, Sound, ResultsApart
<1>4. ForeignAreCustomers /\ TabInv /\ ImpersonationAudited
  BY <1>0, <1>1 DEF ForeignAreCustomers, TabInv, SavedInv, ActingInv, MetaInv,
     RoleInv, RoleShownIsOwn, ImpersonationAudited, Impersonating, SessionInit, Heard
<1>. QED
  BY <1>2, <1>3, <1>4 DEF SessionInductive

-----------------------------------------------------------------------------
(* Requests and sessions *)

LEMMA OneCall ==
  ASSUME calls \in [Slots -> Call], NEW c \in Slots, NEW r \in Call,
         calls' = [calls EXCEPT ![c] = r]
  PROVE  /\ calls' \in [Slots -> Call] /\ calls'[c] = r
         /\ \A d \in Slots \ {c} : calls'[d] = calls[d]
  OBVIOUS

\* The request keeps what it is, or it is gone.
LEMMA AnsweredIs ==
  ASSUME NEW r \in Call,
         NEW to \in {"sent", "in", "minted", "done", "refused", "forwarded", "failed"},
         NEW s, s = Answered(r, to)
  PROVE  /\ s \in Call
         /\ \/ /\ s.op = r.op /\ s.token = r.token /\ s.user = r.user /\ s.heard = r.heard
               /\ s.result = r.result /\ s.step = to
            \/ s = Idle /\ (~ r.heard \/ r.op = "fetch")
<1>1. CASE to \in Final /\ (~ r.heard \/ (r.op = "fetch" /\ to \notin Unauthorised))
  BY <1>1, IdleIsCall DEF Answered
<1>2. CASE ~ (to \in Final /\ (~ r.heard \/ (r.op = "fetch" /\ to \notin Unauthorised)))
  <2>1. s = [r EXCEPT !.step = to]
    BY <1>2 DEF Answered
  <2>. QED
    BY <2>1 DEF Call
<1>. QED
  BY <1>1, <1>2

\* No session is ever changed.
Grows == /\ DOMAIN issued \subseteq DOMAIN issued'
         /\ \A t \in DOMAIN issued : issued'[t] = issued[t]

LEMMA SoundStays ==
  ASSUME NEW r, Sound(r), Grows,
         r.op = "impersonate" /\ r.step = "done" => logRow'[r.result] = logRow[r.result],
         r.op = "end" => r.result # tab'.token
  PROVE  Sound(r)'
  BY DEF Sound, Grows, Foreign

LEMMA IdleIsSound == Sound(Idle) /\ Sound(Idle)'
  BY IdleIsCall DEF Sound

LEMMA UnheardIsSound ==
  ASSUME NEW r \in Call, Sound(r)
  PROVE  /\ [r EXCEPT !.heard = FALSE] \in Call
         /\ Sound([r EXCEPT !.heard = FALSE])
  <1>. DEFINE s == [r EXCEPT !.heard = FALSE]
  <1>1. /\ s \in Call /\ s.op = r.op /\ s.token = r.token /\ s.user = r.user
        /\ s.result = r.result /\ s.step = r.step
    BY DEF Call
  <1>. HIDE DEF s
  <1>2. Sound(s)
    BY <1>1 DEF Sound
  <1>. QED
    BY <1>1, <1>2 DEF s

LEMMA MintedFacts ==
  ASSUME SessionTypeOK
  PROVE  /\ DOMAIN issued = 1 .. Len(issued) /\ Len(issued) \in Nat
         /\ DOMAIN issued \subseteq Tokens /\ NoToken \notin Tokens
         /\ NoToken \notin DOMAIN issued
         /\ \A t \in DOMAIN issued : issued[t].user \in Users /\ issued[t].mintedBy \in Users
         /\ \A t \in {tab.token, tab.original, tab.meta} : t # NoToken => t \in DOMAIN issued
<1>1. issued \in Seq(Session) /\ Len(issued) <= MaxTokens
  BY DEF SessionTypeOK
<1>2. /\ DOMAIN issued = 1 .. Len(issued) /\ Len(issued) \in Nat
      /\ \A t \in DOMAIN issued : issued[t] \in Session
  BY <1>1
<1>3. \A t \in DOMAIN issued : issued[t].user \in Users /\ issued[t].mintedBy \in Users
  BY <1>2 DEF Session
<1>4. DOMAIN issued \subseteq Tokens /\ NoToken \notin Tokens
  BY <1>1, <1>2, SessionsAssumption DEF Tokens, NoToken
<1>. QED
  BY <1>2, <1>3, <1>4 DEF SessionTypeOK

-----------------------------------------------------------------------------
(* Steps of the backend *)

\* A request keeps what the tab knows of it, or one is gone that nobody waits for.
SameAsked(d) ==
  \/ /\ calls'[d].op = calls[d].op /\ calls'[d].token = calls[d].token
     /\ calls'[d].heard = calls[d].heard
  \/ calls'[d] = Idle /\ (~ calls[d].heard \/ calls[d].op = "fetch")

\* Then the tab is as consistent as it was.
LEMMA TabInvStays ==
  ASSUME SessionInductive, TabKept, Grows, \A d \in Slots : SameAsked(d)
  PROVE  TabInv'
<1>1. \A t \in {tab.token, tab.original, tab.meta} :
        t # NoToken => t \in DOMAIN issued /\ issued'[t] = issued[t]
  BY MintedFacts DEF SessionInductive, Grows
<1>2. \A d \in Slots :
        \/ /\ calls'[d].op = calls[d].op /\ calls'[d].token = calls[d].token
           /\ calls'[d].heard = calls[d].heard
        \/ calls'[d].op = "none" /\ (~ calls[d].heard \/ calls[d].op = "fetch")
  BY IdleIsCall DEF SameAsked
<1>3. /\ Heard("end")' <=> Heard("end")
      /\ Heard("me")' <=> Heard("me")
  BY <1>2 DEF Heard
<1>5. SavedInv'
  BY <1>1 DEF SessionInductive, TabInv, SavedInv, TabKept, Foreign
<1>6. ActingInv'
  BY <1>1, <1>2 DEF SessionInductive, TabInv, ActingInv, TabKept, Foreign
<1>7. MetaInv'
  BY <1>1 DEF SessionInductive, TabInv, MetaInv, TabKept, Foreign
<1>8. RoleInv'
  BY <1>1, <1>2, <1>3 DEF SessionInductive, TabInv, RoleInv, RoleShownIsOwn, TabKept
<1>. QED
  BY <1>5, <1>6, <1>7, <1>8 DEF TabInv

\* A step that answers one request and mints nothing.
LEMMA AnswerInv ==
  ASSUME SessionInductive, NEW c \in Slots, NEW s \in Call,
         calls' = [calls EXCEPT ![c] = s], Sound(s)',
         \/ /\ s.op = calls[c].op /\ s.token = calls[c].token /\ s.heard = calls[c].heard
            /\ s.result = calls[c].result
         \/ s = Idle /\ (~ calls[c].heard \/ calls[c].op = "fetch"),
         TabKept, UNCHANGED issued, store' \subseteq store,
         logRow' \in [Tokens -> {"none", "open", "ended"}],
         \A d \in Slots \ {c} : calls[d].op = "impersonate" /\ calls[d].step = "done" =>
           logRow'[calls[d].result] = logRow[calls[d].result],
         ImpersonationAudited'
  PROVE  SessionInductive'
<1>1. /\ calls' \in [Slots -> Call] /\ calls'[c] = s
      /\ \A d \in Slots \ {c} : calls'[d] = calls[d]
  BY OneCall DEF SessionInductive, SessionTypeOK
<1>2. SessionTypeOK'
  BY <1>1 DEF SessionInductive, SessionTypeOK, TabKept
<1>3. Grows
  BY DEF Grows
<1>4. CallsSound'
  <2>. SUFFICES ASSUME NEW d \in Slots PROVE Sound(calls[d])'
    BY DEF CallsSound
  <2>1. CASE d = c
    BY <2>1, <1>1
  <2>2. CASE d # c
    <3>1. PICK r : r = calls[d]
      OBVIOUS
    <3>2. Sound(r) /\ (r.op = "end" => r.result # tab'.token)
      BY <3>1 DEF SessionInductive, CallsSound, Sound, TabKept
    <3>3. Sound(r)'
      BY <2>2, <3>1, <3>2, <1>3, SoundStays
    <3>. QED
      BY <2>2, <3>1, <3>3, <1>1
  <2>. QED
    BY <2>1, <2>2
<1>5. ResultsApart'
  BY <1>1, IdleIsCall DEF SessionInductive, ResultsApart, TabKept
<1>6. TabInv'
  BY <1>1, <1>3, TabInvStays DEF SameAsked
<1>. QED
  BY <1>2, <1>4, <1>5, <1>6 DEF SessionInductive, ForeignAreCustomers, Foreign

\* What an answer to request r must not do.
Fitting(r, to) ==
  /\ r.op = "impersonate" =>
       /\ to = "in" => r.token \in DOMAIN issued /\ issued[r.token].user \in Sysadmins
       /\ to = "done" => r.step = "minted" /\ logRow'[r.result] = "open"
  /\ r.op = "login" => to # "done"
  /\ r.op = "me" /\ to = "done" => r.token \in DOMAIN issued

LEMMA AnswersInv ==
  ASSUME SessionInductive, NEW c \in Slots,
         NEW to \in {"in", "done", "refused", "forwarded", "failed"},
         Answer(c, to), Fitting(calls[c], to),
         TabKept, UNCHANGED issued, store' \subseteq store,
         logRow' \in [Tokens -> {"none", "open", "ended"}],
         \A d \in Slots \ {c} : calls[d].op = "impersonate" /\ calls[d].step = "done" =>
           logRow'[calls[d].result] = logRow[calls[d].result],
         ImpersonationAudited'
  PROVE  SessionInductive'
<1>1. PICK r : r = calls[c]
  OBVIOUS
<1>2. r \in Call /\ Sound(r)
  BY <1>1 DEF SessionInductive, SessionTypeOK, CallsSound
<1>3. PICK s : s = Answered(r, to)
  OBVIOUS
<1>4. calls' = [calls EXCEPT ![c] = s]
  BY <1>1, <1>3 DEF Answer
<1>5. /\ s \in Call
      /\ \/ /\ s.op = r.op /\ s.token = r.token /\ s.user = r.user /\ s.heard = r.heard
            /\ s.result = r.result /\ s.step = to
         \/ s = Idle /\ (~ r.heard \/ r.op = "fetch")
  BY <1>2, <1>3, AnsweredIs
<1>6. Sound(s)'
  <2>1. CASE s = Idle
    BY <2>1, IdleIsSound
  <2>2. CASE /\ s.op = r.op /\ s.token = r.token /\ s.user = r.user /\ s.heard = r.heard
             /\ s.result = r.result /\ s.step = to
    <3>1. Fitting(r, to)
      BY <1>1
    <3>. QED
      BY <2>2, <3>1, <1>2 DEF Sound, Fitting, TabKept, Foreign
  <2>. QED
    BY <1>5, <2>1, <2>2
<1>. QED
  BY <1>1, <1>4, <1>5, <1>6, AnswerInv

LEMMA AnswersKeepLog ==
  ASSUME SessionInductive, NEW c \in Slots,
         NEW to \in {"in", "done", "refused", "forwarded", "failed"},
         Answer(c, to), Fitting(calls[c], to), TabKept, UNCHANGED <<issued, logRow>>,
         store' \subseteq store
  PROVE  SessionInductive'
<1>1. ImpersonationAudited'
  BY DEF SessionInductive, ImpersonationAudited, Impersonating, TabKept
<1>2. logRow' \in [Tokens -> {"none", "open", "ended"}]
  BY DEF SessionInductive, SessionTypeOK
<1>. QED
  BY <1>1, <1>2, AnswersInv

LEMMA AuthoriseInv ==
  ASSUME SessionInductive, NEW c \in Slots, Authorise(c)
  PROVE  SessionInductive'
<1>1. PICK to : to = IF calls[c].token \notin store THEN "refused"
                 ELSE IF calls[c].op \in {"impersonate", "end"} /\ UserOf(c) \notin Sysadmins
                 THEN "failed"
                 ELSE IF calls[c].op \in {"me", "fetch"} THEN "done" ELSE "in"
  OBVIOUS
<1>2. to \in {"in", "done", "refused", "failed"} /\ Answer(c, to)
  BY <1>1 DEF Authorise
<1>3. store \subseteq DOMAIN issued
  BY DEF SessionInductive, SessionTypeOK
<1>4. Fitting(calls[c], to)
  BY <1>1, <1>3 DEF Fitting, Authorise, UserOf
<1>. QED
  BY <1>2, <1>4, AnswersKeepLog DEF Authorise

LEMMA RefusalsInv ==
  ASSUME SessionInductive, NEW c \in Slots,
         \/ RejectLogin(c) \/ SocketRefused(c) \/ ForwardUnauthorised(c)
         \/ ServeLogout(c) \/ CallFails(c)
  PROVE  SessionInductive'
<1>1. CASE RejectLogin(c)
  BY <1>1, AnswersKeepLog DEF RejectLogin, Fitting
<1>2. CASE SocketRefused(c)
  BY <1>2, AnswersKeepLog DEF SocketRefused, Fitting
<1>3. CASE ServeLogout(c)
  BY <1>3, AnswersKeepLog DEF ServeLogout, Fitting
<1>4. CASE CallFails(c)
  BY <1>4, AnswersKeepLog DEF CallFails, Fitting
<1>5. CASE ForwardUnauthorised(c)
  BY <1>5, AnswersKeepLog DEF ForwardUnauthorised, Fitting
<1>. QED
  BY <1>1, <1>2, <1>3, <1>4, <1>5

LEMMA RecordImpersonationInv ==
  ASSUME SessionInductive, NEW c \in Slots, RecordImpersonation(c)
  PROVE  SessionInductive'
<1>1. /\ calls[c] \in Call /\ Sound(calls[c])
      /\ logRow \in [Tokens -> {"none", "open", "ended"}]
  BY DEF SessionInductive, SessionTypeOK, CallsSound
<1>2. calls[c].step = "minted" /\ calls[c].op = "impersonate"
  BY <1>1 DEF Sound, RecordImpersonation
<1>3. calls[c].result \in DOMAIN issued /\ calls[c].result \in Tokens
  BY <1>1, <1>2, MintedFacts DEF Sound, SessionInductive
<1>4. logRow'[calls[c].result] = "open" /\ logRow' \in [Tokens -> {"none", "open", "ended"}]
      /\ \A t \in Tokens : logRow[t] = "open" => logRow'[t] = "open"
  BY <1>1, <1>3 DEF RecordImpersonation
<1>5. \A d \in Slots : calls[d].op = "impersonate" /\ calls[d].step = "done" =>
        calls[d].result \in Tokens /\ logRow[calls[d].result] = "open"
  BY MintedFacts DEF SessionInductive, CallsSound, Sound
<1>6. ImpersonationAudited'
  BY <1>4, MintedFacts
  DEF SessionInductive, ImpersonationAudited, Impersonating, TabKept, RecordImpersonation
<1>7. Fitting(calls[c], "done")
  BY <1>2, <1>4 DEF Fitting
<1>. QED
  BY <1>4, <1>5, <1>6, <1>7, AnswersInv DEF RecordImpersonation

LEMMA EndImpersonationInv ==
  ASSUME SessionInductive, NEW c \in Slots, EndImpersonation(c)
  PROVE  SessionInductive'
<1>1. /\ calls[c] \in Call /\ Sound(calls[c])
      /\ logRow \in [Tokens -> {"none", "open", "ended"}]
  BY DEF SessionInductive, SessionTypeOK, CallsSound
<1>2. calls[c].op = "end" /\ calls[c].result \in DOMAIN issued /\ calls[c].result # tab.token
  BY <1>1 DEF Sound, EndImpersonation
<1>3. logRow' \in [Tokens -> {"none", "open", "ended"}]
      /\ \A t \in Tokens \ {calls[c].result} : logRow'[t] = logRow[t]
  BY <1>1 DEF EndImpersonation
<1>4. \A d \in Slots \ {c} : calls[d].op = "impersonate" /\ calls[d].step = "done" =>
        /\ calls[d].result \in Tokens /\ calls[d].result # NoToken
  BY MintedFacts DEF SessionInductive, CallsSound, Sound
<1>5. \A d \in Slots \ {c} : calls[d].op = "impersonate" /\ calls[d].step = "done" =>
        calls[d].result # calls[c].result
  BY <1>2, <1>4 DEF SessionInductive, ResultsApart
<1>6. ImpersonationAudited'
  BY <1>2, <1>3, MintedFacts
  DEF SessionInductive, ImpersonationAudited, Impersonating, TabKept, EndImpersonation
<1>7. Fitting(calls[c], "done")
  BY <1>2 DEF Fitting
<1>. QED
  BY <1>3, <1>4, <1>5, <1>6, <1>7, AnswersInv DEF EndImpersonation

\* A new session: a login's own, or that of an impersonation.
LEMMA MintInv ==
  ASSUME SessionInductive, NEW c \in Slots, NEW u \in Users, NEW by \in Users,
         NEW to \in {"minted", "done"}, Mint(c, u, by, to), TabKept,
         u = calls[c].user,
         \/ calls[c].op = "login" /\ to = "done" /\ by = u
         \/ calls[c].op = "impersonate" /\ to = "minted" /\ by \in Sysadmins
            /\ calls[c].token \in DOMAIN issued /\ issued[calls[c].token].user \in Sysadmins
  PROVE  SessionInductive'
<1>1. PICK r : r = calls[c]
  OBVIOUS
<1>2. r \in Call /\ Sound(r)
  BY <1>1 DEF SessionInductive, SessionTypeOK, CallsSound
<1>3. PICK t : t = Len(issued) + 1
  OBVIOUS
<1>4. /\ t \in Tokens /\ t \notin DOMAIN issued /\ t # NoToken
      /\ issued' = Append(issued, [user |-> u, mintedBy |-> by])
      /\ store' = store \cup {t}
  BY <1>3, MintedFacts DEF Mint, SessionInductive, NoToken
<1>5. /\ issued' \in Seq(Session) /\ Len(issued') = t /\ t <= MaxTokens
      /\ DOMAIN issued' = DOMAIN issued \cup {t} /\ Grows
      /\ issued'[t].user = u /\ issued'[t].mintedBy = by
  <2>1. issued \in Seq(Session) /\ [user |-> u, mintedBy |-> by] \in Session
    BY DEF SessionInductive, SessionTypeOK, Session
  <2>2. /\ issued' \in Seq(Session) /\ Len(issued') = Len(issued) + 1
        /\ DOMAIN issued' = DOMAIN issued \cup {t}
        /\ \A i \in DOMAIN issued : issued'[i] = issued[i]
        /\ issued'[t] = [user |-> u, mintedBy |-> by]
    BY <2>1, <1>3, <1>4
  <2>3. t <= MaxTokens
    BY <1>4, SessionsAssumption DEF Tokens
  <2>4. Grows
    BY <2>2 DEF Grows
  <2>5. issued'[t].user = u /\ issued'[t].mintedBy = by
    BY <2>2
  <2>. QED
    BY <2>2, <2>3, <2>4, <2>5, <1>3
<1>6. PICK m : m = [r EXCEPT !.result = t]
  OBVIOUS
<1>7. /\ m \in Call /\ m.op = r.op /\ m.token = r.token /\ m.user = r.user
      /\ m.heard = r.heard /\ m.step = r.step /\ m.result = t
  BY <1>2, <1>4, <1>6 DEF Call
<1>8. PICK s : s = Answered(m, to)
  OBVIOUS
<1>9. /\ s \in Call
      /\ \/ /\ s.op = r.op /\ s.token = r.token /\ s.user = r.user /\ s.heard = r.heard
            /\ s.result = t /\ s.step = to
         \/ s = Idle /\ (~ r.heard \/ r.op = "fetch")
  BY <1>7, <1>8, AnsweredIs
<1>10. calls' = [calls EXCEPT ![c] = s]
  BY <1>1, <1>3, <1>6, <1>8 DEF Mint
<1>11. /\ calls' \in [Slots -> Call] /\ calls'[c] = s
       /\ \A d \in Slots \ {c} : calls'[d] = calls[d]
  BY <1>9, <1>10, OneCall DEF SessionInductive, SessionTypeOK
<1>12. SessionTypeOK'
  BY <1>4, <1>5, <1>11 DEF SessionInductive, SessionTypeOK, TabKept, Mint
<1>13. Sound(s)'
  <2>1. CASE s = Idle
    BY <2>1, IdleIsSound
  <2>2. CASE /\ s.op = r.op /\ s.token = r.token /\ s.user = r.user /\ s.heard = r.heard
             /\ s.result = t /\ s.step = to
    BY <2>2, <1>1, <1>2, <1>4, <1>5 DEF Sound, Grows
  <2>. QED
    BY <1>9, <2>1, <2>2
<1>14. CallsSound'
  <2>. SUFFICES ASSUME NEW d \in Slots PROVE Sound(calls[d])'
    BY DEF CallsSound
  <2>1. CASE d = c
    BY <2>1, <1>11, <1>13
  <2>2. CASE d # c
    <3>1. PICK q : q = calls[d]
      OBVIOUS
    <3>2. Sound(q) /\ (q.op = "end" => q.result # tab'.token)
      BY <3>1 DEF SessionInductive, CallsSound, Sound, TabKept
    <3>3. Sound(q)'
      BY <3>2, <1>5, SoundStays DEF Mint
    <3>. QED
      BY <2>2, <3>1, <3>3, <1>11
  <2>. QED
    BY <2>1, <2>2
<1>15. \A d \in Slots : calls[d].result # t
  BY <1>4 DEF SessionInductive, CallsSound, Sound
<1>16. ResultsApart'
  <2>1. tab'.meta # t
    BY <1>4, MintedFacts DEF SessionInductive, TabKept
  <2>. QED
    BY <2>1, <1>1, <1>9, <1>11, <1>15, IdleIsCall DEF SessionInductive, ResultsApart, TabKept
<1>17. ForeignAreCustomers'
  BY <1>1, <1>2, <1>5 DEF SessionInductive, ForeignAreCustomers, Foreign, Grows, Sound
<1>18. TabInv'
  BY <1>1, <1>5, <1>9, <1>11, TabInvStays DEF SameAsked
<1>19. ImpersonationAudited'
  BY <1>5, MintedFacts
  DEF SessionInductive, ImpersonationAudited, Impersonating, TabKept, Mint, Grows
<1>. QED
  BY <1>12, <1>14, <1>16, <1>17, <1>18, <1>19 DEF SessionInductive

LEMMA MintingsInv ==
  ASSUME SessionInductive, NEW c \in Slots, ServeLogin(c) \/ MintImpersonated(c)
  PROVE  SessionInductive'
<1>1. Sound(calls[c])
  BY DEF SessionInductive, CallsSound
<1>2. CASE ServeLogin(c)
  BY <1>1, <1>2, MintInv DEF ServeLogin, Sound
<1>3. CASE MintImpersonated(c)
  <2>1. /\ calls[c].op = "impersonate" /\ calls[c].user \in Users
        /\ calls[c].token \in DOMAIN issued /\ UserOf(c) \in Sysadmins
        /\ UserOf(c) \in Users
    BY <1>1, <1>3, SessionsAssumption DEF MintImpersonated, Sound, UserOf
  <2>2. Mint(c, calls[c].user, UserOf(c), "minted") /\ TabKept
    BY <1>3 DEF MintImpersonated
  <2>. QED
    BY <2>1, <2>2, MintInv DEF UserOf
<1>. QED
  BY <1>2, <1>3

LEMMA ExpireInv ==
  ASSUME SessionInductive, NEW t \in Tokens, Expire(t)
  PROVE  SessionInductive'
<1>1. SessionTypeOK'
  BY DEF SessionInductive, SessionTypeOK, Expire, TabKept
<1>2. Grows
  BY DEF Grows, Expire
<1>3. TabInv'
  BY <1>2, TabInvStays DEF Expire, SameAsked
<1>4. CallsSound'
  BY DEF SessionInductive, CallsSound, Sound, Foreign, Expire, TabKept
<1>. QED
  BY <1>1, <1>3, <1>4 DEF SessionInductive, ResultsApart, ForeignAreCustomers, Foreign,
     ImpersonationAudited, Impersonating, Expire, TabKept

-----------------------------------------------------------------------------
(* Steps of the tab *)

\* What the tab sends; the end of an impersonation is below.
LEMMA SendInv ==
  ASSUME SessionInductive, NEW c \in Slots, NEW op \in Ops \ {"end"},
         NEW u \in Users \cup {NoUser}, SendOnly(c, op, u),
         op = "impersonate" => u \in Users \ Sysadmins /\ tab.me \in Sysadmins,
         op = "login" => u \in Users,
         op = "me" => tab.token # NoToken
  PROVE  SessionInductive'
<1>1. PICK r : r = [op |-> op, token |-> tab.token, user |-> u, step |-> "sent",
                    heard |-> TRUE, result |-> NoToken]
  OBVIOUS
<1>2. /\ calls[c].op = "none" /\ calls' = [calls EXCEPT ![c] = r]
      /\ UNCHANGED <<issued, store, logRow, tab, person, abandoned, softened>>
  BY <1>1 DEF SendOnly, SendWith
<1>3. r \in Call /\ tab.token \in DOMAIN issued \cup {NoToken}
  <2>1. tab.token \in DOMAIN issued \cup {NoToken} /\ tab.token \in Tokens \cup {NoToken}
    BY MintedFacts DEF SessionInductive
  <2>. QED
    BY <1>1, <2>1 DEF Call
<1>4. /\ r.op = op /\ r.token = tab.token /\ r.user = u /\ r.step = "sent" /\ r.heard = TRUE
      /\ r.result = NoToken
  BY <1>1
<1>5. /\ calls' \in [Slots -> Call] /\ calls'[c] = r
      /\ \A d \in Slots \ {c} : calls'[d] = calls[d]
  BY <1>2, <1>3, OneCall DEF SessionInductive, SessionTypeOK
<1>6. SessionTypeOK'
  BY <1>2, <1>5 DEF SessionInductive, SessionTypeOK
<1>7. CallsSound'
  <2>1. Sound(r)
    BY <1>3, <1>4 DEF Sound
  <2>2. \A d \in Slots : Sound(calls'[d])
    BY <1>5, <2>1 DEF SessionInductive, CallsSound
  <2>. QED
    BY <1>2, <2>2 DEF CallsSound, Sound, Foreign
<1>8. ResultsApart'
  BY <1>2, <1>4, <1>5 DEF SessionInductive, ResultsApart
<1>9. Heard("end") => Heard("end")'
  BY <1>2, <1>5 DEF Heard
<1>10. Heard("me")' => Heard("me") \/ op = "me"
  BY <1>4, <1>5 DEF Heard
<1>12. SavedInv' /\ MetaInv' /\ ForeignAreCustomers' /\ ImpersonationAudited'
  BY <1>2 DEF SessionInductive, TabInv, SavedInv, MetaInv, ForeignAreCustomers,
     ImpersonationAudited, Impersonating, Foreign
<1>13. ActingInv'
  BY <1>2, <1>4, <1>5 DEF SessionInductive, TabInv, ActingInv, Foreign
<1>14. RoleInv'
  BY <1>2, <1>4, <1>5, <1>9, <1>10 DEF SessionInductive, TabInv, RoleInv, RoleShownIsOwn
<1>. QED
  BY <1>6, <1>7, <1>8, <1>12, <1>13, <1>14 DEF SessionInductive, TabInv

LEMMA BackInv ==
  ASSUME SessionInductive, NEW c \in Slots, BackToMySession(c)
  PROVE  SessionInductive'
<1>1. PICK r : r = [op |-> "end", token |-> tab.original, user |-> NoUser, step |-> "sent",
                    heard |-> TRUE, result |-> tab.meta]
  OBVIOUS
<1>2. /\ calls[c].op = "none" /\ calls' = [calls EXCEPT ![c] = r]
      /\ UNCHANGED <<issued, store, logRow, person, abandoned, softened>>
  BY <1>1 DEF BackToMySession, SendWith
<1>3. /\ tab.original \in DOMAIN issued /\ tab.meta \in DOMAIN issued /\ tab.page = "app"
      /\ tab.original # NoToken /\ tab.meta # NoToken
      /\ ~ Foreign(tab.original) /\ Foreign(tab.meta)
      /\ tab.original \in Tokens /\ tab.meta \in Tokens
  BY MintedFacts DEF SessionInductive, TabInv, SavedInv, MetaInv, BackToMySession
<1>4. /\ r.op = "end" /\ r.token = tab.original /\ r.user = NoUser /\ r.step = "sent"
      /\ r.heard = TRUE /\ r.result = tab.meta /\ r \in Call
  BY <1>1, <1>3 DEF Call, Ops
<1>5. /\ calls' \in [Slots -> Call] /\ calls'[c] = r
      /\ \A d \in Slots \ {c} : calls'[d] = calls[d]
  BY <1>2, <1>4, OneCall DEF SessionInductive, SessionTypeOK
<1>6. /\ tab' \in Tab /\ tab'.token = tab.original /\ tab'.original = NoToken
      /\ tab'.meta = NoToken /\ tab'.page = "app" /\ tab'.me = tab.me
  BY <1>3 DEF SessionInductive, SessionTypeOK, Tab, BackToMySession
<1>7. SessionTypeOK'
  BY <1>2, <1>3, <1>5, <1>6 DEF SessionInductive, SessionTypeOK
<1>8. CallsSound'
  <2>. SUFFICES ASSUME NEW d \in Slots PROVE Sound(calls[d])'
    BY DEF CallsSound
  <2>1. PICK q : q = calls'[d]
    OBVIOUS
  <2>2. CASE d = c
    <3>1. Sound(q)'
      BY <2>1, <2>2, <1>2, <1>3, <1>4, <1>5, <1>6 DEF Sound, Foreign
    <3>. QED
      BY <2>1, <3>1
  <2>3. CASE d # c
    <3>1. Sound(q) /\ Grows
      BY <2>1, <2>3, <1>2, <1>5 DEF SessionInductive, CallsSound, Grows
    <3>2. q.op = "end" => q.result # tab'.token
      BY <3>1, <1>3, <1>6 DEF Sound
    <3>3. Sound(q)'
      BY <3>1, <3>2, <1>2, SoundStays
    <3>. QED
      BY <2>1, <3>3
  <2>. QED
    BY <2>2, <2>3
<1>9. ResultsApart'
  BY <1>4, <1>5, <1>6 DEF SessionInductive, ResultsApart
<1>10. Heard("end")'
  BY <1>4, <1>5 DEF Heard
<1>12. SavedInv' /\ MetaInv' /\ ForeignAreCustomers' /\ ImpersonationAudited'
  BY <1>2, <1>3, <1>6 DEF SessionInductive, TabInv, SavedInv, MetaInv, ForeignAreCustomers,
     ImpersonationAudited, Impersonating, Foreign
<1>13. ActingInv'
  BY <1>2, <1>3, <1>6 DEF SessionInductive, TabInv, ActingInv, SavedInv, Foreign
<1>14. RoleInv'
  BY <1>3, <1>6, <1>10 DEF RoleInv, RoleShownIsOwn
<1>. QED
  BY <1>7, <1>8, <1>9, <1>12, <1>13, <1>14 DEF SessionInductive, TabInv

LEMMA SendsInv ==
  ASSUME SessionInductive, NEW c \in Slots, Sends(c)
  PROVE  SessionInductive'
<1>1. ASSUME NEW u \in Users, SignIn(c, u) PROVE SessionInductive'
  BY <1>1, SendInv DEF SignIn, Ops
<1>2. CASE LoadMe(c)
  BY <1>2, SendInv DEF LoadMe, Ops
<1>3. CASE Fetch(c)
  BY <1>3, SendInv DEF Fetch, Ops
<1>4. CASE OpenSocket(c)
  BY <1>4, SendInv DEF OpenSocket, Ops
<1>5. ASSUME NEW u \in Users, LoginAs(c, u) PROVE SessionInductive'
  BY <1>5, SendInv DEF LoginAs, Ops
<1>6. CASE BackToMySession(c)
  BY <1>6, BackInv
<1>7. CASE LogOut(c)
  BY <1>7, SendInv DEF LogOut, Ops
<1>. QED
  BY <1>1, <1>2, <1>3, <1>4, <1>5, <1>6, <1>7 DEF Sends

\* A page load with what sessionStorage then holds.
LEMMA LoadInv ==
  ASSUME SessionInductive, NEW c \in Slots \cup {0}, NEW t \in Tab, Load(c, t), Server,
         person' = person, abandoned' \in BOOLEAN,
         {t.token, t.original, t.meta} \ {NoToken} \subseteq DOMAIN issued,
         \A d \in Slots \ {c} :
           /\ calls[d].op = "end" => calls[d].result # t.token
           /\ calls[d].op = "impersonate" /\ calls[d].result # NoToken =>
                calls[d].result # t.meta,
         t.original # NoToken =>
           /\ ~ Foreign(t.original)
           /\ ~ abandoned' => /\ issued[t.original].user = person
                              /\ t.token # NoToken /\ Foreign(t.token),
         t.original = NoToken /\ t.token # NoToken /\ ~ abandoned' /\ ~ Foreign(t.token) =>
           issued[t.token].user = person,
         t.meta # NoToken => Foreign(t.meta),
         t.token # NoToken /\ Foreign(t.token) => logRow[t.token] = "open"
  PROVE  SessionInductive'
<1>1. UNCHANGED <<issued, store, logRow>>
  BY DEF Server
<1>2. /\ tab' \in Tab /\ tab'.token = t.token /\ tab'.original = t.original
      /\ tab'.meta = t.meta /\ tab'.me = NoUser
  BY DEF Load, Tab
<1>3. /\ \A d \in Slots : \/ calls'[d] = Idle
                          \/ d # c /\ calls'[d] = [calls[d] EXCEPT !.heard = FALSE]
      /\ DOMAIN calls' = Slots /\ calls' = [d \in Slots |-> calls'[d]]
  BY DEF Load
<1>4. \A d \in Slots : calls[d] \in Call /\ Sound(calls[d])
  BY DEF SessionInductive, SessionTypeOK, CallsSound
<1>5. \A d \in Slots :
        \/ calls'[d] = Idle
        \/ /\ d # c /\ calls'[d].op = calls[d].op /\ calls'[d].result = calls[d].result
           /\ calls'[d].heard = FALSE /\ calls'[d] \in Call /\ Sound(calls'[d])
  <2>. SUFFICES ASSUME NEW d \in Slots, calls'[d] # Idle
                PROVE  /\ d # c /\ calls'[d].op = calls[d].op
                       /\ calls'[d].result = calls[d].result
                       /\ calls'[d].heard = FALSE /\ calls'[d] \in Call /\ Sound(calls'[d])
    OBVIOUS
  <2>1. d # c /\ calls'[d] = [calls[d] EXCEPT !.heard = FALSE]
    BY <1>3
  <2>2. calls'[d] \in Call /\ Sound(calls'[d])
    BY <2>1, <1>4, UnheardIsSound
  <2>3. calls[d] \in Call
    BY <1>4
  <2>. QED
    BY <2>1, <2>2, <2>3 DEF Call
<1>6. calls' \in [Slots -> Call]
  BY <1>3, <1>5, IdleIsCall
<1>7. SessionTypeOK'
  BY <1>1, <1>2, <1>6 DEF SessionInductive, SessionTypeOK, Load
<1>8. CallsSound'
  <2>. SUFFICES ASSUME NEW d \in Slots PROVE Sound(calls[d])'
    BY DEF CallsSound
  <2>1. CASE calls'[d] = Idle
    BY <2>1, IdleIsSound
  <2>2. CASE calls'[d] # Idle
    <3>1. PICK q : q = calls'[d]
      OBVIOUS
    <3>2. Sound(q) /\ Grows /\ (q.op = "end" => q.result # tab'.token)
      BY <2>2, <3>1, <1>1, <1>2, <1>5 DEF Grows
    <3>3. Sound(q)'
      BY <3>2, <1>1, SoundStays
    <3>. QED
      BY <3>1, <3>3
  <2>. QED
    BY <2>1, <2>2
<1>9. ResultsApart'
  BY <1>2, <1>5, IdleIsCall DEF SessionInductive, ResultsApart
<1>10. \A d \in Slots : calls'[d].op = "none" \/ ~ calls'[d].heard
  BY <1>5, IdleIsCall
<1>12. SavedInv' /\ MetaInv' /\ ForeignAreCustomers' /\ ImpersonationAudited'
  BY <1>1, <1>2 DEF SessionInductive, SavedInv, MetaInv, ForeignAreCustomers,
     ImpersonationAudited, Impersonating, Foreign
<1>13. ActingInv'
  BY <1>1, <1>2, <1>10, SessionsAssumption DEF ActingInv, Foreign
<1>14. ~ Heard("me")'
  BY <1>10 DEF Heard
<1>15. RoleInv'
  BY <1>2, <1>10, <1>14 DEF RoleInv, RoleShownIsOwn
<1>. QED
  BY <1>7, <1>8, <1>9, <1>12, <1>13, <1>15 DEF SessionInductive, TabInv

LEMMA TabFacts ==
  ASSUME SessionInductive
  PROVE  /\ tab \in Tab
         /\ \A t \in {tab.token, tab.original, tab.meta} : t # NoToken => t \in DOMAIN issued
         /\ \A d \in Slots :
              /\ calls[d].op = "end" => calls[d].result # tab.token
              /\ calls[d].op = "impersonate" /\ calls[d].result # NoToken =>
                   calls[d].result # tab.meta
<1>1. tab \in Tab /\ tab.page \in {"login", "app"}
  BY DEF SessionInductive, SessionTypeOK, Tab
<1>3. \A d \in Slots :
        /\ calls[d].op = "end" => calls[d].result # tab.token
        /\ calls[d].op = "impersonate" /\ calls[d].result # NoToken =>
             calls[d].result # tab.meta
  BY DEF SessionInductive, CallsSound, Sound, ResultsApart
<1>. QED
  BY <1>1, <1>3, MintedFacts DEF SessionInductive

\* The dashboard, or the page that is open, is loaded under the tokens as they are.
LEMMA ReloadInv ==
  ASSUME SessionInductive, NEW c \in Slots \cup {0}, NEW t \in Tab, Load(c, t), Server,
         UNCHANGED <<person, abandoned>>,
         t.token = tab.token, t.original = tab.original, t.meta = tab.meta
  PROVE  SessionInductive'
<1>1. {t.token, t.original, t.meta} \ {NoToken} \subseteq DOMAIN issued
  BY TabFacts
<1>2. abandoned' \in BOOLEAN /\ person' = person
  BY DEF SessionInductive, SessionTypeOK
<1>3. \A d \in Slots \ {c} :
        /\ calls[d].op = "end" => calls[d].result # t.token
        /\ calls[d].op = "impersonate" /\ calls[d].result # NoToken => calls[d].result # t.meta
  BY TabFacts
<1>4. t.original # NoToken =>
        /\ ~ Foreign(t.original)
        /\ ~ abandoned' => /\ issued[t.original].user = person
                           /\ t.token # NoToken /\ Foreign(t.token)
  BY DEF SessionInductive, TabInv, SavedInv
<1>5. t.original = NoToken /\ t.token # NoToken /\ ~ abandoned' /\ ~ Foreign(t.token) =>
        issued[t.token].user = person
  BY DEF SessionInductive, TabInv, ActingInv
<1>6. t.meta # NoToken => Foreign(t.meta)
  BY DEF SessionInductive, TabInv, MetaInv
<1>7. t.token # NoToken /\ Foreign(t.token) => logRow[t.token] = "open"
  BY DEF SessionInductive, ImpersonationAudited, Impersonating, Foreign
<1>. QED
  BY <1>1, <1>2, <1>3, <1>4, <1>5, <1>6, <1>7, LoadInv

LEMMA VisitInv ==
  ASSUME SessionInductive, NEW place \in {"login", "app"}, Visit(place)
  PROVE  SessionInductive'
<1>1. PICK t : t = [tab EXCEPT !.page = place]
  OBVIOUS
<1>2. /\ t \in Tab /\ t.token = tab.token /\ t.original = tab.original /\ t.meta = tab.meta
  BY <1>1, TabFacts DEF Tab
<1>. QED
  BY <1>1, <1>2, ReloadInv DEF Visit

LEMMA HearEndInv ==
  ASSUME SessionInductive, NEW c \in Slots, HearEnd(c)
  PROVE  SessionInductive'
<1>1. PICK t : t = [tab EXCEPT !.page = "app"]
  OBVIOUS
<1>2. /\ t \in Tab /\ t.token = tab.token /\ t.original = tab.original /\ t.meta = tab.meta
      /\ t.page = "app"
  BY <1>1, TabFacts DEF Tab
<1>. QED
  BY <1>1, <1>2, ReloadInv DEF HearEnd

\* The first impersonation saves the session of its sysadmin, who signed in last.
LEMMA StartImpersonationInv ==
  ASSUME SessionInductive, NEW c \in Slots, StartImpersonation(c)
  PROVE  SessionInductive'
<1>1. PICK n : n = calls[c].result
  OBVIOUS
<1>2. PICK t : t = [tab EXCEPT !.original = IF @ # NoToken THEN @ ELSE tab.token,
                               !.token = n, !.meta = n, !.page = "app"]
  OBVIOUS
<1>3. Load(c, t) /\ Server /\ person' = person /\ abandoned' = abandoned
  BY <1>1, <1>2 DEF StartImpersonation
<1>4. calls[c].op = "impersonate" /\ calls[c].heard /\ calls[c].step = "done"
  BY DEF StartImpersonation, Ready
<1>5. /\ n \in DOMAIN issued /\ n \in Tokens /\ n # NoToken /\ Foreign(n)
      /\ logRow[n] = "open"
  BY <1>1, <1>4, MintedFacts, SessionsAssumption
  DEF SessionInductive, CallsSound, Sound, Foreign
<1>6. /\ t \in Tab /\ t.token = n /\ t.meta = n /\ t.page = "app"
      /\ t.original = IF tab.original # NoToken THEN tab.original ELSE tab.token
  BY <1>2, <1>5, TabFacts DEF Tab
<1>7. {t.token, t.original, t.meta} \ {NoToken} \subseteq DOMAIN issued
  BY <1>5, <1>6, TabFacts
<1>8. \A d \in Slots \ {c} :
        /\ calls[d].op = "end" => calls[d].result # t.token
        /\ calls[d].op = "impersonate" /\ calls[d].result # NoToken => calls[d].result # t.meta
  BY <1>1, <1>4, <1>5, <1>6 DEF SessionInductive, ResultsApart
<1>9. t.original # NoToken =>
        /\ ~ Foreign(t.original)
        /\ ~ abandoned' => /\ issued[t.original].user = person
                           /\ t.token # NoToken /\ Foreign(t.token)
  BY <1>3, <1>4, <1>5, <1>6 DEF SessionInductive, TabInv, SavedInv, ActingInv
<1>. QED
  BY <1>3, <1>5, <1>6, <1>7, <1>8, <1>9, LoadInv DEF SessionInductive, SessionTypeOK

\* A route change: the calls that stay are those that were.
LEMMA RouteCalls ==
  ASSUME SessionInductive, NEW c \in Slots \cup {0}, NEW t \in Tab, Route(c, t), Server,
         {t.token, t.original, t.meta} \ {NoToken} \subseteq DOMAIN issued,
         t.meta = tab.meta,
         \A d \in Slots \ {c} : calls[d].op = "end" => calls[d].result # t.token,
         person' \in Users \cup {NoUser}, abandoned' \in BOOLEAN, softened' \in BOOLEAN
  PROVE  /\ SessionTypeOK' /\ CallsSound' /\ ResultsApart' /\ ForeignAreCustomers'
         /\ tab' = t
         /\ \A d \in Slots : \/ calls'[d].op = "none"
                             \/ d # c /\ calls'[d] = calls[d]
         /\ \A op \in {"end", "me"} : Heard(op)' => Heard(op)
         /\ \A op \in {"end", "me"} :
              Heard(op) /\ (c \in Slots => calls[c].op # op) => Heard(op)'
<1>1. tab' = t /\ UNCHANGED <<issued, store, logRow>>
  BY DEF Route, Server
<1>2. /\ \A d \in Slots : \/ calls'[d] = Idle /\ (d = c \/ calls[d].op = "live")
                          \/ d # c /\ calls'[d] = calls[d]
      /\ DOMAIN calls' = Slots /\ calls' = [d \in Slots |-> calls'[d]]
  BY DEF Route
<1>3. \A d \in Slots : calls[d] \in Call /\ Sound(calls[d])
  BY DEF SessionInductive, SessionTypeOK, CallsSound
<1>4. SessionTypeOK'
  <2>1. calls' \in [Slots -> Call]
    BY <1>2, <1>3, IdleIsCall
  <2>. QED
    BY <1>1, <2>1 DEF SessionInductive, SessionTypeOK
<1>5. CallsSound'
  <2>. SUFFICES ASSUME NEW d \in Slots PROVE Sound(calls[d])'
    BY DEF CallsSound
  <2>1. CASE calls'[d] = Idle
    BY <2>1, IdleIsSound
  <2>2. CASE d # c /\ calls'[d] = calls[d]
    <3>1. PICK q : q = calls'[d]
      OBVIOUS
    <3>2. Sound(q) /\ Grows /\ (q.op = "end" => q.result # tab'.token)
      BY <2>2, <3>1, <1>1, <1>3 DEF Grows
    <3>3. Sound(q)'
      BY <3>2, <1>1, SoundStays
    <3>. QED
      BY <3>1, <3>3
  <2>. QED
    BY <1>2, <2>1, <2>2
<1>6. ResultsApart'
  BY <1>1, <1>2, IdleIsCall DEF SessionInductive, ResultsApart
<1>7. ForeignAreCustomers'
  BY <1>1 DEF SessionInductive, ForeignAreCustomers, Foreign
<1>8. \A d \in Slots : \/ calls'[d].op = "none" /\ (d = c \/ calls[d].op = "live")
                       \/ d # c /\ calls'[d] = calls[d]
  BY <1>2, IdleIsCall
<1>9. \A op \in {"end", "me"} : Heard(op)' => Heard(op)
  BY <1>8 DEF Heard
<1>10. \A op \in {"end", "me"} :
         Heard(op) /\ (c \in Slots => calls[c].op # op) => Heard(op)'
  BY <1>8 DEF Heard
<1>. QED
  BY <1>1, <1>4, <1>5, <1>6, <1>7, <1>8, <1>9, <1>10

LEMMA HearLoginInv ==
  ASSUME SessionInductive, NEW c \in Slots, HearLogin(c)
  PROVE  SessionInductive'
<1>1. PICK n : n = calls[c].result
  OBVIOUS
<1>2. PICK t : t = [tab EXCEPT !.token = n, !.page = "app"]
  OBVIOUS
<1>3. /\ Route(c, t) /\ Server /\ person' = calls[c].user
      /\ softened' = (softened \/ tab.token # NoToken)
      /\ abandoned' = ((abandoned \/ Impersonating) /\ tab.original # NoToken)
      /\ calls[c].op = "login" /\ calls[c].heard /\ calls[c].step = "done"
  BY <1>1, <1>2 DEF HearLogin, Ready
<1>4. /\ n \in DOMAIN issued /\ n \in Tokens /\ n # NoToken /\ ~ Foreign(n)
      /\ issued[n].user = person' /\ person' \in Users
  BY <1>1, <1>3, MintedFacts DEF SessionInductive, CallsSound, Sound, Foreign
<1>5. /\ t \in Tab /\ t.token = n /\ t.page = "app" /\ t.meta = tab.meta
      /\ t.original = tab.original /\ t.me = tab.me
  BY <1>2, <1>4, TabFacts DEF Tab
<1>6. {t.token, t.original, t.meta} \ {NoToken} \subseteq DOMAIN issued
  BY <1>4, <1>5, TabFacts
<1>7. \A d \in Slots \ {c} : calls[d].op = "end" => calls[d].result # t.token
  BY <1>4, <1>5 DEF SessionInductive, CallsSound, Sound
<1>8. /\ SessionTypeOK' /\ CallsSound' /\ ResultsApart' /\ ForeignAreCustomers'
      /\ tab' = t
      /\ \A d \in Slots : calls'[d].op = "none" \/ (d # c /\ calls'[d] = calls[d])
      /\ \A op \in {"end", "me"} : Heard(op)' => Heard(op)
      /\ \A op \in {"end", "me"} : Heard(op) /\ calls[c].op # op => Heard(op)'
  BY <1>3, <1>4, <1>5, <1>6, <1>7, RouteCalls DEF SessionInductive, SessionTypeOK
<1>10. UNCHANGED issued
  BY <1>3 DEF Server
<1>12. SavedInv' /\ MetaInv' /\ ImpersonationAudited'
  BY <1>3, <1>4, <1>5, <1>8, <1>10 DEF SessionInductive, TabInv, SavedInv, MetaInv,
     ImpersonationAudited, Impersonating, Foreign
<1>13. ActingInv'
  BY <1>3, <1>4, <1>5, <1>8, <1>10 DEF ActingInv, Foreign
<1>14. softened' \/ (tab'.me = NoUser /\ ~ Heard("me")')
  BY <1>3, <1>5, <1>8 DEF SessionInductive, TabInv, RoleInv
<1>15. RoleInv'
  BY <1>4, <1>5, <1>8, <1>14 DEF RoleInv, RoleShownIsOwn, Heard
<1>. QED
  BY <1>8, <1>12, <1>13, <1>15 DEF SessionInductive, TabInv

LEMMA HearMeInv ==
  ASSUME SessionInductive, NEW c \in Slots, HearMe(c)
  PROVE  SessionInductive'
<1>1. PICK u : u = UserOf(c)
  OBVIOUS
<1>2. PICK t : t = [tab EXCEPT !.me = u]
  OBVIOUS
<1>3. /\ Route(c, t) /\ Server /\ UNCHANGED <<person, abandoned, softened>>
      /\ calls[c].op = "me" /\ calls[c].heard /\ calls[c].step = "done"
  BY <1>1, <1>2 DEF HearMe, Ready
<1>4. calls[c].token \in DOMAIN issued /\ u = issued[calls[c].token].user /\ u \in Users
  BY <1>1, <1>3, MintedFacts DEF SessionInductive, CallsSound, Sound, UserOf
<1>5. /\ t \in Tab /\ t.token = tab.token /\ t.page = tab.page /\ t.meta = tab.meta
      /\ t.original = tab.original /\ t.me = u
  BY <1>2, <1>4, TabFacts DEF Tab
<1>6. /\ {t.token, t.original, t.meta} \ {NoToken} \subseteq DOMAIN issued
      /\ \A d \in Slots \ {c} : calls[d].op = "end" => calls[d].result # t.token
  BY <1>5, TabFacts
<1>7. /\ SessionTypeOK' /\ CallsSound' /\ ResultsApart' /\ ForeignAreCustomers'
      /\ tab' = t
      /\ \A d \in Slots : calls'[d].op = "none" \/ (d # c /\ calls'[d] = calls[d])
      /\ \A op \in {"end", "me"} : Heard(op)' => Heard(op)
      /\ \A op \in {"end", "me"} : Heard(op) /\ calls[c].op # op => Heard(op)'
  BY <1>3, <1>5, <1>6, RouteCalls DEF SessionInductive, SessionTypeOK
<1>8. UNCHANGED <<issued, logRow>>
  BY <1>3 DEF Server
<1>10. SavedInv' /\ MetaInv' /\ ImpersonationAudited'
  BY <1>3, <1>5, <1>7, <1>8 DEF SessionInductive, TabInv, SavedInv, MetaInv,
     ImpersonationAudited, Impersonating, Foreign
<1>11. ActingInv'
  BY <1>3, <1>4, <1>5, <1>7, <1>8
  DEF SessionInductive, TabInv, ActingInv, ForeignAreCustomers, Foreign
<1>12. softened \/ Heard("end") \/ (tab.token # NoToken /\ calls[c].token = tab.token)
  BY <1>3 DEF SessionInductive, TabInv, RoleInv
<1>13. tab.token = NoToken => softened
  BY <1>3 DEF SessionInductive, TabInv, RoleInv, Heard
<1>14. Heard("end") => Heard("end")'
  BY <1>3, <1>7
<1>15. RoleInv'
  BY <1>3, <1>4, <1>5, <1>7, <1>8, <1>12, <1>13, <1>14
  DEF SessionInductive, TabInv, RoleInv, RoleShownIsOwn
<1>. QED
  BY <1>7, <1>10, <1>11, <1>15 DEF SessionInductive, TabInv

LEMMA HearFailureInv ==
  ASSUME SessionInductive, NEW c \in Slots, HearFailure(c)
  PROVE  SessionInductive'
<1>1. /\ Route(c, tab) /\ Server /\ UNCHANGED <<person, abandoned, softened>>
      /\ calls[c].op \in {"login", "me", "impersonate"}
  BY DEF HearFailure
<1>2. /\ {tab.token, tab.original, tab.meta} \ {NoToken} \subseteq DOMAIN issued
      /\ \A d \in Slots \ {c} : calls[d].op = "end" => calls[d].result # tab.token
      /\ tab \in Tab
  BY TabFacts
<1>3. /\ SessionTypeOK' /\ CallsSound' /\ ResultsApart' /\ ForeignAreCustomers'
      /\ tab' = tab
      /\ \A d \in Slots : calls'[d].op = "none" \/ (d # c /\ calls'[d] = calls[d])
      /\ \A op \in {"end", "me"} : Heard(op)' => Heard(op)
      /\ \A op \in {"end", "me"} : Heard(op) /\ calls[c].op # op => Heard(op)'
  BY <1>1, <1>2, RouteCalls DEF SessionInductive, SessionTypeOK
<1>4. UNCHANGED <<issued, logRow>>
  BY <1>1 DEF Server
<1>6. SavedInv' /\ MetaInv' /\ ImpersonationAudited'
  BY <1>1, <1>3, <1>4 DEF SessionInductive, TabInv, SavedInv, MetaInv,
     ImpersonationAudited, Impersonating, Foreign
<1>7. ActingInv'
  BY <1>1, <1>3, <1>4 DEF SessionInductive, TabInv, ActingInv, Foreign
<1>8. RoleInv'
  BY <1>1, <1>3, <1>4 DEF SessionInductive, TabInv, RoleInv, RoleShownIsOwn
<1>. QED
  BY <1>3, <1>6, <1>7, <1>8 DEF SessionInductive, TabInv

LEMMA BrowseInv ==
  ASSUME SessionInductive, NEW place \in {"login", "app"}, Browse(place)
  PROVE  SessionInductive'
<1>1. PICK t : t = [tab EXCEPT !.page = place]
  OBVIOUS
<1>2. /\ Route(0, t) /\ Server /\ UNCHANGED <<person, abandoned, softened>>
  BY <1>1 DEF Browse
<1>3. /\ t \in Tab /\ t.token = tab.token /\ t.original = tab.original /\ t.meta = tab.meta
      /\ t.me = tab.me
  BY <1>1, TabFacts DEF Tab
<1>4. /\ {t.token, t.original, t.meta} \ {NoToken} \subseteq DOMAIN issued
      /\ \A d \in Slots \ {0} : calls[d].op = "end" => calls[d].result # t.token
  BY <1>3, TabFacts
<1>5. /\ SessionTypeOK' /\ CallsSound' /\ ResultsApart' /\ ForeignAreCustomers'
      /\ tab' = t
      /\ \A d \in Slots : calls'[d].op = "none" \/ (d # 0 /\ calls'[d] = calls[d])
      /\ \A op \in {"end", "me"} : Heard(op)' => Heard(op)
      /\ \A op \in {"end", "me"} : Heard(op) /\ (0 \in Slots => calls[0].op # op) => Heard(op)'
  BY <1>2, <1>3, <1>4, RouteCalls DEF SessionInductive, SessionTypeOK
<1>6. Heard("end") => Heard("end")'
  BY <1>5 DEF Slots
<1>7. UNCHANGED <<issued, logRow>>
  BY <1>2 DEF Server
<1>8. SavedInv' /\ MetaInv' /\ ImpersonationAudited'
  BY <1>2, <1>3, <1>5, <1>7 DEF SessionInductive, TabInv, SavedInv, MetaInv,
     ImpersonationAudited, Impersonating, Foreign
<1>9. ActingInv'
  BY <1>2, <1>3, <1>5, <1>7 DEF SessionInductive, TabInv, ActingInv, Foreign
<1>10. RoleInv'
  BY <1>2, <1>3, <1>5, <1>6, <1>7 DEF SessionInductive, TabInv, RoleInv, RoleShownIsOwn
<1>. QED
  BY <1>5, <1>8, <1>9, <1>10 DEF SessionInductive, TabInv

\* The token is dropped; an original that is left behind is one the properties do not count on.
LEMMA DropInv ==
  ASSUME SessionInductive, NEW c \in Slots, NEW t \in Tab, Route(c, t), Server,
         t.token = NoToken, t.original = tab.original, t.meta = tab.meta,
         person' = person, abandoned' = (abandoned \/ Impersonating),
         softened' \/ (softened' = softened /\ tab.token = NoToken),
         softened' \in BOOLEAN, t.me = tab.me
  PROVE  SessionInductive'
<1>1. /\ {t.token, t.original, t.meta} \ {NoToken} \subseteq DOMAIN issued
      /\ \A d \in Slots \ {c} : calls[d].op = "end" => calls[d].result # t.token
  BY TabFacts, MintedFacts DEF SessionInductive, CallsSound, Sound
<1>2. abandoned' \in BOOLEAN
  BY DEF SessionInductive, SessionTypeOK
<1>3. /\ SessionTypeOK' /\ CallsSound' /\ ResultsApart' /\ ForeignAreCustomers'
      /\ tab' = t
      /\ \A d \in Slots : calls'[d].op = "none" \/ (d # c /\ calls'[d] = calls[d])
      /\ \A op \in {"end", "me"} : Heard(op)' => Heard(op)
  BY <1>1, <1>2, RouteCalls DEF SessionInductive, SessionTypeOK
<1>4. UNCHANGED <<issued, logRow>>
  BY DEF Server
<1>6. SavedInv' /\ MetaInv' /\ ImpersonationAudited'
  BY <1>3, <1>4 DEF SessionInductive, TabInv, SavedInv, MetaInv, ImpersonationAudited,
     Impersonating, Foreign
<1>7. ActingInv'
  BY <1>3 DEF ActingInv
<1>8. softened' \/ (tab'.me = NoUser /\ ~ Heard("me")')
  BY <1>3 DEF SessionInductive, TabInv, RoleInv
<1>9. RoleInv'
  BY <1>3, <1>8 DEF RoleInv, RoleShownIsOwn, Heard
<1>. QED
  BY <1>3, <1>6, <1>7, <1>9 DEF SessionInductive, TabInv

LEMMA HearLogoutInv ==
  ASSUME SessionInductive, NEW c \in Slots, HearLogout(c)
  PROVE  SessionInductive'
<1>1. PICK t : t = [tab EXCEPT !.token = NoToken,
                               !.page = IF calls[c].step = "done" THEN "login" ELSE @]
  OBVIOUS
<1>2. /\ t \in Tab /\ t.token = NoToken /\ t.original = tab.original /\ t.meta = tab.meta
      /\ t.me = tab.me
  BY <1>1, TabFacts DEF Tab
<1>. QED
  BY <1>1, <1>2, DropInv DEF HearLogout

LEMMA EndSessionInv ==
  ASSUME SessionInductive, NEW c \in Slots, EndSession(c)
  PROVE  SessionInductive'
<1>1. PICK t : t = [tab EXCEPT !.token = NoToken]
  OBVIOUS
<1>2. /\ t \in Tab /\ t.token = NoToken /\ t.original = tab.original /\ t.meta = tab.meta
      /\ t.me = tab.me /\ t.page = tab.page
  BY <1>1, TabFacts DEF Tab
<1>3. /\ Server /\ person' = person /\ abandoned' = (abandoned \/ Impersonating)
      /\ abandoned' \in BOOLEAN
  BY DEF EndSession, SessionInductive, SessionTypeOK
<1>4. CASE tab.page = "login"
  <2>1. Route(c, t) /\ softened' = (softened \/ tab.token # NoToken)
    BY <1>1, <1>4 DEF EndSession
  <2>2. softened \in BOOLEAN /\ softened' \in BOOLEAN
    BY <2>1 DEF SessionInductive, SessionTypeOK
  <2>. QED
    BY <1>2, <1>3, <2>1, <2>2, DropInv
<1>5. CASE tab.page # "login"
  <2>1. Load(c, t)
    BY <1>1, <1>5 DEF EndSession
  <2>2. {t.token, t.original, t.meta} \ {NoToken} \subseteq DOMAIN issued
    BY <1>2, TabFacts
  <2>3. \A d \in Slots \ {c} :
          /\ calls[d].op = "end" => calls[d].result # t.token
          /\ calls[d].op = "impersonate" /\ calls[d].result # NoToken =>
               calls[d].result # t.meta
    BY <1>2, TabFacts, MintedFacts DEF SessionInductive, CallsSound, Sound
  <2>4. t.original # NoToken =>
          /\ ~ Foreign(t.original)
          /\ ~ abandoned' => /\ issued[t.original].user = person
                             /\ t.token # NoToken /\ Foreign(t.token)
    BY <1>2, <1>3 DEF SessionInductive, TabInv, SavedInv, Impersonating, Foreign
  <2>5. t.meta # NoToken => Foreign(t.meta)
    BY <1>2 DEF SessionInductive, TabInv, MetaInv
  <2>. QED
    BY <1>2, <1>3, <2>1, <2>2, <2>3, <2>4, <2>5, LoadInv
<1>. QED
  BY <1>4, <1>5

LEMMA CollectMeInv ==
  ASSUME SessionInductive, CollectMe
  PROVE  SessionInductive'
<1>1. /\ tab' \in Tab /\ tab'.token = tab.token /\ tab'.original = tab.original
      /\ tab'.meta = tab.meta /\ tab'.page = tab.page /\ tab'.me = NoUser
      /\ UNCHANGED <<issued, store, logRow, calls, person, abandoned, softened>>
  BY TabFacts DEF CollectMe, Tab, Server
<1>2. SessionTypeOK'
  BY <1>1 DEF SessionInductive, SessionTypeOK
<1>3. CallsSound' /\ ResultsApart' /\ ForeignAreCustomers' /\ ImpersonationAudited'
  BY <1>1 DEF SessionInductive, CallsSound, Sound, ResultsApart, ForeignAreCustomers,
     ImpersonationAudited, Impersonating, Foreign
<1>4. TabInv'
  BY <1>1, SessionsAssumption DEF SessionInductive, TabInv, SavedInv, ActingInv,
     MetaInv, RoleInv, RoleShownIsOwn, Heard, Foreign
<1>. QED
  BY <1>2, <1>3, <1>4 DEF SessionInductive

LEMMA SessionNextInv ==
  SessionInductive /\ [SessionNext]_sessionVars => SessionInductive'
<1>. SUFFICES ASSUME SessionInductive, [SessionNext]_sessionVars PROVE SessionInductive'
  OBVIOUS
<1>1. ASSUME NEW c \in Slots, Serves(c) PROVE SessionInductive'
  BY <1>1, AuthoriseInv, MintingsInv, RefusalsInv, RecordImpersonationInv, EndImpersonationInv
  DEF Serves
<1>2. ASSUME NEW c \in Slots, Hears(c) PROVE SessionInductive'
  BY <1>2, EndSessionInv, HearLoginInv, HearMeInv, HearFailureInv, StartImpersonationInv,
     HearEndInv, HearLogoutInv DEF Hears
<1>3. CASE UNCHANGED sessionVars
  BY <1>3 DEF SessionInductive, SessionTypeOK, CallsSound, Sound, ResultsApart,
     ForeignAreCustomers, ImpersonationAudited, Impersonating, Foreign, TabInv,
     SavedInv, ActingInv, MetaInv, RoleInv, RoleShownIsOwn, Heard, sessionVars
<1>. QED
  BY <1>1, <1>2, <1>3, SendsInv, ExpireInv, VisitInv, BrowseInv, CollectMeInv DEF SessionNext

\* However sign-ins, impersonations, refusals, logouts and reloads overlap in a tab: a saved
\* original is a session of who signed in last unless it was abandoned, the role shown is that
\* of the session, and an impersonated session has an open row in the log.
THEOREM SessionsAreSafe == SessionSpec => []SessionSafe
<1>1. SessionInductive => SessionSafe
  BY DEF SessionInductive, TabInv, SavedInv, RoleInv, SessionSafe, OriginalIsOwn
<1>. QED
  BY <1>1, SessionInitInv, SessionNextInv, PTL DEF SessionSpec

\* A token that was refused is one Redis has not, and it never comes back.
RefusedAreDead ==
  \A c \in Slots : calls[c].step = "refused" /\ calls[c].op # "login" =>
    calls[c].token \notin store

\* No step of the backend puts a token back that was minted before.
LEMMA SessionStays ==
  ASSUME SessionInductive, NEW c \in Slots, Serves(c)
  PROVE  store' \subseteq store \cup (Tokens \ DOMAIN issued)
<1>1. ASSUME NEW u, NEW by, NEW to, Mint(c, u, by, to)
      PROVE  store' \subseteq store \cup (Tokens \ DOMAIN issued)
  <2>1. PICK t : t = Len(issued) + 1
    OBVIOUS
  <2>2. t \in Tokens /\ store' = store \cup {t}
    BY <1>1, <2>1 DEF Mint
  <2>3. t \notin DOMAIN issued
    BY <2>1 DEF SessionInductive, SessionTypeOK
  <2>. QED
    BY <2>2, <2>3
<1>2. CASE ServeLogin(c) \/ MintImpersonated(c)
  BY <1>1, <1>2 DEF ServeLogin, MintImpersonated
<1>3. CASE ServeLogout(c)
  BY <1>3 DEF ServeLogout
<1>4. CASE UNCHANGED store
  BY <1>4
<1>. QED
  BY <1>2, <1>3, <1>4 DEF Serves, Authorise, RejectLogin, SocketRefused, ForwardUnauthorised,
     RecordImpersonation, EndImpersonation, CallFails

\* A step on one request refuses it only if its token is dead, or keeps it.
LEMMA OthersRefused ==
  ASSUME SessionInductive, RefusedAreDead, NEW c \in Slots, NEW s \in Call,
         calls' = [calls EXCEPT ![c] = s],
         store' \subseteq store \cup (Tokens \ DOMAIN issued),
         s.step = "refused" /\ s.op # "login" => s.token \notin store
                                                 /\ s.token \in DOMAIN issued \cup {NoToken}
  PROVE  RefusedAreDead'
<1>1. /\ calls'[c] = s /\ \A d \in Slots \ {c} : calls'[d] = calls[d]
  BY OneCall DEF SessionInductive, SessionTypeOK
<1>2. \A d \in Slots : calls[d].token \in DOMAIN issued \cup {NoToken}
  BY DEF SessionInductive, CallsSound, Sound
<1>. QED
  BY <1>1, <1>2, MintedFacts DEF RefusedAreDead, SessionInductive

LEMMA ServesRefused ==
  ASSUME SessionInductive, RefusedAreDead, NEW c \in Slots, Serves(c),
         store' \subseteq store \cup (Tokens \ DOMAIN issued)
  PROVE  RefusedAreDead'
<1>1. PICK r : r = calls[c]
  OBVIOUS
<1>2. r \in Call /\ Sound(r)
  BY <1>1 DEF SessionInductive, SessionTypeOK, CallsSound
<1>3. ASSUME NEW to \in {"in", "minted", "done", "refused", "forwarded", "failed"}, Answer(c, to),
             to = "refused" /\ r.op # "login" => r.token \notin store
      PROVE  RefusedAreDead'
  <2>1. PICK s : s = Answered(r, to)
    OBVIOUS
  <2>2. calls' = [calls EXCEPT ![c] = s]
    BY <1>1, <1>3, <2>1 DEF Answer
  <2>3. /\ s \in Call
        /\ \/ s.op = r.op /\ s.token = r.token /\ s.step = to
           \/ s = Idle
    BY <1>2, <2>1, AnsweredIs
  <2>4. s.step = "refused" /\ s.op # "login" =>
          s.token \notin store /\ s.token \in DOMAIN issued \cup {NoToken}
    BY <1>2, <1>3, <2>3, IdleIsCall DEF Sound
  <2>. QED
    BY <2>2, <2>3, <2>4, OthersRefused
<1>4. ASSUME NEW u, NEW by, NEW to \in {"minted", "done"}, Mint(c, u, by, to)
      PROVE  RefusedAreDead'
  <2>1. PICK t : t = Len(issued) + 1
    OBVIOUS
  <2>2. t \in Tokens
    BY <1>4, <2>1 DEF Mint
  <2>3. PICK m : m = [r EXCEPT !.result = t]
    OBVIOUS
  <2>4. m \in Call
    BY <1>2, <2>2, <2>3 DEF Call
  <2>5. PICK s : s = Answered(m, to)
    OBVIOUS
  <2>6. calls' = [calls EXCEPT ![c] = s]
    BY <1>1, <1>4, <2>1, <2>3, <2>5 DEF Mint
  <2>7. s \in Call /\ s.step # "refused"
    BY <2>4, <2>5, AnsweredIs, IdleIsCall
  <2>. QED
    BY <2>6, <2>7, OthersRefused
<1>5. CASE Authorise(c)
  <2>1. PICK to : to = IF calls[c].token \notin store THEN "refused"
                 ELSE IF calls[c].op \in {"impersonate", "end"} /\ UserOf(c) \notin Sysadmins
                 THEN "failed"
                 ELSE IF calls[c].op \in {"me", "fetch"} THEN "done" ELSE "in"
    OBVIOUS
  <2>2. to \in {"in", "minted", "done", "refused", "failed"} /\ Answer(c, to)
    BY <1>5, <2>1 DEF Authorise
  <2>3. to = "refused" => r.token \notin store
    BY <1>1, <2>1
  <2>. QED
    BY <2>2, <2>3, <1>3
<1>6. CASE RejectLogin(c)
  BY <1>1, <1>3, <1>6 DEF RejectLogin
<1>7. CASE SocketRefused(c)
  BY <1>1, <1>3, <1>7 DEF SocketRefused
<1>8. CASE \/ RecordImpersonation(c) \/ EndImpersonation(c) \/ ServeLogout(c)
           \/ ForwardUnauthorised(c) \/ CallFails(c)
  BY <1>3, <1>8
  DEF RecordImpersonation, EndImpersonation, ServeLogout, ForwardUnauthorised, CallFails
<1>9. CASE ServeLogin(c) \/ MintImpersonated(c)
  BY <1>4, <1>9 DEF ServeLogin, MintImpersonated
<1>. QED
  BY <1>5, <1>6, <1>7, <1>8, <1>9 DEF Serves

\* What the tab does to the requests in flight: it keeps them, forgets them or stops listening.
LEMMA RefusedStay ==
  ASSUME SessionInductive, RefusedAreDead,
         \A d \in Slots : \/ calls'[d].step # "refused"
                          \/ calls'[d].step = calls[d].step /\ calls'[d].op = calls[d].op
                             /\ calls'[d].token = calls[d].token,
         store' \subseteq store
  PROVE  RefusedAreDead'
  BY DEF RefusedAreDead

LEMMA LoadKeepsRequests ==
  ASSUME SessionInductive, NEW c, NEW t, Load(c, t), NEW d \in Slots
  PROVE  calls'[d].step # "refused"
<1>1. calls[d] \in Call
  BY DEF SessionInductive, SessionTypeOK
<1>2. calls'[d] = Idle \/ (calls'[d] = [calls[d] EXCEPT !.heard = FALSE]
                            /\ calls[d].step \notin Final)
  BY DEF Load
<1>. QED
  BY <1>1, <1>2, IdleIsCall DEF Call, Final, Unauthorised

LEMMA RefusedNext ==
  SessionInductive /\ RefusedAreDead /\ [SessionNext]_sessionVars => RefusedAreDead'
<1>. SUFFICES ASSUME SessionInductive, RefusedAreDead, [SessionNext]_sessionVars
              PROVE  RefusedAreDead'
  OBVIOUS
<1>1. ASSUME NEW c \in Slots, Serves(c) PROVE RefusedAreDead'
  BY <1>1, SessionStays, ServesRefused
<1>2. ASSUME NEW c \in Slots, NEW op, NEW token, NEW u, NEW line, SendWith(c, op, token, u, line),
             store' = store
      PROVE  RefusedAreDead'
  <2>1. \A d \in Slots \ {c} : calls'[d] = calls[d]
    BY <1>2 DEF SendWith, SessionInductive, SessionTypeOK
  <2>2. calls'[c].step = "sent"
    BY <1>2 DEF SendWith, SessionInductive, SessionTypeOK
  <2>. QED
    BY <1>2, <2>1, <2>2, RefusedStay
<1>3. ASSUME NEW c \in Slots, Sends(c) PROVE RefusedAreDead'
  BY <1>2, <1>3 DEF Sends, SignIn, LoadMe, Fetch, OpenSocket, LoginAs, BackToMySession, LogOut,
     SendOnly
<1>4. ASSUME NEW c, NEW t, Load(c, t), store' = store PROVE RefusedAreDead'
  BY <1>4, LoadKeepsRequests, RefusedStay
<1>5. ASSUME NEW c, NEW t, Route(c, t), store' = store PROVE RefusedAreDead'
  <2>1. \A d \in Slots : calls'[d] = Idle \/ calls'[d] = calls[d]
    BY <1>5 DEF Route
  <2>2. \A d \in Slots : calls'[d].step # "refused" \/ calls'[d] = calls[d]
    BY <2>1, IdleIsCall
  <2>. QED
    BY <1>5, <2>2, RefusedStay
<1>6. ASSUME NEW c \in Slots, Hears(c) PROVE RefusedAreDead'
  BY <1>4, <1>5, <1>6 DEF Hears, EndSession, HearLogin, HearMe, HearFailure, StartImpersonation,
     HearEnd, HearLogout, Server
<1>7. ASSUME NEW t \in Tokens, Expire(t) PROVE RefusedAreDead'
  BY <1>7 DEF Expire, RefusedAreDead
<1>8. ASSUME NEW place \in {"login", "app"}, Visit(place) \/ Browse(place) PROVE RefusedAreDead'
  BY <1>4, <1>5, <1>8 DEF Visit, Browse, Server
<1>9. CASE CollectMe
  BY <1>9 DEF CollectMe, Server, RefusedAreDead
<1>10. CASE UNCHANGED sessionVars
  BY <1>10 DEF sessionVars, RefusedAreDead
<1>. QED
  BY <1>1, <1>3, <1>6, <1>7, <1>8, <1>9, <1>10 DEF SessionNext

\* What LiveSessionKept says of a step.
LEMMA LiveSessionStep ==
  SessionInductive /\ RefusedAreDead /\ [SessionNext]_sessionVars =>
    (tab.token \in store /\ tab'.token = NoToken =>
       \E c \in Slots : /\ calls[c].op # "none" /\ calls'[c].op = "none"
                        /\ \/ calls[c].op \in {"login", "logout"}
                           \/ calls[c].token # tab.token
                           \/ calls[c].step = "forwarded")
<1>. SUFFICES ASSUME SessionInductive, RefusedAreDead, [SessionNext]_sessionVars,
                     tab.token \in store, tab'.token = NoToken
              PROVE  \E c \in Slots : /\ calls[c].op # "none" /\ calls'[c].op = "none"
                                      /\ \/ calls[c].op \in {"login", "logout"}
                                         \/ calls[c].token # tab.token
                                         \/ calls[c].step = "forwarded"
  OBVIOUS
<1>1. tab.token # NoToken /\ tab \in Tab
  BY MintedFacts DEF SessionInductive, SessionTypeOK
<1>2. tab'.token # tab.token
  BY <1>1
<1>3. ASSUME NEW c \in Slots, EndSession(c)
      PROVE  /\ calls[c].op # "none" /\ calls'[c].op = "none"
             /\ \/ calls[c].op = "login" \/ calls[c].token # tab.token
                \/ calls[c].step = "forwarded"
  <2>1. calls'[c] = Idle
    BY <1>3 DEF EndSession, Load, Route
  <2>. QED
    BY <1>3, <2>1, IdleIsCall DEF EndSession, Ready, Unauthorised, RefusedAreDead
<1>4. ASSUME NEW c \in Slots, HearLogout(c)
      PROVE  calls[c].op = "logout" /\ calls'[c].op = "none"
  BY <1>4, IdleIsCall DEF HearLogout, Route
<1>5. ASSUME NEW c, NEW t \in Tab, Load(c, t), t.token # NoToken PROVE FALSE
  BY <1>5 DEF Load, Tab
<1>6. ASSUME NEW c \in Slots, HearLogin(c) PROVE FALSE
  <2>1. calls[c].result # NoToken
    BY <1>6, MintedFacts DEF HearLogin, Ready, SessionInductive, CallsSound, Sound
  <2>2. tab'.token = calls[c].result
    BY <1>1, <1>6 DEF HearLogin, Route, Tab
  <2>. QED
    BY <2>1, <2>2
<1>7. ASSUME NEW c \in Slots, HearMe(c) \/ HearFailure(c) PROVE FALSE
  BY <1>1, <1>2, <1>7 DEF HearMe, HearFailure, Route, Tab
<1>8. ASSUME NEW c \in Slots, StartImpersonation(c) PROVE FALSE
  <2>1. calls[c].result # NoToken
    BY <1>8, MintedFacts DEF StartImpersonation, Ready, SessionInductive, CallsSound, Sound
  <2>2. tab'.token = calls[c].result
    BY <1>1, <1>8 DEF StartImpersonation, Load, Tab
  <2>. QED
    BY <2>1, <2>2
<1>9. ASSUME NEW c \in Slots, HearEnd(c) PROVE FALSE
  BY <1>1, <1>2, <1>9 DEF HearEnd, Load, Tab
<1>10. ASSUME NEW c \in Slots, BackToMySession(c) PROVE FALSE
  BY <1>1, <1>10 DEF BackToMySession, Tab
<1>11. ASSUME NEW place \in {"login", "app"},
              Visit(place) \/ Browse(place) \/ CollectMe
       PROVE  FALSE
  BY <1>1, <1>2, <1>11 DEF Visit, Browse, CollectMe, Load, Route, Tab
<1>12. CASE UNCHANGED tab
  BY <1>2, <1>12
<1>13. ASSUME NEW c \in Slots, Sends(c) PROVE FALSE
  BY <1>10, <1>12, <1>13, <1>2 DEF Sends, SignIn, LoadMe, Fetch, OpenSocket, LoginAs, LogOut,
     SendOnly
<1>14. ASSUME NEW c \in Slots, Serves(c) PROVE FALSE
  BY <1>2, <1>14 DEF Serves, Authorise, ServeLogin, RejectLogin, SocketRefused,
     ForwardUnauthorised, MintImpersonated, RecordImpersonation, EndImpersonation, ServeLogout,
     CallFails, TabKept
<1>15. ASSUME NEW t \in Tokens, Expire(t) PROVE FALSE
  BY <1>2, <1>15 DEF Expire, TabKept
<1>16. ASSUME NEW c \in Slots, Hears(c)
       PROVE  \E d \in Slots : /\ calls[d].op # "none" /\ calls'[d].op = "none"
                               /\ \/ calls[d].op \in {"login", "logout"}
                                  \/ calls[d].token # tab.token
                                  \/ calls[d].step = "forwarded"
  BY <1>3, <1>4, <1>6, <1>7, <1>8, <1>9, <1>16 DEF Hears
<1>. QED
  BY <1>2, <1>11, <1>13, <1>14, <1>15, <1>16 DEF SessionNext, sessionVars

\* A tab loses a live session only by a logout, a refused sign-in, the refusal of a request
\* sent with another token, or a 401 of ThingsBoard's that is passed on.
THEOREM LiveSessionsAreKept == SessionSpec => LiveSessionKept
<1>1. SessionInit => RefusedAreDead
  BY IdleIsCall DEF SessionInit, RefusedAreDead
<1>2. SessionInductive /\ RefusedAreDead /\ [SessionNext]_sessionVars =>
        [tab.token \in store /\ tab'.token = NoToken =>
          \E c \in Slots : /\ calls[c].op # "none" /\ calls'[c].op = "none"
                           /\ \/ calls[c].op \in {"login", "logout"}
                              \/ calls[c].token # tab.token
                              \/ calls[c].step = "forwarded"]_sessionVars
  BY LiveSessionStep
<1>. QED
  BY <1>1, <1>2, SessionInitInv, SessionNextInv, RefusedNext, PTL
  DEF SessionSpec, LiveSessionKept

-----------------------------------------------------------------------------
(* Types of the forms and of the editor, which what they promise does not rely on. *)

\* A wizard that may be turned to has a step of its three, whatever its fields.
WizardTyped == WizardTypeOK /\ WizardInductive

LEMMA WizardTypesInit == WizardInit => WizardTyped
<1>. SUFFICES ASSUME WizardInit PROVE WizardTyped
  OBVIOUS
<1>1. WizardInductive
  BY WizardInitInv
<1>2. wizard.step = 1 /\ waiting = FALSE /\ posts = 0
  BY DEF WizardInit, NewWizard
<1>3. posts \in 0 .. MaxPosts
  BY <1>2, WizardAssumption
<1>4. wizard.step \in 1 .. 3
  BY <1>2
<1>5. waiting \in BOOLEAN
  BY <1>2
<1>6. wizard \in [step : 1 .. 3, name : Names \cup {BlankName},
                  levels : Seq(Names \cup {BlankName})]
  BY <1>1, <1>4 DEF WizardInductive
<1>. QED
  BY <1>1, <1>3, <1>5, <1>6 DEF WizardTyped, WizardTypeOK, WizardInductive

LEMMA WizardTypesStep == WizardTyped /\ [WizardNext]_wizardVars => WizardTyped'
<1>. SUFFICES ASSUME WizardTyped, [WizardNext]_wizardVars PROVE WizardTyped'
  OBVIOUS
<1>. USE WizardAssumption
<1>1. WizardInductive'
  BY WizardNextInv DEF WizardTyped
<1>2. /\ wizard.step \in 1 .. 3 /\ posts \in 0 .. MaxPosts /\ waiting \in BOOLEAN
      /\ wizard = [step |-> wizard.step, name |-> wizard.name, levels |-> wizard.levels]
  BY DEF WizardTyped, WizardTypeOK
<1>3. \/ wizard'.step \in 1 .. 3 /\ UNCHANGED <<posts, waiting>>
      \/ wizard'.step \in 1 .. 3 /\ waiting' = FALSE /\ UNCHANGED posts
      \/ wizard' = wizard /\ waiting' = TRUE /\ posts' = posts + 1 /\ posts < MaxPosts
  <2>1. CASE GoNext
    BY <1>2, <2>1 DEF GoNext, Turns
  <2>2. CASE GoBack
    BY <1>2, <2>2 DEF GoBack, Turns
  <2>3. CASE Submit
    BY <1>2, <2>3 DEF Submit
  <2>4. CASE ClientCreated \/ ClientRefused \/ CloseWizard \/ UNCHANGED wizardVars
    BY <1>2, <2>4 DEF ClientCreated, ClientRefused, CloseWizard, NewWizard, wizardVars
  <2>5. ASSUME NEW levels, Edits(levels)
        PROVE  wizard'.step \in 1 .. 3 /\ UNCHANGED <<posts, waiting>>
    BY <1>2, <2>5 DEF Edits, Turns
  <2>6. CASE \E name \in Names \cup {BlankName} : TypeName(name)
    BY <1>2, <2>6 DEF TypeName, Turns
  <2>7. CASE AddLevel
    BY <2>5, <2>7 DEF AddLevel
  <2>8. ASSUME NEW i \in DOMAIN wizard.levels,
               \/ MoveUp(i) \/ RemoveLevel(i)
               \/ \E name \in Names \cup {BlankName} : NameLevel(i, name)
        PROVE  wizard'.step \in 1 .. 3 /\ UNCHANGED <<posts, waiting>>
    BY <2>5, <2>8 DEF MoveUp, RemoveLevel, NameLevel
  <2>. QED
    BY <2>1, <2>2, <2>3, <2>4, <2>6, <2>7, <2>8 DEF WizardNext
<1>4. posts + 1 \in 0 .. MaxPosts \/ ~ posts < MaxPosts
  BY <1>2
<1>5. wizard'.step \in 1 .. 3 /\ posts' \in 0 .. MaxPosts /\ waiting' \in BOOLEAN
  BY <1>2, <1>3, <1>4
<1>. QED
  BY <1>1, <1>5 DEF WizardTyped, WizardInductive, WizardTypeOK

\* Whatever was added, moved, renamed and removed: the step is one of three, and every request
\* names its client and each of its levels, for any names and any number of levels and
\* requests (ClientWizard.tsx).
THEOREM WizardTypeInvariant == WizardSpec => []WizardTypeOK
<1>1. WizardTyped => WizardTypeOK
  BY DEF WizardTyped
<1>. QED
  BY <1>1, WizardTypesInit, WizardTypesStep, PTL DEF WizardSpec

Shares == 0 .. MaxOthers + MaxSaves
FetchRecords == [phase : {"none", "asked", "read"}, failed : BOOLEAN, copy : Copies]
PageRecords ==
  [phase : {"closed", "viewing", "editing"}, new : BOOLEAN, seeded : BOOLEAN,
   staged : SUBSET Widgets, sharing : Sharings, exiting : SUBSET Widgets,
   meant : SUBSET Widgets, lost : SUBSET Widgets, shares : Shares]
SavePhases == {"unused", "sent", "checked", "committed", "other", "ok", "refused", "done"}
SaveRecords ==
  [phase : SavePhases, mine : BOOLEAN, create : BOOLEAN, widgets : SUBSET Widgets,
   sharing : Sharings, shares : Shares]

\* The saves whose transaction is behind them.
Spent == {n \in SaveIds : saves[n].phase \notin {"unused", "sent", "checked"}}

\* Each change of the sharing is a save of somebody else or one of the page that was spent.
SharesAreCounted == stored.shares <= others + Cardinality(Spent)

EditorTyped == EditorTypeOK /\ SharesAreCounted

LEMMA EditorTypes ==
  EditorTypeOK <=> /\ role \in Roles /\ others \in 0 .. MaxOthers
                   /\ stored \in Copies /\ cache \in Copies /\ fetch \in FetchRecords
                   /\ page \in PageRecords /\ saves \in [SaveIds -> SaveRecords]
  BY DEF EditorTypeOK, FetchRecords, PageRecords, SaveRecords, SavePhases, Shares

\* What is there at the start, and what is put in its place.
LEMMA FreshRecords ==
  /\ NoCopy \in Copies /\ [NoCopy EXCEPT !.state = "deleted"] \in Copies
  /\ NoFetch \in FetchRecords /\ [NoFetch EXCEPT !.failed = TRUE] \in FetchRecords
  /\ Closed \in PageRecords /\ [Closed EXCEPT !.phase = "viewing"] \in PageRecords
  /\ [Closed EXCEPT !.phase = "editing", !.new = TRUE] \in PageRecords
  /\ Unsent \in SaveRecords /\ Done \in SaveRecords
<1>1. 0 \in Shares
  BY EditorAssumption DEF Shares
<1>2. NoCopy \in Copies /\ [NoCopy EXCEPT !.state = "deleted"] \in Copies
  BY <1>1 DEF NoCopy, Copies, Shares, Sharings
<1>3. NoFetch \in FetchRecords /\ [NoFetch EXCEPT !.failed = TRUE] \in FetchRecords
  BY <1>2 DEF NoFetch, FetchRecords
<1>4. Closed \in PageRecords /\ [Closed EXCEPT !.phase = "viewing"] \in PageRecords
  BY <1>1 DEF Closed, PageRecords, Sharings
<1>5. [Closed EXCEPT !.phase = "editing", !.new = TRUE] \in PageRecords
  BY <1>1 DEF Closed, PageRecords, Sharings
<1>6. Unsent \in SaveRecords /\ Done \in SaveRecords
  BY <1>1 DEF Done, Unsent, SaveRecords, SavePhases, Sharings
<1>. QED
  BY <1>2, <1>3, <1>4, <1>5, <1>6

\* A page stays one, whatever copy fills it.
LEMMA SeededTyped ==
  ASSUME NEW p \in PageRecords, NEW c \in Copies PROVE Seeded(p, c) \in PageRecords
<1>1. /\ c.widgets \subseteq Widgets /\ c.sharing \in Sharings /\ c.shares \in Shares
  BY DEF Copies, Shares
<1>2. [p EXCEPT !.seeded = TRUE, !.sharing = c.sharing, !.shares = c.shares] \in PageRecords
  BY <1>1 DEF PageRecords
<1>3. ASSUME NEW q \in PageRecords
      PROVE  [q EXCEPT !.staged = c.widgets, !.meant = c.widgets] \in PageRecords
  BY <1>1, <1>3 DEF PageRecords
<1>4. PICK q : q = [p EXCEPT !.seeded = TRUE, !.sharing = c.sharing, !.shares = c.shares]
  OBVIOUS
<1>5. Seeded(p, c) = IF p.seeded THEN q ELSE [q EXCEPT !.staged = c.widgets, !.meant = c.widgets]
  BY <1>4 DEF Seeded
<1>6. q \in PageRecords
  BY <1>2, <1>4
<1>. QED
  BY <1>3, <1>5, <1>6

LEMMA OpenedTyped == EditorTypeOK => Opened \in PageRecords
<1>1. [Closed EXCEPT !.phase = "viewing"] \in PageRecords
  BY FreshRecords
<1>. QED
  BY <1>1, SeededTyped, EditorTypes DEF Opened

LEMMA PageTypeMoves ==
  ASSUME EditorTypeOK, [EditorNext]_editorVars PROVE page' \in PageRecords
<1>1. page \in PageRecords /\ fetch.copy \in Copies
  BY EditorTypes DEF FetchRecords
<1>2. CASE OpenPage \/ OpenNew \/ ClosePage
  BY <1>2, FreshRecords, OpenedTyped DEF OpenPage, OpenNew, ClosePage
<1>3. CASE FetchAnswers
  BY <1>1, <1>3, SeededTyped DEF FetchAnswers
<1>4. ASSUME NEW phase \in {"closed", "viewing", "editing"}, NEW staged \in SUBSET Widgets,
             NEW exiting \in SUBSET Widgets, NEW meant \in SUBSET Widgets,
             NEW lost \in SUBSET Widgets,
             page' = [phase |-> phase, new |-> page.new, seeded |-> page.seeded,
                      staged |-> staged, sharing |-> page.sharing,
                      exiting |-> exiting, meant |-> meant,
                      lost |-> lost, shares |-> page.shares]
      PROVE  page' \in PageRecords
  BY <1>1, <1>4 DEF PageRecords
<1>5. /\ page.staged \in SUBSET Widgets /\ page.exiting \in SUBSET Widgets
      /\ page.meant \in SUBSET Widgets /\ page.lost \in SUBSET Widgets
      /\ page.phase \in {"closed", "viewing", "editing"}
  BY <1>1 DEF PageRecords
<1>6. CASE PageFetchFails
  <2>1. CASE page' = page
    BY <1>1, <2>1
  <2>2. CASE page' = [page EXCEPT !.exiting = {}, !.lost = page.lost \cup page.exiting]
    <3>1. page' = [phase |-> page.phase, new |-> page.new, seeded |-> page.seeded,
                   staged |-> page.staged, sharing |-> page.sharing,
                   exiting |-> {}, meant |-> page.meant,
                   lost |-> page.lost \cup page.exiting, shares |-> page.shares]
      BY <1>1, <2>2 DEF PageRecords
    <3>. QED
      BY <1>4, <1>5, <3>1
  <2>. QED
    BY <1>6, <2>1, <2>2 DEF PageFetchFails
<1>7. CASE StartEditing
  BY <1>1, <1>7 DEF StartEditing, PageRecords
<1>8. CASE AnimationEnds
  <2>1. page' = [phase |-> page.phase, new |-> page.new, seeded |-> page.seeded,
                 staged |-> page.staged \ page.exiting, sharing |-> page.sharing,
                 exiting |-> {}, meant |-> page.meant,
                 lost |-> page.lost \ page.exiting, shares |-> page.shares]
    BY <1>1, <1>8 DEF AnimationEnds, PageRecords
  <2>2. /\ page.staged \ page.exiting \in SUBSET Widgets
        /\ page.lost \ page.exiting \in SUBSET Widgets
    BY <1>5
  <2>. QED
    BY <1>4, <1>5, <2>1, <2>2
<1>9. ASSUME NEW w \in Widgets, AddWidget(w) PROVE page' \in PageRecords
  <2>1. page' = [phase |-> page.phase, new |-> page.new, seeded |-> page.seeded,
                 staged |-> page.staged \cup {w}, sharing |-> page.sharing,
                 exiting |-> page.exiting, meant |-> page.meant \cup {w},
                 lost |-> page.lost, shares |-> page.shares]
    BY <1>1, <1>9 DEF AddWidget, PageRecords
  <2>. QED
    BY <1>4, <1>5, <2>1
<1>10. ASSUME NEW w \in Widgets, RemoveWidget(w) PROVE page' \in PageRecords
  <2>1. page' = [phase |-> page.phase, new |-> page.new, seeded |-> page.seeded,
                 staged |-> page.staged, sharing |-> page.sharing,
                 exiting |-> {w}, meant |-> page.meant \ {w},
                 lost |-> (page.lost \cup page.exiting) \ {w}, shares |-> page.shares]
    BY <1>1, <1>10 DEF RemoveWidget, PageRecords
  <2>. QED
    BY <1>4, <1>5, <2>1
<1>11. ASSUME NEW n \in SaveIds, SaveSucceeds(n) \/ OtherSucceeds(n) PROVE page' \in PageRecords
  <2>1. [page EXCEPT !.phase = "viewing"] \in PageRecords
    BY <1>1 DEF PageRecords
  <2>. QED
    BY <1>1, <1>11, <2>1, FreshRecords, OpenedTyped DEF SaveSucceeds, OtherSucceeds
<1>12. ASSUME page' # page
      PROVE  \/ OpenPage \/ OpenNew \/ ClosePage \/ PageFetchFails \/ FetchAnswers
             \/ StartEditing \/ AnimationEnds
             \/ \E w \in Widgets : AddWidget(w) \/ RemoveWidget(w)
             \/ \E n \in SaveIds : SaveSucceeds(n) \/ OtherSucceeds(n)
  BY <1>12
  DEF EditorNext, editorVars, Forget, FetchReads, Save, CheckSave, CommitSave, CommitElsewhere,
      ReadSaved, SaveFails, OthersSave, DeleteDashboard
<1>. QED
  BY <1>1, <1>2, <1>3, <1>6, <1>7, <1>8, <1>9, <1>10, <1>11, <1>12

LEMMA FetchTypeMoves ==
  ASSUME EditorTypeOK, [EditorNext]_editorVars PROVE fetch' \in FetchRecords /\ cache' \in Copies
<1>1. fetch \in FetchRecords /\ fetch.copy \in Copies /\ cache \in Copies /\ stored \in Copies
  BY EditorTypes DEF FetchRecords
<1>2. CASE OpenPage \/ FetchReads
  BY <1>1, <1>2 DEF OpenPage, FetchReads, FetchRecords
<1>3. CASE Forget \/ PageFetchFails \/ FetchAnswers
  BY <1>1, <1>3, FreshRecords DEF Forget, PageFetchFails, FetchAnswers
<1>4. ASSUME NEW n \in SaveIds, SaveSucceeds(n)
      PROVE  fetch' \in FetchRecords /\ cache' \in Copies
  <2>1. [fetch EXCEPT !.phase = "asked", !.copy = NoCopy] \in FetchRecords
    BY <1>1, FreshRecords DEF FetchRecords
  <2>. QED
    BY <1>1, <1>4, <2>1 DEF SaveSucceeds
<1>5. ASSUME cache' # cache PROVE Forget \/ FetchAnswers
  BY <1>5
  DEF EditorNext, editorVars, OpenPage, OpenNew, ClosePage, FetchReads, PageFetchFails,
      StartEditing, AddWidget, RemoveWidget, AnimationEnds, Save, CheckSave, CommitSave,
      CommitElsewhere, ReadSaved, SaveSucceeds, OtherSucceeds, SaveFails, OthersSave,
      DeleteDashboard
<1>6. ASSUME fetch' # fetch
      PROVE  \/ OpenPage \/ Forget \/ FetchReads \/ PageFetchFails \/ FetchAnswers
             \/ \E n \in SaveIds : SaveSucceeds(n)
  BY <1>6
  DEF EditorNext, editorVars, OpenNew, ClosePage, StartEditing, AddWidget, RemoveWidget,
      AnimationEnds, Save, CheckSave, CommitSave, CommitElsewhere, ReadSaved, OtherSucceeds,
      SaveFails, OthersSave, DeleteDashboard
<1>. QED
  BY <1>1, <1>2, <1>3, <1>4, <1>5, <1>6

\* A save's record stays one, and a spent save stays spent.
LEMMA SaveTypeMoves ==
  ASSUME EditorTypeOK, [EditorNext]_editorVars
  PROVE  saves' \in [SaveIds -> SaveRecords] /\ Spent \subseteq Spent'
<1>. DEFINE Goal == saves' \in [SaveIds -> SaveRecords] /\ Spent \subseteq Spent'
<1>1. saves \in [SaveIds -> SaveRecords] /\ page \in PageRecords
  BY EditorTypes
<1>2. ASSUME saves' \in [SaveIds -> SaveRecords],
             \A i \in SaveIds : \/ saves'[i].phase = saves[i].phase
                                \/ saves[i].phase \in {"unused", "sent", "checked"}
                                \/ saves'[i].phase \notin {"unused", "sent", "checked"}
      PROVE  Goal
  BY <1>2 DEF Spent
<1>3. ASSUME UNCHANGED saves PROVE Goal
  BY <1>1, <1>3 DEF Spent
<1>4. ASSUME NEW n \in SaveIds, NEW phase \in SavePhases, MoveTo(n, phase),
             \/ saves[n].phase \in {"unused", "sent", "checked"}
             \/ phase \notin {"unused", "sent", "checked"}
      PROVE  Goal
  <2>1. saves[n] \in SaveRecords /\ [saves[n] EXCEPT !.phase = phase] \in SaveRecords
    BY <1>1 DEF SaveRecords
  <2>2. saves' = [saves EXCEPT ![n] = [saves[n] EXCEPT !.phase = phase]]
    BY <1>4 DEF MoveTo
  <2>3. [saves[n] EXCEPT !.phase = phase].phase = phase
    BY <2>1 DEF SaveRecords
  <2>4. PICK r \in SaveRecords : r = [saves[n] EXCEPT !.phase = phase]
    BY <2>1
  <2>5. saves' = [saves EXCEPT ![n] = r] /\ r.phase = phase
    BY <2>2, <2>3, <2>4
  <2>. QED
    BY <1>1, <1>2, <1>4, <2>5
<1>5. \A i \in SaveIds : Orphaned(i) \in SaveRecords /\ Orphaned(i).phase = saves[i].phase
  <2>1. ASSUME NEW s \in SaveRecords, NEW b \in BOOLEAN
        PROVE  [s EXCEPT !.mine = b] \in SaveRecords /\ [s EXCEPT !.mine = b].phase = s.phase
    BY DEF SaveRecords
  <2>2. \A i \in SaveIds : saves[i] \in SaveRecords
    BY <1>1
  <2>. QED
    BY <2>1, <2>2 DEF Orphaned
<1>6. ASSUME \A i \in SaveIds : saves'[i] \in {saves[i], Orphaned(i), Done},
             saves' = [i \in SaveIds |-> saves'[i]]
      PROVE  Goal
  <2>1. Done.phase = "done" /\ Done \in SaveRecords
    BY FreshRecords DEF Done, Unsent
  <2>2. \A i \in SaveIds :
          saves'[i] \in SaveRecords /\ saves'[i].phase \in {saves[i].phase, "done"}
    BY <1>1, <1>5, <1>6, <2>1
  <2>3. saves' \in [SaveIds -> SaveRecords]
    BY <1>6, <2>2
  <2>. QED
    BY <1>2, <2>2, <2>3
<1>7. CASE ClosePage
  BY <1>6, <1>7 DEF ClosePage
<1>8. ASSUME NEW n \in SaveIds, SaveSucceeds(n) \/ OtherSucceeds(n) \/ SaveFails(n)
      PROVE  Goal
  BY <1>1, <1>6, <1>8 DEF SaveSucceeds, OtherSucceeds, SaveFails
<1>9. CASE Save
  <2>1. Unused # {} /\ Unused \subseteq SaveIds
    BY <1>9 DEF Save, Unused
  <2>2. PICK n \in Unused : n = (CHOOSE i \in Unused : TRUE)
    BY <2>1
  <2>3. PICK r : r = [phase |-> "sent", mine |-> TRUE, create |-> page.new,
                      widgets |-> page.staged, sharing |-> page.sharing,
                      shares |-> page.shares]
    OBVIOUS
  <2>4. saves' = [saves EXCEPT ![n] = r]
    BY <1>9, <2>2, <2>3 DEF Save
  <2>5. r \in SaveRecords
    <3>1. /\ page.new \in BOOLEAN /\ page.staged \in SUBSET Widgets
          /\ page.sharing \in Sharings /\ page.shares \in Shares
      BY <1>1 DEF PageRecords
    <3>. QED
      BY <2>3, <3>1 DEF SaveRecords, SavePhases
  <2>6. n \in SaveIds /\ saves[n].phase = "unused"
    BY <2>1 DEF Unused
  <2>. QED
    BY <1>1, <1>2, <2>4, <2>5, <2>6
<1>10. ASSUME NEW n \in SaveIds, CheckSave(n) PROVE Goal
  <2>1. PICK phase \in {"refused", "checked"} : MoveTo(n, phase)
    BY <1>10 DEF CheckSave
  <2>. QED
    BY <1>4, <1>10, <2>1 DEF CheckSave, SavePhases
<1>11. ASSUME NEW n \in SaveIds, CommitSave(n) \/ CommitElsewhere(n) \/ ReadSaved(n)
       PROVE  Goal
  <2>1. PICK phase \in {"committed", "other", "refused", "ok"} : MoveTo(n, phase)
    BY <1>11 DEF CommitSave, CommitElsewhere, ReadSaved
  <2>. QED
    BY <1>4, <2>1 DEF SavePhases
<1>12. ASSUME ~ UNCHANGED saves
       PROVE  \/ ClosePage \/ Save
              \/ \E n \in SaveIds :
                   \/ SaveSucceeds(n) \/ OtherSucceeds(n) \/ SaveFails(n) \/ CheckSave(n)
                   \/ CommitSave(n) \/ CommitElsewhere(n) \/ ReadSaved(n)
  BY <1>12
  DEF EditorNext, editorVars, OpenPage, OpenNew, Forget, FetchReads, PageFetchFails,
      FetchAnswers, StartEditing, AddWidget, RemoveWidget, AnimationEnds, OthersSave,
      DeleteDashboard
<1>. QED
  BY <1>3, <1>7, <1>8, <1>9, <1>10, <1>11, <1>12

\* The sets of spent saves are counted, and there are no more than saves.
LEMMA SpentIsFinite ==
  /\ IsFiniteSet(Spent) /\ Cardinality(Spent) \in Nat /\ Cardinality(Spent) <= MaxSaves
<1>1. IsFiniteSet(SaveIds) /\ Cardinality(SaveIds) = MaxSaves
  BY EditorAssumption, FS_Interval DEF SaveIds
<1>2. Spent \subseteq SaveIds
  BY DEF Spent
<1>. QED
  BY <1>1, <1>2, FS_Subset, FS_CardinalityType

LEMMA SpentStaysFinite ==
  (IsFiniteSet(Spent) /\ Cardinality(Spent) \in Nat /\ Cardinality(Spent) <= MaxSaves)'
BY SpentIsFinite, PTL

\* A change of the sharing is counted where it happens.
LEMMA StoredTypeMoves ==
  ASSUME EditorTyped, [EditorNext]_editorVars
  PROVE  /\ role' \in Roles /\ others' \in 0 .. MaxOthers
         /\ stored' \in Copies /\ SharesAreCounted'
<1>. USE EditorAssumption
<1>1. /\ role \in Roles /\ others \in 0 .. MaxOthers /\ stored \in Copies
      /\ stored.shares \in Nat /\ saves \in [SaveIds -> SaveRecords]
      /\ stored.shares <= others + Cardinality(Spent)
  BY EditorTypes DEF EditorTyped, Copies, SharesAreCounted
<1>2. /\ Cardinality(Spent) \in Nat /\ Cardinality(Spent') \in Nat
      /\ IsFiniteSet(Spent') /\ Cardinality(Spent') <= MaxSaves
  BY SpentIsFinite, SpentStaysFinite
<1>3. Spent \subseteq Spent' /\ Cardinality(Spent) <= Cardinality(Spent')
  BY <1>2, SaveTypeMoves, FS_Subset DEF EditorTyped
<1>4. role' = role
  BY DEF EditorNext, editorVars, OpenPage, OpenNew, ClosePage, Forget, FetchReads,
         PageFetchFails, FetchAnswers, StartEditing, AddWidget, RemoveWidget, AnimationEnds,
         Save, CheckSave, CommitSave, CommitElsewhere, ReadSaved, SaveSucceeds, OtherSucceeds,
         SaveFails, OthersSave, DeleteDashboard
<1>5. ASSUME stored' = stored, others' = others
      PROVE  others' \in 0 .. MaxOthers /\ stored' \in Copies /\ SharesAreCounted'
  BY <1>1, <1>2, <1>3, <1>5 DEF SharesAreCounted
<1>6. ASSUME NEW widgets \in SUBSET Widgets, NEW sharing \in Sharings,
             Replaced(widgets, sharing), others' \in 0 .. MaxOthers,
             others + Cardinality(Spent) + 1 <= others' + Cardinality(Spent')
      PROVE  stored' \in Copies /\ SharesAreCounted'
  <2>1. /\ stored' = [state |-> "live", widgets |-> widgets, sharing |-> sharing,
                      shares |-> stored'.shares]
        /\ stored'.shares \in Nat /\ stored'.shares <= stored.shares + 1
    BY <1>1, <1>6 DEF Replaced
  <2>2. /\ stored'.shares <= others' + Cardinality(Spent')
        /\ stored'.shares \in 0 .. MaxOthers + MaxSaves
    BY <1>1, <1>2, <1>6, <2>1
  <2>. QED
    BY <2>1, <2>2 DEF Copies, SharesAreCounted
<1>7. ASSUME NEW n \in SaveIds, CommitSave(n)
      PROVE  others' \in 0 .. MaxOthers /\ stored' \in Copies /\ SharesAreCounted'
  <2>1. /\ saves[n].widgets \in SUBSET Widgets /\ saves[n].sharing \in Sharings
        /\ saves[n] \in SaveRecords
    BY <1>1 DEF SaveRecords
  <2>2. /\ Granted(saves[n].sharing) \in Sharings
        /\ Replaced(saves[n].widgets, Granted(saves[n].sharing))
        /\ others' = others /\ MoveTo(n, "committed") /\ saves[n].phase = "checked"
    BY <1>7, <2>1 DEF CommitSave, Granted, Sharings
  <2>3. n \notin Spent /\ n \in Spent'
    BY <1>1, <2>1, <2>2 DEF Spent, MoveTo, SaveRecords
  <2>4. Cardinality(Spent) + 1 <= Cardinality(Spent')
    <3>1. Spent \in SUBSET Spent' /\ Spent # Spent'
      BY <1>3, <2>3
    <3>2. Cardinality(Spent) # Cardinality(Spent')
      BY <1>2, <3>1, FS_Subset
    <3>. QED
      BY <1>2, <1>3, <3>2
  <2>5. others + Cardinality(Spent) + 1 <= others' + Cardinality(Spent')
    BY <1>1, <1>2, <2>2, <2>4
  <2>. QED
    BY <1>1, <1>6, <2>1, <2>2, <2>5
<1>8. ASSUME NEW widgets \in SUBSET Widgets, NEW sharing \in Sharings,
             OthersSave(widgets, sharing)
      PROVE  others' \in 0 .. MaxOthers /\ stored' \in Copies /\ SharesAreCounted'
  <2>1. others' \in 0 .. MaxOthers /\ others' = others + 1 /\ Replaced(widgets, sharing)
    BY <1>1, <1>8 DEF OthersSave
  <2>2. others + Cardinality(Spent) + 1 <= others' + Cardinality(Spent')
    BY <1>1, <1>2, <1>3, <2>1
  <2>. QED
    BY <1>6, <2>1, <2>2
<1>9. CASE DeleteDashboard
  <2>1. /\ stored' = [NoCopy EXCEPT !.state = "deleted"] /\ others' = others
        /\ stored'.shares = 0
    BY <1>9 DEF DeleteDashboard, NoCopy
  <2>2. stored' \in Copies
    BY <2>1, FreshRecords
  <2>3. 0 <= others' + Cardinality(Spent')
    BY <1>1, <1>2, <2>1
  <2>4. SharesAreCounted'
    BY <2>1, <2>3 DEF SharesAreCounted
  <2>5. others' \in 0 .. MaxOthers
    BY <1>1, <1>9 DEF DeleteDashboard
  <2>6. role' \in Roles
    BY <1>1, <1>4
  <2>. QED
    BY <2>2, <2>4, <2>5, <2>6
<1>10. ASSUME stored' # stored \/ others' # others
       PROVE  \/ \E n \in SaveIds : CommitSave(n)
              \/ \E widgets \in SUBSET Widgets, sharing \in Sharings : OthersSave(widgets, sharing)
              \/ DeleteDashboard
  BY <1>10
  DEF EditorNext, editorVars, OpenPage, OpenNew, ClosePage, Forget, FetchReads, PageFetchFails,
      FetchAnswers, StartEditing, AddWidget, RemoveWidget, AnimationEnds, Save, CheckSave,
      CommitElsewhere, ReadSaved, SaveSucceeds, OtherSucceeds, SaveFails
<1>. QED
  BY <1>1, <1>4, <1>5, <1>7, <1>8, <1>9, <1>10

LEMMA EditorTypesStep == EditorTyped /\ [EditorNext]_editorVars => EditorTyped'
<1>1. EditorTyped /\ [EditorNext]_editorVars =>
        /\ (role \in Roles)' /\ (others \in 0 .. MaxOthers)' /\ (stored \in Copies)'
        /\ (cache \in Copies)' /\ (fetch \in FetchRecords)' /\ (page \in PageRecords)'
        /\ (saves \in [SaveIds -> SaveRecords])' /\ SharesAreCounted'
  BY StoredTypeMoves, FetchTypeMoves, PageTypeMoves, SaveTypeMoves DEF EditorTyped
<1>2. (role \in Roles /\ others \in 0 .. MaxOthers /\ stored \in Copies /\ cache \in Copies
       /\ fetch \in FetchRecords /\ page \in PageRecords
       /\ saves \in [SaveIds -> SaveRecords])' => EditorTypeOK'
  BY EditorTypes, PTL
<1>. QED
  BY <1>1, <1>2 DEF EditorTyped

LEMMA EditorTypesInit == EditorInit => EditorTyped
<1>. SUFFICES ASSUME EditorInit PROVE EditorTyped
  OBVIOUS
<1>1. stored \in Copies /\ stored.shares = 0
  <2>1. PICK w \in Widgets : w = (CHOOSE x \in Widgets : TRUE)
    BY EditorAssumption
  <2>2. CASE stored = NoCopy
    BY <2>2, FreshRecords DEF NoCopy
  <2>3. CASE stored \in [state : {"live"}, widgets : {{w}}, sharing : {"own"}, shares : {0}]
    BY <2>1, <2>3, EditorAssumption DEF Copies, Sharings
  <2>. QED
    BY <2>1, <2>2, <2>3 DEF EditorInit
<1>2. /\ role \in Roles /\ others \in 0 .. MaxOthers /\ others = 0
      /\ cache \in Copies /\ fetch \in FetchRecords /\ page \in PageRecords
      /\ saves \in [SaveIds -> SaveRecords]
  BY FreshRecords, EditorAssumption DEF EditorInit
<1>3. SharesAreCounted
  BY <1>1, <1>2, SpentIsFinite DEF SharesAreCounted
<1>. QED
  BY <1>1, <1>2, <1>3, EditorTypes DEF EditorTyped

\* The dashboard, the tab's copies of it and the requests keep their types, however often it
\* is saved; its sharing changes no more often than it is saved (dashboards.service.ts:137).
THEOREM EditorTypeInvariant == EditorSpec => []EditorTypeOK
<1>1. EditorTyped => EditorTypeOK
  BY DEF EditorTyped
<1>. QED
  BY <1>1, EditorTypesInit, EditorTypesStep, PTL DEF EditorSpec

-----------------------------------------------------------------------------
(* The application: a behaviour of the whole is a behaviour of every part. *)
(* A step is one part's and leaves the variables of the others, so what is *)
(* proved of each part holds of the whole.                                 *)

LEMMA StartsAreParts ==
  Init => /\ CacheInit /\ AccessInit /\ WalkInit /\ SessionInit /\ UsersInit /\ EditorInit
          /\ PanelInit /\ ConsoleInit /\ WizardInit /\ CellsInit /\ PageInit
BY DEF Init

LEMMA StepsAreParts ==
  [Next]_vars =>
    /\ [CacheNext]_cacheVars /\ [AccessNext]_accessVars /\ [WalkNext]_walkVars
    /\ [SessionNext]_sessionVars /\ [UsersNext]_users /\ [EditorNext]_editorVars
    /\ [PanelNext]_panelVars /\ [ConsoleNext]_consoleVars /\ [WizardNext]_wizardVars
    /\ [CellsNext]_cellVars /\ [PageNext]_pageVars
BY DEF Next, vars

(* Every part runs by its own specification: the whole adds no step of its *)
(* own to any of them.                                                     *)
THEOREM PartsImplemented ==
  Spec => /\ CacheSpec /\ AccessSpec /\ WalkSpec /\ SessionSpec /\ UsersSpec /\ EditorSpec
          /\ PanelSpec /\ ConsoleSpec /\ WizardSpec /\ CellsSpec /\ PageSpec
<1>1. Spec => CacheSpec
  <2>1. /\ Init => CacheInit
        /\ [Next]_vars => [CacheNext]_cacheVars
    BY StartsAreParts, StepsAreParts
  <2>. QED
    BY <2>1, PTL DEF Spec, CacheSpec
<1>2. Spec => AccessSpec
  <2>1. /\ Init => AccessInit
        /\ [Next]_vars => [AccessNext]_accessVars
    BY StartsAreParts, StepsAreParts
  <2>. QED
    BY <2>1, PTL DEF Spec, AccessSpec
<1>3. Spec => WalkSpec
  <2>1. /\ Init => WalkInit
        /\ [Next]_vars => [WalkNext]_walkVars
    BY StartsAreParts, StepsAreParts
  <2>. QED
    BY <2>1, PTL DEF Spec, WalkSpec
<1>4. Spec => SessionSpec
  <2>1. /\ Init => SessionInit
        /\ [Next]_vars => [SessionNext]_sessionVars
    BY StartsAreParts, StepsAreParts
  <2>. QED
    BY <2>1, PTL DEF Spec, SessionSpec
<1>5. Spec => UsersSpec
  <2>1. /\ Init => UsersInit
        /\ [Next]_vars => [UsersNext]_users
    BY StartsAreParts, StepsAreParts
  <2>. QED
    BY <2>1, PTL DEF Spec, UsersSpec
<1>6. Spec => EditorSpec
  <2>1. /\ Init => EditorInit
        /\ [Next]_vars => [EditorNext]_editorVars
    BY StartsAreParts, StepsAreParts
  <2>. QED
    BY <2>1, PTL DEF Spec, EditorSpec
<1>7. Spec => PanelSpec
  <2>1. /\ Init => PanelInit
        /\ [Next]_vars => [PanelNext]_panelVars
    BY StartsAreParts, StepsAreParts
  <2>. QED
    BY <2>1, PTL DEF Spec, PanelSpec
<1>8. Spec => ConsoleSpec
  <2>1. /\ Init => ConsoleInit
        /\ [Next]_vars => [ConsoleNext]_consoleVars
    BY StartsAreParts, StepsAreParts
  <2>. QED
    BY <2>1, PTL DEF Spec, ConsoleSpec
<1>9. Spec => WizardSpec
  <2>1. /\ Init => WizardInit
        /\ [Next]_vars => [WizardNext]_wizardVars
    BY StartsAreParts, StepsAreParts
  <2>. QED
    BY <2>1, PTL DEF Spec, WizardSpec
<1>10. Spec => CellsSpec
  <2>1. /\ Init => CellsInit
        /\ [Next]_vars => [CellsNext]_cellVars
    BY StartsAreParts, StepsAreParts
  <2>. QED
    BY <2>1, PTL DEF Spec, CellsSpec
<1>11. Spec => PageSpec
  <2>1. /\ Init => PageInit
        /\ [Next]_vars => [PageNext]_pageVars
    BY StartsAreParts, StepsAreParts
  <2>. QED
    BY <2>1, PTL DEF Spec, PageSpec
<1>. QED
  BY <1>1, <1>2, <1>3, <1>4, <1>5, <1>6, <1>7, <1>8, <1>9, <1>10, <1>11, PTL

(* Whatever part runs, its variables have their types.                     *)
THEOREM ApplicationTypeInvariant == Spec => []ApplicationTypeOK
<1>1. SessionSpec => []SessionTypeOK
  <2>1. SessionInductive => SessionTypeOK
    BY DEF SessionInductive
  <2>. QED
    BY <2>1, SessionInitInv, SessionNextInv, PTL DEF SessionSpec
<1>2. UsersSpec => []UsersTypeOK
  <2>1. UsersInductive => UsersTypeOK
    BY DEF UsersInductive
  <2>. QED
    BY <2>1, UsersInitInv, UsersNextInv, PTL DEF UsersSpec
<1>3. PageSpec => []PageTypeOK
  <2>1. PageInductive => PageTypeOK
    BY DEF PageInductive, PageTypes, HandlerIsFirst, PageTypeOK
  <2>. QED
    BY <2>1, PageInitInv, PageNextInv, PTL DEF PageSpec
<1>4. CacheTypeOK /\ AccessTypeOK /\ WalkTypeOK /\ SessionTypeOK /\ UsersTypeOK /\ EditorTypeOK
        /\ PanelTypeOK /\ ConsoleTypeOK /\ WizardTypeOK /\ CellsTypeOK /\ PageTypeOK
      => ApplicationTypeOK
  BY DEF ApplicationTypeOK
<1>. QED
  BY <1>1, <1>2, <1>3, <1>4, PartsImplemented, CacheTypeInvariant, AccessTypesOK,
     WalkTypeInvariant, EditorTypeInvariant, PanelTypeInvariant, ConsoleTypeInvariant,
     WizardTypeInvariant, CellsTypeInvariant, PTL

(* However creations of users overlap, fail half-way or meet a deletion in *)
(* the whole, an answered one made an account that works                   *)
(* (users.service.ts:19-51).                                               *)
THEOREM AccountsAlwaysWork == Spec => []AccountsWork
<1>. QED
  BY PartsImplemented, UsersAccountsWork, PTL

(* No step of the whole moves a device outside the scope of who asked,     *)
(* drops a session that is alive without a reason, or takes back a sharing *)
(* the page did not touch.                                                 *)
THEOREM NothingIsUndone == Spec => NothingUndone
<1>1. ScopedMoves /\ LiveSessionKept /\ SharingKept => NothingUndone
  BY DEF NothingUndone
<1>. QED
  BY <1>1, PartsImplemented, MovesAreScoped, LiveSessionsAreKept, EditorKeepsSharing, PTL

(* The cells' algorithms agree with what they are for on every sample the  *)
(* constants allow: the sample under test is chosen once and stays.        *)
THEOREM AlgorithmsAlwaysAgree == Spec => []AlgorithmsAgree
<1>1. Init => AlgorithmsAgree
  <2>. SUFFICES ASSUME Init PROVE AlgorithmsAgree
    OBVIOUS
  <2>1. CASE part = "algorithms"
    <3>1. AlgorithmsInit
      BY <2>1 DEF Init
    <3>. QED
      BY <3>1, SamplesAgree
  <2>2. CASE part # "algorithms"
    <3>1. sample = [use |-> "interval", span |-> 0]
      BY <2>2 DEF Init
    <3>2. IntervalFits(0, IntervalFor(0))
      BY BucketsFit
    <3>. QED
      BY <3>1, <3>2 DEF AlgorithmsAgree
  <2>. QED
    BY <2>1, <2>2
<1>2. AlgorithmsAgree /\ [Next]_vars => AlgorithmsAgree'
  <2>1. [Next]_vars => sample' = sample
    BY DEF Next, vars
  <2>2. sample' = sample => AlgorithmsAgree' = AlgorithmsAgree
    BY DEF AlgorithmsAgree
  <2>. QED
    BY <2>1, <2>2
<1>. QED
  BY <1>1, <1>2, PTL DEF Spec

(* Every part stays safe in the whole: each safety invariant of a part     *)
(* holds in every behaviour of the application.                            *)
THEOREM ApplicationIsSafe ==
  Spec => [](CacheSafe /\ HandlersAreGuarded /\ LostUpdateOnlyByOverlap /\ WalkSafe /\ SessionSafe
             /\ EditsKept /\ PanelSafe /\ ConsoleSafe /\ AccountsWork /\ CellsSafe /\ PageSafe
             /\ AlgorithmsAgree)
<1>. QED
  BY PartsImplemented, CachesAreSafe, AccessIsGuarded, UpdatesAreKept, WalkIsSafe, SessionsAreSafe,
     EditorKeepsEdits, PanelsAreSafe, ConsoleIsSafe, AccountsAlwaysWork, CellsAreSafe, PageIsSafe,
     AlgorithmsAlwaysAgree, PTL

=============================================================================
