----------------------------- MODULE EntityPage -----------------------------
(***************************************************************************)
(* One visit of /entities/:id: the telemetry tile of the selected key,     *)
(* seeded from REST snapshots, the socket of useLiveTelemetry that is to   *)
(* take over from them, and the alarm rows made of a REST list and of the  *)
(* frames of useLiveAlarms (app/entities/[id]/page.tsx).                   *)
(*                                                                         *)
(* Readings of a key are numbered by their timestamps; an alarm is a model *)
(* value with a status that counts its changes.                            *)
(***************************************************************************)
EXTENDS Naturals, Sequences, FiniteSets

CONSTANTS
  PageKeys,    \* telemetry keys the entity reports
  NoPageKey,   \* no key selected yet
  Alarms,      \* alarms the entity can raise
  MaxReadings, \* bound: readings per key, and changes per alarm
  MaxFrames    \* bound: frames under way on a socket

ASSUME PageAssumption ==
  NoPageKey \notin PageKeys /\ MaxReadings \in Nat \ {0} /\ MaxFrames \in Nat

VARIABLES
  reading,   \* the backend: the newest reading of each key
  alarm,     \* the backend: how often each alarm changed, 0 if it was never raised
  keysKnown, \* the query of the telemetry keys has answered
  selected,  \* selectedKey
  snapshot,  \* the query cache: the latest reading fetched per key, 0 if none
  asking,    \* per key: the request under way, with the reading the backend served
  shown,     \* liveValue: its key and reading, or nothing
  handler,   \* the selectedKey the message handler of the telemetry socket closed over
  frames,    \* telemetry frames under way, [key, at]
  base,      \* the fetched alarms, with their status; {} before the answer
  live,      \* liveAlarms, newest first
  rings,     \* alarm frames under way
  heard      \* history: per key the newest frame delivered with no request under way,
             \* and the alarms delivered

pageVars == <<reading, alarm, keysKnown, selected, snapshot, asking, shown, handler,
              frames, base, live, rings, heard>>

NothingShown == [key |-> NoPageKey, at |-> 0]
NotAsking == [phase |-> "no", at |-> 0]

PageInit ==
  /\ reading \in [PageKeys -> 0..1]
  /\ alarm = [a \in Alarms |-> 0]
  /\ keysKnown = FALSE
  /\ selected = NoPageKey
  /\ snapshot = [k \in PageKeys |-> 0]
  /\ asking = [k \in PageKeys |-> NotAsking]
  /\ shown = NothingShown
  /\ handler = selected          \* the effect runs once per entity, after the first render
  /\ frames = <<>>
  /\ base = {}
  /\ live = <<>>
  /\ rings = <<>>
  /\ heard = [at |-> [k \in PageKeys |-> 0], alarms |-> {}]

(***************************************************************************)
(* The entity and the backend                                              *)
(***************************************************************************)
\* A device writes a reading; the gateway streams it if a frame fits.
Report(k) ==
  /\ reading[k] < MaxReadings
  /\ Len(frames) < MaxFrames
  /\ reading' = [reading EXCEPT ![k] = @ + 1]
  /\ frames' = Append(frames, [key |-> k, at |-> reading[k] + 1])
  /\ UNCHANGED <<alarm, keysKnown, selected, snapshot, asking, shown, handler, base, live,
                 rings, heard>>

\* An alarm is raised or changes its status: the gateway polls and sends it.
Ring(a) ==
  /\ alarm[a] < MaxReadings
  /\ Len(rings) < MaxFrames
  /\ alarm' = [alarm EXCEPT ![a] = @ + 1]
  /\ rings' = Append(rings, [of |-> a, status |-> alarm[a] + 1])
  /\ UNCHANGED <<reading, keysKnown, selected, snapshot, asking, shown, handler, frames, base,
                 live, heard>>

(***************************************************************************)
(* The page's queries                                                      *)
(***************************************************************************)
\* a bug: the tile keeps the last key's reading until the new one arrives
Seeding_notCleared(k) == IF snapshot[k] > 0 THEN [key |-> k, at |-> snapshot[k]] ELSE shown
\* What the two effects on selectedKey leave: the tile is cleared, then seeded from the
\* cached snapshot of the new key if there is one; useTelemetryLatest starts a request.
Seeding(k) == IF snapshot[k] > 0 THEN [key |-> k, at |-> snapshot[k]] ELSE NothingShown

Selects(k) ==
  /\ selected' = k
  /\ shown' = Seeding(k)
  /\ asking' = [asking EXCEPT ![k] = IF @ = NotAsking THEN [phase |-> "sent", at |-> 0] ELSE @]

\* The keys arrive: the first one is selected unless the user was faster.
KeysArrive ==
  /\ ~ keysKnown
  /\ keysKnown' = TRUE
  /\ \E k \in PageKeys : Selects(k)
  /\ UNCHANGED <<reading, alarm, snapshot, handler, frames, base, live, rings, heard>>

SelectKey(k) ==
  /\ keysKnown /\ k # selected
  /\ Selects(k)
  /\ UNCHANGED <<reading, alarm, keysKnown, snapshot, handler, frames, base, live, rings, heard>>

ServeLatest(k) ==
  /\ asking[k].phase = "sent"
  /\ asking' = [asking EXCEPT ![k] = [phase |-> "served", at |-> reading[k]]]
  /\ UNCHANGED <<reading, alarm, keysKnown, selected, snapshot, shown, handler, frames, base,
                 live, rings, heard>>

\* The answer is cached for its key; the seed effect runs only when that key is selected
\* and its data changed.
LatestArrives(k) ==
  /\ asking[k].phase = "served"
  /\ asking' = [asking EXCEPT ![k] = NotAsking]
  /\ snapshot' = [snapshot EXCEPT ![k] = asking[k].at]
  /\ shown' = IF k = selected /\ asking[k].at # snapshot[k]
              THEN [key |-> k, at |-> asking[k].at] ELSE shown
  /\ UNCHANGED <<reading, alarm, keysKnown, selected, handler, frames, base, live, rings, heard>>

LatestFails(k) ==
  /\ asking[k].phase = "sent"
  /\ asking' = [asking EXCEPT ![k] = NotAsking]
  /\ UNCHANGED <<reading, alarm, keysKnown, selected, snapshot, shown, handler, frames, base,
                 live, rings, heard>>

AlarmsArrive ==
  /\ base' = {[of |-> a, status |-> alarm[a]] : a \in {b \in Alarms : alarm[b] > 0}}
  /\ base' # base /\ base = {}
  /\ UNCHANGED <<reading, alarm, keysKnown, selected, snapshot, asking, shown, handler, frames,
                 live, rings, heard>>

(***************************************************************************)
(* The sockets                                                             *)
(***************************************************************************)
\* The handler of the telemetry frames: it returns unless the key it closed over is set
\* and the frame carries it.
FrameArrives ==
  /\ frames # <<>>
  /\ LET f == Head(frames) IN
       /\ shown' = IF handler # NoPageKey /\ f.key = handler THEN f ELSE shown
       /\ heard' = [heard EXCEPT !.at[f.key] = IF asking[f.key] = NotAsking THEN f.at ELSE @]
  /\ frames' = Tail(frames)
  /\ UNCHANGED <<reading, alarm, keysKnown, selected, snapshot, asking, handler, base, live,
                 rings>>

\* useLiveAlarms: setLiveAlarms(prev => [alarm, ...prev])
Prepended(r) == <<r>> \o live

RingArrives ==
  /\ rings # <<>>
  /\ live' = Prepended(Head(rings))
  /\ heard' = [heard EXCEPT !.alarms = @ \cup {Head(rings).of}]
  /\ rings' = Tail(rings)
  /\ UNCHANGED <<reading, alarm, keysKnown, selected, snapshot, asking, shown, handler, frames,
                 base>>

PageNext ==
  \/ \E k \in PageKeys : \/ Report(k) \/ SelectKey(k)
                         \/ ServeLatest(k) \/ LatestArrives(k) \/ LatestFails(k)
  \/ \E a \in Alarms : Ring(a)
  \/ KeysArrive \/ AlarmsArrive \/ FrameArrives \/ RingArrives

PageSpec == PageInit /\ [][PageNext]_pageVars

(***************************************************************************)
(* Properties                                                              *)
(***************************************************************************)
\* alarmRows: the live alarms the fetched list does not have, then the fetched ones
AlarmRows ==
  {live[i] : i \in {j \in DOMAIN live : live[j].of \notin {b.of : b \in base}}} \cup base

\* Every variable has its type.
PageTypeOK ==
  /\ reading \in [PageKeys -> 0..MaxReadings]
  /\ alarm \in [Alarms -> 0..MaxReadings]
  /\ selected \in PageKeys \cup {NoPageKey}
  /\ handler \in PageKeys \cup {NoPageKey}
  /\ snapshot \in [PageKeys -> 0..MaxReadings]
  /\ shown \in [key : PageKeys \cup {NoPageKey}, at : 0..MaxReadings]
  /\ Len(frames) <= MaxFrames /\ Len(rings) <= MaxFrames

\* The tile never shows another key's reading, whatever answers arrive late after the user
\* changed the key, and never one the device did not report (the effects at page.tsx:75-87).
ValueOfSelected ==
  shown # NothingShown => shown.key = selected /\ shown.at <= reading[shown.key]

\* No alarm the socket delivered is missing from the rows, whether the fetched list came
\* before or after its frame (page.tsx:105-123).
DeliveredAlarmsListed == heard.alarms \subseteq {r.of : r \in AlarmRows}

\* What page.tsx:83 says: live frames take over from the snapshot.  The code's handler is
\* the first render's, whose selectedKey is undefined, and it ignores every frame.
LiveFramesTakeOver ==
  selected # NoPageKey /\ shown.key = selected /\ asking[selected] = NotAsking
    => shown.at >= heard.at[selected]

(* Both together: the value shown is one of the key selected, and an alarm *)
(* the page was told of is listed.                                         *)
PageSafe == ValueOfSelected /\ DeliveredAlarmsListed
=============================================================================
