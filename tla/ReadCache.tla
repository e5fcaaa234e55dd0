----------------------------- MODULE ReadCache -----------------------------
(***************************************************************************)
(* The read-through caches of the backend.  Each reads Redis, fetches from *)
(* ThingsBoard on a miss and stores what it fetched; each write changes    *)
(* ThingsBoard first and drops the cached keys afterwards.                 *)
(*   "latest"     telemetry.service.ts: shared fetches, never invalidated  *)
(*   "attributes" attributes.service.ts: several keys, dropped by a sweep  *)
(*   "scope"      entities.service.ts: descendant sets, dropped by a sweep *)
(*   "name"       entity-ref-resolver.ts: one key, tombstones for absent   *)
(* What is cached is the version of the data it was computed from.  A scope*)
(* and a name are looked for in pages of all customers, which may change   *)
(* between two of them.  A TTL is an expiry that may happen at any time; a *)
(* call to Redis or to ThingsBoard may fail before or after its effect.    *)
(***************************************************************************)
EXTENDS Naturals

CONSTANTS Readers,   \* reads under way at a time
          MaxVersion \* BOUND: changes of the data

NoReader == "none"

ASSUME CacheAssumption == MaxVersion \in Nat \ {0} /\ NoReader \notin Readers

Kinds == {"latest", "attributes", "scope", "name"}
Keys == {"all", "some"}   \* the whole set and one selection of keys
Absent == 0               \* no such customer; in the cache, the tombstone
NoEntry == MaxVersion + 1
Torn == MaxVersion + 2    \* a set that was in no version: pages read at different times

VARIABLES
    kind,      \* which of the caches
    version,   \* the data in ThingsBoard
    cached,    \* what Redis holds under each key
    leader,    \* RedisService.inflight: whose fetch of a key others share
    reader,    \* each read
    writer,    \* the write under way, and the keys its sweep still has to drop
    overtaken, \* history: what the entry holds was out of date when it was stored
    unswept,   \* history: the entry outlived a write that failed after its effect
    rowsMoved  \* history: a customer was deleted between two pages of a read

cacheVars == <<kind, version, cached, leader, reader, writer, overtaken, unswept, rowsMoved>>

KeysOf(k) == IF k = "attributes" THEN Keys ELSE {"all"}
Paged == kind \in {"scope", "name"}
Idle0 == [phase |-> "idle", key |-> "all", value |-> NoEntry]

CacheInit ==
    /\ kind \in Kinds
    /\ version \in (IF kind = "name" THEN {Absent, 1} ELSE {1})
    /\ cached = [k \in Keys |-> NoEntry]
    /\ leader = [k \in Keys |-> NoReader]
    /\ reader = [r \in Readers |-> Idle0]
    /\ writer = [phase |-> "idle", left |-> {}]
    /\ overtaken = {} /\ unswept = {} /\ rowsMoved = FALSE

ReaderMoves(r, phase, key, value) ==
    reader' = [reader EXCEPT ![r] = [phase |-> phase, key |-> key, value |-> value]]

UpstreamKept == UNCHANGED <<kind, version, writer, rowsMoved>>
EntriesKept == UNCHANGED <<cached, overtaken, unswept>>
Puts(k, value) ==
    /\ cached' = [cached EXCEPT ![k] = value]
    /\ overtaken' = IF value = version THEN overtaken \ {k} ELSE overtaken \cup {k}
    /\ unswept' = unswept \ {k}
Drops(k) ==
    /\ cached' = [cached EXCEPT ![k] = NoEntry]
    /\ overtaken' = overtaken \ {k} /\ unswept' = unswept \ {k}

\* The cached value is served, or the miss is noticed; Redis may fail.
Lookup(r) ==
    /\ reader[r].phase = "idle"
    /\ \E k \in KeysOf(kind) :
         \/ cached[k] # NoEntry /\ ReaderMoves(r, "served", k, cached[k])
         \/ cached[k] = NoEntry /\ ReaderMoves(r, "miss", k, NoEntry)
         \/ ReaderMoves(r, "failed", k, NoEntry)
    /\ UpstreamKept /\ EntriesKept /\ UNCHANGED leader

\* redis.single() for the latest values; every other cache fetches for itself.
Begin(r) ==
    /\ reader[r].phase = "miss"
    /\ LET k == reader[r].key IN
       IF kind = "latest" /\ leader[k] # NoReader
       THEN ReaderMoves(r, "join", k, NoEntry) /\ UNCHANGED leader
       ELSE /\ ReaderMoves(r, "fetch", k, NoEntry)
            /\ leader' = IF kind = "latest" THEN [leader EXCEPT ![k] = r] ELSE leader
    /\ UpstreamKept /\ EntriesKept

\* fetchAllPages: a first page, and later the rest.
FetchFirst(r) ==
    /\ reader[r].phase = "fetch" /\ Paged
    /\ ReaderMoves(r, "page", reader[r].key, version)
    /\ UpstreamKept /\ EntriesKept /\ UNCHANGED leader

\* What a read finds: a name is on one of the pages, unless the rows moved up and it is on
\* none; a set is put together from all of them.
Found(r) ==
    CASE ~Paged -> {version}
      [] kind = "scope" -> {reader[r].value, version} \cup
                           (IF reader[r].value = version THEN {} ELSE {Torn})
      [] kind = "name" -> {reader[r].value, version} \cup
                          (IF reader[r].phase = "shifted" THEN {Absent} ELSE {})

\* ThingsBoard has answered.  Only a name can be missing there.
FetchOk(r) ==
    /\ reader[r].phase \in (IF Paged THEN {"page", "shifted"} ELSE {"fetch"})
    /\ \E value \in Found(r) : ReaderMoves(r, "store", reader[r].key, value)
    /\ UpstreamKept /\ EntriesKept /\ UNCHANGED leader

Joined(r) == {s \in Readers : /\ leader[reader[r].key] = r
                              /\ reader[s].phase = "join" /\ reader[s].key = reader[r].key}

\* What r waited for settles: so does every read that shares it.
SettleRead(r, phase, value) ==
    /\ reader' = [s \in Readers |-> IF s \in Joined(r) \cup {r}
                    THEN [reader[s] EXCEPT !.phase = phase, !.value = value] ELSE reader[s]]
    /\ leader' = [k \in Keys |-> IF leader[k] = r THEN NoReader ELSE leader[k]]

Store(r) ==
    /\ reader[r].phase = "store"
    /\ Puts(reader[r].key, reader[r].value)
    /\ SettleRead(r, "served", reader[r].value)
    /\ UpstreamKept

\* The read fails with its SET, whether or not Redis has stored the value.
StoreFails(r) ==
    /\ reader[r].phase = "store"
    /\ Puts(reader[r].key, reader[r].value) \/ EntriesKept
    /\ SettleRead(r, "failed", NoEntry)
    /\ UpstreamKept

\* An outage is never cached; a name that cannot be resolved is left out.
FetchFails(r) ==
    /\ reader[r].phase \in {"fetch", "page", "shifted"}
    /\ SettleRead(r, "failed", NoEntry)
    /\ UpstreamKept /\ EntriesKept

\* An entity without telemetry keys: nothing to ask for, and nothing is cached.
NoKeysReported(r) ==
    /\ reader[r].phase = "fetch" /\ kind = "latest"
    /\ SettleRead(r, "served", NoEntry)
    /\ UpstreamKept /\ EntriesKept

Return(r) ==
    /\ reader[r].phase \in {"served", "failed"}
    /\ reader' = [reader EXCEPT ![r] = Idle0]
    /\ UpstreamKept /\ EntriesKept /\ UNCHANGED leader

-----------------------------------------------------------------------------
CachesKept == UNCHANGED <<kind, leader, reader, rowsMoved>>
Writes ==
    /\ writer.phase = "idle" /\ kind # "latest" /\ version \in 1 .. (MaxVersion - 1)
    /\ version' = version + 1

WriteUpstream_unswept ==
    /\ Writes
    /\ UNCHANGED writer /\ EntriesKept /\ CachesKept

\* setAttributes, createCustomer, deleteCustomer, updateCustomer: ThingsBoard first.
WriteUpstream ==
    /\ Writes
    /\ writer' = [phase |-> "written", left |-> {}]
    /\ EntriesKept /\ CachesKept

\* The request throws after ThingsBoard took it: nothing is swept.
WriteFails ==
    /\ Writes
    /\ unswept' = unswept \cup {k \in Keys : cached[k] # NoEntry}
    /\ UNCHANGED <<writer, cached, overtaken>> /\ CachesKept

\* SCAN finds at least the keys that are there from its start to its end.
StartSweep ==
    /\ writer.phase = "written"
    /\ writer' = [phase |-> "sweep", left |-> {k \in Keys : cached[k] # NoEntry}]
    /\ UNCHANGED version /\ EntriesKept /\ CachesKept

Unlink(k) ==
    /\ writer.phase = "sweep" /\ cached[k] # NoEntry
    /\ Drops(k)
    /\ writer' = [writer EXCEPT !.left = @ \ {k}]
    /\ UNCHANGED version /\ CachesKept

EndSweep ==
    /\ writer.phase = "sweep" /\ writer.left = {}
    /\ writer' = [phase |-> "idle", left |-> {}]
    /\ UNCHANGED version /\ EntriesKept /\ CachesKept

\* Redis fails in the sweep: what it has not dropped stays, and the write is answered an error.
SweepFails ==
    /\ writer.phase # "idle"
    /\ writer' = [phase |-> "idle", left |-> {}]
    /\ unswept' = unswept \cup {k \in Keys : cached[k] \notin {NoEntry, version}}
    /\ UNCHANGED <<version, cached, overtaken>> /\ CachesKept

\* New telemetry, or a customer deleted: nothing drops the cached entry.
ChangeUnannounced ==
    /\ \/ kind = "latest" /\ version < MaxVersion /\ version' = version + 1
       \/ kind = "name" /\ version # Absent /\ version' = Absent
    /\ UNCHANGED writer /\ EntriesKept /\ CachesKept

\* Another customer is deleted: the rows after it move up, past a page that was read.
RowsMoveUp ==
    /\ kind = "name" /\ \E r \in Readers : reader[r].phase = "page"
    /\ reader' = [r \in Readers |-> IF reader[r].phase = "page"
                    THEN [reader[r] EXCEPT !.phase = "shifted"] ELSE reader[r]]
    /\ rowsMoved' = TRUE
    /\ UNCHANGED <<kind, version, writer, leader>> /\ EntriesKept

ExpireEntry(k) ==
    /\ cached[k] # NoEntry
    /\ Drops(k)
    /\ writer' = [writer EXCEPT !.left = @ \ {k}]
    /\ UNCHANGED version /\ CachesKept

CacheNext ==
    \/ \E r \in Readers : \/ Lookup(r) \/ Begin(r) \/ FetchFirst(r) \/ FetchOk(r)
                          \/ FetchFails(r) \/ NoKeysReported(r) \/ Store(r) \/ StoreFails(r)
                          \/ Return(r)
    \/ WriteUpstream \/ WriteFails \/ StartSweep \/ EndSweep \/ SweepFails
    \/ ChangeUnannounced \/ RowsMoveUp
    \/ \E k \in Keys : Unlink(k) \/ ExpireEntry(k)

CacheSpec == CacheInit /\ [][CacheNext]_cacheVars

-----------------------------------------------------------------------------
Values == Absent .. Torn
CacheTypeOK ==
    /\ kind \in Kinds
    /\ version \in Absent .. MaxVersion
    /\ cached \in [Keys -> Values]
    /\ leader \in [Keys -> Readers \cup {NoReader}]
    /\ reader \in [Readers ->
         [phase : {"idle", "miss", "join", "fetch", "page", "shifted", "store",
                   "served", "failed"},
          key : Keys, value : Values]]
    /\ writer \in [phase : {"idle", "written", "sweep"}, left : SUBSET Keys]
    /\ overtaken \subseteq Keys /\ unswept \subseteq Keys /\ rowsMoved \in BOOLEAN

(* Once a write has succeeded, a cached entry is out of date only because a*)
(* read fetched it before the write and stored it after its sweep; an older*)
(* one outlives only writes that were answered an error after they took    *)
(* effect, and no later success.  Nothing announces some changes           *)
(* (telemetry, a deleted customer's name).                                 *)
StaleOnlyIfOvertaken ==
    \A k \in Keys :
        writer.phase = "idle" /\ cached[k] \notin {NoEntry, version} =>
            k \in overtaken \/ k \in unswept \/ kind = "latest" \/ version = Absent

(* "No such customer" is remembered only if there is none, or if the pages *)
(* lost a customer because another was deleted while they were read: an    *)
(* outage is never taken for an absence (entity-ref-resolver.ts:79-108).   *)
TombstoneOnlyIfAbsent ==
    \A k \in Keys : cached[k] = Absent => kind = "name" /\ (version = Absent \/ rowsMoved)

(* Reads that share a fetch have somebody to wait for, and it is fetching  *)
(* what they asked for: a fetch that fails leaves nobody behind.           *)
JoinersHaveLeader ==
    \A r \in Readers : reader[r].phase = "join" =>
        LET l == leader[reader[r].key] IN
        l # NoReader /\ reader[l].key = reader[r].key /\ reader[l].phase \in {"fetch", "store"}

(* The three together: what a read returns is as new as its fill, a name   *)
(* is declared gone only when it is, and who waits waits for somebody.     *)
CacheSafe == StaleOnlyIfOvertaken /\ TombstoneOnlyIfAbsent /\ JoinersHaveLeader
=============================================================================
