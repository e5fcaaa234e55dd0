--------------------------- MODULE Backend_proofs ---------------------------
(***************************************************************************)
(* Proofs about the backend's own services: ServiceToken for every finite  *)
(* set of requests and any number of revocations, ReadCache for every set  *)
(* of readers and any number of changes of the data, Access (the guards and *)
(* the moves of devices) for every hierarchy of customers, every set of    *)
(* entities, sessions and requests.                                        *)
(***************************************************************************)
EXTENDS ServiceToken, ReadCache, Access, ScopeWalk, FiniteSetTheorems, SequenceTheorems, TLAPS

(***************************************************************************)
(* ServiceToken                                                            *)
(***************************************************************************)
-----------------------------------------------------------------------------
(* The inductive invariant *)

\* A token that is cached or was sent comes from a login that got past storing it.
TokensAreStored ==
  /\ \A n \in Logins : logins[n].minted <= epoch
  /\ jwt # NoLogin => logins[jwt].phase \in {"stored", "done"}
  /\ \A r \in Requests :
       /\ request[r].since <= epoch
       /\ request[r].phase = "refused" => ~ request[r].retried
       /\ request[r].phase = "wait" => request[r].token # NoLogin
       /\ request[r].phase \in {"sent", "refused", "denied"} =>
            /\ request[r].token # NoLogin
            /\ logins[request[r].token].phase \in {"stored", "done"}
       /\ request[r].phase = "denied" => request[r].retried

\* The attempts that have got beyond the cache: each has started at most one login.
Used == {n \in Logins : logins[n].phase # "unused"}
HasBegun(r, i) ==
  IF i = 1 THEN request[r].retried \/ request[r].phase \notin {"idle", "get", "miss"}
  ELSE request[r].retried /\ request[r].phase \notin {"idle", "get", "miss"}
Begun == {a \in Requests \X {1, 2} : HasBegun(a[1], a[2])}
LoginsSuffice == Cardinality(Used) <= Cardinality(Begun)

\* What a retry can be given: a token minted since the revocation it reacts to, or the
\* one of the login that was in flight when it dropped the cached token; and its own
\* first token only by that login.
Fresh(r, n) == n = request[r].running \/ logins[n].minted = epoch
RetriesAreFresh ==
  \A r \in Requests : request[r].retried =>
    /\ request[r].first # NoLogin
    /\ logins[request[r].first].phase \in {"stored", "done"}
    /\ jwt # request[r].first
    /\ inflight = request[r].first => request[r].running = request[r].first
    /\ request[r].since = epoch =>
         /\ jwt # NoLogin => Fresh(r, jwt)
         /\ inflight # NoLogin /\ logins[inflight].phase # "posting" => Fresh(r, inflight)
         /\ request[r].phase = "sent" => Fresh(r, request[r].token)

TokenInductive ==
  TokenTypeOK /\ SingleFlight /\ TokensAreStored /\ LoginsSuffice /\ RetriesAreFresh
                 /\ DeniedOnlyByEarlierLogin /\ RetryRepeatsOnlyJoinedLogin

-----------------------------------------------------------------------------
(* Counting: a login that is needed is there *)

LEMMA LoginSet == Logins \subseteq Nat \ {0} /\ NoLogin \notin Logins
  BY TokenAssumption, FS_CardinalityType DEF Logins, NoLogin

LEMMA AllAttempts ==
  /\ IsFiniteSet(Requests \X {1, 2})
  /\ Cardinality(Requests) \in Nat
  /\ Cardinality(Requests \X {1, 2}) = 2 * Cardinality(Requests)
<1>1. IsFiniteSet({1}) /\ Cardinality({1}) = 1
  BY FS_Singleton
<1>2. {1, 2} = {1} \cup {2} /\ 2 \notin {1}
  OBVIOUS
<1>3. IsFiniteSet({1, 2}) /\ Cardinality({1, 2}) = 1 + 1
  BY <1>1, <1>2, FS_AddElement
<1>4. IsFiniteSet(Requests) /\ Cardinality(Requests) \in Nat
  BY TokenAssumption, FS_CardinalityType
<1>5. /\ IsFiniteSet(Requests \X {1, 2})
      /\ Cardinality(Requests \X {1, 2}) = Cardinality(Requests) * Cardinality({1, 2})
  BY <1>3, <1>4, FS_Product
<1>. QED
  BY <1>3, <1>4, <1>5

LEMMA PartOfFinite ==
  ASSUME NEW T, IsFiniteSet(T), NEW S \in SUBSET T
  PROVE  IsFiniteSet(S) /\ Cardinality(S) \in Nat
BY FS_Subset, FS_CardinalityType

LEMMA AttemptSets ==
  \A S \in SUBSET (Requests \X {1, 2}) : IsFiniteSet(S) /\ Cardinality(S) \in Nat
<1>. DEFINE all == Requests \X {1, 2}
<1>1. IsFiniteSet(all)
  BY AllAttempts
<1>2. \A S \in SUBSET all : IsFiniteSet(S) /\ Cardinality(S) \in Nat
  <2>. HIDE DEF all
  <2>. QED
    BY <1>1, PartOfFinite
<1>. QED
  BY <1>2

LEMMA LoginSets ==
  ASSUME NEW S \in SUBSET Logins
  PROVE  IsFiniteSet(S) /\ Cardinality(S) \in Nat
<1>1. Cardinality(Requests) \in Nat
  BY TokenAssumption, FS_CardinalityType
<1>2. IsFiniteSet(Logins)
  BY <1>1, FS_Interval DEF Logins
<1>. QED
  BY <1>2, PartOfFinite

\* While some attempt has not begun, some login is unused.
LEMMA LoginLeft ==
  ASSUME LoginsSuffice, NEW a \in Requests \X {1, 2}, a \notin Begun
  PROVE  UnusedLogin \in Logins /\ logins[UnusedLogin].phase = "unused"
<1>. DEFINE all == Requests \X {1, 2}
            n == Cardinality(Requests)
<1>2. n \in Nat /\ IsFiniteSet(all) /\ Cardinality(all) = 2 * n
  BY AllAttempts
<1>3. Cardinality(Begun) < 2 * n
  <2>1. Begun \subseteq all /\ Begun # all
    BY DEF Begun
  <2>2. Cardinality(Begun) <= Cardinality(all) /\ Cardinality(Begun) # Cardinality(all)
    <3>. HIDE DEF all
    <3>. QED
      BY <1>2, <2>1, FS_Subset
  <2>. QED
    BY <1>2, <2>1, <2>2, AttemptSets
<1>4. Cardinality(Logins) = 2 * n
  BY <1>2, FS_Interval DEF Logins
<1>5. Used # Logins
  <2>1. Begun \subseteq all
    BY DEF Begun
  <2>2. Cardinality(Begun) \in Nat
    BY <2>1, AttemptSets
  <2>. QED
    BY <1>2, <1>3, <1>4, <2>2 DEF LoginsSuffice
<1>6. \E m \in Logins : logins[m].phase = "unused"
  BY <1>5 DEF Used
<1>. QED
  BY <1>6 DEF UnusedLogin

LEMMA BegunGrows ==
  ASSUME \A q \in Requests : \A i \in {1, 2} : HasBegun(q, i) => HasBegun(q, i)'
  PROVE  Begun \subseteq Begun'
BY DEF Begun

\* A step that starts no login keeps the count if no attempt goes back before its start.
LEMMA CountKept ==
  ASSUME LoginsSuffice, Used' \subseteq Used, Begun \subseteq Begun'
  PROVE  LoginsSuffice'
<1>1. Cardinality(Used') <= Cardinality(Used)
  BY LoginSets, FS_Subset DEF Used
<1>2. Cardinality(Begun) <= Cardinality(Begun')
  BY AttemptSets, FS_Subset DEF Begun
<1>3. /\ Cardinality(Used) \in Nat /\ Cardinality(Used') \in Nat
      /\ Cardinality(Begun) \in Nat /\ Cardinality(Begun') \in Nat
  BY AttemptSets, LoginSets DEF Used, Begun
<1>. QED
  BY <1>1, <1>2, <1>3 DEF LoginsSuffice

\* A step that starts one login begins one more attempt.
LEMMA CountGrows ==
  ASSUME LoginsSuffice, NEW n \in Logins, Used' = Used \cup {n},
         NEW a \in Begun', a \notin Begun, Begun \subseteq Begun'
  PROVE  LoginsSuffice'
<1>1. Cardinality(Used') <= Cardinality(Used) + 1
  BY LoginSets, FS_AddElement DEF Used
<1>2. Cardinality(Begun \cup {a}) = Cardinality(Begun) + 1
  BY AttemptSets, FS_AddElement DEF Begun
<1>3. Cardinality(Begun \cup {a}) <= Cardinality(Begun')
  BY AttemptSets, FS_Subset DEF Begun
<1>4. /\ Cardinality(Used) \in Nat /\ Cardinality(Used') \in Nat
      /\ Cardinality(Begun) \in Nat /\ Cardinality(Begun') \in Nat
  BY AttemptSets, LoginSets DEF Used, Begun
<1>. QED
  BY <1>1, <1>2, <1>3, <1>4 DEF LoginsSuffice

-----------------------------------------------------------------------------
(* Every step keeps the invariant *)

LEMMA TokenInitInductive == TokenInit => TokenInductive
<1>. SUFFICES ASSUME TokenInit PROVE TokenInductive
  OBVIOUS
<1>1. TokenTypeOK /\ SingleFlight /\ TokensAreStored /\ RetriesAreFresh
      /\ DeniedOnlyByEarlierLogin /\ RetryRepeatsOnlyJoinedLogin
  BY LoginSet, TokenAssumption
  DEF TokenInit, TokenTypeOK, SingleFlight, TokensAreStored, RetriesAreFresh, NoLogin, Running,
      DeniedOnlyByEarlierLogin, RetryRepeatsOnlyJoinedLogin, Login, Request
<1>2. Used = {} /\ Begun = {}
  <2>1. \A q \in Requests, i \in {1, 2} : ~ HasBegun(q, i)
    BY DEF TokenInit, HasBegun
  <2>. QED
    BY <2>1 DEF TokenInit, Used, Begun
<1>3. LoginsSuffice
  BY <1>2, FS_EmptySet DEF LoginsSuffice
<1>. QED
  BY <1>1, <1>3 DEF TokenInductive

\* The steps of one request that only move it on.
LEMMA RequestStep ==
  ASSUME TokenInductive, NEW r \in Requests,
         StartRequest(r) \/ GetToken(r) \/ Replied(r) \/ RequestFails(r)
  PROVE  TokenInductive'
<1>. USE LoginSet DEF Moves, TokenInductive
<1>1. TokenTypeOK'
  BY DEF StartRequest, GetToken, Replied, RequestFails, TokenTypeOK, Request, TokensAreStored
<1>2. SingleFlight'
  BY DEF StartRequest, GetToken, Replied, RequestFails, TokenTypeOK, Request, SingleFlight,
         TokensAreStored
<1>3. TokensAreStored'
  BY DEF StartRequest, GetToken, Replied, RequestFails, TokenTypeOK, Request, TokensAreStored
<1>4. RetriesAreFresh' /\ RetryRepeatsOnlyJoinedLogin'
  BY DEF StartRequest, GetToken, Replied, RequestFails, TokenTypeOK, Request, TokensAreStored,
         RetriesAreFresh, RetryRepeatsOnlyJoinedLogin, Fresh
<1>5. DeniedOnlyByEarlierLogin'
  BY DEF StartRequest, GetToken, Replied, RequestFails, TokenTypeOK, Request, TokensAreStored,
         RetriesAreFresh, DeniedOnlyByEarlierLogin, Fresh
<1>6. Used' = Used
  BY DEF StartRequest, GetToken, Replied, RequestFails, Used
<1>7. Begun \subseteq Begun'
  <2>1. ASSUME NEW q \in Requests, NEW i \in {1, 2}, HasBegun(q, i)
        PROVE  HasBegun(q, i)'
    <3>. USE <2>1 DEF TokenTypeOK, Request, HasBegun
    <3>1. CASE StartRequest(r)
      BY <3>1 DEF StartRequest
    <3>2. CASE GetToken(r)
      BY <3>2 DEF GetToken
    <3>3. CASE Replied(r)
      BY <3>3 DEF Replied
    <3>4. CASE RequestFails(r)
      BY <3>4 DEF RequestFails
    <3>. QED
      BY <3>1, <3>2, <3>3, <3>4
  <2>. QED
    BY <2>1, BegunGrows
<1>8. LoginsSuffice'
  BY <1>6, <1>7, CountKept
<1>. QED
  BY <1>1, <1>2, <1>3, <1>4, <1>5, <1>8

LEMMA MovesType ==
  ASSUME TokenTypeOK, NEW r \in Requests, NEW token \in Logins \cup {NoLogin},
         request' = [request EXCEPT ![r].phase = "wait", ![r].token = token]
  PROVE  request' \in [Requests -> Request]
BY DEF TokenTypeOK, Request

\* A miss: the request joins the login in flight, or a new one.
LEMMA JoinStep ==
  ASSUME TokenInductive, NEW r \in Requests, JoinOrLogin(r)
  PROVE  TokenInductive'
<1>. USE LoginSet DEF Moves, TokenInductive
<1>0. PICK i \in {1, 2} : i = (IF request[r].retried THEN 2 ELSE 1)
  OBVIOUS
<1>1. <<r, i>> \in Requests \X {1, 2} /\ <<r, i>> \notin Begun
  <2>1. ~ HasBegun(r, i)
    BY <1>0 DEF JoinOrLogin, HasBegun
  <2>. QED
    BY <2>1 DEF Begun
<1>2. PICK n \in Logins : n = UnusedLogin /\ logins[n].phase = "unused"
  BY <1>1, LoginLeft
<1>3. Begun \subseteq Begun'
  <2>1. ASSUME NEW q \in Requests, NEW j \in {1, 2}, HasBegun(q, j)
        PROVE  HasBegun(q, j)'
    BY <2>1, <1>2 DEF JoinOrLogin, TokenTypeOK, Request, HasBegun
  <2>. QED
    BY <2>1, BegunGrows
<1>4. CASE inflight # NoLogin
  <2>waits. Awaited(inflight) = "wait"
    BY <1>4 DEF Awaited, SingleFlight, TokenTypeOK, Running
  <2>0. /\ request' = [request EXCEPT ![r].phase = "wait", ![r].token = inflight]
        /\ UNCHANGED <<jwt, epoch, logins, inflight>>
    BY <1>4, <2>waits DEF JoinOrLogin
  <2>. USE <1>4, <2>0
  <2>1. TokenTypeOK' /\ SingleFlight' /\ TokensAreStored'
    <3>1. TokenTypeOK'
      BY <2>0, MovesType DEF TokenTypeOK
    <3>2. SingleFlight'
      BY <2>0 DEF TokenTypeOK, SingleFlight
    <3>3. TokensAreStored'
      BY <2>0 DEF TokenTypeOK, Request, TokensAreStored
    <3>. QED
      BY <3>1, <3>2, <3>3
  <2>2. RetriesAreFresh' /\ RetryRepeatsOnlyJoinedLogin' /\ DeniedOnlyByEarlierLogin'
    BY DEF TokenTypeOK, Request, RetriesAreFresh, Fresh, RetryRepeatsOnlyJoinedLogin,
           DeniedOnlyByEarlierLogin
  <2>3. LoginsSuffice'
    BY <1>3, CountKept DEF Used
  <2>. QED
    BY <2>1, <2>2, <2>3
<1>5. CASE inflight = NoLogin
  <2>1. /\ logins' = [logins EXCEPT ![n].phase = "posting"]
        /\ inflight' = n
        /\ Moves(r, "wait", n)
        /\ UNCHANGED <<jwt, epoch>>
    BY <1>2, <1>5 DEF JoinOrLogin
  <2>. USE <1>2, <2>1
  <2>2. TokenTypeOK'
    <3>1. logins' \in [Logins -> Login]
      BY DEF TokenTypeOK, Login, Running
    <3>2. request' \in [Requests -> Request]
      BY MovesType
    <3>. QED
      BY <3>1, <3>2 DEF TokenTypeOK
  <2>3. SingleFlight'
    <3>1. \A m \in Logins : logins[m].phase \notin Running
      BY <1>5 DEF SingleFlight
    <3>2. \A m \in Logins : m # n => logins'[m] = logins[m]
      BY DEF TokenTypeOK
    <3>3. logins'[n].phase \in Running
      BY DEF TokenTypeOK, Login, Running
    <3>4. {m \in Logins : logins'[m].phase \in Running} = {n}
      BY <3>1, <3>2, <3>3
    <3>5. \A q \in Requests : request[q].phase # "wait"
      BY <1>5 DEF SingleFlight, TokensAreStored
    <3>6. \A q \in Requests : q # r => request'[q] = request[q]
      BY DEF TokenTypeOK
    <3>7. request'[r].token = n
      BY DEF TokenTypeOK, Request
    <3>. QED
      BY <3>4, <3>5, <3>6, <3>7 DEF SingleFlight
  <2>4. TokensAreStored'
    BY DEF TokenTypeOK, Request, Login, TokensAreStored
  <2>5. RetriesAreFresh'
    BY DEF TokenTypeOK, Request, Login, TokensAreStored, RetriesAreFresh, Fresh
  <2>6. RetryRepeatsOnlyJoinedLogin' /\ DeniedOnlyByEarlierLogin'
    BY DEF TokenTypeOK, Request, RetryRepeatsOnlyJoinedLogin, DeniedOnlyByEarlierLogin
  <2>7. Used' = Used \cup {n}
    BY DEF TokenTypeOK, Login, Used
  <2>8. <<r, i>> \in Begun'
    <3>1. HasBegun(r, i)'
      BY <1>0 DEF TokenTypeOK, Request, HasBegun
    <3>. QED
      BY <3>1, <1>1 DEF Begun
  <2>9. LoginsSuffice'
    BY <1>1, <1>3, <2>7, <2>8, CountGrows
  <2>. QED
    BY <2>2, <2>3, <2>4, <2>5, <2>6, <2>9
<1>. QED
  BY <1>4, <1>5

\* A login in flight is accepted, or its token stored.
LEMMA LoginStep ==
  ASSUME TokenInductive, NEW n \in Logins, LoginAccepted(n) \/ TokenStored(n)
  PROVE  TokenInductive'
<1>. USE LoginSet DEF TokenInductive
<1>1. CASE LoginAccepted(n)
  <2>. USE <1>1 DEF LoginAccepted
  <2>1. TokenTypeOK'
    BY DEF TokenTypeOK, Login, Running
  <2>2. SingleFlight'
    BY DEF TokenTypeOK, Login, Running, SingleFlight
  <2>3. TokensAreStored'
    BY TokenAssumption DEF TokenTypeOK, Login, TokensAreStored
  <2>4. RetriesAreFresh'
    BY DEF TokenTypeOK, Login, TokensAreStored, RetriesAreFresh, Fresh
  <2>5. Used' = Used /\ Begun' = Begun
    BY DEF TokenTypeOK, Login, Used, Begun, HasBegun
  <2>6. LoginsSuffice' /\ DeniedOnlyByEarlierLogin' /\ RetryRepeatsOnlyJoinedLogin'
    BY <2>5 DEF LoginsSuffice, DeniedOnlyByEarlierLogin, RetryRepeatsOnlyJoinedLogin
  <2>. QED
    BY <2>1, <2>2, <2>3, <2>4, <2>6
<1>2. CASE TokenStored(n)
  <2>. USE <1>2 DEF TokenStored
  <2>0. inflight = n
    BY DEF TokenTypeOK, SingleFlight, Running
  <2>1. TokenTypeOK'
    BY DEF TokenTypeOK, Login, Running
  <2>2. SingleFlight'
    BY DEF TokenTypeOK, Login, Running, SingleFlight
  <2>3. TokensAreStored'
    BY DEF TokenTypeOK, Login, TokensAreStored
  <2>4. RetriesAreFresh'
    BY <2>0 DEF TokenTypeOK, Login, TokensAreStored, RetriesAreFresh, Fresh
  <2>5. Used' = Used /\ Begun' = Begun
    BY DEF TokenTypeOK, Login, Used, Begun, HasBegun
  <2>6. LoginsSuffice' /\ DeniedOnlyByEarlierLogin' /\ RetryRepeatsOnlyJoinedLogin'
    BY <2>5 DEF LoginsSuffice, DeniedOnlyByEarlierLogin, RetryRepeatsOnlyJoinedLogin
  <2>. QED
    BY <2>1, <2>2, <2>3, <2>4, <2>6
<1>. QED
  BY <1>1, <1>2

\* A login settles, and everybody who waits for it goes on.
LEMMA SettleStep ==
  ASSUME TokenInductive, NEW n \in Logins, LoginSettles(n) \/ LoginFails(n)
  PROVE  TokenInductive'
<1>. USE LoginSet DEF TokenInductive
<1>1. PICK end \in {"done", "failed"}, next \in {"sent", "failed"} :
        /\ SettleLogin(n, end, next)
        /\ end = "done" => logins[n].phase = "stored"
        /\ end = "failed" => logins[n].phase \in {"posting", "storing"}
        /\ next = "sent" <=> end = "done"
  BY DEF LoginSettles, LoginFails
<1>. USE <1>1 DEF SettleLogin
<1>2. inflight = n
  BY DEF TokenTypeOK, SingleFlight, Running
<1>3. /\ \A m \in Logins : m # n => logins'[m] = logins[m]
      /\ logins'[n] = [logins[n] EXCEPT !.phase = end]
  BY DEF TokenTypeOK
<1>4. \A r \in Requests :
        request'[r] = IF request[r].phase = "wait" THEN [request[r] EXCEPT !.phase = next]
                      ELSE request[r]
  BY <1>2 DEF TokenTypeOK, SingleFlight
<1>5. TokenTypeOK'
  <2>1. logins' \in [Logins -> Login]
    BY DEF TokenTypeOK, Login
  <2>2. request' \in [Requests -> Request]
    BY DEF TokenTypeOK, Request
  <2>. QED
    BY <2>1, <2>2 DEF TokenTypeOK
<1>6. SingleFlight'
  BY <1>2, <1>3, <1>4 DEF TokenTypeOK, Request, Login, Running, SingleFlight
<1>7. TokensAreStored'
  BY <1>2, <1>3, <1>4 DEF TokenTypeOK, Request, Login, SingleFlight, TokensAreStored
<1>8. RetriesAreFresh' /\ RetryRepeatsOnlyJoinedLogin'
  BY <1>2, <1>3, <1>4
  DEF TokenTypeOK, Request, Login, SingleFlight, TokensAreStored, RetriesAreFresh, Fresh,
      RetryRepeatsOnlyJoinedLogin
<1>9. DeniedOnlyByEarlierLogin'
  BY <1>4 DEF TokenTypeOK, Request, DeniedOnlyByEarlierLogin
<1>10. LoginsSuffice'
  <2>1. Used' \subseteq Used
    BY <1>3 DEF Used
  <2>2. ASSUME NEW r \in Requests, NEW i \in {1, 2}, HasBegun(r, i)
        PROVE  HasBegun(r, i)'
    BY <1>4, <2>2 DEF TokenTypeOK, Request, HasBegun
  <2>. QED
    BY <2>1, <2>2, BegunGrows, CountKept
<1>. QED
  BY <1>5, <1>6, <1>7, <1>8, <1>9, <1>10

\* The first 401: the cached token is dropped and one more attempt begins.
LEMMA InvalidateStep ==
  ASSUME TokenInductive, NEW r \in Requests, Invalidate(r)
  PROVE  TokenInductive'
<1>. USE LoginSet DEF TokenInductive, Invalidate
<1>1. /\ \A q \in Requests : q # r => request'[q] = request[q]
      /\ request'[r] = [request[r] EXCEPT !.phase = "get", !.token = NoLogin,
           !.first = request[r].token, !.retried = TRUE, !.since = epoch, !.running = inflight]
  BY DEF TokenTypeOK
<1>2. TokenTypeOK'
  <2>1. request'[r] \in Request
    BY <1>1 DEF TokenTypeOK, Request
  <2>2. request' \in [Requests -> Request]
    BY <1>1, <2>1 DEF TokenTypeOK
  <2>. QED
    BY <2>2 DEF TokenTypeOK
<1>3. SingleFlight' /\ TokensAreStored'
  BY <1>1 DEF TokenTypeOK, Request, SingleFlight, TokensAreStored
<1>4. RetriesAreFresh' /\ RetryRepeatsOnlyJoinedLogin' /\ DeniedOnlyByEarlierLogin'
  BY <1>1 DEF TokenTypeOK, Request, TokensAreStored, RetriesAreFresh, Fresh,
              RetryRepeatsOnlyJoinedLogin, DeniedOnlyByEarlierLogin
<1>5. LoginsSuffice'
  <2>1. ASSUME NEW q \in Requests, NEW i \in {1, 2}, HasBegun(q, i)
        PROVE  HasBegun(q, i)'
    BY <1>1, <2>1 DEF TokenTypeOK, Request, TokensAreStored, HasBegun
  <2>. QED
    BY <2>1, BegunGrows, CountKept DEF Used
<1>. QED
  BY <1>2, <1>3, <1>4, <1>5

\* ThingsBoard revokes its tokens, or the cached one expires.
LEMMA OutsideStep ==
  ASSUME TokenInductive, Revoke \/ ExpireToken
  PROVE  TokenInductive'
<1>. USE LoginSet, TokenAssumption DEF TokenInductive, Revoke, ExpireToken
<1>1. TokenTypeOK' /\ SingleFlight'
  BY DEF TokenTypeOK, SingleFlight
<1>2. epoch \in Nat /\ \A n \in Logins : logins[n].minted \in Nat
  BY DEF TokenTypeOK, Login
<1>3. \A r \in Requests : request[r].since \in Nat
  BY DEF TokenTypeOK, Request
<1>4. TokensAreStored' /\ RetriesAreFresh'
  BY <1>2, <1>3 DEF TokensAreStored, RetriesAreFresh, Fresh
<1>5. RetryRepeatsOnlyJoinedLogin' /\ DeniedOnlyByEarlierLogin'
  BY <1>2, <1>3 DEF TokensAreStored, RetryRepeatsOnlyJoinedLogin, DeniedOnlyByEarlierLogin
<1>6. LoginsSuffice'
  BY DEF LoginsSuffice, Used, Begun, HasBegun
<1>. QED
  BY <1>1, <1>4, <1>5, <1>6

LEMMA TokenNextInductive == TokenInductive /\ [TokenNext]_tokenVars => TokenInductive'
<1>. SUFFICES ASSUME TokenInductive, [TokenNext]_tokenVars
              PROVE  TokenInductive'
  OBVIOUS
<1>1. CASE \E r \in Requests : StartRequest(r) \/ GetToken(r) \/ Replied(r) \/ RequestFails(r)
  BY <1>1, RequestStep
<1>2. CASE \E r \in Requests : JoinOrLogin(r)
  BY <1>2, JoinStep
<1>3. CASE \E r \in Requests : Invalidate(r)
  BY <1>3, InvalidateStep
<1>4. CASE \E n \in Logins : LoginAccepted(n) \/ TokenStored(n)
  BY <1>4, LoginStep
<1>5. CASE \E n \in Logins : LoginSettles(n) \/ LoginFails(n)
  BY <1>5, SettleStep
<1>6. CASE Revoke \/ ExpireToken
  BY <1>6, OutsideStep
<1>7. CASE UNCHANGED tokenVars
  BY <1>7 DEF tokenVars, TokenInductive, TokenTypeOK, SingleFlight, TokensAreStored, LoginsSuffice,
              Used, Begun, HasBegun, RetriesAreFresh, Fresh, RetryRepeatsOnlyJoinedLogin,
              DeniedOnlyByEarlierLogin
<1>. QED
  BY <1>1, <1>2, <1>3, <1>4, <1>5, <1>6, <1>7 DEF TokenNext, TokenProgress

LEMMA TokenInvariant == TokenSpec => []TokenInductive
<1>. QED
  BY TokenInitInductive, TokenNextInductive, PTL DEF TokenSpec

\* The cached token, the logins and the requests keep their types.
THEOREM TokenTypeInvariant == TokenSpec => []TokenTypeOK
<1>1. TokenInductive => TokenTypeOK
  BY DEF TokenInductive
<1>. QED
  BY <1>1, TokenInvariant, PTL

\* Concurrent misses share one login, a failed login is forgotten, and a retry is denied or
\* repeats a refused token only because of a login in flight at the 401 (request()).
THEOREM TokensAreSafe == TokenSpec => []TokenSafe
<1>1. TokenInductive => TokenSafe
  BY DEF TokenInductive, TokenSafe
<1>. QED
  BY <1>1, TokenInvariant, PTL

(***************************************************************************)
(* ReadCache                                                               *)
(***************************************************************************)
\* An entry that is out of date was stored late, is never announced, is still to be dropped
\* by the write under way, or outlived one that failed.
StaleIsAccounted ==
  \A k \in Keys : cached[k] \notin {NoEntry, version} =>
    \/ k \in overtaken \/ k \in unswept \/ kind = "latest" \/ version = Absent
    \/ writer.phase = "written"
    \/ writer.phase = "sweep" /\ k \in writer.left

\* Whatever is about to be stored as absent is, or was lost between two pages.
AbsentIsReported ==
  /\ kind # "name" => version # Absent
  /\ \A r \in Readers :
       /\ reader[r].phase = "shifted" => rowsMoved
       /\ reader[r].phase \in {"page", "shifted", "store"} /\ reader[r].value = Absent =>
            kind = "name" /\ (version = Absent \/ rowsMoved)

\* Who is registered for a key is fetching it; only the latest values are shared.
LeadersFetch ==
  \A k \in Keys : leader[k] # NoReader =>
    /\ kind = "latest"
    /\ reader[leader[k]].key = k /\ reader[leader[k]].phase \in {"fetch", "store"}

CacheInductive ==
  /\ CacheTypeOK
  /\ StaleIsAccounted
  /\ AbsentIsReported /\ TombstoneOnlyIfAbsent
  /\ LeadersFetch /\ JoinersHaveLeader

LEMMA CacheInitInductive == CacheInit => CacheInductive
<1>. SUFFICES ASSUME CacheInit PROVE CacheInductive
  OBVIOUS
<1>1. CacheTypeOK
  <2>1. version \in Absent .. MaxVersion /\ kind \in Kinds /\ NoEntry \in Values
    BY CacheAssumption DEF CacheInit, Values, Absent, NoEntry, Torn
  <2>2. \A r \in Readers : reader[r] = [phase |-> "idle", key |-> "all", value |-> NoEntry]
    BY DEF CacheInit, Idle0
  <2>. QED
    BY <2>1, <2>2 DEF CacheInit, CacheTypeOK, Idle0, Keys
<1>2. StaleIsAccounted /\ TombstoneOnlyIfAbsent
  BY CacheAssumption DEF CacheInit, StaleIsAccounted, TombstoneOnlyIfAbsent, NoEntry, Absent
<1>3. AbsentIsReported /\ LeadersFetch /\ JoinersHaveLeader
  BY DEF CacheInit, Idle0, AbsentIsReported, LeadersFetch, JoinersHaveLeader, Absent
<1>. QED
  BY <1>1, <1>2, <1>3 DEF CacheInductive

\* What a read finds is a value, and absent only if there is no such customer or the pages
\* lost it.
LEMMA FoundIsReported ==
  ASSUME CacheInductive, NEW r \in Readers, NEW value \in Found(r),
         reader[r].phase \in (IF Paged THEN {"page", "shifted"} ELSE {"fetch"})
  PROVE  value \in Values /\ (value = Absent => kind = "name" /\ (version = Absent \/ rowsMoved))
<1>. USE CacheAssumption DEF CacheInductive
<1>1. version \in Values /\ reader[r].value \in Values /\ Torn \in Values /\ Absent \in Values
      /\ Torn # Absent
  BY DEF CacheTypeOK, Values, Absent, Torn
<1>2. kind \in {"latest", "attributes", "scope", "name"}
  BY DEF CacheTypeOK, Kinds
<1>3. CASE kind \in {"latest", "attributes"}
  <2>1. value = version /\ kind # "name"
    BY <1>3 DEF Found, Paged
  <2>. QED
    BY <1>1, <2>1 DEF AbsentIsReported
<1>4. CASE kind = "scope"
  <2>1. value \in {reader[r].value, version, Torn}
    BY <1>4 DEF Found, Paged
  <2>2. reader[r].phase \in {"page", "shifted"}
    BY <1>4 DEF Paged
  <2>. QED
    BY <1>1, <1>4, <2>1, <2>2 DEF AbsentIsReported
<1>5. CASE kind = "name"
  <2>1. \/ value \in {reader[r].value, version}
        \/ reader[r].phase = "shifted" /\ value = Absent
    BY <1>5 DEF Found, Paged
  <2>2. reader[r].phase \in {"page", "shifted"}
    BY <1>5 DEF Paged
  <2>. QED
    BY <1>1, <1>5, <2>1, <2>2 DEF AbsentIsReported
<1>. QED
  BY <1>2, <1>3, <1>4, <1>5

\* A read looks its key up, begins, reads a page or returns.
LEMMA ReadStep ==
  ASSUME CacheInductive, NEW r \in Readers,
         Lookup(r) \/ Begin(r) \/ FetchFirst(r) \/ FetchOk(r) \/ Return(r)
  PROVE  CacheInductive'
<1>. USE CacheAssumption DEF CacheInductive, UpstreamKept, EntriesKept, ReaderMoves
<1>0. /\ \A k \in Keys : cached[k] \in Values
      /\ reader[r].key \in Keys /\ KeysOf(kind) \subseteq Keys /\ "all" \in Keys
      /\ version \in Values /\ NoEntry \in Values
  BY DEF CacheTypeOK, KeysOf, Keys, Values, Absent, NoEntry, Torn
<1>1. CacheTypeOK'
  <2>1. CASE Lookup(r)
    BY <1>0, <2>1 DEF Lookup, CacheTypeOK
  <2>2. CASE Begin(r)
    BY <1>0, <2>2 DEF Begin, CacheTypeOK
  <2>3. CASE FetchFirst(r)
    BY <1>0, <2>3 DEF FetchFirst, CacheTypeOK
  <2>4. CASE FetchOk(r)
    BY <1>0, <2>4, FoundIsReported DEF FetchOk, CacheTypeOK
  <2>5. CASE Return(r)
    BY <1>0, <2>5 DEF Return, CacheTypeOK, Idle0
  <2>. QED
    BY <2>1, <2>2, <2>3, <2>4, <2>5
<1>2. StaleIsAccounted'
  BY DEF Lookup, Begin, FetchFirst, FetchOk, Return, StaleIsAccounted
<1>3. TombstoneOnlyIfAbsent'
  BY DEF Lookup, Begin, FetchFirst, FetchOk, Return, TombstoneOnlyIfAbsent
<1>4. AbsentIsReported'
  <2>1. CASE Lookup(r)
    BY <2>1 DEF Lookup, CacheTypeOK, AbsentIsReported
  <2>2. CASE Begin(r)
    BY <2>2 DEF Begin, CacheTypeOK, AbsentIsReported
  <2>3. CASE FetchFirst(r)
    BY <2>3 DEF FetchFirst, CacheTypeOK, AbsentIsReported
  <2>4. CASE FetchOk(r)
    BY <2>4, FoundIsReported DEF FetchOk, CacheTypeOK, AbsentIsReported
  <2>5. CASE Return(r)
    BY <2>5 DEF Return, CacheTypeOK, AbsentIsReported, Idle0
  <2>. QED
    BY <2>1, <2>2, <2>3, <2>4, <2>5
<1>5. LeadersFetch' /\ JoinersHaveLeader'
  <2>1. CASE Lookup(r)
    BY <2>1 DEF Lookup, CacheTypeOK, LeadersFetch, JoinersHaveLeader
  <2>2. CASE Begin(r)
    BY <2>2 DEF Begin, CacheTypeOK, LeadersFetch, JoinersHaveLeader
  <2>3. CASE FetchFirst(r)
    BY <2>3 DEF FetchFirst, Paged, CacheTypeOK, LeadersFetch, JoinersHaveLeader
  <2>4. CASE FetchOk(r)
    BY <2>4 DEF FetchOk, Paged, CacheTypeOK, LeadersFetch, JoinersHaveLeader
  <2>5. CASE Return(r)
    BY <2>5 DEF Return, CacheTypeOK, LeadersFetch, JoinersHaveLeader, Idle0
  <2>. QED
    BY <2>1, <2>2, <2>3, <2>4, <2>5
<1>. QED
  BY <1>1, <1>2, <1>3, <1>4, <1>5

\* What a read waited for settles, for it and for all that joined it.
LEMMA Settling ==
  ASSUME CacheInductive, NEW r \in Readers,
         reader[r].phase \in {"fetch", "page", "shifted", "store"},
         NEW phase \in {"served", "failed"}, NEW value \in Values,
         SettleRead(r, phase, value), kind' = kind
  PROVE  /\ LeadersFetch' /\ JoinersHaveLeader'
         /\ leader' \in [Keys -> Readers \cup {NoReader}]
         /\ reader' \in [Readers ->
              [phase : {"idle", "miss", "join", "fetch", "page", "shifted", "store",
                        "served", "failed"},
               key : Keys, value : Values]]
         /\ \A s \in Readers : reader'[s] = reader[s] \/ reader'[s].phase \in {"served", "failed"}
<1>. USE CacheAssumption DEF CacheInductive, SettleRead
<1>1. \A s \in Readers : reader'[s].key = reader[s].key
  BY DEF CacheTypeOK
<1>2. \A s \in Readers : s \notin Joined(r) \cup {r} => reader'[s] = reader[s]
  OBVIOUS
<1>3. \A s \in Readers : s \in Joined(r) \cup {r} => reader'[s].phase = phase
  BY DEF CacheTypeOK
<1>4. LeadersFetch'
  <2>. SUFFICES ASSUME NEW k \in Keys, leader'[k] # NoReader
                PROVE  /\ kind = "latest"
                       /\ reader'[leader'[k]].key = k
                       /\ reader'[leader'[k]].phase \in {"fetch", "store"}
    BY DEF LeadersFetch
  <2>1. leader'[k] = leader[k] /\ leader[k] # r /\ leader[k] \in Readers
    BY DEF CacheTypeOK
  <2>2. /\ kind = "latest"
        /\ reader[leader[k]].key = k /\ reader[leader[k]].phase \in {"fetch", "store"}
    BY <2>1 DEF LeadersFetch
  <2>3. leader[k] \notin Joined(r) \cup {r}
    BY <2>1, <2>2 DEF Joined
  <2>. QED
    BY <1>2, <2>1, <2>2, <2>3
<1>5. JoinersHaveLeader'
  <2>. SUFFICES ASSUME NEW s \in Readers, reader'[s].phase = "join"
                PROVE  LET l == leader'[reader'[s].key] IN
                       /\ l # NoReader /\ reader'[l].key = reader'[s].key
                       /\ reader'[l].phase \in {"fetch", "store"}
    BY DEF JoinersHaveLeader
  <2>1. s \notin Joined(r) \cup {r} /\ reader'[s] = reader[s]
    BY <1>2, <1>3
  <2>2. reader[s].phase = "join" /\ reader[s].key \in Keys
    BY <2>1 DEF CacheTypeOK
  <2>3. PICK l \in Readers : l = leader[reader[s].key] /\ reader[l].key = reader[s].key
                             /\ reader[l].phase \in {"fetch", "store"}
    BY <2>2 DEF JoinersHaveLeader, CacheTypeOK
  <2>4. l # r
    BY <2>1, <2>2, <2>3 DEF Joined
  <2>5. l \notin Joined(r)
    BY <2>3 DEF Joined
  <2>6. leader'[reader[s].key] = l /\ reader'[l] = reader[l]
    BY <1>2, <2>2, <2>3, <2>4, <2>5
  <2>. QED
    BY <2>1, <2>3, <2>6
<1>6. leader' \in [Keys -> Readers \cup {NoReader}]
  BY DEF CacheTypeOK
<1>7. reader' \in [Readers ->
        [phase : {"idle", "miss", "join", "fetch", "page", "shifted", "store", "served", "failed"},
         key : Keys, value : Values]]
  BY DEF CacheTypeOK
<1>. QED
  BY <1>2, <1>3, <1>4, <1>5, <1>6, <1>7

\* What settling leaves to show: what the cache holds.
LEMMA SettledInv ==
  ASSUME CacheInductive, NEW r \in Readers,
         reader[r].phase \in {"fetch", "page", "shifted", "store"},
         NEW phase \in {"served", "failed"}, NEW value \in Values, SettleRead(r, phase, value),
         UpstreamKept, cached' \in [Keys -> Values], overtaken' \subseteq Keys,
         unswept' \subseteq Keys, StaleIsAccounted', TombstoneOnlyIfAbsent'
  PROVE  CacheInductive'
<1>. USE DEF CacheInductive, UpstreamKept
<1>1. /\ LeadersFetch' /\ JoinersHaveLeader'
      /\ leader' \in [Keys -> Readers \cup {NoReader}]
      /\ reader' \in [Readers ->
           [phase : {"idle", "miss", "join", "fetch", "page", "shifted", "store",
                     "served", "failed"},
            key : Keys, value : Values]]
      /\ \A s \in Readers : reader'[s] = reader[s] \/ reader'[s].phase \in {"served", "failed"}
  BY Settling
<1>2. CacheTypeOK'
  BY <1>1 DEF CacheTypeOK, Values, NoEntry, Absent, Torn
<1>3. AbsentIsReported'
  BY <1>1 DEF AbsentIsReported, Absent
<1>. QED
  BY <1>1, <1>2, <1>3

LEMMA CacheSettleStep ==
  ASSUME CacheInductive, NEW r \in Readers,
         Store(r) \/ StoreFails(r) \/ FetchFails(r) \/ NoKeysReported(r)
  PROVE  CacheInductive'
<1>. USE CacheAssumption
<1>0. reader[r].key \in Keys /\ reader[r].value \in Values /\ NoEntry \in Values
  BY DEF CacheInductive, CacheTypeOK, Values, Absent, NoEntry, Torn
<1>1. ASSUME reader[r].phase = "store", Puts(reader[r].key, reader[r].value), UpstreamKept
      PROVE  /\ cached' \in [Keys -> Values] /\ overtaken' \subseteq Keys
             /\ unswept' \subseteq Keys
             /\ StaleIsAccounted' /\ TombstoneOnlyIfAbsent'
  <2>1. cached' \in [Keys -> Values] /\ overtaken' \subseteq Keys /\ unswept' \subseteq Keys
    BY <1>0, <1>1 DEF Puts, CacheInductive, CacheTypeOK
  <2>2. StaleIsAccounted'
    BY <1>0, <1>1 DEF Puts, UpstreamKept, CacheInductive, CacheTypeOK, StaleIsAccounted
  <2>3. TombstoneOnlyIfAbsent'
    BY <1>0, <1>1 DEF Puts, UpstreamKept, CacheInductive, CacheTypeOK, AbsentIsReported,
                      TombstoneOnlyIfAbsent
  <2>. QED
    BY <2>1, <2>2, <2>3
<1>2. ASSUME EntriesKept, UpstreamKept
      PROVE  /\ cached' \in [Keys -> Values] /\ overtaken' \subseteq Keys
             /\ unswept' \subseteq Keys
             /\ StaleIsAccounted' /\ TombstoneOnlyIfAbsent'
  BY <1>2 DEF EntriesKept, UpstreamKept, CacheInductive, CacheTypeOK, StaleIsAccounted,
              TombstoneOnlyIfAbsent
<1>3. CASE Store(r)
  <2>1. /\ reader[r].phase = "store" /\ Puts(reader[r].key, reader[r].value) /\ UpstreamKept
        /\ SettleRead(r, "served", reader[r].value)
    BY <1>3 DEF Store
  <2>. QED
    BY <1>0, <1>1, <2>1, SettledInv
<1>4. CASE StoreFails(r)
  <2>1. /\ reader[r].phase = "store" /\ UpstreamKept /\ SettleRead(r, "failed", NoEntry)
        /\ Puts(reader[r].key, reader[r].value) \/ EntriesKept
    BY <1>4 DEF StoreFails
  <2>. QED
    BY <1>0, <1>1, <1>2, <2>1, SettledInv
<1>5. CASE FetchFails(r)
  <2>1. /\ reader[r].phase \in {"fetch", "page", "shifted"} /\ UpstreamKept /\ EntriesKept
        /\ SettleRead(r, "failed", NoEntry)
    BY <1>5 DEF FetchFails
  <2>. QED
    BY <1>0, <1>2, <2>1, SettledInv
<1>6. CASE NoKeysReported(r)
  <2>1. /\ reader[r].phase = "fetch" /\ UpstreamKept /\ EntriesKept
        /\ SettleRead(r, "served", NoEntry)
    BY <1>6 DEF NoKeysReported
  <2>. QED
    BY <1>0, <1>2, <2>1, SettledInv
<1>. QED
  BY <1>3, <1>4, <1>5, <1>6

\* A write and its sweep, whole or failed, a change nobody announces, an expiry.
LEMMA WriteStep ==
  ASSUME CacheInductive,
         \/ WriteUpstream \/ WriteFails \/ StartSweep \/ EndSweep \/ SweepFails
         \/ ChangeUnannounced
         \/ \E k \in Keys : Unlink(k) \/ ExpireEntry(k)
  PROVE  CacheInductive'
<1>. USE CacheAssumption
     DEF CacheInductive, CachesKept, EntriesKept, Writes, Drops, WriteUpstream, WriteFails,
         StartSweep, EndSweep, SweepFails, ChangeUnannounced, Unlink, ExpireEntry
<1>1. CacheTypeOK'
  BY DEF CacheTypeOK, Values, NoEntry, Absent, Torn
<1>2. StaleIsAccounted'
  BY DEF CacheTypeOK, StaleIsAccounted
<1>3. AbsentIsReported' /\ TombstoneOnlyIfAbsent'
  BY DEF CacheTypeOK, AbsentIsReported, TombstoneOnlyIfAbsent, Absent, NoEntry
<1>4. LeadersFetch' /\ JoinersHaveLeader'
  BY DEF LeadersFetch, JoinersHaveLeader
<1>. QED
  BY <1>1, <1>2, <1>3, <1>4

\* The rows of the names move up while they are read.
LEMMA RowsStep ==
  ASSUME CacheInductive, RowsMoveUp
  PROVE  CacheInductive'
<1>. USE DEF CacheInductive, RowsMoveUp, EntriesKept
<1>1. CacheTypeOK'
  BY DEF CacheTypeOK
<1>2. StaleIsAccounted' /\ TombstoneOnlyIfAbsent'
  BY DEF StaleIsAccounted, TombstoneOnlyIfAbsent
<1>3. AbsentIsReported'
  BY DEF CacheTypeOK, AbsentIsReported
<1>4. LeadersFetch' /\ JoinersHaveLeader'
  BY DEF CacheTypeOK, LeadersFetch, JoinersHaveLeader
<1>. QED
  BY <1>1, <1>2, <1>3, <1>4

LEMMA CacheNextInductive == CacheInductive /\ [CacheNext]_cacheVars => CacheInductive'
<1>. SUFFICES ASSUME CacheInductive, [CacheNext]_cacheVars
              PROVE  CacheInductive'
  OBVIOUS
<1>1. CASE \E r \in Readers : Lookup(r) \/ Begin(r) \/ FetchFirst(r) \/ FetchOk(r) \/ Return(r)
  BY <1>1, ReadStep
<1>2. CASE \E r \in Readers : Store(r) \/ StoreFails(r) \/ FetchFails(r) \/ NoKeysReported(r)
  BY <1>2, CacheSettleStep
<1>3. CASE \/ WriteUpstream \/ WriteFails \/ StartSweep \/ EndSweep \/ SweepFails
           \/ ChangeUnannounced
           \/ \E k \in Keys : Unlink(k) \/ ExpireEntry(k)
  BY <1>3, WriteStep
<1>4. CASE RowsMoveUp
  BY <1>4, RowsStep
<1>5. CASE UNCHANGED cacheVars
  BY <1>5 DEF cacheVars, CacheInductive, CacheTypeOK, StaleIsAccounted, AbsentIsReported,
              TombstoneOnlyIfAbsent, LeadersFetch, JoinersHaveLeader
<1>. QED
  BY <1>1, <1>2, <1>3, <1>4, <1>5 DEF CacheNext

LEMMA CacheInvariant == CacheSpec => []CacheInductive
<1>. QED
  BY CacheInitInductive, CacheNextInductive, PTL DEF CacheSpec

\* The caches, the reads and the write under way keep their types.
THEOREM CacheTypeInvariant == CacheSpec => []CacheTypeOK
<1>1. CacheInductive => CacheTypeOK
  BY DEF CacheInductive
<1>. QED
  BY <1>1, CacheInvariant, PTL

\* After a write has returned only an overtaken or unannounced entry is out of date, no
\* outage is cached as absence, and no read waits for a fetch that is over.
THEOREM CachesAreSafe == CacheSpec => []CacheSafe
<1>1. CacheInductive => CacheSafe
  BY DEF CacheInductive, CacheSafe, StaleIsAccounted, StaleOnlyIfOvertaken
<1>. QED
  BY <1>1, CacheInvariant, PTL

(***************************************************************************)
(* Access                                                                  *)
(***************************************************************************)
-----------------------------------------------------------------------------
(* What is left to do: the suffixes of the lists of Handler *)

Guarding == <<"guard">>
LinkFromAsset == <<"asset", "device", "relate", "row">>
LinkFromDevice == <<"device", "relate", "row">>
LinkFromRelate == <<"relate", "row">>
LinkFromRow == <<"row">>
Assigning == <<"assign">>
UnlinkFromAsset == <<"asset", "unrelate">>
Unrelating == <<"unrelate">>
ClaimFromLook == <<"look", "assign", "elsewhere">>
ClaimFromAssign == <<"assign", "elsewhere">>
PatchFromRead == <<"read", "write">>
Writing == <<"write">>
Closing == <<"elsewhere">>

LinkTodos == {LinkFromAsset, LinkFromDevice, LinkFromRelate, LinkFromRow, Assigning}
UnlinkTodos == {UnlinkFromAsset, Unrelating}
ClaimTodos == {ClaimFromLook, ClaimFromAssign, Closing}
PatchTodos == {PatchFromRead, Writing}
Todos == {<<>>, Guarding, Closing} \cup LinkTodos \cup UnlinkTodos \cup ClaimTodos \cup PatchTodos

LEMMA TodoHeads ==
  ASSUME NEW t \in Todos, t # <<>>
  PROVE  /\ Head(t) = "guard" <=> t = Guarding
         /\ Head(t) = "asset" <=> t \in {LinkFromAsset, UnlinkFromAsset}
         /\ Head(t) = "device" <=> t = LinkFromDevice
         /\ Head(t) = "relate" <=> t = LinkFromRelate
         /\ Head(t) = "row" <=> t = LinkFromRow
         /\ Head(t) = "assign" <=> t \in {Assigning, ClaimFromAssign}
         /\ Head(t) = "unrelate" <=> t = Unrelating
         /\ Head(t) = "look" <=> t = ClaimFromLook
         /\ Head(t) = "read" <=> t = PatchFromRead
         /\ Head(t) = "write" <=> t = Writing
         /\ Head(t) = "elsewhere" <=> t = Closing
  BY DEF Todos, LinkTodos, UnlinkTodos, ClaimTodos, PatchTodos, Guarding, LinkFromAsset,
         LinkFromDevice, LinkFromRelate, LinkFromRow, Assigning, UnlinkFromAsset, Unrelating,
         ClaimFromLook, ClaimFromAssign, PatchFromRead, Writing, Closing

LEMMA TodoTails ==
  /\ Tail(LinkFromAsset) = LinkFromDevice
  /\ Tail(LinkFromDevice) = LinkFromRelate
  /\ Tail(LinkFromRelate) = LinkFromRow
  /\ Tail(UnlinkFromAsset) = Unrelating
  /\ Tail(ClaimFromLook) = ClaimFromAssign
  /\ Tail(ClaimFromAssign) = Closing
  /\ Tail(PatchFromRead) = Writing
  /\ \A t \in {Guarding, LinkFromRow, Assigning, Unrelating, Writing, Closing} : Tail(t) = <<>>
  BY DEF Guarding, LinkFromAsset, LinkFromDevice, LinkFromRelate, LinkFromRow, Assigning,
         UnlinkFromAsset, Unrelating, ClaimFromLook, ClaimFromAssign, PatchFromRead, Writing,
         Closing

\* Lists that begin with the same step differ in length.
LEMMA TodosDiffer ==
  /\ <<>> \notin {Guarding, Closing} \cup LinkTodos \cup UnlinkTodos \cup ClaimTodos
                   \cup PatchTodos
  /\ LinkFromAsset # UnlinkFromAsset /\ Assigning # ClaimFromAssign
  /\ Assigning \notin {LinkFromAsset, LinkFromDevice, LinkFromRelate, LinkFromRow}
<1>0. Assigning \notin {LinkFromAsset, LinkFromDevice, LinkFromRelate, LinkFromRow}
  BY DEF Assigning, LinkFromAsset, LinkFromDevice, LinkFromRelate, LinkFromRow
<1>1. Len(LinkFromAsset) = 4 /\ Len(UnlinkFromAsset) = 2
  BY DEF LinkFromAsset, UnlinkFromAsset
<1>2. Len(Assigning) = 1 /\ Len(ClaimFromAssign) = 2
  BY DEF Assigning, ClaimFromAssign
<1>3. <<>> \notin {Guarding, Closing} \cup LinkTodos \cup UnlinkTodos \cup ClaimTodos
                   \cup PatchTodos
  BY DEF LinkTodos, UnlinkTodos, ClaimTodos, PatchTodos, Guarding, LinkFromAsset,
         LinkFromDevice, LinkFromRelate, LinkFromRow, Assigning, UnlinkFromAsset, Unrelating,
         ClaimFromLook, ClaimFromAssign, PatchFromRead, Writing, Closing
<1>. QED
  BY <1>0, <1>1, <1>2, <1>3

-----------------------------------------------------------------------------
(* The inductive invariant *)

CallRecords ==
  [phase : {"idle", "guard", "handling", "ended"}, todo : Todos, route : Routes,
   target : Things \cup {Nil}, device : Devices \cup {Nil}, sets : SUBSET Fields,
   copy : [Fields -> Calls \cup {Nil}]]

AccessTypes ==
  /\ session \in [Calls -> Profiles]
  /\ owner \in [Assets \cup Devices -> Customers \cup {NoCustomer}]
  /\ row \in [Assets -> Customers \cup {NoCustomer}]
  /\ links \subseteq Assets \X Devices
  /\ info \in [Things -> [Fields -> Calls \cup {Nil}]]
  /\ wanted \in [Things -> [Fields -> Calls \cup {Nil}]]
  /\ reowned \subseteq Devices /\ moved \subseteq Calls /\ raced \subseteq Things
  /\ call \in [Calls -> CallRecords]

\* A hierarchy tracks an asset of its own customer.
RowsFollow == \A a \in Assets : row[a] \in {owner[a], NoCustomer}

\* What each kind of request is about.
About(r) ==
  /\ r.route.handler \in {"link", "unlink"} => r.target \in Assets /\ r.device \in Devices
  /\ r.route.handler = "claim" => r.device \in Devices
  /\ r.route.handler = "patch" => r.target \in Things

\* The steps each handler has left.
Left(r) ==
  /\ r.phase \in {"idle", "ended"} => r.todo = <<>>
  /\ r.phase = "guard" => r.todo = Guarding
  /\ r.phase = "handling" =>
       CASE r.route.handler = "link" -> r.todo \in LinkTodos
         [] r.route.handler = "unlink" -> r.todo \in UnlinkTodos
         [] r.route.handler = "claim" -> r.todo \in ClaimTodos
         [] r.route.handler = "patch" -> r.todo \in PatchTodos
         [] OTHER -> r.todo = Closing

\* What a customer user's link or claim has established on its way to the assignment.
Cleared(c, r) ==
  r.phase = "handling" =>
    /\ r.route.handler = "link" /\ r.todo = Assigning => row[r.target] # NoCustomer
    /\ r.route.handler = "link" /\ ~ Admin(c) =>
         /\ r.todo # LinkFromAsset => InScope(c, r.target)
         /\ r.todo \notin {LinkFromAsset, LinkFromDevice} => c \in moved \/ InScope(c, r.device)
    /\ r.route.handler = "claim" =>
         /\ ~ Admin(c) /\ session[c].customer # NoCustomer
         /\ r.todo = ClaimFromAssign => c \in moved \/ owner[r.device] = NoCustomer

\* What the guards have established, which is HandlersAreGuarded for one request.
Guarded(c, r) ==
  r.phase = "handling" =>
    /\ session[c].role = "READER" => r.route.method = "GET"
    /\ ~ Admin(c) => /\ r.route.role # "SYSADMIN"
                     /\ r.route.type = "none" \/ InScope(c, r.target) \/ r.target \in reowned

Good(c, r) == About(r) /\ Left(r) /\ Cleared(c, r) /\ Guarded(c, r)
CallInv(c) == Good(c, call[c])

AccessInductive ==
  AccessTypes /\ RowsFollow /\ (\A c \in Calls : CallInv(c)) /\ LostUpdateOnlyByOverlap

\* A route with an entity type is about an entity, and what does not mutate is a GET.
LEMMA RouteFacts ==
  ASSUME NEW route \in Routes
  PROVE  /\ route.method \in {"GET"} \cup Mutating
         /\ route = [method |-> route.method, type |-> route.type, role |-> route.role,
                     handler |-> route.handler]
         /\ route.handler \in {"elsewhere", "patch", "link", "unlink", "claim"}
         /\ route.handler \in {"link", "unlink"} => route.type = "ASSET"
         /\ route.handler = "claim" => route.type = "none"
         /\ route.handler = "patch" => route.type \in {"ASSET", "DEVICE", "CUSTOMER"}
  BY DEF Routes, AssetRoutes, DeviceRoutes, CustomerRoutes, UserRoutes, EntityRoutes,
         AttributeRoutes, On, Mutating

LEMMA AccessInitInv == AccessInit => AccessInductive
<1>. SUFFICES ASSUME AccessInit PROVE AccessInductive
  OBVIOUS
<1>1. On("GET", "none", "any", "elsewhere") \in Routes
  BY DEF Routes, AssetRoutes
<1>2. NoCall("idle") \in CallRecords /\ Unset \in [Fields -> Calls \cup {Nil}]
  BY <1>1 DEF NoCall, CallRecords, Todos, Unset
<1>3. AccessTypes
  BY <1>2 DEF AccessInit, AccessTypes
<1>4. \A c \in Calls : CallInv(c)
  BY DEF AccessInit, CallInv, Good, About, Left, Cleared, Guarded, NoCall, On
<1>. QED
  BY <1>3, <1>4 DEF AccessInductive, AccessInit, RowsFollow, LostUpdateOnlyByOverlap

\* A step of one request that changes no owner leaves what the others have established.
LEMMA OwnStepInv ==
  ASSUME AccessInductive, NEW c \in Calls, NEW r \in CallRecords, Becomes(c, r),
         UNCHANGED <<session, owner, row, reowned>>,
         moved' = moved \/ moved' = moved \ {c},
         links' \subseteq Assets \X Devices,
         info' \in [Things -> [Fields -> Calls \cup {Nil}]],
         wanted' \in [Things -> [Fields -> Calls \cup {Nil}]],
         raced' \subseteq Things,
         LostUpdateOnlyByOverlap', Good(c, r)'
  PROVE  AccessInductive'
<1>1. AccessTypes'
  BY DEF AccessInductive, AccessTypes, Becomes
<1>2. RowsFollow'
  BY DEF AccessInductive, RowsFollow
<1>0. call'[c] = r
  BY DEF AccessInductive, AccessTypes, Becomes
<1>4. CallInv(c)'
  BY <1>0 DEF CallInv, Good, Cleared, Guarded
<1>3. ASSUME NEW o \in Calls, o # c PROVE CallInv(o)'
  <2>1. call'[o] = call[o] /\ (o \in moved' <=> o \in moved)
    BY <1>3 DEF AccessInductive, AccessTypes, Becomes
  <2>2. CallInv(o)
    BY <1>3 DEF AccessInductive
  <2>. QED
    BY <2>1, <2>2 DEF CallInv, Good, Cleared, Guarded, Admin, InScope, Owner
<1>. QED
  BY <1>1, <1>2, <1>3, <1>4 DEF AccessInductive

\* An answered request has nothing left.
LEMMA EndedGood ==
  ASSUME NEW c \in Calls
  PROVE  Ended \in CallRecords /\ Good(c, Ended) /\ Good(c, Ended)'
<1>1. On("GET", "none", "any", "elsewhere") \in Routes
  BY DEF Routes, AssetRoutes
<1>2. Ended \in CallRecords
  BY <1>1 DEF Ended, NoCall, CallRecords, Todos, Unset
<1>. QED
  BY <1>2 DEF Ended, NoCall, On, Good, About, Left, Cleared, Guarded

\* Past the guards a handler starts: ReaderBlockGuard and RolesGuard let it, and the scope
\* guard looked or need not.
LEMMA EnterGood ==
  ASSUME NEW c \in Calls, NEW r \in CallRecords, About(r),
         ~ Admin(c) => r.route.type = "none" \/ InScope(c, r.target)
  PROVE  Enter(c, r) \in CallRecords /\ Good(c, Enter(c, r))
<1>1. CASE Refused(c, r.route)
  BY <1>1, EndedGood DEF Enter
<1>2. CASE ~ Refused(c, r.route)
  <2>. DEFINE todo == Handler(c, r.route)
              e == [phase |-> "handling", todo |-> todo, route |-> r.route, target |-> r.target,
                    device |-> r.device, sets |-> r.sets, copy |-> r.copy]
  <2>0. r.route \in Routes
    BY DEF CallRecords
  <2>1. /\ r.route.handler = "link" => todo \in {LinkFromAsset, LinkFromRelate}
        /\ r.route.handler = "link" /\ ~ Admin(c) => todo = LinkFromAsset
        /\ r.route.handler = "unlink" => todo \in UnlinkTodos
        /\ r.route.handler = "claim" => todo = ClaimFromLook
        /\ r.route.handler = "patch" => todo \in PatchTodos
        /\ r.route.handler \notin {"link", "unlink", "claim", "patch"} => todo = Closing
    BY <2>0, RouteFacts
    DEF Handler, LinkSteps, UnlinkTodos, PatchTodos, LinkFromAsset, LinkFromRelate,
        UnlinkFromAsset, Unrelating, ClaimFromLook, PatchFromRead, Closing
  <2>. HIDE DEF todo
  <2>2. todo \in Todos
    BY <2>1 DEF Todos, LinkTodos, ClaimTodos
  <2>3. Enter(c, r) = e
    BY <1>2 DEF Enter, CallRecords, todo
  <2>4. e \in CallRecords
    BY <2>2 DEF CallRecords
  <2>. HIDE DEF e
  <2>5. e.phase = "handling" /\ e.todo = todo /\ e.route = r.route /\ e.target = r.target
        /\ e.device = r.device
    BY DEF e
  <2>6. About(e)
    BY <2>5 DEF About
  <2>7. Left(e)
    BY <2>1, <2>5 DEF Left, LinkTodos, ClaimTodos
  <2>8. ClaimFromLook # ClaimFromAssign
    BY TodoHeads, TodosDiffer DEF Todos, ClaimTodos
  <2>9. Cleared(c, e)
    BY <1>2, <2>1, <2>5, <2>8, TodosDiffer DEF Cleared, Refused
  <2>10. Guarded(c, e)
    BY <1>2, <2>0, <2>5, RouteFacts DEF Guarded, Refused, Admitted
  <2>. QED
    BY <2>3, <2>4, <2>6, <2>7, <2>9, <2>10 DEF Good
<1>. QED
  BY <1>1, <1>2

\* What a request says of itself when it is at a step.
LEMMA AtStep ==
  ASSUME AccessInductive, NEW c \in Calls, NEW step, At(c, step)
  PROVE  /\ call[c] \in CallRecords /\ Good(c, call[c])
         /\ call[c].todo \in Todos \ {<<>>} /\ Head(call[c].todo) = step
         /\ call[c].phase = IF step = "guard" THEN "guard" ELSE "handling"
<1>1. call[c] \in CallRecords /\ Good(c, call[c])
  BY DEF AccessInductive, AccessTypes, CallInv
<1>2. call[c].todo \in Todos \ {<<>>} /\ Head(call[c].todo) = step
  BY <1>1 DEF At, CallRecords
<1>3. CASE call[c].phase = "guard"
  BY <1>1, <1>2, <1>3, TodoHeads DEF Good, Left
<1>4. CASE call[c].phase = "handling"
  <2>1. call[c].todo # Guarding
    <3>1. Guarding \notin LinkTodos \cup UnlinkTodos \cup ClaimTodos \cup PatchTodos
      <4>1. Head(Guarding) = "guard"
        BY DEF Guarding
      <4>2. \A t \in LinkTodos \cup UnlinkTodos \cup ClaimTodos \cup PatchTodos :
              Head(t) # "guard"
        BY DEF LinkTodos, UnlinkTodos, ClaimTodos, PatchTodos, LinkFromAsset, LinkFromDevice,
               LinkFromRelate, LinkFromRow, Assigning, UnlinkFromAsset, Unrelating,
               ClaimFromLook, ClaimFromAssign, PatchFromRead, Writing, Closing
      <4>. QED
        BY <4>1, <4>2
    <3>2. Closing \in ClaimTodos
      BY DEF ClaimTodos
    <3>. QED
      BY <1>1, <1>4, <3>1, <3>2 DEF Good, Left
  <2>. QED
    BY <1>1, <1>2, <1>4, <2>1, TodoHeads
<1>5. CASE call[c].phase \in {"idle", "ended"}
  BY <1>1, <1>2, <1>5 DEF Good, Left
<1>. QED
  BY <1>1, <1>2, <1>3, <1>4, <1>5 DEF CallRecords

\* The next step of a handler, or its answer.
LEMMA NextRequest ==
  ASSUME NEW c \in Calls, NEW t \in Todos \ {<<>>}, call[c] \in CallRecords
  PROVE  LET r == call[c]
             n == [phase |-> r.phase, todo |-> t, route |-> r.route, target |-> r.target,
                   device |-> r.device, sets |-> r.sets, copy |-> r.copy]
         IN  Onward(r, t) = n /\ n \in CallRecords
  BY DEF Onward, CallRecords

\* The handler a step is of.
LEMMA StepOfHandler ==
  ASSUME NEW r, Left(r), r.phase = "handling", r.todo \in Todos \ {<<>>}
  PROVE  /\ Head(r.todo) \in {"device", "relate", "row"} => r.route.handler = "link"
         /\ Head(r.todo) = "unrelate" => r.route.handler = "unlink"
         /\ Head(r.todo) = "look" => r.route.handler = "claim"
         /\ Head(r.todo) \in {"read", "write"} => r.route.handler = "patch"
         /\ r.todo = Assigning => r.route.handler = "link"
         /\ r.todo = ClaimFromAssign => r.route.handler = "claim"
<1>1. /\ \A t \in LinkTodos : Head(t) \in {"asset", "device", "relate", "row", "assign"}
      /\ \A t \in UnlinkTodos : Head(t) \in {"asset", "unrelate"}
      /\ \A t \in ClaimTodos : Head(t) \in {"look", "assign", "elsewhere"}
      /\ \A t \in PatchTodos : Head(t) \in {"read", "write"}
      /\ Head(Closing) = "elsewhere"
  BY DEF LinkTodos, UnlinkTodos, ClaimTodos, PatchTodos, LinkFromAsset, LinkFromDevice,
         LinkFromRelate, LinkFromRow, Assigning, UnlinkFromAsset, Unrelating, ClaimFromLook,
         ClaimFromAssign, PatchFromRead, Writing, Closing
<1>2. Head(Assigning) = "assign" /\ Head(ClaimFromAssign) = "assign"
  BY DEF Assigning, ClaimFromAssign
<1>3. Head(ClaimFromLook) = "look"
  BY DEF ClaimFromLook
<1>4. Assigning \notin ClaimTodos
  BY <1>1, <1>2, <1>3, TodosDiffer DEF ClaimTodos
<1>5. ClaimFromAssign \notin LinkTodos
  <2>1. Head(LinkFromAsset) = "asset" /\ Head(LinkFromDevice) = "device"
        /\ Head(LinkFromRelate) = "relate" /\ Head(LinkFromRow) = "row"
    BY DEF LinkFromAsset, LinkFromDevice, LinkFromRelate, LinkFromRow
  <2>. QED
    BY <1>2, <2>1, TodosDiffer DEF LinkTodos
<1>. QED
  BY <1>1, <1>2, <1>4, <1>5 DEF Left

LEMMA StartCallInv ==
  ASSUME AccessInductive, NEW c \in Calls, StartCall(c)
  PROVE  AccessInductive'
<1>0. PICK route \in Routes :
        \E e \in Targets(route), s \in SetBy(route),
           d \in (IF route.handler \in {"link", "unlink", "claim"} THEN Devices ELSE {Nil}) :
         LET r == [call[c] EXCEPT !.phase = "guard", !.todo = <<"guard">>, !.route = route,
                                  !.target = e, !.device = d, !.sets = s]
         IN  Becomes(c, IF Scoped(c, route) THEN r ELSE Enter(c, r))
  BY DEF StartCall
<1>1. PICK e \in Targets(route), s \in SetBy(route),
           d \in (IF route.handler \in {"link", "unlink", "claim"} THEN Devices ELSE {Nil}) :
         LET r == [call[c] EXCEPT !.phase = "guard", !.todo = <<"guard">>, !.route = route,
                                  !.target = e, !.device = d, !.sets = s]
         IN  Becomes(c, IF Scoped(c, route) THEN r ELSE Enter(c, r))
  BY <1>0
<1>. DEFINE r == [phase |-> "guard", todo |-> Guarding, route |-> route, target |-> e,
                  device |-> d, sets |-> s, copy |-> call[c].copy]
            b == IF Scoped(c, route) THEN r ELSE Enter(c, r)
<1>2. call[c] \in CallRecords
  BY DEF AccessInductive, AccessTypes
<1>3. r = [call[c] EXCEPT !.phase = "guard", !.todo = <<"guard">>, !.route = route,
                          !.target = e, !.device = d, !.sets = s]
  <2>1. PICK p \in CallRecords : p = call[c]
    BY <1>2
  <2>2. PICK p1 : p1 = [p EXCEPT !.phase = "guard", !.todo = <<"guard">>, !.route = route]
    OBVIOUS
  <2>3. p1 = [phase |-> "guard", todo |-> Guarding, route |-> route, target |-> p.target,
              device |-> p.device, sets |-> p.sets, copy |-> p.copy]
    BY <2>1, <2>2 DEF CallRecords, Guarding
  <2>6. PICK p2 : p2 = [p1 EXCEPT !.target = e]
    OBVIOUS
  <2>7. p2 = [phase |-> "guard", todo |-> Guarding, route |-> route, target |-> e,
              device |-> p.device, sets |-> p.sets, copy |-> p.copy]
    BY <2>3, <2>6
  <2>8. PICK p3 : p3 = [p2 EXCEPT !.device = d]
    OBVIOUS
  <2>9. p3 = [phase |-> "guard", todo |-> Guarding, route |-> route, target |-> e,
              device |-> d, sets |-> p.sets, copy |-> p.copy]
    BY <2>7, <2>8
  <2>10. [p3 EXCEPT !.sets = s] = r
    BY <2>1, <2>9
  <2>4. [p1 EXCEPT !.target = e, !.device = d, !.sets = s] = r
    BY <2>6, <2>8, <2>10
  <2>5. [p EXCEPT !.phase = "guard", !.todo = <<"guard">>, !.route = route,
                  !.target = e, !.device = d, !.sets = s]
          = [p1 EXCEPT !.target = e, !.device = d, !.sets = s]
    BY <2>2
  <2>. QED
    BY <2>1, <2>4, <2>5
<1>4. Becomes(c, b)
  BY <1>1, <1>3
<1>5. r \in CallRecords
  <2>1. e \in Things \cup {Nil} /\ d \in Devices \cup {Nil}
    BY DEF Targets, Things
  <2>2. s \in SUBSET Fields
    BY DEF SetBy, Fields
  <2>3. Guarding \in Todos
    BY DEF Todos
  <2>. QED
    BY <1>2, <2>1, <2>2, <2>3 DEF CallRecords
<1>6. About(r)
  BY RouteFacts DEF About, Targets, Things
<1>7. Good(c, r)
  BY <1>6 DEF Good, Left, Cleared, Guarded
<1>8. ~ Scoped(c, route) => (~ Admin(c) => r.route.type = "none" \/ InScope(c, r.target))
  BY DEF Scoped
<1>. HIDE DEF r
<1>9. b \in CallRecords /\ Good(c, b)
  <2>1. CASE Scoped(c, route)
    BY <1>5, <1>7, <2>1
  <2>2. CASE ~ Scoped(c, route)
    BY <1>5, <1>6, <1>8, <2>2, EnterGood
  <2>. QED
    BY <2>1, <2>2
<1>. HIDE DEF b
<1>10. PICK f : f = b
  OBVIOUS
<1>11. /\ UNCHANGED <<session, owner, row, links, info, reowned, moved, wanted, raced>>
  BY DEF StartCall
<1>12. Good(c, f)'
  BY <1>9, <1>10, <1>11 DEF Good, About, Left, Cleared, Guarded, Admin, InScope, Owner
<1>. QED
  BY <1>4, <1>9, <1>10, <1>11, <1>12, OwnStepInv
  DEF AccessInductive, AccessTypes, LostUpdateOnlyByOverlap

\* The rest of the handler after one of its steps: it is good if what the step established is.
LEMMA ProceedInv ==
  ASSUME AccessInductive, NEW c \in Calls, NEW t \in Todos,
         NEW copy \in [Fields -> Calls \cup {Nil}],
         call[c].phase = "handling",
         NEW r, r = (IF t = <<>> THEN Ended
                     ELSE [phase |-> "handling", todo |-> t, route |-> call[c].route,
                           target |-> call[c].target, device |-> call[c].device,
                           sets |-> call[c].sets, copy |-> copy]),
         Becomes(c, r),
         t # <<>> => Left(r) /\ Cleared(c, r)',
         UNCHANGED <<session, owner, row, reowned>>,
         moved' = moved \/ moved' = moved \ {c},
         links' \subseteq Assets \X Devices,
         info' \in [Things -> [Fields -> Calls \cup {Nil}]],
         wanted' \in [Things -> [Fields -> Calls \cup {Nil}]],
         raced' \subseteq Things,
         LostUpdateOnlyByOverlap'
  PROVE  AccessInductive'
<1>1. call[c] \in CallRecords /\ Good(c, call[c])
  BY DEF AccessInductive, AccessTypes, CallInv
<1>2. CASE t = <<>>
  BY <1>2, EndedGood, OwnStepInv
<1>3. CASE t # <<>>
  <2>1. r \in CallRecords
    BY <1>1, <1>3 DEF CallRecords
  <2>2. /\ r.phase = "handling" /\ r.route = call[c].route /\ r.target = call[c].target
        /\ r.device = call[c].device
    BY <1>3
  <2>3. About(r)
    BY <1>1, <2>2 DEF Good, About
  <2>4. Guarded(c, r)'
    BY <1>1, <2>2 DEF Good, Guarded, Admin, InScope, Owner
  <2>. QED
    BY <1>3, <2>1, <2>3, <2>4, OwnStepInv DEF Good, About, Left
<1>. QED
  BY <1>2, <1>3

LEMMA ProceedsTo ==
  ASSUME AccessInductive, NEW c \in Calls, call[c].todo \in Todos \ {<<>>},
         call[c].phase = "handling", NEW t \in Todos, t = Tail(call[c].todo)
  PROVE  Next1(c) = IF t = <<>> THEN Ended
                    ELSE [phase |-> "handling", todo |-> t, route |-> call[c].route,
                          target |-> call[c].target, device |-> call[c].device,
                          sets |-> call[c].sets, copy |-> call[c].copy]
<1>1. call[c] \in CallRecords
  BY DEF AccessInductive, AccessTypes
<1>2. CASE t = <<>>
  BY <1>2 DEF Next1, Onward
<1>3. CASE t # <<>>
  BY <1>1, <1>3, NextRequest DEF Next1
<1>. QED
  BY <1>2, <1>3

LEMMA CheckScopeInv ==
  ASSUME AccessInductive, NEW c \in Calls, CheckScope(c)
  PROVE  AccessInductive'
<1>. USE DEF AccessTypes
<1>0. /\ UNCHANGED <<session, owner, row, links, info, reowned, wanted, raced>>
      /\ moved' = moved \/ moved' = moved \ {c}
      /\ LostUpdateOnlyByOverlap'
  BY DEF CheckScope, AccessInductive, LostUpdateOnlyByOverlap
<1>1. CASE At(c, "guard")
  <2>1. /\ call[c] \in CallRecords /\ Good(c, call[c]) /\ call[c].todo \in Todos \ {<<>>}
        /\ Head(call[c].todo) = "guard"
    BY <1>1, AtStep
  <2>2. ~ At(c, "device") /\ ~ At(c, "asset")
    BY <1>1 DEF At
  <2>3. PICK b : /\ Becomes(c, b) /\ moved' = moved
                 /\ b = IF ~ InScope(c, call[c].target) THEN Ended ELSE Enter(c, call[c])
    BY <1>1, <2>2 DEF CheckScope
  <2>4. b \in CallRecords /\ Good(c, b)
    BY <2>1, <2>3, EndedGood, EnterGood DEF Good
  <2>5. Good(c, b)'
    BY <1>0, <2>3, <2>4 DEF Good, About, Left, Cleared, Guarded, Admin, InScope, Owner
  <2>. QED
    BY <1>0, <2>3, <2>4, <2>5, OwnStepInv DEF AccessInductive
<1>2. CASE At(c, "asset")
  <2>1. /\ call[c] \in CallRecords /\ Good(c, call[c]) /\ call[c].todo \in Todos \ {<<>>}
        /\ call[c].todo \in {LinkFromAsset, UnlinkFromAsset} /\ call[c].phase = "handling"
    BY <1>2, AtStep, TodoHeads
  <2>2. ~ At(c, "device") /\ ~ At(c, "guard")
    BY <1>2 DEF At
  <2>3. CASE ~ InScope(c, call[c].target)
    <3>1. Becomes(c, Ended)
      BY <2>2, <2>3 DEF CheckScope
    <3>. QED
      BY <1>0, <3>1, EndedGood, OwnStepInv DEF AccessInductive
  <2>4. CASE InScope(c, call[c].target)
    <3>1. PICK t \in {LinkFromDevice, Unrelating} : t = Tail(call[c].todo)
      BY <2>1, TodoTails
    <3>2. t \in Todos /\ t # <<>>
      BY TodosDiffer DEF Todos, LinkTodos, UnlinkTodos
    <3>3. PICK r : r = Next1(c)
      OBVIOUS
    <3>4. /\ Becomes(c, r) /\ moved' = moved
          /\ r = [phase |-> "handling", todo |-> t, route |-> call[c].route,
                  target |-> call[c].target, device |-> call[c].device,
                  sets |-> call[c].sets, copy |-> call[c].copy]
      BY <2>1, <2>2, <2>4, <3>1, <3>2, <3>3, ProceedsTo DEF CheckScope
    <3>5. /\ call[c].route.handler = "link" => t = LinkFromDevice
          /\ call[c].route.handler = "unlink" => t = Unrelating
          /\ call[c].route.handler \in {"link", "unlink"}
      <4>1. Head(call[c].todo) = "asset"
        BY <1>2 DEF At
      <4>. QED
        BY <2>1, <3>1, <4>1, TodoTails, TodosDiffer, TodoHeads
        DEF Good, Left, LinkTodos, UnlinkTodos, ClaimTodos, PatchTodos, Todos
    <3>6. Left(r)
      BY <3>4, <3>5 DEF Left, LinkTodos, UnlinkTodos
    <3>7. Cleared(c, r)'
      BY <1>0, <2>4, <3>4, <3>5, TodosDiffer DEF Cleared, Admin, InScope, Owner
    <3>. QED
      BY <1>0, <2>1, <3>2, <3>4, <3>6, <3>7, ProceedInv DEF AccessInductive, CallRecords
  <2>. QED
    BY <2>3, <2>4
<1>3. CASE At(c, "device")
  <2>1. /\ call[c] \in CallRecords /\ Good(c, call[c]) /\ call[c].todo \in Todos \ {<<>>}
        /\ call[c].todo = LinkFromDevice /\ call[c].phase = "handling"
    BY <1>3, AtStep, TodoHeads
  <2>2. ~ At(c, "asset") /\ ~ At(c, "guard")
    BY <1>3 DEF At
  <2>3. CASE ~ InScope(c, call[c].device)
    <3>1. Becomes(c, Ended)
      BY <1>3, <2>2, <2>3 DEF CheckScope
    <3>. QED
      BY <1>0, <3>1, EndedGood, OwnStepInv DEF AccessInductive
  <2>4. CASE InScope(c, call[c].device)
    <3>2. LinkFromRelate = Tail(call[c].todo) /\ LinkFromRelate \in Todos /\ LinkFromRelate # <<>>
      BY <2>1, TodoTails, TodosDiffer DEF Todos, LinkTodos
    <3>3. PICK r : r = Next1(c)
      OBVIOUS
    <3>4. /\ Becomes(c, r)
          /\ r = [phase |-> "handling", todo |-> LinkFromRelate, route |-> call[c].route,
                  target |-> call[c].target, device |-> call[c].device,
                  sets |-> call[c].sets, copy |-> call[c].copy]
      BY <1>3, <2>1, <2>2, <2>4, <3>2, <3>3, ProceedsTo DEF CheckScope
    <3>5. call[c].route.handler = "link" /\ LinkFromDevice # LinkFromAsset
      <4>1. Head(LinkFromDevice) = "device" /\ LinkFromDevice \in Todos
        BY DEF LinkFromDevice, Todos, LinkTodos
      <4>. QED
        BY <2>1, <4>1, TodosDiffer, TodoHeads
        DEF Good, Left, UnlinkTodos, ClaimTodos, PatchTodos, LinkFromAsset, LinkFromDevice,
            Unrelating, UnlinkFromAsset, ClaimFromLook, ClaimFromAssign, Closing,
            PatchFromRead, Writing
    <3>6. Left(r)
      BY <3>4, <3>5 DEF Left, LinkTodos
    <3>7. Cleared(c, r)'
      BY <1>0, <2>1, <2>4, <3>4, <3>5, TodosDiffer DEF Cleared, Good, Admin, InScope, Owner
    <3>. QED
      BY <1>0, <2>1, <3>2, <3>4, <3>6, <3>7, ProceedInv DEF AccessInductive, CallRecords
  <2>. QED
    BY <2>3, <2>4
<1>. QED
  BY <1>1, <1>2, <1>3 DEF CheckScope

LEMMA RelateInv ==
  ASSUME AccessInductive, NEW c \in Calls, Relate(c)
  PROVE  AccessInductive'
<1>0. /\ UNCHANGED <<session, owner, row, info, reowned, moved, wanted, raced>>
      /\ LostUpdateOnlyByOverlap' /\ Becomes(c, Next1(c))
  BY DEF Relate, AccessInductive, LostUpdateOnlyByOverlap
<1>1. /\ call[c] \in CallRecords /\ Good(c, call[c]) /\ call[c].todo \in Todos \ {<<>>}
      /\ call[c].todo \in {LinkFromRelate, Unrelating} /\ call[c].phase = "handling"
      /\ Head(call[c].todo) \in {"relate", "unrelate"}
  BY AtStep, TodoHeads DEF Relate
<1>2. /\ call[c].todo = LinkFromRelate => call[c].route.handler = "link"
      /\ call[c].todo = Unrelating => call[c].route.handler = "unlink"
  <2>1. Head(LinkFromRelate) = "relate" /\ Head(Unrelating) = "unrelate"
    BY DEF LinkFromRelate, Unrelating
  <2>. QED
    BY <1>1, <2>1, StepOfHandler DEF Good
<1>3. links' \subseteq Assets \X Devices
  <2>1. call[c].target \in Assets /\ call[c].device \in Devices
    BY <1>1, <1>2 DEF Good, About
  <2>. QED
    BY <2>1 DEF Relate, AccessInductive, AccessTypes
<1>4. PICK t : t = Tail(call[c].todo)
  OBVIOUS
<1>5. /\ call[c].todo = LinkFromRelate => t = LinkFromRow
      /\ call[c].todo = Unrelating => t = <<>>
  BY <1>4, TodoTails
<1>6. t \in Todos
  BY <1>1, <1>5 DEF Todos, LinkTodos
<1>7. PICK r : r = Next1(c)
  OBVIOUS
<1>8. r = IF t = <<>> THEN Ended
          ELSE [phase |-> "handling", todo |-> t, route |-> call[c].route,
                target |-> call[c].target, device |-> call[c].device,
                sets |-> call[c].sets, copy |-> call[c].copy]
  BY <1>1, <1>4, <1>6, <1>7, ProceedsTo
<1>9. ASSUME t # <<>> PROVE Left(r) /\ Cleared(c, r)'
  <2>1. t = LinkFromRow /\ call[c].todo = LinkFromRelate /\ call[c].route.handler = "link"
    BY <1>1, <1>2, <1>5, <1>9
  <2>2. /\ r.phase = "handling" /\ r.todo = LinkFromRow /\ r.route = call[c].route
        /\ r.target = call[c].target /\ r.device = call[c].device
    BY <1>8, <1>9, <2>1
  <2>3. LinkFromRelate \notin {LinkFromAsset, LinkFromDevice}
    BY DEF LinkFromAsset, LinkFromDevice, LinkFromRelate
  <2>4. Left(r)
    BY <2>1, <2>2 DEF Left, LinkTodos
  <2>5. Cleared(c, r)'
    BY <1>0, <1>1, <2>1, <2>2, <2>3, TodosDiffer DEF Cleared, Good, Admin, InScope, Owner
  <2>. QED
    BY <2>4, <2>5
<1>10. call[c].copy \in [Fields -> Calls \cup {Nil}]
  BY <1>1 DEF CallRecords
<1>11. /\ info' \in [Things -> [Fields -> Calls \cup {Nil}]]
       /\ wanted' \in [Things -> [Fields -> Calls \cup {Nil}]]
       /\ raced' \subseteq Things
  BY <1>0 DEF AccessInductive, AccessTypes
<1>12. Becomes(c, r)
  BY <1>0, <1>7
<1>. QED
  BY <1>0, <1>1, <1>3, <1>6, <1>8, <1>9, <1>10, <1>11, <1>12, ProceedInv

LEMMA FindRowInv ==
  ASSUME AccessInductive, NEW c \in Calls, FindRow(c)
  PROVE  AccessInductive'
<1>0. /\ UNCHANGED <<session, owner, row, links, info, reowned, moved, wanted, raced>>
      /\ LostUpdateOnlyByOverlap'
  BY DEF FindRow, AccessInductive, LostUpdateOnlyByOverlap
<1>1. /\ call[c] \in CallRecords /\ Good(c, call[c]) /\ call[c].todo \in Todos \ {<<>>}
      /\ call[c].todo = LinkFromRow /\ call[c].phase = "handling"
      /\ Head(call[c].todo) = "row"
  BY AtStep, TodoHeads DEF FindRow
<1>2. call[c].route.handler = "link"
  BY <1>1, StepOfHandler DEF Good
<1>3. PICK t \in {<<>>, Assigning} :
        (t = <<>> \/ row[call[c].target] # NoCustomer) /\ Becomes(c, IF t = <<>> THEN Ended
                   ELSE [phase |-> "handling", todo |-> t, route |-> call[c].route,
                         target |-> call[c].target, device |-> call[c].device,
                         sets |-> call[c].sets, copy |-> call[c].copy])
  <2>1. CASE row[call[c].target] = NoCustomer
    <3>1. <<>> = Tail(call[c].todo) /\ <<>> \in Todos
      BY <1>1, TodoTails DEF Todos
    <3>2. Next1(c) = Ended
      BY <1>1, <3>1, ProceedsTo
    <3>. QED
      BY <2>1, <3>2 DEF FindRow
  <2>2. CASE row[call[c].target] # NoCustomer
    <3>1. Assigning \in Todos \ {<<>>} /\ Assigning = <<"assign">>
      BY TodosDiffer DEF Todos, LinkTodos, Assigning
    <3>2. Onward(call[c], Assigning)
            = [phase |-> call[c].phase, todo |-> Assigning, route |-> call[c].route,
               target |-> call[c].target, device |-> call[c].device,
               sets |-> call[c].sets, copy |-> call[c].copy]
      BY <1>1, <3>1, NextRequest
    <3>. QED
      BY <1>1, <2>2, <3>1, <3>2 DEF FindRow
  <2>. QED
    BY <2>1, <2>2
<1>4. PICK r : r = IF t = <<>> THEN Ended
                   ELSE [phase |-> "handling", todo |-> t, route |-> call[c].route,
                         target |-> call[c].target, device |-> call[c].device,
                         sets |-> call[c].sets, copy |-> call[c].copy]
  OBVIOUS
<1>5. ASSUME t # <<>> PROVE Left(r) /\ Cleared(c, r)'
  <2>1. /\ r.phase = "handling" /\ r.todo = Assigning /\ r.route = call[c].route
        /\ r.target = call[c].target /\ r.device = call[c].device
    BY <1>4, <1>5
  <2>2. LinkFromRow \notin {LinkFromAsset, LinkFromDevice}
    BY DEF LinkFromAsset, LinkFromDevice, LinkFromRow
  <2>3. Left(r)
    BY <1>2, <2>1 DEF Left, LinkTodos
  <2>4. Cleared(c, r)'
    BY <1>0, <1>1, <1>2, <1>3, <1>5, <2>1, <2>2 DEF Cleared, Good, Admin, InScope, Owner
  <2>. QED
    BY <2>3, <2>4
<1>6. t \in Todos
  BY DEF Todos, LinkTodos
<1>. QED
  BY <1>0, <1>1, <1>3, <1>4, <1>5, <1>6, ProceedInv DEF AccessInductive, AccessTypes, CallRecords

LEMMA LookAtOwnerInv ==
  ASSUME AccessInductive, NEW c \in Calls, LookAtOwner(c)
  PROVE  AccessInductive'
<1>0. /\ UNCHANGED <<session, owner, row, links, info, reowned, wanted, raced>>
      /\ moved' = moved \ {c} /\ LostUpdateOnlyByOverlap'
  BY DEF LookAtOwner, AccessInductive, LostUpdateOnlyByOverlap
<1>1. /\ call[c] \in CallRecords /\ Good(c, call[c]) /\ call[c].todo \in Todos \ {<<>>}
      /\ call[c].todo = ClaimFromLook /\ call[c].phase = "handling"
      /\ Head(call[c].todo) = "look"
  BY AtStep, TodoHeads DEF LookAtOwner
<1>2. call[c].route.handler = "claim"
  BY <1>1, StepOfHandler DEF Good
<1>3. CASE owner[call[c].device] # NoCustomer
  <2>1. Becomes(c, Ended)
    BY <1>3 DEF LookAtOwner
  <2>. QED
    BY <1>0, <2>1, EndedGood, OwnStepInv DEF AccessInductive, AccessTypes
<1>4. CASE owner[call[c].device] = NoCustomer
  <2>1. ClaimFromAssign = Tail(call[c].todo) /\ ClaimFromAssign \in Todos \ {<<>>}
    BY <1>1, TodoTails, TodosDiffer DEF Todos, ClaimTodos
  <2>2. PICK r : r = Next1(c)
    OBVIOUS
  <2>3. /\ Becomes(c, r)
        /\ r = [phase |-> "handling", todo |-> ClaimFromAssign, route |-> call[c].route,
                target |-> call[c].target, device |-> call[c].device,
                sets |-> call[c].sets, copy |-> call[c].copy]
    BY <1>1, <1>4, <2>1, <2>2, ProceedsTo DEF LookAtOwner
  <2>4. Left(r)
    BY <1>2, <2>3 DEF Left, ClaimTodos
  <2>5. Cleared(c, r)'
    BY <1>0, <1>1, <1>2, <1>4, <2>3 DEF Cleared, Good, Admin
  <2>. QED
    BY <1>0, <1>1, <2>1, <2>3, <2>4, <2>5, ProceedInv DEF AccessInductive, AccessTypes, CallRecords
<1>. QED
  BY <1>3, <1>4

\* The handler goes on with what its request carries, or with another copy.
LEMMA PlainStepInv ==
  ASSUME AccessInductive, NEW c \in Calls, NEW copy \in [Fields -> Calls \cup {Nil}],
         NEW t \in {<<>>, Writing}, call[c].phase = "handling",
         NEW r, r = (IF t = <<>> THEN Ended
                     ELSE [phase |-> "handling", todo |-> t, route |-> call[c].route,
                           target |-> call[c].target, device |-> call[c].device,
                           sets |-> call[c].sets, copy |-> copy]),
         Becomes(c, r), t # <<>> => call[c].route.handler = "patch",
         UNCHANGED <<session, owner, row, links, reowned, moved>>,
         info' \in [Things -> [Fields -> Calls \cup {Nil}]],
         wanted' \in [Things -> [Fields -> Calls \cup {Nil}]],
         raced' \subseteq Things, LostUpdateOnlyByOverlap'
  PROVE  AccessInductive'
<1>1. t \in Todos
  BY DEF Todos, PatchTodos
<1>2. ASSUME t # <<>> PROVE Left(r) /\ Cleared(c, r)'
  <2>1. r.phase = "handling" /\ r.todo = Writing /\ r.route.handler = "patch"
    BY <1>2
  <2>. QED
    BY <2>1 DEF Left, Cleared, PatchTodos
<1>. QED
  BY <1>1, <1>2, ProceedInv DEF AccessInductive, AccessTypes

LEMMA ReadEntityInv ==
  ASSUME AccessInductive, NEW c \in Calls, ReadEntity(c)
  PROVE  AccessInductive'
<1>0. /\ UNCHANGED <<session, owner, row, links, info, reowned, moved, wanted, raced>>
      /\ LostUpdateOnlyByOverlap'
  BY DEF ReadEntity, AccessInductive, LostUpdateOnlyByOverlap
<1>1. /\ call[c] \in CallRecords /\ Good(c, call[c]) /\ call[c].todo \in Todos \ {<<>>}
      /\ call[c].todo = PatchFromRead /\ call[c].phase = "handling"
      /\ Head(call[c].todo) = "read"
  BY AtStep, TodoHeads DEF ReadEntity
<1>2. call[c].route.handler = "patch"
  BY <1>1, StepOfHandler DEF Good
<1>3. info[call[c].target] \in [Fields -> Calls \cup {Nil}]
  BY <1>1, <1>2 DEF Good, About, AccessInductive, AccessTypes
<1>4. Writing = Tail(call[c].todo) /\ Writing \in Todos \ {<<>>}
  BY <1>1, TodoTails, TodosDiffer DEF Todos, PatchTodos
<1>5. PICK n : n = [phase |-> "handling", todo |-> Writing, route |-> call[c].route,
                    target |-> call[c].target, device |-> call[c].device,
                    sets |-> call[c].sets, copy |-> call[c].copy]
  OBVIOUS
<1>6. Next1(c) = n
  BY <1>1, <1>4, <1>5, ProceedsTo
<1>7. [n EXCEPT !.copy = info[call[c].target]]
        = [phase |-> "handling", todo |-> Writing, route |-> call[c].route,
           target |-> call[c].target, device |-> call[c].device,
           sets |-> call[c].sets, copy |-> info[call[c].target]]
  BY <1>5
<1>8. Becomes(c, [phase |-> "handling", todo |-> Writing, route |-> call[c].route,
                  target |-> call[c].target, device |-> call[c].device,
                  sets |-> call[c].sets, copy |-> info[call[c].target]])
  BY <1>6, <1>7 DEF ReadEntity
<1>. QED
  BY <1>0, <1>1, <1>2, <1>3, <1>4, <1>8, PlainStepInv DEF AccessInductive, AccessTypes

LEMMA WriteEntityInv ==
  ASSUME AccessInductive, NEW c \in Calls, WriteEntity(c)
  PROVE  AccessInductive'
<1>1. /\ call[c] \in CallRecords /\ Good(c, call[c]) /\ call[c].todo \in Todos \ {<<>>}
      /\ call[c].todo = Writing /\ call[c].phase = "handling"
      /\ Head(call[c].todo) = "write"
  BY AtStep, TodoHeads DEF WriteEntity
<1>2. call[c].route.handler = "patch"
  BY <1>1, StepOfHandler DEF Good
<1>3. PICK e \in Things : e = call[c].target
  BY <1>1, <1>2 DEF Good, About
<1>4. PICK asked : asked = [f \in Fields |-> IF f \in call[c].sets THEN c ELSE wanted[e][f]]
  OBVIOUS
<1>5. PICK merged : merged = Merged(c)
  OBVIOUS
<1>6. /\ info \in [Things -> [Fields -> Calls \cup {Nil}]]
      /\ wanted \in [Things -> [Fields -> Calls \cup {Nil}]]
      /\ raced \subseteq Things
      /\ call[c].copy \in [Fields -> Calls \cup {Nil}]
  BY <1>1 DEF AccessInductive, AccessTypes, CallRecords
<1>7. merged \in [Fields -> Calls \cup {Nil}] /\ asked \in [Fields -> Calls \cup {Nil}]
  BY <1>4, <1>5, <1>6 DEF Merged
<1>8. /\ info' = [info EXCEPT ![e] = merged] /\ wanted' = [wanted EXCEPT ![e] = asked]
      /\ raced' = IF info[e] = call[c].copy THEN raced ELSE raced \cup {e}
      /\ UNCHANGED <<session, owner, row, links, reowned, moved>>
      /\ Becomes(c, Next1(c))
  BY <1>3, <1>4, <1>5 DEF WriteEntity
<1>9. /\ info' \in [Things -> [Fields -> Calls \cup {Nil}]]
      /\ wanted' \in [Things -> [Fields -> Calls \cup {Nil}]]
      /\ raced' \subseteq Things
  BY <1>6, <1>7, <1>8
<1>10. LostUpdateOnlyByOverlap'
  <2>1. ASSUME NEW g \in Things PROVE g \in raced' \/ info'[g] = wanted'[g]
    <3>1. CASE g # e
      BY <1>6, <1>8, <3>1 DEF AccessInductive, LostUpdateOnlyByOverlap
    <3>2. CASE g = e /\ info[e] # call[c].copy
      BY <1>8, <3>2
    <3>3. CASE g = e /\ info[e] = call[c].copy
      <4>1. e \in raced \/ info[e] = wanted[e]
        BY DEF AccessInductive, LostUpdateOnlyByOverlap
      <4>2. info[e] = wanted[e] => merged = asked
        BY <1>4, <1>5, <3>3 DEF Merged
      <4>. QED
        BY <1>6, <1>8, <3>3, <4>1, <4>2
    <3>. QED
      BY <3>1, <3>2, <3>3
  <2>. QED
    BY <2>1 DEF LostUpdateOnlyByOverlap
<1>11. Next1(c) = Ended
  <2>1. <<>> = Tail(call[c].todo) /\ <<>> \in Todos
    BY <1>1, TodoTails DEF Todos
  <2>. QED
    BY <1>1, <2>1, ProceedsTo
<1>. QED
  BY <1>1, <1>8, <1>9, <1>10, <1>11, PlainStepInv, <1>6

LEMMA EndsInv ==
  ASSUME AccessInductive, NEW c \in Calls, Elsewhere(c) \/ UpstreamFails(c)
  PROVE  AccessInductive'
<1>1. /\ UNCHANGED <<session, owner, row, links, info, reowned, moved, wanted, raced>>
      /\ LostUpdateOnlyByOverlap'
  BY DEF Elsewhere, UpstreamFails, AccessInductive, LostUpdateOnlyByOverlap
<1>2. Becomes(c, Ended)
  <2>1. CASE Elsewhere(c)
    <3>1. /\ call[c].todo \in Todos \ {<<>>} /\ call[c].todo = Closing
          /\ call[c].phase = "handling"
      BY <2>1, AtStep, TodoHeads DEF Elsewhere
    <3>2. <<>> = Tail(call[c].todo) /\ <<>> \in Todos
      BY <3>1, TodoTails DEF Todos
    <3>3. Next1(c) = Ended
      BY <3>1, <3>2, ProceedsTo
    <3>. QED
      BY <2>1, <3>3 DEF Elsewhere
  <2>2. CASE UpstreamFails(c)
    BY <2>2 DEF UpstreamFails
  <2>. QED
    BY <2>1, <2>2
<1>. QED
  BY <1>1, <1>2, EndedGood, OwnStepInv DEF AccessInductive, AccessTypes

LEMMA AssignDeviceInv ==
  ASSUME AccessInductive, NEW c \in Calls, AssignDevice(c)
  PROVE  AccessInductive'
<1>. USE AccessAssumption
<1>1. /\ call[c] \in CallRecords /\ Good(c, call[c]) /\ call[c].todo \in Todos \ {<<>>}
      /\ call[c].todo \in {Assigning, ClaimFromAssign} /\ call[c].phase = "handling"
      /\ Head(call[c].todo) = "assign"
  BY AtStep, TodoHeads DEF AssignDevice
<1>2. /\ call[c].todo = Assigning => call[c].route.handler = "link"
      /\ call[c].todo = ClaimFromAssign => call[c].route.handler = "claim"
  BY <1>1, StepOfHandler DEF Good
<1>3. PICK d \in Devices : d = call[c].device
  BY <1>1, <1>2 DEF Good, About
<1>4. PICK k : k = IF call[c].route.handler = "claim" THEN session[c].customer
                   ELSE row[call[c].target]
  OBVIOUS
<1>5. k \in Customers \cup {NoCustomer}
  BY <1>1, <1>2, <1>4 DEF Good, About, AccessInductive, AccessTypes
<1>6. /\ owner' = [owner EXCEPT ![d] = k] /\ reowned' = reowned \cup {d}
      /\ moved' = moved \cup {o \in Calls : o # c /\ call[o].device = d}
      /\ UNCHANGED <<session, row, links, info, wanted, raced>>
      /\ Becomes(c, Next1(c))
  BY <1>3, <1>4 DEF AssignDevice
<1>7. PICK t \in {<<>>, Closing} : t = Tail(call[c].todo)
  BY <1>1, TodoTails
<1>8. PICK r : r = Next1(c)
  OBVIOUS
<1>9. r = IF t = <<>> THEN Ended
          ELSE [phase |-> "handling", todo |-> t, route |-> call[c].route,
                target |-> call[c].target, device |-> call[c].device,
                sets |-> call[c].sets, copy |-> call[c].copy]
  BY <1>1, <1>7, <1>8, ProceedsTo DEF Todos
<1>10. t = Closing => call[c].route.handler = "claim"
  BY <1>1, <1>2, <1>7, TodoTails, TodosDiffer
<1>11. r \in CallRecords
  BY <1>1, <1>9, EndedGood DEF CallRecords, Todos
<1>12. AccessTypes'
  BY <1>3, <1>5, <1>6, <1>8, <1>11 DEF AccessInductive, AccessTypes, Becomes
<1>13. \A e \in Assets \cup Devices : e # d => owner'[e] = owner[e]
  BY <1>6 DEF AccessInductive, AccessTypes
<1>14. RowsFollow'
  BY <1>3, <1>6, <1>13 DEF AccessInductive, RowsFollow
<1>15. ASSUME NEW o \in Calls, o # c PROVE CallInv(o)'
  <2>1. call'[o] = call[o] /\ call[o] \in CallRecords /\ Good(o, call[o])
    BY <1>6, <1>15 DEF AccessInductive, AccessTypes, Becomes, CallInv
  <2>. PICK q : q = call[o]
    OBVIOUS
  <2>2. About(q) /\ Left(q)
    BY <2>1 DEF Good
  <2>3. Cleared(o, q)'
    BY <1>3, <1>6, <1>13, <1>15, <2>1 DEF Cleared, Good, About, InScope, Owner, Admin
  <2>4. Guarded(o, q)'
    BY <1>3, <1>6, <1>13, <1>15, <2>1 DEF Guarded, Good, InScope, Owner, Admin
  <2>. QED
    BY <2>1, <2>2, <2>3, <2>4 DEF CallInv, Good
<1>16. CallInv(c)'
  <2>1. call'[c] = r
    BY <1>6, <1>8 DEF AccessInductive, AccessTypes, Becomes
  <2>2. CASE t = <<>>
    BY <1>9, <2>1, <2>2, EndedGood DEF CallInv, Good, Cleared, Guarded
  <2>3. CASE t # <<>>
    <3>1. /\ r.phase = "handling" /\ r.todo = Closing /\ r.route = call[c].route
          /\ r.device = call[c].device /\ r.route.handler = "claim"
      BY <1>7, <1>9, <1>10, <2>3
    <3>2. Closing # ClaimFromAssign
      BY DEF Closing, ClaimFromAssign
    <3>3. About(r) /\ Left(r)
      BY <1>1, <3>1 DEF About, Left, Good, ClaimTodos
    <3>4. Cleared(c, r)'
      BY <1>1, <1>6, <3>1, <3>2 DEF Cleared, Good, Admin
    <3>5. r.route.type = "none"
      BY <1>1, <3>1, RouteFacts DEF CallRecords
    <3>6. Guarded(c, r)'
      BY <1>1, <1>6, <3>1, <3>5 DEF Guarded, Good, Admin
    <3>. QED
      BY <2>1, <3>3, <3>4, <3>6 DEF CallInv, Good, Cleared, Guarded
  <2>. QED
    BY <2>2, <2>3
<1>17. LostUpdateOnlyByOverlap'
  BY <1>6 DEF AccessInductive, LostUpdateOnlyByOverlap
<1>. QED
  BY <1>12, <1>14, <1>15, <1>16, <1>17 DEF AccessInductive

LEMMA AccessNextInv == AccessInductive /\ [AccessNext]_accessVars => AccessInductive'
<1>. SUFFICES ASSUME AccessInductive, [AccessNext]_accessVars PROVE AccessInductive'
  OBVIOUS
<1>1. CASE UNCHANGED accessVars
  BY <1>1 DEF accessVars, AccessInductive, AccessTypes, RowsFollow, CallInv, Good, Cleared,
             Guarded, LostUpdateOnlyByOverlap, Admin, InScope, Owner
<1>. QED
  BY <1>1, StartCallInv, CheckScopeInv, RelateInv, FindRowInv, LookAtOwnerInv, AssignDeviceInv,
     ReadEntityInv, WriteEntityInv, EndsInv DEF AccessNext

\* Every variable has its type, and a request that is neither new nor answered has steps left.
THEOREM AccessTypesOK == AccessSpec => []AccessTypeOK
<1>1. AccessInductive => AccessTypeOK
  <2>1. ASSUME AccessInductive, NEW c \in Calls
        PROVE  /\ call[c].phase \in {"idle", "guard", "handling", "ended"}
               /\ call[c].todo = <<>> <=> call[c].phase \notin {"guard", "handling"}
    <3>1. call[c] \in CallRecords /\ Left(call[c])
      BY <2>1 DEF AccessInductive, AccessTypes, CallInv, Good
    <3>. QED
      BY <3>1, TodosDiffer DEF Left, CallRecords
  <2>. QED
    BY <2>1 DEF AccessInductive, AccessTypes, AccessTypeOK
<1>. QED
  BY <1>1, AccessInitInv, AccessNextInv, PTL DEF AccessSpec

\* A handler never runs for a reader who may only read, nor for a customer user who may not or
\* outside his hierarchy, whatever requests run beside it: for any hierarchy of customers, any
\* sessions and any number of requests.
THEOREM AccessIsGuarded == AccessSpec => []HandlersAreGuarded
<1>1. AccessInductive => HandlersAreGuarded
  BY DEF AccessInductive, CallInv, Good, Guarded, HandlersAreGuarded
<1>. QED
  BY <1>1, AccessInitInv, AccessNextInv, PTL DEF AccessSpec

\* An update is lost only where two updates of the same entity overlapped.
THEOREM UpdatesAreKept == AccessSpec => []LostUpdateOnlyByOverlap
<1>1. AccessInductive => LostUpdateOnlyByOverlap
  BY DEF AccessInductive
<1>. QED
  BY <1>1, AccessInitInv, AccessNextInv, PTL DEF AccessSpec

\* One step that gives a device another owner.
LEMMA MoveIsScoped ==
  ASSUME AccessInductive, NEW d \in Devices, owner'[d] # owner[d], [AccessNext]_accessVars
  PROVE  \E c \in Calls :
           /\ call[c].device = d /\ call'[c] # call[c]
           /\ \/ Admin(c)
              \/ /\ session[c].customer # NoCustomer
                 /\ owner'[d] \in Scope[session[c].customer]
                 /\ \/ c \in moved \/ InScope(c, d)
                    \/ owner[d] = NoCustomer /\ call[c].route.handler = "claim"
<1>. USE AccessAssumption
<1>1. PICK c \in Calls : AssignDevice(c)
  BY DEF AccessNext, accessVars, StartCall, CheckScope, Relate, FindRow, LookAtOwner,
         ReadEntity, WriteEntity, Elsewhere, UpstreamFails
<1>2. /\ call[c] \in CallRecords /\ Good(c, call[c]) /\ call[c].todo \in Todos \ {<<>>}
      /\ call[c].todo \in {Assigning, ClaimFromAssign} /\ call[c].phase = "handling"
  BY <1>1, AtStep, TodoHeads DEF AssignDevice
<1>3. /\ call[c].todo = Assigning => call[c].route.handler = "link"
      /\ call[c].todo = ClaimFromAssign => call[c].route.handler = "claim"
  BY <1>2, StepOfHandler DEF Good
<1>4. call[c].device = d
  BY <1>1 DEF AssignDevice, AccessInductive, AccessTypes
<1>5. owner'[d] = IF call[c].route.handler = "claim" THEN session[c].customer
                  ELSE row[call[c].target]
  BY <1>1, <1>4 DEF AssignDevice, AccessInductive, AccessTypes
<1>6. call'[c] # call[c]
  <2>1. PICK t \in {<<>>, Closing} : t = Tail(call[c].todo)
    BY <1>2, TodoTails
  <2>2. Next1(c).todo = t
    <3>1. t \in Todos
      BY DEF Todos
    <3>2. Next1(c) = IF t = <<>> THEN Ended
                     ELSE [phase |-> "handling", todo |-> t, route |-> call[c].route,
                           target |-> call[c].target, device |-> call[c].device,
                           sets |-> call[c].sets, copy |-> call[c].copy]
      BY <1>2, <2>1, <3>1, ProceedsTo
    <3>. QED
      BY <3>2 DEF Ended, NoCall
  <2>3. call'[c].todo = t
    BY <1>1, <2>2 DEF AssignDevice, Becomes, AccessInductive, AccessTypes
  <2>4. Head(Closing) = "elsewhere" /\ Head(Assigning) = "assign"
        /\ Head(ClaimFromAssign) = "assign"
    BY DEF Closing, Assigning, ClaimFromAssign
  <2>. QED
    BY <1>2, <2>1, <2>3, <2>4
<1>7. CASE call[c].todo = ClaimFromAssign
  <2>1. /\ session[c].customer # NoCustomer
        /\ c \in moved \/ owner[d] = NoCustomer
    BY <1>2, <1>3, <1>4, <1>7 DEF Good, Cleared
  <2>2. session[c].customer \in Customers
    BY <2>1 DEF AccessInductive, AccessTypes
  <2>. QED
    BY <1>3, <1>4, <1>5, <1>6, <1>7, <2>1, <2>2
<1>8. CASE call[c].todo = Assigning /\ ~ Admin(c)
  <2>1. Assigning \notin {LinkFromAsset, LinkFromDevice}
    BY DEF Assigning, LinkFromAsset, LinkFromDevice
  <2>2. InScope(c, call[c].target) /\ (c \in moved \/ InScope(c, d))
    BY <1>2, <1>3, <1>4, <1>8, <2>1 DEF Good, Cleared
  <2>3. call[c].target \in Assets
    BY <1>2, <1>3, <1>8 DEF Good, About
  <2>4. /\ session[c].customer \in Customers
        /\ owner[call[c].target] \in Scope[session[c].customer]
    BY <2>2, <2>3 DEF InScope, Owner, AccessInductive, AccessTypes
  <2>5. row[call[c].target] = owner[call[c].target]
    BY <1>2, <1>3, <1>8, <2>3 DEF Good, Cleared, AccessInductive, RowsFollow
  <2>. QED
    BY <1>3, <1>4, <1>5, <1>6, <1>8, <2>2, <2>4, <2>5, TodosDiffer DEF Good, Left
<1>9. CASE Admin(c)
  BY <1>4, <1>6, <1>9
<1>. QED
  BY <1>2, <1>7, <1>8, <1>9

\* A device changes hands only by a sysadmin, or within the hierarchy of who moves it; only a
\* request overtaken by another takes it from a stranger.
THEOREM MovesAreScoped == AccessSpec => ScopedMoves
<1>1. AccessInductive /\ [AccessNext]_accessVars
        => [\A d \in Devices : owner'[d] # owner[d] =>
              \E c \in Calls :
                /\ call[c].device = d /\ call'[c] # call[c]
                /\ \/ Admin(c)
                   \/ /\ session[c].customer # NoCustomer
                      /\ owner'[d] \in Scope[session[c].customer]
                      /\ \/ c \in moved \/ InScope(c, d)
                         \/ owner[d] = NoCustomer /\ call[c].route.handler = "claim"]_accessVars
  BY MoveIsScoped
<1>. QED
  BY <1>1, AccessInitInv, AccessNextInv, PTL DEF AccessSpec, ScopedMoves

(***************************************************************************)
(* ScopeWalk                                                               *)
(***************************************************************************)
-----------------------------------------------------------------------------
(* Recursive functions.  Nat is well founded, so a property that fails for *)
(* some number has a least counterexample; with it a function given step by *)
(* step exists on every interval, and CHOOSE finds it.                     *)

\* A set of numbers that is not empty has a least member.
LEMMA LeastNumber ==
  ASSUME NEW T \in SUBSET Nat, T # {}
  PROVE  \E n \in T : \A m \in T : n <= m
<1>1. PICK n \in T : \A m \in T : <<m, n>> \notin OpToRel(<, Nat)
  BY NatLessThanWellFounded, WFMin
<1>2. \A m \in T : ~(m < n)
  BY <1>1 DEF OpToRel
<1>. QED
  BY <1>2

\* Induction up to a bound, for the members of a set.
LEMMA UpTo ==
  ASSUME NEW n \in Nat, NEW Reached,
         0 \in Reached, \A i \in 1 .. n : i - 1 \in Reached => i \in Reached
  PROVE  \A i \in 0 .. n : i \in Reached
<1>. DEFINE Bad == {i \in 0 .. n : i \notin Reached}
<1>. SUFFICES ASSUME Bad # {} PROVE FALSE
  OBVIOUS
<1>1. PICK i \in Bad : \A k \in Bad : i <= k
  <2>1. Bad \in SUBSET Nat
    OBVIOUS
  <2>. HIDE DEF Bad
  <2>. QED
    BY <2>1, LeastNumber
<1>2. i \in 1 .. n /\ i - 1 \in 0 .. n /\ ~(i <= i - 1)
  BY <1>1
<1>3. i - 1 \in Reached
  BY <1>1, <1>2
<1>. QED
  BY <1>1, <1>2, <1>3

\* Steps, one function of values for each number, build a sequence of values.
Steps(D, n) == [1 .. n -> [D -> D]]
Follows(g, D, start, n, Step) ==
  g \in [0 .. n -> D] /\ g[0] = start /\ \A i \in 1 .. n : g[i] = Step[i][g[i - 1]]

LEMMA StepsExist ==
  ASSUME NEW D, NEW start \in D, NEW n \in Nat, NEW Step \in Steps(D, n)
  PROVE  \E g : Follows(g, D, start, n, Step)
<1>. DEFINE Built(m) == \E g \in [0 .. m -> D] :
                           g[0] = start /\ \A i \in 1 .. m : g[i] = Step[i][g[i - 1]]
<1>1. Built(0)
  <2>. DEFINE g == [i \in 0 .. 0 |-> start]
  <2>1. g \in [0 .. 0 -> D] /\ g[0] = start
    OBVIOUS
  <2>2. \A i \in 1 .. 0 : g[i] = Step[i][g[i - 1]]
    OBVIOUS
  <2>. HIDE DEF g
  <2>. QED
    BY <2>1, <2>2
<1>2. ASSUME NEW m \in 0 .. n, m # n, Built(m) PROVE Built(m + 1)
  <2>1. PICK g \in [0 .. m -> D] : g[0] = start /\ \A i \in 1 .. m : g[i] = Step[i][g[i - 1]]
    BY <1>2
  <2>. DEFINE h == [i \in 0 .. m + 1 |-> IF i <= m THEN g[i] ELSE Step[m + 1][g[m]]]
  <2>2. Step[m + 1][g[m]] \in D
    BY <2>1, <1>2 DEF Steps
  <2>3. h \in [0 .. m + 1 -> D] /\ h[0] = start
    BY <2>1, <2>2
  <2>4. ASSUME NEW i \in 1 .. m + 1 PROVE h[i] = Step[i][h[i - 1]]
    <3>1. CASE i <= m
      BY <2>1, <3>1
    <3>2. CASE i = m + 1
      BY <2>1, <3>2
    <3>. QED
      BY <3>1, <3>2
  <2>. QED
    BY <2>3, <2>4
<1>3. \A m \in 0 .. n : m \in {k \in 0 .. n : Built(k)}
  <2>. DEFINE Reached == {k \in 0 .. n : Built(k)}
  <2>. HIDE DEF Built
  <2>1. 0 \in Reached /\ \A i \in 1 .. n : i - 1 \in Reached => i \in Reached
    <3>1. 0 \in Reached
      BY <1>1
    <3>2. ASSUME NEW i \in 1 .. n, i - 1 \in Reached PROVE i \in Reached
      <4>1. i - 1 \in 0 .. n /\ i - 1 # n /\ (i - 1) + 1 = i
        OBVIOUS
      <4>. QED
        BY <1>2, <3>2, <4>1
    <3>. QED
      BY <3>1, <3>2
  <2>. HIDE DEF Reached
  <2>2. \A m \in 0 .. n : m \in Reached
    BY <2>1, UpTo
  <2>. QED
    BY <2>2 DEF Reached
<1>4. Built(n)
  <2>. HIDE DEF Built
  <2>. QED
    BY <1>3
<1>. QED
  BY <1>4 DEF Follows

-----------------------------------------------------------------------------
(* The fixed point of the passes is what lies below the root.  A pass and  *)
(* the passes one after another are each described by the sets they go     *)
(* through; paths going up are cut where they meet themselves, so that the *)
(* shortest has no more rows than there are.                               *)

\* The sets a pass goes through, one for each row.
Takes(acc, found, rows) ==
  /\ acc \in [0 .. Len(rows) -> SUBSET Rows]
  /\ acc[0] = found
  /\ \A i \in 1 .. Len(rows) :
       acc[i] = IF above[rows[i]] \in acc[i - 1] THEN acc[i - 1] \cup {rows[i]} ELSE acc[i - 1]

LEMMA PassGrows ==
  ASSUME NEW rows \in Seq(Rows), NEW found \in SUBSET Rows
  PROVE  \E acc : Takes(acc, found, rows) /\ Pass(found, rows) = acc[Len(rows)]
<1>. DEFINE Widen(a, i) == IF above[rows[i]] \in a THEN a \cup {rows[i]} ELSE a
            Step == [i \in 1 .. Len(rows) |-> [a \in SUBSET Rows |-> Widen(a, i)]]
            Body(g) == [i \in 0 .. Len(rows) |->
                          IF i = 0 THEN found
                          ELSE IF above[rows[i]] \in g[i - 1] THEN g[i - 1] \cup {rows[i]}
                               ELSE g[i - 1]]
            acc == CHOOSE g : g = Body(g)
<1>1. Len(rows) \in Nat /\ \A i \in 1 .. Len(rows) : rows[i] \in Rows
  OBVIOUS
<1>2. Step \in Steps(SUBSET Rows, Len(rows))
  BY <1>1 DEF Steps
<1>3. PICK g : Follows(g, SUBSET Rows, found, Len(rows), Step)
  <2>. DEFINE D == SUBSET Rows
  <2>1. found \in D /\ Step \in Steps(D, Len(rows))
    BY <1>2
  <2>. HIDE DEF D, Step
  <2>2. \E g : Follows(g, D, found, Len(rows), Step)
    BY <1>1, <2>1, StepsExist
  <2>. QED
    BY <2>2 DEF D
<1>11. /\ g \in [0 .. Len(rows) -> SUBSET Rows] /\ g[0] = found
       /\ \A i \in 1 .. Len(rows) : g[i] = Step[i][g[i - 1]]
  BY <1>3 DEF Follows
<1>4. \A i \in 1 .. Len(rows) : g[i] = Widen(g[i - 1], i)
  <2>. TAKE i \in 1 .. Len(rows)
  <2>1. g[i - 1] \in SUBSET Rows
    BY <1>1, <1>11
  <2>2. Step[i][g[i - 1]] = Widen(g[i - 1], i)
    BY <2>1
  <2>. QED
    BY <1>11, <2>2
<1>5. g = Body(g)
  <2>1. \A i \in 0 .. Len(rows) : g[i] = Body(g)[i]
    <3>. TAKE i \in 0 .. Len(rows)
    <3>1. i = 0 \/ i \in 1 .. Len(rows)
      BY <1>1
    <3>. QED
      BY <3>1, <1>11, <1>4
  <2>2. DOMAIN g = DOMAIN Body(g) /\ Body(g) = [i \in DOMAIN Body(g) |-> Body(g)[i]]
    BY <1>11
  <2>3. g = [i \in DOMAIN g |-> g[i]]
    BY <1>11
  <2>. QED
    BY <1>11, <2>1, <2>2, <2>3
<1>6. acc = Body(acc)
  <2>. HIDE DEF Body
  <2>. QED
    BY <1>5
<1>7. Pass(found, rows) = acc[Len(rows)]
  BY DEF Pass
<1>8. \A i \in 0 .. Len(rows) : acc[i] = IF i = 0 THEN found ELSE Widen(acc[i - 1], i)
  <2>. HIDE DEF acc
  <2>. QED
    BY <1>6
<1>. HIDE DEF acc
<1>9. \A i \in 0 .. Len(rows) : acc[i] = g[i]
  <2>. DEFINE Reached == {i \in 0 .. Len(rows) : acc[i] = g[i]}
  <2>1. 0 \in Reached
    <3>1. 0 \in 0 .. Len(rows)
      BY <1>1
    <3>2. acc[0] = found
      BY <3>1, <1>8
    <3>. QED
      BY <3>1, <3>2, <1>11
  <2>2. ASSUME NEW i \in 1 .. Len(rows), i - 1 \in Reached PROVE i \in Reached
    <3>1. i \in 0 .. Len(rows) /\ i # 0 /\ acc[i - 1] = g[i - 1]
      BY <1>1, <2>2
    <3>. QED
      BY <1>4, <1>8, <3>1
  <2>3. \A i \in 0 .. Len(rows) : i \in Reached
    <3>. HIDE DEF Reached
    <3>. QED
      BY <1>1, <2>1, <2>2, UpTo
  <2>. QED
    BY <2>3
<1>10. acc = g
  <2>1. \A i \in 0 .. Len(rows) : acc[i] = g[i]
    BY <1>9
  <2>2. DOMAIN acc = 0 .. Len(rows) /\ acc = [i \in DOMAIN acc |-> acc[i]]
    <3>1. /\ DOMAIN Body(acc) = 0 .. Len(rows)
          /\ Body(acc) = [i \in DOMAIN Body(acc) |-> Body(acc)[i]]
      OBVIOUS
    <3>. HIDE DEF Body
    <3>. QED
      BY <1>6, <3>1
  <2>3. DOMAIN g = 0 .. Len(rows) /\ g = [i \in DOMAIN g |-> g[i]]
    BY <1>11
  <2>. HIDE DEF Body
  <2>. QED
    BY <2>1, <2>2, <2>3
<1>. QED
  BY <1>11, <1>4, <1>7, <1>10 DEF Takes

\* A pass adds only what is in every set that is closed under going down.
LEMMA PassSound ==
  ASSUME NEW rows \in Seq(Rows), NEW found \in SUBSET Rows, NEW P, found \subseteq P,
         \A i \in 1 .. Len(rows) : above[rows[i]] \in P => rows[i] \in P
  PROVE  /\ Pass(found, rows) \in SUBSET Rows
         /\ Pass(found, rows) \subseteq P
<1>1. PICK acc : Takes(acc, found, rows) /\ Pass(found, rows) = acc[Len(rows)]
  BY PassGrows
<1>2. Len(rows) \in Nat
  OBVIOUS
<1>. DEFINE Reached == {i \in 0 .. Len(rows) : acc[i] \subseteq P}
<1>3. 0 \in Reached
  BY <1>1, <1>2 DEF Takes
<1>4. ASSUME NEW i \in 1 .. Len(rows), i - 1 \in Reached PROVE i \in Reached
  <2>1. acc[i] = IF above[rows[i]] \in acc[i - 1] THEN acc[i - 1] \cup {rows[i]} ELSE acc[i - 1]
    BY <1>1 DEF Takes
  <2>2. acc[i - 1] \subseteq P /\ (above[rows[i]] \in P => rows[i] \in P)
    BY <1>4
  <2>. QED
    BY <1>2, <2>1, <2>2
<1>5. Len(rows) \in Reached
  <2>. HIDE DEF Reached
  <2>1. \A i \in 0 .. Len(rows) : i \in Reached
    BY <1>2, <1>3, <1>4, UpTo
  <2>. QED
    BY <1>2, <2>1
<1>. QED
  BY <1>1, <1>2, <1>5 DEF Takes

\* It keeps what was found, and adds every row whose parent was.
LEMMA PassAdds ==
  ASSUME NEW rows \in Seq(Rows), NEW found \in SUBSET Rows
  PROVE  /\ found \subseteq Pass(found, rows)
         /\ \A i \in 1 .. Len(rows) : above[rows[i]] \in found => rows[i] \in Pass(found, rows)
<1>1. PICK acc : Takes(acc, found, rows) /\ Pass(found, rows) = acc[Len(rows)]
  BY PassGrows
<1>2. Len(rows) \in Nat
  OBVIOUS
<1>. DEFINE Added(i) == /\ found \subseteq acc[i]
                        /\ \A j \in 1 .. i : above[rows[j]] \in found => rows[j] \in acc[i]
            Reached == {i \in 0 .. Len(rows) : Added(i)}
<1>3. 0 \in Reached
  BY <1>1, <1>2 DEF Takes
<1>4. ASSUME NEW i \in 1 .. Len(rows), i - 1 \in Reached PROVE i \in Reached
  <2>1. acc[i] = IF above[rows[i]] \in acc[i - 1] THEN acc[i - 1] \cup {rows[i]} ELSE acc[i - 1]
    BY <1>1 DEF Takes
  <2>2. found \subseteq acc[i]
    BY <1>4, <2>1
  <2>3. ASSUME NEW j \in 1 .. i, above[rows[j]] \in found PROVE rows[j] \in acc[i]
    <3>1. CASE j = i
      BY <1>4, <2>1, <2>3, <3>1
    <3>2. CASE j # i
      <4>1. j \in 1 .. i - 1
        BY <3>2
      <4>. QED
        BY <1>4, <2>1, <2>3, <4>1
    <3>. QED
      BY <3>1, <3>2
  <2>. QED
    BY <1>2, <2>2, <2>3
<1>5. Len(rows) \in Reached
  <2>. HIDE DEF Reached
  <2>1. \A i \in 0 .. Len(rows) : i \in Reached
    BY <1>2, <1>3, <1>4, UpTo
  <2>. QED
    BY <1>2, <2>1
<1>. QED
  BY <1>1, <1>5

\* The sets found after each pass.
Deepens(after, rows) ==
  /\ after \in [0 .. Len(rows) -> SUBSET Rows]
  /\ after[0] = {Root}
  /\ \A n \in 1 .. Len(rows) : after[n] = Pass(after[n - 1], rows)

LEMMA ScopeDeepens ==
  ASSUME NEW rows \in Seq(Rows)
  PROVE  \E after : Deepens(after, rows) /\ ScopeIds(rows) = after[Len(rows)]
<1>. DEFINE Step == [n \in 1 .. Len(rows) |-> [a \in SUBSET Rows |-> Pass(a, rows)]]
            Body(g) == [n \in 0 .. Len(rows) |-> IF n = 0 THEN {Root} ELSE Pass(g[n - 1], rows)]
            after == CHOOSE g : g = Body(g)
<1>1. Len(rows) \in Nat /\ {Root} \in SUBSET Rows
  BY WalkAssumption
<1>2. \A a \in SUBSET Rows : Pass(a, rows) \in SUBSET Rows
  <2>. TAKE a \in SUBSET Rows
  <2>1. a \subseteq Rows /\ \A i \in 1 .. Len(rows) : above[rows[i]] \in Rows => rows[i] \in Rows
    OBVIOUS
  <2>. QED
    BY <2>1, PassSound
<1>3. Step \in Steps(SUBSET Rows, Len(rows))
  BY <1>1, <1>2 DEF Steps
<1>4. PICK g : Follows(g, SUBSET Rows, {Root}, Len(rows), Step)
  <2>. DEFINE D == SUBSET Rows
  <2>1. {Root} \in D /\ Step \in Steps(D, Len(rows))
    BY <1>1, <1>3
  <2>. HIDE DEF D, Step
  <2>2. \E g : Follows(g, D, {Root}, Len(rows), Step)
    BY <1>1, <2>1, StepsExist
  <2>. QED
    BY <2>2 DEF D
<1>5. /\ g \in [0 .. Len(rows) -> SUBSET Rows] /\ g[0] = {Root}
      /\ \A n \in 1 .. Len(rows) : g[n] = Pass(g[n - 1], rows)
  <2>1. /\ g \in [0 .. Len(rows) -> SUBSET Rows] /\ g[0] = {Root}
        /\ \A n \in 1 .. Len(rows) : g[n] = Step[n][g[n - 1]]
    BY <1>4 DEF Follows
  <2>2. ASSUME NEW n \in 1 .. Len(rows) PROVE g[n] = Pass(g[n - 1], rows)
    <3>1. g[n - 1] \in SUBSET Rows
      BY <1>1, <2>1
    <3>. QED
      BY <2>1, <3>1
  <2>. QED
    BY <2>1, <2>2
<1>6. g = Body(g)
  <2>1. \A n \in 0 .. Len(rows) : g[n] = Body(g)[n]
    <3>. TAKE n \in 0 .. Len(rows)
    <3>1. n = 0 \/ n \in 1 .. Len(rows)
      BY <1>1
    <3>. QED
      BY <3>1, <1>5
  <2>2. DOMAIN g = DOMAIN Body(g) /\ Body(g) = [n \in DOMAIN Body(g) |-> Body(g)[n]]
    BY <1>5
  <2>3. g = [n \in DOMAIN g |-> g[n]]
    BY <1>5
  <2>. QED
    BY <1>5, <2>1, <2>2, <2>3
<1>7. after = Body(after)
  <2>. HIDE DEF Body
  <2>. QED
    BY <1>6
<1>8. ScopeIds(rows) = after[Len(rows)]
  BY DEF ScopeIds
<1>9. \A n \in 0 .. Len(rows) : after[n] = IF n = 0 THEN {Root} ELSE Pass(after[n - 1], rows)
  <2>. HIDE DEF after
  <2>. QED
    BY <1>7
<1>10. DOMAIN after = 0 .. Len(rows) /\ after = [n \in DOMAIN after |-> after[n]]
  <2>1. /\ DOMAIN Body(after) = 0 .. Len(rows)
        /\ Body(after) = [n \in DOMAIN Body(after) |-> Body(after)[n]]
    OBVIOUS
  <2>. HIDE DEF Body, after
  <2>. QED
    BY <1>7, <2>1
<1>. HIDE DEF after
<1>11. \A n \in 0 .. Len(rows) : after[n] = g[n]
  <2>. DEFINE Reached == {n \in 0 .. Len(rows) : after[n] = g[n]}
  <2>1. 0 \in Reached
    <3>1. 0 \in 0 .. Len(rows)
      BY <1>1
    <3>2. after[0] = {Root}
      BY <3>1, <1>9
    <3>. QED
      BY <3>1, <3>2, <1>5
  <2>2. ASSUME NEW n \in 1 .. Len(rows), n - 1 \in Reached PROVE n \in Reached
    <3>1. n \in 0 .. Len(rows) /\ n # 0 /\ after[n - 1] = g[n - 1]
      BY <1>1, <2>2
    <3>. QED
      BY <1>5, <1>9, <3>1
  <2>3. \A n \in 0 .. Len(rows) : n \in Reached
    <3>. HIDE DEF Reached
    <3>. QED
      BY <1>1, <2>1, <2>2, UpTo
  <2>. QED
    BY <2>3
<1>12. after = g
  BY <1>5, <1>10, <1>11
<1>. QED
  BY <1>5, <1>8, <1>12 DEF Deepens

\* A way up from a row to the root through the rows of S.
Rising(path, n, S) ==
  /\ path \in [0 .. n -> S \cup {Root}]
  /\ path[n] = Root
  /\ \A i \in 0 .. n - 1 : path[i + 1] = above[path[i]]

\* A way up that meets itself can be cut at the loop.
LEMMA Cut ==
  ASSUME NEW S, NEW n \in Nat, NEW path, Rising(path, n, S),
         NEW i \in 0 .. n, NEW j \in 0 .. n, i < j, path[i] = path[j]
  PROVE  \E q : Rising(q, n - (j - i), S) /\ q[0] = path[0]
<1>. DEFINE len == n - (j - i)
            q == [m \in 0 .. len |-> IF m <= i THEN path[m] ELSE path[m + (j - i)]]
<1>1. len \in Nat /\ i <= len
  OBVIOUS
<1>2. \A m \in 0 .. len : m \in 0 .. n /\ (m > i => m + (j - i) \in 0 .. n)
  OBVIOUS
<1>3. q \in [0 .. len -> S \cup {Root}]
  BY <1>2 DEF Rising
<1>4. q[len] = Root
  <2>1. CASE len <= i
    <3>1. len = i /\ j = n
      BY <1>1, <2>1
    <3>. QED
      BY <1>1, <3>1 DEF Rising
  <2>2. CASE len > i
    <3>1. len \in 0 .. len /\ len + (j - i) = n
      BY <1>1
    <3>. QED
      BY <2>2, <3>1 DEF Rising
  <2>. QED
    BY <1>1, <2>1, <2>2
<1>5. ASSUME NEW m \in 0 .. len - 1 PROVE q[m + 1] = above[q[m]]
  <2>1. m \in 0 .. len /\ m + 1 \in 0 .. len /\ m \in 0 .. n - 1
    BY <1>1
  <2>2. CASE m < i
    BY <2>1, <2>2 DEF Rising
  <2>3. CASE m = i
    <3>1. j \in 0 .. n - 1 /\ (m + 1) + (j - i) = j + 1
      BY <1>1, <2>1, <2>3
    <3>2. q[m + 1] = path[j + 1] /\ q[m] = path[i]
      BY <2>1, <2>3, <3>1
    <3>. QED
      BY <3>1, <3>2 DEF Rising
  <2>4. CASE m > i
    <3>1. m + (j - i) \in 0 .. n - 1 /\ (m + 1) + (j - i) = (m + (j - i)) + 1
      BY <1>1, <2>1
    <3>2. q[m + 1] = path[(m + (j - i)) + 1] /\ q[m] = path[m + (j - i)]
      BY <2>1, <2>4, <3>1
    <3>. QED
      BY <3>1, <3>2 DEF Rising
  <2>. QED
    BY <2>2, <2>3, <2>4
<1>6. q[0] = path[0]
  BY <1>1
<1>. HIDE DEF q, len
<1>7. Rising(q, len, S)
  BY <1>3, <1>4, <1>5 DEF Rising
<1>. QED
  BY <1>6, <1>7 DEF len

\* One that passes each row at most once.
Shortest(path, n, S) ==
  /\ Rising(path, n, S)
  /\ n <= Cardinality(S \ {Root})
  /\ \A i \in 0 .. n - 1 : path[i] \in S \ {Root}

\* So the shortest way up passes each row once: it is no longer than the rows are many.
LEMMA ShortestWay ==
  ASSUME NEW S, IsFiniteSet(S), NEW k, NEW w \in Nat, NEW way, Rising(way, w, S), way[0] = k
  PROVE  \E n \in Nat : \E path : Shortest(path, n, S) /\ path[0] = k
<1>. DEFINE Long(n) == \E path : Rising(path, n, S) /\ path[0] = k
            Lengths == {n \in Nat : Long(n)}
<1>1. PICK n \in Lengths : \A m \in Lengths : n <= m
  <2>1. Lengths \in SUBSET Nat /\ w \in Lengths
    OBVIOUS
  <2>. HIDE DEF Lengths
  <2>. QED
    BY <2>1, LeastNumber
<1>2. PICK path : Rising(path, n, S) /\ path[0] = k
  BY <1>1
<1>3. ASSUME NEW i \in 0 .. n, NEW j \in 0 .. n, i < j, path[i] = path[j] PROVE FALSE
  <2>1. n - (j - i) \in Nat /\ ~(n <= n - (j - i))
    BY <1>3, <1>1
  <2>2. \E q : Rising(q, n - (j - i), S) /\ q[0] = path[0]
    <3>1. n \in Nat
      BY <1>1
    <3>. HIDE DEF Lengths
    <3>. QED
      BY <3>1, <1>2, <1>3, Cut
  <2>3. n - (j - i) \in Lengths
    BY <1>2, <2>1, <2>2
  <2>. QED
    BY <1>1, <2>1, <2>3
<1>4. n \in Nat
  BY <1>1
<1>5. ASSUME NEW i \in 0 .. n - 1 PROVE path[i] \in S \ {Root}
  <2>1. i \in 0 .. n /\ n \in 0 .. n /\ i < n
    BY <1>4
  <2>2. path[i] # path[n]
    BY <1>3, <2>1
  <2>. QED
    BY <1>2, <2>1, <2>2 DEF Rising
<1>6. n <= Cardinality(S \ {Root})
  <2>. DEFINE start == [i \in 1 .. n |-> path[i - 1]]
  <2>1. start \in [1 .. n -> S \ {Root}]
    <3>1. \A i \in 1 .. n : i - 1 \in 0 .. n - 1
      BY <1>4
    <3>. QED
      BY <1>5, <3>1
  <2>2. ASSUME NEW a \in 1 .. n, NEW b \in 1 .. n, start[a] = start[b] PROVE a = b
    <3>1. a - 1 \in 0 .. n /\ b - 1 \in 0 .. n /\ path[a - 1] = path[b - 1]
      BY <1>4, <2>2
    <3>2. ~(a - 1 < b - 1) /\ ~(b - 1 < a - 1)
      BY <1>3, <3>1
    <3>. QED
      BY <1>4, <3>2
  <2>3. start \in Injection(1 .. n, S \ {Root})
    <3>. DEFINE T == S \ {Root}
    <3>1. start \in [1 .. n -> T] /\ DOMAIN start = 1 .. n
      BY <2>1
    <3>. HIDE DEF T, start
    <3>2. \A a, b \in DOMAIN start : start[a] = start[b] => a = b
      BY <3>1, <2>2
    <3>3. start \in Injection(1 .. n, T)
      BY <3>1, <3>2 DEF Injection, IsInjective
    <3>. QED
      BY <3>3 DEF T
  <2>4. IsFiniteSet(S \ {Root})
    BY FS_RemoveElement
  <2>5. Cardinality(1 .. n) <= Cardinality(S \ {Root})
    <3>. HIDE DEF start
    <3>. QED
      BY <2>3, <2>4, FS_Injection
  <2>6. Cardinality(1 .. n) = n
    BY <1>4, FS_Interval
  <2>. QED
    BY <2>5, <2>6
<1>. QED
  BY <1>2, <1>4, <1>5, <1>6 DEF Shortest

\* The bound on the length in Beneath leaves out nobody.
LEMMA BeneathHasWay ==
  ASSUME NEW S \in SUBSET Rows, NEW k
  PROVE  k \in Beneath(S) <=> \E n \in Nat : \E path : Rising(path, n, S) /\ path[0] = k
<1>1. Cardinality(Rows) \in Nat
  BY WalkAssumption, FS_CardinalityType
<1>2. ASSUME k \in Beneath(S) PROVE \E n \in Nat : \E path : Rising(path, n, S) /\ path[0] = k
  <2>. PICK n \in 0 .. Cardinality(Rows) :
              \E path \in [0 .. n -> S \cup {Root}] :
                 /\ path[0] = k /\ path[n] = Root
                 /\ \A i \in 0 .. n - 1 : path[i + 1] = above[path[i]]
    BY <1>2 DEF Beneath
  <2>1. PICK path \in [0 .. n -> S \cup {Root}] :
               /\ path[0] = k /\ path[n] = Root
               /\ \A i \in 0 .. n - 1 : path[i + 1] = above[path[i]]
    OBVIOUS
  <2>2. n \in Nat /\ Rising(path, n, S)
    BY <1>1, <2>1 DEF Rising
  <2>. QED
    BY <2>1, <2>2
<1>3. ASSUME NEW w \in Nat, NEW way, Rising(way, w, S), way[0] = k PROVE k \in Beneath(S)
  <2>1. IsFiniteSet(S)
    BY WalkAssumption, FS_Subset
  <2>. PICK n \in Nat : \E path : Shortest(path, n, S) /\ path[0] = k
    BY <1>3, <2>1, ShortestWay
  <2>2. PICK path : Rising(path, n, S) /\ path[0] = k /\ n <= Cardinality(S \ {Root})
    BY DEF Shortest
  <2>3. Cardinality(S \ {Root}) <= Cardinality(Rows)
    <3>1. S \ {Root} \in SUBSET Rows
      OBVIOUS
    <3>. QED
      BY <3>1, WalkAssumption, FS_Subset
  <2>4. Cardinality(S \ {Root}) \in Nat
    <3>1. IsFiniteSet(S \ {Root})
      BY <2>1, FS_RemoveElement
    <3>. QED
      BY <3>1, FS_CardinalityType
  <2>5. n \in 0 .. Cardinality(Rows)
    BY <1>1, <2>2, <2>3, <2>4
  <2>6. /\ path \in [0 .. n -> S \cup {Root}] /\ path[n] = Root
        /\ \A i \in 0 .. n - 1 : path[i + 1] = above[path[i]]
    BY <2>2 DEF Rising
  <2>7. k \in S \cup {Root}
    BY <2>2, <2>6
  <2>. QED
    BY <2>2, <2>5, <2>6, <2>7 DEF Beneath
<1>. QED
  BY <1>2, <1>3

\* More rows, more below the root.
LEMMA BeneathGrows ==
  ASSUME NEW S \in SUBSET Rows, NEW T \in SUBSET S
  PROVE  Beneath(T) \subseteq Beneath(S)
<1>. SUFFICES ASSUME NEW k \in Beneath(T) PROVE k \in Beneath(S)
  OBVIOUS
<1>1. T \in SUBSET Rows
  OBVIOUS
<1>2. PICK n \in Nat : \E path : Rising(path, n, T) /\ path[0] = k
  BY <1>1, BeneathHasWay
<1>3. PICK path : Rising(path, n, T) /\ path[0] = k
  BY <1>2
<1>4. Rising(path, n, S)
  BY <1>3 DEF Rising
<1>. QED
  BY <1>3, <1>4, BeneathHasWay

\* The rows of a sequence are not more than its length.
LEMMA RowsAreCounted ==
  ASSUME NEW rows \in Seq(Rows)
  PROVE  /\ ToSet(rows) \in SUBSET Rows
         /\ IsFiniteSet(ToSet(rows)) /\ Cardinality(ToSet(rows)) <= Len(rows)
<1>1. /\ Len(rows) \in Nat /\ DOMAIN rows = 1 .. Len(rows)
      /\ \A i \in 1 .. Len(rows) : rows[i] \in Rows
  OBVIOUS
<1>2. ToSet(rows) \in SUBSET Rows
  BY <1>1 DEF ToSet
<1>3. rows \in Surjection(1 .. Len(rows), ToSet(rows))
  <2>1. rows \in [1 .. Len(rows) -> ToSet(rows)]
    BY <1>1 DEF ToSet
  <2>. QED
    BY <1>1, <2>1 DEF Surjection, ToSet
<1>4. IsFiniteSet(1 .. Len(rows)) /\ Cardinality(1 .. Len(rows)) = Len(rows)
  <2>1. 1 \in Int /\ Len(rows) \in Int
    BY <1>1
  <2>2. IsFiniteSet(1 .. Len(rows))
    BY <2>1, FS_Interval
  <2>3. Cardinality(1 .. Len(rows)) = IF 1 > Len(rows) THEN 0 ELSE Len(rows) - 1 + 1
    BY <2>1, FS_Interval
  <2>. QED
    BY <1>1, <2>2, <2>3
<1>. QED
  BY <1>2, <1>3, <1>4, FS_Surjection

\* What the passes find is what lies below the root.
LEMMA ScopeIsBeneath ==
  ASSUME NEW rows \in Seq(Rows), above \in [Rows -> Rows]
  PROVE  /\ ScopeIds(rows) \in SUBSET Rows
         /\ ScopeIds(rows) = Beneath(ToSet(rows))
<1>. DEFINE S == ToSet(rows)
<1>1. PICK after : Deepens(after, rows) /\ ScopeIds(rows) = after[Len(rows)]
  BY ScopeDeepens
<1>2. Len(rows) \in Nat /\ DOMAIN rows = 1 .. Len(rows)
  OBVIOUS
<1>3. S \in SUBSET Rows /\ IsFiniteSet(S) /\ Cardinality(S) <= Len(rows)
  BY RowsAreCounted
<1>4. Root \in Beneath(S)
  <2>. DEFINE path == [m \in 0 .. 0 |-> Root]
  <2>1. path \in [0 .. 0 -> S \cup {Root}] /\ path[0] = Root
    OBVIOUS
  <2>2. \A i \in 0 .. 0 - 1 : path[i + 1] = above[path[i]]
    OBVIOUS
  <2>. HIDE DEF path
  <2>3. Rising(path, 0, S)
    BY <2>1, <2>2 DEF Rising
  <2>. HIDE DEF S
  <2>. QED
    BY <1>3, <2>1, <2>3, BeneathHasWay
<1>5. ASSUME NEW i \in 1 .. Len(rows), above[rows[i]] \in Beneath(S) PROVE rows[i] \in Beneath(S)
  <2>. PICK n \in Nat : \E path : Rising(path, n, S) /\ path[0] = above[rows[i]]
    <3>. HIDE DEF S
    <3>. QED
      BY <1>3, <1>5, BeneathHasWay
  <2>1. PICK path : Rising(path, n, S) /\ path[0] = above[rows[i]]
    OBVIOUS
  <2>. DEFINE q == [m \in 0 .. n + 1 |-> IF m = 0 THEN rows[i] ELSE path[m - 1]]
  <2>2. rows[i] \in S
    BY <1>2 DEF ToSet
  <2>3. q \in [0 .. n + 1 -> S \cup {Root}] /\ q[n + 1] = Root
    BY <2>1, <2>2 DEF Rising
  <2>4. \A m \in 0 .. (n + 1) - 1 : q[m + 1] = above[q[m]]
    <3>. TAKE m \in 0 .. (n + 1) - 1
    <3>1. CASE m = 0
      BY <2>1, <3>1
    <3>2. CASE m # 0
      <4>1. m - 1 \in 0 .. n - 1 /\ (m - 1) + 1 = m /\ m + 1 \in 0 .. n + 1 /\ m \in 0 .. n + 1
        BY <3>2
      <4>2. path[m] = above[path[m - 1]]
        BY <2>1, <4>1 DEF Rising
      <4>. QED
        BY <3>2, <4>1, <4>2
    <3>. QED
      BY <3>1, <3>2
  <2>5. q[0] = rows[i]
    OBVIOUS
  <2>. HIDE DEF q
  <2>6. Rising(q, n + 1, S)
    BY <2>3, <2>4 DEF Rising
  <2>. HIDE DEF S
  <2>. QED
    BY <1>3, <2>5, <2>6, BeneathHasWay
<1>. HIDE DEF S
<1>6. after[Len(rows)] \subseteq Beneath(S)
  <2>. DEFINE Reached == {n \in 0 .. Len(rows) : after[n] \subseteq Beneath(S)}
  <2>1. 0 \in Reached
    BY <1>1, <1>2, <1>4 DEF Deepens
  <2>2. ASSUME NEW n \in 1 .. Len(rows), n - 1 \in Reached PROVE n \in Reached
    <3>1. n - 1 \in 0 .. Len(rows) /\ n \in 0 .. Len(rows)
      BY <1>2
    <3>2. after[n - 1] \in SUBSET Rows /\ after[n - 1] \subseteq Beneath(S)
      BY <1>1, <2>2, <3>1 DEF Deepens
    <3>3. Pass(after[n - 1], rows) \subseteq Beneath(S)
      BY <1>5, <3>2, PassSound
    <3>4. after[n] \subseteq Beneath(S)
      BY <1>1, <3>3 DEF Deepens
    <3>. QED
      BY <3>1, <3>4
  <2>3. \A n \in 0 .. Len(rows) : n \in Reached
    <3>. HIDE DEF Reached
    <3>. QED
      BY <1>2, <2>1, <2>2, UpTo
  <2>. QED
    BY <1>2, <2>3
<1>7. ASSUME NEW k \in Beneath(S) PROVE k \in after[Len(rows)]
  <2>. PICK w \in Nat : \E way : Rising(way, w, S) /\ way[0] = k
    BY <1>3, <1>7, BeneathHasWay
  <2>1. PICK way : Rising(way, w, S) /\ way[0] = k
    OBVIOUS
  <2>. PICK n \in Nat : \E path : Shortest(path, n, S) /\ path[0] = k
    BY <1>3, <2>1, ShortestWay
  <2>2. PICK path : /\ Rising(path, n, S) /\ path[0] = k
                    /\ n <= Cardinality(S \ {Root})
                    /\ \A i \in 0 .. n - 1 : path[i] \in S \ {Root}
    BY DEF Shortest
  <2>3. n <= Len(rows)
    <3>1. Cardinality(S) \in Nat /\ Cardinality(S \ {Root}) <= Cardinality(S)
      <4>1. S \ {Root} \in SUBSET S
        OBVIOUS
      <4>. QED
        BY <1>3, <4>1, FS_Subset, FS_CardinalityType
    <3>2. Cardinality(S \ {Root}) \in Nat
      <4>1. IsFiniteSet(S \ {Root})
        BY <1>3, FS_RemoveElement
      <4>. QED
        BY <4>1, FS_CardinalityType
    <3>. QED
      BY <1>2, <1>3, <2>2, <3>1, <3>2
  <2>4. k \in after[n]
    <3>. DEFINE Reached == {m \in 0 .. n : path[n - m] \in after[m]}
    <3>1. 0 \in Reached
      BY <1>1, <2>2 DEF Deepens, Rising
    <3>2. ASSUME NEW m \in 1 .. n, m - 1 \in Reached PROVE m \in Reached
      <4>1. /\ n - m \in 0 .. n - 1 /\ n - (m - 1) = (n - m) + 1
            /\ m \in 1 .. Len(rows) /\ m - 1 \in 0 .. Len(rows)
        BY <1>2, <2>3
      <4>2. above[path[n - m]] \in after[m - 1]
        BY <2>2, <3>2, <4>1 DEF Rising
      <4>3. PICK i \in 1 .. Len(rows) : rows[i] = path[n - m]
        BY <1>2, <2>2, <4>1 DEF S, ToSet
      <4>4. after[m - 1] \in SUBSET Rows
        BY <1>1, <4>1 DEF Deepens
      <4>5. rows[i] \in Pass(after[m - 1], rows)
        BY <4>2, <4>3, <4>4, PassAdds
      <4>6. path[n - m] \in after[m]
        BY <1>1, <4>1, <4>3, <4>5 DEF Deepens
      <4>. QED
        BY <4>6
    <3>3. \A m \in 0 .. n : m \in Reached
      <4>. HIDE DEF Reached
      <4>. QED
        BY <3>1, <3>2, UpTo
    <3>4. path[n - n] \in after[n]
      BY <3>3
    <3>. QED
      BY <2>2, <3>4
  <2>5. k \in after[Len(rows)]
    <3>. DEFINE Reached == {m \in 0 .. Len(rows) : n <= m => k \in after[m]}
    <3>1. 0 \in Reached
      BY <1>2, <2>4
    <3>2. ASSUME NEW m \in 1 .. Len(rows), m - 1 \in Reached PROVE m \in Reached
      <4>1. m - 1 \in 0 .. Len(rows) /\ m \in 0 .. Len(rows)
        BY <1>2
      <4>2. CASE n = m
        BY <2>4, <4>1, <4>2
      <4>3. CASE n > m
        BY <4>1, <4>3
      <4>4. CASE n < m
        <5>0. n <= m - 1
          BY <4>4
        <5>1. k \in after[m - 1] /\ after[m - 1] \in SUBSET Rows
          BY <1>1, <3>2, <4>1, <5>0 DEF Deepens
        <5>2. after[m - 1] \subseteq Pass(after[m - 1], rows)
          BY <5>1, PassAdds
        <5>3. k \in after[m]
          BY <1>1, <5>1, <5>2 DEF Deepens
        <5>. QED
          BY <4>1, <5>3
      <4>. QED
        BY <4>2, <4>3, <4>4
    <3>3. \A m \in 0 .. Len(rows) : m \in Reached
      <4>. HIDE DEF Reached
      <4>. QED
        BY <1>2, <3>1, <3>2, UpTo
    <3>. QED
      BY <1>2, <2>3, <3>3
  <2>. QED
    BY <2>5
<1>8. after[Len(rows)] \in SUBSET Rows
  BY <1>1, <1>2 DEF Deepens
<1>. QED
  BY <1>1, <1>6, <1>7, <1>8 DEF S

-----------------------------------------------------------------------------
(* The pages of a list put together are the list: page after page, what    *)
(* has been joined so far is its beginning.                                *)

LEMMA Multiples ==
  ASSUME NEW a \in Nat, NEW b \in Nat \ {0}
  PROVE  a * b \in Nat /\ (a + 1) * b = a * b + b /\ a <= a * b
<1>1. a * b \in Nat /\ (a + 1) * b = a * b + b
  OBVIOUS
<1>2. a * b = a + a * (b - 1)
  OBVIOUS
<1>3. b - 1 \in Nat /\ a * (b - 1) \in Nat
  OBVIOUS
<1>. QED
  BY <1>1, <1>2, <1>3

\* The smaller of two numbers.
LEMMA MinOfTwo ==
  ASSUME NEW a \in Int, NEW b \in Int
  PROVE  Min({a, b}) = IF a <= b THEN a ELSE b
<1>1. \E x \in {a, b} : \A y \in {a, b} : x <= y
  OBVIOUS
<1>2. Min({a, b}) \in {a, b} /\ \A y \in {a, b} : Min({a, b}) <= y
  BY <1>1 DEF Min
<1>. QED
  BY <1>2

LEMMA PagesJoin ==
  ASSUME NEW T, NEW items \in Seq(T), NEW size \in Nat \ {0}
  PROVE  LET last == Min({p \in 0 .. Len(items) : ~Slice(items, p, size).hasNext}) IN
         FlattenSeq([p \in 1 .. last + 1 |-> Slice(items, p - 1, size).data]) = items
<1>. DEFINE Ends == {p \in 0 .. Len(items) : ~Slice(items, p, size).hasNext}
            last == Min(Ends)
            pages == [p \in 1 .. last + 1 |-> Slice(items, p - 1, size).data]
            End(p) == IF p <= last THEN p * size ELSE Len(items)
            h == [p \in 1 .. last + 1 |-> SubSeq(items, 1, End(p))]
            Body(g) == [p \in 1 .. Len(pages) |-> IF p = 1 THEN pages[p] ELSE g[p - 1] \o pages[p]]
            flatten == CHOOSE g : g = Body(g)
<1>1. Len(items) \in Nat
  OBVIOUS
<1>2. \A p \in Nat : Slice(items, p, size).hasNext <=> (p + 1) * size < Len(items)
  BY DEF Slice
<1>3. last \in Ends /\ \A p \in Ends : last <= p
  <2>1. Ends \in SUBSET Nat
    OBVIOUS
  <2>2. Len(items) \in Ends
    <3>1. (Len(items) + 1) * size >= Len(items) + 1
      BY <1>1, Multiples
    <3>2. ~((Len(items) + 1) * size < Len(items))
      BY <1>1, <3>1, Multiples
    <3>. QED
      BY <1>1, <1>2, <3>2
  <2>. HIDE DEF Ends
  <2>3. \E p \in Ends : \A m \in Ends : p <= m
    BY <2>1, <2>2, LeastNumber
  <2>. QED
    BY <2>3 DEF Min
<1>4. last \in Nat /\ last <= Len(items) /\ (last + 1) * size >= Len(items)
  BY <1>1, <1>2, <1>3, Multiples
<1>5. \A p \in 1 .. last : p * size < Len(items) /\ p * size \in Nat
  <2>. TAKE p \in 1 .. last
  <2>1. p - 1 \in 0 .. Len(items) /\ (p - 1) + 1 = p /\ ~(last <= p - 1) /\ p \in Nat
    BY <1>1, <1>4
  <2>2. p - 1 \notin Ends
    BY <1>3, <2>1
  <2>3. p * size < Len(items)
    BY <1>2, <2>1, <2>2
  <2>. QED
    BY <2>1, <2>3, Multiples
<1>. HIDE DEF last
<1>6. \A p \in 1 .. last + 1 : pages[p] = SubSeq(items, (p - 1) * size + 1, End(p))
  <2>. TAKE p \in 1 .. last + 1
  <2>1. p - 1 \in Nat /\ (p - 1) + 1 = p /\ p * size \in Nat
    BY <1>4, Multiples
  <2>2. pages[p] = SubSeq(items, (p - 1) * size + 1, Min({p * size, Len(items)}))
    BY <2>1 DEF Slice
  <2>3. Min({p * size, Len(items)}) = End(p)
    <3>1. CASE p <= last
      BY <1>1, <1>5, <2>1, <3>1, MinOfTwo
    <3>2. CASE p = last + 1
      <4>1. ~(p <= last) /\ p * size >= Len(items)
        BY <1>4, <3>2
      <4>. QED
        BY <1>1, <2>1, <4>1, MinOfTwo
    <3>. QED
      BY <1>4, <3>1, <3>2
  <2>. QED
    BY <2>2, <2>3
<1>7. Len(pages) = last + 1 /\ last + 1 \in Nat /\ last + 1 # 0
  <2>1. last + 1 \in Nat
    BY <1>4
  <2>. QED
    BY <2>1, <1>4
<1>. HIDE DEF pages
<1>8. ASSUME NEW p \in 1 .. last + 1, p # 1 PROVE h[p] = h[p - 1] \o pages[p]
  <2>1. /\ p - 1 \in 1 .. last /\ p - 1 \in 1 .. last + 1 /\ p - 1 \in Nat
    BY <1>4, <1>8
  <2>2. h[p - 1] = SubSeq(items, 1, (p - 1) * size)
    BY <2>1
  <2>3. (p - 1) * size \in 0 .. Len(items)
    BY <1>1, <1>5, <2>1
  <2>4. End(p) \in (p - 1) * size .. Len(items)
    <3>1. p * size = (p - 1) * size + size
      <4>1. (p - 1) + 1 = p
        OBVIOUS
      <4>. QED
        BY <2>1, <4>1, Multiples
    <3>2. CASE p <= last
      <4>1. p * size < Len(items) /\ p * size \in Nat
        BY <1>4, <1>5, <3>2
      <4>. QED
        BY <1>1, <2>3, <3>1, <3>2, <4>1
    <3>3. CASE ~(p <= last)
      BY <1>1, <2>3, <3>3
    <3>. QED
      BY <3>2, <3>3
  <2>. HIDE DEF h, End
  <2>5. SubSeq(items, 1, (p - 1) * size) \o SubSeq(items, (p - 1) * size + 1, End(p))
          = SubSeq(items, 1, End(p))
    <3>. DEFINE k == (p - 1) * size
    <3>1. k \in 1 - 1 .. Len(items) /\ End(p) \in k .. Len(items) /\ 1 \in 1 .. Len(items) + 1
      BY <1>1, <2>3, <2>4
    <3>. HIDE DEF k
    <3>2. SubSeq(items, 1, k) \o SubSeq(items, k + 1, End(p)) = SubSeq(items, 1, End(p))
      BY <3>1, ConcatAdjacentSubSeq
    <3>. QED
      BY <3>2 DEF k
  <2>6. h[p] = SubSeq(items, 1, End(p))
    BY DEF h
  <2>. QED
    BY <1>6, <2>2, <2>5, <2>6
<1>9. h[1] = pages[1]
  <2>1. 1 \in 1 .. last + 1 /\ (1 - 1) * size + 1 = 1
    BY <1>4
  <2>2. pages[1] = SubSeq(items, (1 - 1) * size + 1, End(1))
    BY <1>6, <2>1
  <2>. QED
    BY <2>1, <2>2
<1>10. h = Body(h)
  <2>1. \A p \in 1 .. last + 1 : h[p] = IF p = 1 THEN pages[p] ELSE h[p - 1] \o pages[p]
    BY <1>8, <1>9
  <2>2. DOMAIN h = 1 .. last + 1 /\ h = [p \in DOMAIN h |-> h[p]]
    OBVIOUS
  <2>. HIDE DEF h
  <2>. QED
    BY <1>7, <2>1, <2>2
<1>11. flatten = Body(flatten)
  <2>. HIDE DEF Body, h
  <2>. QED
    BY <1>10
<1>12. FlattenSeq(pages) = flatten[last + 1]
  BY <1>7 DEF FlattenSeq
<1>. HIDE DEF flatten
<1>13. \A p \in 1 .. last + 1 :
          flatten[p] = IF p = 1 THEN pages[p] ELSE flatten[p - 1] \o pages[p]
  BY <1>7, <1>11
<1>. HIDE DEF h
<1>14. flatten[last + 1] = h[last + 1]
  <2>. DEFINE Reached == {p \in 0 .. last + 1 : p # 0 => flatten[p] = h[p]}
  <2>1. 0 \in Reached
    BY <1>4
  <2>2. ASSUME NEW p \in 1 .. last + 1, p - 1 \in Reached PROVE p \in Reached
    <3>1. p \in 0 .. last + 1
      BY <1>4
    <3>2. CASE p = 1
      BY <1>9, <1>13, <3>1, <3>2
    <3>3. CASE p # 1
      <4>1. flatten[p - 1] = h[p - 1]
        BY <2>2, <3>3
      <4>. QED
        BY <1>8, <1>13, <3>1, <3>3, <4>1
    <3>. QED
      BY <3>2, <3>3
  <2>3. \A p \in 0 .. last + 1 : p \in Reached
    <3>. HIDE DEF Reached
    <3>. QED
      BY <1>7, <2>1, <2>2, UpTo
  <2>. QED
    BY <1>4, <2>3
<1>15. h[last + 1] = items
  <2>1. h[last + 1] = SubSeq(items, 1, Len(items))
    BY <1>4 DEF h
  <2>. QED
    BY <2>1, SubSeqFull
<1>. QED
  BY <1>12, <1>14, <1>15 DEF pages, last

-----------------------------------------------------------------------------
(* The inductive invariant of the walk *)

WalkTypes ==
  /\ table \in Seq(Rows) /\ IsInjective(table)
  /\ above \in [Rows -> Rows] /\ holder \in [Goods -> Rows]
  /\ walk \in [page : Nat, got : Seq(Rows), phase : {"walking", "walked"}]
  /\ listing \in [left : SUBSET Rows, scope : SUBSET Rows, pages : [Rows -> Nat],
                  items : Seq(Goods)]
  /\ listing.left \subseteq listing.scope
  /\ changes \in 0 .. MaxChanges /\ shrunk \in BOOLEAN
  /\ born \subseteq Rows /\ handed \subseteq Goods /\ shifted \subseteq Rows

\* A row that was there from the start and comes before the next page has been read:
\* rows that are created push the others towards the pages still to come.
ReadSoFar ==
  walk.phase = "walking" /\ ~shrunk =>
    \A i \in 1 .. Len(table) : i <= walk.page * PageSize => table[i] \in ToSet(walk.got) \cup born
NobodyAsked == walk.phase = "walking" => listing.left = {}

\* The devices on the pages that were read are listed, each in one place.
Places(items, g) == {i \in DOMAIN items : items[i] = g}
ReadAlready(k, g) ==
  k \notin listing.left \/ \E i \in Places(DevicesOf(k), g) : i <= listing.pages[k] * PageSize
Listed ==
  walk.phase = "walked" =>
    \A g \in Goods \ handed :
      holder[g] \notin shifted =>
        IF holder[g] \in listing.scope /\ ReadAlready(holder[g], g)
        THEN \E i : Places(listing.items, g) = {i}
        ELSE Places(listing.items, g) = {}

WalkInductive == WalkTypes /\ ReadSoFar /\ NobodyAsked /\ ScopeIsDescendants /\ Listed

\* A finite set as a sequence names each member in one place.
LEMMA NamesEachOnce ==
  ASSUME NEW T, NEW S \in SUBSET T, IsFiniteSet(S)
  PROVE  /\ SetToSeq(S) \in Seq(T)
         /\ \A x \in S : \E i : Places(SetToSeq(S), x) = {i}
         /\ \A x : x \notin S => Places(SetToSeq(S), x) = {}
<1>. DEFINE n == Cardinality(S)
            s == SetToSeq(S)
<1>1. n \in Nat /\ ExistsBijection(1 .. n, S)
  BY FS_CardinalityType
<1>2. PICK f \in Bijection(1 .. n, S) : TRUE
  BY <1>1 DEF ExistsBijection
<1>3. f \in [1 .. n -> S] /\ IsInjective(f)
  BY <1>2 DEF Bijection, Injection
<1>4. s \in [1 .. n -> S] /\ IsInjective(s)
  BY <1>3 DEF SetToSeq
<1>. HIDE DEF s
<1>5. s \in Injection(1 .. n, S)
  BY <1>4 DEF Injection
<1>6. Cardinality(1 .. n) = n
  BY <1>1, FS_Interval
<1>7. s \in Surjection(1 .. n, S)
  BY <1>5, <1>6, FS_Injection
<1>8. \A x \in S : \E i \in 1 .. n : s[i] = x
  BY <1>7 DEF Surjection
<1>9. s \in Seq(T) /\ DOMAIN s = 1 .. n
  BY <1>1, <1>4
<1>10. ASSUME NEW x \in S PROVE \E i : Places(s, x) = {i}
  <2>1. PICK i \in 1 .. n : s[i] = x
    BY <1>8
  <2>2. Places(s, x) = {i}
    BY <1>4, <1>9, <2>1 DEF Places, IsInjective
  <2>. QED
    BY <2>2
<1>11. ASSUME NEW x, x \notin S PROVE Places(s, x) = {}
  BY <1>4, <1>9, <1>11 DEF Places
<1>. QED
  BY <1>9, <1>10, <1>11 DEF s

\* A customer's devices, as ThingsBoard returns them.
LEMMA DevicesNamedOnce ==
  ASSUME NEW k
  PROVE  /\ DevicesOf(k) \in Seq(Goods)
         /\ \A g \in Goods : holder[g] = k =>
              \E i \in 1 .. Len(DevicesOf(k)) : Places(DevicesOf(k), g) = {i}
         /\ \A g : ~(g \in Goods /\ holder[g] = k) => Places(DevicesOf(k), g) = {}
         /\ \A g, i : i \in Places(DevicesOf(k), g) => i \in 1 .. Len(DevicesOf(k))
<1>. DEFINE mine == {g \in Goods : holder[g] = k}
            all == SetToSeq(mine)
<1>1. mine \in SUBSET Goods
  OBVIOUS
<1>2. IsFiniteSet(mine)
  BY <1>1, WalkAssumption, FS_Subset
<1>3. \A g : g \in mine <=> g \in Goods /\ holder[g] = k
  OBVIOUS
<1>. HIDE DEF mine
<1>4. /\ all \in Seq(Goods)
      /\ \A g \in mine : \E i : Places(all, g) = {i}
      /\ \A g : g \notin mine => Places(all, g) = {}
  BY <1>1, <1>2, NamesEachOnce
<1>. HIDE DEF all
<1>5. DOMAIN all = 1 .. Len(all)
  BY <1>4
<1>6. \A g, i : i \in Places(all, g) => i \in 1 .. Len(all)
  BY <1>5 DEF Places
<1>7. ASSUME NEW g \in mine PROVE \E i \in 1 .. Len(all) : Places(all, g) = {i}
  <2>1. PICK i : Places(all, g) = {i}
    BY <1>4
  <2>. QED
    BY <1>6, <2>1
<1>8. DevicesOf(k) = all
  BY DEF DevicesOf, all, mine
<1>. QED
  BY <1>3, <1>4, <1>6, <1>7, <1>8

\* What a page of a list holds of it.
OnPage(rows, page, g) ==
  {i - page * PageSize : i \in {j \in Places(rows, g) :
     page * PageSize < j /\ j <= (page + 1) * PageSize}}

LEMMA PageHolds ==
  ASSUME NEW T, NEW rows \in Seq(T), NEW page \in Nat, NEW g,
         NEW res, res = Slice(rows, page, PageSize)
  PROVE  /\ res.data \in Seq(T)
         /\ Places(res.data, g) = OnPage(rows, page, g)
         /\ ~res.hasNext => Len(rows) <= (page + 1) * PageSize
<1>. DEFINE n == Min({(page + 1) * PageSize, Len(rows)})
<1>1. /\ Len(rows) \in Nat /\ page * PageSize \in Nat /\ (page + 1) * PageSize \in Nat
      /\ \A i \in 1 .. Len(rows) : rows[i] \in T
      /\ DOMAIN rows = 1 .. Len(rows)
  BY WalkAssumption, Multiples
<1>2. PICK a \in Nat : a = page * PageSize
  BY <1>1
<1>3. PICK b \in Nat : b = (page + 1) * PageSize
  BY <1>1
<1>4. n = IF b <= Len(rows) THEN b ELSE Len(rows)
  BY <1>1, <1>3, MinOfTwo
<1>5. res.data = SubSeq(rows, a + 1, n) /\ (res.hasNext <=> b < Len(rows))
  BY <1>2, <1>3 DEF Slice
<1>. HIDE DEF n
<1>a. Len(rows) \in Nat /\ \A i \in 1 .. Len(rows) : rows[i] \in T
  OBVIOUS
<1>b. n \in Nat /\ n <= Len(rows) /\ n <= b /\ (n = b \/ n = Len(rows))
  BY <1>a, <1>4
<1>6. /\ res.data \in Seq(T)
      /\ \A i \in 1 .. n - a : res.data[i] = rows[a + i]
      /\ Len(res.data) = IF a + 1 <= n THEN n - a ELSE 0
  <2>1. a + 1 \in Int /\ n \in Int /\ \A i \in a + 1 .. n : rows[i] \in T
    BY <1>a, <1>b
  <2>2. /\ SubSeq(rows, a + 1, n) \in Seq(T)
        /\ Len(SubSeq(rows, a + 1, n)) = IF a + 1 <= n THEN n - (a + 1) + 1 ELSE 0
        /\ \A i \in 1 .. n - (a + 1) + 1 :
             SubSeq(rows, a + 1, n)[i] = rows[a + 1 + i - 1]
    BY <2>1, SubSeqProperties
  <2>3. n - (a + 1) + 1 = n - a
    BY <2>1
  <2>4. \A i \in 1 .. n - a : a + 1 + i - 1 = a + i
    BY <2>1
  <2>. QED
    BY <1>5, <2>2, <2>3, <2>4
<1>7. DOMAIN res.data = 1 .. Len(res.data)
  BY <1>6
<1>8. ASSUME NEW i \in Places(res.data, g)
      PROVE  i + a \in {j \in Places(rows, g) : a < j /\ j <= b} /\ (i + a) - a = i
  <2>1. i \in 1 .. Len(res.data) /\ res.data[i] = g
    BY <1>7, <1>8 DEF Places
  <2>2. a + 1 <= n /\ i \in 1 .. n - a
    BY <1>b, <1>6, <2>1
  <2>3. a + i = i + a /\ i + a \in 1 .. Len(rows) /\ a < i + a /\ i + a <= b /\ (i + a) - a = i
    BY <1>a, <1>b, <2>2
  <2>4. rows[i + a] = g
    BY <1>6, <2>1, <2>2, <2>3
  <2>. QED
    BY <1>1, <2>3, <2>4 DEF Places
<1>9. ASSUME NEW j \in Places(rows, g), a < j, j <= b
      PROVE  j - a \in Places(res.data, g)
  <2>1. j \in 1 .. Len(rows) /\ rows[j] = g
    BY <1>1, <1>9 DEF Places
  <2>2. a + 1 <= n /\ j - a \in 1 .. n - a /\ a + (j - a) = j
    BY <1>a, <1>b, <1>9, <2>1
  <2>3. res.data[j - a] = g /\ j - a \in 1 .. Len(res.data)
    BY <1>6, <2>1, <2>2
  <2>. QED
    BY <1>7, <2>3 DEF Places
<1>10. Places(res.data, g) = {i - a : i \in {j \in Places(rows, g) : a < j /\ j <= b}}
  BY <1>8, <1>9
<1>11. ~res.hasNext => Len(rows) <= (page + 1) * PageSize
  BY <1>1, <1>3, <1>5
<1>12. Places(res.data, g) = OnPage(rows, page, g)
  BY <1>2, <1>3, <1>10 DEF OnPage
<1>. QED
  BY <1>6, <1>11, <1>12

\* Putting a row into the table, and taking one out.
LEMMA RowInserted ==
  ASSUME NEW s \in Seq(Rows), IsInjective(s), NEW k \in Rows \ ToSet(s),
         NEW i \in 1 .. Len(s) + 1, NEW t, t = InsertAt(s, i, k)
  PROVE  /\ t \in Seq(Rows) /\ IsInjective(t) /\ Len(t) = Len(s) + 1
         /\ \A j \in 1 .. Len(t) : t[j] = IF j < i THEN s[j] ELSE IF j = i THEN k ELSE s[j - 1]
         /\ ToSet(t) = ToSet(s) \cup {k}
<1>1. /\ Len(s) \in Nat /\ DOMAIN s = 1 .. Len(s)
      /\ \A j \in 1 .. Len(s) : s[j] \in Rows
      /\ \A a, b \in 1 .. Len(s) : s[a] = s[b] => a = b
      /\ \A j \in 1 .. Len(s) : s[j] # k
  BY DEF IsInjective, ToSet
<1>. DEFINE before == SubSeq(s, 1, i - 1)
            behind == SubSeq(s, i, Len(s))
<1>2. /\ before \in Seq(Rows) /\ Len(before) = i - 1
      /\ \A j \in 1 .. i - 1 : before[j] = s[j]
  <2>1. 1 \in Int /\ i - 1 \in Int /\ \A j \in 1 .. i - 1 : s[j] \in Rows
    BY <1>1
  <2>2. /\ before \in Seq(Rows)
        /\ Len(before) = IF 1 <= i - 1 THEN (i - 1) - 1 + 1 ELSE 0
        /\ \A j \in 1 .. (i - 1) - 1 + 1 : before[j] = s[1 + j - 1]
    BY <2>1, SubSeqProperties
  <2>. QED
    BY <1>1, <2>2
<1>3. /\ behind \in Seq(Rows) /\ Len(behind) = Len(s) - i + 1
      /\ \A j \in 1 .. Len(s) - i + 1 : behind[j] = s[i + j - 1]
  <2>1. i \in Int /\ Len(s) \in Int /\ \A j \in i .. Len(s) : s[j] \in Rows
    BY <1>1
  <2>2. /\ behind \in Seq(Rows)
        /\ Len(behind) = IF i <= Len(s) THEN Len(s) - i + 1 ELSE 0
        /\ \A j \in 1 .. Len(s) - i + 1 : behind[j] = s[i + j - 1]
    BY <2>1, SubSeqProperties
  <2>. QED
    BY <1>1, <2>2
<1>. HIDE DEF before, behind
<1>4. /\ before \o <<k>> \in Seq(Rows) /\ Len(before \o <<k>>) = i
      /\ \A j \in 1 .. i : (before \o <<k>>)[j] = IF j < i THEN s[j] ELSE k
  <2>1. <<k>> \in Seq(Rows) /\ Len(<<k>>) = 1 /\ <<k>>[1] = k
    OBVIOUS
  <2>2. /\ before \o <<k>> \in Seq(Rows) /\ Len(before \o <<k>>) = Len(before) + Len(<<k>>)
        /\ \A j \in 1 .. Len(before) + Len(<<k>>) :
             (before \o <<k>>)[j] = IF j <= Len(before) THEN before[j] ELSE <<k>>[j - Len(before)]
    BY <1>2, <2>1, ConcatProperties
  <2>3. ASSUME NEW j \in 1 .. i PROVE (before \o <<k>>)[j] = IF j < i THEN s[j] ELSE k
    <3>1. CASE j < i
      <4>1. j \in 1 .. i - 1 /\ j <= Len(before) /\ j \in 1 .. Len(before) + Len(<<k>>)
        BY <1>2, <2>1, <3>1
      <4>. QED
        BY <1>2, <2>2, <3>1, <4>1
    <3>2. CASE j = i
      <4>1. ~(j <= Len(before)) /\ j - Len(before) = 1 /\ j \in 1 .. Len(before) + Len(<<k>>)
        BY <1>2, <2>1, <3>2
      <4>. QED
        BY <2>1, <2>2, <3>2, <4>1
    <3>3. j < i \/ j = i
      BY <1>1
    <3>. QED
      BY <3>1, <3>2, <3>3, Zenon
  <2>4. Len(before) + Len(<<k>>) = i
    BY <1>2, <2>1
  <2>. QED
    BY <2>2, <2>3, <2>4
<1>5. t = (before \o <<k>>) \o behind
  BY DEF InsertAt, before, behind
<1>6. /\ t \in Seq(Rows) /\ Len(t) = Len(s) + 1
      /\ \A j \in 1 .. Len(s) + 1 :
           t[j] = IF j <= i THEN (before \o <<k>>)[j] ELSE behind[j - i]
  <2>. DEFINE front == before \o <<k>>
  <2>1. front \in Seq(Rows) /\ Len(front) = i
    BY <1>4
  <2>. HIDE DEF front
  <2>2. /\ front \o behind \in Seq(Rows) /\ Len(front \o behind) = Len(front) + Len(behind)
        /\ \A j \in 1 .. Len(front) + Len(behind) :
             (front \o behind)[j] = IF j <= Len(front) THEN front[j] ELSE behind[j - Len(front)]
    BY <1>3, <2>1, ConcatProperties
  <2>3. t = front \o behind
    BY <1>5 DEF front
  <2>4. Len(front) + Len(behind) = Len(s) + 1
    BY <1>1, <1>3, <2>1
  <2>5. t \in Seq(Rows) /\ Len(t) = Len(s) + 1
    BY <2>2, <2>3, <2>4
  <2>6. \A j \in 1 .. Len(s) + 1 : t[j] = IF j <= i THEN front[j] ELSE behind[j - i]
    BY <2>1, <2>2, <2>3, <2>4
  <2>. QED
    BY <2>5, <2>6 DEF front
<1>. HIDE DEF before
<1>7. ASSUME NEW j \in 1 .. Len(s) + 1
      PROVE  t[j] = IF j < i THEN s[j] ELSE IF j = i THEN k ELSE s[j - 1]
  <2>1. CASE j <= i
    <3>1. j \in 1 .. i
      BY <2>1
    <3>2. t[j] = IF j < i THEN s[j] ELSE k
      BY <1>4, <1>6, <2>1, <3>1
    <3>. QED
      BY <2>1, <3>2
  <2>2. CASE ~(j <= i)
    <3>1. j - i \in 1 .. Len(s) - i + 1 /\ i + (j - i) - 1 = j - 1
      BY <1>1, <2>2
    <3>2. behind[j - i] = s[j - 1]
      BY <1>3, <3>1
    <3>. QED
      BY <1>6, <2>2, <3>2
  <2>. QED
    BY <2>1, <2>2
<1>8. DOMAIN t = 1 .. Len(s) + 1
  BY <1>6
<1>9. ASSUME NEW a \in 1 .. Len(s) + 1, NEW b \in 1 .. Len(s) + 1, t[a] = t[b] PROVE a = b
  <2>1. /\ a < i => a \in 1 .. Len(s)
        /\ a > i => a - 1 \in 1 .. Len(s)
        /\ b < i => b \in 1 .. Len(s)
        /\ b > i => b - 1 \in 1 .. Len(s)
    BY <1>1
  <2>2. CASE a < i
    BY <1>1, <1>7, <1>9, <2>1, <2>2
  <2>3. CASE a = i
    BY <1>1, <1>7, <1>9, <2>1, <2>3
  <2>4. CASE a > i
    BY <1>1, <1>7, <1>9, <2>1, <2>4
  <2>. QED
    BY <2>2, <2>3, <2>4
<1>10. ToSet(t) = ToSet(s) \cup {k}
  <2>1. \A j \in 1 .. Len(s) + 1 : t[j] \in ToSet(s) \cup {k}
    <3>. TAKE j \in 1 .. Len(s) + 1
    <3>1. /\ j < i => j \in 1 .. Len(s)
          /\ j > i => j - 1 \in 1 .. Len(s)
      BY <1>1
    <3>. QED
      BY <1>1, <1>7, <3>1 DEF ToSet
  <2>2. \A j \in 1 .. Len(s) : s[j] \in ToSet(t)
    <3>. TAKE j \in 1 .. Len(s)
    <3>1. CASE j < i
      <4>1. j \in 1 .. Len(s) + 1 /\ t[j] = s[j]
        BY <1>1, <1>7, <3>1
      <4>. QED
        BY <1>8, <4>1 DEF ToSet
    <3>2. CASE j >= i
      <4>1. j + 1 \in 1 .. Len(s) + 1 /\ ~(j + 1 < i) /\ j + 1 # i /\ (j + 1) - 1 = j
        BY <1>1, <3>2
      <4>2. t[j + 1] = s[j]
        BY <1>7, <4>1
      <4>. QED
        BY <1>8, <4>1, <4>2 DEF ToSet
    <3>. QED
      BY <3>1, <3>2
  <2>3. t[i] = k /\ i \in DOMAIN t
    BY <1>7, <1>8
  <2>. QED
    BY <1>1, <1>8, <2>1, <2>2, <2>3 DEF ToSet
<1>. QED
  BY <1>6, <1>7, <1>8, <1>9, <1>10 DEF IsInjective

LEMMA RowRemoved ==
  ASSUME NEW s \in Seq(Rows), IsInjective(s), NEW i \in 1 .. Len(s), NEW t, t = RemoveAt(s, i)
  PROVE  /\ t \in Seq(Rows) /\ IsInjective(t)
         /\ ToSet(t) \subseteq ToSet(s)
<1>1. /\ Len(s) \in Nat /\ DOMAIN s = 1 .. Len(s)
      /\ \A j \in 1 .. Len(s) : s[j] \in Rows
      /\ \A a, b \in 1 .. Len(s) : s[a] = s[b] => a = b
  BY DEF IsInjective
<1>. DEFINE before == SubSeq(s, 1, i - 1)
            behind == SubSeq(s, i + 1, Len(s))
<1>2. /\ before \in Seq(Rows) /\ Len(before) = i - 1
      /\ \A j \in 1 .. i - 1 : before[j] = s[j]
  <2>1. 1 \in Int /\ i - 1 \in Int /\ \A j \in 1 .. i - 1 : s[j] \in Rows
    BY <1>1
  <2>2. /\ before \in Seq(Rows)
        /\ Len(before) = IF 1 <= i - 1 THEN (i - 1) - 1 + 1 ELSE 0
        /\ \A j \in 1 .. (i - 1) - 1 + 1 : before[j] = s[1 + j - 1]
    BY <2>1, SubSeqProperties
  <2>. QED
    BY <1>1, <2>2
<1>3. /\ behind \in Seq(Rows) /\ Len(behind) = Len(s) - i
      /\ \A j \in 1 .. Len(s) - i : behind[j] = s[i + j]
  <2>1. i + 1 \in Int /\ Len(s) \in Int /\ \A j \in i + 1 .. Len(s) : s[j] \in Rows
    BY <1>1
  <2>2. /\ behind \in Seq(Rows)
        /\ Len(behind) = IF i + 1 <= Len(s) THEN Len(s) - (i + 1) + 1 ELSE 0
        /\ \A j \in 1 .. Len(s) - (i + 1) + 1 : behind[j] = s[(i + 1) + j - 1]
    BY <2>1, SubSeqProperties
  <2>. HIDE DEF behind
  <2>3. Len(behind) = Len(s) - i
    <3>1. CASE i + 1 <= Len(s)
      <4>1. Len(behind) = Len(s) - (i + 1) + 1
        BY <2>2, <3>1
      <4>. QED
        BY <1>1, <4>1
    <3>2. CASE i = Len(s)
      <4>1. ~ (i + 1 <= Len(s)) /\ Len(s) - i = 0
        BY <1>1, <3>2
      <4>. QED
        BY <2>2, <4>1
    <3>3. i + 1 <= Len(s) \/ i = Len(s)
      <4>1. PICK l \in Nat : l = Len(s)
        BY <1>1
      <4>2. i \in 1 .. l => i + 1 <= l \/ i = l
        OBVIOUS
      <4>. QED
        BY <4>1, <4>2
    <3>. QED
      BY <3>1, <3>2, <3>3
  <2>4. ASSUME NEW j \in 1 .. Len(s) - i PROVE behind[j] = s[i + j]
    <3>1. j \in 1 .. Len(s) - (i + 1) + 1 /\ (i + 1) + j - 1 = i + j
      BY <1>1
    <3>2. behind[j] = s[(i + 1) + j - 1]
      BY <2>2, <3>1
    <3>. QED
      BY <3>1, <3>2
  <2>. QED
    BY <2>2, <2>3, <2>4
<1>4. t = before \o behind
  BY DEF RemoveAt
<1>. HIDE DEF before, behind
<1>5. /\ t \in Seq(Rows) /\ Len(t) = Len(s) - 1
      /\ \A j \in 1 .. Len(s) - 1 : t[j] = IF j < i THEN before[j] ELSE behind[j - (i - 1)]
  <2>1. /\ before \o behind \in Seq(Rows) /\ Len(before \o behind) = Len(before) + Len(behind)
        /\ \A j \in 1 .. Len(before) + Len(behind) :
             (before \o behind)[j] =
               IF j <= Len(before) THEN before[j] ELSE behind[j - Len(before)]
    BY <1>2, <1>3, ConcatProperties
  <2>2. Len(before) + Len(behind) = Len(s) - 1 /\ \A j \in Nat : j <= Len(before) <=> j < i
    BY <1>1, <1>2, <1>3
  <2>. QED
    BY <1>2, <1>4, <2>1, <2>2
<1>6. ASSUME NEW j \in 1 .. Len(s) - 1 PROVE t[j] = IF j < i THEN s[j] ELSE s[j + 1]
  <2>1. CASE j < i
    <3>1. j \in 1 .. i - 1
      BY <1>1, <2>1
    <3>. QED
      BY <1>2, <1>5, <2>1, <3>1
  <2>2. CASE ~(j < i)
    <3>1. j - (i - 1) \in 1 .. Len(s) - i /\ i + (j - (i - 1)) = j + 1
      BY <1>1, <2>2
    <3>. QED
      BY <1>3, <1>5, <2>2, <3>1
  <2>. QED
    BY <2>1, <2>2
<1>7. DOMAIN t = 1 .. Len(s) - 1
  BY <1>5
<1>8. ASSUME NEW a \in 1 .. Len(s) - 1, NEW b \in 1 .. Len(s) - 1, t[a] = t[b] PROVE a = b
  <2>1. /\ a \in 1 .. Len(s) /\ a + 1 \in 1 .. Len(s)
        /\ b \in 1 .. Len(s) /\ b + 1 \in 1 .. Len(s)
    BY <1>1
  <2>2. CASE a < i
    BY <1>1, <1>6, <1>8, <2>1, <2>2
  <2>3. CASE ~(a < i)
    BY <1>1, <1>6, <1>8, <2>1, <2>3
  <2>. QED
    BY <2>2, <2>3
<1>9. \A j \in 1 .. Len(s) - 1 : t[j] \in ToSet(s)
  <2>. TAKE j \in 1 .. Len(s) - 1
  <2>1. j \in 1 .. Len(s) /\ j + 1 \in 1 .. Len(s)
    BY <1>1
  <2>. QED
    BY <1>1, <1>6, <2>1 DEF ToSet
<1>. QED
  BY <1>5, <1>7, <1>8, <1>9 DEF IsInjective, ToSet

\* What one request adds to the rows read so far.
LEMMA PageRead ==
  ASSUME table \in Seq(Rows), NEW got \in Seq(Rows), NEW page \in Nat,
         NEW res, res = Slice(table, page, PageSize)
  PROVE  /\ got \o res.data \in Seq(Rows)
         /\ ToSet(got) \subseteq ToSet(got \o res.data)
         /\ \A i \in 1 .. Len(table) :
              i <= (page + 1) * PageSize =>
                i <= page * PageSize \/ table[i] \in ToSet(got \o res.data)
         /\ ~res.hasNext => Len(table) <= (page + 1) * PageSize
<1>. DEFINE m == page * PageSize + 1
            n == Min({(page + 1) * PageSize, Len(table)})
<1>1. /\ Len(table) \in Nat /\ page * PageSize \in Nat /\ (page + 1) * PageSize \in Nat
      /\ \A i \in 1 .. Len(table) : table[i] \in Rows
  BY WalkAssumption, Multiples
<1>2. n = IF (page + 1) * PageSize <= Len(table) THEN (page + 1) * PageSize ELSE Len(table)
  BY <1>1, MinOfTwo
<1>3. res.data = SubSeq(table, m, n) /\ (res.hasNext <=> (page + 1) * PageSize < Len(table))
  BY DEF Slice
<1>. HIDE DEF n
<1>4. /\ res.data \in Seq(Rows)
      /\ \A i \in 1 .. n - m + 1 : res.data[i] = table[m + i - 1]
      /\ Len(res.data) = IF m <= n THEN n - m + 1 ELSE 0
  <2>1. m \in Int /\ n \in Int /\ \A i \in m .. n : table[i] \in Rows
    BY <1>1, <1>2
  <2>. HIDE DEF m
  <2>. QED
    BY <1>3, <2>1, SubSeqProperties
<1>5. got \o res.data \in Seq(Rows) /\ Range(got \o res.data) = Range(got) \cup Range(res.data)
  BY <1>4, RangeConcatenation, ConcatProperties
<1>6. \A s : Range(s) = ToSet(s)
  BY DEF Range, ToSet
<1>7. ASSUME NEW i \in 1 .. Len(table), i <= (page + 1) * PageSize, ~(i <= page * PageSize)
      PROVE  table[i] \in ToSet(res.data)
  <2>1. m <= n /\ i - m + 1 \in 1 .. n - m + 1 /\ m + (i - m + 1) - 1 = i
    <3>1. PICK a \in Nat : a = page * PageSize
      BY <1>1
    <3>2. PICK b \in Nat : b = (page + 1) * PageSize
      BY <1>1
    <3>3. m = a + 1 /\ n = IF b <= Len(table) THEN b ELSE Len(table)
      BY <1>2, <3>1, <3>2
    <3>4. i <= b /\ ~(i <= a)
      BY <1>7, <3>1, <3>2
    <3>. HIDE DEF m
    <3>5. n \in Nat /\ i <= n /\ m <= i
      BY <1>1, <3>3, <3>4
    <3>. QED
      BY <1>1, <3>3, <3>5
  <2>2. DOMAIN res.data = 1 .. Len(res.data)
    BY <1>4
  <2>3. i - m + 1 \in DOMAIN res.data /\ res.data[i - m + 1] = table[i]
    BY <1>4, <2>1, <2>2
  <2>. QED
    BY <2>3 DEF ToSet
<1>. HIDE DEF m
<1>. QED
  BY <1>1, <1>3, <1>5, <1>6, <1>7

-----------------------------------------------------------------------------
(* The steps of the walk *)

LEMMA WalkInitInv == WalkInit => WalkInductive
<1>. SUFFICES ASSUME WalkInit PROVE WalkInductive
  OBVIOUS
<1>1. table \in Seq(Rows) /\ IsInjective(table)
  <2>1. PICK ids \in SUBSET Rows : table \in InOrder(ids)
    BY DEF WalkInit
  <2>2. Cardinality(ids) \in Nat
    <3>1. IsFiniteSet(ids)
      BY WalkAssumption, FS_Subset
    <3>. QED
      BY <3>1, FS_CardinalityType
  <2>. QED
    BY <2>1, <2>2 DEF InOrder
<1>2. WalkTypes
  <2>1. walk \in [page : Nat, got : Seq(Rows), phase : {"walking", "walked"}]
    BY DEF WalkInit
  <2>2. listing \in [left : SUBSET Rows, scope : SUBSET Rows, pages : [Rows -> Nat],
                     items : Seq(Goods)]
    <3>1. <<>> \in Seq(Goods) /\ {} \in SUBSET Rows /\ [k \in Rows |-> 0] \in [Rows -> Nat]
      OBVIOUS
    <3>. QED
      BY <3>1 DEF WalkInit
  <2>3. above \in [Rows -> Rows] /\ holder \in [Goods -> Rows]
    BY DEF WalkInit
  <2>4. listing.left \subseteq listing.scope
    BY DEF WalkInit
  <2>5. /\ changes \in 0 .. MaxChanges /\ shrunk \in BOOLEAN
        /\ born \subseteq Rows /\ handed \subseteq Goods /\ shifted \subseteq Rows
    <3>1. changes = 0 /\ shrunk = FALSE /\ born = {} /\ handed = {} /\ shifted = {}
      BY DEF WalkInit
    <3>2. shrunk \in BOOLEAN
      BY <3>1
    <3>3. changes \in 0 .. MaxChanges
      BY <3>1, WalkAssumption
    <3>. QED
      BY <3>1, <3>2, <3>3
  <2>. QED
    BY <1>1, <2>1, <2>2, <2>3, <2>4, <2>5 DEF WalkTypes
<1>3. ReadSoFar
  <2>1. walk.page * PageSize = 0
    BY WalkAssumption DEF WalkInit
  <2>2. \A i \in 1 .. Len(table) : ~(i <= 0)
    BY <1>1
  <2>. QED
    BY <2>1, <2>2 DEF ReadSoFar
<1>4. NobodyAsked /\ ScopeIsDescendants /\ Listed
  BY DEF WalkInit, NobodyAsked, ScopeIsDescendants, Listed
<1>. QED
  BY <1>2, <1>3, <1>4 DEF WalkInductive

LEMMA FetchPageInv ==
  ASSUME WalkInductive, FetchPage
  PROVE  WalkInductive'
<1>. DEFINE res == Slice(table, walk.page, PageSize)
            got == walk.got \o res.data
<1>1. /\ walk.phase = "walking" /\ walk.page \in Nat /\ walk.got \in Seq(Rows)
      /\ table \in Seq(Rows) /\ above \in [Rows -> Rows]
      /\ UNCHANGED <<table, above, holder, changes, shrunk, born, handed, shifted>>
  BY DEF WalkInductive, WalkTypes, FetchPage
<1>2. /\ walk' = [page |-> walk.page + 1, got |-> got,
                  phase |-> IF res.hasNext THEN "walking" ELSE "walked"]
      /\ res.hasNext => listing' = listing
      /\ ~res.hasNext =>
           listing' = [left |-> ScopeIds(got), scope |-> ScopeIds(got),
                       pages |-> [k \in Rows |-> 0], items |-> <<>>]
  BY DEF FetchPage
<1>. HIDE DEF res
<1>3. /\ got \in Seq(Rows) /\ ToSet(walk.got) \subseteq ToSet(got)
      /\ \A i \in 1 .. Len(table) :
           i <= (walk.page + 1) * PageSize =>
             i <= walk.page * PageSize \/ table[i] \in ToSet(got)
      /\ ~res.hasNext => Len(table) <= (walk.page + 1) * PageSize
  BY <1>1, PageRead DEF res
<1>. HIDE DEF got
<1>4. ScopeIds(got) \in SUBSET Rows /\ ScopeIds(got) = Beneath(ToSet(got))
  BY <1>1, <1>3, ScopeIsBeneath
<1>5. walk'.page = walk.page + 1 /\ walk'.got = got /\ walk'.phase \in {"walking", "walked"}
  BY <1>2
<1>6. WalkTypes'
  <2>1. walk' \in [page : Nat, got : Seq(Rows), phase : {"walking", "walked"}]
    BY <1>1, <1>2, <1>3
  <2>2. CASE res.hasNext
    BY <1>1, <1>2, <2>1, <2>2 DEF WalkInductive, WalkTypes
  <2>3. CASE ~res.hasNext
    <3>1. listing' \in [left : SUBSET Rows, scope : SUBSET Rows, pages : [Rows -> Nat],
                        items : Seq(Goods)]
      <4>0. \E s \in Seq(Goods) : s = <<>>
        BY EmptySeq, Zenon
      <4>1. PICK nothing \in Seq(Goods) : nothing = <<>>
        BY <4>0
      <4>2. PICK scope \in SUBSET Rows : scope = ScopeIds(got)
        BY <1>4
      <4>3. PICK none \in [Rows -> Nat] : none = [k \in Rows |-> 0]
        OBVIOUS
      <4>4. listing' = [left |-> scope, scope |-> scope, pages |-> none, items |-> nothing]
        BY <1>2, <2>3, <4>1, <4>2, <4>3
      <4>. QED
        BY <4>4
    <3>2. listing'.left \subseteq listing'.scope
      BY <1>2, <2>3
    <3>. QED
      BY <1>1, <2>1, <3>1, <3>2 DEF WalkInductive, WalkTypes
  <2>. QED
    BY <2>2, <2>3
\* all rows before the next page have been read, unless they are new
<1>7. ASSUME ~shrunk, NEW i \in 1 .. Len(table), i <= (walk.page + 1) * PageSize
      PROVE  table[i] \in ToSet(got) \cup born
  BY <1>1, <1>3, <1>7 DEF WalkInductive, ReadSoFar
<1>8. ReadSoFar'
  BY <1>1, <1>5, <1>7 DEF ReadSoFar
<1>9. NobodyAsked'
  BY <1>1, <1>2 DEF WalkInductive, NobodyAsked
<1>10. ScopeIsDescendants'
  <2>1. CASE res.hasNext
    BY <1>2, <2>1 DEF ScopeIsDescendants
  <2>2. CASE ~res.hasNext
    <3>1. /\ Beneath(ToSet(walk.got))' = Beneath(ToSet(got))
          /\ Beneath(ToSet(table) \ born)' = Beneath(ToSet(table) \ born)
      BY <1>1, <1>5 DEF Beneath
    <3>2. listing'.scope = Beneath(ToSet(got))
      BY <1>2, <1>4, <2>2
    <3>3. ASSUME ~shrunk PROVE Beneath(ToSet(table) \ born) \subseteq Beneath(ToSet(got))
      <4>1. DOMAIN table = 1 .. Len(table) /\ Len(table) \in Nat /\ PageSize \in Nat
        BY <1>1, WalkAssumption
      <4>2. ToSet(table) \ born \in SUBSET ToSet(got)
        <5>1. ASSUME NEW i \in 1 .. Len(table) PROVE table[i] \in ToSet(got) \cup born
          <6>1. i <= (walk.page + 1) * PageSize
            <7>1. (walk.page + 1) * PageSize \in Nat
              BY <1>1, WalkAssumption, Multiples
            <7>. QED
              BY <1>3, <2>2, <4>1, <7>1
          <6>. QED
            BY <1>7, <3>3, <6>1
        <5>. QED
          BY <4>1, <5>1 DEF ToSet
      <4>3. ToSet(got) \in SUBSET Rows
        BY <1>3, RowsAreCounted
      <4>. QED
        BY <4>2, <4>3, BeneathGrows
    <3>. QED
      BY <1>1, <3>1, <3>2, <3>3 DEF ScopeIsDescendants
  <2>. QED
    BY <2>1, <2>2
<1>11. Listed'
  <2>1. CASE res.hasNext
    BY <1>2, <2>1 DEF Listed
  <2>2. CASE ~res.hasNext
    <3>1. \A g : Places(listing'.items, g) = {}
      BY <1>2, <2>2 DEF Places
    <3>2. ASSUME NEW g \in Goods
          PROVE  ~(holder[g] \in listing'.scope /\ ReadAlready(holder[g], g)')
      <4>1. holder[g] \in Rows
        BY DEF WalkInductive, WalkTypes
      <4>2. listing'.left = listing'.scope /\ listing'.pages[holder[g]] = 0
        BY <1>2, <2>2, <4>1
      <4>3. listing'.pages[holder[g]] * PageSize = 0
        BY <4>2, WalkAssumption
      <4>4. DevicesOf(holder[g])' = DevicesOf(holder[g]) /\ holder' = holder
        BY <1>1 DEF DevicesOf
      <4>5. \A i \in Places(DevicesOf(holder[g]), g) : ~(i <= 0)
        BY <4>1, DevicesNamedOnce
      <4>. QED
        BY <4>2, <4>3, <4>4, <4>5 DEF ReadAlready
    <3>. QED
      BY <1>1, <3>1, <3>2 DEF Listed
  <2>. QED
    BY <2>1, <2>2
<1>. QED
  BY <1>6, <1>8, <1>9, <1>10, <1>11 DEF WalkInductive

\* Where something is in two lists, one after the other.
LEMMA PlacesJoin ==
  ASSUME NEW T, NEW s \in Seq(T), NEW t \in Seq(T), NEW g
  PROVE  Places(s \o t, g) = Places(s, g) \cup {i + Len(s) : i \in Places(t, g)}
<1>1. /\ s \o t \in Seq(T) /\ Len(s \o t) = Len(s) + Len(t)
      /\ \A i \in 1 .. Len(s) + Len(t) :
           (s \o t)[i] = IF i <= Len(s) THEN s[i] ELSE t[i - Len(s)]
  BY ConcatProperties
<1>2. /\ Len(s) \in Nat /\ DOMAIN s = 1 .. Len(s)
      /\ Len(t) \in Nat /\ DOMAIN t = 1 .. Len(t)
  OBVIOUS
<1>3. DOMAIN (s \o t) = 1 .. Len(s) + Len(t)
  BY <1>1
<1>. DEFINE u == s \o t
<1>. HIDE DEF u
<1>4. ASSUME NEW i \in Places(u, g)
      PROVE  i \in Places(s, g) \cup {j + Len(s) : j \in Places(t, g)}
  <2>1. i \in 1 .. Len(s) + Len(t) /\ u[i] = g
    BY <1>3, <1>4 DEF Places, u
  <2>2. CASE i <= Len(s)
    BY <1>1, <1>2, <2>1, <2>2 DEF Places, u
  <2>3. CASE ~(i <= Len(s))
    <3>1. i - Len(s) \in 1 .. Len(t) /\ (i - Len(s)) + Len(s) = i
      BY <1>2, <2>1, <2>3
    <3>2. i - Len(s) \in Places(t, g)
      BY <1>1, <1>2, <2>1, <2>3, <3>1 DEF Places, u
    <3>. QED
      BY <3>1, <3>2
  <2>. QED
    BY <2>2, <2>3
<1>5. ASSUME NEW i \in Places(s, g) PROVE i \in Places(u, g)
  <2>1. i \in 1 .. Len(s) /\ i \in 1 .. Len(s) + Len(t) /\ s[i] = g
    BY <1>2, <1>5 DEF Places
  <2>. QED
    BY <1>1, <1>3, <2>1 DEF Places, u
<1>6. ASSUME NEW j \in Places(t, g) PROVE j + Len(s) \in Places(u, g)
  <2>1. j \in 1 .. Len(t) /\ j + Len(s) \in 1 .. Len(s) + Len(t) /\ t[j] = g
    BY <1>2, <1>6 DEF Places
  <2>2. ~(j + Len(s) <= Len(s)) /\ (j + Len(s)) - Len(s) = j
    BY <1>2, <2>1
  <2>3. u[j + Len(s)] = t[j]
    BY <1>1, <2>1, <2>2 DEF u
  <2>. QED
    BY <1>3, <2>1, <2>3 DEF Places, u
<1>7. Places(u, g) = Places(s, g) \cup {i + Len(s) : i \in Places(t, g)}
  BY <1>4, <1>5, <1>6
<1>. QED
  BY <1>7 DEF u

LEMMA ListDevicesInv ==
  ASSUME WalkInductive, NEW k \in Rows, ListDevices(k)
  PROVE  WalkInductive'
<1>. DEFINE all == DevicesOf(k)
            p == listing.pages[k]
            res == Slice(all, p, PageSize)
            more == res.data
<1>1. /\ k \in listing.left /\ listing.left \subseteq listing.scope
      /\ walk.phase # "walking" /\ walk.phase \in {"walking", "walked"}
      /\ listing \in [left : SUBSET Rows, scope : SUBSET Rows, pages : [Rows -> Nat],
                      items : Seq(Goods)]
      /\ UNCHANGED <<table, above, holder, walk, changes, shrunk, born, handed, shifted>>
  BY DEF WalkInductive, WalkTypes, NobodyAsked, ListDevices
<1>2. /\ all \in Seq(Goods)
      /\ \A g \in Goods : holder[g] = k => \E i \in 1 .. Len(all) : Places(all, g) = {i}
      /\ \A g : ~(g \in Goods /\ holder[g] = k) => Places(all, g) = {}
      /\ \A g, i : i \in Places(all, g) => i \in 1 .. Len(all)
  BY DevicesNamedOnce
<1>3. listing' = [listing EXCEPT !.left = IF res.hasNext THEN @ ELSE @ \ {k},
                                 !.pages[k] = @ + 1, !.items = @ \o more]
  BY DEF ListDevices
<1>. HIDE DEF all
<1>4. p \in Nat
  BY <1>1
<1>5. /\ more \in Seq(Goods)
      /\ \A g : Places(more, g) = OnPage(all, p, g)
      /\ ~res.hasNext => Len(all) <= (p + 1) * PageSize
  <2>1. res = Slice(all, p, PageSize) /\ more = res.data
    OBVIOUS
  <2>. HIDE DEF p, res
  <2>. QED
    BY <1>2, <1>4, <2>1, PageHolds
<1>. HIDE DEF res
<1>6. /\ listing'.left = IF res.hasNext THEN listing.left ELSE listing.left \ {k}
      /\ listing'.scope = listing.scope
      /\ listing'.pages = [listing.pages EXCEPT ![k] = p + 1]
      /\ listing'.items = listing.items \o more
  BY <1>1, <1>3
<1>7. listing.items \o more \in Seq(Goods)
  <2>1. listing.items \in Seq(Goods)
    BY <1>1
  <2>. QED
    BY <1>5, <2>1, ConcatProperties
<1>8. WalkTypes'
  <2>1. PICK left \in SUBSET Rows : left = listing'.left
    BY <1>1, <1>6
  <2>0. [listing.pages EXCEPT ![k] = p + 1] \in [Rows -> Nat]
    <3>1. listing.pages \in [Rows -> Nat] /\ p + 1 \in Nat
      BY <1>1, <1>4
    <3>. HIDE DEF p
    <3>. QED
      BY <3>1
  <2>2. PICK pages \in [Rows -> Nat] : pages = [listing.pages EXCEPT ![k] = p + 1]
    BY <2>0
  <2>3. PICK items \in Seq(Goods) : items = listing.items \o more
    BY <1>7
  <2>4. listing' = [left |-> left, scope |-> listing.scope, pages |-> pages, items |-> items]
    BY <1>1, <1>3, <1>6, <2>1, <2>2, <2>3
  <2>5. listing' \in [left : SUBSET Rows, scope : SUBSET Rows, pages : [Rows -> Nat],
                      items : Seq(Goods)]
    BY <1>1, <2>4
  <2>6. listing'.left \subseteq listing'.scope
    BY <1>1, <1>6
  <2>. QED
    BY <1>1, <2>5, <2>6 DEF WalkInductive, WalkTypes
<1>9. ReadSoFar' /\ NobodyAsked'
  BY <1>1 DEF ReadSoFar, NobodyAsked
<1>10. ScopeIsDescendants'
  <2>1. /\ Beneath(ToSet(walk.got))' = Beneath(ToSet(walk.got))
        /\ Beneath(ToSet(table) \ born)' = Beneath(ToSet(table) \ born)
    BY <1>1 DEF Beneath
  <2>. QED
    BY <1>1, <1>6, <2>1 DEF WalkInductive, ScopeIsDescendants
<1>11. \A c : DevicesOf(c)' = DevicesOf(c)
  BY <1>1 DEF DevicesOf
<1>12. ASSUME NEW g \in Goods \ handed, holder[g] \notin shifted
       PROVE  IF holder[g] \in listing'.scope /\ ReadAlready(holder[g], g)'
              THEN \E i : Places(listing'.items, g) = {i}
              ELSE Places(listing'.items, g) = {}
  <2>0. holder[g] \in Rows
    BY DEF WalkInductive, WalkTypes
  <2>1. Places(listing'.items, g)
          = Places(listing.items, g) \cup {i + Len(listing.items) : i \in Places(more, g)}
    <3>1. listing.items \in Seq(Goods)
      BY <1>1
    <3>. QED
      BY <1>5, <1>6, <3>1, PlacesJoin
  <2>2. IF holder[g] \in listing.scope /\ ReadAlready(holder[g], g)
        THEN \E i : Places(listing.items, g) = {i}
        ELSE Places(listing.items, g) = {}
    BY <1>1, <1>12 DEF WalkInductive, Listed
  <2>3. CASE holder[g] = k
    <3>1. PICK j \in 1 .. Len(all) : Places(all, g) = {j}
      BY <1>2, <2>3
    <3>2. ReadAlready(k, g) <=> j <= p * PageSize
      <4>1. \A i : i \in Places(all, g) <=> i = j
        BY <3>1
      <4>. QED
        BY <1>1, <4>1 DEF ReadAlready, all
    <3>3. ReadAlready(k, g)' <=> j <= (p + 1) * PageSize
      <4>1. ReadAlready(k, g)' <=>
              k \notin listing'.left
                \/ \E i \in Places(all, g) : i <= listing'.pages[k] * PageSize
        BY <1>1, <1>11 DEF ReadAlready, all
      <4>2. listing'.pages[k] = p + 1
        BY <1>1, <1>6
      <4>3. (\E i \in Places(all, g) : i <= (p + 1) * PageSize) <=> j <= (p + 1) * PageSize
        BY <3>1
      <4>4. CASE res.hasNext
        BY <1>1, <1>6, <4>1, <4>2, <4>3, <4>4
      <4>5. CASE ~res.hasNext
        <5>1. (p + 1) * PageSize \in Nat /\ Len(all) \in Nat
          BY <1>2, <1>4, WalkAssumption, Multiples
        <5>2. j <= (p + 1) * PageSize
          BY <1>5, <3>1, <4>5, <5>1
        <5>. QED
          BY <1>6, <4>1, <4>5, <5>2
      <4>. QED
        BY <4>4, <4>5
    <3>4. k \in listing.scope /\ k \in listing'.scope /\ holder[g] = k
      BY <1>1, <1>6, <2>3
    <3>0. ReadAlready(holder[g], g)' <=> ReadAlready(k, g)'
      BY <1>1, <2>3 DEF ReadAlready
    <3>00. IF ReadAlready(k, g) THEN \E i : Places(listing.items, g) = {i}
           ELSE Places(listing.items, g) = {}
      BY <2>2, <3>4
    <3>5. PICK a \in Nat : a = p * PageSize
      BY <1>4, WalkAssumption, Multiples
    <3>6. PICK b \in Nat : b = (p + 1) * PageSize
      BY <1>4, WalkAssumption, Multiples
    <3>7. a <= b /\ j \in Nat
      BY <1>4, <3>1, <3>5, <3>6, WalkAssumption, Multiples
    <3>8. Places(more, g) = {i - a : i \in {x \in {j} : a < x /\ x <= b}}
      BY <1>5, <3>1, <3>5, <3>6 DEF OnPage
    <3>9. CASE j <= a
      <4>1. Places(more, g) = {}
        BY <3>7, <3>8, <3>9
      <4>2. Places(listing'.items, g) = Places(listing.items, g)
        BY <2>1, <4>1
      <4>3. ReadAlready(k, g) /\ ReadAlready(k, g)'
        BY <3>2, <3>3, <3>5, <3>6, <3>7, <3>9
      <4>. QED
        BY <3>0, <3>00, <3>4, <4>2, <4>3
    <3>10. CASE a < j /\ j <= b
      <4>1. Places(more, g) = {j - a}
        BY <3>7, <3>8, <3>10
      <4>2. ~ReadAlready(k, g) /\ ReadAlready(k, g)'
        BY <3>2, <3>3, <3>5, <3>6, <3>7, <3>10
      <4>3. Places(listing.items, g) = {}
        BY <2>2, <2>3, <4>2
      <4>4. Places(listing'.items, g) = {(j - a) + Len(listing.items)}
        BY <2>1, <4>1, <4>3
      <4>. QED
        BY <3>0, <3>4, <4>2, <4>4
    <3>11. CASE b < j
      <4>1. Places(more, g) = {}
        BY <3>7, <3>8, <3>11
      <4>2. Places(listing'.items, g) = Places(listing.items, g)
        BY <2>1, <4>1
      <4>3. ~ReadAlready(k, g) /\ ~ReadAlready(k, g)'
        BY <3>2, <3>3, <3>5, <3>6, <3>7, <3>11
      <4>. QED
        BY <3>0, <3>00, <3>4, <4>2, <4>3
    <3>12. j <= a \/ (a < j /\ j <= b) \/ b < j
      BY <3>7
    <3>. QED
      BY <3>9, <3>10, <3>11, <3>12
  <2>4. CASE holder[g] # k
    <3>1. Places(more, g) = {}
      <4>1. Places(all, g) = {}
        BY <1>2, <2>4
      <4>. QED
        BY <1>5, <4>1 DEF OnPage
    <3>2. Places(listing'.items, g) = Places(listing.items, g)
      BY <2>1, <3>1
    <3>3. /\ holder[g] \in listing'.left <=> holder[g] \in listing.left
          /\ listing'.pages[holder[g]] = listing.pages[holder[g]]
      BY <1>1, <1>6, <2>0, <2>4
    <3>4. ReadAlready(holder[g], g)' <=> ReadAlready(holder[g], g)
      BY <1>1, <1>11, <3>3 DEF ReadAlready
    <3>. QED
      BY <1>6, <2>2, <3>2, <3>4
  <2>. QED
    BY <2>3, <2>4
<1>13. Listed'
  BY <1>1, <1>12 DEF Listed
<1>. QED
  BY <1>8, <1>9, <1>10, <1>13 DEF WalkInductive

LEMMA CreateRowInv ==
  ASSUME WalkInductive, CreateRow
  PROVE  WalkInductive'
<1>1. /\ table \in Seq(Rows) /\ IsInjective(table) /\ walk.page \in Nat
      /\ changes \in 0 .. MaxChanges /\ changes' \in 0 .. MaxChanges
      /\ UNCHANGED <<above, walk, listing, holder, shrunk, handed, shifted>>
  BY WalkAssumption DEF WalkInductive, WalkTypes, CreateRow, Changes
<1>2. PICK k \in Rows \ ToSet(table), i \in 1 .. Len(table) + 1 :
         table' = InsertAt(table, i, k) /\ born' = born \cup {k}
  BY DEF CreateRow
<1>3. /\ table' \in Seq(Rows) /\ IsInjective(table') /\ Len(table') = Len(table) + 1
      /\ \A j \in 1 .. Len(table') :
           table'[j] = IF j < i THEN table[j] ELSE IF j = i THEN k ELSE table[j - 1]
      /\ ToSet(table') = ToSet(table) \cup {k}
  BY <1>1, <1>2, RowInserted
<1>4. WalkTypes'
  BY <1>1, <1>2, <1>3 DEF WalkInductive, WalkTypes
\* the rows behind the new one move one place on, towards the pages still to be read
<1>5. ReadSoFar'
  <2>1. PICK read \in Nat : read = walk.page * PageSize
    BY <1>1, WalkAssumption, Multiples
  <2>2. ASSUME walk.phase = "walking", ~shrunk, NEW j \in 1 .. Len(table'), j <= read
        PROVE  table'[j] \in ToSet(walk.got) \cup born'
    <3>1. \A m \in 1 .. Len(table) : m <= read => table[m] \in ToSet(walk.got) \cup born
      BY <2>1, <2>2 DEF WalkInductive, ReadSoFar
    <3>2. /\ Len(table) \in Nat
          /\ j < i => j \in 1 .. Len(table)
          /\ j > i => j - 1 \in 1 .. Len(table) /\ j - 1 <= read
      BY <1>1, <1>3, <2>2
    <3>. QED
      BY <1>2, <1>3, <2>2, <3>1, <3>2
  <2>. QED
    BY <1>1, <2>1, <2>2 DEF ReadSoFar
<1>6. ScopeIsDescendants'
  <2>1. ToSet(table') \ born' \in SUBSET (ToSet(table) \ born)
    BY <1>2, <1>3
  <2>2. ToSet(table) \ born \in SUBSET Rows
    BY <1>1, RowsAreCounted
  <2>3. Beneath(ToSet(table') \ born') \subseteq Beneath(ToSet(table) \ born)
    BY <2>1, <2>2, BeneathGrows
  <2>4. /\ Beneath(ToSet(walk.got))' = Beneath(ToSet(walk.got))
        /\ Beneath(ToSet(table) \ born)' = Beneath(ToSet(table') \ born')
    BY <1>1 DEF Beneath
  <2>. QED
    BY <1>1, <2>3, <2>4 DEF WalkInductive, ScopeIsDescendants
<1>7. NobodyAsked' /\ Listed'
  BY <1>1 DEF WalkInductive, NobodyAsked, Listed, ReadAlready, DevicesOf
<1>. QED
  BY <1>4, <1>5, <1>6, <1>7 DEF WalkInductive

LEMMA DeleteRowInv ==
  ASSUME WalkInductive, DeleteRow
  PROVE  WalkInductive'
<1>1. /\ table \in Seq(Rows) /\ IsInjective(table) /\ walk.phase \in {"walking", "walked"}
      /\ changes \in 0 .. MaxChanges /\ changes' \in 0 .. MaxChanges
      /\ UNCHANGED <<above, walk, listing, holder, born, handed, shifted>>
  BY WalkAssumption DEF WalkInductive, WalkTypes, DeleteRow, Changes
<1>2. PICK i \in 1 .. Len(table) : table' = RemoveAt(table, i)
  BY <1>1 DEF DeleteRow
<1>3. /\ table' \in Seq(Rows) /\ IsInjective(table')
      /\ ToSet(table') \subseteq ToSet(table)
  BY <1>1, <1>2, RowRemoved
<1>4. shrunk' = (shrunk \/ walk.phase = "walking")
  BY DEF DeleteRow
<1>5. shrunk' \in BOOLEAN
  BY <1>4
<1>6. WalkTypes'
  <2>1. table' \in Seq(Rows) /\ IsInjective(table') /\ changes' \in 0 .. MaxChanges
    BY <1>1, <1>3
  <2>. QED
    BY <1>1, <1>5, <2>1 DEF WalkInductive, WalkTypes
<1>7. ReadSoFar'
  BY <1>1, <1>4 DEF ReadSoFar
<1>8. ScopeIsDescendants'
  <2>1. ToSet(table') \ born \in SUBSET (ToSet(table) \ born)
    BY <1>3
  <2>2. ToSet(table) \ born \in SUBSET Rows
    BY <1>1, RowsAreCounted
  <2>3. Beneath(ToSet(table') \ born) \subseteq Beneath(ToSet(table) \ born)
    BY <2>1, <2>2, BeneathGrows
  <2>4. /\ Beneath(ToSet(walk.got))' = Beneath(ToSet(walk.got))
        /\ Beneath(ToSet(table) \ born)' = Beneath(ToSet(table') \ born)
    BY <1>1 DEF Beneath
  <2>. QED
    BY <1>1, <1>4, <2>3, <2>4 DEF WalkInductive, ScopeIsDescendants
<1>9. NobodyAsked' /\ Listed'
  BY <1>1 DEF WalkInductive, NobodyAsked, Listed, ReadAlready, DevicesOf
<1>. QED
  BY <1>6, <1>7, <1>8, <1>9 DEF WalkInductive

LEMMA HandOverInv ==
  ASSUME WalkInductive, HandOver
  PROVE  WalkInductive'
<1>1. /\ holder \in [Goods -> Rows] /\ walk.phase \in {"walking", "walked"}
      /\ handed \subseteq Goods /\ shifted \subseteq Rows
      /\ changes \in 0 .. MaxChanges /\ changes' \in 0 .. MaxChanges
      /\ listing.left \subseteq Rows /\ listing.pages \in [Rows -> Nat]
      /\ UNCHANGED <<table, above, walk, listing, shrunk, born>>
  BY WalkAssumption DEF WalkInductive, WalkTypes, HandOver, Changes
<1>2. PICK g \in Goods, k \in Rows :
         /\ holder' = [holder EXCEPT ![g] = k]
         /\ handed' = IF walk.phase = "walked" THEN handed \cup {g} ELSE handed
         /\ shifted' = shifted \cup {c \in {k, holder[g]} \cap listing.left : listing.pages[c] > 0}
  BY DEF HandOver
<1>3. /\ holder' \in [Goods -> Rows] /\ handed' \subseteq Goods /\ shifted' \subseteq Rows
      /\ \A d \in Goods \ {g} : holder'[d] = holder[d]
  BY <1>1, <1>2
<1>4. WalkTypes'
  BY <1>1, <1>3 DEF WalkInductive, WalkTypes
<1>5. ReadSoFar' /\ NobodyAsked'
  BY <1>1 DEF WalkInductive, ReadSoFar, NobodyAsked
<1>6. ScopeIsDescendants'
  <2>1. /\ Beneath(ToSet(walk.got))' = Beneath(ToSet(walk.got))
        /\ Beneath(ToSet(table) \ born)' = Beneath(ToSet(table) \ born)
    BY <1>1 DEF Beneath
  <2>. QED
    BY <1>1, <2>1 DEF WalkInductive, ScopeIsDescendants
<1>7. Listed'
  <2>1. walk.phase = "walked" =>
          \A d \in Goods \ handed' : d # g /\ d \in Goods \ handed /\ holder'[d] = holder[d]
    BY <1>2, <1>3
  <2>2. ASSUME walk.phase = "walked", NEW d \in Goods \ handed', holder'[d] \notin shifted'
        PROVE  /\ d \in Goods \ handed /\ holder'[d] = holder[d] /\ holder[d] \notin shifted
               /\ ReadAlready(holder[d], d)' <=> ReadAlready(holder[d], d)
    <3>1. /\ d # g /\ d \in Goods \ handed /\ holder'[d] = holder[d] /\ holder[d] \in Rows
          /\ holder[d] \notin shifted
      BY <1>1, <1>2, <2>1, <2>2
    <3>2. CASE holder[d] \notin {k, holder[g]}
      <4>1. {x \in Goods : holder'[x] = holder[d]} = {x \in Goods : holder[x] = holder[d]}
        BY <1>1, <1>2, <3>2
      <4>2. DevicesOf(holder[d])' = DevicesOf(holder[d])
        BY <3>1, <4>1 DEF DevicesOf
      <4>3. ReadAlready(holder[d], d)' <=> ReadAlready(holder[d], d)
        BY <1>1, <3>1, <4>2 DEF ReadAlready
      <4>. QED
        BY <3>1, <4>3
    <3>3. CASE holder[d] \notin listing.left
      <4>1. ReadAlready(holder[d], d)' /\ ReadAlready(holder[d], d)
        BY <1>1, <3>1, <3>3 DEF ReadAlready
      <4>. QED
        BY <3>1, <4>1
    <3>4. CASE holder[d] \in {k, holder[g]} /\ holder[d] \in listing.left
      <4>1. listing.pages[holder[d]] = 0
        BY <1>1, <1>2, <2>2, <3>1, <3>4
      <4>2. listing.pages[holder[d]] * PageSize = 0
        BY <4>1, WalkAssumption
      <4>3. ASSUME NEW i \in Places(DevicesOf(holder[d]), d) PROVE ~(i <= 0)
        <5>1. i \in 1 .. Len(DevicesOf(holder[d]))
          BY <4>3, DevicesNamedOnce
        <5>. QED
          BY <5>1
      <4>4. DevicesOf(holder[d])' = SetToSeq({x \in Goods : holder'[x] = holder'[d]})
        BY DEF DevicesOf
      <4>5. ASSUME NEW i \in Places(DevicesOf(holder[d])', d) PROVE ~(i <= 0)
        <5>1. i \in 1 .. Len(DevicesOf(holder[d])')
          <6>1. {x \in Goods : holder'[x] = holder'[d]} \in SUBSET Goods
            OBVIOUS
          <6>2. IsFiniteSet({x \in Goods : holder'[x] = holder'[d]})
            BY <6>1, WalkAssumption, FS_Subset
          <6>3. DevicesOf(holder[d])' \in Seq(Goods)
            BY <4>4, <6>1, <6>2, NamesEachOnce
          <6>. QED
            BY <4>5, <6>3 DEF Places
        <5>. QED
          BY <5>1
      <4>6. ~ReadAlready(holder[d], d)' /\ ~ReadAlready(holder[d], d)
        BY <1>1, <3>1, <3>4, <4>2, <4>3, <4>5 DEF ReadAlready
      <4>. QED
        BY <3>1, <4>6
    <3>. QED
      BY <3>2, <3>3, <3>4
  <2>3. ASSUME walk.phase = "walked", NEW d \in Goods \ handed', holder'[d] \notin shifted'
        PROVE  IF holder'[d] \in listing.scope /\ ReadAlready(holder[d], d)'
               THEN \E i : Places(listing.items, d) = {i}
               ELSE Places(listing.items, d) = {}
    BY <2>2, <2>3 DEF WalkInductive, Listed
  <2>. QED
    BY <1>1, <2>3 DEF Listed
<1>. QED
  BY <1>4, <1>5, <1>6, <1>7 DEF WalkInductive

LEMMA WalkNextInv == WalkInductive /\ [WalkNext]_walkVars => WalkInductive'
<1>. SUFFICES ASSUME WalkInductive, [WalkNext]_walkVars PROVE WalkInductive'
  OBVIOUS
<1>1. CASE FetchPage
  BY <1>1, FetchPageInv
<1>2. CASE \E k \in Rows : ListDevices(k)
  BY <1>2, ListDevicesInv
<1>3. CASE CreateRow
  BY <1>3, CreateRowInv
<1>4. CASE DeleteRow
  BY <1>4, DeleteRowInv
<1>5. CASE HandOver
  BY <1>5, HandOverInv
<1>6. CASE UNCHANGED walkVars
  <2>1. /\ UNCHANGED <<table, above, holder, walk, listing, changes, shrunk, born, handed,
                       shifted>>
    BY <1>6 DEF walkVars
  <2>2. WalkTypes' /\ ReadSoFar' /\ NobodyAsked' /\ Listed'
    BY <2>1 DEF WalkInductive, WalkTypes, ReadSoFar, NobodyAsked, Listed, ReadAlready, DevicesOf
  <2>3. ScopeIsDescendants'
    <3>1. /\ Beneath(ToSet(walk.got))' = Beneath(ToSet(walk.got))
          /\ Beneath(ToSet(table) \ born)' = Beneath(ToSet(table) \ born)
      BY <2>1 DEF Beneath
    <3>. QED
      BY <2>1, <3>1 DEF WalkInductive, ScopeIsDescendants
  <2>. QED
    BY <2>2, <2>3 DEF WalkInductive
<1>. QED
  BY <1>1, <1>2, <1>3, <1>4, <1>5, <1>6 DEF WalkNext

LEMMA WalkInductiveIsSafe == WalkInductive => WalkTypeOK /\ WalkSafe
<1>. SUFFICES ASSUME WalkInductive PROVE WalkTypeOK /\ WalkSafe
  OBVIOUS
<1>1. WalkTypeOK
  <2>1. /\ table \in Seq(Rows) /\ IsInjective(table)
        /\ above \in [Rows -> Rows] /\ holder \in [Goods -> Rows]
        /\ listing.left \subseteq listing.scope
        /\ changes \in 0 .. MaxChanges /\ born \subseteq Rows
        /\ handed \subseteq Goods /\ shifted \subseteq Rows
    BY DEF WalkInductive, WalkTypes
  <2>2. walk.got \in Seq(Rows) /\ walk.phase \in {"walking", "walked"}
    BY DEF WalkInductive, WalkTypes
  <2>3. /\ listing.scope \subseteq Rows /\ listing.items \in Seq(Goods)
        /\ listing.pages \in [Rows -> Nat]
    BY DEF WalkInductive, WalkTypes
  <2>. QED
    BY <2>1, <2>2, <2>3 DEF WalkTypeOK
<1>2. ASSUME walk.phase = "walked", listing.left = {},
             NEW g \in {d \in Goods \ handed : holder[d] \notin shifted}
      PROVE  Cardinality({i \in DOMAIN listing.items : listing.items[i] = g})
               = IF holder[g] \in listing.scope THEN 1 ELSE 0
  <2>1. IF holder[g] \in listing.scope THEN \E i : Places(listing.items, g) = {i}
        ELSE Places(listing.items, g) = {}
    BY <1>2 DEF WalkInductive, Listed, ReadAlready
  <2>2. CASE holder[g] \in listing.scope
    <3>1. PICK i : Places(listing.items, g) = {i}
      BY <2>1, <2>2
    <3>2. Cardinality({i}) = 1
      BY FS_Singleton
    <3>. QED
      BY <2>2, <3>1, <3>2 DEF Places
  <2>3. CASE holder[g] \notin listing.scope
    BY <2>1, <2>3, FS_EmptySet DEF Places
  <2>. QED
    BY <2>2, <2>3
<1>3. ASSUME NEW items \in {listing.items, walk.got}, NEW size \in 1 .. 3
      PROVE  LET last == Min({p \in 0 .. Len(items) : ~Slice(items, p, size).hasNext}) IN
             FlattenSeq([p \in 1 .. last + 1 |-> Slice(items, p - 1, size).data]) = items
  <2>1. size \in Nat \ {0}
    OBVIOUS
  <2>2. CASE items \in Seq(Goods)
    BY <2>1, <2>2, PagesJoin
  <2>3. CASE items \in Seq(Rows)
    BY <2>1, <2>3, PagesJoin
  <2>. QED
    BY <1>1, <1>3, <2>2, <2>3 DEF WalkTypeOK
<1>4. ListedOnce
  BY <1>2, <1>3 DEF ListedOnce
<1>. QED
  BY <1>1, <1>4 DEF WalkInductive, WalkSafe

(* The walk's variables have their types: the table names each customer in *)
(* one place, nobody outside the scope is asked.                           *)
THEOREM WalkTypeInvariant == WalkSpec => []WalkTypeOK
<1>1. WalkInductive => WalkTypeOK
  BY WalkInductiveIsSafe
<1>. QED
  BY <1>1, WalkInitInv, WalkNextInv, PTL DEF WalkSpec

(* What resolveScopedCustomerIds computes is the caller's customer and all *)
(* that lie below it among the rows read, whatever their order and however *)
(* their parents run in circles; nobody who was there is missing unless a  *)
(* deletion shifted the pages; and the finished list names every device in *)
(* scope once, unless it changed hands or a hand-over shifted the pages of *)
(* its customer's devices; page by page the list is the same as whole.     *)
THEOREM WalkIsSafe == WalkSpec => []WalkSafe
<1>1. WalkInductive => WalkSafe
  BY WalkInductiveIsSafe
<1>. QED
  BY <1>1, WalkInitInv, WalkNextInv, PTL DEF WalkSpec

=============================================================================
