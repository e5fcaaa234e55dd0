---------------------------- MODULE ServiceToken ----------------------------
(***************************************************************************)
(* The backend's own ThingsBoard token (thingsboard-client.service.ts):    *)
(* cached in Redis, fetched by one login at a time (RedisService.single),  *)
(* dropped and fetched again when a request is answered with a 401.        *)
(*                                                                         *)
(* A login and the token it obtains share a number.  ThingsBoard accepts a *)
(* token minted in the current epoch; it may revoke them all at once.  The *)
(* TTL of the cached token is an expiry that may happen at any time.       *)
(***************************************************************************)
EXTENDS Naturals, FiniteSets

CONSTANTS Requests, \* calls of request() or requestText()
          MaxEpoch  \* BOUND: revocations by ThingsBoard

ASSUME TokenAssumption == MaxEpoch \in Nat /\ IsFiniteSet(Requests)

\* No bound: a request starts a login at most once per attempt.
Logins == 1 .. (2 * Cardinality(Requests))
NoLogin == 0

VARIABLES
    jwt,      \* tb:jwt in Redis
    epoch,    \* how often ThingsBoard has revoked its tokens
    logins,   \* each login: how far it is, and the epoch its token was minted in
    inflight, \* RedisService.inflight.get('tb:jwt')
    request   \* each request

tokenVars == <<jwt, epoch, logins, inflight, request>>

Running == {"posting", "storing", "stored"}
Login == [phase : {"unused", "done", "failed"} \cup Running, minted : 0 .. MaxEpoch]
Request ==
    [phase : {"idle", "get", "miss", "wait", "sent", "refused", "ok", "failed", "denied"},
     token : Logins \cup {NoLogin},       \* the login waited for, or the token sent
     first : Logins \cup {NoLogin},       \* history: the token of the first attempt
     retried : BOOLEAN,
     since : 0 .. MaxEpoch,               \* history: the epoch of the invalidation,
     running : Logins \cup {NoLogin}]     \* and the login in flight then

TokenInit ==
    /\ jwt = NoLogin /\ epoch = 0 /\ inflight = NoLogin
    /\ logins = [n \in Logins |-> [phase |-> "unused", minted |-> 0]]
    /\ request = [r \in Requests |->
                    [phase |-> "idle", token |-> NoLogin, first |-> NoLogin,
                     retried |-> FALSE, since |-> 0, running |-> NoLogin]]

Moves(r, phase, token) ==
    request' = [request EXCEPT ![r].phase = phase, ![r].token = token]

StartRequest(r) ==
    /\ request[r].phase = "idle"
    /\ Moves(r, "get", NoLogin)
    /\ UNCHANGED <<jwt, epoch, logins, inflight>>

\* getToken: the cached token, as Redis had it when it was asked.
GetToken(r) ==
    /\ request[r].phase = "get"
    /\ Moves(r, IF jwt = NoLogin THEN "miss" ELSE "sent", jwt)
    /\ UNCHANGED <<jwt, epoch, logins, inflight>>

UnusedLogin == CHOOSE n \in Logins : logins[n].phase = "unused"

\* A promise that is registered is awaited; one that was rejected rejects at once.
Awaited(n) == IF logins[n].phase = "failed" THEN "failed" ELSE "wait"

\* single(): whoever missed joins the login in flight or starts one.
JoinOrLogin(r) ==
    /\ request[r].phase = "miss"
    /\ IF inflight # NoLogin
       THEN Moves(r, Awaited(inflight), inflight) /\ UNCHANGED <<logins, inflight>>
       ELSE /\ logins' = [logins EXCEPT ![UnusedLogin].phase = "posting"]
            /\ inflight' = UnusedLogin
            /\ Moves(r, "wait", UnusedLogin)
    /\ UNCHANGED <<jwt, epoch>>

LoginAccepted(n) ==
    /\ logins[n].phase = "posting"
    /\ logins' = [logins EXCEPT ![n] = [phase |-> "storing", minted |-> epoch]]
    /\ UNCHANGED <<jwt, epoch, inflight, request>>

TokenStored(n) ==
    /\ logins[n].phase = "storing"
    /\ jwt' = n
    /\ logins' = [logins EXCEPT ![n].phase = "stored"]
    /\ UNCHANGED <<epoch, inflight, request>>

\* The promise settles: finally() forgets it, then everyone who waits goes on.
SettleLogin(n, phase, next) ==
    /\ logins' = [logins EXCEPT ![n].phase = phase]
    /\ inflight' = NoLogin
    /\ request' = [r \in Requests |->
                     IF request[r].phase = "wait" /\ request[r].token = n
                     THEN [request[r] EXCEPT !.phase = next] ELSE request[r]]
    /\ UNCHANGED <<jwt, epoch>>

LoginSettles(n) == logins[n].phase = "stored" /\ SettleLogin(n, "done", "sent")

LoginFails_remembered(n) ==
    /\ logins[n].phase \in {"posting", "storing"}
    /\ logins' = [logins EXCEPT ![n].phase = "failed"]
    /\ request' = [r \in Requests |->
                     IF request[r].phase = "wait" /\ request[r].token = n
                     THEN [request[r] EXCEPT !.phase = "failed"] ELSE request[r]]
    /\ UNCHANGED <<jwt, epoch, inflight>>

\* ThingsBoard refuses the credentials or Redis the value.
LoginFails(n) ==
    /\ logins[n].phase \in {"posting", "storing"}
    /\ SettleLogin(n, "failed", "failed")

\* ThingsBoard answers; a second 401 is passed on.
Replied(r) ==
    /\ request[r].phase = "sent"
    /\ LET t == request[r].token
           next == IF logins[t].minted = epoch THEN "ok"
                   ELSE IF request[r].retried THEN "denied" ELSE "refused" IN
       Moves(r, next, t)
    /\ UNCHANGED <<jwt, epoch, logins, inflight>>

\* Any other status, or no connection.
RequestFails(r) ==
    /\ request[r].phase = "sent"
    /\ Moves(r, "failed", request[r].token)
    /\ UNCHANGED <<jwt, epoch, logins, inflight>>

Invalidate_retriesAtOnce(r) ==
    /\ request[r].phase = "refused"
    /\ request' = [request EXCEPT ![r] = [@ EXCEPT !.phase = "get", !.token = NoLogin,
                     !.first = request[r].token, !.retried = TRUE,
                     !.since = epoch, !.running = inflight]]
    /\ UNCHANGED <<jwt, epoch, logins, inflight>>

\* The first 401: whatever token is cached by now is dropped, then one more attempt.
Invalidate(r) ==
    /\ request[r].phase = "refused"
    /\ jwt' = NoLogin
    /\ request' = [request EXCEPT ![r] = [@ EXCEPT !.phase = "get", !.token = NoLogin,
                     !.first = request[r].token, !.retried = TRUE,
                     !.since = epoch, !.running = inflight]]
    /\ UNCHANGED <<epoch, logins, inflight>>

Revoke ==
    /\ epoch < MaxEpoch
    /\ epoch' = epoch + 1
    /\ UNCHANGED <<jwt, logins, inflight, request>>

ExpireToken ==
    /\ jwt # NoLogin
    /\ jwt' = NoLogin
    /\ UNCHANGED <<epoch, logins, inflight, request>>

TokenProgress ==
    \/ \E r \in Requests : GetToken(r) \/ JoinOrLogin(r) \/ Replied(r)
                           \/ RequestFails(r) \/ Invalidate(r)
    \/ \E n \in Logins : LoginAccepted(n) \/ TokenStored(n) \/ LoginSettles(n) \/ LoginFails(n)

TokenNext ==
    \/ TokenProgress
    \/ \E r \in Requests : StartRequest(r)
    \/ Revoke \/ ExpireToken

\* Awaits settle: fetch and ioredis resolve or reject.
TokenFairness == WF_tokenVars(TokenProgress)

TokenSpec == TokenInit /\ [][TokenNext]_tokenVars /\ TokenFairness

-----------------------------------------------------------------------------
TokenTypeOK ==
    /\ jwt \in Logins \cup {NoLogin}
    /\ epoch \in 0 .. MaxEpoch
    /\ logins \in [Logins -> Login]
    /\ inflight \in Logins \cup {NoLogin}
    /\ request \in [Requests -> Request]

(* Concurrent misses share one login, the map of calls in flight names     *)
(* exactly the login that runs, and one that has failed is not remembered. *)
SingleFlight ==
    /\ {n \in Logins : logins[n].phase \in Running} = {inflight} \ {NoLogin}
    /\ \A r \in Requests : request[r].phase = "wait" => request[r].token = inflight

(* A request that is denied after its retry, with no revocation since it   *)
(* dropped the cached token, was given the token of the login that was     *)
(* already in flight at that moment: the 401 invalidates what is cached,   *)
(* not what is about to be.                                                *)
DeniedOnlyByEarlierLogin ==
    \A r \in Requests :
        request[r].phase = "denied" /\ request[r].since = epoch =>
            request[r].running # NoLogin /\ request[r].token = request[r].running

(* For the same reason a retry may repeat the very token that was refused, *)
(* but only by joining the login that minted it before it has settled.     *)
RetryRepeatsOnlyJoinedLogin ==
    \A r \in Requests :
        request[r].retried /\ request[r].phase = "sent" /\ request[r].token = request[r].first
            => request[r].running = request[r].first

(* A login does not stay registered, whether it succeeds or fails: those   *)
(* who miss later start one of their own and are not handed its outcome    *)
(* (redis.service.ts, the finally() of single).                            *)
LoginForgotten == \A n \in Logins : inflight = n ~> inflight # n

(* The three together: logins are shared, and the retry is as good as the  *)
(* login it joined.                                                        *)
TokenSafe == SingleFlight /\ DeniedOnlyByEarlierLogin /\ RetryRepeatsOnlyJoinedLogin
=============================================================================
