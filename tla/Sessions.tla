------------------------------ MODULE Sessions ------------------------------
(***************************************************************************)
(* Who a browser tab acts as: the session store of the backend             *)
(* (auth.service.ts), the log of impersonations, the guards in front of    *)
(* them, and one tab with its session token, its saved original token, the *)
(* cached answer of /auth/me and the requests it has in flight.            *)
(*                                                                         *)
(* sessionStorage and the module variable that caches it are one field:    *)
(* setSessionToken writes both and getSessionToken reads through.  The     *)
(* eight hour TTL is an expiry that may happen at any time.                *)
(***************************************************************************)
EXTENDS Naturals, Sequences, FiniteSets

CONSTANTS
    Users,        \* people with an account
    Sysadmins,    \* those whose authority is TENANT_ADMIN or SYS_ADMIN
    NoUser,       \* no answer of /auth/me cached
    MaxCalls,     \* BOUND: requests in flight at a time
    MaxTokens     \* BOUND: session tokens minted

ASSUME SessionsAssumption ==
    /\ Sysadmins \subseteq Users
    /\ NoUser \notin Users
    /\ MaxCalls \in Nat
    /\ MaxTokens \in Nat

Slots == 1 .. MaxCalls
Tokens == 1 .. MaxTokens
NoToken == 0

VARIABLES
    issued,    \* the session minted with each token: its user and who minted it
    store,     \* the tokens Redis still has
    logRow,    \* the impersonation_log row made with a token, if any
    tab,       \* the browser tab
    calls,     \* the requests in flight
    person,    \* history: who last typed a password in this tab
    abandoned, \* history: an impersonated token was dropped, or replaced at a sign-in, and
               \* the original kept
    softened   \* history: the token was dropped or replaced without a page load

sessionVars == <<issued, store, logRow, tab, calls, person, abandoned, softened>>

Session == [user : Users, mintedBy : Users]
Ops == {"login", "me", "fetch", "live", "impersonate", "end", "logout"}
Idle == [op |-> "none", token |-> NoToken, user |-> NoUser, step |-> "sent",
         heard |-> FALSE, result |-> NoToken]
Call == [op : Ops \cup {"none"}, token : Tokens \cup {NoToken}, user : Users \cup {NoUser},
         step : {"sent", "in", "minted", "done", "refused", "forwarded", "failed"},
         heard : BOOLEAN, result : Tokens \cup {NoToken}]
Tab == [page : {"login", "app"}, token : Tokens \cup {NoToken},
        original : Tokens \cup {NoToken}, meta : Tokens \cup {NoToken},
        banner : BOOLEAN, me : Users \cup {NoUser}]

SessionInit ==
    /\ issued = <<>>
    /\ store = {}
    /\ logRow = [t \in Tokens |-> "none"]
    /\ tab = [page |-> "login", token |-> NoToken, original |-> NoToken,
              meta |-> NoToken, banner |-> FALSE, me |-> NoUser]
    /\ calls = [c \in Slots |-> Idle]
    /\ person = NoUser
    /\ abandoned = FALSE
    /\ softened = FALSE

-----------------------------------------------------------------------------
(* The tab sends.  The token is read when the request is built.            *)

Heard(op) == \E c \in Slots : calls[c].op = op /\ calls[c].heard

\* Slots only tell requests apart: the first free one is taken.
SendWith(c, op, token, u, row) ==
    /\ calls[c].op = "none"
    /\ \A d \in 1 .. (c - 1) : calls[d].op # "none"
    /\ calls' = [calls EXCEPT ![c] = [op |-> op, token |-> token, user |-> u,
                                      step |-> "sent", heard |-> TRUE, result |-> row]]

SendOnly(c, op, u) ==
    /\ SendWith(c, op, tab.token, u, NoToken)
    /\ UNCHANGED <<issued, store, logRow, tab, person, abandoned, softened>>

\* The login page is shown whether or not there is a token; a form that was left and is
\* shown again knows nothing of its first request.
SignIn(c, u) == tab.page = "login" /\ SendOnly(c, "login", u)

\* Enabled while a token is there, and never again while the answer is cached.
LoadMe(c) == /\ tab.page = "app" /\ tab.token # NoToken /\ tab.me = NoUser
             /\ ~Heard("me")
             /\ SendOnly(c, "me", NoUser)

Fetch(c) == tab.page = "app" /\ SendOnly(c, "fetch", NoUser)

OpenSocket(c) == tab.page = "app" /\ ~Heard("live") /\ SendOnly(c, "live", NoUser)

\* The Users page offers "Login as" on Customer Users to whom it takes for a sysadmin.
LoginAs(c, u) == /\ tab.page = "app" /\ tab.me \in Sysadmins /\ u \notin Sysadmins
                 /\ SendOnly(c, "impersonate", u)

\* "Back to my session": the tokens are swapped before the request is sent.
BackToMySession(c) ==
    /\ tab.page = "app" /\ tab.banner
    /\ tab.original # NoToken /\ tab.meta # NoToken
    /\ SendWith(c, "end", tab.original, NoUser, tab.meta)
    /\ tab' = [tab EXCEPT !.token = tab.original, !.original = NoToken, !.meta = NoToken]
    /\ UNCHANGED <<issued, store, logRow, person, abandoned, softened>>

LogOut(c) == tab.page = "app" /\ ~Heard("logout") /\ SendOnly(c, "logout", NoUser)

-----------------------------------------------------------------------------
(* The backend answers, one await at a time.                               *)

Unauthorised == {"refused", "forwarded"}
Final == {"done", "failed"} \cup Unauthorised

\* What a page that is gone had asked for leaves no trace once it is answered, and what
\* another request fetches is no part of this module unless it is refused.
Answered(call, step) ==
    IF step \in Final /\ (~call.heard \/ (call.op = "fetch" /\ step \notin Unauthorised))
    THEN Idle ELSE [call EXCEPT !.step = step]
Answer(c, step) == calls' = [calls EXCEPT ![c] = Answered(@, step)]
UserOf(c) == issued[calls[c].token].user

TabKept == UNCHANGED <<tab, person, abandoned, softened>>

\* SessionAuthGuard, and for the users routes RolesGuard.  A read has nothing more to do:
\* me() answers with the session the guard found.
Authorise(c) ==
    /\ calls[c].op \notin {"none", "login"} /\ calls[c].step = "sent"
    /\ Answer(c, IF calls[c].token \notin store THEN "refused"
                 ELSE IF calls[c].op \in {"impersonate", "end"} /\ UserOf(c) \notin Sysadmins
                 THEN "failed"
                 ELSE IF calls[c].op \in {"me", "fetch"} THEN "done" ELSE "in")
    /\ UNCHANGED <<issued, store, logRow>> /\ TabKept

Mint(c, u, by, step) ==
    LET t == Len(issued) + 1 IN
    /\ t \in Tokens
    /\ issued' = Append(issued, [user |-> u, mintedBy |-> by])
    /\ store' = store \cup {t}
    /\ calls' = [calls EXCEPT ![c] = Answered([@ EXCEPT !.result = t], step)]
    /\ UNCHANGED logRow

\* login: ThingsBoard accepts the credentials and knows the profile.
ServeLogin(c) ==
    /\ calls[c].op = "login" /\ calls[c].step = "sent"
    /\ Mint(c, calls[c].user, calls[c].user, "done")
    /\ TabKept

RejectLogin(c) ==
    /\ calls[c].op = "login" /\ calls[c].step = "sent"
    /\ Answer(c, "refused")
    /\ UNCHANGED <<issued, store, logRow>> /\ TabKept

\* The revalidation of an open socket closes it with 1008.
SocketRefused(c) ==
    /\ calls[c].op = "live" /\ calls[c].step = "in" /\ calls[c].token \notin store
    /\ Answer(c, "refused")
    /\ UNCHANGED <<issued, store, logRow>> /\ TabKept

\* The guard has let the request pass, but ThingsBoard refuses the backend's own: it will not
\* take the service account's token, not even a new one, or will not hand one out.  The
\* status is passed on as it is.
ForwardUnauthorised(c) ==
    /\ \/ calls[c].op = "fetch" /\ calls[c].step = "sent" /\ calls[c].token \in store
       \/ calls[c].op = "impersonate" /\ calls[c].step = "in"
    /\ Answer(c, "forwarded")
    /\ UNCHANGED <<issued, store, logRow>> /\ TabKept

\* impersonate: the session is stored, then the row is written.
MintImpersonated(c) ==
    /\ calls[c].op = "impersonate" /\ calls[c].step = "in"
    /\ Mint(c, calls[c].user, UserOf(c), "minted")
    /\ TabKept

RecordImpersonation(c) ==
    /\ calls[c].step = "minted"
    /\ logRow' = [logRow EXCEPT ![calls[c].result] = "open"]
    /\ Answer(c, "done")
    /\ UNCHANGED <<issued, store>> /\ TabKept

\* The session itself is not invalidated.
EndImpersonation(c) ==
    /\ calls[c].op = "end" /\ calls[c].step = "in"
    /\ logRow' = [logRow EXCEPT ![calls[c].result] = "ended"]
    /\ Answer(c, "done")
    /\ UNCHANGED <<issued, store>> /\ TabKept

ServeLogout(c) ==
    /\ calls[c].op = "logout" /\ calls[c].step = "in"
    /\ store' = store \ {calls[c].token}
    /\ Answer(c, "done")
    /\ UNCHANGED <<issued, logRow>> /\ TabKept

\* A store, ThingsBoard or the network fails at one of those awaits.
CallFails(c) ==
    /\ \/ calls[c].op \in {"login", "me"} /\ calls[c].step = "sent"
       \/ calls[c].op # "live" /\ calls[c].step \in {"in", "minted"}
    /\ Answer(c, "failed")
    /\ UNCHANGED <<issued, store, logRow>> /\ TabKept

\* The TTL of a token that somebody may still present runs out; of others nobody asks.
Expire(t) ==
    /\ t \in store
    /\ t \in {tab.token, tab.original} \cup {calls[c].token : c \in Slots}
    /\ store' = store \ {t}
    /\ UNCHANGED <<issued, logRow, calls>> /\ TabKept

-----------------------------------------------------------------------------
(* The tab hears the answer.                                               *)

Server == UNCHANGED <<issued, store, logRow>>

Load_cacheKept(c, t) ==
    /\ calls' = [calls EXCEPT ![c] = Idle]
    /\ tab' = [t EXCEPT !.banner = t.meta # NoToken]
    /\ softened' = FALSE

\* A page load: nothing of the old page hears an answer, and what it cached is gone;
\* only requests that may still write something stay.
Load(c, t) ==
    /\ calls' = [d \in Slots |->
                    IF \/ d = c \/ calls[d].op \in {"none", "me", "fetch", "live"}
                       \/ calls[d].step \in Final
                    THEN Idle ELSE [calls[d] EXCEPT !.heard = FALSE]]
    /\ tab' = [t EXCEPT !.me = NoUser, !.banner = t.meta # NoToken,
                        !.page = IF t.token = NoToken THEN "login" ELSE t.page]
    /\ softened' = FALSE

\* A client-side route change closes the page's socket and keeps everything else.
Route(c, t) ==
    /\ calls' = [d \in Slots |-> IF d = c \/ (calls[d].op = "live" /\ t.page = "login")
                                 THEN Idle ELSE calls[d]]
    /\ tab' = t

Impersonating == /\ tab.token # NoToken
                 /\ issued[tab.token].user # issued[tab.token].mintedBy

Ready(c, steps) == calls[c].op # "none" /\ calls[c].heard /\ calls[c].step \in steps

\* Any answer with status 401, and a socket closed with 1008: endSession().
EndSession(c) ==
    /\ Ready(c, Unauthorised)
    /\ IF tab.page = "login"
       THEN /\ Route(c, [tab EXCEPT !.token = NoToken])
            /\ softened' = (softened \/ tab.token # NoToken)
       ELSE Load(c, [tab EXCEPT !.token = NoToken])
    /\ abandoned' = (abandoned \/ Impersonating)
    /\ Server /\ UNCHANGED person

HearLogin(c) ==
    /\ calls[c].op = "login" /\ Ready(c, {"done"})
    /\ Route(c, [tab EXCEPT !.token = calls[c].result, !.page = "app"])
    /\ person' = calls[c].user
    /\ abandoned' = ((abandoned \/ Impersonating) /\ tab.original # NoToken)
    /\ softened' = (softened \/ tab.token # NoToken)
    /\ Server

HearMe(c) ==
    /\ calls[c].op = "me" /\ Ready(c, {"done"})
    /\ Route(c, [tab EXCEPT !.me = UserOf(c)])
    /\ Server /\ UNCHANGED <<person, abandoned, softened>>

\* Other failures end in a toast or an error message.
HearFailure(c) ==
    /\ calls[c].op \in {"login", "me", "impersonate"} /\ Ready(c, {"failed"})
    /\ Route(c, tab)
    /\ Server /\ UNCHANGED <<person, abandoned, softened>>

\* startImpersonationSession keeps an original that is already saved; then the dashboard is
\* loaded, wherever the tab is by now.
StartImpersonation(c) ==
    /\ calls[c].op = "impersonate" /\ Ready(c, {"done"})
    /\ Load(c, [tab EXCEPT !.original = IF @ # NoToken THEN @ ELSE tab.token,
                           !.token = calls[c].result, !.meta = calls[c].result,
                           !.page = "app"])
    /\ Server /\ UNCHANGED <<person, abandoned>>

\* Recorded or not, the dashboard is loaded under the restored token.
HearEnd(c) ==
    /\ calls[c].op = "end" /\ Ready(c, {"done", "failed"})
    /\ Load(c, [tab EXCEPT !.page = "app"])
    /\ Server /\ UNCHANGED <<person, abandoned>>

\* logout() drops the token whatever the answer; only an answer leads to /login.
HearLogout(c) ==
    /\ calls[c].op = "logout" /\ Ready(c, {"done", "failed"})
    /\ Route(c, [tab EXCEPT !.token = NoToken,
                            !.page = IF calls[c].step = "done" THEN "login" ELSE @])
    /\ abandoned' = (abandoned \/ Impersonating)
    /\ softened' = TRUE
    /\ Server /\ UNCHANGED person

\* The user reloads the page or enters an address: AuthGate reads the token from
\* sessionStorage.  /login has no gate.
Visit(page) ==
    /\ Load(0, [tab EXCEPT !.page = page])
    /\ Server /\ UNCHANGED <<person, abandoned>>

\* Back and forward change the route only; AuthGate is mounted anew behind /login.
Browse(page) ==
    /\ page # tab.page /\ (page = "app" => tab.token # NoToken)
    /\ Route(0, [tab EXCEPT !.page = page])
    /\ Server /\ UNCHANGED <<person, abandoned, softened>>

\* React Query drops what no component observes after a while.
CollectMe ==
    /\ tab.page = "login" /\ tab.me # NoUser
    /\ tab' = [tab EXCEPT !.me = NoUser]
    /\ Server /\ UNCHANGED <<calls, person, abandoned, softened>>

-----------------------------------------------------------------------------
Serves(c) == Authorise(c) \/ ServeLogin(c) \/ RejectLogin(c)
             \/ SocketRefused(c) \/ ForwardUnauthorised(c)
             \/ MintImpersonated(c) \/ RecordImpersonation(c)
             \/ EndImpersonation(c) \/ ServeLogout(c) \/ CallFails(c)
Hears(c) == EndSession(c) \/ HearLogin(c) \/ HearMe(c) \/ HearFailure(c)
            \/ StartImpersonation(c) \/ HearEnd(c) \/ HearLogout(c)
Sends(c) == LoadMe(c) \/ Fetch(c) \/ OpenSocket(c) \/ BackToMySession(c) \/ LogOut(c)
            \/ \E u \in Users : SignIn(c, u) \/ LoginAs(c, u)

SessionNext ==
    \/ \E c \in Slots : Sends(c) \/ Serves(c) \/ Hears(c)
    \/ \E t \in Tokens : Expire(t)
    \/ \E page \in {"login", "app"} : Visit(page) \/ Browse(page)
    \/ CollectMe

SessionSpec == SessionInit /\ [][SessionNext]_sessionVars

-----------------------------------------------------------------------------
(* Types: nothing is stored or held that was not minted.                   *)
SessionTypeOK ==
    /\ issued \in Seq(Session) /\ Len(issued) <= MaxTokens
    /\ store \subseteq DOMAIN issued
    /\ logRow \in [Tokens -> {"none", "open", "ended"}]
    /\ tab \in Tab
    /\ calls \in [Slots -> Call]
    /\ person \in Users \cup {NoUser}
    /\ abandoned \in BOOLEAN /\ softened \in BOOLEAN
    /\ {tab.token, tab.original, tab.meta} \ {NoToken} \subseteq DOMAIN issued

(* "Back to my session" restores a session of whoever signed in last in    *)
(* this tab, unless an impersonated token was dropped (logout, a 401, a    *)
(* 1008) or replaced by the next sign-in: endSession, logout and login     *)
(* leave the saved original behind for the next person.                    *)
OriginalIsOwn ==
    tab.original # NoToken /\ ~abandoned => issued[tab.original].user = person

(* The role the page shows is the role of the session it sends: cached     *)
(* answers of /auth/me outlive their token only where it is dropped or     *)
(* replaced without a page load (a logout, a sign-in, a refused one), and  *)
(* for the moment between the swap back and the reload.                    *)
RoleShownIsOwn ==
    tab.me # NoUser /\ tab.token # NoToken =>
        softened \/ Heard("end") \/ tab.me = issued[tab.token].user

(* While a tab acts under an impersonated session, the log has an open row *)
(* for it: the row is written before the token is handed out and ended     *)
(* only after the tab has let go of it, whatever fails in between.         *)
ImpersonationAudited ==
    Impersonating => logRow[tab.token] = "open"

(* A step drops a token whose session is alive only at a logout, at a      *)
(* refused sign-in, because a request sent with another token (or with     *)
(* none) was refused, or because a 401 of ThingsBoard's was passed on: the *)
(* guards never refuse a session and find it again later.                  *)
LiveSessionKept ==
    [][ tab.token \in store /\ tab'.token = NoToken =>
        \E c \in Slots : /\ calls[c].op # "none" /\ calls'[c].op = "none"
                         /\ \/ calls[c].op \in {"login", "logout"}
                            \/ calls[c].token # tab.token
                            \/ calls[c].step = "forwarded" ]_sessionVars

(* The three together: who the saved original is, whose role the page      *)
(* shows, and that somebody else's session leaves a trace.                 *)
SessionSafe == OriginalIsOwn /\ RoleShownIsOwn /\ ImpersonationAudited
=============================================================================
