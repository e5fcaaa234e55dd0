---------------------------- MODULE UserAccounts ----------------------------
(***************************************************************************)
(* Creating and deleting customer users (users.service.ts, behind the form *)
(* CreateUserDialog.tsx).  A creation is three ThingsBoard requests, with  *)
(* nothing that undoes the earlier ones when a later one fails.            *)
(***************************************************************************)
EXTENDS Naturals

CONSTANTS Emails, NoEmail,
          MaxUsers \* BOUND: attempts to create a user

ASSUME UsersAssumption == NoEmail \notin Emails /\ MaxUsers \in Nat

VARIABLE users \* each attempt: how far it is, and the account it has made

Attempts == 1 .. MaxUsers
Phases == {"idle", "post", "link", "activate", "ok", "failed", "cut"}

UsersInit ==
    users = [n \in Attempts |->
               [email |-> NoEmail, phase |-> "idle", there |-> FALSE, active |-> FALSE]]

Goes(n, phase, there, active) ==
    users' = [users EXCEPT ![n].phase = phase, ![n].there = there, ![n].active = active]
\* A request about an account that is gone is answered 404.
GoesIfThere(n, phase, active) ==
    IF users[n].there THEN Goes(n, phase, TRUE, active) ELSE Goes(n, "failed", FALSE, FALSE)

Taken(email) == \E n \in Attempts : users[n].there /\ users[n].email = email

\* The form is submitted: a valid address, six characters, a role.
StartUser(n, email) ==
    /\ users[n].phase = "idle"
    /\ users' = [users EXCEPT ![n].email = email, ![n].phase = "post"]
\* POST /api/user: ThingsBoard refuses an address that is taken.
PostUser(n) ==
    /\ users[n].phase = "post"
    /\ IF Taken(users[n].email) THEN Goes(n, "failed", FALSE, FALSE)
       ELSE Goes(n, "link", TRUE, FALSE)

\* GET the activation link, which must carry a token.
GetActivationLink(n) ==
    users[n].phase = "link" /\ GoesIfThere(n, "activate", FALSE)
Activate(n) ==
    users[n].phase = "activate" /\ GoesIfThere(n, "ok", TRUE)
\* The answer of a creation whose activation failed, if the failure were swallowed.
CutShort_swallowed(n) ==
    /\ users[n].phase = "activate"
    /\ Goes(n, "ok", users[n].there, FALSE)
\* A request fails before or after it takes effect, or the process stops.
CutShort(n) ==
    /\ users[n].phase \in {"post", "link", "activate"}
    /\ \/ Goes(n, "cut", users[n].there, FALSE)
       \/ users[n].phase = "post" /\ ~Taken(users[n].email) /\ Goes(n, "cut", TRUE, FALSE)
       \/ users[n].phase = "activate" /\ users[n].there /\ Goes(n, "cut", TRUE, TRUE)
\* delete(); the tenant administrator, whom it refuses, is not among these accounts.
DeleteUser(n) ==
    users[n].there /\ Goes(n, users[n].phase, FALSE, FALSE)

UsersNext ==
    \E n \in Attempts :
        \/ \E email \in Emails : StartUser(n, email)
        \/ PostUser(n) \/ GetActivationLink(n) \/ Activate(n) \/ CutShort(n) \/ DeleteUser(n)

UsersSpec == UsersInit /\ [][UsersNext]_users

-----------------------------------------------------------------------------
UsersTypeOK ==
    users \in [Attempts -> [email : Emails \cup {NoEmail}, phase : Phases,
                            there : BOOLEAN, active : BOOLEAN]]

(* However creations, failures and deletions overlap: a creation that was  *)
(* answered made an account that works, one that was refused left none, and*)
(* no two accounts share an address.  An account nobody can sign in to is  *)
(* being activated or belongs to a creation that was cut short, which the  *)
(* code does not undo (users.service.ts:19-51).                            *)
AccountsWork ==
    \A n \in Attempts : users[n].there =>
        /\ users[n].active \/ users[n].phase \in {"link", "activate", "cut"}
        /\ \A k \in Attempts \ {n} : users[k].there => users[k].email # users[n].email
=============================================================================
