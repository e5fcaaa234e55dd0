----------------------------- MODULE SharedFeed -----------------------------
(***************************************************************************)
(* What ThingsboardWsService promises the gateway, without sockets, cmdIds *)
(* or retries: callers hold entities; while the upstream connection is up  *)
(* ThingsBoard streams exactly the entities somebody holds, and while it   *)
(* is down it streams nothing.  The last holder to leave an entity stops   *)
(* its stream and nobody else's; a new connection resumes every held one.  *)
(***************************************************************************)
EXTENDS FiniteSets

CONSTANTS
  Keys,    \* entities
  Calls,   \* holders: calls of subscribe()
  KeyOf    \* the entity of a call

VARIABLES
  holders, \* the calls holding each entity
  up,      \* is there a working upstream connection?
  feed     \* the entities ThingsBoard streams to this process

vars == <<holders, up, feed>>

Held == {k \in Keys : holders[k] # {}}

Init ==
  /\ holders = [k \in Keys |-> {}]
  /\ up = FALSE
  /\ feed = {}

Join(c) ==
  /\ c \notin holders[KeyOf[c]]
  /\ holders' = [holders EXCEPT ![KeyOf[c]] = @ \cup {c}]
  /\ feed' = IF up THEN feed \cup {KeyOf[c]} ELSE feed
  /\ UNCHANGED up

Leave(S) ==
  /\ holders' = [k \in Keys |-> holders[k] \ S]
  /\ feed' = {k \in feed : holders'[k] # {}}
  /\ UNCHANGED up

ConnectionUp ==
  /\ ~ up
  /\ up' = TRUE
  /\ feed' = Held
  /\ UNCHANGED holders

ConnectionDown ==
  /\ up
  /\ up' = FALSE
  /\ feed' = {}
  /\ UNCHANGED holders

Next ==
  \/ \E c \in Calls : Join(c)
  \/ \E S \in SUBSET Calls : Leave(S)
  \/ ConnectionUp
  \/ ConnectionDown

Spec == Init /\ [][Next]_vars
=============================================================================
