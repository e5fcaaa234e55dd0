---------------------------- MODULE MC_Upstream ----------------------------
(***************************************************************************)
(* The backend's two links to ThingsBoard, the telemetry socket and the    *)
(* REST calls with their shared token.  They share no state here (the      *)
(* socket's TokenResolves and TokenFails stand for a getToken of its own), *)
(* so a behaviour runs one of them.                                        *)
(***************************************************************************)
EXTENDS MC_ThingsboardWs, ServiceToken

VARIABLE link

LinkInit == link \in {"socket", "rest"} /\ WsInit /\ TokenInit

LinkNext ==
  \/ link = "socket" /\ WsNext /\ UNCHANGED <<link, tokenVars>>
  \/ link = "rest" /\ TokenNext /\ UNCHANGED <<link, wsVars>>

LinkSpec ==
  LinkInit /\ [][LinkNext]_<<link, wsVars, tokenVars>> /\ WsFairness /\ TokenFairness
=============================================================================
