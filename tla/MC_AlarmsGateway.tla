-------------------------- MODULE MC_AlarmsGateway --------------------------
(* One browser that subscribes to the alarms of one entity twice. *)
EXTENDS AlarmsGateway

CONSTANTS k1, c1, s1, s2

MCKeys == {k1}

MCClients == {c1}

MCCalls == {s1, s2}

MCKeyOf == [h \in MCCalls |-> k1]

MCClientOf == [h \in MCCalls |-> c1]
=============================================================================
