----------------------- MODULE MC_TelemetryGateway -----------------------
(* Two browsers on one entity; the first sends two subscribe frames. *)
EXTENDS TelemetryGateway

CONSTANTS k1, c1, c2, s1, s2, s3

MCKeys == {k1}

MCClients == {c1, c2}

MCCalls == {s1, s2, s3}

MCKeyOf == [h \in MCCalls |-> k1]

MCClientOf == [h \in MCCalls |-> IF h = s3 THEN c2 ELSE c1]
=============================================================================
