------------------------- MODULE MC_ThingsboardWs -------------------------
(* Two entities; two calls on the first, one or two on the second. *)
EXTENDS ThingsboardWs

CONSTANTS k1, k2, a1, a2, b1, b2

MCKeys == {k1, k2}

MCCalls == {a1, a2, b1, b2}

MCKeyOf == [c \in MCCalls |-> IF c \in {a1, a2} THEN k1 ELSE k2]
=============================================================================
