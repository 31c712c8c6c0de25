--------------------------- MODULE MCEventStream ---------------------------
(* Instance of EventStream for TLC: the first connection is one tenant's,  *)
(* every other one is another tenant's; the second run has one emitter,    *)
(* the first run has the others.                                           *)
EXTENDS EventStream

CONSTANTS s1, a, b, x1, x2, q1

OneEach == [s \in Streams |-> IF s = s1 THEN a ELSE b]

LastAlone == [p \in Emitters |-> IF p = q1 THEN x2 ELSE x1]
=============================================================================
