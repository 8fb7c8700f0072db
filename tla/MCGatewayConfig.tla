--------------------------- MODULE MCGatewayConfig ---------------------------
(* Two revisions that differ in the locked fields, and a model of the seeded *)
(* file that normalization replaces.                                         *)
EXTENDS GatewayConfig

MCModel == {"seed", "m1", "m2"}
MCContent == [r \in Rev |-> [model |-> IF r = "r1" THEN "m1" ELSE "m2", rest |-> "rest"]]
MCNormal == [c \in Config |-> IF c.model = "seed" THEN [c EXCEPT !.model = "m1"] ELSE c]
=============================================================================
