--------------------------- MODULE MCConfigManager ---------------------------
(* Two settings of the locked fields, two revisions, and a normalization that *)
(* rewrites the rest of one of them (a channel that is not installed goes).  *)
EXTENDS ConfigManager

MCModel == {"m1", "m2"}
MCRest == {"raw", "normal", "other"}
MCContent == [r \in {"r1", "r2"} |->
                IF r = "r1" THEN [model |-> "m1", rest |-> "raw"]
                            ELSE [model |-> "m2", rest |-> "other"]]
MCNormal == [c \in Config |->
               IF c.rest = "raw" THEN [c EXCEPT !.rest = "normal"] ELSE c]
=============================================================================
