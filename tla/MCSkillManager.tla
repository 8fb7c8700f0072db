--------------------------- MODULE MCSkillManager ---------------------------
(* One skill, two contents and versions, for TLC. *)
EXTENDS SkillManager, TLC
CONSTANTS s1, m1, m2, v1, v2
MCOne == {s1}
MCContent == {m1, m2}
MCVersion == {v1, v2}
MCSymmetry == Permutations(MCContent) \cup Permutations(MCVersion)
=============================================================================
