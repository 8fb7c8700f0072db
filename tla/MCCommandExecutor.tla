-------------------------- MODULE MCCommandExecutor --------------------------
(* A command with three stages and one with two, for TLC. *)
EXTENDS CommandExecutor, TLC
CONSTANTS c1, c2
MCTwo == {c1, c2}
MCApplyAndSkill == c1 :> "apply_reload" @@ c2 :> "skill"
=============================================================================
