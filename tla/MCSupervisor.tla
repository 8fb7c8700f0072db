----------------------------- MODULE MCSupervisor -----------------------------
(* Two kinds of loop: one that clears the session on a 401 or 403, and the   *)
(* skill loop, which begins with a report and does not.                      *)
EXTENDS Supervisor

MCLoop == {"heartbeat", "skill"}
=============================================================================
