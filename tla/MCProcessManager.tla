--------------------------- MODULE MCProcessManager ---------------------------
(* The goroutines of the agent that call the process manager, with the       *)
(* operations each of them issues.                                           *)
EXTENDS ProcessManager

MCCaller == {"boot", "executor", "guard"}
MCOps == [c \in MCCaller |->
            CASE c = "executor" -> Operation
              [] c = "guard" -> {"restart"}
              [] OTHER -> {}]

MCMaxAutoRestart == 3

(* config/openclaw-agent/config.yaml:25 sets max_auto_restart: 3, so a       *)
(* gateway that crashed no more often than that in a row should come back    *)
(* although nobody asks for a start.                                         *)
CrashedIsRestarted ==
  status = "crashed" /\ restarts \in 1 .. MCMaxAutoRestart ~> status # "crashed"
=============================================================================
