--------------------------- MODULE CommandExecutor ---------------------------
(***************************************************************************)
(* The life of a remote command (src/internal/command/executor.go and the  *)
(* commandLoop that feeds it): it is polled, announced to the control      *)
(* plane, carried out in stages, recorded in state.json and reported.      *)
(* Requests and answers get lost, a report may arrive after the agent has  *)
(* given up on it, the agent may be told to end or die between any two     *)
(* steps, and the control plane hands out what it does not know the end of *)
(* again.                                                                  *)
(*                                                                         *)
(* What a stage does is modelled in ProcessManager, ConfigManager and      *)
(* SkillManager; here a stage takes effect or fails.  A definition Next    *)
(* does not use is a mistake an edit of the code could make: the one after *)
(* it has to do better.                                                    *)
(***************************************************************************)
EXTENDS Naturals, Sequences, FiniteSets

CONSTANTS Command,      \* the commands the control plane has for this agent
          CommandType,  \* CommandType[c]: the type and payload that matter
          NoCommand,    \* no command is in hand
          MaxCrashes    \* bound: deaths and restarts of the agent

Types == {"process", "apply", "apply_reload", "skill", "risk_stop", "sync",
          "package", "query", "unsupported"}

ASSUME CommandAssumption ==
  /\ IsFiniteSet(Command) /\ NoCommand \notin Command
  /\ CommandType \in [Command -> Types]
ASSUME CrashAssumption == MaxCrashes \in Nat

(* What handle does for a command, in order.  "refuse" is a stage that fails *)
(* whatever happens.                                                         *)
Stages(type) ==
  CASE type = "process" -> <<"process">>         \* start, stop, restart, reload_config
    [] type = "apply" -> <<"mark", "config">>
    [] type = "apply_reload" -> <<"mark", "config", "process">>
    [] type = "skill" -> <<"skills", "sync">>    \* install, update, remove, disable
    [] type = "risk_stop" -> <<"process", "sync">>
    [] type = "sync" -> <<"sync">>
    [] type = "package" -> <<"package">>
    [] type = "query" -> <<>>                    \* health_check, collect_system_info
    [] type = "unsupported" -> <<"refuse">>

CanFail == {"process", "config", "skills", "sync", "package", "refuse"}
CanSucceed == {"process", "mark", "config", "skills", "sync", "package"}

Outcome == {"succeeded", "failed"}

VARIABLES
  control,    \* control[c]: what the control plane knows of c
  wire,       \* reports that have left and not arrived
  pc,         \* commandLoop and Execute: poll, start, handle, record, finish, await, done
  cmd,        \* the command in hand
  stage,      \* stages of it that are done
  outcome,    \* the status finishReq will have
  memory,     \* commands that are in LastCommandExecutionCache
  disk,       \* and those that are in it in state.json
  cancelled,  \* the agent has been told to end
  crashes,
  taken,      \* history: the stages done since cmd was started
  whole,      \* history: commands all of whose stages one execution has done
  touched,    \* history: commands that may have had an effect
  begun,      \* history: commands executed once
  again,      \* history: commands executed more than once
  broken,     \* history: commands whose execution or report was cut off
  unsaved     \* history: commands whose record could not be written

controlVars == <<control, wire>>
loopVars == <<pc, cmd, stage, outcome>>
storeVars == <<memory, disk, unsaved>>
endVars == <<cancelled, crashes>>
history == <<taken, whole, touched, begun, again, broken>>
vars == <<controlVars, loopVars, storeVars, endVars, history>>

Status == {"none"} \cup Outcome
Finished(c) == control[c] \in Outcome

TypeOK ==
  /\ control \in [Command -> {"queued", "started"} \cup Outcome]
  /\ wire \subseteq Command \X Outcome
  /\ pc \in {"poll", "start", "handle", "record", "finish", "await", "done"}
  /\ cmd \in Command \cup {NoCommand}
  /\ pc \notin {"poll", "done"} => cmd \in Command
  /\ stage \in 0 .. 3
  /\ outcome \in Status
  /\ pc \in {"record", "finish", "await"} => outcome # "none"
  /\ memory \subseteq Command /\ disk \subseteq Command
  /\ unsaved \subseteq Command /\ cancelled \in BOOLEAN
  /\ crashes \in 0 .. MaxCrashes
  /\ taken \subseteq CanSucceed
  /\ whole \subseteq Command /\ touched \subseteq Command
  /\ begun \subseteq Command /\ again \subseteq Command
  /\ broken \subseteq Command

Init ==
  /\ control = [c \in Command |-> "queued"]
  /\ wire = {}
  /\ pc = "poll" /\ cmd = NoCommand /\ stage = 0 /\ outcome = "none"
  /\ memory = {} /\ disk = {}
  /\ unsaved = {} /\ cancelled = FALSE /\ crashes = 0
  /\ taken = {} /\ whole = {} /\ touched = {}
  /\ begun = {} /\ again = {} /\ broken = {}

-----------------------------------------------------------------------------
(* commandLoop. *)

(* NextCommand: the control plane hands out a command it does not know the  *)
(* end of, one it has handed out before included.                           *)
NextCommand(c) ==
  /\ pc = "poll" /\ ~cancelled
  /\ ~Finished(c)
  /\ pc' = "start" /\ cmd' = c
  /\ UNCHANGED <<controlVars, stage, outcome, storeVars, endVars, history>>

LoopEnds ==
  /\ pc = "poll" /\ cancelled
  /\ pc' = "done" /\ cmd' = NoCommand
  /\ UNCHANGED <<controlVars, stage, outcome, storeVars, endVars, history>>

ToPoll == pc' = "poll" /\ cmd' = NoCommand

-----------------------------------------------------------------------------
(* Execute. *)

Announce == control' = [control EXCEPT ![cmd] = IF @ = "queued" THEN "started" ELSE @]

(* StartCommand is answered: the command will be carried out, whether or not *)
(* the cache has it from an earlier time.                                    *)
StartAnswered ==
  /\ pc = "start" /\ ~cancelled
  /\ Announce
  /\ pc' = "handle" /\ stage' = 0 /\ outcome' = "none"
  /\ taken' = {}
  /\ begun' = begun \cup {cmd}
  /\ again' = IF cmd \in begun THEN again \cup {cmd} ELSE again
  /\ UNCHANGED <<wire, cmd, storeVars, endVars, whole, touched, broken>>

StartFailsUnheeded ==
  /\ pc = "start"
  /\ \/ Announce \/ UNCHANGED control
  /\ pc' = "handle" /\ stage' = 0 /\ outcome' = "none"
  /\ UNCHANGED <<wire, cmd, storeVars, endVars, history>>

StartFailsFatally ==
  /\ pc = "start"
  /\ \/ Announce \/ UNCHANGED control
  /\ pc' = "done" /\ cmd' = NoCommand
  /\ UNCHANGED <<wire, stage, outcome, storeVars, endVars, history>>

(* It gets lost, with or without having arrived, or the context is done:    *)
(* Execute returns the error and nothing is reported.                       *)
StartFails ==
  /\ pc = "start"
  /\ \/ Announce \/ UNCHANGED control
  /\ ToPoll
  /\ UNCHANGED <<wire, stage, outcome, storeVars, endVars, history>>

Todo == Stages(CommandType[cmd])

StageDone ==
  /\ pc = "handle" /\ stage < Len(Todo)
  /\ Todo[stage + 1] \in CanSucceed
  /\ stage' = stage + 1
  /\ taken' = taken \cup {Todo[stage + 1]}
  /\ touched' = touched \cup {cmd}
  /\ UNCHANGED <<controlVars, pc, cmd, outcome, storeVars, endVars, whole, begun, again, broken>>

StageFailsQuietly ==
  /\ pc = "handle" /\ stage < Len(Todo)
  /\ Todo[stage + 1] \in CanFail
  /\ stage' = stage + 1
  /\ touched' = touched \cup {cmd}
  /\ UNCHANGED <<controlVars, pc, cmd, outcome, storeVars, endVars, taken, whole, begun, again, broken>>

(* A stage returns an error, perhaps because the command's time is up, and  *)
(* perhaps after part of its effect.                                        *)
StageFails ==
  /\ pc = "handle" /\ stage < Len(Todo)
  /\ Todo[stage + 1] \in CanFail
  /\ outcome' = "failed" /\ pc' = "record"
  /\ touched' = touched \cup {cmd}
  /\ UNCHANGED <<controlVars, cmd, stage, storeVars, endVars, taken, whole, begun, again, broken>>

Handled ==
  /\ pc = "handle" /\ stage = Len(Todo)
  /\ outcome' = "succeeded" /\ pc' = "record"
  /\ whole' = IF \A i \in 1 .. Len(Todo) : Todo[i] \in taken THEN whole \cup {cmd} ELSE whole
  /\ UNCHANGED <<controlVars, cmd, stage, storeVars, endVars, taken, touched, begun, again, broken>>

(* state.json is written: all that memory has, so that it makes up for writes *)
(* that failed since the agent was started.                                  *)
Persisted ==
  /\ disk' = memory'
  /\ unsaved' = unsaved \ disk'

RecordFailedOnly ==
  /\ pc = "record"
  /\ memory' = memory \cup {cmd}
  /\ Persisted
  /\ IF outcome = "failed" THEN ToPoll ELSE pc' = "finish" /\ UNCHANGED cmd
  /\ UNCHANGED <<controlVars, stage, outcome, endVars, history>>

RecordInMemoryOnly ==
  /\ pc = "record"
  /\ memory' = memory \cup {cmd}
  /\ pc' = "finish"
  /\ UNCHANGED <<controlVars, cmd, stage, outcome, disk, unsaved, endVars, history>>

(* store.Update changes memory, then writes state.json; an error of the     *)
(* write does not change what is reported.                                  *)
Record ==
  /\ pc = "record"
  /\ memory' = memory \cup {cmd}
  /\ \/ Persisted
     \/ unsaved' = unsaved \cup {cmd} /\ UNCHANGED disk
  /\ pc' = "finish"
  /\ UNCHANGED <<controlVars, cmd, stage, outcome, endVars, history>>

(* FinishCommand leaves with a context of its own: it is sent although the  *)
(* command's time is up or the agent is ending.                             *)
Finish ==
  /\ pc = "finish"
  /\ wire' = wire \cup {<<cmd, outcome>>}
  /\ pc' = "await"
  /\ UNCHANGED <<control, cmd, stage, outcome, storeVars, endVars, taken, whole, touched, begun, again, broken>>

(* No answer within the client's 30 s, or an error: Execute returns it.     *)
FinishFails ==
  /\ pc = "await"
  /\ ToPoll
  /\ broken' = broken \cup {cmd}
  /\ UNCHANGED <<controlVars, stage, outcome, storeVars, endVars, taken, whole, touched, begun, again>>

-----------------------------------------------------------------------------
(* The control plane and the network. *)

Learn(report) ==
  /\ report \in wire
  /\ wire' = wire \ {report}
  /\ control' = [control EXCEPT ![report[1]] = IF @ \in Outcome THEN @ ELSE report[2]]

(* A report arrives and is answered. *)
Reported ==
  /\ pc = "await"
  /\ Learn(<<cmd, outcome>>)
  /\ ToPoll
  /\ UNCHANGED <<stage, outcome, storeVars, endVars, history>>

(* A report arrives and the answer does not, or nobody waits for it.         *)
Arrives ==
  /\ \E report \in wire : Learn(report)
  /\ UNCHANGED <<loopVars, storeVars, endVars, history>>

GetsLost ==
  /\ \E report \in wire : wire' = wire \ {report}
  /\ UNCHANGED <<control, loopVars, storeVars, endVars, history>>

(* The session, the revisions and the skills write the same state.json.      *)
OthersSave ==
  /\ memory # disk
  /\ UNCHANGED memory /\ Persisted
  /\ UNCHANGED <<controlVars, loopVars, endVars, history>>

Sigterm ==
  /\ pc # "done" /\ ~cancelled
  /\ cancelled' = TRUE
  /\ UNCHANGED <<controlVars, loopVars, storeVars, crashes, history>>

(* The agent dies or has ended; the next one starts from state.json. *)
Restart ==
  /\ crashes < MaxCrashes
  /\ crashes' = crashes + 1
  /\ ToPoll /\ stage' = 0 /\ outcome' = "none"
  /\ memory' = disk
  /\ cancelled' = FALSE
  /\ broken' = IF cmd \in begun THEN broken \cup {cmd} ELSE broken
  /\ UNCHANGED <<controlVars, disk, unsaved, taken, whole, touched, begun, again>>

Execute ==
  \/ StartAnswered \/ StartFails \/ StageDone \/ StageFails \/ Handled
  \/ Record \/ Finish \/ FinishFails
Environment == Reported \/ Arrives \/ GetsLost \/ OthersSave \/ Sigterm \/ Restart

Next ==
  \/ \E c \in Command : NextCommand(c)
  \/ LoopEnds \/ Execute \/ Environment

Spec == Init /\ [][Next]_vars

(* The loop goes on; what the control plane and the network do now and then *)
(* they do again and again.                                                 *)
FairSpec ==
  /\ Spec
  /\ WF_vars(LoopEnds \/ Execute)
  /\ SF_vars(StartAnswered) /\ SF_vars(Reported)
  /\ \A c \in Command : SF_vars(NextCommand(c))
-----------------------------------------------------------------------------
(* A command the control plane counts as succeeded was carried out whole by  *)
(* one execution: a skill command with its inventory sync, an apply with its *)
(* reload, never one half by an earlier attempt.                             *)
SucceededTookEffect == \A c \in Command : control[c] = "succeeded" => c \in whole

Delivery == INSTANCE CommandDelivery
              WITH known <- control, completed <- whole,
                   running <- IF pc = "handle" THEN cmd ELSE NoCommand

(* The agent keeps the promise of CommandDelivery, over lost, late and       *)
(* repeated messages, crashes and restarts: what the control plane knows of  *)
(* a command follows what was done for it, and never goes back.              *)
ImplementsDelivery == Delivery!Spec

(* Nothing is done for a command before the control plane knows that it was  *)
(* started.                                                                  *)
NothingUnannounced == \A c \in touched : control[c] # "queued"

(* What the control plane knows the end of, state.json has on record, so     *)
(* that no crash leaves it better informed than the agent.  Excepted are     *)
(* commands whose save failed, for the report is sent all the same           *)
(* (executor.go:80-92): they are missing until some later save succeeds, and *)
(* for good when the agent dies before that.                                 *)
RecordedFirst == \A c \in Command : Finished(c) => c \in disk \cup unsaved

(* A command is carried out a second time only if a crash cut it off or its  *)
(* report was not answered.                                                  *)
RepeatedOnlyIfBroken == again \subseteq broken

(* Every command comes to an end the control plane knows of, unless the      *)
(* agent is told to end.                                                     *)
EveryCommandFinishes == \A c \in Command : <>(Finished(c) \/ cancelled)
=============================================================================
