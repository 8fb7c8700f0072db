---------------------------- MODULE ProcessManager ----------------------------
(***************************************************************************)
(* The supervisor of the OpenClaw gateway process                          *)
(* (src/internal/process/manager.go) together with the goroutines that     *)
(* call it: the boot code of the supervisor, the command executor and the  *)
(* model guard.  A gateway process and everything Start creates for it     *)
(* (its exec.Cmd, its `done` channel, its wait and promoteRunning          *)
(* goroutines) carry the number of the launch.                             *)
(*                                                                         *)
(* Definitions that nothing here uses (ContextEndsAndRetries and the like) *)
(* are the mistakes the properties are there to catch, next to the         *)
(* definition each of them spoils.                                         *)
(*                                                                         *)
(* Left out: the fields that only report (lastOperation, exit code and     *)
(* reason, start and exit times) and the empty command line, which the     *)
(* configuration loader rules out.                                         *)
(***************************************************************************)
EXTENDS Integers

CONSTANTS Caller,        \* goroutines that call the manager
          Boot,          \* the one that starts the gateway in Supervisor.Run
          Ops,           \* Ops[c]: the operations caller c issues
          MaxLaunch      \* bound: gateway processes ever launched

Operation == {"start", "stop", "restart", "apply", "applyReload"}

ASSUME BootAssumption == Boot \in Caller
ASSUME OpsAssumption == Ops \in [Caller -> SUBSET Operation]
ASSUME LaunchAssumption == MaxLaunch \in Nat

Proc == 1 .. MaxLaunch
Nil == 0                 \* a nil *exec.Cmd or a nil channel

VARIABLES
  \* fields of process.Manager, guarded by mu
  cmd,             \* the current command, or Nil
  status,          \* the reported status
  stopRequested,   \* set by Stop, read by wait
  done,            \* the channel the next wait closes, or Nil
  restarts,        \* exits within 30 seconds of the start, in a row
  \* the processes, their channels and their goroutines
  launched,        \* number of successful cmd.Start calls
  proc,            \* proc[p]: what has become of process p
  killed,          \* processes that were sent SIGKILL
  closed,          \* channels that are closed
  promoting,       \* processes whose promoteRunning goroutine still polls
  \* the calls
  pc,              \* pc[c]: where caller c is
  op,              \* op[c]: its current or last operation
  target,          \* target[c]: the command its Stop captured
  chan,            \* chan[c]: the channel its Stop captured
  outcome,         \* outcome[c]: what its last call returned
  since            \* history: the value of launched when its call began

managerVars == <<cmd, status, stopRequested, done, restarts>>
processVars == <<launched, proc, killed, closed, promoting>>
callVars == <<pc, op, target, chan, outcome, since>>
vars == <<managerVars, processVars, callVars>>

Status == {"stopped", "starting", "running", "stopping", "crashed", "configuring"}
ProcState == {"unborn", "alive", "exitedOk", "exitedErr", "reaped"}
Control == {"idle", "applying", "stop", "signal", "await", "awaitKilled", "start"}

TypeOK ==
  /\ cmd \in Proc \cup {Nil}
  /\ status \in Status
  /\ stopRequested \in BOOLEAN
  /\ done \in Proc \cup {Nil}
  /\ restarts \in Nat
  /\ launched \in 0 .. MaxLaunch
  /\ proc \in [Proc -> ProcState]
  /\ killed \subseteq Proc
  /\ closed \subseteq Proc
  /\ promoting \subseteq Proc
  /\ pc \in [Caller -> Control]
  /\ op \in [Caller -> Operation]
  /\ target \in [Caller -> Proc \cup {Nil}]
  /\ chan \in [Caller -> Proc \cup {Nil}]
  /\ outcome \in [Caller -> {"none", "ok", "error"}]
  /\ since \in [Caller -> 0 .. MaxLaunch]

(* New, and the call of Start in Supervisor.Run that nothing precedes. *)
Init ==
  /\ cmd = Nil /\ status = "stopped" /\ stopRequested = FALSE
  /\ done = Nil /\ restarts = 0
  /\ launched = 0 /\ proc = [p \in Proc |-> "unborn"]
  /\ killed = {} /\ closed = {} /\ promoting = {}
  /\ pc = [c \in Caller |-> IF c = Boot THEN "start" ELSE "idle"]
  /\ op = [c \in Caller |-> "start"]
  /\ target = [c \in Caller |-> Nil] /\ chan = [c \in Caller |-> Nil]
  /\ outcome = [c \in Caller |-> IF c = Boot THEN "none" ELSE "ok"]
  /\ since = [c \in Caller |-> 0]

-----------------------------------------------------------------------------
(* Control flow of a caller. *)

Goto(c, label) ==
  /\ pc' = [pc EXCEPT ![c] = label]
  /\ UNCHANGED <<op, target, chan, outcome, since>>

Return(c, result) ==
  /\ pc' = [pc EXCEPT ![c] = "idle"]
  /\ outcome' = [outcome EXCEPT ![c] = result]
  /\ UNCHANGED <<op, target, chan, since>>

(* Stop returned nil: Restart goes on to Start, the other callers are done. *)
StopReturnsOk(c) ==
  IF op[c] = "stop" THEN Return(c, "ok") ELSE Goto(c, "start")

FirstLabel(o) ==
  CASE o = "start" -> "start"
    [] o \in {"stop", "restart"} -> "stop"
    [] OTHER -> "applying"

(* The executor or the guard makes a call, once the boot start has returned  *)
(* without an error; an apply command first runs MarkConfiguring.            *)
Call(c, o) ==
  /\ o \in Ops[c]
  /\ pc[c] = "idle"
  /\ pc[Boot] = "idle" /\ outcome[Boot] = "ok"
  /\ pc' = [pc EXCEPT ![c] = FirstLabel(o)]
  /\ op' = [op EXCEPT ![c] = o]
  /\ target' = [target EXCEPT ![c] = Nil]
  /\ chan' = [chan EXCEPT ![c] = Nil]
  /\ outcome' = [outcome EXCEPT ![c] = "none"]
  /\ since' = [since EXCEPT ![c] = launched]
  /\ status' = IF FirstLabel(o) = "applying" THEN "configuring" ELSE status
  /\ UNCHANGED <<cmd, stopRequested, done, restarts, processVars>>

(* ApplyRevision returns inside the executor: an error ends the command, a   *)
(* success ends it too unless its payload asks for a reload.                 *)
ApplyEnds(c) ==
  /\ pc[c] = "applying"
  /\ \/ Return(c, "error")
     \/ op[c] = "apply" /\ Return(c, "ok")
     \/ op[c] = "applyReload" /\ Goto(c, "stop")
  /\ UNCHANGED <<managerVars, processVars>>

-----------------------------------------------------------------------------
(* Stop: one locked region, then a signal and up to two selects without the  *)
(* lock.                                                                     *)

StopNoop(c) ==
  /\ pc[c] = "stop"
  /\ cmd = Nil \/ status = "stopped"
  /\ status' = "stopped"
  /\ StopReturnsOk(c)
  /\ UNCHANGED <<cmd, stopRequested, done, restarts, processVars>>

StopBegin(c) ==
  /\ pc[c] = "stop"
  /\ cmd # Nil /\ status # "stopped"
  /\ status' = "stopping"
  /\ stopRequested' = TRUE
  /\ pc' = [pc EXCEPT ![c] = "signal"]
  /\ target' = [target EXCEPT ![c] = cmd]
  /\ chan' = [chan EXCEPT ![c] = done]
  /\ UNCHANGED <<cmd, done, restarts, processVars, op, outcome, since>>

(* SIGTERM.  It can fail only on a process that is still there; the process  *)
(* is free to ignore it.                                                     *)
Signal(c) ==
  /\ pc[c] = "signal"
  /\ \/ Goto(c, "await")
     \/ proc[target[c]] = "alive" /\ Return(c, "error")
  /\ UNCHANGED <<managerVars, processVars>>

Waiting(c) == pc[c] \in {"await", "awaitKilled"}

(* <-done *)
SeesDone(c) ==
  /\ Waiting(c)
  /\ chan[c] \in closed
  /\ StopReturnsOk(c)
  /\ UNCHANGED <<managerVars, processVars>>

ContextEndsAndRetries(c) ==
  /\ Waiting(c)
  /\ Goto(c, "stop")
  /\ UNCHANGED <<managerVars, processVars>>

(* <-ctx.Done(): the command's timeout, the guard's, or shutdown *)
ContextEnds(c) ==
  /\ Waiting(c)
  /\ Return(c, "error")
  /\ UNCHANGED <<managerVars, processVars>>

(* <-timer.C after ProcessStopTimeout: SIGKILL, which may itself fail. *)
StopTimeout(c) ==
  /\ pc[c] = "await"
  /\ \/ Goto(c, "awaitKilled") /\ killed' = killed \cup {target[c]}
     \/ /\ proc[target[c]] = "alive"
        /\ Return(c, "error")
        /\ UNCHANGED killed
  /\ UNCHANGED <<managerVars, launched, proc, closed, promoting>>

(* <-time.After(5 * time.Second) *)
KillTimeout(c) ==
  /\ pc[c] = "awaitKilled"
  /\ Return(c, "error")
  /\ UNCHANGED <<managerVars, processVars>>

-----------------------------------------------------------------------------
(* Start: one locked region. *)

AlreadyRunningByStatus == status \in {"starting", "running"}

AlreadyRunning == cmd # Nil /\ status \notin {"stopped", "crashed"}

StartNoop(c) ==
  /\ pc[c] = "start"
  /\ AlreadyRunning
  /\ Return(c, "ok")
  /\ UNCHANGED <<managerVars, processVars>>

StartFailsSilently(c) ==
  /\ pc[c] = "start"
  /\ ~AlreadyRunning
  /\ status' = "crashed"
  /\ Return(c, "ok")
  /\ UNCHANGED <<cmd, stopRequested, done, restarts, processVars>>

StartFails(c) ==
  /\ pc[c] = "start"
  /\ ~AlreadyRunning
  /\ status' = "crashed"
  /\ Return(c, "error")
  /\ UNCHANGED <<cmd, stopRequested, done, restarts, processVars>>

Launch(c) ==
  /\ pc[c] = "start"
  /\ ~AlreadyRunning
  /\ launched < MaxLaunch
  /\ LET p == launched + 1 IN
       /\ launched' = p
       /\ cmd' = p
       /\ done' = p
       /\ proc' = [proc EXCEPT ![p] = "alive"]
       /\ promoting' = promoting \cup {p}
  /\ status' = "starting"
  /\ stopRequested' = FALSE
  /\ Return(c, "ok")
  /\ UNCHANGED <<restarts, killed, closed>>

-----------------------------------------------------------------------------
(* The goroutines of a process. *)

(* The process ends and cmd.Wait returns, with an error unless it exited 0.  *)
Exit(p) ==
  /\ proc[p] = "alive"
  /\ \E e \in {"exitedOk", "exitedErr"} : proc' = [proc EXCEPT ![p] = e]
  /\ UNCHANGED <<managerVars, launched, killed, closed, promoting, callVars>>

ExitStatusIfStopped(p) ==
  IF proc[p] = "exitedErr" THEN "crashed"
  ELSE IF stopRequested THEN "stopped" ELSE status

ExitStatus(p) == IF proc[p] = "exitedErr" THEN "crashed" ELSE "stopped"

(* 0 after a run of more than 30 seconds. *)
RestartCounts == {0, restarts + 1}

ClosesIfStopping == IF status = "stopping" THEN {done} ELSE {}

Closes == {done} \ {Nil}

(* The locked region of wait(cmd): it closes whatever channel is current.    *)
Reap(p) ==
  /\ proc[p] \in {"exitedOk", "exitedErr"}
  /\ proc' = [proc EXCEPT ![p] = "reaped"]
  /\ status' = ExitStatus(p)
  /\ restarts' \in RestartCounts
  /\ cmd' = Nil
  /\ stopRequested' = FALSE
  /\ closed' = closed \cup Closes
  /\ done' = Nil
  /\ UNCHANGED <<launched, killed, promoting, callVars>>

(* promoteRunning(pid) after a good health check or its 30 seconds, at which *)
(* the goroutine ends whether it promoted or not.                            *)
Promote(p) ==
  /\ p \in promoting
  /\ promoting' = promoting \ {p}
  /\ status' = IF cmd = p /\ status = "starting" THEN "running" ELSE status
  /\ UNCHANGED <<cmd, stopRequested, done, restarts, launched, proc, killed,
                 closed, callVars>>

-----------------------------------------------------------------------------
Step(c) ==
  \/ ApplyEnds(c)
  \/ StopNoop(c) \/ StopBegin(c) \/ Signal(c)
  \/ SeesDone(c) \/ ContextEnds(c) \/ StopTimeout(c) \/ KillTimeout(c)
  \/ StartNoop(c) \/ StartFails(c) \/ Launch(c)

Next ==
  \/ \E c \in Caller : (\E o \in Operation : Call(c, o)) \/ Step(c)
  \/ \E p \in Proc : Exit(p) \/ Reap(p) \/ Promote(p)

Spec == Init /\ [][Next]_vars

(* Go runs every goroutine that can run, each wait inside a call is bounded  *)
(* by a timer, and SIGKILL ends a process.  Nothing makes a gateway exit     *)
(* otherwise, nor makes anyone issue a call.                                 *)
Fairness ==
  /\ \A c \in Caller : WF_vars(Step(c))
  /\ \A p \in Proc : /\ WF_vars(Reap(p))
                     /\ WF_vars(Promote(p))
                     /\ WF_vars(p \in killed /\ Exit(p))

FairSpec == Spec /\ Fairness
-----------------------------------------------------------------------------
(* What the HTTP server answers (src/internal/httpserver/server.go). *)
Readyz == status \in {"running", "starting"}

(* A process whose exit the manager has not yet recorded. *)
Live == {p \in Proc : proc[p] \in {"alive", "exitedOk", "exitedErr"}}

(* At most one gateway process exists, and it is the one the manager knows:  *)
(* Start looks only at cmd and status, while Stop, a failed Restart, the     *)
(* wait goroutine and MarkConfiguring all write them at any moment.          *)
SingleGateway == \A p \in Live : cmd = p

(* Every status that implies a gateway has one, and a status that denies it  *)
(* never hides one from Start and Stop.                                      *)
StatusMatchesCmd ==
  /\ status \in {"starting", "running", "stopping"} => cmd # Nil
  /\ status \in {"stopped", "crashed"} => cmd = Nil

(* readyz answers 200 only while a gateway process is known. *)
ReadyMeansGateway == Readyz => cmd \in Live

(* A caller blocked on a captured channel can be woken: the channel is       *)
(* closed already or is the one the next exit closes, although wait closes   *)
(* the current channel without looking whose it is.                          *)
WaiterIsWoken == \A c \in Caller : Waiting(c) => chan[c] \in closed \cup {done}

(* "running" is only reached through the promoter of the very process that   *)
(* runs, never through the promoter of an earlier one.                       *)
PromotedByOwn == status = "running" => cmd \notin promoting

Returns(c, result) == pc[c] # "idle" /\ pc'[c] = "idle" /\ outcome'[c] = result

StopLeavesNone ==
  \A c \in Caller :
    op[c] \in {"stop", "restart", "applyReload"} /\ Returns(c, "ok")
      => \A p \in Live' : p > since[c]

(* Stop that returns nil, also inside Restart, leaves no gateway that was    *)
(* launched before the call.                                                 *)
StopMeansGone == [][StopLeavesNone]_vars

RestartLeavesFresh ==
  \A c \in Caller :
    op[c] \in {"restart", "applyReload"} /\ Returns(c, "ok")
      => cmd' \in Live' /\ cmd' > since[c]

(* Restart that returns nil leaves a gateway, and one launched after the     *)
(* call began: it has read whatever was on disk when Restart was called.     *)
RestartMeansFresh == [][RestartLeavesFresh]_vars

Lifecycle ==
  INSTANCE GatewayLifecycle
    WITH live <- Live,
         calling <- {c \in Caller : pc[c] # "idle"},
         result <- outcome

(* The manager, with its lock, signals, channels and goroutines, implements  *)
(* what GatewayLifecycle promises to the rest of the agent.                  *)
ImplementsLifecycle == Lifecycle!Spec

(* Every call returns, although a gateway may ignore SIGTERM. *)
EveryCallReturns == \A c \in Caller : pc[c] # "idle" ~> pc[c] = "idle"
=============================================================================
