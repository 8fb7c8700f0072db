---------------------------- MODULE GatewayConfig ----------------------------
(***************************************************************************)
(* The config manager and the process manager together: which contents of  *)
(* openclaw.json the running gateway has loaded.  The steps on the file are*)
(* those of ConfigManager, the calls to the process manager those of       *)
(* GatewayLifecycle, which ProcessManager implements.  The callers are the *)
(* boot code, the command executor (internal/command/executor.go) and the  *)
(* model guard (internal/supervisor/supervisor.go).                        *)
(*                                                                         *)
(* A gateway reads the file some time after it was launched and not again: *)
(* the agent restarts it wherever it wants a file to be read.  When the    *)
(* agent ends its gateway goes on, because it is started with a background *)
(* context, and the next agent knows nothing of it.  A definition Next does*)
(* not use is a mistake an edit of the code could make.                    *)
(***************************************************************************)
EXTENDS ConfigManager

CONSTANTS Unread,      \* what a gateway has loaded that has not read the file
          MaxLaunch    \* bound: gateways launched

ASSUME UnreadAssumption == Unread \notin File \cup {Torn}
ASSUME LaunchAssumption == MaxLaunch \in Nat

Caller == {"boot", "executor", "guard"}
Ops == [c \in Caller |-> {"start", "stop", "restart"}]

VARIABLES
  live, launched, calling, op, result, since,   \* of GatewayLifecycle
  loaded,       \* loaded[p]: the file as gateway p has read it
  job,          \* the executor: none, apply, applyReload, reload (which is
                \* then due) or reloading
  due,          \* the guard has restored the file and not yet restarted
  served,       \* history: the revision whose apply with reload succeeded,
                \* until another one is activated
  restored,     \* history: nobody has written the file since the guard did
  settled,      \* history: and its restart has succeeded since
  missed        \* history: the guard's last write or restart failed

Gateway == INSTANCE GatewayLifecycle WITH Boot <- "boot"

lifecycleVars == <<live, launched, calling, op, result, since>>
servingVars == <<served, restored, settled, missed>>
gatewayVars == <<lifecycleVars, loaded, job, due, servingVars>>

JointTypeOK ==
  /\ TypeOK
  /\ live \subseteq 1 .. launched /\ launched \in 0 .. MaxLaunch
  /\ calling \subseteq Caller
  /\ loaded \in [live -> File \cup {Torn, Unread}]
  /\ job \in {"none", "apply", "applyReload", "reload", "reloading"}
  /\ due \in BOOLEAN
  /\ served \in Rev \cup {NoRev}
  /\ restored \in BOOLEAN /\ settled \in BOOLEAN /\ missed \in BOOLEAN

JointInit ==
  /\ Init
  /\ Gateway!Init
  /\ loaded = <<>>
  /\ job = "none" /\ due = FALSE
  /\ served = NoRev /\ restored = FALSE /\ settled = FALSE /\ missed = FALSE

-----------------------------------------------------------------------------
(* Gateways. *)

(* Loaded files of the gateways there are after a step. *)
KeepLoaded ==
  loaded' = [p \in live' |->
               IF p \in DOMAIN loaded THEN loaded[p] ELSE Unread]

(* A call to the process manager begins or ends.                             *)
Calls(c, o) ==
  /\ Gateway!Begin(c, o)
  /\ UNCHANGED <<vars, loaded>>

Returns(c) ==
  /\ Gateway!Finish(c)
  /\ KeepLoaded
  /\ UNCHANGED vars

(* OpenClaw reads its configuration. *)
Load(p) ==
  /\ loaded[p] = Unread
  /\ loaded' = [loaded EXCEPT ![p] = file]
  /\ UNCHANGED <<vars, lifecycleVars, job, due, servingVars>>

(* A gateway exits on its own. *)
Ends(p) ==
  /\ Gateway!Vanish(p)
  /\ KeepLoaded
  /\ UNCHANGED <<vars, job, due, servingVars>>

-----------------------------------------------------------------------------
(* Boot: process.Start comes after CaptureModelBaseline, before the guard.   *)

Booted == "boot" \notin calling

BootSteps ==
  /\ Boot \/ Normalize \/ Rewrite \/ Capture \/ (Booted /\ (Register \/ Initial))
  /\ UNCHANGED gatewayVars

BootStarts ==
  /\ phase = "register"
  /\ Returns("boot") /\ result'["boot"] = "ok"
  /\ UNCHANGED <<job, due, servingVars>>

-----------------------------------------------------------------------------
(* The executor: apply_config_revision, and the commands that only concern   *)
(* the gateway.                                                              *)

ReloadByStart == "start"

ReloadBy == "restart"

BeginApply(r, o) ==
  /\ job = "none" /\ "executor" \notin calling
  /\ Fetch(r)
  /\ job' = o
  /\ UNCHANGED <<lifecycleVars, loaded, due, servingVars>>

Applies ==
  /\ \/ LockApply /\ UNCHANGED <<job, servingVars>>
     \/ /\ Activate
        /\ served' = (IF served = applyRev THEN served ELSE NoRev)
        /\ restored' = FALSE /\ settled' = FALSE
        /\ UNCHANGED <<job, missed>>
     \/ ActivateFails /\ job' = "none" /\ UNCHANGED servingVars
     \/ /\ Record
        /\ \/ acked' = applyRev /\ job = "applyReload" /\ job' = "reload"
           \/ acked' = applyRev /\ job # "applyReload" /\ job' = "none"
           \/ acked' = acked /\ job' = "none"
        /\ UNCHANGED servingVars
  /\ UNCHANGED <<lifecycleVars, loaded, due>>

BeginReload ==
  /\ job = "reload"
  /\ Calls("executor", ReloadBy)
  /\ job' = "reloading"
  /\ UNCHANGED <<due, servingVars>>

ProcessCommand(o) ==
  /\ phase = "ready" /\ job = "none" /\ apply = "idle"
  /\ Calls("executor", o)
  /\ UNCHANGED <<job, due, servingVars>>

ExecutorReturns ==
  /\ Returns("executor")
  /\ job' = "none"
  /\ served' = IF job = "reloading" /\ result'["executor"] = "ok" THEN applyRev ELSE served
  /\ UNCHANGED <<due, restored, settled, missed>>

-----------------------------------------------------------------------------
(* The model guard: a check that has restored the file is followed by a      *)
(* restart, any other outcome and a restart that fails by the next check.    *)

ReportsUnchanged == FALSE

(* What EnforceModelBaseline returns when it has written.                    *)
ReportsRestored == TRUE

GuardSteps ==
  /\ \/ /\ Booted /\ ~due /\ "guard" \notin calling
        /\ Check
        /\ UNCHANGED <<due, servingVars>>
     \/ Truncate /\ restored' = FALSE /\ settled' = FALSE /\ UNCHANGED <<due, served, missed>>
     \/ Restore /\ due' = ReportsRestored /\ restored' = TRUE /\ UNCHANGED <<served, settled, missed>>
     \/ RestoreFails /\ missed' = TRUE /\ UNCHANGED <<due, served, restored, settled>>
  /\ UNCHANGED <<lifecycleVars, loaded, job>>

GuardStarts ==
  /\ due
  /\ Calls("guard", "start")
  /\ due' = FALSE
  /\ UNCHANGED <<job, servingVars>>

GuardRestarts ==
  /\ due
  /\ Calls("guard", "restart")
  /\ due' = FALSE
  /\ UNCHANGED <<job, servingVars>>

GuardReturns ==
  /\ Returns("guard")
  /\ settled' = (restored /\ result'["guard"] = "ok")
  /\ missed' = (result'["guard"] = "error")
  /\ UNCHANGED <<job, due, served, restored>>

-----------------------------------------------------------------------------
(* The environment. *)

Edits ==
  /\ Edit
  /\ restored' = FALSE /\ settled' = FALSE
  /\ UNCHANGED <<lifecycleVars, loaded, job, due, served, missed>>

Saves == Persist /\ UNCHANGED gatewayVars

(* The agent ends, its start of a gateway having failed or not; s6 starts    *)
(* another one, whose process manager is new.                                *)
AgentEnds ==
  /\ Crash
  /\ live' = {} /\ UNCHANGED launched
  /\ calling' = {"boot"} /\ result' = [result EXCEPT !["boot"] = "none"]
  /\ op' = [op EXCEPT !["boot"] = "start"]
  /\ since' = [since EXCEPT !["boot"] = launched]
  /\ KeepLoaded
  /\ job' = "none" /\ due' = FALSE
  /\ restored' = FALSE /\ settled' = FALSE /\ missed' = FALSE
  /\ UNCHANGED served

JointNext ==
  \/ BootSteps \/ BootStarts
  \/ \E r \in Rev, o \in {"apply", "applyReload"} : BeginApply(r, o)
  \/ Applies
  \/ BeginReload
  \/ \E o \in Ops["executor"] : ProcessCommand(o)
  \/ ExecutorReturns
  \/ GuardSteps \/ GuardRestarts \/ GuardReturns
  \/ \E p \in DOMAIN loaded : Load(p) \/ Ends(p)
  \/ Edits \/ Saves \/ AgentEnds

jointVars == <<vars, gatewayVars>>

JointSpec == JointInit /\ [][JointNext]_jointVars
-----------------------------------------------------------------------------
(* Once apply_config_revision with reload has succeeded the agent's gateway  *)
(* serves that revision until another one is put in place: whatever restarts *)
(* and restores the guard does at the same time, and whatever gateway takes  *)
(* its place later, after a crash of the agent too.                          *)
ReloadServes ==
  served # NoRev =>
    \A p \in live : loaded[p] \in {Unread, Torn} \/ loaded[p].rev = served

(* Once the guard has put the locked fields back and restarted the gateway,  *)
(* no gateway of the agent works with other ones, until the file is written  *)
(* again.                                                                    *)
RestoredIsServed ==
  settled =>
    \A p \in live : loaded[p] # Unread =>
      loaded[p] # Torn /\ loaded[p].config.model = baseline

(* A gateway that has read the file while the guard had it truncated does    *)
(* not stay: when the guard is at rest again there is none, unless its write *)
(* or its restart has failed, which nothing makes up for.                    *)
GuardAtRest == guard # "truncated" /\ ~due /\ "guard" \notin calling

TornLoadIsReplaced ==
  GuardAtRest /\ ~missed => \A p \in live : loaded[p] # Torn
=============================================================================
