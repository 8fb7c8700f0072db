------------------------- MODULE GatewayConfigProofs -------------------------
(***************************************************************************)
(* Proofs about GatewayConfig for every set of configurations, revisions   *)
(* and normalizations, and any number of launches, edits and crashes.      *)
(*                                                                         *)
(* Each joint step is one of ConfigManager or leaves its variables alone,  *)
(* so that CInv of ConfigManagerProofs holds here too.  JInv adds what a   *)
(* call in progress knows of the gateways launched since it began: they    *)
(* read the file at a time when it was what the caller had made of it.     *)
(***************************************************************************)
EXTENDS GatewayConfig, ConfigManagerProofs

(* The types of this module's variables: those of GatewayLifecycle with what *)
(* gateways have loaded, and the flags of the callers.                       *)
Results == {"none", "ok", "error"}

LifecycleOK ==
  /\ launched \in 0 .. MaxLaunch /\ live \subseteq 1 .. launched
  /\ calling \subseteq Caller
  /\ op \in [Caller -> Gateway!Operation]
  /\ result \in [Caller -> Results]
  /\ since \in [Caller -> 0 .. launched]
  /\ loaded \in [live -> File \cup {Torn, Unread}]

FlagsOK ==
  /\ job \in {"none", "apply", "applyReload", "reload", "reloading"}
  /\ due \in BOOLEAN
  /\ served \in Rev \cup {NoRev}
  /\ restored \in BOOLEAN /\ settled \in BOOLEAN /\ missed \in BOOLEAN

(* Which caller does what, and when. *)
CallerOK ==
  /\ live # {} => phase \in Armed
  /\ "executor" \in calling => phase = "ready" /\ job \in {"none", "reloading"}
  /\ job = "reloading" => "executor" \in calling /\ op["executor"] = "restart"
  /\ job \in {"apply", "applyReload"} => apply # "idle"
  /\ job \in {"reload", "reloading"} => apply = "idle" /\ applyRev = active /\ phase = "ready"
  /\ "guard" \in calling => op["guard"] = "restart" /\ ~due
  /\ due \/ "guard" \in calling => phase \in Armed /\ guard = "idle" /\ file # Torn

(* What gateways have loaded when an apply with reload is over, and what     *)
(* those have that were launched since its restart began.                    *)
OfActive(p) == loaded[p] \in {Unread, Torn} \/ loaded[p].rev = active

ServedOK ==
  /\ served # NoRev => served = active
  /\ ReloadServes
  /\ job = "reloading" => \A p \in live : p > since["executor"] => OfActive(p)

(* The same for the guard: what it has restored stays until somebody else    *)
(* writes, and is what gateways launched since its restart began have read.  *)
InForce(p) ==
  loaded[p] # Unread => loaded[p] # Torn /\ loaded[p].config.model = baseline

RestoredOK ==
  /\ restored => /\ phase \in Armed /\ guard = "idle" /\ apply # "renamed"
                 /\ file # Torn /\ file.config.model = baseline
  /\ settled => restored
  /\ RestoredIsServed
  /\ restored /\ "guard" \in calling =>
       \A p \in live : p > since["guard"] => InForce(p)

(* Where a truncated file can have been read. *)
LoadOK ==
  /\ phase \in Armed /\ file = Torn => guard = "truncated" \/ missed
  /\ "guard" \in calling =>
       \A p \in live : p > since["guard"] => loaded[p] # Torn
  /\ TornLoadIsReplaced

JInv ==
  CInv /\ LifecycleOK /\ FlagsOK /\ CallerOK /\ ServedOK /\ RestoredOK /\ LoadOK

-----------------------------------------------------------------------------
(* Every step of the composition is one of ConfigManager or a stutter of it. *)
LEMMA JointStep == [JointNext]_jointVars => [Next]_vars
<1> SUFFICES ASSUME [JointNext]_jointVars PROVE [Next]_vars
  OBVIOUS
<1>1. CASE BootSteps
  BY <1>1 DEF BootSteps, Next, BootStep
<1>2. CASE BootStarts
  BY <1>2 DEF BootStarts, Returns
<1>3. ASSUME NEW r \in Rev, NEW o \in {"apply", "applyReload"}, BeginApply(r, o)
      PROVE  [Next]_vars
  BY <1>3 DEF BeginApply, Next
<1>4. CASE Applies
  BY <1>4 DEF Applies, Next, ApplyStep
<1>5. CASE BeginReload \/ ExecutorReturns \/ GuardRestarts \/ GuardReturns
  BY <1>5 DEF BeginReload, ExecutorReturns, GuardRestarts, GuardReturns, Calls, Returns
<1>6. ASSUME NEW o \in Ops["executor"], ProcessCommand(o)
      PROVE  [Next]_vars
  BY <1>6 DEF ProcessCommand, Calls
<1>7. CASE GuardSteps
  BY <1>7 DEF GuardSteps, Next, GuardStep
<1>8. ASSUME NEW p \in DOMAIN loaded, Load(p) \/ Ends(p)
      PROVE  [Next]_vars
  BY <1>8 DEF Load, Ends
<1>9. CASE Edits \/ Saves \/ AgentEnds
  BY <1>9 DEF Edits, Saves, AgentEnds, Next
<1>10. CASE UNCHANGED jointVars
  BY <1>10 DEF jointVars
<1> QED
  BY <1>1, <1>2, <1>3, <1>4, <1>5, <1>6, <1>7, <1>8, <1>9, <1>10 DEF JointNext

LEMMA InitJoint == JointInit => JInv
<1> SUFFICES ASSUME JointInit PROVE JInv
  OBVIOUS
<1>1. CInv
  BY InitInv DEF JointInit
<1>2. live = {} /\ calling = {"boot"} /\ job = "none" /\ due = FALSE /\ served = NoRev
      /\ restored = FALSE /\ settled = FALSE /\ missed = FALSE /\ phase = "down"
  BY DEF JointInit, Init, Gateway!Init
<1>3. LifecycleOK
  <2>1. loaded \in [live -> File \cup {Torn, Unread}]
    BY <1>2 DEF JointInit
  <2>2. launched = 0 /\ launched \in 0 .. MaxLaunch
    BY LaunchAssumption DEF JointInit, Gateway!Init
  <2>3. op \in [Caller -> Gateway!Operation] /\ result \in [Caller -> Results]
    BY DEF JointInit, Gateway!Init, Gateway!Operation, Results
  <2>4. since \in [Caller -> 0 .. launched]
    BY DEF JointInit, Gateway!Init
  <2> QED
    BY <1>2, <2>1, <2>2, <2>3, <2>4 DEF LifecycleOK, Caller
<1>4. FlagsOK /\ CallerOK /\ ServedOK /\ RestoredOK /\ LoadOK
  BY <1>2 DEF FlagsOK, CallerOK, ServedOK, ReloadServes, RestoredOK, RestoredIsServed,
              LoadOK, TornLoadIsReplaced, Armed
<1> QED
  BY <1>1, <1>3, <1>4 DEF JInv

(* What activation leaves in place. *)
LEMMA ActivatedFile ==
  ASSUME CInv, Activate
  PROVE  file' \in File /\ file' # Torn /\ applyRev \in Rev
<1>1. applyRev \in Rev
  BY DEF CInv, TypeOK, Activate
<1>2. Normal[Content[applyRev]] \in Config
  BY <1>1, ContentAssumption, NormalAssumption
<1> QED
  BY <1>1, <1>2, NewFile DEF Activate, Staged

-----------------------------------------------------------------------------
(* Calls to the process manager. *)

(* A call begins: no gateway is younger than it. *)
LEMMA Began ==
  ASSUME LifecycleOK, NEW c \in Caller, NEW o \in Gateway!Operation, Calls(c, o)
  PROVE  /\ LifecycleOK'
         /\ UNCHANGED <<vars, live, launched, loaded>>
         /\ c \notin calling /\ calling' = calling \cup {c}
         /\ op'[c] = o /\ \A d \in Caller : d # c => op'[d] = op[d] /\ since'[d] = since[d]
         /\ \A p \in live : ~(p > since'[c])
<1> USE DEF Calls, Gateway!Begin, LifecycleOK
<1>1. LifecycleOK'
  BY DEF Results
<1> QED
  BY <1>1

(* A call ends: gateways may have been launched, which have read nothing,    *)
(* and after a restart that succeeded all others are younger than the call.  *)
LEMMA Returned ==
  ASSUME LifecycleOK, NEW c \in Caller, Returns(c)
  PROVE  /\ LifecycleOK'
         /\ UNCHANGED <<vars, op, since>>
         /\ c \in calling /\ calling' = calling \ {c}
         /\ result'[c] \in {"ok", "error"}
         /\ \A p \in live' : loaded'[p] = Unread \/ (p \in live /\ loaded'[p] = loaded[p])
         /\ op[c] = "restart" /\ result'[c] = "ok" =>
              \A p \in live' : loaded'[p] = Unread \/ (p \in live /\ p > since[c])
<1>1. /\ UNCHANGED <<vars, op, since>> /\ c \in calling /\ calling' = calling \ {c}
      /\ \E r \in {"ok", "error"} : result' = [result EXCEPT ![c] = r]
      /\ Gateway!LaunchOne \/ UNCHANGED <<live, launched>>
  BY DEF Returns, Gateway!Finish, Gateway!StartOk, Gateway!StopOk, Gateway!ApplyOk,
         Gateway!Fail, Gateway!Answer
<1>2. /\ launched' \in 0 .. MaxLaunch /\ live' \subseteq 1 .. launched'
      /\ launched <= launched'
  <2>1. CASE Gateway!LaunchOne
    BY <2>1, LaunchAssumption DEF LifecycleOK, Gateway!LaunchOne
  <2>2. CASE UNCHANGED <<live, launched>>
    BY <2>2 DEF LifecycleOK
  <2> QED
    BY <1>1, <2>1, <2>2
<1>3. /\ loaded' \in [live' -> File \cup {Torn, Unread}]
      /\ \A p \in live' : loaded'[p] = Unread \/ (p \in live /\ loaded'[p] = loaded[p])
  <2>1. loaded' = [p \in live' |-> IF p \in live THEN loaded[p] ELSE Unread]
    BY DEF Returns, KeepLoaded, LifecycleOK
  <2>2. \A p \in live : loaded[p] \in File \cup {Torn, Unread}
    BY DEF LifecycleOK
  <2>3. \A p \in live' : (IF p \in live THEN loaded[p] ELSE Unread) \in File \cup {Torn, Unread}
    BY <2>2
  <2>4. \A p \in live' : loaded'[p] = IF p \in live THEN loaded[p] ELSE Unread
    BY <2>1
  <2>5. loaded' \in [live' -> File \cup {Torn, Unread}]
    BY <2>1, <2>3
  <2> QED
    BY <2>4, <2>5
<1>4. result' \in [Caller -> Results] /\ result'[c] \in {"ok", "error"}
  BY <1>1 DEF LifecycleOK, Results
<1>5. ASSUME op[c] = "restart", result'[c] = "ok", NEW p \in live'
      PROVE  loaded'[p] = Unread \/ (p \in live /\ p > since[c])
  <2>1. Gateway!Fail(c) => result'[c] = "error"
    BY DEF Gateway!Fail, Gateway!Answer, LifecycleOK
  <2>2. Gateway!StartOk(c)
    BY <1>5, <2>1 DEF Returns, Gateway!Finish, Gateway!StopOk, Gateway!ApplyOk
  <2>3. Gateway!OlderGone(c)
    BY <1>5, <2>2 DEF Gateway!StartOk
  <2> QED
    BY <1>3, <2>3 DEF Gateway!OlderGone
<1>6. LifecycleOK'
  BY <1>1, <1>2, <1>3, <1>4 DEF LifecycleOK
<1> QED
  BY <1>1, <1>3, <1>4, <1>5, <1>6

-----------------------------------------------------------------------------
(* Steps of gateways and of calls, in which nobody reads or writes the file. *)

(* As long as no gateway reads the file, what they have loaded stays right.  *)
LEMMA NothingRead ==
  ASSUME JInv, UNCHANGED <<vars, due, restored, settled, missed>>,
         "guard" \in calling' <=> "guard" \in calling,
         since'["guard"] = since["guard"],
         \A p \in live' : loaded'[p] = Unread \/ (p \in live /\ loaded'[p] = loaded[p])
  PROVE  /\ RestoredOK' /\ LoadOK'
         /\ (/\ served' = served
             /\ job' = "reloading" => job = "reloading" /\ since'["executor"] = since["executor"])
              => ServedOK'
<1> USE DEF JInv, vars, diskVars, guardVars, applyVars, historyVars
<1>1. RestoredOK'
  BY DEF RestoredOK, RestoredIsServed, InForce
<1>2. LoadOK'
  BY UnreadAssumption DEF LoadOK, TornLoadIsReplaced, GuardAtRest
<1>3. ASSUME served' = served,
             job' = "reloading" => job = "reloading" /\ since'["executor"] = since["executor"]
      PROVE  ServedOK'
  BY <1>3 DEF ServedOK, ReloadServes, OfActive
<1> QED
  BY <1>1, <1>2, <1>3

(* And the control of the callers. *)
LEMMA StepOfGateway ==
  ASSUME JInv, UNCHANGED vars
  PROVE  CInv' /\ UNCHANGED <<phase, apply, applyRev, active, guard, file>>
BY StutterInv DEF JInv, vars, diskVars, guardVars, applyVars, historyVars

LEMMA BootStartsJoint ==
  ASSUME JInv, BootStarts
  PROVE  JInv'
<1>1. "boot" \in Caller
  BY DEF Caller
<1>2. /\ phase = "register" /\ Returns("boot")
      /\ UNCHANGED <<job, due, served, restored, settled, missed>>
  BY DEF BootStarts, servingVars
<1>3. /\ LifecycleOK' /\ UNCHANGED <<vars, op, since>> /\ calling' = calling \ {"boot"}
      /\ \A p \in live' : loaded'[p] = Unread \/ (p \in live /\ loaded'[p] = loaded[p])
  BY <1>1, <1>2, Returned DEF JInv
<1>4. CInv' /\ UNCHANGED <<phase, apply, applyRev, active, guard, file>>
  BY <1>3, StepOfGateway
<1>5. FlagsOK' /\ CallerOK'
  BY <1>2, <1>3, <1>4 DEF JInv, FlagsOK, CallerOK, Armed
<1>6. ServedOK' /\ RestoredOK' /\ LoadOK'
  BY <1>2, <1>3, NothingRead
<1> QED
  BY <1>3, <1>4, <1>5, <1>6 DEF JInv

LEMMA BeginReloadJoint ==
  ASSUME JInv, BeginReload
  PROVE  JInv'
<1>1. "executor" \in Caller /\ "guard" \in Caller /\ ReloadBy \in Gateway!Operation
  BY DEF Caller, Gateway!Operation, ReloadBy
<1>2. /\ job = "reload" /\ Calls("executor", ReloadBy) /\ job' = "reloading"
      /\ UNCHANGED <<due, served, restored, settled, missed>>
  BY DEF BeginReload, servingVars
<1>3. /\ LifecycleOK' /\ UNCHANGED <<vars, live, launched, loaded>>
      /\ calling' = calling \cup {"executor"} /\ op'["executor"] = "restart"
      /\ op'["guard"] = op["guard"] /\ since'["guard"] = since["guard"]
      /\ \A p \in live : ~(p > since'["executor"])
  BY <1>1, <1>2, Began DEF JInv, ReloadBy
<1>4. CInv' /\ UNCHANGED <<phase, apply, applyRev, active, guard, file>>
  BY <1>3, StepOfGateway
<1>5. FlagsOK' /\ CallerOK'
  BY <1>2, <1>3, <1>4 DEF JInv, FlagsOK, CallerOK
<1>6. ServedOK'
  BY <1>2, <1>3, <1>4 DEF JInv, ServedOK, ReloadServes
<1>7. RestoredOK' /\ LoadOK'
  BY <1>2, <1>3, NothingRead
<1> QED
  BY <1>3, <1>4, <1>5, <1>6, <1>7 DEF JInv

LEMMA ProcessCommandJoint ==
  ASSUME JInv, NEW o \in Ops["executor"], ProcessCommand(o)
  PROVE  JInv'
<1>1. "executor" \in Caller /\ "guard" \in Caller /\ o \in Gateway!Operation
  BY DEF Caller, Gateway!Operation, Ops
<1>2. /\ phase = "ready" /\ job = "none" /\ Calls("executor", o)
      /\ UNCHANGED <<job, due, served, restored, settled, missed>>
  BY DEF ProcessCommand, servingVars
<1>3. /\ LifecycleOK' /\ UNCHANGED <<vars, live, launched, loaded>>
      /\ calling' = calling \cup {"executor"}
      /\ op'["guard"] = op["guard"] /\ since'["guard"] = since["guard"]
  BY <1>1, <1>2, Began DEF JInv
<1>4. CInv' /\ UNCHANGED <<phase, apply, applyRev, active, guard, file>>
  BY <1>3, StepOfGateway
<1>5. FlagsOK' /\ CallerOK'
  BY <1>2, <1>3, <1>4 DEF JInv, FlagsOK, CallerOK
<1>6. ServedOK' /\ RestoredOK' /\ LoadOK'
  <2> QED
    BY <1>2, <1>3, NothingRead
<1> QED
  BY <1>3, <1>4, <1>5, <1>6 DEF JInv

LEMMA ExecutorReturnsJoint ==
  ASSUME JInv, ExecutorReturns
  PROVE  JInv'
<1>1. "executor" \in Caller
  BY DEF Caller
<1>2. /\ Returns("executor") /\ job' = "none"
      /\ served' = IF job = "reloading" /\ result'["executor"] = "ok" THEN applyRev ELSE served
      /\ UNCHANGED <<due, restored, settled, missed>>
  BY DEF ExecutorReturns
<1>3. /\ LifecycleOK' /\ UNCHANGED <<vars, op, since>>
      /\ "executor" \in calling /\ calling' = calling \ {"executor"}
      /\ \A p \in live' : loaded'[p] = Unread \/ (p \in live /\ loaded'[p] = loaded[p])
      /\ op["executor"] = "restart" /\ result'["executor"] = "ok" =>
           \A p \in live' : loaded'[p] = Unread \/ (p \in live /\ p > since["executor"])
  BY <1>1, <1>2, Returned DEF JInv
<1>4. CInv' /\ UNCHANGED <<phase, apply, applyRev, active, guard, file>>
  BY <1>3, StepOfGateway
<1>5. CallerOK'
  BY <1>2, <1>3, <1>4 DEF JInv, CallerOK, Armed
<1>6. FlagsOK'
  <2>1. served' \in Rev \cup {NoRev}
    BY <1>2 DEF JInv, CInv, TypeOK, FlagsOK
  <2> QED
    BY <1>2, <2>1 DEF JInv, FlagsOK
<1>7. ServedOK'
  <2>1. CASE job = "reloading" /\ result'["executor"] = "ok"
    <3>1. served' = active /\ active' = active /\ job' # "reloading"
      BY <1>2, <1>4, <2>1 DEF JInv, CallerOK
    <3>2. \A p \in live' : loaded'[p] \in {Unread, Torn} \/ loaded'[p].rev = active
      BY <1>3, <2>1 DEF JInv, CallerOK, ServedOK, OfActive
    <3> QED
      BY <3>1, <3>2 DEF ServedOK, ReloadServes
  <2>2. CASE served' = served
    BY <1>2, <1>3, <2>2, NothingRead
  <2> QED
    BY <1>2, <2>1, <2>2
<1>8. RestoredOK' /\ LoadOK'
  BY <1>2, <1>3, NothingRead
<1> QED
  BY <1>3, <1>4, <1>5, <1>6, <1>7, <1>8 DEF JInv

LEMMA GuardRestartsJoint ==
  ASSUME JInv, GuardRestarts
  PROVE  JInv'
<1>1. "executor" \in Caller /\ "guard" \in Caller /\ "restart" \in Gateway!Operation
  BY DEF Caller, Gateway!Operation
<1>2. /\ due /\ Calls("guard", "restart") /\ due' = FALSE
      /\ UNCHANGED <<job, served, restored, settled, missed>>
  BY DEF GuardRestarts, servingVars
<1>3. /\ LifecycleOK' /\ UNCHANGED <<vars, live, launched, loaded>>
      /\ calling' = calling \cup {"guard"} /\ op'["guard"] = "restart"
      /\ op'["executor"] = op["executor"] /\ since'["executor"] = since["executor"]
      /\ \A p \in live : ~(p > since'["guard"])
  BY <1>1, <1>2, Began DEF JInv
<1>4. CInv' /\ UNCHANGED <<phase, apply, applyRev, active, guard, file>>
  BY <1>3, StepOfGateway
<1>5. FlagsOK' /\ CallerOK'
  BY <1>2, <1>3, <1>4 DEF JInv, FlagsOK, CallerOK
<1>6. ServedOK'
  BY <1>2, <1>3, <1>4 DEF JInv, ServedOK, ReloadServes, OfActive
<1>7. RestoredOK'
  <2>1. baseline' = baseline
    BY <1>3 DEF vars
  <2> QED
    BY <1>2, <1>3, <1>4, <2>1 DEF JInv, RestoredOK, RestoredIsServed
<1>8. LoadOK'
  BY <1>2, <1>3, <1>4 DEF JInv, LoadOK, TornLoadIsReplaced, GuardAtRest
<1> QED
  BY <1>3, <1>4, <1>5, <1>6, <1>7, <1>8 DEF JInv

LEMMA GuardReturnsJoint ==
  ASSUME JInv, GuardReturns
  PROVE  JInv'
<1>1. "guard" \in Caller
  BY DEF Caller
<1>2. /\ Returns("guard")
      /\ settled' = (restored /\ result'["guard"] = "ok")
      /\ missed' = (result'["guard"] = "error")
      /\ UNCHANGED <<job, due, served, restored>>
  BY DEF GuardReturns
<1>3. /\ LifecycleOK' /\ UNCHANGED <<vars, op, since>>
      /\ "guard" \in calling /\ calling' = calling \ {"guard"}
      /\ result'["guard"] \in {"ok", "error"}
      /\ \A p \in live' : loaded'[p] = Unread \/ (p \in live /\ loaded'[p] = loaded[p])
      /\ op["guard"] = "restart" /\ result'["guard"] = "ok" =>
           \A p \in live' : loaded'[p] = Unread \/ (p \in live /\ p > since["guard"])
  BY <1>1, <1>2, Returned DEF JInv
<1>4. CInv' /\ UNCHANGED <<phase, apply, applyRev, active, guard, file>> /\ baseline' = baseline
  BY <1>3, StepOfGateway DEF vars
<1>5. result'["guard"] = "ok" =>
        \A p \in live' : loaded'[p] = Unread \/ (p \in live /\ p > since["guard"])
  BY <1>3 DEF JInv, CallerOK
<1>6. FlagsOK'
  BY <1>2 DEF JInv, FlagsOK
<1>7. CallerOK'
  BY <1>2, <1>3, <1>4 DEF JInv, CallerOK
<1>8. ServedOK'
  BY <1>2, <1>3, <1>4 DEF JInv, ServedOK, ReloadServes, OfActive
<1>9. RestoredOK'
  <2>1. RestoredIsServed'
    BY <1>2, <1>3, <1>4, <1>5 DEF JInv, RestoredOK, RestoredIsServed, InForce
  <2> QED
    BY <1>2, <1>3, <1>4, <2>1 DEF JInv, RestoredOK
<1>10. LoadOK'
  <2>1. file' # Torn
    BY <1>3, <1>4 DEF JInv, CallerOK
  <2>2. ~missed' => \A p \in live' : loaded'[p] # Torn
    BY <1>2, <1>3, <1>5, UnreadAssumption DEF JInv, LoadOK
  <2> QED
    BY <1>3, <2>1, <2>2 DEF LoadOK, TornLoadIsReplaced
<1> QED
  BY <1>3, <1>4, <1>6, <1>7, <1>8, <1>9, <1>10 DEF JInv

LEMMA LoadJoint ==
  ASSUME JInv, NEW p \in DOMAIN loaded, Load(p)
  PROVE  JInv'
<1>1. /\ p \in live /\ loaded[p] = Unread /\ loaded' = [loaded EXCEPT ![p] = file]
      /\ UNCHANGED <<vars, live, launched, calling, op, result, since, job, due>>
      /\ UNCHANGED <<served, restored, settled, missed>>
  BY DEF Load, lifecycleVars, servingVars, JInv, LifecycleOK
<1>2. CInv' /\ UNCHANGED <<phase, apply, applyRev, active, guard, file>> /\ baseline' = baseline
  BY <1>1, StepOfGateway DEF vars
<1>3. /\ phase \in Armed /\ file \in File \cup {Torn}
      /\ file # Torn => file.rev = active
  BY <1>1 DEF JInv, CallerOK, CInv, TypeOK, FileOK, GuardKeepsRevision
<1>4. LifecycleOK'
  BY <1>1, <1>3 DEF JInv, LifecycleOK
<1>5. FlagsOK' /\ CallerOK'
  BY <1>1, <1>2 DEF JInv, FlagsOK, CallerOK
<1>6. ServedOK'
  BY <1>1, <1>2, <1>3 DEF JInv, ServedOK, ReloadServes, OfActive
<1>7. RestoredOK'
  BY <1>1, <1>2 DEF JInv, RestoredOK, RestoredIsServed, InForce
<1>8. LoadOK'
  BY <1>1, <1>2 DEF JInv, CallerOK, LoadOK, TornLoadIsReplaced, GuardAtRest
<1> QED
  BY <1>2, <1>4, <1>5, <1>6, <1>7, <1>8 DEF JInv

LEMMA EndsJoint ==
  ASSUME JInv, NEW p \in DOMAIN loaded, Ends(p)
  PROVE  JInv'
<1>1. /\ live' = live \ {p}
      /\ loaded' = [q \in live' |-> IF q \in DOMAIN loaded THEN loaded[q] ELSE Unread]
      /\ UNCHANGED <<vars, launched, calling, op, result, since, job, due>>
      /\ UNCHANGED <<served, restored, settled, missed>>
  BY DEF Ends, KeepLoaded, Gateway!Vanish, servingVars
<1>2. CInv' /\ UNCHANGED <<phase, apply, applyRev, active, guard, file>>
  BY <1>1, StepOfGateway
<1>3. LifecycleOK'
  BY <1>1 DEF JInv, LifecycleOK
<1>4. FlagsOK' /\ CallerOK'
  BY <1>1, <1>2 DEF JInv, FlagsOK, CallerOK
<1>5. ServedOK' /\ RestoredOK' /\ LoadOK'
  BY <1>1, NothingRead
<1> QED
  BY <1>2, <1>3, <1>4, <1>5 DEF JInv

-----------------------------------------------------------------------------
(* Steps on the file, in which gateways and calls stay as they are. *)

LEMMA LifecycleKept ==
  ASSUME LifecycleOK, UNCHANGED <<lifecycleVars, loaded>>
  PROVE  LifecycleOK' /\ UNCHANGED <<live, calling, op, since, loaded>>
BY DEF LifecycleOK, lifecycleVars

LEMMA BootStepsJoint ==
  ASSUME JInv, BootSteps
  PROVE  JInv'
<1> USE DEF BootSteps, gatewayVars, servingVars
<1>1. CInv'
  BY JointStep, NextInv DEF JInv, JointNext
<1>2. LifecycleOK' /\ UNCHANGED <<live, calling, op, since, loaded>>
  BY LifecycleKept DEF JInv
<1> USE DEF Boot, Normalize, Rewrite, Capture, Register, Initial,
            diskVars, guardVars, applyVars, historyVars
<1>3. FlagsOK' /\ CallerOK'
  BY <1>2 DEF JInv, FlagsOK, CallerOK, Armed
<1>4. ServedOK'
  BY <1>2 DEF JInv, ServedOK, ReloadServes, OfActive
<1>5. RestoredOK'
  BY <1>2 DEF JInv, RestoredOK, RestoredIsServed, InForce, Armed
<1>6. LoadOK'
  BY <1>2 DEF JInv, LoadOK, TornLoadIsReplaced, GuardAtRest, Armed
<1> QED
  BY <1>1, <1>2, <1>3, <1>4, <1>5, <1>6 DEF JInv

LEMMA SavesJoint ==
  ASSUME JInv, Saves
  PROVE  JInv'
<1>1. CInv'
  BY JointStep, NextInv DEF JInv, JointNext
<1>2. LifecycleOK' /\ UNCHANGED <<live, calling, op, since, loaded>>
  BY LifecycleKept DEF JInv, Saves, gatewayVars
<1>3. /\ UNCHANGED <<phase, file, baseline, guard, apply, applyRev, active>>
      /\ UNCHANGED <<job, due, served, restored, settled, missed>>
  BY DEF Saves, Persist, gatewayVars, servingVars, guardVars, applyVars, historyVars
<1>4. FlagsOK' /\ CallerOK'
  BY <1>2, <1>3 DEF JInv, FlagsOK, CallerOK
<1>5. ServedOK' /\ RestoredOK'
  BY <1>2, <1>3 DEF JInv, ServedOK, ReloadServes, OfActive, RestoredOK, RestoredIsServed, InForce
<1>6. LoadOK'
  BY <1>2, <1>3 DEF JInv, LoadOK, TornLoadIsReplaced, GuardAtRest
<1> QED
  BY <1>1, <1>2, <1>4, <1>5, <1>6 DEF JInv

LEMMA BeginApplyJoint ==
  ASSUME JInv, NEW r \in Rev, NEW o \in {"apply", "applyReload"}, BeginApply(r, o)
  PROVE  JInv'
<1>1. CInv'
  BY JointStep, NextInv DEF JInv, JointNext
<1>2. LifecycleOK' /\ UNCHANGED <<live, calling, op, since, loaded>>
  BY LifecycleKept DEF JInv, BeginApply
<1>3. /\ job = "none" /\ job' = o /\ "executor" \notin calling
      /\ phase = "ready" /\ apply' = "fetched" /\ applyRev' = r
      /\ UNCHANGED <<phase, file, baseline, guard, active>>
      /\ UNCHANGED <<due, served, restored, settled, missed>>
  BY DEF BeginApply, Fetch, servingVars, diskVars, guardVars, historyVars
<1>4. FlagsOK' /\ CallerOK'
  BY <1>2, <1>3 DEF JInv, FlagsOK, CallerOK
<1>5. ServedOK' /\ RestoredOK'
  BY <1>2, <1>3
  DEF JInv, ServedOK, ReloadServes, RestoredOK, RestoredIsServed, InForce
<1>6. LoadOK'
  BY <1>2, <1>3 DEF JInv, LoadOK, TornLoadIsReplaced, GuardAtRest
<1> QED
  BY <1>1, <1>2, <1>4, <1>5, <1>6 DEF JInv

LEMMA AppliesJoint ==
  ASSUME JInv, Applies
  PROVE  JInv'
<1>1. CInv'
  BY JointStep, NextInv DEF JInv, JointNext
<1>2. LifecycleOK' /\ UNCHANGED <<live, calling, op, since, loaded>>
  BY LifecycleKept DEF JInv, Applies
<1>3. UNCHANGED <<due, missed, phase, guard>>
  BY DEF Applies, LockApply, Activate, ActivateFails, Record, servingVars, guardVars
<1>4. CASE LockApply /\ UNCHANGED <<job, servingVars>>
  <2>1. /\ apply = "fetched" /\ apply' = "locked"
        /\ UNCHANGED <<file, baseline, applyRev, active, job, served, restored, settled>>
    BY <1>4 DEF LockApply, diskVars, historyVars, servingVars
  <2>2. FlagsOK' /\ CallerOK' /\ ServedOK' /\ RestoredOK'
    BY <1>2, <1>3, <2>1
    DEF JInv, FlagsOK, CallerOK, ServedOK, ReloadServes, RestoredOK,
        RestoredIsServed, InForce
  <2>3. LoadOK'
    BY <1>2, <1>3, <2>1 DEF JInv, LoadOK, TornLoadIsReplaced, GuardAtRest
  <2> QED
    BY <1>1, <1>2, <2>2, <2>3 DEF JInv
<1>5. CASE Activate /\ restored' = FALSE
  <2>1. /\ apply = "locked" /\ apply' = "renamed" /\ active' = applyRev
        /\ served' = (IF served = applyRev THEN served ELSE NoRev)
        /\ restored' = FALSE /\ settled' = FALSE /\ UNCHANGED <<job, applyRev, baseline>>
        /\ file' # Torn
    BY <1>5, ActivatedFile DEF JInv, Applies, LockApply, Activate, ActivateFails, Record
  <2>2. FlagsOK' /\ CallerOK'
    BY <1>2, <1>3, <2>1 DEF JInv, FlagsOK, CallerOK
  <2>3. ServedOK' /\ RestoredOK'
    BY <1>2, <2>1
    DEF JInv, CallerOK, ServedOK, ReloadServes, RestoredOK, RestoredIsServed
  <2>4. LoadOK'
    BY <1>2, <1>3, <2>1 DEF JInv, LoadOK, TornLoadIsReplaced, GuardAtRest
  <2> QED
    BY <1>1, <1>2, <2>2, <2>3, <2>4 DEF JInv
<1>6. CASE (ActivateFails \/ Record) /\ UNCHANGED servingVars
  <2>1. /\ apply \in {"locked", "renamed"} /\ apply' = "idle"
        /\ UNCHANGED <<file, applyRev, active, served, restored, settled>>
        /\ baseline' = baseline \/ apply = "renamed"
        /\ job' = "none" \/ (job' = "reload" /\ job = "applyReload" /\ apply = "renamed")
    BY <1>6
    DEF Applies, LockApply, Activate, ActivateFails, Record, diskVars, historyVars, servingVars
  <2>2. phase = "ready" /\ (apply = "renamed" => active = applyRev)
    BY <2>1 DEF JInv, CInv, LockOK
  <2>3. FlagsOK' /\ CallerOK'
    BY <1>2, <1>3, <2>1, <2>2 DEF JInv, FlagsOK, CallerOK
  <2>4. ServedOK' /\ RestoredOK'
    BY <1>2, <1>3, <2>1
    DEF JInv, ServedOK, ReloadServes, RestoredOK, RestoredIsServed, InForce
  <2>5. LoadOK'
    BY <1>2, <1>3, <2>1 DEF JInv, LoadOK, TornLoadIsReplaced, GuardAtRest
  <2> QED
    BY <1>1, <1>2, <2>3, <2>4, <2>5 DEF JInv
<1> QED
  BY <1>4, <1>5, <1>6 DEF Applies

LEMMA GuardStepsJoint ==
  ASSUME JInv, GuardSteps
  PROVE  JInv'
<1>1. CInv'
  BY JointStep, NextInv DEF JInv, JointNext
<1>2. LifecycleOK' /\ UNCHANGED <<live, calling, op, since, loaded>>
  BY LifecycleKept DEF JInv, GuardSteps
<1>3. UNCHANGED <<job, served, phase, baseline, active, apply, applyRev>>
  BY DEF GuardSteps, Check, Truncate, Restore, RestoreFails, servingVars, applyVars, historyVars
<1>4. CASE Check /\ Booted /\ UNCHANGED <<due, servingVars>>
  <2>1. /\ ~due /\ "guard" \notin calling
        /\ guard = "idle" /\ guard' = "changed" /\ phase \in Armed
        /\ Tampered /\ UNCHANGED <<file, due, restored, settled, missed>>
    BY <1>4 DEF GuardSteps, Check, Truncate, Restore, RestoreFails, diskVars, servingVars
  <2>2. ~restored
    BY <2>1 DEF JInv, RestoredOK, Tampered
  <2>3. FlagsOK' /\ CallerOK' /\ ServedOK' /\ RestoredOK'
    BY <1>2, <1>3, <2>1, <2>2 DEF JInv, FlagsOK, CallerOK, ServedOK, ReloadServes, OfActive,
       RestoredOK, RestoredIsServed
  <2>4. LoadOK'
    BY <1>2, <2>1 DEF JInv, LoadOK, TornLoadIsReplaced, GuardAtRest
  <2> QED
    BY <1>1, <1>2, <2>3, <2>4 DEF JInv
<1>5. CASE Truncate
  <2>1. /\ guard = "changed" /\ guard' = "truncated"
        /\ restored' = FALSE /\ settled' = FALSE /\ UNCHANGED <<due, missed>>
    BY <1>5 DEF GuardSteps, Check, Truncate, Restore, RestoreFails
  <2>2. ~due /\ "guard" \notin calling
    BY <2>1 DEF JInv, CallerOK
  <2>3. FlagsOK' /\ CallerOK' /\ ServedOK' /\ RestoredOK'
    BY <1>2, <1>3, <2>1
    DEF JInv, FlagsOK, CallerOK, ServedOK, ReloadServes, OfActive, RestoredOK,
        RestoredIsServed
  <2>4. LoadOK'
    BY <1>2, <2>1, <2>2 DEF LoadOK, TornLoadIsReplaced, GuardAtRest
  <2> QED
    BY <1>1, <1>2, <2>3, <2>4 DEF JInv
<1>6. CASE /\ Restore
           /\ due' = ReportsRestored /\ restored' = TRUE /\ UNCHANGED <<settled, missed>>
  <2>1. /\ guard = "truncated" /\ guard' = "idle" /\ due' /\ due' \in BOOLEAN
        /\ restored' = TRUE /\ UNCHANGED <<settled, missed>>
        /\ file' # Torn /\ file'.config.model = baseline
    BY <1>6, RestoredFile DEF JInv, Restore, ReportsRestored
  <2>2. /\ ~due /\ "guard" \notin calling /\ ~settled
        /\ phase \in Armed /\ apply # "renamed"
    BY <2>1 DEF JInv, CallerOK, RestoredOK, CInv, LockOK
  <2>3. FlagsOK' /\ CallerOK' /\ ServedOK' /\ RestoredOK'
    BY <1>2, <1>3, <2>1, <2>2 DEF JInv, FlagsOK, CallerOK, ServedOK, ReloadServes, OfActive,
       RestoredOK, RestoredIsServed
  <2>4. LoadOK'
    BY <1>2, <2>1, <2>2 DEF LoadOK, TornLoadIsReplaced, GuardAtRest
  <2> QED
    BY <1>1, <1>2, <2>3, <2>4 DEF JInv
<1>7. CASE RestoreFails /\ missed' = TRUE /\ UNCHANGED <<due, restored, settled>>
  <2>1. /\ guard = "truncated" /\ guard' = "idle" /\ missed' = TRUE
        /\ UNCHANGED <<due, restored, settled>>
    BY <1>7 DEF RestoreFails
  <2>2. ~due /\ "guard" \notin calling /\ ~restored
    BY <2>1 DEF JInv, CallerOK, RestoredOK
  <2>3. FlagsOK' /\ CallerOK' /\ ServedOK' /\ RestoredOK'
    BY <1>2, <1>3, <2>1
    DEF JInv, FlagsOK, CallerOK, ServedOK, ReloadServes, OfActive, RestoredOK,
        RestoredIsServed
  <2>4. LoadOK'
    BY <1>2, <2>1, <2>2 DEF LoadOK, TornLoadIsReplaced
  <2> QED
    BY <1>1, <1>2, <2>3, <2>4 DEF JInv
<1> QED
  BY <1>4, <1>5, <1>6, <1>7 DEF GuardSteps

LEMMA EditsJoint ==
  ASSUME JInv, Edits
  PROVE  JInv'
<1>1. CInv'
  BY JointStep, NextInv DEF JInv, JointNext
<1>2. LifecycleOK' /\ UNCHANGED <<live, calling, op, since, loaded>>
  BY LifecycleKept DEF JInv, Edits
<1>3. /\ file' # Torn /\ restored' = FALSE /\ settled' = FALSE
      /\ UNCHANGED <<job, due, served, missed, phase, guard, apply, applyRev, active>>
  BY EditedFile DEF JInv, Edits, Edit, guardVars, applyVars, historyVars
<1>4. FlagsOK' /\ CallerOK' /\ ServedOK' /\ RestoredOK'
  BY <1>2, <1>3
  DEF JInv, FlagsOK, CallerOK, ServedOK, ReloadServes, OfActive, RestoredOK, RestoredIsServed
<1>5. LoadOK'
  BY <1>2, <1>3 DEF JInv, LoadOK, TornLoadIsReplaced, GuardAtRest
<1> QED
  BY <1>1, <1>2, <1>4, <1>5 DEF JInv

LEMMA AgentEndsJoint ==
  ASSUME JInv, AgentEnds
  PROVE  JInv'
<1>1. CInv'
  BY JointStep, NextInv DEF JInv, JointNext
<1>2. /\ live' = {} /\ launched' = launched /\ calling' = {"boot"}
      /\ op' = [op EXCEPT !["boot"] = "start"] /\ result' = [result EXCEPT !["boot"] = "none"]
      /\ since' = [since EXCEPT !["boot"] = launched]
      /\ job' = "none" /\ due' = FALSE /\ served' = served
      /\ restored' = FALSE /\ settled' = FALSE /\ missed' = FALSE
      /\ phase' = "down" /\ active' = active
  BY DEF AgentEnds, Crash
<1>3. LifecycleOK'
  <2>1. loaded' \in [live' -> File \cup {Torn, Unread}]
    BY DEF AgentEnds, KeepLoaded
  <2>2. op' \in [Caller -> Gateway!Operation] /\ result' \in [Caller -> Results]
    BY <1>2 DEF JInv, LifecycleOK, Gateway!Operation, Results
  <2> QED
    BY <1>2, <2>1, <2>2 DEF JInv, LifecycleOK
<1>4. FlagsOK' /\ CallerOK' /\ ServedOK' /\ RestoredOK'
  BY <1>2 DEF JInv, FlagsOK, CallerOK, ServedOK, ReloadServes, RestoredOK, RestoredIsServed
<1>5. LoadOK'
  BY <1>2 DEF LoadOK, TornLoadIsReplaced, Armed
<1> QED
  BY <1>1, <1>3, <1>4, <1>5 DEF JInv

LEMMA StutterJoint ==
  ASSUME JInv, UNCHANGED jointVars
  PROVE  JInv'
<1>1. /\ UNCHANGED vars /\ UNCHANGED <<lifecycleVars, loaded>>
      /\ UNCHANGED <<job, due, served, restored, settled, missed>>
  BY DEF jointVars, gatewayVars, servingVars
<1>2. CInv' /\ UNCHANGED <<phase, apply, applyRev, active, guard, file>>
  BY <1>1, StepOfGateway
<1>3. LifecycleOK' /\ UNCHANGED <<live, calling, op, since, loaded>>
  BY <1>1, LifecycleKept DEF JInv
<1>4. FlagsOK' /\ CallerOK'
  BY <1>1, <1>2, <1>3 DEF JInv, FlagsOK, CallerOK
<1>5. ServedOK' /\ RestoredOK' /\ LoadOK'
  BY <1>1, <1>3, NothingRead
<1> QED
  BY <1>2, <1>3, <1>4, <1>5 DEF JInv

-----------------------------------------------------------------------------
LEMMA NextJoint == JInv /\ [JointNext]_jointVars => JInv'
<1> SUFFICES ASSUME JInv, [JointNext]_jointVars PROVE JInv'
  OBVIOUS
<1>1. CASE BootSteps \/ BootStarts \/ Applies \/ Edits \/ Saves \/ AgentEnds
  BY <1>1, BootStepsJoint, BootStartsJoint, AppliesJoint, EditsJoint, SavesJoint, AgentEndsJoint
<1>2. CASE BeginReload \/ ExecutorReturns
  BY <1>2, BeginReloadJoint, ExecutorReturnsJoint
<1>3. CASE GuardSteps \/ GuardRestarts \/ GuardReturns
  BY <1>3, GuardStepsJoint, GuardRestartsJoint, GuardReturnsJoint
<1>4. ASSUME NEW r \in Rev, NEW o \in {"apply", "applyReload"}, BeginApply(r, o)
      PROVE  JInv'
  BY <1>4, BeginApplyJoint
<1>5. ASSUME NEW o \in Ops["executor"], ProcessCommand(o)
      PROVE  JInv'
  BY <1>5, ProcessCommandJoint
<1>6. ASSUME NEW p \in DOMAIN loaded, Load(p) \/ Ends(p)
      PROVE  JInv'
  BY <1>6, LoadJoint, EndsJoint
<1>7. CASE UNCHANGED jointVars
  BY <1>7, StutterJoint
<1> QED
  BY <1>1, <1>2, <1>3, <1>4, <1>5, <1>6, <1>7 DEF JointNext

(* The file, the calls and what gateways have loaded stay in step. *)
THEOREM JointInvariance == JointSpec => []JInv
BY InitJoint, NextJoint, PTL DEF JointSpec

(* The variables of both components keep their types. *)
THEOREM JointTypes == JointSpec => []JointTypeOK
<1>1. JInv => JointTypeOK
  BY DEF JInv, CInv, LifecycleOK, FlagsOK, JointTypeOK
<1> QED
  BY <1>1, JointInvariance, PTL

(* In the composition the configuration behaves as ConfigManager says, and   *)
(* so everything proved of it holds beside running gateways.                 *)
THEOREM ConfigIsConfigManager == JointSpec => Spec
<1>1. JointInit => Init
  BY DEF JointInit
<1> QED
  BY <1>1, JointStep, PTL DEF JointSpec, Spec

(* What was applied with reload is what the agent's gateway serves, until    *)
(* another revision is put in place.                                         *)
THEOREM ReloadIsServed == JointSpec => []ReloadServes
BY JointInvariance, PTL DEF JInv, ServedOK

(* Locked fields that were put back, with a restart, are in force until the  *)
(* file is written again.                                                    *)
THEOREM RestoredIsInForce == JointSpec => []RestoredIsServed
BY JointInvariance, PTL DEF JInv, RestoredOK

(* A gateway that has read a truncated file does not outlast the guard's     *)
(* restart.                                                                  *)
THEOREM TornGatewayGoes == JointSpec => []TornLoadIsReplaced
BY JointInvariance, PTL DEF JInv, LoadOK
=============================================================================
