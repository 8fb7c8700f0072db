------------------------- MODULE ProcessManagerProofs -------------------------
(***************************************************************************)
(* Proofs about ProcessManager for every set of callers, every assignment  *)
(* of operations to them and every number of launches.                     *)
(*                                                                         *)
(* None of the safety properties is inductive.  They follow from IInv,     *)
(* which says that the fields of the manager, the processes and the        *)
(* variables captured by the callers tell one story: the only process not  *)
(* yet reaped is cmd, it is the one launched last, and every captured      *)
(* channel belongs to the captured process.                                *)
(***************************************************************************)
EXTENDS ProcessManager, TLAPS

(* The process that is there is the one in cmd, and it is the latest one.    *)
LiveIsCmd ==
  /\ \A p \in Proc : p \in Live <=> p = cmd
  /\ cmd # Nil => cmd = launched
  /\ done = cmd

(* Processes are launched in order and a channel is closed by the reaper.    *)
History ==
  /\ \A p \in Proc : proc[p] = "unborn" <=> p > launched
  /\ closed = {p \in Proc : proc[p] = "reaped"}

InStop == {"signal", "await", "awaitKilled"}

(* What a call in progress has captured, and how old it is. *)
CallOK(c) ==
  /\ since[c] <= launched
  /\ pc[c] \in InStop =>
       /\ target[c] \in Proc
       /\ since[c] <= target[c]
       /\ target[c] <= launched
       /\ chan[c] = target[c]
  /\ pc[c] \in InStop \cup {"stop"} => op[c] \in {"stop", "restart", "applyReload"}
  /\ pc[c] = "start" => op[c] \in {"start", "restart", "applyReload"}
  /\ pc[c] = "start" /\ op[c] # "start" => \A p \in Live : p > since[c]
  /\ pc[c] = "applying" => op[c] \in {"apply", "applyReload"}

IInv ==
  /\ TypeOK
  /\ LiveIsCmd
  /\ History
  /\ StatusMatchesCmd
  /\ PromotedByOwn
  /\ \A c \in Caller : CallOK(c)

-----------------------------------------------------------------------------
LEMMA InitInv == Init => IInv
<1> SUFFICES ASSUME Init PROVE IInv
  OBVIOUS
<1> USE DEF Init
<1>1. TypeOK
  <2>1. /\ cmd \in Proc \cup {Nil} /\ status \in Status
        /\ done \in Proc \cup {Nil} /\ restarts \in Nat /\ launched \in 0 .. MaxLaunch
    BY LaunchAssumption DEF Status
  <2>0. stopRequested \in BOOLEAN
    BY Zenon
  <2>2. /\ proc \in [Proc -> ProcState]
        /\ killed \subseteq Proc /\ closed \subseteq Proc /\ promoting \subseteq Proc
    BY DEF ProcState
  <2>3. /\ pc \in [Caller -> Control] /\ op \in [Caller -> Operation]
        /\ outcome \in [Caller -> {"none", "ok", "error"}]
    BY DEF Control, Operation
  <2>4. /\ target \in [Caller -> Proc \cup {Nil}]
        /\ chan \in [Caller -> Proc \cup {Nil}]
        /\ since \in [Caller -> 0 .. MaxLaunch]
    BY LaunchAssumption
  <2> QED
    BY <2>0, <2>1, <2>2, <2>3, <2>4 DEF TypeOK
<1>2. LiveIsCmd /\ History
  BY LaunchAssumption DEF Init, LiveIsCmd, History, Live, Proc, Nil
<1>3. StatusMatchesCmd /\ PromotedByOwn
  BY DEF Init, StatusMatchesCmd, PromotedByOwn
<1>4. ASSUME NEW c \in Caller PROVE CallOK(c)
  <2>1. pc[c] \in {"start", "idle"} /\ op[c] = "start" /\ since[c] = launched
    OBVIOUS
  <2> QED
    BY <2>1, LaunchAssumption DEF CallOK, InStop
<1> QED
  BY <1>1, <1>2, <1>3, <1>4 DEF IInv

(* Steps of a caller that leave the manager and the processes alone keep the *)
(* invariant if they keep CallOK of that caller.                             *)
LEMMA CallerStep ==
  ASSUME IInv, TypeOK', UNCHANGED <<managerVars, launched, proc, closed, promoting>>,
         NEW c \in Caller, CallOK(c)',
         \A d \in Caller \ {c} :
           /\ pc'[d] = pc[d] /\ op'[d] = op[d] /\ target'[d] = target[d]
           /\ chan'[d] = chan[d] /\ since'[d] = since[d]
  PROVE  IInv'
<1>1. Live' = Live
  BY DEF Live, managerVars
<1>2. LiveIsCmd' /\ History'
  BY <1>1 DEF IInv, LiveIsCmd, History, managerVars
<1>3. StatusMatchesCmd' /\ PromotedByOwn'
  BY DEF IInv, StatusMatchesCmd, PromotedByOwn, managerVars
<1>4. ASSUME NEW d \in Caller PROVE CallOK(d)'
  <2>1. CASE d = c
    BY <2>1
  <2>2. CASE d # c
    BY <1>1, <2>2 DEF IInv, CallOK, managerVars
  <2> QED
    BY <2>1, <2>2
<1> QED
  BY <1>2, <1>3, <1>4 DEF IInv

LEMMA CallInv ==
  ASSUME IInv, NEW c \in Caller, NEW o \in Operation, Call(c, o)
  PROVE  IInv'
<1> USE DEF Call
<1>1. TypeOK'
  BY DEF IInv, TypeOK, FirstLabel, Operation, Control, Status, processVars
<1>2. Live' = Live
  BY DEF Live, processVars
<1>3. LiveIsCmd' /\ History'
  BY <1>2 DEF IInv, LiveIsCmd, History, processVars
<1>4. StatusMatchesCmd' /\ PromotedByOwn'
  BY DEF IInv, StatusMatchesCmd, PromotedByOwn, processVars
<1>5. ASSUME NEW d \in Caller PROVE CallOK(d)'
  <2>1. CASE d = c
    <3>1. pc'[c] = FirstLabel(o) /\ op'[c] = o /\ since'[c] = launched
      BY DEF IInv, TypeOK
    <3>2. launched' = launched /\ launched \in Nat
      BY LaunchAssumption DEF IInv, TypeOK, processVars
    <3>3. pc'[c] \notin InStop
      BY <3>1 DEF FirstLabel, InStop, Operation
    <3>4. since'[c] <= launched'
      BY <3>1, <3>2
    <3>5. pc'[c] = "stop" => o \in {"stop", "restart"}
      BY <3>1 DEF FirstLabel, Operation
    <3>6. pc'[c] = "start" => o = "start"
      BY <3>1 DEF FirstLabel, Operation
    <3>7. pc'[c] = "applying" => o \in {"apply", "applyReload"}
      BY <3>1 DEF FirstLabel, Operation
    <3> QED
      BY <2>1, <3>1, <3>3, <3>4, <3>5, <3>6, <3>7 DEF CallOK
  <2>2. CASE d # c
    BY <1>2, <2>2 DEF IInv, TypeOK, CallOK, processVars
  <2> QED
    BY <2>1, <2>2
<1> QED
  BY <1>1, <1>3, <1>4, <1>5 DEF IInv

(* Once the channel a Stop waits on is closed, every gateway from before the *)
(* call is gone.                                                             *)
LEMMA ClosedMeansGone ==
  ASSUME IInv, NEW c \in Caller, Waiting(c), chan[c] \in closed
  PROVE  \A p \in Live : p > since[c]
<1>1. target[c] \in closed /\ since[c] <= target[c] /\ target[c] <= launched
  BY DEF IInv, CallOK, InStop, Waiting
<1>2. target[c] \notin Live
  BY <1>1 DEF IInv, History, Live
<1>3. \A p \in Live : p = launched
  BY DEF IInv, LiveIsCmd, Live, Proc, Nil
<1>4. since[c] \in Int /\ target[c] \in Int /\ launched \in Int
  BY <1>1, LaunchAssumption DEF IInv, TypeOK, Proc, Nil
<1> QED
  BY <1>1, <1>2, <1>3, <1>4

(* The steps of a caller that read the manager at most. *)
Quiet(c) ==
  \/ ApplyEnds(c) \/ Signal(c) \/ SeesDone(c) \/ ContextEnds(c)
  \/ StopTimeout(c) \/ KillTimeout(c) \/ StartNoop(c)

LEMMA QuietInv ==
  ASSUME IInv, NEW c \in Caller, Quiet(c)
  PROVE  IInv'
<1>1. /\ UNCHANGED <<managerVars, launched, proc, closed, promoting>>
      /\ killed' \in {killed, killed \cup {target[c]}}
      /\ killed' # killed => pc[c] = "await"
  BY DEF Quiet, ApplyEnds, Signal, SeesDone, ContextEnds, StopTimeout,
         KillTimeout, StartNoop, processVars
<1>2. /\ UNCHANGED <<op, target, chan, since>>
      /\ \/ pc' = [pc EXCEPT ![c] = "idle"]
         \/ pc[c] = "applying" /\ op[c] = "applyReload" /\ pc' = [pc EXCEPT ![c] = "stop"]
         \/ pc[c] = "signal" /\ pc' = [pc EXCEPT ![c] = "await"]
         \/ pc[c] = "await" /\ pc' = [pc EXCEPT ![c] = "awaitKilled"]
         \/ /\ Waiting(c) /\ chan[c] \in closed /\ op[c] # "stop"
            /\ pc' = [pc EXCEPT ![c] = "start"]
      /\ outcome' \in {outcome, [outcome EXCEPT ![c] = "ok"], [outcome EXCEPT ![c] = "error"]}
  BY DEF Quiet, ApplyEnds, Signal, SeesDone, ContextEnds, StopTimeout,
         KillTimeout, StartNoop, StopReturnsOk, Goto, Return
<1>3. TypeOK'
  <2>1. pc' \in [Caller -> Control] /\ outcome' \in [Caller -> {"none", "ok", "error"}]
    BY <1>2 DEF IInv, TypeOK, Control
  <2>2. killed' \subseteq Proc
    BY <1>1 DEF IInv, TypeOK, CallOK, InStop
  <2> QED
    BY <1>1, <1>2, <2>1, <2>2 DEF IInv, TypeOK, managerVars
<1>4. Live' = Live
  BY <1>1 DEF Live
<1>5. CallOK(c)'
  <2>1. /\ op'[c] = op[c] /\ target'[c] = target[c] /\ chan'[c] = chan[c]
        /\ since'[c] = since[c] /\ launched' = launched
    BY <1>1, <1>2
  <2>2. pc'[c] = "idle" \/ pc'[c] = "stop" \/ pc'[c] \in InStop \/ pc'[c] = "start"
    BY <1>2 DEF IInv, TypeOK, InStop
  <2>3. CASE pc'[c] = "idle"
    BY <2>1, <2>3 DEF IInv, CallOK, InStop
  <2>4. CASE pc'[c] = "stop"
    BY <1>2, <2>1, <2>4 DEF IInv, CallOK, InStop, TypeOK
  <2>5. CASE pc'[c] \in InStop
    BY <1>2, <2>1, <2>5 DEF IInv, CallOK, InStop, TypeOK
  <2>6. CASE pc'[c] = "start"
    <3>1. Waiting(c) /\ chan[c] \in closed /\ op[c] # "stop"
      BY <1>2, <2>6 DEF IInv, TypeOK
    <3> QED
      BY <1>4, ClosedMeansGone, <2>1, <2>6, <3>1 DEF IInv, CallOK, InStop, Waiting
  <2> QED
    BY <2>2, <2>3, <2>4, <2>5, <2>6
<1> QED
  BY <1>1, <1>2, <1>3, <1>5, CallerStep DEF IInv, TypeOK

LEMMA StopNoopInv ==
  ASSUME IInv, NEW c \in Caller, StopNoop(c)
  PROVE  IInv'
<1> USE DEF StopNoop
<1>1. cmd = Nil
  BY DEF IInv, StatusMatchesCmd
<1>2. Live = {} /\ Live' = {}
  BY <1>1 DEF IInv, LiveIsCmd, Live, Proc, Nil, processVars
<1>3. /\ UNCHANGED <<op, target, chan, since>>
      /\ pc' = [pc EXCEPT ![c] = IF op[c] = "stop" THEN "idle" ELSE "start"]
      /\ outcome' \in {outcome, [outcome EXCEPT ![c] = "ok"]}
  BY DEF StopReturnsOk, Goto, Return
<1>4. TypeOK'
  BY <1>3 DEF IInv, TypeOK, Status, Control, processVars
<1>5. LiveIsCmd' /\ History'
  BY <1>2 DEF IInv, LiveIsCmd, History, processVars, Live
<1>6. StatusMatchesCmd' /\ PromotedByOwn'
  BY <1>1 DEF IInv, StatusMatchesCmd, PromotedByOwn
<1>7. ASSUME NEW d \in Caller PROVE CallOK(d)'
  BY <1>2, <1>3 DEF IInv, TypeOK, CallOK, InStop, processVars
<1> QED
  BY <1>4, <1>5, <1>6, <1>7 DEF IInv

LEMMA StopBeginInv ==
  ASSUME IInv, NEW c \in Caller, StopBegin(c)
  PROVE  IInv'
<1> USE DEF StopBegin
<1>1. cmd \in Proc /\ cmd = launched /\ done = cmd
  BY DEF IInv, TypeOK, LiveIsCmd
<1>2. Live' = Live
  BY DEF Live, processVars
<1>3. TypeOK'
  BY DEF IInv, TypeOK, Status, Control, processVars
<1>4. LiveIsCmd' /\ History'
  BY <1>2 DEF IInv, LiveIsCmd, History, processVars
<1>5. StatusMatchesCmd' /\ PromotedByOwn'
  BY DEF IInv, StatusMatchesCmd, PromotedByOwn
<1>6. ASSUME NEW d \in Caller PROVE CallOK(d)'
  <2>1. CASE d = c
    <3>1. pc'[c] = "signal" /\ target'[c] = cmd /\ chan'[c] = cmd
      BY <1>1 DEF IInv, TypeOK
    <3>2. since[c] <= launched /\ op[c] \in {"stop", "restart", "applyReload"}
      BY DEF IInv, CallOK
    <3> QED
      BY <1>1, <2>1, <3>1, <3>2, LaunchAssumption DEF CallOK, InStop, processVars, IInv, TypeOK
  <2>2. CASE d # c
    BY <1>2, <2>2 DEF IInv, TypeOK, CallOK, processVars
  <2> QED
    BY <2>1, <2>2
<1> QED
  BY <1>3, <1>4, <1>5, <1>6 DEF IInv

LEMMA StartFailsInv ==
  ASSUME IInv, NEW c \in Caller, StartFails(c)
  PROVE  IInv'
<1> USE DEF StartFails, Return
<1>1. cmd = Nil
  BY DEF AlreadyRunning, IInv, StatusMatchesCmd
<1>2. Live' = Live
  BY DEF Live, processVars
<1>3. TypeOK'
  BY DEF IInv, TypeOK, Status, Control, processVars
<1>4. LiveIsCmd' /\ History'
  BY <1>2 DEF IInv, LiveIsCmd, History, processVars
<1>5. StatusMatchesCmd' /\ PromotedByOwn'
  BY <1>1 DEF IInv, StatusMatchesCmd, PromotedByOwn
<1>6. ASSUME NEW d \in Caller PROVE CallOK(d)'
  BY <1>2 DEF IInv, TypeOK, CallOK, InStop, processVars
<1> QED
  BY <1>3, <1>4, <1>5, <1>6 DEF IInv

LEMMA LaunchInv ==
  ASSUME IInv, NEW c \in Caller, Launch(c)
  PROVE  IInv'
<1> DEFINE n == launched + 1
<1> USE DEF Launch, Return
<1>1. n \in Proc /\ launched \in Nat /\ n \in 0 .. MaxLaunch
  BY LaunchAssumption DEF IInv, TypeOK, Proc
<1>2. launched' = n /\ cmd' = n /\ done' = n /\ proc' = [proc EXCEPT ![n] = "alive"]
  OBVIOUS
<1>3. cmd = Nil
  BY DEF AlreadyRunning, IInv, StatusMatchesCmd
<1>4. Live = {}
  BY <1>3 DEF IInv, LiveIsCmd, Live, Proc, Nil
<1>5. Live' = {n}
  BY <1>1, <1>2, <1>4 DEF IInv, TypeOK, Live
<1>6. TypeOK'
  <2>1. stopRequested' \in BOOLEAN
    BY Zenon
  <2>2. /\ proc' \in [Proc -> ProcState] /\ promoting' \subseteq Proc
        /\ status' \in Status /\ launched' \in 0 .. MaxLaunch
    BY <1>1, <1>2 DEF IInv, TypeOK, ProcState, Status
  <2>3. pc' \in [Caller -> Control] /\ outcome' \in [Caller -> {"none", "ok", "error"}]
    BY DEF IInv, TypeOK, Control
  <2> QED
    BY <1>1, <1>2, <2>1, <2>2, <2>3 DEF IInv, TypeOK
<1>7. LiveIsCmd'
  BY <1>1, <1>2, <1>5 DEF LiveIsCmd, Nil
<1>8. History'
  <2>1. proc[n] = "unborn"
    BY <1>1 DEF IInv, History
  <2>2. \A p \in Proc : proc'[p] = "unborn" <=> p > n
    BY <1>1, <1>2 DEF IInv, TypeOK, History, Proc
  <2>3. \A p \in Proc : proc'[p] = "reaped" <=> proc[p] = "reaped"
    BY <1>1, <1>2, <2>1 DEF IInv, TypeOK
  <2> QED
    BY <1>2, <2>2, <2>3 DEF IInv, History
<1>9. StatusMatchesCmd' /\ PromotedByOwn'
  BY <1>1, <1>2 DEF StatusMatchesCmd, PromotedByOwn, Proc, Nil
<1>10. ASSUME NEW d \in Caller PROVE CallOK(d)'
  <2>1. since[d] <= launched /\ since[d] \in Nat /\ launched < n
    BY <1>1, LaunchAssumption DEF IInv, CallOK, TypeOK
  <2>2. \A p \in Live' : p > since[d]
    BY <1>1, <1>5, <2>1
  <2>3. pc'[d] = pc[d] \/ pc'[d] = "idle"
    BY DEF IInv, TypeOK
  <2>4. pc[d] \in InStop => target[d] <= n
    BY <1>1, <2>1 DEF IInv, CallOK, Proc
  <2>5. /\ op'[d] = op[d] /\ target'[d] = target[d] /\ chan'[d] = chan[d]
        /\ since'[d] = since[d] /\ launched' = n
    OBVIOUS
  <2>6. since'[d] <= launched'
    BY <1>1, <2>1, <2>5
  <2> HIDE DEF Launch, Return, n
  <2>7. CASE pc'[d] = "idle"
    BY <2>5, <2>6, <2>7 DEF CallOK, InStop
  <2>8. CASE pc'[d] = pc[d]
    BY <2>2, <2>4, <2>5, <2>6, <2>8 DEF IInv, CallOK
  <2> QED
    BY <2>3, <2>7, <2>8
<1> QED
  BY <1>6, <1>7, <1>8, <1>9, <1>10 DEF IInv

LEMMA ExitInv ==
  ASSUME IInv, NEW p \in Proc, Exit(p)
  PROVE  IInv'
<1>1. PICK e \in {"exitedOk", "exitedErr"} :
        proc[p] = "alive" /\ proc' = [proc EXCEPT ![p] = e]
  BY DEF Exit
<1>2. UNCHANGED <<managerVars, launched, killed, closed, promoting, callVars>>
  BY DEF Exit
<1>3. Live' = Live
  BY <1>1 DEF IInv, TypeOK, Live
<1>4. \A q \in Proc : /\ proc'[q] = "unborn" <=> proc[q] = "unborn"
                      /\ proc'[q] = "reaped" <=> proc[q] = "reaped"
  BY <1>1 DEF IInv, TypeOK
<1>5. TypeOK'
  <2>1. proc' \in [Proc -> ProcState]
    BY <1>1 DEF IInv, TypeOK, ProcState
  <2> QED
    BY <1>2, <2>1 DEF IInv, TypeOK, managerVars, callVars
<1>6. LiveIsCmd' /\ History'
  BY <1>2, <1>3, <1>4 DEF IInv, LiveIsCmd, History, managerVars
<1>7. StatusMatchesCmd' /\ PromotedByOwn'
  BY <1>2 DEF IInv, StatusMatchesCmd, PromotedByOwn, managerVars
<1>8. ASSUME NEW c \in Caller PROVE CallOK(c)'
  BY <1>2, <1>3 DEF IInv, CallOK, callVars
<1> QED
  BY <1>5, <1>6, <1>7, <1>8 DEF IInv

LEMMA ReapInv ==
  ASSUME IInv, NEW p \in Proc, Reap(p)
  PROVE  IInv'
<1> USE DEF Reap, ExitStatus, RestartCounts, Closes
<1>1. p \in Live /\ cmd = p /\ done = p /\ p # Nil
  BY DEF Live, IInv, LiveIsCmd, Proc, Nil
<1>2. Live' = {}
  BY <1>1 DEF IInv, TypeOK, LiveIsCmd, Live
<1>3. closed' = closed \cup {p} /\ proc' = [proc EXCEPT ![p] = "reaped"]
  BY <1>1
<1>4. TypeOK'
  <2>1. restarts' \in Nat /\ status' \in Status /\ stopRequested' \in BOOLEAN
    <3>1. stopRequested' \in BOOLEAN
      BY Zenon
    <3> QED
      BY <3>1 DEF IInv, TypeOK, Status
  <2>2. proc' \in [Proc -> ProcState] /\ closed' \subseteq Proc
    BY <1>3 DEF IInv, TypeOK, ProcState
  <2> QED
    BY <2>1, <2>2 DEF IInv, TypeOK, callVars
<1>5. LiveIsCmd'
  BY <1>2 DEF LiveIsCmd, Proc, Nil
<1>6. History'
  <2>1. \A q \in Proc : proc'[q] = IF q = p THEN "reaped" ELSE proc[q]
    BY <1>3 DEF IInv, TypeOK
  <2>2. proc[p] # "unborn"
    OBVIOUS
  <2> QED
    BY <1>3, <2>1, <2>2 DEF IInv, History
<1>7. StatusMatchesCmd' /\ PromotedByOwn'
  BY DEF StatusMatchesCmd, PromotedByOwn
<1>8. ASSUME NEW c \in Caller PROVE CallOK(c)'
  BY <1>2 DEF IInv, CallOK, callVars
<1> QED
  BY <1>4, <1>5, <1>6, <1>7, <1>8 DEF IInv

LEMMA PromoteInv ==
  ASSUME IInv, NEW p \in Proc, Promote(p)
  PROVE  IInv'
<1> USE DEF Promote
<1>1. Live' = Live
  BY DEF Live
<1>2. TypeOK'
  BY DEF IInv, TypeOK, Status, callVars
<1>3. LiveIsCmd' /\ History'
  BY <1>1 DEF IInv, LiveIsCmd, History
<1>4. StatusMatchesCmd' /\ PromotedByOwn'
  BY DEF IInv, StatusMatchesCmd, PromotedByOwn
<1>5. ASSUME NEW c \in Caller PROVE CallOK(c)'
  BY <1>1 DEF IInv, CallOK, callVars
<1> QED
  BY <1>2, <1>3, <1>4, <1>5 DEF IInv

LEMMA StutterInv == IInv /\ UNCHANGED vars => IInv'
<1> SUFFICES ASSUME IInv, UNCHANGED vars PROVE IInv'
  OBVIOUS
<1> USE DEF vars, managerVars, processVars, callVars
<1>1. TypeOK' /\ Live' = Live
  BY DEF IInv, TypeOK, Live
<1>2. LiveIsCmd' /\ History'
  BY <1>1 DEF IInv, LiveIsCmd, History
<1>3. StatusMatchesCmd' /\ PromotedByOwn'
  BY DEF IInv, StatusMatchesCmd, PromotedByOwn
<1>4. ASSUME NEW c \in Caller PROVE CallOK(c)'
  BY <1>1 DEF IInv, CallOK
<1> QED
  BY <1>1, <1>2, <1>3, <1>4 DEF IInv

-----------------------------------------------------------------------------
LEMMA NextInv == IInv /\ [Next]_vars => IInv'
<1> SUFFICES ASSUME IInv, [Next]_vars PROVE IInv'
  OBVIOUS
<1>1. ASSUME NEW c \in Caller, NEW o \in Operation, Call(c, o) PROVE IInv'
  BY <1>1, CallInv
<1>2. ASSUME NEW c \in Caller, Step(c) PROVE IInv'
  <2>1. CASE Quiet(c)
    BY <2>1, QuietInv
  <2>2. CASE StopNoop(c)
    BY <2>2, StopNoopInv
  <2>3. CASE StopBegin(c)
    BY <2>3, StopBeginInv
  <2>4. CASE StartFails(c)
    BY <2>4, StartFailsInv
  <2>5. CASE Launch(c)
    BY <2>5, LaunchInv
  <2> QED
    BY <1>2, <2>1, <2>2, <2>3, <2>4, <2>5 DEF Step, Quiet
<1>3. ASSUME NEW p \in Proc, Exit(p) \/ Reap(p) \/ Promote(p) PROVE IInv'
  BY <1>3, ExitInv, ReapInv, PromoteInv
<1>4. CASE UNCHANGED vars
  BY <1>4, StutterInv
<1> QED
  BY <1>1, <1>2, <1>3, <1>4 DEF Next

(* The manager, its processes and its callers always tell one story.         *)
THEOREM Invariance == Spec => []IInv
BY InitInv, NextInv, PTL DEF Spec

(* The state variables keep their types. *)
THEOREM TypeCorrect == Spec => []TypeOK
BY Invariance, PTL DEF IInv

(* However starts, stops, restarts and exits interleave, no second gateway   *)
(* process ever exists beside the one the manager knows.                     *)
THEOREM OneGateway == Spec => []SingleGateway
<1>1. IInv => SingleGateway
  BY DEF IInv, LiveIsCmd, SingleGateway, Live
<1> QED
  BY <1>1, Invariance, PTL

(* A status never claims a gateway that is not there, nor hides one.         *)
THEOREM StatusIsTrue == Spec => [](StatusMatchesCmd /\ ReadyMeansGateway)
<1>1. IInv => StatusMatchesCmd /\ ReadyMeansGateway
  <2> SUFFICES ASSUME IInv, Readyz PROVE cmd \in Live
    BY DEF IInv, ReadyMeansGateway
  <2>1. cmd \in Proc
    BY DEF IInv, TypeOK, StatusMatchesCmd, Readyz
  <2> QED
    BY <2>1 DEF IInv, LiveIsCmd
<1> QED
  BY <1>1, Invariance, PTL

(* No caller of Stop blocks on a channel that nobody will close. *)
THEOREM WaitersAreWoken == Spec => []WaiterIsWoken
<1>1. IInv => WaiterIsWoken
  <2> SUFFICES ASSUME IInv, NEW c \in Caller, Waiting(c)
               PROVE  chan[c] \in closed \cup {done}
    BY DEF WaiterIsWoken
  <2>1. target[c] \in Proc /\ target[c] <= launched /\ chan[c] = target[c]
    BY DEF IInv, CallOK, InStop, Waiting
  <2>2. proc[target[c]] # "unborn"
    BY <2>1, LaunchAssumption DEF IInv, TypeOK, History, Proc
  <2>3. target[c] \in Live \/ target[c] \in closed
    BY <2>1, <2>2 DEF IInv, TypeOK, ProcState, History, Live
  <2> QED
    BY <2>1, <2>3 DEF IInv, LiveIsCmd
<1> QED
  BY <1>1, Invariance, PTL

(* A process is reported as running only on its own promoter's word.         *)
THEOREM OwnPromoter == Spec => []PromotedByOwn
BY Invariance, PTL DEF IInv

-----------------------------------------------------------------------------
(* The only steps that end a call with nil, and what holds of each. *)
LEMMA OkSteps ==
  ASSUME IInv, IInv', Next, NEW c \in Caller, Returns(c, "ok")
  PROVE  /\ op' = op /\ since' = since
         /\ \/ op[c] = "apply" /\ Live' = Live /\ launched' = launched
            \/ /\ op[c] = "stop" /\ Live' = Live /\ launched' = launched
               /\ \A p \in Live : p > since[c]
            \/ /\ op[c] \in {"start", "restart", "applyReload"}
               /\ op[c] # "start" => \A p \in Live : p > since[c]
               /\ cmd' # Nil
               /\ \/ Live' = Live /\ launched' = launched
                  \/ /\ Live = {} /\ launched < MaxLaunch
                     /\ launched' = launched + 1 /\ Live' = {launched'}
               /\ cmd' \in Live'
<1>1. pc[c] # "idle" /\ pc'[c] = "idle" /\ outcome'[c] = "ok"
  BY DEF Returns
<1>2. \A d \in Caller, o \in Operation : ~Call(d, o)
  BY <1>1 DEF Call, IInv, TypeOK
<1>3. \A p \in Proc : ~(Exit(p) \/ Reap(p) \/ Promote(p))
  BY <1>1 DEF Exit, Reap, Promote, callVars
<1>4. PICK d \in Caller : Step(d)
  BY <1>2, <1>3 DEF Next
<1>5. UNCHANGED <<op, since>>
  BY <1>4 DEF Step, ApplyEnds, StopNoop, StopBegin, Signal, SeesDone, ContextEnds,
              StopTimeout, KillTimeout, StartNoop, StartFails, Launch,
              StopReturnsOk, Goto, Return
<1>6. d = c
  BY <1>1, <1>4 DEF Step, ApplyEnds, StopNoop, StopBegin, Signal, SeesDone, ContextEnds,
              StopTimeout, KillTimeout, StartNoop, StartFails, Launch,
              StopReturnsOk, Goto, Return, IInv, TypeOK
<1>7. \/ ApplyEnds(c) \/ StopNoop(c) \/ SeesDone(c) \/ StartNoop(c) \/ Launch(c)
  BY <1>1, <1>4, <1>6 DEF Step, StopBegin, Signal, ContextEnds, StopTimeout,
              KillTimeout, StartFails, Goto, Return, IInv, TypeOK, Control
<1>8. CASE ApplyEnds(c)
  <2>1. op[c] = "apply"
    BY <1>1, <1>8 DEF ApplyEnds, Return, Goto, IInv, TypeOK
  <2>2. Live' = Live /\ launched' = launched
    BY <1>8 DEF ApplyEnds, processVars, Live
  <2> QED
    BY <1>5, <2>1, <2>2
<1>9. CASE StopNoop(c)
  <2>1. op[c] = "stop"
    BY <1>1, <1>9 DEF StopNoop, StopReturnsOk, Goto, IInv, TypeOK
  <2>2. Live' = Live /\ launched' = launched
    BY <1>9 DEF StopNoop, processVars, Live
  <2>3. Live = {}
    BY <1>9 DEF StopNoop, IInv, StatusMatchesCmd, LiveIsCmd, Live, Proc, Nil
  <2> QED
    BY <1>5, <2>1, <2>2, <2>3
<1>10. CASE SeesDone(c)
  <2>1. op[c] = "stop"
    BY <1>1, <1>10 DEF SeesDone, StopReturnsOk, Goto, IInv, TypeOK
  <2>2. Live' = Live /\ launched' = launched
    BY <1>10 DEF SeesDone, processVars, Live
  <2>3. \A p \in Live : p > since[c]
    BY <1>10, ClosedMeansGone DEF SeesDone
  <2> QED
    BY <1>5, <2>1, <2>2, <2>3
<1>11. CASE StartNoop(c)
  <2>1. pc[c] = "start" /\ cmd # Nil
    BY <1>11 DEF StartNoop, AlreadyRunning
  <2>2. Live' = Live /\ launched' = launched /\ cmd' = cmd
    BY <1>11 DEF StartNoop, managerVars, processVars, Live
  <2>3. cmd \in Live
    BY <2>1 DEF IInv, TypeOK, LiveIsCmd
  <2> QED
    BY <1>5, <2>1, <2>2, <2>3 DEF IInv, CallOK
<1>12. CASE Launch(c)
  <2>1. pc[c] = "start" /\ launched < MaxLaunch /\ launched' = launched + 1 /\ cmd' = launched'
    BY <1>12 DEF Launch
  <2>2. cmd' \in Proc /\ cmd' # Nil
    BY <2>1, LaunchAssumption DEF IInv, TypeOK, Proc, Nil
  <2>3. Live' = {cmd'} /\ cmd' \in Live'
    BY <2>2 DEF IInv, LiveIsCmd, Live
  <2>4. Live = {}
    BY <1>12 DEF Launch, AlreadyRunning, IInv, StatusMatchesCmd, LiveIsCmd, Live, Proc, Nil
  <2> QED
    BY <1>5, <2>1, <2>2, <2>3, <2>4 DEF IInv, CallOK
<1> QED
  BY <1>7, <1>8, <1>9, <1>10, <1>11, <1>12

(* A Stop that succeeds leaves no gateway older than itself, whatever other  *)
(* callers start in the meantime.                                            *)
THEOREM StoppedIsGone == Spec => StopMeansGone
<1>1. ASSUME IInv, IInv', [Next]_vars PROVE [StopLeavesNone]_vars
  <2> SUFFICES ASSUME Next, NEW c \in Caller, Returns(c, "ok"),
                      op[c] \in {"stop", "restart", "applyReload"}, NEW p \in Live'
               PROVE  p > since[c]
    BY <1>1 DEF StopLeavesNone
  <2>1. since[c] <= launched /\ since[c] \in Nat /\ launched \in Nat
    BY <1>1, LaunchAssumption DEF IInv, CallOK, TypeOK
  <2>2. \/ Live' = Live /\ \A q \in Live : q > since[c]
        \/ launched' = launched + 1 /\ Live' = {launched'}
    BY <1>1, OkSteps
  <2> QED
    BY <2>1, <2>2
<1> QED
  BY <1>1, Invariance, PTL DEF Spec, StopMeansGone

(* A Restart that succeeds leaves a gateway launched after it was called: a  *)
(* configuration written before the call is one the gateway has read.        *)
THEOREM RestartedIsFresh == Spec => RestartMeansFresh
<1>1. ASSUME IInv, IInv', [Next]_vars PROVE [RestartLeavesFresh]_vars
  <2> SUFFICES ASSUME Next, NEW c \in Caller, Returns(c, "ok"),
                      op[c] \in {"restart", "applyReload"}
               PROVE  cmd' \in Live' /\ cmd' > since[c]
    BY <1>1 DEF RestartLeavesFresh
  <2>1. since[c] <= launched /\ since[c] \in Nat /\ launched \in Nat
    BY <1>1, LaunchAssumption DEF IInv, CallOK, TypeOK
  <2>2. /\ cmd' \in Live'
        /\ \/ Live' = Live /\ \A q \in Live : q > since[c]
           \/ launched' = launched + 1 /\ Live' = {launched'}
    BY <1>1, OkSteps
  <2> QED
    BY <2>1, <2>2
<1> QED
  BY <1>1, Invariance, PTL DEF Spec, RestartMeansFresh

-----------------------------------------------------------------------------
(* The refinement of GatewayLifecycle. *)

calling == {c \in Caller : pc[c] # "idle"}

LEMMA InitRefines == Init => Lifecycle!Init
<1> SUFFICES ASSUME Init PROVE Lifecycle!Init
  OBVIOUS
<1>1. Live = {}
  BY DEF Init, Live
<1>2. {c \in Caller : pc[c] # "idle"} = {Boot}
  BY BootAssumption DEF Init
<1> QED
  BY <1>1, <1>2 DEF Init, Lifecycle!Init

LEMMA OkRefines ==
  ASSUME IInv, IInv', Next, NEW c \in Caller, Returns(c, "ok"),
         calling' = calling \ {c}, outcome' = [outcome EXCEPT ![c] = "ok"]
  PROVE  Lifecycle!Next
<1>1. c \in calling
  BY DEF Returns, calling
<1>2. Lifecycle!Answer(c, "ok")
  BY <1>1, OkSteps DEF Lifecycle!Answer, calling
<1>3. Lifecycle!Finish(c)
  <2>1. CASE op[c] = "apply"
    BY <1>2, <2>1, OkSteps DEF Lifecycle!Finish, Lifecycle!ApplyOk
  <2>2. CASE op[c] = "stop"
    BY <1>2, <2>2, OkSteps
    DEF Lifecycle!Finish, Lifecycle!StopOk, Lifecycle!OlderGone
  <2>3. CASE op[c] \in {"start", "restart", "applyReload"}
    <3>1. \/ Live # {} /\ Live' = Live /\ launched' = launched
          \/ Lifecycle!LaunchOne
      BY <2>3, OkSteps DEF Lifecycle!LaunchOne
    <3>2. op[c] # "start" => Lifecycle!OlderGone(c)
      BY <2>3, OkSteps DEF Lifecycle!OlderGone
    <3> QED
      BY <1>2, <2>3, <3>1, <3>2 DEF Lifecycle!Finish, Lifecycle!StartOk
  <2> QED
    BY <2>1, <2>2, <2>3 DEF IInv, TypeOK, Operation
<1> QED
  BY <1>3 DEF Lifecycle!Next

LEMMA CallRefines ==
  ASSUME IInv, NEW c \in Caller, NEW o \in Operation, Call(c, o)
  PROVE  Lifecycle!Next
<1>1. Live' = Live /\ launched' = launched
  BY DEF Call, processVars, Live
<1>2. c \notin calling /\ o \in Ops[c]
  BY DEF Call, calling
<1>3. calling' = calling \cup {c}
  BY DEF Call, calling, FirstLabel, IInv, TypeOK
<1>4. Lifecycle!Begin(c, o)
  BY <1>1, <1>2, <1>3 DEF Call, Lifecycle!Begin, calling
<1> QED
  BY <1>4 DEF Lifecycle!Next, Lifecycle!Operation, Operation

(* A step of a caller either stays inside its call or ends it.               *)
LEMMA StepKinds ==
  ASSUME IInv, NEW c \in Caller, Step(c)
  PROVE  /\ op' = op /\ since' = since
         /\ \/ /\ outcome' = outcome /\ calling' = calling
               /\ Live' = Live /\ launched' = launched
            \/ /\ outcome' = [outcome EXCEPT ![c] = "error"]
               /\ calling' = calling \ {c} /\ c \in calling
               /\ Live' = Live /\ launched' = launched
            \/ /\ outcome' = [outcome EXCEPT ![c] = "ok"]
               /\ calling' = calling \ {c} /\ Returns(c, "ok")
<1>1. op' = op /\ since' = since
  BY DEF Step, ApplyEnds, StopNoop, StopBegin, Signal, SeesDone, ContextEnds,
         StopTimeout, KillTimeout, StartNoop, StartFails, Launch,
         StopReturnsOk, Goto, Return
<1>2. pc[c] # "idle"
  BY DEF Step, ApplyEnds, StopNoop, StopBegin, Signal, SeesDone, ContextEnds,
         StopTimeout, KillTimeout, StartNoop, StartFails, Launch, Waiting
<1>3. ~Launch(c) => Live' = Live /\ launched' = launched
  BY DEF Step, ApplyEnds, StopNoop, StopBegin, Signal, SeesDone, ContextEnds,
         StopTimeout, KillTimeout, StartNoop, StartFails, Live, processVars
<1>4. \/ Return(c, "ok")
      \/ Return(c, "error") /\ ~Launch(c)
      \/ /\ outcome' = outcome /\ ~Launch(c)
         /\ \E l \in Control \ {"idle"} : pc' = [pc EXCEPT ![c] = l]
  <2>1. ASSUME NEW l \in Control \ {"idle"}, Goto(c, l)
        PROVE  outcome' = outcome /\ \E k \in Control \ {"idle"} : pc' = [pc EXCEPT ![c] = k]
    BY <2>1 DEF Goto
  <2>2. CASE ApplyEnds(c)
    BY <2>1, <2>2 DEF ApplyEnds, Launch, Control
  <2>3. CASE StopNoop(c) \/ SeesDone(c)
    BY <2>1, <2>3 DEF StopNoop, SeesDone, StopReturnsOk, Launch, Control, Waiting
  <2>4. CASE StopBegin(c)
    BY <2>4 DEF StopBegin, Launch, Control
  <2>5. CASE Signal(c) \/ StopTimeout(c)
    BY <2>1, <2>5 DEF Signal, StopTimeout, Launch, Control
  <2>6. CASE ContextEnds(c) \/ KillTimeout(c)
    BY <2>6 DEF ContextEnds, KillTimeout, Launch, Waiting
  <2>7. CASE StartNoop(c) \/ StartFails(c) \/ Launch(c)
    BY <2>7 DEF StartNoop, StartFails, Launch
  <2> QED
    BY <2>2, <2>3, <2>4, <2>5, <2>6, <2>7 DEF Step
<1>5. ASSUME NEW r, Return(c, r)
      PROVE  /\ outcome' = [outcome EXCEPT ![c] = r] /\ calling' = calling \ {c}
             /\ pc'[c] = "idle" /\ c \in calling
  BY <1>2, <1>5 DEF Return, calling, IInv, TypeOK
<1>6. Return(c, "ok") => Returns(c, "ok")
  BY <1>2, <1>5 DEF Returns, Return, IInv, TypeOK
<1>7. ASSUME NEW l \in Control \ {"idle"}, pc' = [pc EXCEPT ![c] = l]
      PROVE  calling' = calling
  BY <1>2, <1>7 DEF calling, IInv, TypeOK
<1> QED
  BY <1>1, <1>3, <1>4, <1>5, <1>6, <1>7

LEMMA NextRefines ==
  ASSUME IInv, IInv', [Next]_vars
  PROVE  [Lifecycle!Next]_(Lifecycle!vars)
<1>1. ASSUME NEW c \in Caller, NEW o \in Operation, Call(c, o) PROVE Lifecycle!Next
  BY <1>1, CallRefines
<1>2. ASSUME NEW c \in Caller, Step(c)
      PROVE  Lifecycle!Next \/ UNCHANGED Lifecycle!vars
  <2>1. CASE outcome' = outcome /\ calling' = calling /\ Live' = Live /\ launched' = launched
    BY <1>2, <2>1, StepKinds DEF Lifecycle!vars, calling
  <2>2. CASE /\ outcome' = [outcome EXCEPT ![c] = "error"]
             /\ calling' = calling \ {c} /\ c \in calling
             /\ Live' = Live /\ launched' = launched
    <3>1. Lifecycle!Fail(c)
      BY <1>2, <2>2, StepKinds DEF Lifecycle!Fail, Lifecycle!Answer, calling
    <3> QED
      BY <3>1 DEF Lifecycle!Next, Lifecycle!Finish
  <2>3. CASE /\ outcome' = [outcome EXCEPT ![c] = "ok"]
             /\ calling' = calling \ {c} /\ Returns(c, "ok")
    <3>1. Next
      BY <1>2 DEF Next
    <3> QED
      BY <2>3, <3>1, OkRefines
  <2> QED
    BY <1>2, <2>1, <2>2, <2>3, StepKinds
<1>3. ASSUME NEW p \in Proc, Exit(p) \/ Promote(p)
      PROVE  UNCHANGED Lifecycle!vars
  <2>1. Live' = Live
    BY <1>3 DEF Exit, Promote, Live, IInv, TypeOK
  <2>2. UNCHANGED <<launched, pc, op, outcome, since>>
    BY <1>3 DEF Exit, Promote, callVars
  <2> QED
    BY <2>1, <2>2 DEF Lifecycle!vars
<1>4. ASSUME NEW p \in Proc, Reap(p)
      PROVE  Lifecycle!Next
  <2>1. p \in Live /\ Live' = Live \ {p}
    BY <1>4 DEF Reap, Live, IInv, TypeOK
  <2>2. UNCHANGED <<launched, pc, op, outcome, since>>
    BY <1>4 DEF Reap, callVars
  <2>3. Lifecycle!Vanish(p)
    BY <2>1, <2>2 DEF Lifecycle!Vanish
  <2> QED
    BY <2>1, <2>3 DEF Lifecycle!Next
<1>5. CASE UNCHANGED vars
  BY <1>5 DEF vars, processVars, callVars, Live, Lifecycle!vars
<1> QED
  BY <1>1, <1>2, <1>3, <1>4, <1>5 DEF Next

(* Every behaviour of the manager is one the abstract lifecycle allows.      *)
THEOREM RefinesLifecycle == Spec => ImplementsLifecycle
BY InitRefines, NextRefines, Invariance, PTL
DEF Spec, ImplementsLifecycle, Lifecycle!Spec
=============================================================================
