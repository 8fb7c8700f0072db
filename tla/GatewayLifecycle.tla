--------------------------- MODULE GatewayLifecycle ---------------------------
(***************************************************************************)
(* What the process manager promises the rest of the agent, without its    *)
(* lock, channels, signals and statuses: there is never a second gateway   *)
(* process; a start that returns nil leaves a gateway; a stop that returns *)
(* nil leaves none that is older than the call; a restart does both.  An   *)
(* error promises nothing, and a gateway may vanish at any time.           *)
(***************************************************************************)
EXTENDS Integers

CONSTANTS Caller, Boot, Ops, MaxLaunch

Operation == {"start", "stop", "restart", "apply", "applyReload"}

VARIABLES
  live,       \* gateway processes that exist
  launched,   \* number of processes launched so far
  calling,    \* callers with a call in progress
  op,         \* op[c]: the operation c called last
  result,     \* result[c]: what it returned
  since       \* since[c]: the value of launched when it began

vars == <<live, launched, calling, op, result, since>>

Init ==
  /\ live = {} /\ launched = 0
  /\ calling = {Boot}
  /\ op = [c \in Caller |-> "start"]
  /\ result = [c \in Caller |-> IF c = Boot THEN "none" ELSE "ok"]
  /\ since = [c \in Caller |-> 0]

Begin(c, o) ==
  /\ c \notin calling
  /\ o \in Ops[c]
  /\ calling' = calling \cup {c}
  /\ op' = [op EXCEPT ![c] = o]
  /\ result' = [result EXCEPT ![c] = "none"]
  /\ since' = [since EXCEPT ![c] = launched]
  /\ UNCHANGED <<live, launched>>

Answer(c, r) ==
  /\ c \in calling
  /\ calling' = calling \ {c}
  /\ result' = [result EXCEPT ![c] = r]
  /\ UNCHANGED <<op, since>>

OlderGone(c) == \A p \in live : p > since[c]

(* The one step that creates a gateway also ends the call that asked for it. *)
LaunchOne ==
  /\ live = {}
  /\ launched < MaxLaunch
  /\ launched' = launched + 1
  /\ live' = {launched'}

StartOk(c) ==
  /\ op[c] \in {"start", "restart", "applyReload"}
  /\ op[c] # "start" => OlderGone(c)
  /\ \/ LaunchOne
     \/ live # {} /\ UNCHANGED <<live, launched>>
  /\ Answer(c, "ok")

StopOk(c) ==
  /\ op[c] = "stop"
  /\ OlderGone(c)
  /\ Answer(c, "ok")
  /\ UNCHANGED <<live, launched>>

(* A revision was applied without a reload: the gateway is left alone. *)
ApplyOk(c) ==
  /\ op[c] = "apply"
  /\ Answer(c, "ok")
  /\ UNCHANGED <<live, launched>>

Fail(c) ==
  /\ Answer(c, "error")
  /\ UNCHANGED <<live, launched>>

Vanish(p) ==
  /\ p \in live
  /\ live' = live \ {p}
  /\ UNCHANGED <<launched, calling, op, result, since>>

Finish(c) == StartOk(c) \/ StopOk(c) \/ ApplyOk(c) \/ Fail(c)

Next ==
  \/ \E c \in Caller : (\E o \in Operation : Begin(c, o)) \/ Finish(c)
  \/ \E p \in live : Vanish(p)

Spec == Init /\ [][Next]_vars
=============================================================================
