------------------------------ MODULE Supervisor ------------------------------
(***************************************************************************)
(* The goroutines of the agent and the session they share                  *)
(* (src/internal/supervisor/supervisor.go, src/internal/session/manager.go *)
(* and the token of src/internal/control/client.go).  Run starts the HTTP  *)
(* server and, the configuration prepared and the gateway started, the     *)
(* model guard; it obtains a session and starts loops that each tick, make *)
(* sure of a session, send a request and, when it is answered with 401 or  *)
(* 403, throw the session away; it ends when it is told to or when a       *)
(* goroutine fails.                                                        *)
(*                                                                         *)
(* A session token is what the control plane would say of it now: good or  *)
(* bad.  What the requests are about is modelled elsewhere; what the boot  *)
(* and the guard do is in ProcessManager and ConfigManager.  A definition  *)
(* Next does not use is a mistake an edit of the code could make.          *)
(***************************************************************************)
EXTENDS Integers, FiniteSets

CONSTANTS Loop,             \* heartbeatLoop, reportLoop, commandLoop, skillLoop
          Main,             \* the goroutine of Run, which also calls Ensure
          Clears,           \* loops that clear the session on a 401 or 403
          Unasked,          \* loops whose first request comes before any Ensure
          ErrCap,           \* the capacity of errCh
          RegisterRevokes,  \* whether registering ends earlier sessions
          MaxRevokes        \* bound: sessions revoked or run out on their own

ASSUME LoopAssumption ==
  /\ IsFiniteSet(Loop) /\ Main \notin Loop
  /\ Clears \subseteq Loop /\ Unasked \subseteq Loop
ASSUME CapAssumption == ErrCap \in Nat /\ ErrCap > Cardinality(Loop)
ASSUME RevokeAssumption == RegisterRevokes \in BOOLEAN /\ MaxRevokes \in Nat

Actor == Loop \cup {Main}
Token == {"none", "good", "bad"}

VARIABLES
  run,        \* Run: boot, select, drain (in wg.Wait), returned
  result,     \* what it returned
  signalled,  \* the agent got SIGTERM
  cancelled,  \* the context of the loops is done
  errs,       \* errors waiting in errCh
  wg,         \* the counter of Run's WaitGroup
  http,       \* the HTTP server's goroutine: serving, failed or done
  guard,      \* modelGuardLoop: off, at rest, working or done
  token,      \* the session token in the store
  expiring,   \* it has less than two minutes left
  pc,         \* pc[a]: where goroutine a is
  held,       \* held[a]: the token in its request or in the answer to it
  revokes

runVars == <<run, result, signalled, cancelled>>
sessionVars == <<token, expiring>>
actorVars == <<pc, held>>
goroutines == <<wg, http, guard>>
vars == <<runVars, errs, goroutines, sessionVars, actorVars, revokes>>

MainControl == {"prepare", "ensure", "registering", "registered", "backoff", "initial", "done"}
LoopControl == {"off", "rest", "ensure", "registering", "registered", "backoff",
                "send", "flight", "rejected", "fail", "done"}

TypeOK ==
  /\ run \in {"boot", "select", "drain", "returned"}
  /\ result \in {"none", "nil", "error"}
  /\ signalled \in BOOLEAN /\ cancelled \in BOOLEAN
  /\ errs \in 0 .. ErrCap
  /\ wg \in Int
  /\ http \in {"serving", "failed", "done"}
  /\ guard \in {"off", "rest", "working", "done"}
  /\ token \in Token /\ expiring \in BOOLEAN
  /\ pc \in [Actor -> MainControl \cup LoopControl]
  /\ pc[Main] \in MainControl /\ \A l \in Loop : pc[l] \in LoopControl
  /\ held \in [Actor -> Token]
  /\ revokes \in 0 .. MaxRevokes

(* A new or restarted agent: the store may hold a session of an earlier run. *)
Init ==
  /\ run = "boot" /\ result = "none"
  /\ signalled = FALSE /\ cancelled = FALSE
  /\ errs = 0 /\ wg = 1 /\ http = "serving" /\ guard = "off"
  /\ token \in Token /\ expiring = FALSE
  /\ pc = [a \in Actor |-> IF a = Main THEN "prepare" ELSE "off"]
  /\ held = [a \in Actor |-> "none"]
  /\ revokes = 0

Alive == run # "returned"       \* main has not gone on and exited

Goto(a, label) ==
  /\ Alive
  /\ pc' = [pc EXCEPT ![a] = label]

-----------------------------------------------------------------------------
(* session.Manager.Ensure and the retry loop of ensureSession. *)

(* Ensure returned a session: a loop goes on to its request, Run to what is  *)
(* left of the boot.                                                         *)
Ensured(a) == Goto(a, IF a = Main THEN "initial" ELSE "send")

EnsureValid(a) ==
  /\ pc[a] = "ensure"
  /\ token # "none" /\ ~expiring
  /\ Ensured(a)
  /\ UNCHANGED <<runVars, errs, goroutines, sessionVars, held, revokes>>

EnsureRegisters(a) ==
  /\ pc[a] = "ensure"
  /\ token = "none" \/ expiring
  /\ Goto(a, "registering")
  /\ UNCHANGED <<runVars, errs, goroutines, sessionVars, held, revokes>>

(* What a token is worth once the control plane has ended all sessions.      *)
Void(t) == IF t = "good" THEN "bad" ELSE t

EndSessions ==
  /\ token' = Void(token)
  /\ held' = [a \in Actor |-> Void(held[a])]

(* The control plane registers the agent; the answer may get lost, and does  *)
(* when the context is done.                                                 *)
Issue(a) ==
  /\ pc[a] = "registering"
  /\ \E answered \in {TRUE, FALSE} :
       /\ answered => ~cancelled
       /\ Goto(a, IF answered THEN "registered" ELSE "backoff")
       /\ token' = IF RegisterRevokes THEN Void(token) ELSE token
       /\ held' = [b \in Actor |->
                     IF b = a /\ answered THEN "good"
                     ELSE IF RegisterRevokes THEN Void(held[b]) ELSE held[b]]
  /\ UNCHANGED <<runVars, errs, goroutines, expiring, revokes>>

RegisterFails(a) ==
  /\ pc[a] = "registering"
  /\ Goto(a, "backoff")
  /\ UNCHANGED <<runVars, errs, goroutines, sessionVars, held, revokes>>

(* The answer is stored, whatever was stored since the request; a store that *)
(* cannot be persisted makes Ensure fail although memory has the token.      *)
Store(a) ==
  /\ pc[a] = "registered"
  /\ token' = held[a] /\ expiring' = FALSE
  /\ held' = [held EXCEPT ![a] = "none"]
  /\ Ensured(a) \/ Goto(a, "backoff")
  /\ UNCHANGED <<runVars, errs, goroutines, revokes>>

(* RegisterRetryInterval has passed. *)
Retry(a) ==
  /\ pc[a] = "backoff"
  /\ Goto(a, "ensure")
  /\ UNCHANGED <<runVars, errs, goroutines, sessionVars, held, revokes>>

(* The context is done: ensureSession returns its error.  Run returns it at  *)
(* once, whoever is at work, a loop hands it to errCh.                       *)
GiveUp(a) ==
  /\ pc[a] = "backoff"
  /\ cancelled
  /\ IF a = Main
     THEN Goto(a, "done") /\ run' = "returned" /\ result' = "error"
     ELSE Goto(a, "fail") /\ UNCHANGED <<run, result>>
  /\ UNCHANGED <<signalled, cancelled, errs, goroutines, sessionVars, held, revokes>>

-----------------------------------------------------------------------------
(* The loops. *)

Tick(l) ==
  /\ pc[l] = "rest"
  /\ Goto(l, "ensure")
  /\ UNCHANGED <<runVars, errs, goroutines, sessionVars, held, revokes>>

LoopEnds(l) ==
  /\ pc[l] = "rest"
  /\ cancelled
  /\ Goto(l, "done") /\ wg' = wg - 1
  /\ UNCHANGED <<runVars, errs, http, guard, sessionVars, held, revokes>>

(* doJSON takes the token when the request leaves, not when it was ensured.  *)
Send(l) ==
  /\ pc[l] = "send"
  /\ Goto(l, "flight")
  /\ held' = [held EXCEPT ![l] = token]
  /\ UNCHANGED <<runVars, errs, goroutines, sessionVars, revokes>>

Answered(l) ==
  /\ pc[l] = "flight"
  /\ ~cancelled
  /\ held[l] = "good"
  /\ Goto(l, "rest")
  /\ held' = [held EXCEPT ![l] = "none"]
  /\ UNCHANGED <<runVars, errs, goroutines, sessionVars, revokes>>

Rejected(l) ==
  /\ pc[l] = "flight"
  /\ ~cancelled
  /\ held[l] # "good"
  /\ Goto(l, IF l \in Clears THEN "rejected" ELSE "rest")
  /\ held' = [held EXCEPT ![l] = "none"]
  /\ UNCHANGED <<runVars, errs, goroutines, sessionVars, revokes>>

RequestFails(l) ==
  /\ pc[l] = "flight"
  /\ Goto(l, "rest")
  /\ held' = [held EXCEPT ![l] = "none"]
  /\ UNCHANGED <<runVars, errs, goroutines, sessionVars, revokes>>

ForgetsToClear(l) ==
  /\ pc[l] = "rejected"
  /\ Goto(l, "rest")
  /\ UNCHANGED <<runVars, errs, goroutines, sessionVars, held, revokes>>

(* ShouldReRegister: the session is cleared, whichever it is by now.         *)
Clear(l) ==
  /\ pc[l] = "rejected"
  /\ token' = "none"
  /\ expiring' = FALSE
  /\ Goto(l, "rest")
  /\ UNCHANGED <<runVars, errs, goroutines, held, revokes>>

LoopFailsAndGoesOn(l) ==
  /\ pc[l] = "fail"
  /\ errs < ErrCap
  /\ errs' = errs + 1
  /\ Goto(l, "ensure")
  /\ UNCHANGED <<runVars, goroutines, sessionVars, held, revokes>>

(* errCh <- err; return.  A full channel would block the loop. *)
LoopFails(l) ==
  /\ pc[l] = "fail"
  /\ errs < ErrCap
  /\ errs' = errs + 1
  /\ Goto(l, "done") /\ wg' = wg - 1
  /\ UNCHANGED <<runVars, http, guard, sessionVars, held, revokes>>

-----------------------------------------------------------------------------
(* The goroutines of the HTTP server and of the model guard. *)

(* ListenAndServe or, on cancellation, Shutdown returns an error.            *)
HttpFails ==
  /\ Alive /\ http = "serving"
  /\ http' = "failed"
  /\ UNCHANGED <<runVars, errs, wg, guard, sessionVars, actorVars, revokes>>

HttpReports ==
  /\ Alive /\ http = "failed"
  /\ errs < ErrCap
  /\ errs' = errs + 1
  /\ http' = "done" /\ wg' = wg - 1
  /\ UNCHANGED <<runVars, guard, sessionVars, actorVars, revokes>>

HttpShutsDown ==
  /\ Alive /\ http = "serving" /\ cancelled
  /\ http' = "done" /\ wg' = wg - 1
  /\ UNCHANGED <<runVars, errs, guard, sessionVars, actorVars, revokes>>

(* EnforceModelBaseline and, where it has written, Restart.                  *)
GuardBegins ==
  /\ Alive /\ guard = "rest"
  /\ guard' = "working"
  /\ UNCHANGED <<runVars, errs, wg, http, sessionVars, actorVars, revokes>>

GuardReturns ==
  /\ Alive /\ guard = "working"
  /\ guard' = "rest"
  /\ UNCHANGED <<runVars, errs, wg, http, sessionVars, actorVars, revokes>>

GuardEnds ==
  /\ Alive /\ guard = "rest" /\ cancelled
  /\ guard' = "done" /\ wg' = wg - 1
  /\ UNCHANGED <<runVars, errs, http, sessionVars, actorVars, revokes>>

-----------------------------------------------------------------------------
(* Run. *)

(* The configuration is prepared and the gateway started; the guard starts.  *)
Prepares ==
  /\ pc[Main] = "prepare"
  /\ Goto(Main, "ensure")
  /\ guard' = "rest" /\ wg' = wg + 1
  /\ UNCHANGED <<runVars, errs, http, sessionVars, held, revokes>>

(* One of the three steps fails, and Run returns without waiting.            *)
PreparationFails ==
  /\ pc[Main] = "prepare"
  /\ Goto(Main, "done")
  /\ run' = "returned" /\ result' = "error" /\ cancelled' = TRUE
  /\ UNCHANGED <<signalled, errs, goroutines, sessionVars, held, revokes>>

(* The initial revision, whose outcome is ignored, then the loops, of which  *)
(* the skill loop begins with a request.                                     *)
LoopsStart ==
  /\ pc[Main] = "initial"
  /\ run' = "select"
  /\ pc' = [b \in Actor |-> IF b = Main THEN "done" ELSE IF b \in Unasked THEN "send" ELSE "rest"]

StartsLoopsOneShort ==
  /\ LoopsStart
  /\ wg' = wg + Cardinality(Loop) - 1
  /\ UNCHANGED <<result, signalled, cancelled, errs, http, guard, sessionVars, held, revokes>>

StartsLoops ==
  /\ LoopsStart
  /\ wg' = wg + Cardinality(Loop)
  /\ UNCHANGED <<result, signalled, cancelled, errs, http, guard, sessionVars, held, revokes>>

SelectsDone ==
  /\ run = "select" /\ cancelled
  /\ run' = "drain" /\ result' = "nil"
  /\ UNCHANGED <<signalled, cancelled, errs, goroutines, sessionVars, actorVars, revokes>>

SelectsErrorOnly ==
  /\ run = "select" /\ errs > 0
  /\ run' = "drain" /\ result' = "error"
  /\ errs' = errs - 1
  /\ UNCHANGED <<signalled, cancelled, goroutines, sessionVars, actorVars, revokes>>

SelectsError ==
  /\ run = "select" /\ errs > 0
  /\ run' = "drain" /\ result' = "error"
  /\ errs' = errs - 1
  /\ cancelled' = TRUE
  /\ UNCHANGED <<signalled, goroutines, sessionVars, actorVars, revokes>>

(* wg.Wait *)
Drains ==
  /\ run = "drain" /\ wg = 0
  /\ run' = "returned"
  /\ UNCHANGED <<result, signalled, cancelled, errs, goroutines, sessionVars, actorVars, revokes>>

-----------------------------------------------------------------------------
(* The environment. *)

Sigterm ==
  /\ run \in {"boot", "select"} /\ ~signalled
  /\ signalled' = TRUE /\ cancelled' = TRUE
  /\ UNCHANGED <<run, result, errs, goroutines, sessionVars, actorVars, revokes>>

(* The control plane ends the agent's sessions. *)
Revoke ==
  /\ Alive /\ revokes < MaxRevokes
  /\ revokes' = revokes + 1
  /\ EndSessions
  /\ UNCHANGED <<runVars, errs, goroutines, expiring, pc>>

(* The session comes within two minutes of its end. *)
Expire ==
  /\ Alive /\ revokes < MaxRevokes
  /\ revokes' = revokes + 1
  /\ token # "none" /\ ~expiring
  /\ expiring' = TRUE
  /\ UNCHANGED <<runVars, errs, goroutines, token, actorVars>>

Session(a) ==
  \/ EnsureValid(a) \/ EnsureRegisters(a) \/ Issue(a) \/ RegisterFails(a)
  \/ Store(a) \/ Retry(a) \/ GiveUp(a)
LoopStep(l) ==
  \/ Tick(l) \/ LoopEnds(l) \/ Send(l) \/ Answered(l) \/ Rejected(l)
  \/ RequestFails(l) \/ Clear(l) \/ LoopFails(l)
HttpStep == HttpFails \/ HttpReports \/ HttpShutsDown
GuardStep == GuardBegins \/ GuardReturns \/ GuardEnds
RunStep ==
  Prepares \/ PreparationFails \/ StartsLoops \/ SelectsDone \/ SelectsError \/ Drains

Next ==
  \/ \E a \in Actor : Session(a)
  \/ \E l \in Loop : LoopStep(l)
  \/ HttpStep \/ GuardStep
  \/ Sigterm \/ Revoke \/ Expire
  \/ RunStep

Spec == Init /\ [][Next]_vars

(* A goroutine sees that the context is done; the control plane answers it.  *)
Ends(a) == GiveUp(a) \/ (a \in Loop /\ LoopEnds(a))
IsAnswered(a) ==
  (Issue(a) /\ pc'[a] = "registered") \/ (a \in Loop /\ (Answered(a) \/ Rejected(a)))

(* Go runs the goroutines and select picks among ready cases at random, so a *)
(* cancelled context is noticed in the end; a pass of the guard ends, its    *)
(* restart with its context; the control plane answers again and again.      *)
FairSpec ==
  /\ Spec
  /\ WF_vars(RunStep)
  /\ WF_vars(HttpReports \/ HttpShutsDown)
  /\ WF_vars(GuardReturns) /\ SF_vars(GuardEnds)
  /\ \A a \in Actor : WF_vars(Session(a)) /\ SF_vars(Ends(a)) /\ SF_vars(IsAnswered(a))
  /\ \A l \in Loop : WF_vars(LoopStep(l))
-----------------------------------------------------------------------------
(* Whatever fails, and however often, there is room in errCh for a goroutine *)
(* that has an error to hand over: none blocks there while Run waits for it. *)
NoSenderBlocks ==
  run # "returned" /\ (http = "failed" \/ \E l \in Loop : pc[l] = "fail")
    => errs < ErrCap

(* Run knows of its goroutines by a counter.  Whichever way it returns, and  *)
(* main exits, no loop is cut off in a request or a command; the guard is    *)
(* cut off in rewriting openclaw.json or restarting the gateway only when    *)
(* Run gives up on its first session because of a signal (supervisor.go:129).*)
OnlyGuardIsCutOff ==
  run = "returned" =>
    /\ \A l \in Loop : pc[l] \in {"off", "done"}
    /\ guard = "working" => signalled /\ result = "error" /\ \A l \in Loop : pc[l] = "off"

(* The agent ends when it is told to and when one of its goroutines fails.   *)
ShutdownCompletes == cancelled \/ errs > 0 ~> run = "returned"

(* Sessions that are revoked, run out or are thrown away by a late rejection *)
(* are replaced: the store holds a good one again and again.                 *)
SessionRecovers == []<>(token = "good" \/ cancelled \/ http # "serving")
=============================================================================
