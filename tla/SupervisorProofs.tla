--------------------------- MODULE SupervisorProofs ---------------------------
(***************************************************************************)
(* What holds for any set of loops, whichever of them clear the session    *)
(* and however often sessions are revoked, as long as errCh has one place  *)
(* more than there are loops: the typing invariant, that no goroutine ever *)
(* finds errCh full, and what is cut off when Run returns.                 *)
(***************************************************************************)
EXTENDS Supervisor, FiniteSetTheorems, TLAPS

(* The loops start when Run has a session; until then none of them runs, the *)
(* guard does not before the preparation, and only a signal has cancelled.   *)
BootInv ==
  /\ pc[Main] # "done" => run = "boot" /\ \A l \in Loop : pc[l] = "off"
  /\ pc[Main] = "prepare" => guard = "off"
  /\ run = "boot" /\ cancelled => signalled

Ended == {l \in Loop : pc[l] = "done"}
HttpEnded == IF http = "done" THEN 1 ELSE 0

(* Every goroutine sends at most one error, and ends with that. *)
ErrorsInv == errs <= Cardinality(Ended) + HttpEnded

(* The counter of the WaitGroup is the number of goroutines at work. *)
AtWork == {l \in Loop : pc[l] \notin {"off", "done"}}
HttpAtWork == IF http = "done" THEN 0 ELSE 1
GuardAtWork == IF guard \in {"off", "done"} THEN 0 ELSE 1
CountInv == wg = Cardinality(AtWork) + HttpAtWork + GuardAtWork

SInv == TypeOK /\ BootInv /\ ErrorsInv /\ CountInv /\ OnlyGuardIsCutOff

LEMMA GotoTypes ==
  ASSUME TypeOK, NEW a \in Actor, NEW label, Goto(a, label),
         IF a = Main THEN label \in MainControl ELSE label \in LoopControl
  PROVE  /\ pc' \in [Actor -> MainControl \cup LoopControl]
         /\ pc'[Main] \in MainControl /\ \A l \in Loop : pc'[l] \in LoopControl
BY LoopAssumption DEF Goto, TypeOK, Actor

LEMMA IssueTypes ==
  ASSUME TypeOK, NEW a \in Actor, Issue(a)
  PROVE  TypeOK'
<1>1. PICK answered \in {TRUE, FALSE} :
        /\ Goto(a, IF answered THEN "registered" ELSE "backoff")
        /\ token' = IF RegisterRevokes THEN Void(token) ELSE token
        /\ held' = [b \in Actor |->
                      IF b = a /\ answered THEN "good"
                      ELSE IF RegisterRevokes THEN Void(held[b]) ELSE held[b]]
  BY DEF Issue
<1>2. \A t \in Token : Void(t) \in Token
  BY DEF Token, Void
<1>3. token' \in Token
  BY <1>1, <1>2 DEF TypeOK
<1>4. held' \in [Actor -> Token]
  BY <1>1, <1>2 DEF TypeOK, Token
<1>5. /\ pc' \in [Actor -> MainControl \cup LoopControl]
      /\ pc'[Main] \in MainControl /\ \A l \in Loop : pc'[l] \in LoopControl
  BY <1>1, GotoTypes DEF MainControl, LoopControl
<1> QED
  BY <1>3, <1>4, <1>5 DEF Issue, TypeOK, runVars, goroutines

LEMMA SessionTypes ==
  ASSUME TypeOK, NEW a \in Actor, Session(a)
  PROVE  TypeOK'
<1>1. CASE EnsureValid(a)
  BY <1>1, GotoTypes DEF EnsureValid, Ensured, MainControl, LoopControl, TypeOK, runVars,
                         goroutines, sessionVars
<1>2. CASE EnsureRegisters(a)
  BY <1>2, GotoTypes DEF EnsureRegisters, MainControl, LoopControl, TypeOK, runVars,
                         goroutines, sessionVars
<1>3. CASE Issue(a)
  BY <1>3, IssueTypes
<1>4. CASE RegisterFails(a)
  BY <1>4, GotoTypes DEF RegisterFails, MainControl, LoopControl, TypeOK, runVars,
                         goroutines, sessionVars
<1>5. CASE Store(a)
  <2>1. token' \in Token /\ held' \in [Actor -> Token] /\ expiring' \in BOOLEAN
    BY <1>5 DEF Store, TypeOK, Token
  <2>2. /\ pc' \in [Actor -> MainControl \cup LoopControl]
        /\ pc'[Main] \in MainControl /\ \A l \in Loop : pc'[l] \in LoopControl
    BY <1>5, GotoTypes DEF Store, Ensured, MainControl, LoopControl
  <2> QED
    BY <1>5, <2>1, <2>2 DEF Store, TypeOK, runVars, goroutines
<1>6. CASE Retry(a)
  BY <1>6, GotoTypes DEF Retry, MainControl, LoopControl, TypeOK, runVars, goroutines, sessionVars
<1>7. CASE GiveUp(a)
  BY <1>7, GotoTypes, LoopAssumption
     DEF GiveUp, MainControl, LoopControl, TypeOK, goroutines, sessionVars
<1> QED
  BY <1>1, <1>2, <1>3, <1>4, <1>5, <1>6, <1>7 DEF Session

LEMMA LoopTypes ==
  ASSUME TypeOK, NEW l \in Loop, LoopStep(l)
  PROVE  TypeOK'
<1> l # Main /\ l \in Actor
  BY LoopAssumption DEF Actor
<1>1. /\ pc' \in [Actor -> MainControl \cup LoopControl]
      /\ pc'[Main] \in MainControl /\ \A k \in Loop : pc'[k] \in LoopControl
  <2>1. PICK label \in LoopControl : Goto(l, label)
    BY DEF LoopStep, Tick, LoopEnds, Send, Answered, Rejected, RequestFails, Clear, LoopFails,
           LoopControl
  <2> QED
    BY <2>1, GotoTypes
<1>2. CASE Tick(l) \/ LoopEnds(l)
  BY <1>1, <1>2 DEF Tick, LoopEnds, TypeOK, runVars, goroutines, sessionVars
<1>3. CASE Send(l) \/ Answered(l) \/ Rejected(l) \/ RequestFails(l)
  <2>1. held' \in [Actor -> Token]
    BY <1>3 DEF Send, Answered, Rejected, RequestFails, TypeOK, Token
  <2>2. UNCHANGED <<runVars, errs, goroutines, sessionVars, revokes>>
    BY <1>3 DEF Send, Answered, Rejected, RequestFails
  <2> QED
    BY <1>1, <2>1, <2>2 DEF TypeOK, runVars, goroutines, sessionVars
<1>4. CASE Clear(l)
  BY <1>1, <1>4 DEF Clear, TypeOK, Token, runVars, goroutines
<1>5. CASE LoopFails(l)
  BY <1>1, <1>5, CapAssumption DEF LoopFails, TypeOK, runVars, sessionVars
<1> QED
  BY <1>2, <1>3, <1>4, <1>5 DEF LoopStep

LEMMA CountType == Cardinality(Loop) \in Nat
BY LoopAssumption, FS_CardinalityType

LEMMA RunTypes ==
  ASSUME TypeOK, RunStep
  PROVE  TypeOK'
<1>1. CASE Prepares
  BY <1>1, GotoTypes DEF Prepares, MainControl, Actor, TypeOK, runVars, sessionVars
<1>2. CASE PreparationFails
  BY <1>2, GotoTypes DEF PreparationFails, MainControl, Actor, TypeOK, goroutines, sessionVars
<1>3. CASE StartsLoops
  <2>1. /\ pc' \in [Actor -> MainControl \cup LoopControl]
        /\ pc'[Main] \in MainControl /\ \A l \in Loop : pc'[l] \in LoopControl
    BY <1>3, LoopAssumption DEF StartsLoops, LoopsStart, MainControl, LoopControl, Actor
  <2> QED
    BY <1>3, <2>1, CountType DEF StartsLoops, LoopsStart, TypeOK, sessionVars
<1>4. CASE SelectsDone \/ SelectsError \/ Drains
  <2>1. /\ run' \in {"drain", "returned"} /\ result' \in {"none", "nil", "error"}
        /\ cancelled' \in BOOLEAN
    BY <1>4 DEF SelectsDone, SelectsError, Drains, TypeOK
  <2>2. errs' \in 0 .. ErrCap
    BY <1>4, CapAssumption DEF SelectsDone, SelectsError, Drains, TypeOK
  <2>3. UNCHANGED <<signalled, goroutines, sessionVars, actorVars, revokes>>
    BY <1>4 DEF SelectsDone, SelectsError, Drains
  <2> QED
    BY <2>1, <2>2, <2>3 DEF TypeOK, goroutines, sessionVars, actorVars
<1> QED
  BY <1>1, <1>2, <1>3, <1>4 DEF RunStep

LEMMA RestTypes ==
  ASSUME TypeOK, HttpStep \/ GuardStep \/ Sigterm \/ Revoke \/ Expire
  PROVE  TypeOK'
<1>1. CASE HttpFails \/ HttpShutsDown
  BY <1>1 DEF HttpFails, HttpShutsDown, TypeOK, runVars, sessionVars, actorVars
<1>2. CASE HttpReports
  BY <1>2, CapAssumption DEF HttpReports, TypeOK, runVars, sessionVars, actorVars
<1>3. CASE Sigterm
  BY <1>3 DEF Sigterm, TypeOK, goroutines, sessionVars, actorVars
<1>4. CASE Revoke
  <2>1. \A t \in Token : Void(t) \in Token
    BY DEF Token, Void
  <2>2. token' \in Token /\ held' \in [Actor -> Token]
    BY <1>4, <2>1 DEF Revoke, EndSessions, TypeOK
  <2>3. revokes' \in 0 .. MaxRevokes
    BY <1>4, RevokeAssumption DEF Revoke, TypeOK
  <2> QED
    BY <1>4, <2>2, <2>3 DEF Revoke, TypeOK, runVars, goroutines
<1>5. CASE Expire
  BY <1>5, RevokeAssumption DEF Expire, TypeOK, runVars, goroutines, actorVars
<1>6. CASE GuardStep
  BY <1>6 DEF GuardStep, GuardBegins, GuardReturns, GuardEnds, TypeOK, runVars, sessionVars, actorVars
<1> QED
  BY <1>1, <1>2, <1>3, <1>4, <1>5, <1>6 DEF HttpStep

LEMMA TypeOKStep ==
  ASSUME TypeOK, [Next]_vars
  PROVE  TypeOK'
<1>1. CASE UNCHANGED vars
  BY <1>1 DEF TypeOK, vars, runVars, goroutines, sessionVars, actorVars
<1>2. ASSUME NEW a \in Actor, Session(a) PROVE TypeOK'
  BY <1>2, SessionTypes
<1>3. ASSUME NEW l \in Loop, LoopStep(l) PROVE TypeOK'
  BY <1>3, LoopTypes
<1> QED
  BY <1>1, <1>2, <1>3, RunTypes, RestTypes DEF Next

LEMMA TypeOKInit == Init => TypeOK
<1> SUFFICES ASSUME Init PROVE TypeOK
  OBVIOUS
<1>1. errs \in 0 .. ErrCap /\ revokes \in 0 .. MaxRevokes
  BY CapAssumption, RevokeAssumption DEF Init
<1>2. /\ pc \in [Actor -> MainControl \cup LoopControl] /\ held \in [Actor -> Token]
      /\ pc[Main] \in MainControl /\ \A l \in Loop : pc[l] \in LoopControl
  BY LoopAssumption DEF Init, MainControl, LoopControl, Token, Actor
<1>3. /\ run = "boot" /\ result = "none" /\ signalled = FALSE /\ cancelled = FALSE
      /\ wg = 1 /\ http = "serving" /\ guard = "off" /\ token \in Token /\ expiring = FALSE
  BY DEF Init
<1>4. /\ run \in {"boot", "select", "drain", "returned"} /\ result \in {"none", "nil", "error"}
      /\ signalled \in BOOLEAN /\ cancelled \in BOOLEAN /\ expiring \in BOOLEAN
  BY <1>3
<1>5. /\ wg \in Int /\ http \in {"serving", "failed", "done"}
      /\ guard \in {"off", "rest", "working", "done"}
  BY <1>3
<1> QED
  BY <1>1, <1>2, <1>3, <1>4, <1>5 DEF TypeOK

(* The typing invariant, whatever the loops and the bounds.                  *)
THEOREM TypeCorrect == Spec => []TypeOK
  BY TypeOKInit, TypeOKStep, PTL DEF Spec

-----------------------------------------------------------------------------
(* Run and its loops. *)

SessionFrom == {"ensure", "registering", "registered", "backoff"}

(* Who takes a step of Ensure, and what it leaves of the others.             *)
LEMMA SessionMoves ==
  ASSUME TypeOK, NEW a \in Actor, Session(a)
  PROVE  /\ pc[a] \in SessionFrom /\ run # "returned"
         /\ UNCHANGED <<errs, goroutines, signalled, cancelled>>
         /\ \A b \in Actor \ {a} : pc'[b] = pc[b]
         /\ a # Main => pc'[a] \notin {"off", "done"}
         /\ a = Main => pc'[a] # "prepare"
         /\ \/ run' = run /\ pc'[a] # "done"
            \/ a = Main /\ run' = "returned" /\ result' = "error" /\ cancelled
<1>1. CASE EnsureValid(a) \/ EnsureRegisters(a) \/ Issue(a) \/ RegisterFails(a) \/ Retry(a)
  BY <1>1 DEF EnsureValid, Ensured, EnsureRegisters, Issue, RegisterFails, Retry, SessionFrom,
              Goto, Alive, TypeOK, runVars
<1>2. CASE Store(a)
  BY <1>2 DEF Store, Ensured, SessionFrom, Goto, Alive, TypeOK, runVars
<1>3. CASE GiveUp(a)
  BY <1>3 DEF GiveUp, SessionFrom, Goto, Alive, TypeOK
<1> QED
  BY <1>1, <1>2, <1>3 DEF Session

(* A loop's own step: it ends at most once, and with at most one error.      *)
LEMMA LoopMoves ==
  ASSUME TypeOK, NEW l \in Loop, LoopStep(l)
  PROVE  /\ pc[l] \notin {"off", "done"} /\ pc'[l] # "off" /\ run # "returned"
         /\ UNCHANGED <<runVars, http, guard>>
         /\ \A b \in Actor \ {l} : pc'[b] = pc[b]
         /\ errs' = errs \/ (errs' = errs + 1 /\ pc'[l] = "done")
         /\ wg' = IF pc'[l] = "done" THEN wg - 1 ELSE wg
<1> l \in Actor
  BY DEF Actor
<1>1. CASE Tick(l) \/ LoopEnds(l) \/ Send(l) \/ Answered(l)
  BY <1>1 DEF Tick, LoopEnds, Send, Answered, Goto, Alive, TypeOK, runVars, goroutines
<1>2. CASE Rejected(l) \/ RequestFails(l) \/ Clear(l) \/ LoopFails(l)
  BY <1>2 DEF Rejected, RequestFails, Clear, LoopFails, Goto, Alive, TypeOK, runVars, goroutines
<1> QED
  BY <1>1, <1>2 DEF LoopStep

LEMMA BootStep ==
  ASSUME SInv, [Next]_vars
  PROVE  BootInv'
<1> USE LoopAssumption DEF SInv, BootInv
<1>1. CASE UNCHANGED vars
  BY <1>1 DEF vars, runVars, goroutines, actorVars
<1>2. ASSUME NEW a \in Actor, Session(a) PROVE BootInv'
  <2>1. /\ pc[a] \in SessionFrom /\ run # "returned"
        /\ UNCHANGED <<guard, signalled, cancelled>>
        /\ \A b \in Actor \ {a} : pc'[b] = pc[b]
        /\ a = Main => pc'[a] # "prepare"
        /\ (run' = run /\ pc'[a] # "done") \/ (a = Main /\ run' = "returned")
    BY <1>2, SessionMoves DEF goroutines
  <2>2. CASE a = Main
    <3>1. \A l \in Loop : pc'[l] = pc[l]
      BY <2>1, <2>2 DEF Actor
    <3>2. run' = "returned" => pc'[Main] = "done"
      BY <1>2, <2>1, <2>2 DEF Session, EnsureValid, EnsureRegisters, Issue, RegisterFails, Store,
                              Retry, GiveUp, Goto, Ensured, TypeOK, runVars
    <3> QED
      BY <2>1, <2>2, <3>1, <3>2 DEF SessionFrom
  <2>3. CASE a # Main
    BY <2>1, <2>3 DEF SessionFrom, Actor
  <2> QED
    BY <2>2, <2>3
<1>3. ASSUME NEW l \in Loop, LoopStep(l) PROVE BootInv'
  BY <1>3, LoopMoves DEF Actor, runVars
<1>4. CASE HttpStep \/ Revoke \/ Expire
  BY <1>4 DEF HttpStep, HttpFails, HttpReports, HttpShutsDown, Revoke, Expire, runVars, goroutines,
              actorVars
<1>5. CASE Sigterm
  BY <1>5 DEF Sigterm, goroutines, actorVars
<1>6. CASE GuardStep
  BY <1>6 DEF GuardStep, GuardBegins, GuardReturns, GuardEnds, runVars, actorVars
<1>7. CASE Prepares \/ PreparationFails
  BY <1>7 DEF Prepares, PreparationFails, Goto, Actor, TypeOK, runVars
<1>8. CASE StartsLoops
  BY <1>8 DEF StartsLoops, LoopsStart, Actor
<1>9. CASE SelectsDone \/ SelectsError \/ Drains
  BY <1>9 DEF SelectsDone, SelectsError, Drains, goroutines, actorVars
<1> QED
  BY <1>1, <1>2, <1>3, <1>4, <1>5, <1>6, <1>7, <1>8, <1>9 DEF Next, RunStep

-----------------------------------------------------------------------------
(* errCh. *)

LEMMA EndedFinite == IsFiniteSet(Ended) /\ Cardinality(Ended) \in Nat
<1>1. IsFiniteSet(Ended)
  BY LoopAssumption, FS_Subset DEF Ended
<1> QED
  BY <1>1, FS_CardinalityType

LEMMA EndedGrows ==
  ASSUME \A l \in Loop : pc[l] = "done" => pc'[l] = "done"
  PROVE  Cardinality(Ended') \in Nat /\ Cardinality(Ended) <= Cardinality(Ended')
<1>1. Ended \subseteq Ended' /\ Ended' \subseteq Loop
  BY DEF Ended
<1>2. IsFiniteSet(Ended')
  BY <1>1, LoopAssumption, FS_Subset
<1> QED
  BY <1>1, <1>2, FS_Subset, FS_CardinalityType

LEMMA EndedByOne ==
  ASSUME TypeOK, NEW l \in Loop, pc[l] # "done", pc'[l] = "done",
         \A b \in Actor \ {l} : pc'[b] = pc[b]
  PROVE  Cardinality(Ended') = Cardinality(Ended) + 1
<1>1. Ended' = Ended \cup {l} /\ l \notin Ended
  BY DEF Ended, Actor
<1> QED
  BY <1>1, EndedFinite, FS_AddElement

LEMMA ErrorsStep ==
  ASSUME SInv, [Next]_vars
  PROVE  ErrorsInv'
<1> USE DEF SInv, ErrorsInv
<1>0. /\ Cardinality(Ended) \in Nat /\ errs \in Nat
      /\ HttpEnded \in {0, 1} /\ HttpEnded' \in {0, 1}
  BY EndedFinite, CapAssumption DEF TypeOK, HttpEnded
<1>1. ASSUME errs' <= errs, HttpEnded <= HttpEnded', errs' \in Nat,
             \A l \in Loop : pc[l] = "done" => pc'[l] = "done"
      PROVE  ErrorsInv'
  BY <1>0, <1>1, EndedGrows
<1>2. ASSUME UNCHANGED <<errs, http, pc>> PROVE ErrorsInv'
  BY <1>0, <1>1, <1>2 DEF HttpEnded
<1>3. ASSUME NEW a \in Actor, Session(a) PROVE ErrorsInv'
  <2>1. \A l \in Loop : pc[l] = "done" => pc'[l] = "done"
    BY <1>3, SessionMoves DEF SessionFrom, Actor
  <2>2. UNCHANGED <<errs, http>>
    BY <1>3, SessionMoves DEF goroutines
  <2> QED
    BY <1>0, <1>1, <2>1, <2>2 DEF HttpEnded
<1>4. ASSUME NEW l \in Loop, LoopStep(l) PROVE ErrorsInv'
  <2>1. /\ pc[l] # "done" /\ http' = http
        /\ \A b \in Actor \ {l} : pc'[b] = pc[b]
    BY <1>4, LoopMoves
  <2>2. \A m \in Loop : pc[m] = "done" => pc'[m] = "done"
    BY <2>1 DEF Actor
  <2>3. CASE errs' = errs
    BY <1>0, <1>1, <2>1, <2>2, <2>3 DEF HttpEnded
  <2>4. CASE errs' = errs + 1 /\ pc'[l] = "done"
    <3>1. Cardinality(Ended') = Cardinality(Ended) + 1
      BY <2>1, <2>4, EndedByOne
    <3> QED
      BY <1>0, <2>1, <2>4, <3>1 DEF HttpEnded
  <2> QED
    BY <1>4, LoopMoves, <2>3, <2>4
<1>5. CASE HttpReports
  <2>1. errs' = errs + 1 /\ pc' = pc /\ HttpEnded = 0 /\ HttpEnded' = 1
    BY <1>5 DEF HttpReports, HttpEnded, actorVars
  <2>2. Ended' = Ended
    BY <2>1 DEF Ended
  <2> QED
    BY <1>0, <2>1, <2>2
<1>6. CASE HttpFails \/ HttpShutsDown
  <2>1. errs' = errs /\ pc' = pc /\ HttpEnded <= HttpEnded'
    BY <1>6 DEF HttpFails, HttpShutsDown, HttpEnded, actorVars
  <2> QED
    BY <1>0, <1>1, <2>1
<1>7. CASE GuardStep \/ Sigterm \/ Revoke \/ Expire
  BY <1>2, <1>7 DEF GuardStep, GuardBegins, GuardReturns, GuardEnds, Sigterm, Revoke, Expire,
                    goroutines, actorVars
<1>8. CASE RunStep
  <2>1. errs' \in {errs, errs - 1} /\ errs' \in Nat /\ http' = http
    BY <1>0, <1>8 DEF RunStep, Prepares, PreparationFails, StartsLoops, SelectsDone, SelectsError,
                      Drains, goroutines
  <2>2. pc' = pc \/ \A l \in Loop : pc[l] # "done"
    BY <1>8 DEF RunStep, Prepares, PreparationFails, StartsLoops, LoopsStart, SelectsDone,
                SelectsError, Drains, actorVars, BootInv
  <2> QED
    BY <1>0, <1>1, <2>1, <2>2 DEF HttpEnded
<1>9. CASE UNCHANGED vars
  BY <1>2, <1>9 DEF vars, goroutines, actorVars
<1> QED
  BY <1>3, <1>4, <1>5, <1>6, <1>7, <1>8, <1>9 DEF Next, HttpStep

-----------------------------------------------------------------------------
(* The WaitGroup. *)

LEMMA AtWorkFinite == IsFiniteSet(AtWork) /\ Cardinality(AtWork) \in Nat
<1>1. IsFiniteSet(AtWork)
  BY LoopAssumption, FS_Subset DEF AtWork
<1> QED
  BY <1>1, FS_CardinalityType

LEMMA AtWorkLessOne ==
  ASSUME NEW l \in Loop, pc[l] \notin {"off", "done"}, pc'[l] = "done",
         \A b \in Actor \ {l} : pc'[b] = pc[b]
  PROVE  Cardinality(AtWork') = Cardinality(AtWork) - 1
<1>1. AtWork' = AtWork \ {l} /\ l \in AtWork
  BY DEF AtWork, Actor
<1> QED
  BY <1>1, AtWorkFinite, FS_RemoveElement

LEMMA CountStep ==
  ASSUME SInv, [Next]_vars
  PROVE  CountInv'
<1> USE DEF SInv, CountInv
<1>0. /\ Cardinality(AtWork) \in Nat /\ wg \in Int
      /\ HttpAtWork \in {0, 1} /\ GuardAtWork \in {0, 1}
  BY AtWorkFinite DEF TypeOK, HttpAtWork, GuardAtWork
<1>1. ASSUME UNCHANGED goroutines, AtWork' = AtWork PROVE CountInv'
  BY <1>1 DEF goroutines, HttpAtWork, GuardAtWork
<1>2. ASSUME UNCHANGED pc, wg' - wg = (HttpAtWork' - HttpAtWork) + (GuardAtWork' - GuardAtWork),
             wg' \in Int, HttpAtWork' \in {0, 1}, GuardAtWork' \in {0, 1}
      PROVE  CountInv'
  <2>1. AtWork' = AtWork
    BY <1>2 DEF AtWork
  <2> QED
    BY <1>0, <1>2, <2>1
<1>3. ASSUME NEW a \in Actor, Session(a) PROVE CountInv'
  <2>1. /\ pc[a] \in SessionFrom /\ UNCHANGED goroutines
        /\ \A b \in Actor \ {a} : pc'[b] = pc[b]
        /\ a # Main => pc'[a] \notin {"off", "done"}
    BY <1>3, SessionMoves
  <2>2. AtWork' = AtWork
    BY <2>1, LoopAssumption DEF AtWork, SessionFrom, Actor
  <2> QED
    BY <1>1, <2>1, <2>2
<1>4. ASSUME NEW l \in Loop, LoopStep(l) PROVE CountInv'
  <2>1. /\ pc[l] \notin {"off", "done"} /\ pc'[l] # "off" /\ UNCHANGED <<http, guard>>
        /\ \A b \in Actor \ {l} : pc'[b] = pc[b]
        /\ wg' = IF pc'[l] = "done" THEN wg - 1 ELSE wg
    BY <1>4, LoopMoves
  <2>2. HttpAtWork' = HttpAtWork /\ GuardAtWork' = GuardAtWork
    BY <2>1 DEF HttpAtWork, GuardAtWork
  <2>3. CASE pc'[l] = "done"
    BY <1>0, <2>1, <2>2, <2>3, AtWorkLessOne
  <2>4. CASE pc'[l] # "done"
    <3>1. AtWork' = AtWork
      BY <2>1, <2>4 DEF AtWork, Actor
    <3> QED
      BY <2>1, <2>2, <2>4, <3>1
  <2> QED
    BY <2>3, <2>4
<1>5. CASE HttpStep
  BY <1>0, <1>2, <1>5 DEF HttpStep, HttpFails, HttpReports, HttpShutsDown, HttpAtWork, GuardAtWork,
                          actorVars, TypeOK
<1>6. CASE GuardStep
  BY <1>0, <1>2, <1>6 DEF GuardStep, GuardBegins, GuardReturns, GuardEnds, HttpAtWork, GuardAtWork,
                          actorVars, TypeOK
<1>7. CASE Sigterm \/ Revoke \/ Expire \/ SelectsDone \/ SelectsError \/ Drains \/ UNCHANGED vars
  <2>1. UNCHANGED <<goroutines, pc>>
    BY <1>7 DEF Sigterm, Revoke, Expire, SelectsDone, SelectsError, Drains, vars, actorVars
  <2> QED
    BY <1>1, <2>1 DEF AtWork
<1>8. CASE Prepares \/ PreparationFails
  <2>1. \A l \in Loop : pc'[l] = pc[l]
    BY <1>8, LoopAssumption DEF Prepares, PreparationFails, Goto, Actor, TypeOK
  <2>2. AtWork' = AtWork
    BY <2>1 DEF AtWork
  <2>3. CASE Prepares
    <3>1. wg' = wg + 1 /\ HttpAtWork' = HttpAtWork /\ GuardAtWork = 0 /\ GuardAtWork' = 1
      BY <2>3 DEF Prepares, BootInv, HttpAtWork, GuardAtWork
    <3> QED
      BY <1>0, <2>2, <3>1
  <2>4. CASE PreparationFails
    BY <1>1, <2>2, <2>4 DEF PreparationFails
  <2> QED
    BY <1>8, <2>3, <2>4
<1>9. CASE StartsLoops
  <2>1. AtWork = {} /\ AtWork' = Loop
    BY <1>9, LoopAssumption DEF StartsLoops, LoopsStart, BootInv, AtWork, Actor
  <2>2. /\ wg' = wg + Cardinality(Loop)
        /\ HttpAtWork' = HttpAtWork /\ GuardAtWork' = GuardAtWork
    BY <1>9 DEF StartsLoops, HttpAtWork, GuardAtWork
  <2>3. Cardinality(AtWork) = 0 /\ Cardinality(AtWork') = Cardinality(Loop)
    BY <2>1, FS_EmptySet
  <2>4. wg = HttpAtWork + GuardAtWork
    BY <1>0, <2>3
  <2>5. CountInv' <=> wg' = Cardinality(AtWork') + HttpAtWork' + GuardAtWork'
    BY DEF CountInv
  <2> HIDE DEF HttpAtWork, GuardAtWork, AtWork
  <2> QED
    BY <1>0, <2>2, <2>3, <2>4, <2>5, CountType
<1> QED
  BY <1>3, <1>4, <1>5, <1>6, <1>7, <1>8, <1>9 DEF Next, RunStep

LEMMA CutOffStep ==
  ASSUME SInv, [Next]_vars
  PROVE  OnlyGuardIsCutOff'
<1> USE LoopAssumption DEF SInv, OnlyGuardIsCutOff
<1>1. ASSUME run' = run, run # "returned" PROVE OnlyGuardIsCutOff'
  BY <1>1
<1>2. CASE UNCHANGED vars
  BY <1>2 DEF vars, runVars, goroutines, actorVars
<1>3. ASSUME NEW a \in Actor, Session(a) PROVE OnlyGuardIsCutOff'
  <2>1. /\ pc[a] \in SessionFrom /\ run # "returned" /\ signalled' = signalled
        /\ \A b \in Actor \ {a} : pc'[b] = pc[b]
        /\ run' = run \/ (a = Main /\ run' = "returned" /\ result' = "error" /\ cancelled)
    BY <1>3, SessionMoves
  <2>2. CASE a = Main /\ run' = "returned" /\ result' = "error" /\ cancelled
    BY <2>1, <2>2 DEF BootInv, SessionFrom, Actor
  <2> QED
    BY <1>1, <2>1, <2>2
<1>4. ASSUME NEW l \in Loop, LoopStep(l) PROVE OnlyGuardIsCutOff'
  BY <1>1, <1>4, LoopMoves DEF runVars
<1>5. CASE HttpStep \/ GuardStep \/ Revoke \/ Expire
  BY <1>1, <1>5 DEF HttpStep, HttpFails, HttpReports, HttpShutsDown, GuardStep, GuardBegins,
                    GuardReturns, GuardEnds, Revoke, Expire, Alive, runVars
<1>6. CASE Sigterm \/ SelectsDone \/ SelectsError
  BY <1>6 DEF Sigterm, SelectsDone, SelectsError
<1>7. CASE Prepares \/ StartsLoops
  BY <1>7 DEF Prepares, StartsLoops, LoopsStart, Goto, Alive, runVars
<1>8. CASE PreparationFails
  BY <1>8 DEF PreparationFails, BootInv, Goto, goroutines, Actor, TypeOK
<1>9. CASE Drains
  <2>1. Cardinality(AtWork) = 0 /\ GuardAtWork = 0
    BY <1>9, AtWorkFinite DEF Drains, CountInv, HttpAtWork, GuardAtWork
  <2>2. AtWork = {}
    BY <2>1, AtWorkFinite, FS_EmptySet
  <2> QED
    BY <1>9, <2>1, <2>2 DEF Drains, AtWork, GuardAtWork, goroutines, actorVars
<1> QED
  BY <1>2, <1>3, <1>4, <1>5, <1>6, <1>7, <1>8, <1>9 DEF Next, RunStep

LEMMA SInvInit == Init => SInv
<1> SUFFICES ASSUME Init PROVE SInv
  OBVIOUS
<1>1. BootInv /\ OnlyGuardIsCutOff
  BY LoopAssumption DEF Init, BootInv, OnlyGuardIsCutOff, Actor
<1>2. ErrorsInv
  BY EndedFinite DEF Init, ErrorsInv, HttpEnded
<1>3. CountInv
  <2>1. AtWork = {}
    BY LoopAssumption DEF Init, AtWork, Actor
  <2> QED
    BY <2>1, FS_EmptySet DEF Init, CountInv, HttpAtWork, GuardAtWork
<1> QED
  BY <1>1, <1>2, <1>3, TypeOKInit DEF SInv

LEMMA SInvStep == SInv /\ [Next]_vars => SInv'
  BY TypeOKStep, BootStep, ErrorsStep, CountStep, CutOffStep DEF SInv

LEMMA SInvAlways == Spec => []SInv
  BY SInvInit, SInvStep, PTL DEF Spec

(* A sender that has not ended leaves a place for its error.                 *)
LEMMA RoomForOneMore == SInv => NoSenderBlocks
<1> SUFFICES ASSUME SInv, http = "failed" \/ \E l \in Loop : pc[l] = "fail"
             PROVE  errs < ErrCap
  BY DEF NoSenderBlocks
<1>0. /\ Cardinality(Ended) \in Nat /\ Cardinality(Loop) \in Nat
      /\ ErrCap \in Nat /\ errs \in Nat /\ ErrCap > Cardinality(Loop)
      /\ errs <= Cardinality(Ended) + HttpEnded
  BY EndedFinite, CapAssumption, LoopAssumption, FS_CardinalityType
     DEF SInv, TypeOK, ErrorsInv
<1>1. CASE http = "failed"
  <2>1. Cardinality(Ended) <= Cardinality(Loop)
    BY LoopAssumption, FS_Subset DEF Ended
  <2> QED
    BY <1>0, <1>1, <2>1 DEF HttpEnded
<1>2. ASSUME NEW l \in Loop, pc[l] = "fail" PROVE errs < ErrCap
  <2>1. Ended \subseteq Loop \ {l}
    BY <1>2 DEF Ended
  <2>2. IsFiniteSet(Loop \ {l}) /\ Cardinality(Loop \ {l}) = Cardinality(Loop) - 1
    BY LoopAssumption, FS_RemoveElement
  <2>3. Cardinality(Ended) <= Cardinality(Loop) - 1
    BY <2>1, <2>2, FS_Subset
  <2> QED
    BY <1>0, <2>3 DEF HttpEnded
<1> QED
  BY <1>1, <1>2

(* No goroutine ever finds errCh full: with a capacity of one more than there*)
(* are loops Run can wait for all of them, whatever fails and in whatever    *)
(* order.                                                                    *)
THEOREM SendersNeverBlock == Spec => []NoSenderBlocks
  BY SInvAlways, RoomForOneMore, PTL

(* Whichever way Run returns, no loop is cut off, and the guard at work only *)
(* by a signal that ends the wait for the first session.                     *)
THEOREM OnlyTheGuardIsCutOff == Spec => []OnlyGuardIsCutOff
<1>1. SInv => OnlyGuardIsCutOff
  BY DEF SInv
<1> QED
  BY <1>1, SInvAlways, PTL
=============================================================================
