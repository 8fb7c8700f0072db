------------------------ MODULE CommandExecutorProofs ------------------------
(***************************************************************************)
(* Proofs about CommandExecutor for every set of commands of every type    *)
(* and any number of crashes.  Each safety property is the visible part of *)
(* an invariant that also speaks of the command in hand and of the reports *)
(* on the wire; the invariants need only the typing invariant, not each    *)
(* other.  The refinement of CommandDelivery needs two of them.            *)
(***************************************************************************)
EXTENDS CommandExecutor, TLAPS

Running == {"handle", "record", "finish", "await"}
Ended == {"record", "finish", "await"}

(* A success that is decided, on its way or known has been earned. *)
Earned ==
  /\ SucceededTookEffect
  /\ \A r \in wire : r[2] = "succeeded" => r[1] \in whole
  /\ pc \in Ended /\ outcome = "succeeded" => cmd \in whole
  /\ pc = "handle" => /\ stage <= Len(Todo)
                      /\ \A i \in 1 .. stage : Todo[i] \in taken

(* What runs, and what is reported, has been announced. *)
Announced ==
  /\ NothingUnannounced
  /\ pc \in Running => control[cmd] # "queued"
  /\ \A r \in wire : control[r[1]] # "queued"

(* An outcome that has left the agent is on record, or saving it failed. *)
Recorded ==
  /\ RecordedFirst
  /\ disk \subseteq memory
  /\ \A r \in wire : r[1] \in disk \cup unsaved
  /\ pc \in {"finish", "await"} => cmd \in disk \cup unsaved

(* A command carried out once is known to be finished, in hand or broken off. *)
Accounted ==
  /\ RepeatedOnlyIfBroken
  /\ \A c \in begun : c \in broken \/ Finished(c) \/ (pc \in Running /\ c = cmd)
  /\ pc = "start" /\ cmd \in begun => cmd \in broken

-----------------------------------------------------------------------------
(* No command has more than three stages. *)
LEMMA StagesType ==
  ASSUME NEW c \in Command
  PROVE  /\ Stages(CommandType[c]) \in Seq(CanSucceed \cup CanFail)
         /\ Len(Stages(CommandType[c])) \in 0 .. 3
<1>1. CommandType[c] \in Types
  BY CommandAssumption
<1>2. \A type \in Types :
        /\ Stages(type) \in Seq(CanSucceed \cup CanFail)
        /\ Len(Stages(type)) \in 0 .. 3
  <2> TAKE type \in Types
  <2> USE DEF Stages, CanSucceed, CanFail
  <2>1. CASE type = "process"
    BY <2>1, SMTT(20)
  <2>2. CASE type = "apply"
    BY <2>2, SMTT(20)
  <2>3. CASE type = "apply_reload"
    BY <2>3, SMTT(20)
  <2>4. CASE type = "skill"
    BY <2>4, SMTT(20)
  <2>5. CASE type = "risk_stop"
    BY <2>5, SMTT(20)
  <2>6. CASE type = "sync"
    BY <2>6, SMTT(20)
  <2>7. CASE type = "package"
    BY <2>7, SMTT(20)
  <2>8. CASE type = "query"
    BY <2>8, SMTT(20)
  <2>9. CASE type = "unsupported"
    BY <2>9, SMTT(20)
  <2> QED
    BY <2>1, <2>2, <2>3, <2>4, <2>5, <2>6, <2>7, <2>8, <2>9 DEF Types
<1> QED
  BY <1>1, <1>2

LEMMA TypeInit == Init => TypeOK
<1> SUFFICES ASSUME Init PROVE TypeOK
  OBVIOUS
<1>1. cancelled \in BOOLEAN
  BY Zenon DEF Init
<1> QED
  BY <1>1, CrashAssumption DEF Init, TypeOK, Status

LEMMA TypeStep == TypeOK /\ [Next]_vars => TypeOK'
<1> SUFFICES ASSUME TypeOK, [Next]_vars PROVE TypeOK'
  OBVIOUS
<1> USE DEF TypeOK, Status, Outcome, controlVars, loopVars, storeVars, endVars, history
<1>1. ASSUME NEW c \in Command, NextCommand(c) PROVE TypeOK'
  BY <1>1 DEF NextCommand
<1>2. CASE LoopEnds
  BY <1>2 DEF LoopEnds
<1>3. CASE StartAnswered
  BY <1>3 DEF StartAnswered, Announce
<1>4. CASE StartFails
  BY <1>4 DEF StartFails, Announce, ToPoll
<1>5. CASE StageDone
  <2>1. stage' \in 0 .. 3
    <3>1. cmd \in Command /\ stage \in 0 .. 3 /\ stage < Len(Todo) /\ stage' = stage + 1
      BY <1>5 DEF StageDone
    <3>2. Len(Todo) \in 0 .. 3
      BY <3>1, StagesType DEF Todo
    <3>3. \A m \in 0 .. 3, n \in 0 .. 3 : n < m => n + 1 \in 0 .. 3
      OBVIOUS
    <3> HIDE DEF TypeOK, Outcome, Status
    <3> QED
      BY <3>1, <3>2, <3>3
  <2> QED
    BY <1>5, <2>1 DEF StageDone
<1>6. CASE StageFails
  BY <1>6 DEF StageFails
<1>7. CASE Handled
  BY <1>7 DEF Handled
<1>8. CASE Record
  BY <1>8 DEF Record, Persisted
<1>9. CASE Finish
  <2>1. <<cmd, outcome>> \in Command \X Outcome
    BY <1>9 DEF Finish
  <2> QED
    BY <1>9, <2>1 DEF Finish
<1>10. CASE FinishFails
  BY <1>10 DEF FinishFails, ToPoll
<1>11. CASE Reported \/ Arrives
  BY <1>11 DEF Reported, Arrives, Learn, ToPoll
<1>12. CASE GetsLost \/ OthersSave \/ Sigterm
  BY <1>12 DEF GetsLost, OthersSave, Persisted, Sigterm
<1>13. CASE Restart
  <2>1. crashes' \in 0 .. MaxCrashes
    BY <1>13, CrashAssumption DEF Restart
  <2>2. broken' \subseteq Command /\ cancelled' \in BOOLEAN
    BY <1>13, Zenon DEF Restart
  <2> QED
    BY <1>13, <2>1, <2>2 DEF Restart, ToPoll
<1>14. CASE UNCHANGED vars
  BY <1>14 DEF vars
<1> QED
  BY <1>1, <1>2, <1>3, <1>4, <1>5, <1>6, <1>7, <1>8, <1>9, <1>10, <1>11, <1>12, <1>13, <1>14
  DEF Next, Execute, Environment
-----------------------------------------------------------------------------
LEMMA EarnedStep == TypeOK /\ Earned /\ [Next]_vars => Earned'
<1> SUFFICES ASSUME TypeOK, Earned, [Next]_vars PROVE Earned'
  OBVIOUS
<1> USE DEF Earned, SucceededTookEffect, Ended
<1>1. ASSUME NEW c \in Command, NextCommand(c) PROVE Earned'
  BY <1>1 DEF NextCommand, controlVars, history
<1>2. CASE LoopEnds
  BY <1>2 DEF LoopEnds, controlVars, history
<1>3. CASE StartAnswered
  <2>1. control' = [control EXCEPT ![cmd] = IF @ = "queued" THEN "started" ELSE @]
    BY <1>3 DEF StartAnswered, Announce
  <2>2. SucceededTookEffect'
    BY <1>3, <2>1 DEF StartAnswered, TypeOK
  <2>3. stage' = 0 /\ 0 <= Len(Todo')
    BY <1>3, StagesType DEF StartAnswered, Todo, TypeOK
  <2> QED
    BY <1>3, <2>2, <2>3 DEF StartAnswered
<1>4. CASE StartFails
  BY <1>4 DEF StartFails, Announce, ToPoll, TypeOK, history
<1>5. CASE StageDone
  <2>1. /\ stage \in 0 .. 3 /\ stage < Len(Todo) /\ stage' = stage + 1
        /\ taken' = taken \cup {Todo[stage + 1]} /\ Todo' = Todo
    BY <1>5 DEF StageDone, TypeOK, Todo
  <2>2. Len(Todo) \in 0 .. 3
    BY <1>5, StagesType DEF StageDone, TypeOK, Todo
  <2>3. stage' <= Len(Todo') /\ \A i \in 1 .. stage' : Todo'[i] \in taken'
    BY <1>5, <2>1, <2>2 DEF StageDone
  <2> QED
    BY <1>5, <2>3 DEF StageDone, controlVars
<1>6. CASE StageFails
  BY <1>6 DEF StageFails, controlVars
<1>7. CASE Handled
  <2>1. cmd \in whole'
    BY <1>7 DEF Handled
  <2> QED
    BY <1>7, <2>1 DEF Handled, controlVars
<1>8. CASE Record
  BY <1>8 DEF Record, controlVars, history
<1>9. CASE Finish
  BY <1>9 DEF Finish
<1>10. CASE FinishFails
  BY <1>10 DEF FinishFails, ToPoll, controlVars
<1>11. CASE Reported \/ Arrives
  <2>1. PICK r \in wire : Learn(r)
    BY <1>11 DEF Reported, Arrives, Learn
  <2>2. \A c \in Command : control'[c] \in {control[c], IF c = r[1] THEN r[2] ELSE control[c]}
    BY <2>1 DEF Learn, TypeOK
  <2>3. wire' \subseteq wire /\ whole' = whole
    BY <1>11, <2>1 DEF Learn, Reported, Arrives, history
  <2>4. SucceededTookEffect'
    BY <2>2, <2>3
  <2>5. pc' = "poll" \/ UNCHANGED <<loopVars, taken>>
    BY <1>11 DEF Reported, Arrives, ToPoll, history
  <2> QED
    BY <2>3, <2>4, <2>5 DEF loopVars, Todo
<1>12. CASE GetsLost \/ OthersSave \/ Sigterm
  BY <1>12 DEF GetsLost, OthersSave, Sigterm, controlVars, loopVars, history, Todo
<1>13. CASE Restart
  BY <1>13 DEF Restart, ToPoll, controlVars
<1>14. CASE UNCHANGED vars
  BY <1>14 DEF vars, controlVars, loopVars, history, Todo
<1> QED
  BY <1>1, <1>2, <1>3, <1>4, <1>5, <1>6, <1>7, <1>8, <1>9, <1>10, <1>11, <1>12, <1>13, <1>14
  DEF Next, Execute, Environment

LEMMA AnnouncedStep == TypeOK /\ Announced /\ [Next]_vars => Announced'
<1> SUFFICES ASSUME TypeOK, Announced, [Next]_vars PROVE Announced'
  OBVIOUS
<1> USE DEF Announced, NothingUnannounced, Running
<1>1. ASSUME NEW c \in Command, NextCommand(c) PROVE Announced'
  BY <1>1 DEF NextCommand, controlVars, history
<1>2. CASE LoopEnds
  BY <1>2 DEF LoopEnds, controlVars, history
<1>3. CASE StartAnswered \/ StartFails
  <2>1. \A c \in Command : control'[c] = "queued" => control[c] = "queued"
    BY <1>3 DEF StartAnswered, StartFails, Announce, TypeOK
  <2>2. StartAnswered => control'[cmd] # "queued"
    BY DEF StartAnswered, Announce, TypeOK
  <2>3. \A r \in wire' : control'[r[1]] # "queued"
    BY <1>3, <2>1 DEF StartAnswered, StartFails, TypeOK
  <2> QED
    BY <1>3, <2>1, <2>2, <2>3 DEF StartAnswered, StartFails, ToPoll, history, TypeOK
<1>4. CASE StageDone \/ StageFails \/ Handled
  BY <1>4 DEF StageDone, StageFails, Handled, controlVars
<1>5. CASE Record \/ Finish \/ FinishFails
  BY <1>5 DEF Record, Finish, FinishFails, ToPoll, controlVars, history
<1>6. CASE Reported \/ Arrives
  <2>1. PICK r \in wire : Learn(r)
    BY <1>6 DEF Reported, Arrives, Learn
  <2>2. \A c \in Command : control'[c] = "queued" => control[c] = "queued"
    BY <2>1 DEF Learn, TypeOK, Outcome
  <2>3. pc' = "poll" \/ UNCHANGED loopVars
    BY <1>6 DEF Reported, Arrives, ToPoll
  <2>4. touched' = touched /\ wire' \subseteq wire
    BY <1>6 DEF Reported, Arrives, Learn, history
  <2>5. \A m \in wire' : control'[m[1]] # "queued"
    BY <2>2, <2>4 DEF TypeOK
  <2> QED
    BY <2>2, <2>3, <2>4, <2>5 DEF loopVars, TypeOK
<1>7. CASE GetsLost \/ OthersSave \/ Sigterm \/ Restart
  BY <1>7 DEF GetsLost, OthersSave, Sigterm, Restart, ToPoll, controlVars, loopVars, history
<1>8. CASE UNCHANGED vars
  BY <1>8 DEF vars, controlVars, loopVars, history
<1> QED
  BY <1>1, <1>2, <1>3, <1>4, <1>5, <1>6, <1>7, <1>8 DEF Next, Execute, Environment

LEMMA RecordedStep == TypeOK /\ Recorded /\ [Next]_vars => Recorded'
<1> SUFFICES ASSUME TypeOK, Recorded, [Next]_vars PROVE Recorded'
  OBVIOUS
<1> USE DEF Recorded, RecordedFirst, Ended, Finished
<1>1. ASSUME NEW c \in Command, NextCommand(c) PROVE Recorded'
  BY <1>1 DEF NextCommand, controlVars, storeVars
<1>2. CASE LoopEnds
  BY <1>2 DEF LoopEnds, controlVars, storeVars
<1>3. CASE StartAnswered \/ StartFails
  <2>1. \A c \in Command : control'[c] \in Outcome => control[c] \in Outcome
    BY <1>3 DEF StartAnswered, StartFails, Announce, TypeOK, Outcome
  <2>2. wire' = wire /\ UNCHANGED storeVars
    BY <1>3 DEF StartAnswered, StartFails
  <2> QED
    BY <1>3, <2>1, <2>2 DEF StartAnswered, StartFails, ToPoll, storeVars
<1>4. CASE StageDone \/ StageFails \/ Handled
  BY <1>4 DEF StageDone, StageFails, Handled, controlVars, storeVars, Outcome
<1>5. CASE Record
  <2>1. cmd \in memory' /\ memory \subseteq memory'
    BY <1>5 DEF Record
  <2>2. /\ disk' \subseteq memory' /\ cmd \in disk' \cup unsaved'
        /\ disk \cup unsaved \subseteq disk' \cup unsaved'
    BY <1>5, <2>1 DEF Record, Persisted
  <2> QED
    BY <1>5, <2>2 DEF Record, controlVars
<1>6. CASE Finish
  BY <1>6 DEF Finish, storeVars
<1>7. CASE FinishFails
  BY <1>7 DEF FinishFails, ToPoll, controlVars, storeVars
<1>8. CASE Reported \/ Arrives
  <2>1. PICK r \in wire : Learn(r)
    BY <1>8 DEF Reported, Arrives, Learn
  <2>2. \A c \in Command : control'[c] \in Outcome => c = r[1] \/ control[c] \in Outcome
    BY <2>1 DEF Learn, TypeOK
  <2>3. wire' \subseteq wire /\ UNCHANGED storeVars
    BY <1>8, <2>1 DEF Learn, Reported, Arrives
  <2>4. pc' = "poll" \/ UNCHANGED loopVars
    BY <1>8 DEF Reported, Arrives, ToPoll
  <2> QED
    BY <2>2, <2>3, <2>4 DEF loopVars, storeVars
<1>9. CASE GetsLost \/ OthersSave \/ Sigterm
  BY <1>9 DEF GetsLost, OthersSave, Persisted, Sigterm, controlVars, loopVars, storeVars
<1>10. CASE Restart
  BY <1>10 DEF Restart, ToPoll, controlVars
<1>11. CASE UNCHANGED vars
  BY <1>11 DEF vars, controlVars, loopVars, storeVars
<1> QED
  BY <1>1, <1>2, <1>3, <1>4, <1>5, <1>6, <1>7, <1>8, <1>9, <1>10, <1>11
  DEF Next, Execute, Environment

LEMMA AccountedStep == TypeOK /\ Accounted /\ [Next]_vars => Accounted'
<1> SUFFICES ASSUME TypeOK, Accounted, [Next]_vars PROVE Accounted'
  OBVIOUS
<1> USE DEF Accounted, RepeatedOnlyIfBroken, Finished, Running
(* What has ended has ended for good. *)
<1>0. \A c \in Command : control[c] \in Outcome => control'[c] \in Outcome
  <2>1. CASE UNCHANGED control
    BY <2>1
  <2>2. CASE Announce
    BY <2>2 DEF Announce, TypeOK, Outcome
  <2>3. ASSUME NEW r \in wire, Learn(r) PROVE \A c \in Command : control[c] \in Outcome => control'[c] \in Outcome
    BY <2>3 DEF Learn, TypeOK
  <2> QED
    BY <2>1, <2>2, <2>3 DEF Next, Execute, Environment, NextCommand, LoopEnds, StartAnswered, StartFails,
       StageDone, StageFails, Handled, Record, Finish, FinishFails, Reported, Arrives, GetsLost,
       OthersSave, Sigterm, Restart, vars, controlVars, Learn
<1>1. ASSUME NEW c \in Command, NextCommand(c) PROVE Accounted'
  BY <1>1 DEF NextCommand, controlVars, history
<1>2. CASE LoopEnds
  BY <1>2 DEF LoopEnds, controlVars, history
<1>3. CASE StartAnswered
  BY <1>0, <1>3 DEF StartAnswered, TypeOK
<1>4. CASE StartFails
  BY <1>0, <1>4 DEF StartFails, ToPoll, history, TypeOK
<1>5. CASE StageDone \/ StageFails \/ Handled
  BY <1>5 DEF StageDone, StageFails, Handled, controlVars
<1>6. CASE Record \/ Finish
  BY <1>6 DEF Record, Finish, controlVars, history
<1>7. CASE FinishFails
  BY <1>7 DEF FinishFails, ToPoll, controlVars
<1>8. CASE Reported
  <2>1. control'[cmd] \in Outcome /\ cmd \in Command
    BY <1>8 DEF Reported, Learn, TypeOK
  <2> QED
    BY <1>0, <1>8, <2>1 DEF Reported, ToPoll, history, TypeOK
<1>9. CASE Arrives
  BY <1>0, <1>9 DEF Arrives, loopVars, history, TypeOK
<1>10. CASE GetsLost \/ OthersSave \/ Sigterm
  BY <1>10 DEF GetsLost, OthersSave, Sigterm, controlVars, loopVars, history
<1>11. CASE Restart
  BY <1>11 DEF Restart, ToPoll, controlVars
<1>12. CASE UNCHANGED vars
  BY <1>12 DEF vars, controlVars, loopVars, history
<1> QED
  BY <1>1, <1>2, <1>3, <1>4, <1>5, <1>6, <1>7, <1>8, <1>9, <1>10, <1>11, <1>12
  DEF Next, Execute, Environment

-----------------------------------------------------------------------------
LEMMA HistoryInit == Init => Earned /\ Announced /\ Recorded /\ Accounted
BY DEF Init, Earned, Announced, Recorded, Accounted, SucceededTookEffect,
   NothingUnannounced, RecordedFirst, RepeatedOnlyIfBroken, Finished, Ended, Running, Outcome

(* The state variables keep their types. *)
THEOREM TypeCorrect == Spec => []TypeOK
BY TypeInit, TypeStep, PTL DEF Spec

(* A reported success is a whole execution. *)
THEOREM SuccessIsWhole == Spec => []SucceededTookEffect
<1>1. Earned => SucceededTookEffect
  BY DEF Earned
<1> QED
  BY <1>1, TypeCorrect, HistoryInit, EarnedStep, PTL DEF Spec

(* No effect comes before the control plane knows of the start. *)
THEOREM EffectsAreAnnounced == Spec => []NothingUnannounced
<1>1. Announced => NothingUnannounced
  BY DEF Announced
<1> QED
  BY <1>1, TypeCorrect, HistoryInit, AnnouncedStep, PTL DEF Spec

(* What the control plane knows the end of is in state.json, or saving failed. *)
THEOREM RecordsComeFirst == Spec => []RecordedFirst
<1>1. Recorded => RecordedFirst
  BY DEF Recorded
<1> QED
  BY <1>1, TypeCorrect, HistoryInit, RecordedStep, PTL DEF Spec

(* Only what was cut off is repeated. *)
THEOREM RepeatsAreRetries == Spec => []RepeatedOnlyIfBroken
<1>1. Accounted => RepeatedOnlyIfBroken
  BY DEF Accounted
<1> QED
  BY <1>1, TypeCorrect, HistoryInit, AccountedStep, PTL DEF Spec

-----------------------------------------------------------------------------
(* Refinement of CommandDelivery.                                            *)

InHand == IF pc = "handle" THEN cmd ELSE NoCommand

LEMMA DeliveryInit == Init => Delivery!Init
  BY DEF Init, Delivery!Init

(* Steps that the control plane sees nothing of, and that neither begin nor  *)
(* end an execution.                                                         *)
LEMMA Unseen ==
  ASSUME UNCHANGED control, UNCHANGED whole, InHand' = InHand
  PROVE  UNCHANGED Delivery!vars
  BY DEF Delivery!vars, InHand

LEMMA LearnRefines ==
  ASSUME TypeOK, Earned, Announced, Reported \/ Arrives
  PROVE  [Delivery!Next]_(Delivery!vars)
<1>1. PICK r \in wire : Learn(r)
  BY DEF Reported, Arrives, Learn
<1>2. r[1] \in Command /\ r[2] \in Outcome /\ control[r[1]] \in {"started"} \cup Outcome
  BY DEF TypeOK, Announced
<1>3. whole' = whole /\ InHand' = InHand
  BY DEF Reported, Arrives, ToPoll, InHand, loopVars, history
<1>4. CASE control[r[1]] \in Outcome
  <2>1. control' = control
    BY <1>1, <1>2, <1>4 DEF Learn, TypeOK
  <2> QED
    BY <1>3, <2>1, Unseen
<1>5. CASE control[r[1]] = "started"
  <2>1. control' = [control EXCEPT ![r[1]] = r[2]]
    BY <1>1, <1>2, <1>5 DEF Learn, TypeOK, Outcome
  <2>2. r[2] = "succeeded" => r[1] \in whole
    BY DEF Earned
  <2>3. Delivery!Learn(r[1], r[2])
    BY <1>3, <1>5, <2>1, <2>2 DEF Delivery!Learn, InHand
  <2>4. r[2] \in Delivery!Outcome
    BY <1>2 DEF Outcome, Delivery!Outcome
  <2> QED
    BY <1>2, <2>3, <2>4 DEF Delivery!Next
<1> QED
  BY <1>2, <1>4, <1>5

LEMMA DeliveryStep ==
  ASSUME TypeOK, Earned, Announced, [Next]_vars
  PROVE  [Delivery!Next]_(Delivery!vars)
<1>1. ASSUME NEW c \in Command, NextCommand(c) PROVE UNCHANGED Delivery!vars
  BY <1>1, Unseen DEF NextCommand, InHand, controlVars, history
<1>2. CASE LoopEnds
  BY <1>2, Unseen DEF LoopEnds, InHand, controlVars, history
<1>3. CASE StartAnswered
  <2>1. cmd \in Command /\ InHand = NoCommand /\ InHand' = cmd /\ whole' = whole
    BY <1>3 DEF StartAnswered, TypeOK, InHand
  <2>2. Delivery!Start(cmd)
    BY <1>3, <2>1 DEF StartAnswered, Announce, Delivery!Start, Delivery!Announce, InHand
  <2> QED
    BY <2>1, <2>2 DEF Delivery!Next
<1>4. CASE StartFails
  <2>1. cmd \in Command /\ InHand' = InHand /\ whole' = whole
    BY <1>4 DEF StartFails, ToPoll, TypeOK, InHand, history
  <2>2. CASE Announce
    <3>1. Delivery!StartUnseen(cmd)
      BY <2>1, <2>2 DEF Announce, Delivery!StartUnseen, Delivery!Announce, InHand
    <3> QED
      BY <2>1, <3>1 DEF Delivery!Next
  <2>3. CASE UNCHANGED control
    BY <2>1, <2>3, Unseen
  <2> QED
    BY <1>4, <2>2, <2>3 DEF StartFails
<1>5. CASE StageDone
  BY <1>5, Unseen DEF StageDone, InHand, controlVars
<1>6. ASSUME pc = "handle", pc' # "handle", UNCHANGED control, UNCHANGED whole
      PROVE  Delivery!BreakOff
  <2>1. InHand = cmd /\ cmd # NoCommand /\ InHand' = NoCommand
    BY <1>6, CommandAssumption DEF InHand, TypeOK
  <2> QED
    BY <1>6, <2>1 DEF Delivery!BreakOff, InHand
<1>7. CASE StageFails
  BY <1>6, <1>7 DEF StageFails, controlVars, Delivery!Next
<1>8. CASE Handled
  <2>1. whole' = whole \cup {cmd}
    BY <1>8 DEF Handled, Earned
  <2>2. InHand = cmd /\ cmd # NoCommand /\ InHand' = NoCommand /\ control' = control
    BY <1>8, CommandAssumption DEF Handled, InHand, TypeOK, controlVars
  <2>3. Delivery!Complete
    BY <2>1, <2>2 DEF Delivery!Complete, InHand
  <2> QED
    BY <2>3 DEF Delivery!Next
<1>9. CASE Record \/ Finish \/ FinishFails
  BY <1>9, Unseen DEF Record, Finish, FinishFails, ToPoll, InHand, controlVars, history
<1>10. CASE Reported \/ Arrives
  BY <1>10, LearnRefines
<1>11. CASE GetsLost \/ OthersSave \/ Sigterm
  BY <1>11, Unseen DEF GetsLost, OthersSave, Sigterm, InHand, controlVars, loopVars, history
<1>12. CASE Restart
  <2>1. pc' = "poll" /\ UNCHANGED <<control, whole>>
    BY <1>12 DEF Restart, ToPoll, controlVars
  <2>2. CASE pc = "handle"
    BY <1>6, <2>1, <2>2 DEF Delivery!Next
  <2>3. CASE pc # "handle"
    BY <2>1, <2>3, Unseen DEF InHand
  <2> QED
    BY <2>2, <2>3
<1>13. CASE UNCHANGED vars
  BY <1>13, Unseen DEF vars, InHand, controlVars, loopVars, history
<1> QED
  BY <1>1, <1>2, <1>3, <1>4, <1>5, <1>7, <1>8, <1>9, <1>10, <1>11, <1>12, <1>13
  DEF Next, Execute, Environment

(* The executor keeps the promise of CommandDelivery, for any commands and   *)
(* whatever gets lost, comes late or is cut off.                             *)
THEOREM RefinesDelivery == Spec => ImplementsDelivery
<1>1. Spec => [](TypeOK /\ Earned /\ Announced)
  BY TypeCorrect, HistoryInit, EarnedStep, AnnouncedStep, PTL DEF Spec
<1>2. TypeOK /\ Earned /\ Announced /\ [Next]_vars => [Delivery!Next]_(Delivery!vars)
  BY DeliveryStep
<1> QED
  BY <1>1, <1>2, DeliveryInit, PTL DEF Spec, ImplementsDelivery, Delivery!Spec
=============================================================================
