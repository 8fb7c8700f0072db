---------------------------- MODULE ConfigManager ----------------------------
(***************************************************************************)
(* The active openclaw.json and everything in the agent that writes it:    *)
(* the normalization at boot, ApplyRevision (called by the supervisor's    *)
(* boot code and by the command executor) and the model guard              *)
(* (src/internal/configmanager, src/internal/supervisor), with the revision*)
(* id the agent records in its state store.  The gateway and the user edit *)
(* the same file behind the agent's back, and the agent may be killed      *)
(* between any two system calls and started again by s6.                   *)
(*                                                                         *)
(* A configuration is a record of its locked model fields and of the rest; *)
(* what normalization does to it is the constant Normal (normalizer.go and *)
(* channels.go).  Left out: the staging and backup files,                  *)
(* which nothing reads back, and failures of ApplyRevision before its lock,*)
(* which change nothing.  A definition Next does not use is a mistake an   *)
(* edit of the code could make.                                            *)
(***************************************************************************)
EXTENDS Integers

CONSTANTS Model,        \* values of the fields the guard locks
          Rest,         \* values of everything else in the file
          Rev,          \* configuration revisions of the control plane
          Content,      \* Content[r]: what the control plane serves for r
          Normal,       \* Normal[c]: what normalizeConfigMap makes of c
          InitialRev,   \* InitialConfigRevisionID, or NoRev when not set
          NoRev,        \* the empty revision id
          NoModel,      \* no baseline captured yet
          Torn,         \* a file cut off inside os.WriteFile
          MaxEdits,     \* bound: edits by the gateway or the user
          MaxCrashes    \* bound: times the agent is killed

Config == [model : Model, rest : Rest]

ASSUME ContentAssumption == Content \in [Rev -> Config]
ASSUME NormalAssumption ==
  /\ Normal \in [Config -> Config]
  /\ \A c \in Config : Normal[Normal[c]] = Normal[c]
ASSUME RevAssumption == NoRev \notin Rev /\ InitialRev \in Rev \cup {NoRev}
ASSUME ModelAssumption == NoModel \notin Model
ASSUME BoundAssumption == MaxEdits \in Nat /\ MaxCrashes \in Nat

(* A file with two history variables: the revision it came from, and whether *)
(* anyone but the agent has touched it since.                                *)
File == [config : Config, rev : Rev \cup {NoRev}, edited : BOOLEAN]

ASSUME TornAssumption == Torn \notin File

VARIABLES
  \* on disk
  file,       \* openclaw.json
  diskRev,    \* CurrentConfigRevisionID in state.json
  \* in the agent
  phase,      \* how far Supervisor.Run has come
  memRev,     \* CurrentConfigRevisionID in memory
  baseline,   \* the captured model fields
  mutex,      \* who holds configmanager.Manager.mu
  read,       \* the file as the guard or the normalizer has read it
  guard,      \* the model guard: idle, changed or truncated
  apply,      \* ApplyRevision: idle, fetched, locked or renamed
  applyRev,   \* its revision
  \* history and bounds
  active,     \* the revision renamed into place last
  fresh,      \* it was renamed by this run of the agent
  activated,  \* all revisions ever renamed into place
  acked,      \* the revision whose ApplyRevision returned nil and that no
              \* other one has replaced since, or NoRev
  cut,        \* the last os.WriteFile was cut off or failed
  edits, crashes

diskVars == <<file, diskRev>>
guardVars == <<read, guard>>
applyVars == <<apply, applyRev>>
historyVars == <<active, fresh, activated, acked>>
boundVars == <<cut, edits, crashes>>
vars == <<diskVars, phase, memRev, baseline, mutex, guardVars, applyVars,
          historyVars, boundVars>>

Phase == {"down", "normalize", "rewrite", "capture", "register", "initial", "ready"}
Armed == {"register", "initial", "ready"}    \* the guard's goroutine runs

TypeOK ==
  /\ file \in File \cup {Torn}
  /\ diskRev \in Rev \cup {NoRev} /\ memRev \in Rev \cup {NoRev}
  /\ phase \in Phase
  /\ baseline \in Model \cup {NoModel}
  /\ mutex \in {"free", "guard", "apply"}
  /\ read \in File \cup {Torn}
  /\ guard \in {"idle", "changed", "truncated"}
  /\ apply \in {"idle", "fetched", "locked", "renamed"}
  /\ applyRev \in IF apply = "idle" THEN Rev \cup {NoRev} ELSE Rev
  /\ active \in Rev \cup {NoRev} /\ acked \in Rev \cup {NoRev}
  /\ fresh \in BOOLEAN /\ cut \in BOOLEAN
  /\ activated \subseteq Rev
  /\ edits \in 0 .. MaxEdits /\ crashes \in 0 .. MaxCrashes

(* A new container: the seeded defaults, which need not be normal. *)
Init ==
  /\ \E c \in Config : file = [config |-> c, rev |-> NoRev, edited |-> FALSE]
  /\ diskRev = NoRev /\ memRev = NoRev
  /\ phase = "down" /\ baseline = NoModel /\ mutex = "free"
  /\ read = Torn /\ guard = "idle"
  /\ apply = "idle" /\ applyRev = NoRev
  /\ active = NoRev /\ fresh = FALSE /\ activated = {} /\ acked = NoRev
  /\ cut = FALSE /\ edits = 0 /\ crashes = 0

-----------------------------------------------------------------------------
(* Boot: Supervisor.Run up to its loops. *)

(* s6 runs the agent; the store loads what is on disk. *)
Boot ==
  /\ phase = "down"
  /\ phase' = "normalize"
  /\ memRev' = diskRev
  /\ UNCHANGED <<diskVars, baseline, mutex, guardVars, applyVars, historyVars, boundVars>>

(* NormalizeActiveConfig reads the file, and os.WriteFile truncates it if    *)
(* there is something to rewrite.  Run ends when the file does not parse.    *)
Normalize ==
  /\ phase = "normalize"
  /\ IF file = Torn
     THEN phase' = "down" /\ UNCHANGED <<file, read>>
     ELSE IF Normal[file.config] = file.config
     THEN phase' = "capture" /\ UNCHANGED <<file, read>>
     ELSE phase' = "rewrite" /\ read' = file /\ file' = Torn
  /\ UNCHANGED <<diskRev, memRev, baseline, mutex, guard, applyVars, historyVars, boundVars>>

Rewrite ==
  /\ phase = "rewrite"
  /\ file' = [read EXCEPT !.config = Normal[read.config]]
  /\ read' = Torn
  /\ phase' = "capture"
  /\ UNCHANGED <<diskRev, memRev, baseline, mutex, guard, applyVars, historyVars, boundVars>>

(* CaptureModelBaseline; the guard's goroutine starts with the next step. *)
Capture ==
  /\ phase = "capture"
  /\ IF file = Torn
     THEN phase' = "down" /\ UNCHANGED baseline
     ELSE phase' = "register" /\ baseline' = file.config.model
  /\ UNCHANGED <<diskVars, memRev, mutex, guardVars, applyVars, historyVars, boundVars>>

(* Ensure registers and updates the store; a store that cannot be persisted  *)
(* keeps the update in memory, and the retry finds a valid session there.    *)
Register ==
  /\ phase = "register"
  /\ memRev' = IF memRev = NoRev THEN InitialRev ELSE memRev
  /\ diskRev' \in {diskRev, memRev'}
  /\ phase' = "initial"
  /\ UNCHANGED <<file, baseline, mutex, guardVars, applyVars, historyVars, boundVars>>

(* The initial revision is applied if none is recorded; that it cannot be    *)
(* fetched is ignored.                                                       *)
Initial ==
  /\ phase = "initial"
  /\ phase' = "ready"
  /\ IF memRev = NoRev /\ InitialRev # NoRev
     THEN \/ apply' = "fetched" /\ applyRev' = InitialRev
          \/ UNCHANGED applyVars
     ELSE UNCHANGED applyVars
  /\ UNCHANGED <<diskVars, memRev, baseline, mutex, guardVars, historyVars, boundVars>>

-----------------------------------------------------------------------------
(* ApplyRevision. *)

FetchUnchecked(r) ==
  /\ phase = "ready" /\ apply = "idle"
  /\ apply' = "fetched" /\ applyRev' \in {r, NoRev}
  /\ UNCHANGED <<diskVars, phase, memRev, baseline, mutex, guardVars, historyVars, boundVars>>

(* Fetched, verified, normalized and staged, all without the lock. *)
Fetch(r) ==
  /\ phase = "ready" /\ apply = "idle"
  /\ apply' = "fetched" /\ applyRev' = r
  /\ UNCHANGED <<diskVars, phase, memRev, baseline, mutex, guardVars, historyVars, boundVars>>

LockApplyAndRecord ==
  /\ apply = "fetched" /\ mutex = "free"
  /\ apply' = "locked" /\ mutex' = "apply"
  /\ memRev' = applyRev /\ diskRev' = applyRev
  /\ UNCHANGED <<file, phase, baseline, guardVars, applyRev, historyVars, boundVars>>

LockApply ==
  /\ apply = "fetched" /\ mutex = "free"
  /\ apply' = "locked" /\ mutex' = "apply"
  /\ UNCHANGED <<diskVars, phase, memRev, baseline, guardVars, applyRev, historyVars, boundVars>>

StagedRaw == [config |-> Content[applyRev], rev |-> applyRev, edited |-> FALSE]

Staged == [config |-> Normal[Content[applyRev]], rev |-> applyRev, edited |-> FALSE]

(* os.Rename of the staging file over the active one. *)
Activate ==
  /\ apply = "locked"
  /\ file' = Staged
  /\ apply' = "renamed"
  /\ active' = applyRev /\ fresh' = TRUE /\ activated' = activated \cup {applyRev}
  /\ acked' = IF acked = applyRev THEN acked ELSE NoRev
  /\ cut' = FALSE
  /\ UNCHANGED <<diskRev, phase, memRev, baseline, mutex, guardVars, applyRev,
                 edits, crashes>>

(* The rename fails and the lock is released: nothing has changed. *)
ActivateFails ==
  /\ apply = "locked"
  /\ apply' = "idle" /\ mutex' = "free"
  /\ UNCHANGED <<diskVars, phase, memRev, baseline, guardVars, applyRev, historyVars, boundVars>>

(* setModelBaselineLocked and store.Update, which succeeds or leaves the     *)
(* file on disk behind the memory.                                           *)
RecordsOldBaseline ==
  /\ apply = "renamed"
  /\ baseline' = baseline
  /\ memRev' = applyRev
  /\ \/ diskRev' = applyRev /\ acked' = applyRev
     \/ UNCHANGED <<diskRev, acked>>
  /\ apply' = "idle" /\ mutex' = "free"
  /\ UNCHANGED <<file, phase, guardVars, applyRev, active, fresh, activated, boundVars>>

AcksUnsaved ==
  /\ apply = "renamed"
  /\ baseline' = Normal[Content[applyRev]].model
  /\ memRev' = applyRev
  /\ acked' = applyRev
  /\ diskRev' \in {diskRev, applyRev}
  /\ apply' = "idle" /\ mutex' = "free"
  /\ UNCHANGED <<file, phase, guardVars, applyRev, active, fresh, activated, boundVars>>

Record ==
  /\ apply = "renamed"
  /\ baseline' = Normal[Content[applyRev]].model
  /\ memRev' = applyRev
  /\ \/ diskRev' = applyRev /\ acked' = applyRev
     \/ UNCHANGED <<diskRev, acked>>
  /\ apply' = "idle" /\ mutex' = "free"
  /\ UNCHANGED <<file, phase, guardVars, applyRev, active, fresh, activated, boundVars>>

(* Any other Update of the store (a session, a command result) writes the    *)
(* whole state, an earlier change that could not be persisted included.      *)
Persist ==
  /\ phase = "ready"
  /\ diskRev' = memRev
  /\ UNCHANGED <<file, phase, memRev, baseline, mutex, guardVars, applyVars,
                 historyVars, boundVars>>

-----------------------------------------------------------------------------
(* EnforceModelBaseline, every three seconds.  A file that does not parse,   *)
(* and one whose model fields are as captured, are left alone.               *)

Tampered == file # Torn /\ file.config.model # baseline

CheckWithoutLock ==
  /\ phase \in Armed /\ guard = "idle"
  /\ Tampered
  /\ guard' = "changed" /\ read' = file
  /\ UNCHANGED <<diskVars, phase, memRev, baseline, mutex, applyVars, historyVars, boundVars>>

Check ==
  /\ phase \in Armed /\ guard = "idle"
  /\ mutex = "free"
  /\ Tampered
  /\ guard' = "changed" /\ read' = file /\ mutex' = "guard"
  /\ UNCHANGED <<diskVars, phase, memRev, baseline, applyVars, historyVars, boundVars>>

(* os.WriteFile first truncates ... *)
Truncate ==
  /\ guard = "changed"
  /\ guard' = "truncated"
  /\ file' = Torn
  /\ UNCHANGED <<diskRev, phase, memRev, baseline, mutex, read, applyVars, historyVars, boundVars>>

RestoredRead == read

Restored == [read EXCEPT !.config.model = baseline]

(* ... and then writes what was read, with the captured model fields.        *)
Restore ==
  /\ guard = "truncated"
  /\ file' = Restored
  /\ guard' = "idle" /\ read' = Torn /\ mutex' = "free"
  /\ UNCHANGED <<diskRev, phase, memRev, baseline, applyVars, historyVars, boundVars>>

(* The write fails (a full disk): the error is logged, the file is cut off.  *)
RestoreFails ==
  /\ guard = "truncated"
  /\ guard' = "idle" /\ read' = Torn /\ mutex' = "free"
  /\ cut' = TRUE
  /\ UNCHANGED <<diskVars, phase, memRev, baseline, applyVars, historyVars, edits, crashes>>

-----------------------------------------------------------------------------
(* The environment. *)

(* The gateway or the user saves another configuration; while the agent has  *)
(* the file truncated they do not save one.                                  *)
Edit ==
  /\ edits < MaxEdits
  /\ file # Torn
  /\ \E c \in Config \ {file.config} :
       file' = [file EXCEPT !.config = c, !.edited = TRUE]
  /\ edits' = edits + 1
  /\ UNCHANGED <<diskRev, phase, memRev, baseline, mutex, guardVars, applyVars,
                 historyVars, cut, crashes>>

(* The agent is killed, or ends because it could not write during boot. *)
Crash ==
  /\ phase # "down"
  /\ crashes < MaxCrashes
  /\ crashes' = crashes + 1
  /\ cut' = (file = Torn)
  /\ phase' = "down" /\ memRev' = NoRev /\ baseline' = NoModel /\ mutex' = "free"
  /\ guard' = "idle" /\ read' = Torn /\ apply' = "idle" /\ applyRev' = NoRev
  /\ fresh' = FALSE
  /\ UNCHANGED <<diskVars, active, activated, acked, edits>>

BootStep == Boot \/ Normalize \/ Rewrite \/ Capture \/ Register \/ Initial
ApplyStep == LockApply \/ Activate \/ ActivateFails \/ Record
GuardStep == Check \/ Truncate \/ Restore \/ RestoreFails

Next ==
  \/ BootStep
  \/ \E r \in Rev : Fetch(r)
  \/ ApplyStep
  \/ Persist
  \/ GuardStep
  \/ Edit
  \/ Crash

Spec == Init /\ [][Next]_vars

(* The goroutines run; sync.Mutex hands the lock to a waiter that has been   *)
(* passed over, so the guard gets it although commands keep coming.          *)
FairSpec ==
  /\ Spec
  /\ WF_vars(BootStep) /\ WF_vars(ApplyStep)
  /\ WF_vars(Truncate \/ Restore \/ RestoreFails) /\ SF_vars(Check)
-----------------------------------------------------------------------------
(* While nobody holds the lock the baseline is that of the revision this run *)
(* of the agent activated last: the guard does not take the model fields of  *)
(* a new revision for an intrusion and put the old ones back.                *)
BaselineFollowsRevision ==
  mutex = "free" /\ fresh => baseline = Normal[Content[active]].model

(* The file always stems from the revision activated last, whatever the      *)
(* guard wrote from an earlier read, and also after the agent was killed.    *)
GuardKeepsRevision == file # Torn => file.rev = active

(* The locked fields of a file that only the agent wrote since the last      *)
(* activation are those the environment injects.                             *)
InjectionSurvives ==
  phase \in Armed /\ file # Torn =>
    file.edited \/ Normal[file.config] = file.config

(* A file nobody can parse exists only while a write is under way or after   *)
(* one that was cut off by a crash or an error; activating a revision never  *)
(* leaves one.                                                               *)
TornHasCause ==
  file = Torn => phase = "rewrite" \/ guard = "truncated" \/ cut

(* A revision reported as current was really put in place. *)
RecordedWasActivated ==
  {memRev, diskRev} \subseteq activated \cup {NoRev}

(* A revision the control plane was told is applied, and that no other has   *)
(* replaced, is the one on record and the one activated last: a crash, or a  *)
(* state that could not be saved, does not take the answer back.             *)
AckedSurvives == acked # NoRev => diskRev = acked /\ active = acked

Guarded == file # Torn /\ file.config.model = baseline

(* Changed model fields are put back, unless a write is cut off or the agent *)
(* goes down.                                                                *)
GuardRestores == phase = "ready" /\ Tampered ~> Guarded \/ cut \/ phase = "down"
=============================================================================
