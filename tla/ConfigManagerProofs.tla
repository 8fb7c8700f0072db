------------------------- MODULE ConfigManagerProofs -------------------------
(***************************************************************************)
(* Proofs about ConfigManager for every set of configurations, revisions   *)
(* and every normalization, and any number of edits and crashes.           *)
(*                                                                         *)
(* The invariant CInv ties the lock to the program counters, and says of   *)
(* what each writer holds in memory what the properties say of the file:   *)
(* a copy of the file that the guard has read cannot grow stale, because   *)
(* every other writer of a new revision needs the lock the guard holds.    *)
(***************************************************************************)
EXTENDS ConfigManager, TLAPS

(* Who holds the lock, and which parts run in which phase. *)
LockOK ==
  /\ mutex = "apply" <=> apply \in {"locked", "renamed"}
  /\ mutex = "guard" <=> guard # "idle"
  /\ guard # "idle" => phase \in Armed
  /\ apply # "idle" => phase = "ready"
  /\ fresh => phase = "ready"
  /\ apply = "renamed" => fresh /\ active = applyRev

(* What the file and the copies of it are worth. *)
FileOK ==
  /\ GuardKeepsRevision
  /\ phase = "rewrite" \/ guard # "idle" => read \in File /\ read.rev = active
  /\ phase = "rewrite" \/ guard = "truncated" => file = Torn
  /\ TornHasCause

(* What normalization and the baseline say about a file nobody has edited.   *)
ContentOK ==
  /\ phase \in Armed => baseline \in Model
  /\ phase \in Armed \cup {"capture"} /\ file # Torn =>
       file.edited \/ Normal[file.config] = file.config
  /\ phase \in Armed /\ file # Torn /\ apply # "renamed" =>
       file.edited \/ file.config.model = baseline
  /\ apply = "renamed" /\ file # Torn =>
       file.edited \/ file.config = Normal[Content[applyRev]]
  /\ guard # "idle" => read.edited
  /\ fresh => active \in Rev
  /\ fresh /\ apply # "renamed" => baseline = Normal[Content[active]].model

(* What is on record. *)
RecordOK ==
  /\ AckedSurvives
  /\ acked # NoRev /\ phase # "down" => memRev = acked

CInv == TypeOK /\ LockOK /\ FileOK /\ ContentOK /\ RecordOK

-----------------------------------------------------------------------------
(* Saving another configuration under the history of the same file. *)
LEMMA NewConfig ==
  ASSUME NEW f \in File, NEW c \in Config
  PROVE  /\ [f EXCEPT !.config = c] \in File \ {Torn}
         /\ [f EXCEPT !.config = c].config = c
         /\ [f EXCEPT !.config = c].rev = f.rev
         /\ [f EXCEPT !.config = c].edited = f.edited
         /\ [f EXCEPT !.config = c, !.edited = TRUE] \in File \ {Torn}
         /\ [f EXCEPT !.config = c, !.edited = TRUE].rev = f.rev
         /\ [f EXCEPT !.config = c, !.edited = TRUE].edited
BY TornAssumption DEF File

(* A file as the agent creates it. *)
LEMMA NewFile ==
  ASSUME NEW c \in Config, NEW r \in Rev \cup {NoRev}
  PROVE  [config |-> c, rev |-> r, edited |-> FALSE] \in File \ {Torn}
<1>1. FALSE \in BOOLEAN
  OBVIOUS
<1>2. [config |-> c, rev |-> r, edited |-> FALSE] \in File
  BY <1>1 DEF File
<1> QED
  BY <1>2, TornAssumption

LEMMA InitInv == Init => CInv
<1> SUFFICES ASSUME Init PROVE CInv
  OBVIOUS
<1>1. PICK c \in Config : file = [config |-> c, rev |-> NoRev, edited |-> FALSE]
  BY DEF Init
<1>2. file \in File /\ file # Torn /\ file.rev = NoRev
  BY <1>1, NewFile
<1>3. TypeOK
  <2>1. fresh \in BOOLEAN /\ cut \in BOOLEAN
    BY Zenon DEF Init
  <2> QED
    BY <1>2, <2>1, BoundAssumption DEF Init, TypeOK, Phase
<1>4. LockOK /\ RecordOK
  BY DEF Init, LockOK, RecordOK, AckedSurvives
<1>5. FileOK /\ ContentOK
  BY <1>2 DEF Init, FileOK, ContentOK, GuardKeepsRevision, TornHasCause, Armed
<1> QED
  BY <1>3, <1>4, <1>5 DEF CInv

LEMMA BootInv ==
  ASSUME CInv, Boot
  PROVE  CInv'
<1> USE DEF Boot, diskVars, guardVars, applyVars, historyVars, boundVars
<1>1. TypeOK'
  BY ContentAssumption, NormalAssumption, RevAssumption DEF CInv, TypeOK, Phase, File, Config
<1>2. LockOK'
  BY DEF CInv, LockOK, Armed
<1>3. FileOK'
  BY TornAssumption DEF CInv, LockOK, FileOK, TypeOK, GuardKeepsRevision, TornHasCause, Armed
<1>4. ContentOK'
  BY ContentAssumption, NormalAssumption, TornAssumption
  DEF CInv, LockOK, FileOK, ContentOK, TypeOK, GuardKeepsRevision, Armed, File, Config
<1>5. RecordOK'
  BY DEF CInv, RecordOK, LockOK, AckedSurvives
<1> QED
  BY <1>1, <1>2, <1>3, <1>4, <1>5 DEF CInv

LEMMA NormalizeInv ==
  ASSUME CInv, Normalize
  PROVE  CInv'
<1> USE DEF Normalize, diskVars, guardVars, applyVars, historyVars, boundVars
<1>1. TypeOK'
  BY ContentAssumption, NormalAssumption, RevAssumption DEF CInv, TypeOK, Phase, File, Config
<1>2. LockOK'
  BY DEF CInv, LockOK, Armed
<1>3. FileOK'
  BY TornAssumption DEF CInv, LockOK, FileOK, TypeOK, GuardKeepsRevision, TornHasCause, Armed
<1>4. ContentOK'
  BY ContentAssumption, NormalAssumption, TornAssumption
  DEF CInv, LockOK, FileOK, ContentOK, TypeOK, GuardKeepsRevision, Armed, File, Config
<1>5. RecordOK'
  BY DEF CInv, RecordOK, LockOK, AckedSurvives
<1> QED
  BY <1>1, <1>2, <1>3, <1>4, <1>5 DEF CInv

LEMMA RewriteInv ==
  ASSUME CInv, Rewrite
  PROVE  CInv'
<1> USE DEF Rewrite, diskVars, guardVars, applyVars, historyVars, boundVars
<1>0. /\ file' \in File /\ file' # Torn /\ file'.rev = active
      /\ file'.config = Normal[read.config] /\ Normal[file'.config] = file'.config
      /\ file'.edited = read.edited
  <2>1. read \in File /\ read.rev = active
    BY DEF CInv, FileOK
  <2>2. read.config \in Config
    BY <2>1 DEF File
  <2>3. Normal[read.config] \in Config
    BY <2>2, NormalAssumption
  <2>4. Normal[Normal[read.config]] = Normal[read.config]
    BY <2>2, NormalAssumption
  <2>5. file' = [read EXCEPT !.config = Normal[read.config]]
    BY DEF Rewrite
  <2> HIDE DEF Rewrite
  <2>6. file' \in File \ {Torn} /\ file'.config = Normal[read.config]
    BY <2>1, <2>3, <2>5, NewConfig
  <2>7. file'.rev = read.rev /\ file'.edited = read.edited
    BY <2>1, <2>3, <2>5, NewConfig
  <2> QED
    BY <2>1, <2>4, <2>6, <2>7
<1> HIDE DEF Rewrite
<1>9. /\ phase = "rewrite" /\ phase' = "capture" /\ read' = Torn
      /\ UNCHANGED <<diskRev, memRev, baseline, mutex, guard, applyVars, historyVars, boundVars>>
  BY DEF Rewrite
<1>1. TypeOK'
  BY <1>0, <1>9, ContentAssumption, NormalAssumption, RevAssumption DEF CInv, TypeOK, Phase, LockOK
<1>2. LockOK'
  BY <1>0, <1>9 DEF CInv, LockOK, Armed
<1>3. FileOK'
  BY <1>0, <1>9, TornAssumption DEF CInv, LockOK, FileOK, TypeOK, GuardKeepsRevision, TornHasCause, Armed
<1>4. ContentOK'
  BY <1>0, <1>9, ContentAssumption, NormalAssumption, TornAssumption
  DEF CInv, LockOK, FileOK, ContentOK, TypeOK, GuardKeepsRevision, Armed
<1>5. RecordOK'
  BY <1>0, <1>9 DEF CInv, RecordOK, LockOK, AckedSurvives
<1> QED
  BY <1>1, <1>2, <1>3, <1>4, <1>5 DEF CInv

LEMMA CaptureInv ==
  ASSUME CInv, Capture
  PROVE  CInv'
<1> USE DEF Capture, diskVars, guardVars, applyVars, historyVars, boundVars
<1>1. TypeOK'
  BY ContentAssumption, NormalAssumption, RevAssumption DEF CInv, TypeOK, Phase, File, Config
<1>2. LockOK'
  BY DEF CInv, LockOK, Armed
<1>3. FileOK'
  BY TornAssumption DEF CInv, LockOK, FileOK, TypeOK, GuardKeepsRevision, TornHasCause, Armed
<1>4. ContentOK'
  BY ContentAssumption, NormalAssumption, TornAssumption
  DEF CInv, LockOK, FileOK, ContentOK, TypeOK, GuardKeepsRevision, Armed, File, Config
<1>5. RecordOK'
  BY DEF CInv, RecordOK, LockOK, AckedSurvives
<1> QED
  BY <1>1, <1>2, <1>3, <1>4, <1>5 DEF CInv

LEMMA RegisterInv ==
  ASSUME CInv, Register
  PROVE  CInv'
<1> USE DEF Register, diskVars, guardVars, applyVars, historyVars, boundVars
<1>1. TypeOK'
  BY ContentAssumption, NormalAssumption, RevAssumption DEF CInv, TypeOK, Phase, File, Config
<1>2. LockOK'
  BY DEF CInv, LockOK, Armed
<1>3. FileOK'
  BY TornAssumption DEF CInv, LockOK, FileOK, TypeOK, GuardKeepsRevision, TornHasCause, Armed
<1>4. ContentOK'
  BY ContentAssumption, NormalAssumption, TornAssumption
  DEF CInv, LockOK, FileOK, ContentOK, TypeOK, GuardKeepsRevision, Armed, File, Config
<1>5. RecordOK'
  BY DEF CInv, RecordOK, LockOK, AckedSurvives
<1> QED
  BY <1>1, <1>2, <1>3, <1>4, <1>5 DEF CInv

LEMMA InitialInv ==
  ASSUME CInv, Initial
  PROVE  CInv'
<1> USE DEF Initial, diskVars, guardVars, applyVars, historyVars, boundVars
<1>1. TypeOK'
  BY ContentAssumption, NormalAssumption, RevAssumption DEF CInv, TypeOK, Phase, File, Config
<1>2. LockOK'
  BY DEF CInv, LockOK, Armed
<1>3. FileOK'
  BY TornAssumption DEF CInv, LockOK, FileOK, TypeOK, GuardKeepsRevision, TornHasCause, Armed
<1>4. ContentOK'
  BY ContentAssumption, NormalAssumption, TornAssumption
  DEF CInv, LockOK, FileOK, ContentOK, TypeOK, GuardKeepsRevision, Armed, File, Config
<1>5. RecordOK'
  BY DEF CInv, RecordOK, LockOK, AckedSurvives
<1> QED
  BY <1>1, <1>2, <1>3, <1>4, <1>5 DEF CInv

LEMMA LockApplyInv ==
  ASSUME CInv, LockApply
  PROVE  CInv'
<1> USE DEF LockApply, diskVars, guardVars, applyVars, historyVars, boundVars
<1>1. TypeOK'
  BY ContentAssumption, NormalAssumption, RevAssumption DEF CInv, TypeOK, Phase, File, Config
<1>2. LockOK'
  BY DEF CInv, LockOK, Armed
<1>3. FileOK'
  BY TornAssumption DEF CInv, LockOK, FileOK, TypeOK, GuardKeepsRevision, TornHasCause, Armed
<1>4. ContentOK'
  BY ContentAssumption, NormalAssumption, TornAssumption
  DEF CInv, LockOK, FileOK, ContentOK, TypeOK, GuardKeepsRevision, Armed, File, Config
<1>5. RecordOK'
  BY DEF CInv, RecordOK, LockOK, AckedSurvives
<1> QED
  BY <1>1, <1>2, <1>3, <1>4, <1>5 DEF CInv

LEMMA ActivateInv ==
  ASSUME CInv, Activate
  PROVE  CInv'
<1> USE DEF Activate, Staged, diskVars, guardVars, applyVars, historyVars, boundVars
<1>0. file' \in File /\ file' # Torn /\ file'.rev = applyRev /\ applyRev \in Rev
      /\ file'.config = Normal[Content[applyRev]] /\ ~file'.edited
      /\ Normal[file'.config] = file'.config
  <2>1. applyRev \in Rev /\ Normal[Content[applyRev]] \in Config
    BY ContentAssumption, NormalAssumption DEF CInv, TypeOK
  <2> QED
    BY <2>1, NewFile, ContentAssumption, NormalAssumption
<1> HIDE DEF Staged
<1>1. TypeOK'
  BY <1>0, ContentAssumption, NormalAssumption, RevAssumption DEF CInv, TypeOK, Phase, LockOK
<1>2. LockOK'
  BY <1>0 DEF CInv, LockOK, Armed
<1>3. FileOK'
  BY <1>0, TornAssumption DEF CInv, LockOK, FileOK, TypeOK, GuardKeepsRevision, TornHasCause, Armed
<1>4. ContentOK'
  BY <1>0, ContentAssumption, NormalAssumption, TornAssumption
  DEF CInv, LockOK, FileOK, ContentOK, TypeOK, GuardKeepsRevision, Armed
<1>5. RecordOK'
  BY <1>0 DEF CInv, RecordOK, LockOK, AckedSurvives
<1> QED
  BY <1>1, <1>2, <1>3, <1>4, <1>5 DEF CInv

LEMMA ActivateFailsInv ==
  ASSUME CInv, ActivateFails
  PROVE  CInv'
<1> USE DEF ActivateFails, diskVars, guardVars, applyVars, historyVars, boundVars
<1>1. TypeOK'
  BY ContentAssumption, NormalAssumption, RevAssumption DEF CInv, TypeOK, Phase, File, Config
<1>2. LockOK'
  BY DEF CInv, LockOK, Armed
<1>3. FileOK'
  BY TornAssumption DEF CInv, LockOK, FileOK, TypeOK, GuardKeepsRevision, TornHasCause, Armed
<1>4. ContentOK'
  BY ContentAssumption, NormalAssumption, TornAssumption
  DEF CInv, LockOK, FileOK, ContentOK, TypeOK, GuardKeepsRevision, Armed, File, Config
<1>5. RecordOK'
  BY DEF CInv, RecordOK, LockOK, AckedSurvives
<1> QED
  BY <1>1, <1>2, <1>3, <1>4, <1>5 DEF CInv

LEMMA RecordInv ==
  ASSUME CInv, Record
  PROVE  CInv'
<1> USE DEF Record, diskVars, guardVars, applyVars, historyVars, boundVars
<1>0. applyRev \in Rev /\ Normal[Content[applyRev]].model \in Model
  BY ContentAssumption, NormalAssumption DEF CInv, TypeOK, Config
<1>1. TypeOK'
  BY <1>0 DEF CInv, TypeOK, Phase
<1>2. LockOK'
  BY DEF CInv, LockOK, Armed
<1>3. FileOK'
  BY <1>0, TornAssumption DEF CInv, LockOK, FileOK, TypeOK, GuardKeepsRevision, TornHasCause, Armed
<1>4. ContentOK'
  <2>1. fresh /\ active = applyRev /\ phase = "ready" /\ guard = "idle"
    BY DEF CInv, LockOK
  <2>2. file # Torn => file.edited \/ file.config = Normal[Content[applyRev]]
    BY <2>1 DEF CInv, ContentOK
  <2>3. file # Torn => file.edited \/ file.config.model = baseline'
    BY <2>2
  <2> QED
    BY <1>0, <2>1, <2>3 DEF CInv, ContentOK, Armed
<1>5. RecordOK'
  BY DEF CInv, RecordOK, LockOK, AckedSurvives
<1> QED
  BY <1>1, <1>2, <1>3, <1>4, <1>5 DEF CInv

LEMMA PersistInv ==
  ASSUME CInv, Persist
  PROVE  CInv'
<1> USE DEF Persist, diskVars, guardVars, applyVars, historyVars, boundVars
<1>1. TypeOK'
  BY ContentAssumption, NormalAssumption, RevAssumption DEF CInv, TypeOK, Phase, File, Config
<1>2. LockOK'
  BY DEF CInv, LockOK, Armed
<1>3. FileOK'
  BY TornAssumption DEF CInv, LockOK, FileOK, TypeOK, GuardKeepsRevision, TornHasCause, Armed
<1>4. ContentOK'
  BY ContentAssumption, NormalAssumption, TornAssumption
  DEF CInv, LockOK, FileOK, ContentOK, TypeOK, GuardKeepsRevision, Armed, File, Config
<1>5. RecordOK'
  BY DEF CInv, RecordOK, LockOK, AckedSurvives
<1> QED
  BY <1>1, <1>2, <1>3, <1>4, <1>5 DEF CInv

LEMMA CheckInv ==
  ASSUME CInv, Check
  PROVE  CInv'
<1> USE DEF Check, Tampered, diskVars, guardVars, applyVars, historyVars, boundVars
<1>1. TypeOK'
  BY ContentAssumption, NormalAssumption, RevAssumption DEF CInv, TypeOK, Phase, File, Config
<1>2. LockOK'
  BY DEF CInv, LockOK, Armed
<1>3. FileOK'
  BY TornAssumption DEF CInv, LockOK, FileOK, TypeOK, GuardKeepsRevision, TornHasCause, Armed
<1>4. ContentOK'
  BY ContentAssumption, NormalAssumption, TornAssumption
  DEF CInv, LockOK, FileOK, ContentOK, TypeOK, GuardKeepsRevision, Armed, File, Config
<1>5. RecordOK'
  BY DEF CInv, RecordOK, LockOK, AckedSurvives
<1> QED
  BY <1>1, <1>2, <1>3, <1>4, <1>5 DEF CInv

LEMMA TruncateInv ==
  ASSUME CInv, Truncate
  PROVE  CInv'
<1> USE DEF Truncate, diskVars, guardVars, applyVars, historyVars, boundVars
<1>1. TypeOK'
  BY ContentAssumption, NormalAssumption, RevAssumption DEF CInv, TypeOK, Phase, File, Config
<1>2. LockOK'
  BY DEF CInv, LockOK, Armed
<1>3. FileOK'
  BY TornAssumption DEF CInv, LockOK, FileOK, TypeOK, GuardKeepsRevision, TornHasCause, Armed
<1>4. ContentOK'
  BY ContentAssumption, NormalAssumption, TornAssumption
  DEF CInv, LockOK, FileOK, ContentOK, TypeOK, GuardKeepsRevision, Armed, File, Config
<1>5. RecordOK'
  BY DEF CInv, RecordOK, LockOK, AckedSurvives
<1> QED
  BY <1>1, <1>2, <1>3, <1>4, <1>5 DEF CInv

(* What the guard writes: what it has read with the baseline put back.       *)
LEMMA RestoredFile ==
  ASSUME CInv, Restore
  PROVE  /\ file' \in File /\ file' # Torn /\ file'.rev = active /\ file'.edited
         /\ file'.config.model = baseline
<1> DEFINE c == [read.config EXCEPT !.model = baseline]
<1>1. read \in File /\ read.rev = active /\ read.edited /\ baseline \in Model
  BY DEF CInv, LockOK, FileOK, ContentOK, Restore
<1>2. c \in Config /\ c.model = baseline
  BY <1>1 DEF File, Config
<1>3. file' = [read EXCEPT !.config = c]
  BY <1>1 DEF File, Restore, Restored
<1>4. /\ [read EXCEPT !.config = c] \in File \ {Torn}
      /\ [read EXCEPT !.config = c].config = c
      /\ [read EXCEPT !.config = c].rev = read.rev
      /\ [read EXCEPT !.config = c].edited = read.edited
  BY <1>1, <1>2, NewConfig
<1> HIDE DEF c
<1> QED
  BY <1>1, <1>2, <1>3, <1>4

LEMMA RestoreInv ==
  ASSUME CInv, Restore
  PROVE  CInv'
<1> USE DEF diskVars, guardVars, applyVars, historyVars, boundVars
<1>0. file' \in File /\ file' # Torn /\ file'.rev = active /\ file'.edited
  BY RestoredFile
<1>9. /\ guard = "truncated" /\ guard' = "idle" /\ read' = Torn /\ mutex' = "free"
      /\ UNCHANGED <<diskRev, phase, memRev, baseline, applyVars, historyVars, boundVars>>
  BY DEF Restore
<1>1. TypeOK'
  BY <1>0, <1>9, ContentAssumption, NormalAssumption, RevAssumption DEF CInv, TypeOK, Phase, LockOK, Armed
<1>2. LockOK'
  BY <1>0, <1>9 DEF CInv, LockOK, Armed
<1>3. FileOK'
  BY <1>0, <1>9, TornAssumption DEF CInv, LockOK, FileOK, TypeOK, GuardKeepsRevision, TornHasCause, Armed
<1>4. ContentOK'
  BY <1>0, <1>9, ContentAssumption, NormalAssumption, TornAssumption
  DEF CInv, LockOK, FileOK, ContentOK, TypeOK, GuardKeepsRevision, Armed
<1>5. RecordOK'
  BY <1>0, <1>9 DEF CInv, RecordOK, LockOK, AckedSurvives
<1> QED
  BY <1>1, <1>2, <1>3, <1>4, <1>5 DEF CInv

LEMMA RestoreFailsInv ==
  ASSUME CInv, RestoreFails
  PROVE  CInv'
<1> USE DEF RestoreFails, diskVars, guardVars, applyVars, historyVars, boundVars
<1>1. TypeOK'
  BY ContentAssumption, NormalAssumption, RevAssumption DEF CInv, TypeOK, Phase, File, Config
<1>2. LockOK'
  BY DEF CInv, LockOK, Armed
<1>3. FileOK'
  BY TornAssumption DEF CInv, LockOK, FileOK, TypeOK, GuardKeepsRevision, TornHasCause, Armed
<1>4. ContentOK'
  BY ContentAssumption, NormalAssumption, TornAssumption
  DEF CInv, LockOK, FileOK, ContentOK, TypeOK, GuardKeepsRevision, Armed, File, Config
<1>5. RecordOK'
  BY DEF CInv, RecordOK, LockOK, AckedSurvives
<1> QED
  BY <1>1, <1>2, <1>3, <1>4, <1>5 DEF CInv

LEMMA EditedFile ==
  ASSUME CInv, Edit
  PROVE  /\ file \in File /\ file # Torn
         /\ file' \in File /\ file' # Torn /\ file'.rev = file.rev /\ file'.edited
<1>1. file \in File /\ file # Torn
  BY DEF CInv, TypeOK, Edit
<1>2. PICK c \in Config : file' = [file EXCEPT !.config = c, !.edited = TRUE]
  BY DEF Edit
<1> QED
  BY <1>1, <1>2, NewConfig

LEMMA EditInv ==
  ASSUME CInv, Edit
  PROVE  CInv'
<1> USE DEF Edit, diskVars, guardVars, applyVars, historyVars, boundVars
<1>0. /\ file \in File /\ file # Torn
      /\ file' \in File /\ file' # Torn /\ file'.rev = file.rev /\ file'.edited
  BY EditedFile
<1>8. edits' \in 0 .. MaxEdits
  BY BoundAssumption DEF CInv, TypeOK
<1> HIDE DEF Edit
<1>9. UNCHANGED <<diskRev, phase, memRev, baseline, mutex, guardVars, applyVars,
                  historyVars, cut, crashes>>
  BY DEF Edit
<1>1. TypeOK'
  BY <1>0, <1>9, <1>8, ContentAssumption, NormalAssumption, RevAssumption DEF CInv, TypeOK, Phase, LockOK
<1>2. LockOK'
  BY <1>0, <1>9, <1>8 DEF CInv, LockOK, Armed
<1>3. FileOK'
  BY <1>0, <1>9, <1>8, TornAssumption DEF CInv, LockOK, FileOK, TypeOK, GuardKeepsRevision, TornHasCause, Armed
<1>4. ContentOK'
  BY <1>0, <1>9, <1>8, ContentAssumption, NormalAssumption, TornAssumption
  DEF CInv, LockOK, FileOK, ContentOK, TypeOK, GuardKeepsRevision, Armed
<1>5. RecordOK'
  BY <1>0, <1>9, <1>8 DEF CInv, RecordOK, LockOK, AckedSurvives
<1> QED
  BY <1>1, <1>2, <1>3, <1>4, <1>5 DEF CInv

LEMMA CrashInv ==
  ASSUME CInv, Crash
  PROVE  CInv'
<1> USE DEF Crash, diskVars, guardVars, applyVars, historyVars, boundVars
<1>0. crashes' \in 0 .. MaxCrashes
  BY BoundAssumption DEF CInv, TypeOK
<1>9. cut' \in BOOLEAN /\ fresh' \in BOOLEAN
  BY Zenon
<1>1. TypeOK'
  BY <1>0, <1>9, ContentAssumption, NormalAssumption, RevAssumption DEF CInv, TypeOK, Phase
<1>2. LockOK'
  BY <1>0, <1>9 DEF CInv, LockOK, Armed
<1>3. FileOK'
  BY <1>0, <1>9, TornAssumption DEF CInv, LockOK, FileOK, TypeOK, GuardKeepsRevision, TornHasCause, Armed
<1>4. ContentOK'
  BY <1>0, <1>9, ContentAssumption, NormalAssumption, TornAssumption
  DEF CInv, LockOK, FileOK, ContentOK, TypeOK, GuardKeepsRevision, Armed, File, Config
<1>5. RecordOK'
  BY <1>0, <1>9 DEF CInv, RecordOK, LockOK, AckedSurvives
<1> QED
  BY <1>1, <1>2, <1>3, <1>4, <1>5 DEF CInv

LEMMA FetchInv ==
  ASSUME CInv, NEW r \in Rev, Fetch(r)
  PROVE  CInv'
<1> USE DEF Fetch, diskVars, guardVars, applyVars, historyVars, boundVars
<1>1. TypeOK'
  BY ContentAssumption, NormalAssumption, RevAssumption DEF CInv, TypeOK, Phase, File, Config
<1>2. LockOK'
  BY DEF CInv, LockOK, Armed
<1>3. FileOK'
  BY TornAssumption DEF CInv, LockOK, FileOK, TypeOK, GuardKeepsRevision, TornHasCause, Armed
<1>4. ContentOK'
  BY ContentAssumption, NormalAssumption, TornAssumption
  DEF CInv, LockOK, FileOK, ContentOK, TypeOK, GuardKeepsRevision, Armed, File, Config
<1>5. RecordOK'
  BY DEF CInv, RecordOK, LockOK, AckedSurvives
<1> QED
  BY <1>1, <1>2, <1>3, <1>4, <1>5 DEF CInv

LEMMA StutterInv ==
  ASSUME CInv, UNCHANGED vars
  PROVE  CInv'
<1> USE DEF vars, diskVars, guardVars, applyVars, historyVars, boundVars
<1>1. TypeOK'
  BY ContentAssumption, NormalAssumption, RevAssumption DEF CInv, TypeOK, Phase, File, Config
<1>2. LockOK'
  BY DEF CInv, LockOK, Armed
<1>3. FileOK'
  BY TornAssumption DEF CInv, LockOK, FileOK, TypeOK, GuardKeepsRevision, TornHasCause, Armed
<1>4. ContentOK'
  BY ContentAssumption, NormalAssumption, TornAssumption
  DEF CInv, LockOK, FileOK, ContentOK, TypeOK, GuardKeepsRevision, Armed, File, Config
<1>5. RecordOK'
  BY DEF CInv, RecordOK, LockOK, AckedSurvives
<1> QED
  BY <1>1, <1>2, <1>3, <1>4, <1>5 DEF CInv

-----------------------------------------------------------------------------
LEMMA NextInv == CInv /\ [Next]_vars => CInv'
<1> SUFFICES ASSUME CInv, [Next]_vars PROVE CInv'
  OBVIOUS
<1>1. CASE BootStep
  BY <1>1, BootInv, NormalizeInv, RewriteInv, CaptureInv, RegisterInv, InitialInv DEF BootStep
<1>2. CASE ApplyStep
  BY <1>2, LockApplyInv, ActivateInv, ActivateFailsInv, RecordInv DEF ApplyStep
<1>3. CASE GuardStep
  BY <1>3, CheckInv, TruncateInv, RestoreInv, RestoreFailsInv DEF GuardStep
<1>4. ASSUME NEW r \in Rev, Fetch(r) PROVE CInv'
  BY <1>4, FetchInv
<1>5. CASE Persist \/ Edit \/ Crash
  BY <1>5, PersistInv, EditInv, CrashInv
<1>6. CASE UNCHANGED vars
  BY <1>6, StutterInv
<1> QED
  BY <1>1, <1>2, <1>3, <1>4, <1>5, <1>6 DEF Next

(* The lock, the file, its copies and the recorded revision stay consistent. *)
THEOREM Invariance == Spec => []CInv
BY InitInv, NextInv, PTL DEF Spec

(* The state variables keep their types. *)
THEOREM TypeCorrect == Spec => []TypeOK
BY Invariance, PTL DEF CInv

(* The guard never takes a new revision for an intrusion. *)
THEOREM BaselineIsCurrent == Spec => []BaselineFollowsRevision
<1>1. CInv => BaselineFollowsRevision
  BY DEF CInv, LockOK, ContentOK, BaselineFollowsRevision
<1> QED
  BY <1>1, Invariance, PTL

(* No write of the agent brings back an earlier revision. *)
THEOREM RevisionIsKept == Spec => []GuardKeepsRevision
BY Invariance, PTL DEF CInv, FileOK

(* Injected settings are in every file that nobody else has edited.          *)
THEOREM InjectedIsKept == Spec => []InjectionSurvives
<1>1. CInv => InjectionSurvives
  BY DEF CInv, ContentOK, InjectionSurvives
<1> QED
  BY <1>1, Invariance, PTL

(* Activation never leaves a file that does not parse. *)
THEOREM TornIsExplained == Spec => []TornHasCause
BY Invariance, PTL DEF CInv, FileOK

(* What the control plane was told is applied stays on record.               *)
THEOREM AckedIsDurable == Spec => []AckedSurvives
BY Invariance, PTL DEF CInv, RecordOK

-----------------------------------------------------------------------------
(* Which revisions can be on record. *)
RecInv ==
  /\ RecordedWasActivated
  /\ apply = "renamed" => applyRev \in activated

LEMMA RecStep ==
  ASSUME InitialRev = NoRev, RecInv, [Next]_vars
  PROVE  RecInv'
<1> USE DEF RecInv, RecordedWasActivated, diskVars, guardVars, applyVars, historyVars, boundVars
<1>1. CASE BootStep
  BY <1>1 DEF BootStep, Boot, Normalize, Rewrite, Capture, Register, Initial
<1>2. CASE ApplyStep
  BY <1>2 DEF ApplyStep, LockApply, Activate, ActivateFails, Record
<1>3. CASE GuardStep
  BY <1>3 DEF GuardStep, Check, Truncate, Restore, RestoreFails
<1>4. ASSUME NEW r \in Rev, Fetch(r) PROVE RecInv'
  BY <1>4 DEF Fetch
<1>5. CASE Persist \/ Edit \/ Crash
  BY <1>5 DEF Persist, Edit, Crash
<1>6. CASE UNCHANGED vars
  BY <1>6 DEF vars
<1> QED
  BY <1>1, <1>2, <1>3, <1>4, <1>5, <1>6 DEF Next

(* Without an initial revision in its configuration the agent only ever      *)
(* records revisions that it put in place.                                   *)
THEOREM RecordIsTrue ==
  ASSUME InitialRev = NoRev
  PROVE  Spec => []RecordedWasActivated
<1>1. Init => RecInv
  BY DEF Init, RecInv, RecordedWasActivated
<1>2. RecInv /\ [Next]_vars => RecInv'
  BY RecStep
<1>3. RecInv => RecordedWasActivated
  BY DEF RecInv
<1> QED
  BY <1>1, <1>2, <1>3, PTL DEF Spec
=============================================================================
