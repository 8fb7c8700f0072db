-------------------------- MODULE SkillManagerProofs --------------------------
(***************************************************************************)
(* Proofs about SkillManager for any sets of skills, contents and versions *)
(* and any number of commands, edits and faults.                           *)
(*                                                                         *)
(* Control says which command is at work where and what it holds.  On it   *)
(* rest three invariants, one for each promise: what a command is about to *)
(* record is what it has put in place (RecordInv), what it is about to     *)
(* upload is what it has hashed (PackInv), and a report that was answered  *)
(* is the one the control plane has, unless another came after it          *)
(* (DigestInv).  What makes each false is exactly what its property        *)
(* exempts.                                                                *)
(***************************************************************************)
EXTENDS SkillManager, TLAPS

Installing == {"check", "download", "copying", "persist"}
Removing == {"remove", "removing", "removed"}
Packing == {"pack", "packing", "upload"}

Label == Installing \cup Removing \cup Packing
           \cup {"boot", "idle", "move", "forget", "hash", "report", "arrived"}

(* The command at work at each place, and what it holds. *)
Control ==
  /\ pc \in [Actor -> Label]
  /\ pc["executor"] \in {"idle", "report", "arrived"} => op = None
  /\ At("hash") => op \in CollectOp \cup {None}
  /\ pc["executor"] \in Installing => op \in Op /\ op.kind = "install"
  /\ pc["executor"] \in Removing => op \in Op /\ op.kind \in {"install", "uninstall"}
  /\ pc["executor"] \in {"move", "forget"} => op \in Op
  /\ pc["executor"] \in Removing \cup {"copying", "persist"} /\ op.kind = "install" =>
       got \in Content
  /\ pc["executor"] \in Packing =>
       op \in CollectOp /\ op.skill \in Skill /\ todo["executor"] = {} /\ got \in Hashable

Typed == TypeOK /\ Control

(* What is about to be recorded is in place. *)
RecordInv ==
  /\ RecordMatchesContent
  /\ At("persist") => disk[op.skill] = got \/ op.skill \in disturbed

(* What a collect command has hashed, read for the archive or packed is what *)
(* there is, or it has been altered since.                                   *)
PackInv ==
  /\ At("hash") /\ Collecting =>
       \A s \in Skill : items["executor"][s] # NotThere =>
         s \notin todo["executor"] /\ (disk[s] = items["executor"][s].md5 \/ s \in altered)
  /\ At("pack") => disk[op.skill] = got \/ op.skill \in altered
  /\ At("packing") => (packed = got /\ disk[op.skill] = got) \/ op.skill \in altered
  /\ PackageMatchesLabel

(* An answered report that nobody's has followed is the one that was sent.   *)
DigestInv ==
  /\ \A a \in Actor : pc[a] = "arrived" /\ last = a => remote = items[a]
  /\ DigestWasReported

-----------------------------------------------------------------------------
(* The values that stand for nothing are none of those that stand for        *)
(* something.                                                                *)
LEMMA Values ==
  /\ Content \subseteq Hashable /\ Partial \in Hashable
  /\ Absent \notin Hashable /\ Unreadable \notin Hashable /\ None \notin Hashable
  /\ NotThere \notin Item /\ NoRecord \notin Record
BY ValueAssumption DEF Hashable, Item, NotThere, Record, NoRecord

LEMMA Commands ==
  /\ \A o \in Op : /\ o.skill \in Skill /\ o.kind \in {"install", "uninstall", "disable"}
                   /\ o.kind = "install" => o.version \in Version
  /\ \A o \in CollectOp : /\ o.kind = "collect" /\ o # None
                          /\ \A s \in Skill : [o EXCEPT !.skill = s] \in CollectOp
                                             /\ [o EXCEPT !.skill = s].skill = s
BY OpAssumption DEF Op, CollectOp

(* What a sync works with, when it begins and when it ends. *)
LEMMA Listed ==
  ASSUME Typed, NEW a \in Actor, NEW force \in BOOLEAN, Discover(a, force)
  PROVE  /\ forced' \in [Actor -> BOOLEAN] /\ todo' \in [Actor -> SUBSET Skill]
         /\ items' \in [Actor -> Inventory]
         /\ \A s \in Skill : items'[a][s] = NotThere
         /\ pc'[a] = "hash" /\ \A b \in Actor : b # a => pc'[b] = pc[b]
         /\ pc' \in [Actor -> Label]
         /\ \A b \in Actor : b # a => items'[b] = items[b] /\ todo'[b] = todo[b]
<1> USE DEF Discover, Goto, Typed, TypeOK, Control, Label
<1>1. Empty \in Inventory
  BY DEF Empty, Inventory
<1>2. items' \in [Actor -> Inventory] /\ items'[a] = Empty
  BY <1>1
<1> QED
  BY <1>2 DEF Empty

LEMMA Rested ==
  ASSUME Typed, NEW a \in Actor, Rest(a)
  PROVE  /\ forced' \in [Actor -> BOOLEAN] /\ todo' \in [Actor -> SUBSET Skill]
         /\ items' \in [Actor -> Inventory]
         /\ pc'[a] = "idle" /\ \A b \in Actor : b # a => pc'[b] = pc[b]
         /\ pc' \in [Actor -> Label]
         /\ \A b \in Actor : b # a => items'[b] = items[b] /\ todo'[b] = todo[b]
<1> USE DEF Rest, Goto, Typed, TypeOK, Control, Label
<1>1. Empty \in Inventory
  BY DEF Empty, Inventory
<1>2. items' \in [Actor -> Inventory]
  BY <1>1
<1> QED
  BY <1>2

LEMMA HashTyped ==
  ASSUME Typed, NEW a \in Actor, Hash(a)
  PROVE  Typed'
<1>1. PICK s \in todo[a] :
        /\ disk[s] \in Hashable
        /\ items' = [items EXCEPT ![a][s] = [md5 |-> disk[s], version |-> managed[s].version]]
        /\ todo' = [todo EXCEPT ![a] = @ \ {s}]
  BY DEF Hash
<1>2. UNCHANGED <<disk, managed, digest, stored, remote, pc, forced, op, got, ops, edits, faults,
                  disturbed, packed, altered>>
  BY DEF Hash, SyncUnchanged, storeVars, opVars, bounds, packVars
<1>3. s \in Skill /\ managed[s].version \in Version \cup {None}
  BY DEF Typed, TypeOK, Record, NoRecord
<1>4. [md5 |-> disk[s], version |-> managed[s].version] \in Item
  BY <1>1, <1>3 DEF Item
<1>5. items' \in [Actor -> Inventory]
  BY <1>1, <1>4 DEF Typed, TypeOK, Inventory
<1>6. todo' \in [Actor -> SUBSET Skill] /\ \A b \in Actor : todo'[b] \subseteq todo[b]
  BY <1>1 DEF Typed, TypeOK
<1>7. TypeOK'
  BY <1>2, <1>5, <1>6 DEF Typed, TypeOK
<1>8. Control'
  BY <1>2, <1>6 DEF Typed, Control, At, Actor
<1> QED
  BY <1>7, <1>8 DEF Typed

LEMMA SyncCommandTyped ==
  ASSUME Typed, SyncCommand
  PROVE  Typed'
<1>1. /\ At("idle") /\ Discover("executor", TRUE) /\ ops < MaxOps /\ ops' = ops + 1
      /\ UNCHANGED <<disk, managed, digest, stored, remote, op, got, edits, faults,
                     disturbed, packed, altered>>
  BY DEF SyncCommand, storeVars, opVars, packVars
<1>2. /\ forced' \in [Actor -> BOOLEAN] /\ todo' \in [Actor -> SUBSET Skill]
      /\ items' \in [Actor -> Inventory] /\ pc' \in [Actor -> Label]
      /\ pc'["executor"] = "hash" /\ pc'["loop"] = pc["loop"]
  BY <1>1, Listed DEF Actor
<1>3. ops' \in 0 .. MaxOps
  BY <1>1, BoundAssumption DEF Typed, TypeOK
<1>4. TypeOK'
  BY <1>1, <1>2, <1>3 DEF Typed, TypeOK
<1>5. Control'
  BY <1>1, <1>2 DEF Typed, Control, At, Installing, Removing, Packing
<1> QED
  BY <1>4, <1>5 DEF Typed

LEMMA CollectCommandTyped ==
  ASSUME Typed, CollectCommand
  PROVE  Typed'
<1>1. /\ At("idle") /\ Discover("executor", TRUE) /\ op' \in CollectOp
      /\ ops < MaxOps /\ ops' = ops + 1
      /\ UNCHANGED <<disk, managed, digest, stored, remote, got, edits, faults,
                     disturbed, packed, altered>>
  BY DEF CollectCommand, storeVars, packVars
<1>2. /\ forced' \in [Actor -> BOOLEAN] /\ todo' \in [Actor -> SUBSET Skill]
      /\ items' \in [Actor -> Inventory] /\ pc' \in [Actor -> Label]
      /\ pc'["executor"] = "hash" /\ pc'["loop"] = pc["loop"]
  BY <1>1, Listed DEF Actor
<1>3. ops' \in 0 .. MaxOps
  BY <1>1, BoundAssumption DEF Typed, TypeOK
<1>4. TypeOK'
  BY <1>1, <1>2, <1>3 DEF Typed, TypeOK
<1>5. Control'
  BY <1>1, <1>2 DEF Control, Installing, Removing, Packing
<1> QED
  BY <1>4, <1>5 DEF Typed

LEMMA CheckTyped ==
  ASSUME Typed, Check
  PROVE  Typed'
<1> USE DEF Check, At, Goto, OpUnchanged, OthersUnchanged, storeVars, syncVars, packVars
<1>1. /\ op \in Op /\ op.kind = "install"
      /\ UNCHANGED op /\ UNCHANGED todo
      /\ \/ pc' = [pc EXCEPT !["executor"] = "persist"] /\ got' = op.want /\ op.want # None
         \/ pc' = [pc EXCEPT !["executor"] = "download"] /\ got' = got
  BY DEF Typed, Control, Installing
<1>2. op.want \in Content \cup {None}
  BY <1>1 DEF Op
<1>3. got' \in Hashable \cup {None} /\ (pc'["executor"] = "persist" => got' \in Content)
  BY <1>2, Values DEF Typed, TypeOK, Control
<1>4. TypeOK'
  BY <1>3 DEF Typed, TypeOK, Control, Actor
<1>5. Control'
  BY <1>3 DEF Typed, Control, Label, Installing, Removing, Packing
<1> QED
  BY <1>4, <1>5 DEF Typed

LEMMA PersistTyped ==
  ASSUME Typed, Persist
  PROVE  Typed'
<1>1. /\ At("persist") /\ op \in Op /\ op.kind = "install" /\ got \in Content
      /\ UNCHANGED <<disk, remote, ops, edits>>
  BY DEF Persist, At, Typed, Control, Installing
<1>2. PICK ok \in BOOLEAN :
        /\ Update([managed EXCEPT ![op.skill] = [md5 |-> got, version |-> op.version]], digest, ok)
        /\ AfterUpdate(ok)
  BY DEF Persist
<1>3. [md5 |-> got, version |-> op.version] \in Record \cup {NoRecord} /\ op.skill \in Skill
  BY <1>1, Values, Commands DEF Record
<1>4. [managed EXCEPT ![op.skill] = [md5 |-> got, version |-> op.version]]
        \in [Skill -> Record \cup {NoRecord}]
  BY <1>3 DEF Typed, TypeOK
<1>5. /\ managed' \in [Skill -> Record \cup {NoRecord}]
      /\ stored'.managed \in [Skill -> Record \cup {NoRecord}] /\ faults' \in 0 .. MaxFaults
  BY <1>2, <1>4, BoundAssumption DEF Update, Typed, TypeOK
<1>6. op' = None /\ got' = None /\ packed' = None /\ altered' = {} /\ disturbed' \subseteq Skill
  BY DEF AfterUpdate, OpEnds, Persist, Settled, Typed, TypeOK
<1>7. /\ forced' \in [Actor -> BOOLEAN] /\ todo' \in [Actor -> SUBSET Skill]
      /\ items' \in [Actor -> Inventory] /\ pc' \in [Actor -> Label]
      /\ pc'["executor"] \in {"hash", "idle"} /\ pc'["loop"] = pc["loop"]
  <2>1. CASE ok
    BY <1>2, <2>1, Listed DEF AfterUpdate, Actor
  <2>2. CASE ~ok
    BY <1>2, <2>2 DEF AfterUpdate, Goto, syncVars, Typed, TypeOK, Control, Actor, Label
  <2> QED
    BY <2>1, <2>2
<1>8. TypeOK'
  BY <1>1, <1>5, <1>6, <1>7 DEF Typed, TypeOK
<1>9. Control'
  BY <1>6, <1>7 DEF Control, Installing, Removing, Packing
<1> QED
  BY <1>8, <1>9 DEF Typed

LEMMA ForgetTyped ==
  ASSUME Typed, Forget
  PROVE  Typed'
<1>1. /\ At("forget") /\ op \in Op
      /\ UNCHANGED <<disk, remote, ops, edits>>
  BY DEF Forget, At, Typed, Control
<1>2. PICK ok \in BOOLEAN :
        /\ Update([managed EXCEPT ![op.skill] = NoRecord], digest, ok)
        /\ AfterUpdate(ok)
  BY DEF Forget
<1>3. [managed EXCEPT ![op.skill] = NoRecord] \in [Skill -> Record \cup {NoRecord}]
  BY DEF Typed, TypeOK
<1>4. /\ managed' \in [Skill -> Record \cup {NoRecord}]
      /\ stored'.managed \in [Skill -> Record \cup {NoRecord}] /\ faults' \in 0 .. MaxFaults
  BY <1>2, <1>3, BoundAssumption DEF Update, Typed, TypeOK
<1>5. op' = None /\ got' = None /\ packed' = None /\ altered' = {} /\ disturbed' \subseteq Skill
  BY DEF AfterUpdate, OpEnds, Forget, Settled, Typed, TypeOK
<1>6. /\ forced' \in [Actor -> BOOLEAN] /\ todo' \in [Actor -> SUBSET Skill]
      /\ items' \in [Actor -> Inventory] /\ pc' \in [Actor -> Label]
      /\ pc'["executor"] \in {"hash", "idle"} /\ pc'["loop"] = pc["loop"]
  <2>1. CASE ok
    BY <1>2, <2>1, Listed DEF AfterUpdate, Actor
  <2>2. CASE ~ok
    BY <1>2, <2>2 DEF AfterUpdate, Goto, syncVars, Typed, TypeOK, Control, Actor, Label
  <2> QED
    BY <2>1, <2>2
<1>7. TypeOK'
  BY <1>1, <1>4, <1>5, <1>6 DEF Typed, TypeOK
<1>8. Control'
  BY <1>5, <1>6 DEF Control, Installing, Removing, Packing
<1> QED
  BY <1>7, <1>8 DEF Typed

LEMMA FindTyped ==
  ASSUME Typed, Find
  PROVE  Typed'
<1>1. /\ op \in CollectOp /\ todo["executor"] = {} /\ pc' = [pc EXCEPT !["executor"] = "pack"]
      /\ items' = [items EXCEPT !["executor"] = Empty]
      /\ UNCHANGED <<disk, managed, digest, stored, remote, forced, todo, ops, edits, faults,
                     disturbed, packed, altered>>
  BY DEF Find, Discovered, Collecting, Goto, SyncUnchanged, storeVars, bounds,
      packVars, Typed, Control
<1>2. PICK s \in Skill : /\ Matches = {s} /\ op' = [op EXCEPT !.skill = s]
                         /\ got' = items["executor"][s].md5
  BY DEF Find
<1>3. op' \in CollectOp /\ op'.skill = s
  BY <1>1, <1>2, Commands
<1>4. got' \in Hashable
  <2>1. s \in Matches
    BY <1>2
  <2>2. items["executor"][s] \in Item
    BY <2>1 DEF Matches, Typed, TypeOK, Inventory, Actor
  <2> QED
    BY <1>2, <2>2 DEF Item
<1>5. Empty \in Inventory
  BY DEF Empty, Inventory
<1>6. TypeOK'
  BY <1>1, <1>3, <1>4, <1>5 DEF Typed, TypeOK, Actor
<1>7. Control'
  BY <1>1, <1>3, <1>4
  DEF Typed, Control, Actor, Label, Installing, Removing, Packing
<1> QED
  BY <1>6, <1>7 DEF Typed

LEMMA CrashTyped ==
  ASSUME Typed, Crash
  PROVE  Typed'
<1>1. /\ managed' = stored.managed /\ stored' = stored /\ faults < MaxFaults /\ faults' = faults + 1
      /\ pc' = [executor |-> "idle", loop |-> "boot"]
      /\ forced' = [a \in Actor |-> FALSE] /\ todo' = [a \in Actor |-> {}]
      /\ items' = [a \in Actor |-> Empty]
      /\ op' = None /\ got' = None /\ packed' = None /\ altered' = {}
      /\ UNCHANGED <<disk, remote, ops, edits>>
  BY DEF Crash, OpEnds
<1>2. disturbed' \subseteq Skill
  <2>1. InProgress => op.skill \in Skill
    BY Commands DEF InProgress, Typed, Control, Installing, Removing
  <2> QED
    BY <2>1 DEF Crash, Typed, TypeOK
<1>3. Empty \in Inventory
  BY DEF Empty, Inventory
<1>4. faults' \in 0 .. MaxFaults
  BY <1>1, BoundAssumption DEF Typed, TypeOK
<1>5. items' \in [Actor -> Inventory]
  BY <1>1, <1>3
<1>6. pc' \in [Actor -> Label] /\ pc'["executor"] = "idle" /\ pc'["loop"] = "boot"
  BY <1>1 DEF Actor, Label
<1>7. TypeOK'
  BY <1>1, <1>2, <1>4, <1>5 DEF Typed, TypeOK
<1>8. Control'
  BY <1>1, <1>6 DEF Control, Installing, Removing, Packing
<1> QED
  BY <1>7, <1>8 DEF Typed

(* The rest of a sync. *)
LEMMA ReportTyped ==
  ASSUME Typed, NEW a \in Actor,
         HashFails(a) \/ Decide(a) \/ Arrive(a) \/ ReportFails(a) \/ Reported(a)
  PROVE  Typed'
<1> USE Commands, Rested, BoundAssumption
<1> USE DEF Typed, TypeOK, Control, Label, Installing, Removing, Packing, Actor, At
<1>1. CASE HashFails(a)
  BY <1>1 DEF HashFails, OpEnds, storeVars, opVars, bounds, packVars
<1>2. CASE Decide(a)
  BY <1>2 DEF Decide, SyncUnchanged, Goto, Collecting, storeVars, syncVars, opVars, bounds, packVars
<1>3. CASE Arrive(a)
  BY <1>3 DEF Arrive, Goto, storeVars, syncVars, opVars, bounds, packVars
<1>4. CASE ReportFails(a)
  BY <1>4 DEF ReportFails, SyncUnchanged, storeVars, opVars, bounds, packVars
<1>5. CASE Reported(a)
  BY <1>5 DEF Reported, Update, opVars, packVars
<1> QED
  BY <1>1, <1>2, <1>3, <1>4, <1>5

(* The skill loop. *)
LEMMA TickTyped ==
  ASSUME Typed, FullTick \/ IncrementalTick
  PROVE  Typed'
<1>1. PICK force \in BOOLEAN : Discover("loop", force)
  BY DEF FullTick, IncrementalTick
<1>2. UNCHANGED <<disk, managed, digest, stored, remote, op, got, ops, edits, faults,
                  disturbed, packed, altered>>
  BY DEF FullTick, IncrementalTick, SyncUnchanged, storeVars, opVars, bounds, packVars
<1>3. /\ forced' \in [Actor -> BOOLEAN] /\ todo' \in [Actor -> SUBSET Skill]
      /\ items' \in [Actor -> Inventory] /\ pc' \in [Actor -> Label]
      /\ pc'["executor"] = pc["executor"] /\ pc'["loop"] = "hash"
      /\ todo'["executor"] = todo["executor"]
  BY <1>1, Listed DEF Actor
<1>4. TypeOK'
  BY <1>2, <1>3 DEF Typed, TypeOK
<1>5. Control'
  BY <1>2, <1>3 DEF Typed, Control, At
<1> QED
  BY <1>4, <1>5 DEF Typed

(* A command begins, *)
LEMMA BeginTyped ==
  ASSUME Typed, Command
  PROVE  Typed'
<1> USE Commands, BoundAssumption
<1> USE DEF Typed, TypeOK, Control, Label, Installing, Removing, Packing, Actor, At
<1>1. CASE Command
  BY DEF Command, Goto, storeVars, syncVars, packVars
<1> QED
  BY <1>1

(* installs a skill, *)
LEMMA InstallTyped ==
  ASSUME Typed, CheckFails \/ Download \/ DownloadFails \/ Activate \/ CopyBegins \/
         CopyEnds \/ ActivateFails
  PROVE  Typed'
<1> USE Values, Commands
<1> USE DEF Typed, TypeOK, Control, Label, Installing, Removing, Packing, Actor, At
<1>1. CASE CheckFails
  BY <1>1 DEF CheckFails, OthersUnchanged, Fails, OpEnds, Goto, storeVars, syncVars
<1>2. CASE Download
  BY <1>2 DEF Download, OthersUnchanged, OpUnchanged, Goto, storeVars, syncVars, packVars
<1>3. CASE DownloadFails
  BY <1>3 DEF DownloadFails, OthersUnchanged, Fails, OpEnds, Goto, storeVars, syncVars
<1>4. CASE Activate
  BY <1>4 DEF Activate, OthersUnchanged, OpUnchanged, Goto, storeVars, syncVars, packVars
<1>5. CASE CopyBegins
  BY <1>5 DEF CopyBegins, OthersUnchanged, OpUnchanged, Goto, storeVars, syncVars, packVars
<1>6. CASE CopyEnds
  BY <1>6 DEF CopyEnds, OthersUnchanged, OpUnchanged, Goto, storeVars, syncVars, packVars
<1>7. CASE ActivateFails
  BY <1>7 DEF ActivateFails, OthersUnchanged, Fails, OpEnds, Goto, storeVars, syncVars
<1> QED
  BY <1>1, <1>2, <1>3, <1>4, <1>5, <1>6, <1>7

(* removes it or moves it away, *)
LEMMA RemoveTyped ==
  ASSUME Typed, RemoveBegins \/ RemoveEnds \/ RemoveFails \/ Removed \/ Move \/ MoveMissing \/
         MoveFails
  PROVE  Typed'
<1> USE Values, Commands, Listed
<1> USE DEF Typed, TypeOK, Control, Label, Installing, Removing, Packing, Actor, At
<1>1. CASE RemoveBegins
  BY <1>1 DEF RemoveBegins, OthersUnchanged, OpUnchanged, Goto, storeVars, syncVars, packVars
<1>2. CASE RemoveEnds
  BY <1>2 DEF RemoveEnds, OthersUnchanged, OpUnchanged, Goto, storeVars, syncVars, packVars
<1>3. CASE RemoveFails
  BY <1>3 DEF RemoveFails, OthersUnchanged, Fails, OpEnds, Goto, storeVars, syncVars
<1>4. CASE Removed
  BY <1>4 DEF Removed, OthersUnchanged, OpUnchanged, Goto, storeVars, syncVars, packVars
<1>5. CASE Move
  BY <1>5 DEF Move, OthersUnchanged, OpUnchanged, Goto, storeVars, syncVars, packVars
<1>6. CASE MoveMissing
  BY <1>6 DEF MoveMissing, OpEnds, storeVars, bounds
<1>7. CASE MoveFails
  BY <1>7 DEF MoveFails, OthersUnchanged, Fails, OpEnds, Goto, storeVars, syncVars
<1> QED
  BY <1>1, <1>2, <1>3, <1>4, <1>5, <1>6, <1>7

(* or packs it. *)
LEMMA PackTyped ==
  ASSUME Typed, FindFails \/ PackBegins \/ PackEnds \/ CloseFails \/ CollectEnds
  PROVE  Typed'
<1> USE Values, Rested, BoundAssumption
<1> USE DEF Typed, TypeOK, Control, Label, Installing, Removing, Packing, Actor, At
<1>1. CASE FindFails
  BY <1>1 DEF FindFails, OpEnds, storeVars, bounds
<1>2. CASE PackBegins
  BY <1>2 DEF PackBegins, Goto, storeVars, syncVars, opVars, bounds
<1>3. CASE PackEnds
  BY <1>3 DEF PackEnds, Goto, storeVars, syncVars, opVars, bounds
<1>4. CASE CloseFails
  BY <1>4 DEF CloseFails, Goto, storeVars, syncVars, opVars
<1>5. CASE CollectEnds
  BY <1>5 DEF CollectEnds, OpEnds, Goto, storeVars, syncVars, bounds
<1> QED
  BY <1>1, <1>2, <1>3, <1>4, <1>5

(* Others change a skill. *)
LEMMA EditTyped ==
  ASSUME Typed, Edit
  PROVE  Typed'
<1> USE Values, BoundAssumption
<1> USE DEF Typed, TypeOK, Control, At
<1>1. CASE Edit
  BY DEF Edit, storeVars, syncVars, opVars
<1> QED
  BY <1>1

LEMMA TypedStep ==
  ASSUME Typed, [Next]_vars
  PROVE  Typed'
<1>1. ASSUME NEW a \in Actor, SyncStep(a) PROVE Typed'
  BY <1>1, HashTyped, ReportTyped DEF SyncStep
<1>2. CASE LoopStep
  BY <1>1, <1>2, TickTyped DEF LoopStep, Actor
<1>3. CASE InstallStep
  BY <1>3, InstallTyped, CheckTyped, PersistTyped DEF InstallStep
<1>4. CASE RemoveStep
  BY <1>4, RemoveTyped, ForgetTyped DEF RemoveStep
<1>5. CASE CollectStep
  BY <1>5, PackTyped, FindTyped DEF CollectStep
<1>6. CASE Command \/ SyncCommand \/ CollectCommand
  BY <1>6, BeginTyped, SyncCommandTyped, CollectCommandTyped
<1>7. CASE Edit \/ Crash
  BY <1>7, EditTyped, CrashTyped
<1>8. CASE UNCHANGED vars
  BY <1>8 DEF vars, storeVars, syncVars, opVars, bounds, packVars, Typed, TypeOK, Control, At
<1> QED
  BY <1>1, <1>2, <1>3, <1>4, <1>5, <1>6, <1>7, <1>8 DEF Next, ExecutorStep, Actor

LEMMA InitTyped == Init => Typed
<1> SUFFICES ASSUME Init PROVE Typed
  OBVIOUS
<1>1. Empty \in Inventory
  BY DEF Empty, Inventory
<1>2. TypeOK
  BY <1>1, BoundAssumption DEF Init, TypeOK, Hashable
<1>3. Control
  BY DEF Init, Control, Label, Actor, Installing, Removing, Packing
<1> QED
  BY <1>2, <1>3 DEF Typed

-----------------------------------------------------------------------------
LEMMA RecordAfterSync ==
  ASSUME Typed, RecordInv, NEW a \in Actor, Hash(a) \/ HashFails(a) \/ Decide(a) \/
         Arrive(a) \/ ReportFails(a) \/ Reported(a)
  PROVE  RecordInv'
<1> USE Commands
<1> USE DEF RecordInv, RecordMatchesContent, InProgress, Typed, TypeOK, Control, Installing,
    Removing, At, Actor
<1>1. CASE Hash(a)
  BY <1>1 DEF Hash, SyncUnchanged, storeVars, opVars
<1>2. CASE HashFails(a)
  BY <1>2 DEF HashFails, Rest, Goto, storeVars, opVars
<1>3. CASE Decide(a)
  BY <1>3 DEF Decide, SyncUnchanged, Rest, Goto, storeVars, opVars
<1>4. CASE Arrive(a)
  BY <1>4 DEF Arrive, Rest, Goto, storeVars, opVars
<1>5. CASE ReportFails(a)
  BY <1>5 DEF ReportFails, SyncUnchanged, Rest, Goto, storeVars, opVars
<1>6. CASE Reported(a)
  BY <1>6 DEF Reported, Update, Rest, Goto, opVars
<1> QED
  BY <1>1, <1>2, <1>3, <1>4, <1>5, <1>6

LEMMA RecordAfterBegin ==
  ASSUME Typed, RecordInv, FullTick \/ IncrementalTick \/ Command \/ SyncCommand \/ CollectCommand
  PROVE  RecordInv'
<1> USE Commands
<1> USE DEF RecordInv, RecordMatchesContent, InProgress, Typed, TypeOK, Control, Installing,
    Removing, At, Actor
<1>1. CASE FullTick
  BY <1>1 DEF FullTick, SyncUnchanged, Discover, Goto, storeVars, opVars
<1>2. CASE IncrementalTick
  BY <1>2
  DEF IncrementalTick, SyncUnchanged, Discover, Goto, storeVars, opVars
<1>3. CASE Command
  BY <1>3 DEF Command, Goto, storeVars
<1>4. CASE SyncCommand
  BY <1>4 DEF SyncCommand, Discover, Goto, storeVars
<1>5. CASE CollectCommand
  BY <1>5 DEF CollectCommand, Discover, Goto, storeVars
<1> QED
  BY <1>1, <1>2, <1>3, <1>4, <1>5

LEMMA RecordAfterInstall ==
  ASSUME Typed, RecordInv, Check \/ CheckFails \/ Download \/ DownloadFails \/ Activate \/
         CopyBegins \/ CopyEnds \/ ActivateFails \/ Persist
  PROVE  RecordInv'
<1> USE Commands
<1> USE DEF RecordInv, RecordMatchesContent, InProgress, Typed, TypeOK, Control, Installing,
    Removing, At, Actor
<1>1. CASE Check
  BY <1>1 DEF Check, OthersUnchanged, OpUnchanged, Goto, storeVars
<1>2. CASE CheckFails
  BY <1>2 DEF CheckFails, OthersUnchanged, Fails, Goto, storeVars
<1>3. CASE Download
  BY <1>3 DEF Download, OthersUnchanged, OpUnchanged, Goto, storeVars
<1>4. CASE DownloadFails
  BY <1>4 DEF DownloadFails, OthersUnchanged, Fails, Goto, storeVars
<1>5. CASE Activate
  BY <1>5 DEF Activate, OthersUnchanged, OpUnchanged, Goto, storeVars
<1>6. CASE CopyBegins
  BY <1>6 DEF CopyBegins, OthersUnchanged, OpUnchanged, Goto, storeVars
<1>7. CASE CopyEnds
  BY <1>7 DEF CopyEnds, OthersUnchanged, OpUnchanged, Goto, storeVars
<1>8. CASE ActivateFails
  BY <1>8 DEF ActivateFails, OthersUnchanged, Fails, Goto, storeVars
<1>9. CASE Persist
  BY <1>9 DEF Persist, AfterUpdate, Update, Discover, Goto, Settled
<1> QED
  BY <1>1, <1>2, <1>3, <1>4, <1>5, <1>6, <1>7, <1>8, <1>9

LEMMA RecordAfterRemove ==
  ASSUME Typed, RecordInv, RemoveBegins \/ RemoveEnds \/ RemoveFails \/ Removed \/ Forget \/
         Move \/ MoveMissing \/ MoveFails
  PROVE  RecordInv'
<1> USE Commands
<1> USE DEF RecordInv, RecordMatchesContent, InProgress, Typed, TypeOK, Control, Installing,
    Removing, At, Actor
<1>1. CASE RemoveBegins
  BY <1>1 DEF RemoveBegins, OthersUnchanged, OpUnchanged, Goto, storeVars
<1>2. CASE RemoveEnds
  BY <1>2 DEF RemoveEnds, OthersUnchanged, OpUnchanged, Goto, storeVars
<1>3. CASE RemoveFails
  BY <1>3 DEF RemoveFails, OthersUnchanged, Fails, Goto, storeVars
<1>4. CASE Removed
  BY <1>4 DEF Removed, OthersUnchanged, OpUnchanged, Goto, storeVars
<1>5. CASE Forget
  BY <1>5 DEF Forget, AfterUpdate, Update, Discover, Goto, Settled
<1>6. CASE Move
  BY <1>6 DEF Move, OthersUnchanged, OpUnchanged, Goto, storeVars
<1>7. CASE MoveMissing
  BY <1>7 DEF MoveMissing, Discover, Goto, storeVars
<1>8. CASE MoveFails
  BY <1>8 DEF MoveFails, OthersUnchanged, Fails, Goto, storeVars
<1> QED
  BY <1>1, <1>2, <1>3, <1>4, <1>5, <1>6, <1>7, <1>8

LEMMA RecordAfterPack ==
  ASSUME Typed, RecordInv, Find \/ FindFails \/ PackBegins \/ PackEnds \/ CloseFails \/ CollectEnds
  PROVE  RecordInv'
<1> USE Commands
<1> USE DEF RecordInv, RecordMatchesContent, InProgress, Typed, TypeOK, Control, Installing,
    Removing, At, Actor
<1>1. CASE Find
  BY <1>1 DEF Find, SyncUnchanged, Discovered, Goto, storeVars
<1>2. CASE FindFails
  BY <1>2 DEF FindFails, Discovered, Rest, Goto, storeVars
<1>3. CASE PackBegins
  BY <1>3 DEF PackBegins, Goto, storeVars
<1>4. CASE PackEnds
  BY <1>4 DEF PackEnds, Goto, storeVars
<1>5. CASE CloseFails
  BY <1>5 DEF CloseFails, Goto, storeVars
<1>6. CASE CollectEnds
  BY <1>6 DEF CollectEnds, Goto, storeVars
<1> QED
  BY <1>1, <1>2, <1>3, <1>4, <1>5, <1>6

LEMMA RecordAfterOthers ==
  ASSUME Typed, RecordInv, Edit \/ Crash
  PROVE  RecordInv'
<1> USE Commands
<1> USE DEF RecordInv, RecordMatchesContent, InProgress, Typed, TypeOK, Control, Installing,
    Removing, At, Actor
<1>1. CASE Edit
  BY <1>1 DEF Edit, storeVars, opVars
<1>2. CASE Crash
  BY <1>2 DEF Crash
<1> QED
  BY <1>1, <1>2

LEMMA RecordStep ==
  ASSUME Typed, RecordInv, [Next]_vars
  PROVE  RecordInv'
<1>1. ASSUME NEW a \in Actor, SyncStep(a) PROVE RecordInv'
  BY <1>1, RecordAfterSync DEF SyncStep
<1>2. CASE LoopStep
  BY <1>1, <1>2, RecordAfterBegin DEF LoopStep, Actor
<1>3. CASE ExecutorStep
  BY <1>1, <1>3, RecordAfterInstall, RecordAfterRemove, RecordAfterPack
  DEF ExecutorStep, InstallStep, RemoveStep, CollectStep, Actor
<1>4. CASE Command \/ SyncCommand \/ CollectCommand \/ Edit \/ Crash
  BY <1>4, RecordAfterBegin, RecordAfterOthers
<1>5. CASE UNCHANGED vars
  BY <1>5
  DEF vars, storeVars, opVars, RecordInv, RecordMatchesContent, InProgress, At
<1> QED
  BY <1>2, <1>3, <1>4, <1>5 DEF Next

-----------------------------------------------------------------------------
LEMMA PackAfterSync ==
  ASSUME Typed, PackInv, NEW a \in Actor, Hash(a) \/ HashFails(a) \/ Decide(a) \/ Arrive(a) \/
         ReportFails(a) \/ Reported(a)
  PROVE  PackInv'
<1> USE Commands
<1> USE DEF PackInv, PackageMatchesLabel, Typed, TypeOK, Control, Packing, Installing, Removing,
    At, Actor, Collecting
<1>1. CASE Hash(a)
  BY <1>1 DEF Hash, SyncUnchanged, opVars, packVars
<1>2. CASE HashFails(a)
  BY <1>2 DEF HashFails, Rest, Goto, opVars, packVars
<1>3. CASE Decide(a)
  BY <1>3 DEF Decide, SyncUnchanged, Rest, Goto, syncVars, opVars, packVars
<1>4. CASE Arrive(a)
  BY <1>4 DEF Arrive, Rest, Goto, syncVars, opVars, packVars
<1>5. CASE ReportFails(a)
  BY <1>5 DEF ReportFails, SyncUnchanged, Rest, Goto, opVars, packVars
<1>6. CASE Reported(a)
  BY <1>6 DEF Reported, Rest, Goto, opVars, packVars
<1> QED
  BY <1>1, <1>2, <1>3, <1>4, <1>5, <1>6

LEMMA PackAfterBegin ==
  ASSUME Typed, PackInv, FullTick \/ IncrementalTick \/ Command \/ SyncCommand \/ CollectCommand
  PROVE  PackInv'
<1> USE Commands
<1> USE DEF PackInv, PackageMatchesLabel, Typed, TypeOK, Control, Packing, Installing, Removing,
    At, Actor, Collecting
<1>1. CASE FullTick
  BY <1>1 DEF FullTick, SyncUnchanged, Discover, Goto, opVars, packVars
<1>2. CASE IncrementalTick
  BY <1>2 DEF IncrementalTick, SyncUnchanged, Discover, Goto, opVars, packVars
<1>3. CASE Command
  BY <1>3 DEF Command, Goto
<1>4. CASE SyncCommand
  BY <1>4 DEF SyncCommand, Discover, Goto, opVars
<1>5. CASE CollectCommand
  <2>1. Discover("executor", TRUE)
    BY <1>5 DEF CollectCommand
  <2>2. pc'["executor"] = "hash" /\ \A s \in Skill : items'["executor"][s] = NotThere
    BY <2>1, Listed
  <2> QED
    BY <2>2
<1> QED
  BY <1>1, <1>2, <1>3, <1>4, <1>5

LEMMA PackAfterInstall ==
  ASSUME Typed, PackInv, Check \/ CheckFails \/ Download \/ DownloadFails \/ Activate \/
         CopyBegins \/ CopyEnds \/ ActivateFails \/ Persist
  PROVE  PackInv'
<1> USE Commands
<1> USE DEF PackInv, PackageMatchesLabel, Typed, TypeOK, Control, Packing, Installing, Removing,
    At, Actor, Collecting
<1>1. CASE Check
  BY <1>1 DEF Check, Goto
<1>2. CASE CheckFails
  BY <1>2 DEF CheckFails, Fails, Goto
<1>3. CASE Download
  BY <1>3 DEF Download, Goto
<1>4. CASE DownloadFails
  BY <1>4 DEF DownloadFails, Fails, Goto
<1>5. CASE Activate
  BY <1>5 DEF Activate, Goto
<1>6. CASE CopyBegins
  BY <1>6 DEF CopyBegins, Goto
<1>7. CASE CopyEnds
  BY <1>7 DEF CopyEnds, Goto
<1>8. CASE ActivateFails
  BY <1>8 DEF ActivateFails, Fails, Goto
<1>9. CASE Persist
  BY <1>9 DEF Persist, AfterUpdate, OpEnds, Discover, Goto
<1> QED
  BY <1>1, <1>2, <1>3, <1>4, <1>5, <1>6, <1>7, <1>8, <1>9

LEMMA PackAfterRemove ==
  ASSUME Typed, PackInv, RemoveBegins \/ RemoveEnds \/ RemoveFails \/ Removed \/ Forget \/
         Move \/ MoveMissing \/ MoveFails
  PROVE  PackInv'
<1> USE Commands
<1> USE DEF PackInv, PackageMatchesLabel, Typed, TypeOK, Control, Packing, Installing, Removing,
    At, Actor, Collecting
<1>1. CASE RemoveBegins
  BY <1>1 DEF RemoveBegins, Goto
<1>2. CASE RemoveEnds
  BY <1>2 DEF RemoveEnds, Goto
<1>3. CASE RemoveFails
  BY <1>3 DEF RemoveFails, Fails, Goto
<1>4. CASE Removed
  BY <1>4 DEF Removed, Goto
<1>5. CASE Forget
  BY <1>5 DEF Forget, AfterUpdate, OpEnds, Discover, Goto
<1>6. CASE Move
  BY <1>6 DEF Move, Goto
<1>7. CASE MoveMissing
  BY <1>7 DEF MoveMissing, OpEnds, Discover, Goto
<1>8. CASE MoveFails
  BY <1>8 DEF MoveFails, Fails, Goto
<1> QED
  BY <1>1, <1>2, <1>3, <1>4, <1>5, <1>6, <1>7, <1>8

LEMMA PackAfterPack ==
  ASSUME Typed, PackInv, Find \/ FindFails \/ PackBegins \/ PackEnds \/ CloseFails \/ CollectEnds
  PROVE  PackInv'
<1> USE Commands
<1> USE DEF PackInv, PackageMatchesLabel, Typed, TypeOK, Control, Packing, Installing, Removing,
    At, Actor, Collecting
<1>1. CASE Find
  <2>1. PICK s \in Skill : /\ Matches = {s} /\ op' = [op EXCEPT !.skill = s]
                           /\ got' = items["executor"][s].md5
    BY <1>1 DEF Find
  <2>2. /\ At("hash") /\ Collecting /\ pc' = [pc EXCEPT !["executor"] = "pack"]
        /\ UNCHANGED <<disk, altered>>
    BY <1>1 DEF Find, Discovered, Goto, SyncUnchanged, packVars
  <2>3. items["executor"][s] # NotThere
    BY <2>1 DEF Matches
  <2>4. disk[s] = got' \/ s \in altered
    BY <2>1, <2>2, <2>3
  <2>5. op'.skill = s
    BY <2>1
  <2> QED
    BY <2>2, <2>4, <2>5
<1>2. CASE FindFails
  BY <1>2 DEF FindFails, Rest, Goto
<1>3. CASE PackBegins
  BY <1>3 DEF PackBegins, Goto, opVars
<1>4. CASE PackEnds
  BY <1>4 DEF PackEnds, Goto, opVars
<1>5. CASE CloseFails
  BY <1>5 DEF CloseFails, Goto, opVars
<1>6. CASE CollectEnds
  BY <1>6 DEF CollectEnds, Goto
<1> QED
  BY <1>1, <1>2, <1>3, <1>4, <1>5, <1>6

LEMMA PackAfterOthers ==
  ASSUME Typed, PackInv, Edit \/ Crash
  PROVE  PackInv'
<1> USE Commands
<1> USE DEF PackInv, PackageMatchesLabel, Typed, TypeOK, Control, Packing, Installing, Removing,
    At, Actor, Collecting
<1>1. CASE Edit
  BY <1>1 DEF Edit, syncVars, opVars
<1>2. CASE Crash
  BY <1>2 DEF Crash
<1> QED
  BY <1>1, <1>2

LEMMA PackStep ==
  ASSUME Typed, PackInv, [Next]_vars
  PROVE  PackInv'
<1>1. ASSUME NEW a \in Actor, SyncStep(a) PROVE PackInv'
  BY <1>1, PackAfterSync DEF SyncStep
<1>2. CASE LoopStep
  BY <1>1, <1>2, PackAfterBegin DEF LoopStep, Actor
<1>3. CASE ExecutorStep
  BY <1>1, <1>3, PackAfterInstall, PackAfterRemove, PackAfterPack
  DEF ExecutorStep, InstallStep, RemoveStep, CollectStep, Actor
<1>4. CASE Command \/ SyncCommand \/ CollectCommand \/ Edit \/ Crash
  BY <1>4, PackAfterBegin, PackAfterOthers
<1>5. CASE UNCHANGED vars
  BY <1>5
  DEF vars, syncVars, opVars, packVars, PackInv, PackageMatchesLabel, At,
      Collecting
<1> QED
  BY <1>2, <1>3, <1>4, <1>5 DEF Next

-----------------------------------------------------------------------------
LEMMA DigestAfterSync ==
  ASSUME Typed, DigestInv, NEW a \in Actor, Hash(a) \/ HashFails(a) \/ Decide(a) \/
         Arrive(a) \/ ReportFails(a) \/ Reported(a)
  PROVE  DigestInv'
<1> USE Values
<1> USE DEF DigestInv, DigestWasReported, Typed, TypeOK, Control
<1>1. CASE Hash(a)
  BY <1>1 DEF Hash, SyncUnchanged, storeVars
<1>2. CASE HashFails(a)
  BY <1>2 DEF HashFails, Rest, Goto, storeVars
<1>3. CASE Decide(a)
  BY <1>3 DEF Decide, SyncUnchanged, Rest, Goto, storeVars, syncVars
<1>4. CASE Arrive(a)
  BY <1>4 DEF Arrive, Rest, Goto, syncVars
<1>5. CASE ReportFails(a)
  BY <1>5 DEF ReportFails, SyncUnchanged, Rest, Goto, storeVars
<1>6. CASE Reported(a)
  BY <1>6 DEF Reported, Update, Rest, Goto
<1> QED
  BY <1>1, <1>2, <1>3, <1>4, <1>5, <1>6

LEMMA DigestAfterBegin ==
  ASSUME Typed, DigestInv, FullTick \/ IncrementalTick \/ Command \/ SyncCommand \/ CollectCommand
  PROVE  DigestInv'
<1> USE Values
<1> USE DEF DigestInv, DigestWasReported, Typed, Control, At
<1>1. CASE FullTick
  BY <1>1 DEF FullTick, SyncUnchanged, Discover, Goto, storeVars
<1>2. CASE IncrementalTick
  BY <1>2 DEF IncrementalTick, SyncUnchanged, Discover, Goto, storeVars
<1>3. CASE Command
  <2>1. op' \in Op /\ pc["executor"] = "idle"
    BY <1>3 DEF Command
  <2>2. pc' \in {[pc EXCEPT !["executor"] = label] : label \in {"check", "remove", "move"}}
    BY <1>3, Commands DEF Command, Goto
  <2>3. UNCHANGED <<digest, remote, items, last, doubt>>
    BY <1>3 DEF Command, storeVars, syncVars
  <2> QED
    BY <2>1, <2>2, <2>3
<1>4. CASE SyncCommand
  BY <1>4 DEF SyncCommand, Discover, Goto, storeVars
<1>5. CASE CollectCommand
  BY <1>5 DEF CollectCommand, Discover, Goto, storeVars
<1> QED
  BY <1>1, <1>2, <1>3, <1>4, <1>5

LEMMA DigestAfterInstall ==
  ASSUME Typed, DigestInv, Check \/ CheckFails \/ Download \/ DownloadFails \/ Activate \/
         CopyBegins \/ CopyEnds \/ ActivateFails \/ Persist
  PROVE  DigestInv'
<1> USE Values
<1> USE DEF DigestInv, DigestWasReported, Typed, TypeOK, Control, At
<1>1. CASE Check
  BY <1>1 DEF Check, OthersUnchanged, OpUnchanged, Goto, storeVars, syncVars
<1>2. CASE CheckFails
  BY <1>2 DEF CheckFails, OthersUnchanged, Fails, Goto, storeVars, syncVars
<1>3. CASE Download
  BY <1>3
  DEF Download, OthersUnchanged, OpUnchanged, Goto, storeVars, syncVars
<1>4. CASE DownloadFails
  BY <1>4 DEF DownloadFails, OthersUnchanged, Fails, Goto, storeVars, syncVars
<1>5. CASE Activate
  BY <1>5
  DEF Activate, OthersUnchanged, OpUnchanged, Goto, storeVars, syncVars
<1>6. CASE CopyBegins
  BY <1>6
  DEF CopyBegins, OthersUnchanged, OpUnchanged, Goto, storeVars, syncVars
<1>7. CASE CopyEnds
  BY <1>7
  DEF CopyEnds, OthersUnchanged, OpUnchanged, Goto, storeVars, syncVars
<1>8. CASE ActivateFails
  BY <1>8 DEF ActivateFails, OthersUnchanged, Fails, Goto, storeVars, syncVars
<1>9. CASE Persist
  BY <1>9 DEF Persist, AfterUpdate, Update, Discover, Goto, syncVars
<1> QED
  BY <1>1, <1>2, <1>3, <1>4, <1>5, <1>6, <1>7, <1>8, <1>9

LEMMA DigestAfterRemove ==
  ASSUME Typed, DigestInv, RemoveBegins \/ RemoveEnds \/ RemoveFails \/ Removed \/ Forget \/
         Move \/ MoveMissing \/ MoveFails
  PROVE  DigestInv'
<1> USE Values
<1> USE DEF DigestInv, DigestWasReported, Typed, TypeOK, Control, At
<1>1. CASE RemoveBegins
  BY <1>1
  DEF RemoveBegins, OthersUnchanged, OpUnchanged, Goto, storeVars, syncVars
<1>2. CASE RemoveEnds
  BY <1>2
  DEF RemoveEnds, OthersUnchanged, OpUnchanged, Goto, storeVars, syncVars
<1>3. CASE RemoveFails
  BY <1>3 DEF RemoveFails, OthersUnchanged, Fails, Goto, storeVars, syncVars
<1>4. CASE Removed
  BY <1>4 DEF Removed, OthersUnchanged, OpUnchanged, Goto, storeVars, syncVars
<1>5. CASE Forget
  BY <1>5 DEF Forget, AfterUpdate, Update, Discover, Goto, syncVars
<1>6. CASE Move
  BY <1>6 DEF Move, OthersUnchanged, OpUnchanged, Goto, storeVars, syncVars
<1>7. CASE MoveMissing
  BY <1>7 DEF MoveMissing, Discover, Goto, storeVars
<1>8. CASE MoveFails
  BY <1>8 DEF MoveFails, OthersUnchanged, Fails, Goto, storeVars, syncVars
<1> QED
  BY <1>1, <1>2, <1>3, <1>4, <1>5, <1>6, <1>7, <1>8

LEMMA DigestAfterPack ==
  ASSUME Typed, DigestInv, Find \/ FindFails \/ PackBegins \/ PackEnds \/ CloseFails \/ CollectEnds
  PROVE  DigestInv'
<1> USE Values
<1> USE DEF DigestInv, DigestWasReported, At
<1>1. CASE Find
  BY <1>1 DEF Find, SyncUnchanged, Discovered, Goto, storeVars
<1>2. CASE FindFails
  BY <1>2 DEF FindFails, Discovered, Rest, Goto, storeVars
<1>3. CASE PackBegins
  BY <1>3 DEF PackBegins, Goto, storeVars, syncVars
<1>4. CASE PackEnds
  BY <1>4 DEF PackEnds, Goto, storeVars, syncVars
<1>5. CASE CloseFails
  BY <1>5 DEF CloseFails, Goto, storeVars, syncVars
<1>6. CASE CollectEnds
  BY <1>6 DEF CollectEnds, Goto, storeVars, syncVars
<1> QED
  BY <1>1, <1>2, <1>3, <1>4, <1>5, <1>6

LEMMA DigestAfterOthers ==
  ASSUME Typed, DigestInv, Edit \/ Crash
  PROVE  DigestInv'
<1> USE Values
<1> USE DEF DigestInv, DigestWasReported, Actor
<1>1. CASE Edit
  BY <1>1 DEF Edit, storeVars, syncVars
<1>2. CASE Crash
  <2>1. /\ doubt' = (doubt \/ digest' # digest \/ \E a \in Actor : pc[a] = "arrived")
        /\ UNCHANGED remote
        /\ pc' = [executor |-> "idle", loop |-> "boot"]
    BY <1>2 DEF Crash
  <2>2. DigestWasReported'
    <3> SUFFICES ASSUME ~doubt' PROVE digest' \in {NoDigest, Digest(remote')}
      OBVIOUS
    <3> QED
      BY <2>1
  <2>3. \A a \in Actor : pc'[a] # "arrived"
    BY <2>1
  <2> QED
    BY <2>2, <2>3
<1> QED
  BY <1>1, <1>2

LEMMA DigestStep ==
  ASSUME Typed, DigestInv, [Next]_vars
  PROVE  DigestInv'
<1>1. ASSUME NEW a \in Actor, SyncStep(a) PROVE DigestInv'
  BY <1>1, DigestAfterSync DEF SyncStep
<1>2. CASE LoopStep
  BY <1>1, <1>2, DigestAfterBegin DEF LoopStep, Actor
<1>3. CASE ExecutorStep
  BY <1>1, <1>3, DigestAfterInstall, DigestAfterRemove, DigestAfterPack
  DEF ExecutorStep, InstallStep, RemoveStep, CollectStep, Actor
<1>4. CASE Command \/ SyncCommand \/ CollectCommand \/ Edit \/ Crash
  BY <1>4, DigestAfterBegin, DigestAfterOthers
<1>5. CASE UNCHANGED vars
  BY <1>5 DEF vars, storeVars, syncVars, DigestInv, DigestWasReported
<1> QED
  BY <1>2, <1>3, <1>4, <1>5 DEF Next

-----------------------------------------------------------------------------
(* Whatever the bounds, the variables keep their types and every command     *)
(* holds what its place says.                                                *)
THEOREM TypeCorrect == Spec => []TypeOK
<1>1. Typed => TypeOK
  BY DEF Typed
<1> QED
  BY InitTyped, TypedStep, <1>1, PTL DEF Spec

(* A record describes what is at its path: whatever the loop, the crashes,   *)
(* the failed writes and the edits do in between, a command writes its       *)
(* record only for what it has put there, and what breaks this for a skill   *)
(* is on record as such (persistManagedSkill, Uninstall, Disable).           *)
THEOREM RecordsAreTrue == Spec => []RecordMatchesContent
<1>1. Init => RecordInv
  BY DEF Init, RecordInv, RecordMatchesContent, At
<1>2. RecordInv => RecordMatchesContent
  BY DEF RecordInv
<1> QED
  BY InitTyped, TypedStep, RecordStep, <1>1, <1>2, PTL DEF Spec

(* The archive that goes up holds what the MD5 sent with it says, or the     *)
(* skill was changed between hashing and packing, or its archive was not     *)
(* ended (CollectPackage, packageSkillArchive).                              *)
THEOREM LabelsAreTrue == Spec => []PackageMatchesLabel
<1>1. Init => PackInv
  BY DEF Init, PackInv, PackageMatchesLabel, At
<1>2. PackInv => PackageMatchesLabel
  BY DEF PackInv
<1> QED
  BY InitTyped, TypedStep, PackStep, <1>1, <1>2, PTL DEF Spec

(* The digest that lets a sync be skipped is that of the last inventory the  *)
(* control plane received, unless an answer or a write was lost or two syncs *)
(* crossed (Sync, syncInventory).                                            *)
THEOREM SkippingIsSafe == Spec => []DigestWasReported
<1>1. Init => DigestInv
  BY DEF Init, DigestInv, DigestWasReported
<1>2. DigestInv => DigestWasReported
  BY DEF DigestInv
<1> QED
  BY InitTyped, TypedStep, DigestStep, <1>1, <1>2, PTL DEF Spec
=============================================================================
