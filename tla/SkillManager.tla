----------------------------- MODULE SkillManager -----------------------------
(***************************************************************************)
(* Skills on disk, the records of them in the store and the inventory the  *)
(* control plane has (src/internal/skills/manager.go).  Two goroutines     *)
(* share them without a lock: the executor carries out one skill command   *)
(* at a time and then syncs; the skill loop syncs on its tickers.  A user  *)
(* or OpenClaw edits skills too, and the agent may die anywhere.           *)
(*                                                                         *)
(* A skill's content is what its MD5 says of it.  Skills built into        *)
(* OpenClaw are in every inventory and never change, so they are left out, *)
(* and so is the time a record was made.  A definition Next does not use   *)
(* is a mistake an edit of the code could make.                            *)
(***************************************************************************)
EXTENDS Naturals, FiniteSets

CONSTANTS Skill,       \* paths of skills in the workspace
          Content,     \* contents of a skill, by their MD5
          Version,     \* versions the control plane may ask for
          Absent,      \* nothing at a path
          Partial,     \* a directory half removed or half copied
          Unreadable,  \* an entry that cannot be hashed, as a link to a directory
          None,        \* no record, version, digest or wanted MD5
          MaxOps,      \* bound: skill commands
          MaxEdits,    \* bound: changes made by others
          MaxFaults    \* bound: crashes and failed writes of state.json or an archive

Actor == {"executor", "loop"}

ASSUME SkillAssumption == IsFiniteSet(Skill) /\ IsFiniteSet(Content) /\ IsFiniteSet(Version)
ASSUME ValueAssumption ==
  /\ Absent \notin Content \cup {Partial, Unreadable, None}
  /\ Partial \notin Content \cup {Unreadable, None}
  /\ Unreadable \notin Content \cup {None}
  /\ None \notin Content \cup Version
ASSUME BoundAssumption == MaxOps \in Nat /\ MaxEdits \in Nat /\ MaxFaults \in Nat

Hashable == Content \cup {Partial}
Item == [md5 : Hashable, version : Version \cup {None}]   \* None: not injected
NotThere == [md5 |-> Absent, version |-> None]
Inventory == [Skill -> Item \cup {NotThere}]
Record == [md5 : Hashable, version : Version]
NoRecord == [md5 |-> None, version |-> None]

(* inventoryDigest: path, MD5 and source, but not the version, of each item. *)
Digest(inventory) ==
  [s \in Skill |-> <<inventory[s].md5, inventory[s].version # None>>]
NoDigest == <<>>

VARIABLES
  disk,      \* disk[s]: what is at the path of s
  managed,   \* ManagedSkills in memory
  digest,    \* LastSkillInventoryDigest in memory
  stored,    \* both in state.json
  remote,    \* the inventory the control plane received last
  pc,        \* pc[a]
  forced,    \* forced[a]: the force argument of the sync in progress
  todo,      \* todo[a]: entries listed and not yet hashed
  items,     \* items[a]: the inventory as far as collected
  op,        \* the skill command the executor carries out
  got,       \* the content it has staged, found in place or hashed
  packed,    \* the content in the archive a collect command has made
  ops, edits, faults,
  last,      \* history: whose report the control plane received last
  doubt,     \* history: the digest may not be that of remote
  disturbed, \* history: skills changed by others or by a command cut off
  altered    \* history: skills changed since the collect command hashed them,
             \* or whose archive could not be ended

storeVars == <<managed, digest, stored>>
syncVars == <<forced, todo, items>>
opVars == <<op, got>>
bounds == <<ops, edits, faults>>
packVars == <<packed, altered>>
vars == <<disk, storeVars, remote, pc, syncVars, opVars, bounds, last, doubt, disturbed, packVars>>

Op == [kind : {"install"}, skill : Skill, version : Version, want : Content \cup {None}]
        \cup [kind : {"uninstall", "disable"}, skill : Skill, version : {None}, want : {None}]

(* A collect command names a skill, a content or both. *)
CollectOp == [kind : {"collect"}, skill : Skill \cup {None}, version : {None}, want : Content \cup {None}]

ASSUME OpAssumption == None \notin Op \cup CollectOp

TypeOK ==
  /\ disk \in [Skill -> Hashable \cup {Absent, Unreadable}]
  /\ managed \in [Skill -> Record \cup {NoRecord}]
  /\ stored.managed \in [Skill -> Record \cup {NoRecord}]
  /\ remote \in Inventory
  /\ pc["loop"] \in {"boot", "idle", "hash", "report", "arrived"}
  /\ pc["executor"] \in {"idle", "check", "download", "remove", "removing", "removed", "copying",
                         "move", "persist", "forget", "pack", "packing", "upload",
                         "hash", "report", "arrived"}
  /\ forced \in [Actor -> BOOLEAN]
  /\ todo \in [Actor -> SUBSET Skill]
  /\ items \in [Actor -> Inventory]
  /\ op \in Op \cup CollectOp \cup {None} /\ got \in Hashable \cup {None}
  /\ packed \in Hashable \cup {None} /\ altered \subseteq Skill
  /\ ops \in 0 .. MaxOps /\ edits \in 0 .. MaxEdits /\ faults \in 0 .. MaxFaults
  /\ disturbed \subseteq Skill

Empty == [s \in Skill |-> NotThere]

Init ==
  /\ disk \in [Skill -> Content \cup {Absent}]
  /\ managed = [s \in Skill |-> NoRecord]
  /\ digest = NoDigest
  /\ stored = [managed |-> managed, digest |-> digest]
  /\ remote = Empty
  /\ pc = [executor |-> "idle", loop |-> "boot"]
  /\ forced = [a \in Actor |-> FALSE]
  /\ todo = [a \in Actor |-> {}]
  /\ items = [a \in Actor |-> Empty]
  /\ op = None /\ got = None /\ packed = None /\ altered = {}
  /\ ops = 0 /\ edits = 0 /\ faults = 0
  /\ last = "loop" /\ doubt = FALSE /\ disturbed = {}

Goto(a, label) == pc' = [pc EXCEPT ![a] = label]

(* The end of a sync: its locals are gone. *)
Rest(a) ==
  /\ Goto(a, "idle")
  /\ forced' = [forced EXCEPT ![a] = FALSE]
  /\ todo' = [todo EXCEPT ![a] = {}]
  /\ items' = [items EXCEPT ![a] = Empty]

(* store.Update: memory changes, then state.json; ok says whether the write  *)
(* went well.                                                                *)
Update(m, d, ok) ==
  /\ managed' = m /\ digest' = d
  /\ IF ok THEN stored' = [managed |-> m, digest |-> d] /\ UNCHANGED faults
     ELSE faults < MaxFaults /\ faults' = faults + 1 /\ UNCHANGED stored

-----------------------------------------------------------------------------
(* Sync. *)

(* Discover lists the directory and then hashes what it found. *)
Discover(a, force) ==
  /\ Goto(a, "hash")
  /\ forced' = [forced EXCEPT ![a] = force]
  /\ todo' = [todo EXCEPT ![a] = {s \in Skill : disk[s] # Absent}]
  /\ items' = [items EXCEPT ![a] = Empty]

SyncUnchanged == UNCHANGED <<disk, storeVars, remote, bounds, last, doubt, disturbed, packVars>>

OpEnds == op' = None /\ got' = None /\ packed' = None /\ altered' = {}
Collecting == op # None /\ op.kind = "collect"

(* The record that goes into an item is that of the live map: Snapshot       *)
(* copies the reference, not the entries.                                    *)
Hash(a) ==
  /\ pc[a] = "hash"
  /\ \E s \in todo[a] :
       /\ disk[s] \in Hashable
       /\ items' = [items EXCEPT ![a][s] = [md5 |-> disk[s], version |-> managed[s].version]]
       /\ todo' = [todo EXCEPT ![a] = @ \ {s}]
  /\ UNCHANGED <<pc, forced, opVars>> /\ SyncUnchanged

(* An entry that has gone since it was listed, or cannot be read, fails the  *)
(* whole sync, or the collect command.                                       *)
HashFails(a) ==
  /\ pc[a] = "hash"
  /\ \E s \in todo[a] : disk[s] \notin Hashable
  /\ IF a = "executor" THEN OpEnds ELSE UNCHANGED <<opVars, packVars>>
  /\ Rest(a)
  /\ UNCHANGED <<disk, storeVars, remote, bounds, last, doubt, disturbed>>

Skips(a) == ~forced[a] /\ Digest(items[a]) = digest

Decide(a) ==
  /\ pc[a] = "hash" /\ todo[a] = {}
  /\ a = "executor" => ~Collecting
  /\ IF Skips(a) THEN Rest(a) ELSE Goto(a, "report") /\ UNCHANGED syncVars
  /\ UNCHANGED opVars /\ SyncUnchanged

(* The report arrives, and its answer does or does not. *)
Arrive(a) ==
  /\ pc[a] = "report"
  /\ remote' = items[a] /\ last' = a
  /\ \/ Goto(a, "arrived") /\ UNCHANGED <<syncVars, doubt>>
     \/ Rest(a) /\ doubt' = TRUE
  /\ UNCHANGED <<disk, storeVars, opVars, bounds, disturbed, packVars>>

ReportFailsUnheeded(a) ==
  /\ pc[a] = "report"
  /\ Goto(a, "arrived")
  /\ UNCHANGED <<syncVars, opVars>> /\ SyncUnchanged

ReportFails(a) ==
  /\ pc[a] = "report"
  /\ Rest(a) /\ UNCHANGED opVars /\ SyncUnchanged

(* The digest of what was reported is stored, whoever has reported since. *)
Reported(a) ==
  /\ pc[a] = "arrived"
  /\ \E ok \in BOOLEAN : Update(managed, Digest(items[a]), ok)
  /\ Rest(a)
  /\ doubt' = (last # a)
  /\ UNCHANGED <<disk, remote, opVars, ops, edits, last, disturbed, packVars>>

-----------------------------------------------------------------------------
(* The skill loop. *)

FullTickUnforced ==
  /\ pc["loop"] \in {"boot", "idle"}
  /\ Discover("loop", pc["loop"] = "boot")
  /\ UNCHANGED opVars /\ SyncUnchanged

(* At boot and at each tick of fullTicker. *)
FullTick ==
  /\ pc["loop"] \in {"boot", "idle"}
  /\ Discover("loop", TRUE)
  /\ UNCHANGED opVars /\ SyncUnchanged

IncrementalTick ==
  /\ pc["loop"] = "idle"
  /\ Discover("loop", FALSE)
  /\ UNCHANGED opVars /\ SyncUnchanged

-----------------------------------------------------------------------------
(* The executor's skill commands that change something.  Each ends in a      *)
(* forced sync, unless it fails.                                             *)
At(label) == pc["executor"] = label
OthersUnchanged == UNCHANGED <<storeVars, remote, syncVars, ops, edits, faults, last, doubt>>
OpUnchanged == UNCHANGED <<op, packVars>> /\ OthersUnchanged

Fails(cutOff) ==
  /\ Goto("executor", "idle") /\ OpEnds /\ OthersUnchanged
  /\ disturbed' = IF cutOff THEN disturbed \cup {op.skill} ELSE disturbed

Command ==
  /\ At("idle") /\ ops < MaxOps
  /\ ops' = ops + 1
  /\ op' \in Op
  /\ got' = None
  /\ Goto("executor", CASE op'.kind = "install" -> "check"
                        [] op'.kind = "uninstall" -> "remove"
                        [] op'.kind = "disable" -> "move")
  /\ UNCHANGED <<disk, storeVars, remote, syncVars, edits, faults, last, doubt, disturbed, packVars>>

(* sync_skill_inventory, and the end of the other commands. *)
SyncCommand ==
  /\ At("idle") /\ ops < MaxOps
  /\ ops' = ops + 1
  /\ Discover("executor", TRUE)
  /\ UNCHANGED <<disk, storeVars, remote, opVars, edits, faults, last, doubt, disturbed, packVars>>

(* Install: what is wanted is there already, or has to be downloaded. *)
Check ==
  /\ At("check")
  /\ IF op.want # None /\ disk[op.skill] = op.want
     THEN Goto("executor", "persist") /\ got' = op.want
     ELSE Goto("executor", "download") /\ UNCHANGED got
  /\ UNCHANGED <<disk, disturbed>> /\ OpUnchanged

CheckFails ==
  /\ At("check") /\ disk[op.skill] = Unreadable
  /\ Fails(FALSE)
  /\ UNCHANGED disk

(* The archive is staged next to its target and must have the wanted MD5.    *)
Download ==
  /\ At("download")
  /\ got' \in Content
  /\ op.want \in {None, got'}
  /\ Goto("executor", "remove")
  /\ UNCHANGED <<disk, disturbed>> /\ OpUnchanged

(* The download fails, or is not an archive, is empty, or has another MD5.   *)
DownloadFails ==
  /\ At("download")
  /\ Fails(FALSE)
  /\ UNCHANGED disk

(* os.RemoveAll of the target, entry by entry. *)
RemoveBegins ==
  /\ At("remove")
  /\ IF disk[op.skill] = Absent THEN Goto("executor", "removed") /\ UNCHANGED disk
     ELSE Goto("executor", "removing") /\ disk' = [disk EXCEPT ![op.skill] = Partial]
  /\ UNCHANGED <<got, disturbed>> /\ OpUnchanged

RemoveEnds ==
  /\ At("removing")
  /\ disk' = [disk EXCEPT ![op.skill] = Absent]
  /\ Goto("executor", "removed")
  /\ UNCHANGED <<got, disturbed>> /\ OpUnchanged

RemoveFails ==
  /\ At("removing")
  /\ Fails(TRUE)
  /\ UNCHANGED disk

Removed ==
  /\ At("removed") /\ op.kind = "uninstall"
  /\ Goto("executor", "forget")
  /\ UNCHANGED <<disk, got, disturbed>> /\ OpUnchanged

(* activateSkill, after the target is gone: os.Rename, which needs the place *)
(* to be free, *)
Activate ==
  /\ At("removed") /\ op.kind = "install"
  /\ disk[op.skill] = Absent
  /\ disk' = [disk EXCEPT ![op.skill] = got]
  /\ Goto("executor", "persist")
  /\ UNCHANGED <<got, disturbed>> /\ OpUnchanged

(* or, when it is on another device, a copy, entry by entry, onto whatever   *)
(* is there by then.                                                         *)
CopyBegins ==
  /\ At("removed") /\ op.kind = "install"
  /\ disturbed' = IF disk[op.skill] = Absent THEN disturbed ELSE disturbed \cup {op.skill}
  /\ disk' = [disk EXCEPT ![op.skill] = Partial]
  /\ Goto("executor", "copying")
  /\ UNCHANGED got /\ OpUnchanged

CopyEnds ==
  /\ At("copying")
  /\ disk' = [disk EXCEPT ![op.skill] = IF op.skill \in disturbed THEN Partial ELSE got]
  /\ Goto("executor", "persist")
  /\ UNCHANGED <<got, disturbed>> /\ OpUnchanged

ActivateFails ==
  /\ At("removed") \/ At("copying")
  /\ op.kind = "install"
  /\ Fails(TRUE)
  /\ UNCHANGED disk

(* The skill is settled again if what is recorded is what is there. *)
Settled(s, md5) ==
  disturbed' = IF disk[s] = md5 THEN disturbed \ {s} ELSE disturbed

AfterUpdate(ok) ==
  /\ OpEnds
  /\ IF ok THEN Discover("executor", TRUE)
     ELSE Goto("executor", "idle") /\ UNCHANGED syncVars

(* persistManagedSkill *)
Persist ==
  /\ At("persist")
  /\ \E ok \in BOOLEAN :
       /\ Update([managed EXCEPT ![op.skill] = [md5 |-> got, version |-> op.version]], digest, ok)
       /\ AfterUpdate(ok)
  /\ Settled(op.skill, got)
  /\ UNCHANGED <<disk, remote, ops, edits, last, doubt>>

ForgetNothing ==
  /\ At("forget")
  /\ AfterUpdate(TRUE)
  /\ Settled(op.skill, Absent)
  /\ UNCHANGED <<disk, storeVars, faults, remote, ops, edits, last, doubt>>

(* Uninstall deletes the record; Disable moves it to the quarantine path,    *)
(* which no inventory looks at.                                              *)
Forget ==
  /\ At("forget")
  /\ \E ok \in BOOLEAN :
       /\ Update([managed EXCEPT ![op.skill] = NoRecord], digest, ok)
       /\ AfterUpdate(ok)
  /\ Settled(op.skill, Absent)
  /\ UNCHANGED <<disk, remote, ops, edits, last, doubt>>

(* Disable: os.Rename into the quarantine; a missing skill is left alone,    *)
(* record included.                                                          *)
Move ==
  /\ At("move") /\ disk[op.skill] # Absent
  /\ disk' = [disk EXCEPT ![op.skill] = Absent]
  /\ Goto("executor", "forget")
  /\ UNCHANGED <<got, disturbed>> /\ OpUnchanged

MoveMissing ==
  /\ At("move") /\ disk[op.skill] = Absent
  /\ Discover("executor", TRUE) /\ OpEnds
  /\ UNCHANGED <<disk, storeVars, remote, bounds, last, doubt, disturbed>>

MoveFails ==
  /\ At("move")
  /\ Fails(FALSE)
  /\ UNCHANGED disk

-----------------------------------------------------------------------------
(* collect_skill_package: CollectPackage changes nothing on disk that lasts. *)

CollectCommand ==
  /\ At("idle") /\ ops < MaxOps
  /\ ops' = ops + 1
  /\ op' \in CollectOp
  /\ Discover("executor", TRUE)
  /\ UNCHANGED <<disk, storeVars, remote, got, edits, faults, last, doubt, disturbed, packVars>>

Discovered == At("hash") /\ Collecting /\ todo["executor"] = {}

Matches == {s \in Skill : LET item == items["executor"][s]
                          IN /\ item # NotThere
                             /\ op.skill \in {None, s} /\ op.want \in {None, item.md5}}

FindByRecord ==
  /\ Discovered
  /\ \E s \in Skill :
       /\ Matches = {s}
       /\ op' = [op EXCEPT !.skill = s]
       /\ got' = IF managed[s] = NoRecord THEN items["executor"][s].md5 ELSE managed[s].md5
  /\ Goto("executor", "pack")
  /\ items' = [items EXCEPT !["executor"] = Empty] /\ UNCHANGED <<forced, todo>>
  /\ SyncUnchanged

(* findSkillForUpload: one item must match; its MD5 goes with the archive.   *)
Find ==
  /\ Discovered
  /\ \E s \in Skill :
       /\ Matches = {s}
       /\ op' = [op EXCEPT !.skill = s]
       /\ got' = items["executor"][s].md5
  /\ Goto("executor", "pack")
  /\ items' = [items EXCEPT !["executor"] = Empty] /\ UNCHANGED <<forced, todo>>
  /\ SyncUnchanged

(* None matches or several, among which may be skills built into OpenClaw.   *)
FindFails ==
  /\ Discovered
  /\ Rest("executor") /\ OpEnds
  /\ UNCHANGED <<disk, storeVars, remote, bounds, last, doubt, disturbed>>

(* packageSkillArchive reads the skill again, entry by entry. *)
PackBegins ==
  /\ At("pack") /\ disk[op.skill] # Absent
  /\ packed' = IF disk[op.skill] \in Hashable THEN disk[op.skill] ELSE Partial
  /\ Goto("executor", "packing")
  /\ UNCHANGED <<disk, storeVars, remote, syncVars, opVars, bounds, last, doubt, disturbed, altered>>

PackEnds ==
  /\ At("packing")
  /\ packed' \in IF disk[op.skill] = packed THEN {packed} ELSE Hashable
  /\ Goto("executor", "upload")
  /\ UNCHANGED <<disk, storeVars, remote, syncVars, opVars, bounds, last, doubt, disturbed, altered>>

(* The directory of the archive is written by the deferred zw.Close, whose   *)
(* error nobody looks at.                                                    *)
CloseFails ==
  /\ At("packing") /\ faults < MaxFaults
  /\ faults' = faults + 1
  /\ packed' = Partial /\ altered' = altered \cup {op.skill}
  /\ Goto("executor", "upload")
  /\ UNCHANGED <<disk, storeVars, remote, syncVars, opVars, ops, edits, last, doubt, disturbed>>

(* The upload, the failure of it and an error on the way all end the command.*)
CollectEnds ==
  /\ At("pack") \/ At("packing") \/ At("upload")
  /\ Goto("executor", "idle") /\ OpEnds
  /\ UNCHANGED <<disk, storeVars, remote, syncVars, bounds, last, doubt, disturbed>>

-----------------------------------------------------------------------------
(* The environment. *)

Edit ==
  /\ edits < MaxEdits
  /\ edits' = edits + 1
  /\ \E s \in Skill, c \in Content \cup {Absent, Unreadable} :
       /\ disk' = [disk EXCEPT ![s] = c]
       /\ disturbed' = disturbed \cup {s}
       /\ altered' = IF Collecting /\ ~At("upload") /\ s \notin todo["executor"]
                    THEN altered \cup {s} ELSE altered
  /\ UNCHANGED <<storeVars, remote, pc, syncVars, opVars, packed, ops, faults, last, doubt>>

InProgress == pc["executor"] \in {"removing", "removed", "copying", "persist", "forget"}

(* The agent dies, which includes the runtime stopping it because both       *)
(* goroutines use the shared map at once, and starts from state.json.        *)
Crash ==
  /\ faults < MaxFaults
  /\ faults' = faults + 1
  /\ managed' = stored.managed /\ digest' = stored.digest
  /\ pc' = [executor |-> "idle", loop |-> "boot"]
  /\ forced' = [a \in Actor |-> FALSE] /\ todo' = [a \in Actor |-> {}]
  /\ items' = [a \in Actor |-> Empty] /\ OpEnds
  /\ doubt' = (doubt \/ digest' # digest \/ \E a \in Actor : pc[a] = "arrived")
  /\ disturbed' = disturbed \cup {s \in Skill : managed'[s] # managed[s]}
                            \cup (IF InProgress THEN {op.skill} ELSE {})
  /\ UNCHANGED <<disk, stored, remote, ops, edits, last>>

SyncStep(a) ==
  \/ Hash(a) \/ HashFails(a) \/ Decide(a)
  \/ Arrive(a) \/ ReportFails(a) \/ Reported(a)
LoopStep == FullTick \/ IncrementalTick \/ SyncStep("loop")
InstallStep ==
  \/ Check \/ CheckFails \/ Download \/ DownloadFails \/ Activate \/ CopyBegins \/ CopyEnds
  \/ ActivateFails \/ Persist
RemoveStep ==
  \/ RemoveBegins \/ RemoveEnds \/ RemoveFails \/ Removed \/ Forget
  \/ Move \/ MoveMissing \/ MoveFails
CollectStep == Find \/ FindFails \/ PackBegins \/ PackEnds \/ CloseFails \/ CollectEnds
ExecutorStep == InstallStep \/ RemoveStep \/ CollectStep \/ SyncStep("executor")

Next == LoopStep \/ Command \/ SyncCommand \/ CollectCommand \/ ExecutorStep \/ Edit \/ Crash

Spec == Init /\ [][Next]_vars

(* Both goroutines go on, select does not pass over fullTicker for ever, and *)
(* reports get through and are answered again and again.                     *)
FairSpec ==
  /\ Spec
  /\ WF_vars(ExecutorStep) /\ WF_vars(LoopStep)
  /\ SF_vars(FullTick)
  /\ \A a \in Actor : SF_vars(Arrive(a) /\ pc'[a] = "arrived")
-----------------------------------------------------------------------------
(* A record of an injected skill describes what is at its path, unless       *)
(* others or a command that was cut off have changed the skill since, or a   *)
(* command is at work on it.                                                 *)
RecordMatchesContent ==
  \A s \in Skill :
    managed[s] # NoRecord /\ disk[s] # managed[s].md5 =>
      s \in disturbed \/ (InProgress /\ op.skill = s)

(* The archive of a collect command has the content the MD5 sent with it     *)
(* says, whatever the record of the skill says, unless the skill is changed  *)
(* between hashing and packing or the archive cannot be ended.               *)
PackageMatchesLabel ==
  At("upload") => packed = got \/ op.skill \in altered

(* The digest that lets an incremental sync be skipped is that of the        *)
(* inventory the control plane has, unless an answer or a write was lost or  *)
(* two syncs crossed since.                                                  *)
DigestWasReported ==
  ~doubt /\ (\A a \in Actor : pc[a] # "arrived") => digest \in {NoDigest, Digest(remote)}

Current == [s \in Skill |->
  IF disk[s] = Absent THEN NotThere ELSE [md5 |-> disk[s], version |-> managed[s].version]]

(* The control plane ends up with the inventory there is, versions included, *)
(* however syncs crossed and whatever got lost, unless an entry cannot be    *)
(* read.                                                                     *)
Converges == <>[](remote = Current \/ \E s \in Skill : disk[s] = Unreadable)
=============================================================================
