------------------------------ MODULE Bootstrap ------------------------------
(***************************************************************************)
(* What the agent does as root before it becomes the desktop user          *)
(* (src/internal/bootstrap): it seeds the OpenClaw state directory and the *)
(* XFCE autostart entries from the image's defaults, hands them to the     *)
(* user and drops its privileges.  It does so at every start of the        *)
(* container and of the agent, on a volume that the user, whose session    *)
(* outlives the agent, writes meanwhile and that outlives a crash at any   *)
(* step.  As by default, a drop user is configured, the extensions         *)
(* directory is inside the state directory, and the state directory and    *)
(* the one above the autostart entries are directly on the volume.         *)
(*                                                                         *)
(* A definition Next does not use is a mistake an edit of the code could   *)
(* make.                                                                   *)
(***************************************************************************)
EXTENDS Naturals, Sequences, FiniteSets

CONSTANTS Walk,        \* the default files in the order WalkDir visits them
          Desktop,     \* the default *.desktop entries, in ReadDir's order
          ConfigFile,  \* the one that is OpenClawConfigPath
          AsRoot,      \* whether the agent is started as root
          MaxStarts,   \* bound: starts of the agent
          MaxEdits     \* bound: changes made by the user

Files == {Walk[i] : i \in DOMAIN Walk}
Entries == {Desktop[i] : i \in DOMAIN Desktop}
Path == Files \cup Entries

(* The directories, .config above autostart among them; one inside the state *)
(* directory is not told apart from it, but for the extensions.              *)
Dir == {"above", "autostart", "state", "extensions"}
DirOf(p) == IF p \in Files THEN "state" ELSE "autostart"

ASSUME WalkAssumption ==
  /\ Walk \in Seq(Files) /\ Desktop \in Seq(Entries)
  /\ Files \cap Entries = {} /\ Path \cap Dir = {}
  /\ ConfigFile \in Files
ASSUME BootAssumption == AsRoot \in BOOLEAN /\ MaxStarts \in Nat /\ MaxEdits \in Nat

VARIABLES
  phase,      \* how far this start has come
  at,         \* the index of the file in hand
  hand,       \* what copyRegularFile does: none, creating, writing
  disk,       \* disk[p]: absent, torn, default, user
  made,       \* the directories there are
  owner,      \* owner[x]: who owns file or directory x if it is there
  euid,       \* who the agent runs as
  starts, edits,
  seeded,     \* history: this start has to seed
  installed,  \* history: entries the agent has installed
  again,      \* history: entries it has installed again
  cut         \* history: files that were left as they were in mid-copy

where == <<phase, at, hand>>
volume == <<disk, made, owner>>
bounds == <<starts, edits>>
history == <<seeded, installed, again, cut>>
vars == <<where, volume, euid, bounds, history>>

Phase == {"down", "sync", "copy", "extensions", "autostart", "install", "chown",
          "drop", "running"}
State == {"absent", "torn", "default", "user"}
User == {"root", "abc"}

TypeOK ==
  /\ phase \in Phase
  /\ at \in 1 .. Len(Walk) + Len(Desktop) + 1
  /\ hand \in {"none", "creating", "writing"}
  /\ disk \in [Path -> State] /\ made \subseteq Dir
  /\ owner \in [Path \cup Dir -> User]
  /\ euid \in User
  /\ starts \in 0 .. MaxStarts /\ edits \in 0 .. MaxEdits
  /\ seeded \in BOOLEAN
  /\ installed \subseteq Entries /\ again \subseteq Entries /\ cut \subseteq Path

Present(p) == disk[p] # "absent"

(* The volume may be new or may have been used; what is there is the user's. *)
Init ==
  /\ phase = "down" /\ at = 1 /\ hand = "none"
  /\ disk \in [Path -> {"absent", "user"}]
  /\ made \in SUBSET Dir
  /\ "extensions" \in made => "state" \in made
  /\ "autostart" \in made => "above" \in made
  /\ \A p \in Path : Present(p) => DirOf(p) \in made
  /\ owner = [x \in Path \cup Dir |-> "abc"]
  /\ euid = "abc"
  /\ starts = 0 /\ edits = 0
  /\ seeded = FALSE /\ installed = {} /\ again = {} /\ cut = {}

(* log.Fatal or a crash: s6 starts the agent again. *)
Down == phase' = "down" /\ at' = 1 /\ hand' = "none"

Start ==
  /\ phase = "down" /\ starts < MaxStarts
  /\ starts' = starts + 1
  /\ phase' = "sync" /\ euid' = IF AsRoot THEN "root" ELSE "abc"
  /\ UNCHANGED <<at, hand, volume, edits, history>>

(* MkdirAll: what is missing belongs to whom the agent runs as.              *)
Make(dirs) ==
  /\ made' = made \cup dirs
  /\ owner' = [x \in Path \cup Dir |-> IF x \in dirs \ made THEN euid ELSE owner[x]]

-----------------------------------------------------------------------------
(* syncDefaults *)

SyncSkips ==
  /\ phase = "sync"
  /\ "state" \in made /\ Present(ConfigFile)
  /\ phase' = "extensions" /\ seeded' = FALSE
  /\ UNCHANGED <<at, hand, volume, euid, bounds, installed, again, cut>>

SyncBegins ==
  /\ phase = "sync"
  /\ "state" \notin made \/ ~Present(ConfigFile)
  /\ Make({"state"})
  /\ phase' = "copy" /\ at' = 1 /\ seeded' = TRUE
  /\ UNCHANGED <<hand, disk, euid, bounds, installed, again, cut>>

(* The defaults are missing, or something cannot be read or created. *)
StepFails ==
  /\ phase \in {"sync", "copy", "extensions", "autostart", "install", "drop"}
  /\ hand # "writing"
  /\ Down
  /\ UNCHANGED <<volume, euid, bounds, history>>

-----------------------------------------------------------------------------
(* copyTreeIfMissing and the loop of syncAutostart, file by file.            *)

Todo == IF phase = "copy" THEN Walk ELSE Desktop
Walking == phase \in {"copy", "install"}
InHand(p) == Walking /\ hand = "writing" /\ at <= Len(Todo) /\ p = Todo[at]

CopyStopsAtExisting ==
  /\ Walking /\ hand = "none" /\ at <= Len(Todo)
  /\ IF Present(Todo[at])
     THEN at' = Len(Todo) + 1 /\ UNCHANGED hand
     ELSE hand' = "creating" /\ UNCHANGED at
  /\ UNCHANGED <<phase, volume, euid, bounds, history>>

(* What is there is left alone ... *)
Copy ==
  /\ Walking /\ hand = "none" /\ at <= Len(Todo)
  /\ IF Present(Todo[at])
     THEN at' = at + 1 /\ UNCHANGED hand
     ELSE hand' = "creating" /\ UNCHANGED at
  /\ UNCHANGED <<phase, volume, euid, bounds, history>>

CreateOver ==
  /\ hand = "creating"
  /\ hand' = "writing" /\ UNCHANGED <<phase, at>>
  /\ disk' = [disk EXCEPT ![Todo[at]] = "torn"]
  /\ owner' = [owner EXCEPT ![Todo[at]] = euid]
  /\ UNCHANGED <<made, euid, bounds, history>>

(* ... and so is what has got there since: O_EXCL fails, and the start with  *)
(* it.  Else a file is created, empty at first.                              *)
Create ==
  /\ hand = "creating"
  /\ IF Present(Todo[at])
     THEN Down /\ UNCHANGED <<disk, owner>>
     ELSE /\ hand' = "writing" /\ UNCHANGED <<phase, at>>
          /\ disk' = [disk EXCEPT ![Todo[at]] = "torn"]
          /\ owner' = [owner EXCEPT ![Todo[at]] = euid]
  /\ UNCHANGED <<made, euid, bounds, history>>

(* The copy is closed and made readable; a file the user has put in its      *)
(* place stays, one the user has removed makes Chmod fail.                   *)
CopyEnds ==
  LET p == Todo[at]
  IN /\ hand = "writing"
     /\ disk' = [disk EXCEPT ![p] = IF @ = "torn" THEN "default" ELSE @]
     /\ IF Present(p)
        THEN /\ at' = at + 1 /\ hand' = "none" /\ UNCHANGED phase
             /\ installed' = installed \cup (Entries \cap {p})
             /\ again' = again \cup (installed \cap {p})
        ELSE Down /\ UNCHANGED <<installed, again>>
     /\ UNCHANGED <<made, owner, euid, bounds, seeded, cut>>

CopyFailsAsIs ==
  /\ hand = "writing"
  /\ Down
  /\ UNCHANGED <<volume, euid, bounds, history>>

(* io.Copy fails, the disk being full for instance, and the file is removed  *)
(* again, whosever it is by now.                                             *)
CopyFails ==
  /\ hand = "writing"
  /\ disk' = [disk EXCEPT ![Todo[at]] = "absent"]
  /\ Down
  /\ UNCHANGED <<made, owner, euid, bounds, history>>

(* Nothing is removed where Close fails or where Remove itself does ...      *)
CopyStaysTorn ==
  /\ hand = "writing"
  /\ Down
  /\ cut' = cut \cup {p \in Path : InHand(p) /\ disk[p] = "torn"}
  /\ UNCHANGED <<volume, euid, bounds, seeded, installed, again>>

(* ... nor where Chmod does, but then the file is whole. *)
ChmodFails ==
  /\ hand = "writing"
  /\ disk' = [disk EXCEPT ![Todo[at]] = IF @ = "torn" THEN "default" ELSE @]
  /\ Down
  /\ UNCHANGED <<made, owner, euid, bounds, history>>

CopyDoneFromZero ==
  /\ Walking /\ hand = "none" /\ at = Len(Todo) + 1
  /\ phase' = (IF phase = "copy" THEN "extensions" ELSE "chown") /\ at' = 0
  /\ UNCHANGED <<hand, volume, euid, bounds, history>>

CopyDone ==
  /\ Walking /\ hand = "none" /\ at = Len(Todo) + 1
  /\ phase' = (IF phase = "copy" THEN "extensions" ELSE "chown") /\ at' = 1
  /\ UNCHANGED <<hand, volume, euid, bounds, history>>

-----------------------------------------------------------------------------
(* ensureExtensionsDir, and the directory of syncAutostart *)

EnsureExtensions ==
  /\ phase = "extensions"
  /\ Make({"state", "extensions"})
  /\ phase' = "autostart" /\ at' = 1
  /\ UNCHANGED <<hand, disk, euid, bounds, history>>

MakeAutostart ==
  /\ phase = "autostart"
  /\ IF Desktop = <<>> THEN UNCHANGED <<made, owner>> ELSE Make({"above", "autostart"})
  /\ phase' = "install" /\ at' = 1
  /\ UNCHANGED <<hand, disk, euid, bounds, history>>

-----------------------------------------------------------------------------
(* applyOwnership and dropPrivileges *)

(* The two trees that are handed over, which what is above them is not in.   *)
Tree == Path \cup (Dir \ {"above"})

HandedOver(things) ==
  owner' = IF euid = "root"
           THEN [x \in Path \cup Dir |-> IF x \in things THEN "abc" ELSE owner[x]]
           ELSE owner

ChownStateDir ==
  /\ phase = "chown"
  /\ HandedOver(Files \cup {"state", "extensions"})
  /\ phase' = "drop"
  /\ UNCHANGED <<at, hand, disk, made, euid, bounds, history>>

Chown ==
  /\ phase = "chown"
  /\ HandedOver(Tree)
  /\ phase' = "drop"
  /\ UNCHANGED <<at, hand, disk, made, euid, bounds, history>>

(* An error or a crash ends it part of the way. *)
ChownFails ==
  /\ phase = "chown"
  /\ \E part \in SUBSET {x \in Tree : owner[x] = "root"} : HandedOver(part)
  /\ Down
  /\ UNCHANGED <<disk, made, euid, bounds, history>>

Drop ==
  /\ phase = "drop"
  /\ euid' = "abc"
  /\ phase' = "running"
  /\ UNCHANGED <<at, hand, volume, bounds, history>>

-----------------------------------------------------------------------------
(* The environment. *)

Crash ==
  /\ phase # "down"
  /\ Down
  /\ cut' = cut \cup {p \in Path : InHand(p) /\ disk[p] = "torn"}
  /\ UNCHANGED <<volume, euid, bounds, seeded, installed, again>>

Writes(p) == disk' = [disk EXCEPT ![p] = "user"] /\ owner' = [owner EXCEPT ![p] = "abc"]
Deletes(p) == disk' = [disk EXCEPT ![p] = "absent"] /\ UNCHANGED owner

(* The user puts a file in place or deletes one, in a directory of the       *)
(* user's, whatever the agent is doing.                                      *)
Edit ==
  /\ edits < MaxEdits
  /\ edits' = edits + 1
  /\ \E p \in Path :
       /\ DirOf(p) \in made /\ owner[DirOf(p)] = "abc"
       /\ Writes(p) \/ (Present(p) /\ Deletes(p))
       /\ cut' = cut \ {p}
  /\ UNCHANGED <<where, made, euid, starts, seeded, installed, again>>

CopyStep ==
  Copy \/ Create \/ CopyEnds \/ CopyFails \/ CopyStaysTorn \/ ChmodFails \/ CopyDone
Next ==
  \/ Start \/ SyncSkips \/ SyncBegins \/ StepFails \/ CopyStep
  \/ EnsureExtensions \/ MakeAutostart \/ Chown \/ ChownFails \/ Drop
  \/ Crash \/ Edit

Spec == Init /\ [][Next]_vars
-----------------------------------------------------------------------------
(* What the user has put on the volume the agent never changes or removes,   *)
(* also when it gets there while the agent looks for missing files.  The one *)
(* exception is a file put in the place of one the agent is just copying,    *)
(* which is removed if that copy fails (defaultssync.go:103).                *)
NeverOverwritesUser ==
  [][\A p \in Path :
       disk[p] = "user" /\ edits' = edits =>
         disk'[p] = "user" \/ (InHand(p) /\ phase' = "down")]_vars

(* A copy that fails, for want of space for instance, leaves nothing half    *)
(* written, which later starts would take for the user's file.  What does,   *)
(* as long as nobody replaces it, is a crash in mid-copy, a failing Close    *)
(* (defaultssync.go:106-108) or a failing removal (103).                     *)
TornHasCause == \A p \in Path : disk[p] = "torn" => p \in cut \/ InHand(p)

(* A start that had to seed and has come to run has put a default wherever   *)
(* there was nothing, whatever was there before.                             *)
SeedIsComplete ==
  phase = "running" /\ seeded /\ edits = 0 => \A f \in Files : Present(f)

(* The agent, and OpenClaw under it, runs as the desktop user and owns the   *)
(* state directory, the autostart directory and what is in them, also after  *)
(* an earlier start as root was cut off.  It need not own the directory      *)
(* above autostart: applyOwnership does not hand over what MkdirAll made on  *)
(* the way there (autostart.go:43, ownership.go:38-42).                      *)
Exists(x) == IF x \in Dir THEN x \in made ELSE Present(x)

RunsOnOwnFiles ==
  phase = "running" => euid = "abc" /\ \A x \in Tree : Exists(x) => owner[x] = "abc"

(* syncAutostart installs every entry exactly once, as its comment says.     *)
InstalledOnce == again = {}
=============================================================================
