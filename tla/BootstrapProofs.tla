--------------------------- MODULE BootstrapProofs ---------------------------
(***************************************************************************)
(* Proofs about Bootstrap for any default files and autostart entries, any *)
(* number of starts and edits, and an agent started as root or not.        *)
(*                                                                         *)
(* The invariant BInv follows the walks: a half-written file is the one in *)
(* hand or was left in mid-copy, everything before the one in hand is      *)
(* there, and until the step that hands the trees over the agent is root   *)
(* whenever it may own something in them.                                  *)
(***************************************************************************)
EXTENDS Bootstrap, TLAPS

(* The position in the walk. *)
Position ==
  /\ Walking => at \in 1 .. Len(Todo) + 1
  /\ hand # "none" => Walking /\ at <= Len(Todo)

(* How far seeding has come, unless the user is at work too. *)
Later == {"extensions", "autostart", "install", "chown", "drop", "running"}

SeedOK ==
  edits = 0 =>
    /\ phase = "copy" => \A i \in 1 .. at - 1 : Present(Walk[i])
    /\ phase \in Later /\ seeded => \A f \in Files : Present(f)
    /\ hand = "writing" => Present(Todo[at])

(* Who owns files, and who the agent is. *)
Working == {"sync", "copy", "extensions", "autostart", "install", "chown"}

OwnerOK ==
  /\ ~AsRoot => euid = "abc" /\ \A x \in Path \cup Dir : owner[x] = "abc"
  /\ AsRoot /\ phase \in Working => euid = "root"
  /\ phase \in {"drop", "running"} => \A x \in Tree : owner[x] = "abc"
  /\ phase = "running" => euid = "abc"

BInv == TypeOK /\ Position /\ TornHasCause /\ SeedOK /\ OwnerOK

-----------------------------------------------------------------------------
(* The walks visit default files and autostart entries. *)
LEMMA Walks ==
  /\ Len(Walk) \in Nat /\ Len(Desktop) \in Nat
  /\ \A i \in 1 .. Len(Walk) : Walk[i] \in Files
  /\ \A i \in 1 .. Len(Desktop) : Desktop[i] \in Entries
  /\ \A f \in Files : \E i \in 1 .. Len(Walk) : f = Walk[i]
  /\ Files \subseteq Path /\ Entries \subseteq Path /\ Files \cap Entries = {}
<1>1. Walk \in Seq(Files) /\ Desktop \in Seq(Entries) /\ Files \cap Entries = {}
  BY WalkAssumption
<1> QED
  BY <1>1 DEF Files, Path

LEMMA TodoType ==
  /\ Len(Todo) \in Nat /\ Len(Todo) + 1 \in 1 .. Len(Walk) + Len(Desktop) + 1
  /\ \A i \in 1 .. Len(Todo) : Todo[i] \in Path
BY Walks DEF Todo

(* The file in hand. *)
LEMMA HandType ==
  ASSUME TypeOK, Position, hand # "none"
  PROVE  /\ Todo[at] \in Path /\ Walking /\ at \in 1 .. Len(Todo)
         /\ \A p \in Path : InHand(p) <=> (hand = "writing" /\ p = Todo[at])
<1>1. Walking /\ at \in 1 .. Len(Todo)
  BY TodoType DEF Position
<1> QED
  BY <1>1, TodoType DEF InHand

(* What an action that creates or completes a file does to the volume.       *)
LEMMA Changed ==
  ASSUME TypeOK, NEW p \in Path, NEW s \in State
  PROVE  /\ [disk EXCEPT ![p] = s] \in [Path -> State]
         /\ [disk EXCEPT ![p] = s][p] = s
         /\ \A q \in Path : q # p => [disk EXCEPT ![p] = s][q] = disk[q]
BY DEF TypeOK

(* What MkdirAll does to the directories. *)
LEMMA MakeKeeps ==
  ASSUME TypeOK, OwnerOK, NEW dirs \in SUBSET Dir, Make(dirs)
  PROVE  /\ made' \subseteq Dir /\ owner' \in [Path \cup Dir -> User]
         /\ ~AsRoot => \A x \in Path \cup Dir : owner'[x] = "abc"
BY DEF TypeOK, OwnerOK, Make, User

(* A start that ends keeps the invariant, if files that are half written are *)
(* accounted for and no more than the agent's own have changed hands.        *)
LEMMA DownInv ==
  ASSUME BInv, Down, disk' \in [Path -> State], cut' \subseteq Path,
         \A p \in Path : disk'[p] = "torn" => p \in cut',
         owner' \in [Path \cup Dir -> User],
         ~AsRoot => owner' = owner,
         UNCHANGED <<made, euid, bounds, seeded>>,
         installed' \subseteq Entries, again' \subseteq Entries
  PROVE  BInv'
<1> USE DEF BInv, Down, bounds
<1>1. TypeOK'
  BY DEF TypeOK, Phase
<1>2. Position'
  BY DEF Position, Walking
<1>3. TornHasCause'
  BY DEF TornHasCause
<1>4. SeedOK'
  BY DEF SeedOK, Later
<1>5. OwnerOK'
  BY DEF OwnerOK, Working
<1> QED
  BY <1>1, <1>2, <1>3, <1>4, <1>5

LEMMA InitInv == Init => BInv
<1> SUFFICES ASSUME Init PROVE BInv
  OBVIOUS
<1>1. TypeOK
  <2>1. at \in 1 .. Len(Walk) + Len(Desktop) + 1
    BY Walks DEF Init
  <2>2. disk \in [Path -> State] /\ owner \in [Path \cup Dir -> User] /\ made \subseteq Dir
    BY DEF Init, State, User
  <2>3. starts \in 0 .. MaxStarts /\ edits \in 0 .. MaxEdits
    BY BootAssumption DEF Init
  <2> QED
    BY <2>1, <2>2, <2>3 DEF Init, TypeOK, Phase, User
<1>2. Position
  BY DEF Init, Position, Walking
<1>3. TornHasCause
  <2>1. \A p \in Path : disk[p] # "torn"
    BY DEF Init
  <2> QED
    BY <2>1 DEF TornHasCause
<1>4. SeedOK /\ OwnerOK
  BY DEF Init, SeedOK, Later, OwnerOK, Working
<1> QED
  BY <1>1, <1>2, <1>3, <1>4 DEF BInv

LEMMA StartInv ==
  ASSUME BInv, Start
  PROVE  BInv'
<1> USE DEF BInv, Start, volume, history
<1>1. TypeOK'
  BY BootAssumption DEF TypeOK, Phase, User
<1>2. Position'
  BY DEF Position, Walking
<1>3. TornHasCause'
  BY DEF TornHasCause, InHand, Walking
<1>4. SeedOK'
  BY DEF SeedOK, Later, Position, Walking
<1>5. OwnerOK'
  BY DEF OwnerOK, TypeOK
<1> QED
  BY <1>1, <1>2, <1>3, <1>4, <1>5

(* A step from one phase to the next, with nothing in hand.                  *)
LEMMA PhaseInv ==
  ASSUME BInv, hand = "none", hand' = "none", UNCHANGED <<disk, cut>>,
         at' = at \/ at' = 1, TypeOK', OwnerOK',
         edits' = edits, seeded' = seeded \/ phase' = "copy" \/ ~seeded',
         phase' \in Phase,
         phase' \in {"copy", "install"} => at' = 1,
         phase' \in Later => phase \in Later \/ ~seeded' \/ (\A f \in Files : Present(f))
  PROVE  BInv'
<1> USE DEF BInv
<1>1. Position'
  BY TodoType DEF Position, Walking, Todo
<1>2. TornHasCause'
  BY DEF TornHasCause, InHand
<1>3. SeedOK'
  BY DEF SeedOK, Later, Present
<1> QED
  BY <1>1, <1>2, <1>3

LEMMA Idle ==
  ASSUME BInv, ~Walking
  PROVE  hand = "none"
BY DEF BInv, TypeOK, Position

LEMMA SyncInv ==
  ASSUME BInv, SyncSkips \/ SyncBegins
  PROVE  BInv'
<1>1. hand = "none"
  BY Idle DEF SyncSkips, SyncBegins, Walking
<1>2. CASE SyncSkips
  <2>1. TypeOK' /\ OwnerOK'
    BY <1>2 DEF BInv, SyncSkips, volume, bounds, TypeOK, Phase, OwnerOK, Working
  <2> QED
    BY <1>1, <1>2, <2>1, PhaseInv DEF SyncSkips, volume, bounds, Phase
<1>3. CASE SyncBegins
  <2>1. TypeOK' /\ OwnerOK'
    BY <1>3, Walks, MakeKeeps DEF BInv, SyncBegins, bounds, TypeOK, Phase, OwnerOK, Working, Dir
  <2> QED
    BY <1>1, <1>3, <2>1, PhaseInv DEF SyncBegins, bounds, Phase, Later
<1> QED
  BY <1>2, <1>3

LEMMA MakesInv ==
  ASSUME BInv, EnsureExtensions \/ MakeAutostart
  PROVE  BInv'
<1>1. hand = "none"
  BY Idle DEF EnsureExtensions, MakeAutostart, Walking
<1>2. CASE EnsureExtensions
  <2>1. TypeOK' /\ OwnerOK'
    BY <1>2, Walks, MakeKeeps
    DEF BInv, EnsureExtensions, bounds, history, TypeOK, Phase, OwnerOK, Working, Dir
  <2> QED
    BY <1>1, <1>2, <2>1, PhaseInv DEF EnsureExtensions, bounds, history, Phase, Later
<1>3. CASE MakeAutostart
  <2>1. /\ made' \subseteq Dir /\ owner' \in [Path \cup Dir -> User]
        /\ ~AsRoot => \A x \in Path \cup Dir : owner'[x] = "abc"
    BY <1>3, MakeKeeps DEF BInv, MakeAutostart, TypeOK, OwnerOK, Dir
  <2>2. TypeOK' /\ OwnerOK'
    BY <1>3, <2>1, Walks
    DEF BInv, MakeAutostart, bounds, history, TypeOK, Phase, OwnerOK, Working
  <2> QED
    BY <1>1, <1>3, <2>2, PhaseInv DEF MakeAutostart, bounds, history, Phase, Later
<1> QED
  BY <1>2, <1>3

LEMMA StepFailsInv ==
  ASSUME BInv, StepFails
  PROVE  BInv'
<1>1. \A p \in Path : disk[p] = "torn" => p \in cut
  BY DEF BInv, StepFails, TornHasCause, InHand
<1> QED
  BY <1>1, DownInv DEF BInv, StepFails, volume, history, TypeOK

LEMMA CopyInv ==
  ASSUME BInv, Copy
  PROVE  BInv'
<1> USE DEF BInv, Copy, volume, bounds, history
<1>1. at \in 1 .. Len(Todo) /\ Len(Todo) \in Nat /\ UNCHANGED Todo
  BY TodoType DEF Position, Todo
<1>2. at' \in 1 .. Len(Todo) + 1
  BY <1>1
<1>3. TypeOK'
  BY <1>2, TodoType DEF TypeOK
<1>4. Position'
  BY <1>1, <1>2 DEF Position, Walking
<1>5. TornHasCause'
  BY DEF TornHasCause, InHand
<1>6. SeedOK'
  BY <1>1 DEF SeedOK, Later, Walking, Todo, Present
<1>7. OwnerOK'
  BY DEF OwnerOK
<1> QED
  BY <1>3, <1>4, <1>5, <1>6, <1>7

LEMMA CreateInv ==
  ASSUME BInv, Create
  PROVE  BInv'
<1> USE DEF BInv
<1>1. Todo[at] \in Path /\ Walking /\ at \in 1 .. Len(Todo)
  BY HandType DEF Create
<1>2. CASE Present(Todo[at])
  <2>1. \A p \in Path : disk[p] = "torn" => p \in cut
    BY DEF Create, TornHasCause, InHand
  <2> QED
    BY <1>2, <2>1, DownInv DEF Create, history, TypeOK
<1>3. CASE ~Present(Todo[at])
  <2> USE DEF Create, bounds, history
  <2>1. /\ disk' \in [Path -> State] /\ disk'[Todo[at]] = "torn"
        /\ \A q \in Path : q # Todo[at] => disk'[q] = disk[q]
    BY <1>1, <1>3, Changed DEF State
  <2>2. owner' \in [Path \cup Dir -> User]
    BY <1>1, <1>3 DEF TypeOK
  <2>3. UNCHANGED <<Todo, at, phase>> /\ hand' = "writing"
    BY <1>3 DEF Todo
  <2>4. TypeOK'
    BY <1>3, <2>1, <2>2 DEF TypeOK
  <2>5. Position'
    BY <1>1, <2>3 DEF Position, Walking
  <2>6. TornHasCause'
    BY <1>1, <2>1, <2>3 DEF TornHasCause, InHand, Walking
  <2>7. SeedOK'
    BY <1>1, <2>1, <2>3, Walks DEF SeedOK, Present, Todo, Position, Walking
  <2>8. OwnerOK'
    BY <1>1, <1>3 DEF OwnerOK, Working, Walking, TypeOK
  <2> QED
    BY <2>4, <2>5, <2>6, <2>7, <2>8
<1> QED
  BY <1>2, <1>3

(* The file in hand is completed: whatever stands at its place is not torn.  *)
LEMMA Completed ==
  ASSUME BInv, hand = "writing",
         disk' = [disk EXCEPT ![Todo[at]] = IF @ = "torn" THEN "default" ELSE @]
  PROVE  /\ disk' \in [Path -> State]
         /\ \A p \in Path : /\ disk'[p] = "torn" => p \in cut
                            /\ disk'[p] = "absent" <=> disk[p] = "absent"
<1>1. Todo[at] \in Path /\ \A p \in Path : InHand(p) <=> p = Todo[at]
  BY HandType DEF BInv
<1> QED
  BY <1>1 DEF BInv, TypeOK, State, TornHasCause

LEMMA CopyEndsInv ==
  ASSUME BInv, CopyEnds
  PROVE  BInv'
<1> USE DEF BInv
<1>1. Todo[at] \in Path /\ Walking /\ at \in 1 .. Len(Todo)
  BY HandType DEF CopyEnds
<1>2. /\ disk' \in [Path -> State]
      /\ \A p \in Path : /\ disk'[p] = "torn" => p \in cut
                         /\ disk'[p] = "absent" <=> disk[p] = "absent"
  BY Completed DEF CopyEnds
<1>3. installed' \subseteq Entries /\ again' \subseteq Entries
  BY DEF CopyEnds, TypeOK
<1>4. CASE ~Present(Todo[at])
  BY <1>2, <1>3, <1>4, DownInv DEF CopyEnds, bounds, TypeOK
<1>5. CASE Present(Todo[at])
  <2> USE DEF CopyEnds, bounds
  <2>1. UNCHANGED <<Todo, phase>> /\ at' = at + 1 /\ hand' = "none"
    BY <1>5 DEF Todo
  <2>2. at' \in 1 .. Len(Todo) + 1 /\ Len(Todo) \in Nat
    BY <1>1, <2>1, TodoType
  <2>3. TypeOK'
    BY <1>2, <1>3, <2>1, <2>2, TodoType DEF TypeOK
  <2>4. Position'
    BY <2>1, <2>2 DEF Position, Walking
  <2>5. TornHasCause'
    BY <1>2 DEF TornHasCause
  <2>6. SeedOK'
    BY <1>1, <1>2, <1>5, <2>1, Walks DEF SeedOK, Present, Todo, Later, Walking
  <2>7. OwnerOK'
    BY <2>1 DEF OwnerOK
  <2> QED
    BY <2>3, <2>4, <2>5, <2>6, <2>7
<1> QED
  BY <1>4, <1>5

LEMMA CopyFailsInv ==
  ASSUME BInv, CopyFails \/ CopyStaysTorn \/ ChmodFails
  PROVE  BInv'
<1>1. hand = "writing" /\ Down
  BY DEF CopyFails, CopyStaysTorn, ChmodFails
<1>2. Todo[at] \in Path /\ \A p \in Path : InHand(p) <=> p = Todo[at]
  BY <1>1, HandType DEF BInv
<1>3. CASE CopyFails
  <2>1. disk' \in [Path -> State] /\ \A p \in Path : disk'[p] = "torn" => p \in cut
    BY <1>2, <1>3 DEF BInv, CopyFails, TypeOK, State, TornHasCause
  <2> QED
    BY <1>1, <1>3, <2>1, DownInv DEF BInv, CopyFails, history, TypeOK
<1>4. CASE CopyStaysTorn
  <2>1. \A p \in Path : disk'[p] = "torn" => p \in cut'
    BY <1>4 DEF BInv, CopyStaysTorn, volume, TornHasCause
  <2> QED
    BY <1>1, <1>4, <2>1, DownInv DEF BInv, CopyStaysTorn, volume, TypeOK
<1>5. CASE ChmodFails
  <2>1. disk' \in [Path -> State] /\ \A p \in Path : disk'[p] = "torn" => p \in cut
    BY <1>1, <1>5, Completed DEF ChmodFails
  <2> QED
    BY <1>1, <1>5, <2>1, DownInv DEF BInv, ChmodFails, history, TypeOK
<1> QED
  BY <1>3, <1>4, <1>5

LEMMA CopyDoneInv ==
  ASSUME BInv, CopyDone
  PROVE  BInv'
<1> USE DEF BInv, CopyDone, volume, bounds, history
<1>1. TypeOK' /\ OwnerOK'
  BY Walks DEF TypeOK, Phase, OwnerOK, Working, Walking
<1>2. edits = 0 /\ phase = "copy" => \A f \in Files : Present(f)
  BY Walks DEF SeedOK, Todo
<1>3. phase' \in Later /\ phase' \notin {"copy", "install"}
  BY DEF Later
<1>4. Position' /\ TornHasCause'
  BY <1>3 DEF Position, Walking, TornHasCause, InHand
<1>5. SeedOK'
  BY <1>2, <1>3 DEF SeedOK, Later, Walking, Present
<1> QED
  BY <1>1, <1>4, <1>5

LEMMA ChownInv ==
  ASSUME BInv, Chown
  PROVE  BInv'
<1>1. hand = "none"
  BY Idle DEF Chown, Walking
<1>2. owner' \in [Path \cup Dir -> User] /\ \A x \in Tree : owner'[x] = "abc"
  <2>1. euid # "root" => ~AsRoot
    BY DEF BInv, Chown, OwnerOK, Working
  <2> QED
    BY <2>1 DEF BInv, Chown, HandedOver, TypeOK, OwnerOK, User, Tree
<1>3. ~AsRoot => \A x \in Path \cup Dir : owner'[x] = "abc"
  BY DEF BInv, Chown, HandedOver, OwnerOK, TypeOK
<1>4. TypeOK' /\ OwnerOK'
  BY <1>2, <1>3 DEF BInv, Chown, bounds, history, TypeOK, Phase, OwnerOK, Working
<1> QED
  BY <1>1, <1>4, PhaseInv DEF Chown, bounds, history, Phase, Later

LEMMA ChownFailsInv ==
  ASSUME BInv, ChownFails
  PROVE  BInv'
<1>1. \A p \in Path : disk[p] = "torn" => p \in cut
  BY DEF BInv, ChownFails, TornHasCause, InHand, Walking
<1>2. owner' \in [Path \cup Dir -> User]
  BY DEF BInv, ChownFails, HandedOver, TypeOK, User
<1>3. ~AsRoot => owner' = owner
  BY DEF BInv, ChownFails, HandedOver, OwnerOK
<1> QED
  BY <1>1, <1>2, <1>3, DownInv DEF BInv, ChownFails, history, TypeOK

LEMMA DropInv ==
  ASSUME BInv, Drop
  PROVE  BInv'
<1>1. hand = "none"
  BY Idle DEF Drop, Walking
<1>2. TypeOK' /\ OwnerOK'
  BY DEF BInv, Drop, volume, bounds, history, TypeOK, Phase, User, OwnerOK, Working
<1> QED
  BY <1>1, <1>2, PhaseInv DEF Drop, volume, bounds, history, Phase, Later

LEMMA CrashInv ==
  ASSUME BInv, Crash
  PROVE  BInv'
<1>1. \A p \in Path : disk'[p] = "torn" => p \in cut'
  BY DEF BInv, Crash, volume, TornHasCause
<1> QED
  BY <1>1, DownInv DEF BInv, Crash, volume, TypeOK

LEMMA EditInv ==
  ASSUME BInv, Edit
  PROVE  BInv'
<1> USE DEF BInv, where
<1>1. PICK p \in Path : /\ Writes(p) \/ (Present(p) /\ Deletes(p))
                        /\ cut' = cut \ {p}
  BY DEF Edit
<1>2. /\ edits' = edits + 1 /\ edits < MaxEdits
      /\ UNCHANGED <<phase, at, hand, made, euid, starts, seeded, installed, again>>
  BY DEF Edit
<1>3. PICK s \in {"user", "absent"} : disk' = [disk EXCEPT ![p] = s]
  BY <1>1 DEF Writes, Deletes
<1>4. owner' = owner \/ owner' = [owner EXCEPT ![p] = "abc"]
  BY <1>1 DEF Writes, Deletes
<1>5. TypeOK'
  <2>1. disk' \in [Path -> State]
    BY <1>3, Changed DEF State
  <2>2. owner' \in [Path \cup Dir -> User]
    BY <1>4 DEF TypeOK, User
  <2>3. edits' \in 0 .. MaxEdits
    BY <1>2, BootAssumption DEF TypeOK
  <2> QED
    BY <1>1, <1>2, <2>1, <2>2, <2>3 DEF TypeOK
<1>6. Position'
  BY <1>2 DEF Position, Walking, Todo
<1>7. TornHasCause'
  BY <1>1, <1>2, <1>3 DEF TypeOK, TornHasCause, InHand, Walking, Todo
<1>8. SeedOK'
  <2>1. edits' # 0
    BY <1>2 DEF TypeOK
  <2> QED
    BY <2>1 DEF SeedOK
<1>9. OwnerOK'
  <2>1. \A x \in Path \cup Dir : owner[x] = "abc" => owner'[x] = "abc"
    BY <1>4 DEF TypeOK
  <2> QED
    BY <1>2, <2>1 DEF OwnerOK, Tree
<1> QED
  BY <1>5, <1>6, <1>7, <1>8, <1>9

LEMMA StutterInv ==
  ASSUME BInv, UNCHANGED vars
  PROVE  BInv'
<1> USE DEF BInv, vars, where, volume, bounds, history
<1>1. TypeOK' /\ Position'
  BY DEF TypeOK, Position, Walking, Todo
<1>2. TornHasCause'
  BY DEF TornHasCause, InHand, Walking, Todo
<1>3. SeedOK'
  BY DEF SeedOK, Present, Todo
<1>4. OwnerOK'
  BY DEF OwnerOK
<1> QED
  BY <1>1, <1>2, <1>3, <1>4

-----------------------------------------------------------------------------
LEMMA NextInv == BInv /\ [Next]_vars => BInv'
<1> SUFFICES ASSUME BInv, [Next]_vars PROVE BInv'
  OBVIOUS
<1>1. CASE CopyStep
  BY <1>1, CopyInv, CreateInv, CopyEndsInv, CopyFailsInv, CopyDoneInv DEF CopyStep
<1>2. CASE UNCHANGED vars
  BY <1>2, StutterInv
<1> QED
  BY <1>1, <1>2, StartInv, SyncInv, StepFailsInv, MakesInv, ChownInv, ChownFailsInv, DropInv,
     CrashInv, EditInv
  DEF Next

(* The walk, the file in hand, the seeds and the owners stay in step. *)
THEOREM Invariance == Spec => []BInv
BY InitInv, NextInv, PTL DEF Spec

(* The state variables keep their types. *)
THEOREM TypeCorrect == Spec => []TypeOK
BY Invariance, PTL DEF BInv

(* A half-written file is in hand or was left by a crash, a failing Close or *)
(* a failing removal, never by a copy that just failed.                      *)
THEOREM TornIsExplained == Spec => []TornHasCause
BY Invariance, PTL DEF BInv

(* A start that seeds leaves no default missing. *)
THEOREM SeedingIsComplete == Spec => []SeedIsComplete
<1>1. BInv => SeedIsComplete
  BY DEF BInv, SeedOK, SeedIsComplete, Later
<1> QED
  BY <1>1, Invariance, PTL

(* The agent runs as the desktop user and owns the state and autostart trees *)
(* when it does, started as root or not.                                     *)
THEOREM RunsAsUser == Spec => []RunsOnOwnFiles
<1>1. BInv => RunsOnOwnFiles
  BY DEF BInv, OwnerOK, RunsOnOwnFiles
<1> QED
  BY <1>1, Invariance, PTL

-----------------------------------------------------------------------------
(* One step and one file of the user. *)
LEMMA UserFileStays ==
  ASSUME BInv, [Next]_vars, NEW p \in Path, disk[p] = "user", edits' = edits
  PROVE  disk'[p] = "user" \/ (InHand(p) /\ phase' = "down")
<1> USE DEF BInv, TypeOK
<1>1. CASE UNCHANGED disk
  BY <1>1
<1>2. CASE Create
  BY <1>2 DEF Create, Present
<1>3. CASE CopyEnds \/ ChmodFails
  BY <1>3 DEF CopyEnds, ChmodFails
<1>4. CASE CopyFails
  <2>1. p = Todo[at] => InHand(p)
    BY <1>4, HandType DEF CopyFails
  <2> QED
    BY <1>4, <2>1 DEF CopyFails, Down
<1>5. ~Edit
  BY DEF Edit
<1>6. Start \/ SyncSkips \/ SyncBegins \/ Copy \/ CopyStaysTorn \/ CopyDone => UNCHANGED disk
  BY DEF Start, SyncSkips, SyncBegins, Copy, CopyStaysTorn, CopyDone, volume
<1>7. EnsureExtensions \/ MakeAutostart \/ StepFails \/ Chown \/ ChownFails \/ Drop \/ Crash
        => UNCHANGED disk
  BY DEF EnsureExtensions, MakeAutostart, StepFails, Chown, ChownFails, Drop, Crash, volume
<1> QED
  BY <1>1, <1>2, <1>3, <1>4, <1>5, <1>6, <1>7 DEF Next, CopyStep, vars, volume

(* The agent never changes or removes a file of the user, but for one put in *)
(* the place of a file it is copying.                                        *)
THEOREM UserFilesStay == Spec => NeverOverwritesUser
<1>1. BInv /\ [Next]_vars =>
        [\A p \in Path :
           disk[p] = "user" /\ edits' = edits =>
             disk'[p] = "user" \/ (InHand(p) /\ phase' = "down")]_vars
  BY UserFileStays
<1> QED
  BY <1>1, Invariance, PTL DEF Spec, NeverOverwritesUser
=============================================================================
