# Verification of the OpenClaw agent

The agent (`src/cmd/openclaw-agent`, `src/internal`) runs in a desktop
container under s6. It prepares the user's volume, keeps one OpenClaw gateway
process alive on command, keeps `openclaw.json` and the installed skills in
the shape a remote control plane asks for, and reports to that control plane.
This directory holds TLA+ modules of the agent, the TLC runs that check them
on small instances, and proofs that TLAPS checks for every instance.

Line numbers below are of `src/internal/...` unless a path is given in full.

## 1. The system

### Components

| Component | State | Operations | Talks to |
|---|---|---|---|
| bootstrap (`bootstrap/`) | none of its own; files on the volume, effective user | `Run`: seed defaults, extensions directory, autostart entries, ownership, drop privileges | the volume, before anything else |
| supervisor (`supervisor/supervisor.go`) | `errCh`, the wait group, the context | `Run`, `ensureSession`, loops for heartbeat, report, commands, skills and the model guard | starts every goroutine; all parts below |
| session (`session/manager.go`) | session token and expiry in the store, token in the client | `Ensure` | control plane, store |
| control client (`control/client.go`) | the token | one method per endpoint | control plane |
| command executor (`command/executor.go`) | `LastCommandExecutionCache` in the store | `Execute`, `handle` per command type | process manager, config manager, skills manager, control plane |
| process manager (`process/manager.go`) | `cmd`, `status`, `stopRequested`, `done`, restart count, under a mutex | `Start`, `Stop`, `Restart`, `MarkConfiguring`, `wait`, `promoteRunning` | the gateway process; called by boot, executor, guard |
| config manager (`configmanager/manager.go`, `model_guard.go`) | `openclaw.json`, the model baseline, under a mutex; revision ids in the store | `NormalizeActiveConfig`, `CaptureModelBaseline`, `ApplyRevision`, `EnforceModelBaseline` | the file (which gateway and user write too), store, control plane |
| configuration contents (`configmanager/normalizer.go`, `channels.go`) | none | LLM overrides, channel reconciliation, plugin paths, as functions of JSON trees | called by the config manager |
| skills manager (`skills/manager.go`) | `ManagedSkills` and the inventory digest in the store; skill directories | `Install`, `Uninstall`, `Disable`, `Sync`, `CollectPackage` | control plane, store; called by executor and skill loop |
| state store (`store/store.go`) | the whole persistent state, in memory and in `state.json` | `New`, `Snapshot`, `Update` | everything that persists |
| local HTTP server (`httpserver/server.go`) | none | `readyz` and debug pages; its own goroutine | process manager, store |
| profiler, inspector | none | read `/proc`, `/sys`, directories for reports | report loop |
| agent settings (`config/config.go`), protocol types | a record read once | `Load` | everyone |
| container scripts (`src/scripts`, Dockerfiles) | none | s6 starts the agent again whenever it ends | the agent |

### What is hard here

- **Shared state without a shared lock.** The executor and the model guard
  both restart the gateway and both write `openclaw.json`; `Stop` waits
  outside the lock on things it captured under it; the executor and the skill
  loop change and list the same directories and records with no lock at all;
  four loops share one session.
- **Failure in the middle.** Every part is a list of steps (write, rename,
  record, restart, report) any of which may fail or be cut off by a crash,
  after which s6 starts the agent on whatever is on disk.
- **A control plane behind an unreliable network.** Answers get lost, a report
  the agent has given up on may still arrive, a rejection may concern a
  session that has been replaced, and commands are delivered again.
- **Timers that race what they wait for.** `Stop`'s kill timer and the caller's
  context; the promoter's 30 seconds; `StartCommand`'s timeout.
- **Others at work.** The gateway and the user edit the configuration and the
  skills behind the agent's back.

### What makes each part correct

- process manager: never two gateways; a reported status that agrees with the
  process there is; no waiter forgotten; a stop that succeeds leaves nothing, a
  restart that succeeds leaves something new; every call returns.
- gateway and configuration together: what was applied with reload is what
  the gateway serves; locked fields that were put back are in force; a gateway
  that read a truncated file does not stay.
- config manager: the file stems from the revision put in place last and no
  guard brings an earlier one back; the guard's baseline belongs to that
  revision; the environment's settings survive; a revision the control plane
  was told of stays on record; changed model fields are put back.
- configuration contents: the guard puts back its fields and nothing else, to
  the byte of what was captured; a start changes only what the environment asks
  for and settles; what is injected and what the user set up both survive.
- supervisor and session: no goroutine blocks on `errCh`; `Run`'s counter cuts
  off no loop, whichever way it returns; shutdown completes; a lost session is replaced.
- command executor: a reported success stands for one whole execution; no
  effect before the announcement; a record before the report unless saving it
  failed; repetition only after something broke; every command ends and its end is final.
- skills manager: records agree with what is on disk; only verified content
  replaces a skill; the digest that lets a sync be skipped is the reported one;
  the control plane ends up with the inventory there is; a package has the
  content its label says.
- bootstrap: what the user put on the volume stays, also what gets there while
  the agent looks; a copy that fails leaves nothing half written; the agent runs
  as the user, who owns the state and the autostart directory.

## 2. The modules

`MC*.tla` modules only give values to constants for TLC, except that
`MCProcessManager` states the promise of a setting the code does not read.
Definitions that a module's `Next` does not use (such as
`AlreadyRunningByStatus` before `AlreadyRunning`) are mistakes an edit of the
code could make; putting one in place of its neighbour makes the property
paired with it in `PROJECT.json` fail.

### ProcessManager and GatewayLifecycle

`ProcessManager` has the manager's fields (`cmd`, `status`, `stopRequested`,
`done`, `restarts`), the processes it launched with their channels and
promoters, and per caller a control state. A locked region of the code is one
action; `Stop` is split where it unlocks: `StopBegin` captures, `Signal` sends
SIGTERM, then `SeesDone`, `ContextEnds` or `StopTimeout`, and `KillTimeout`.
`Exit` is the process ending on its own or not, `Reap` the `wait` goroutine,
`Promote` the health poll. The callers are the boot code, the executor (every
operation, and the two forms of applying a revision, which go through
`MarkConfiguring`) and the guard (restart).

`GatewayLifecycle` is what the rest of the agent may rely on: a set of live
gateways with at most one member, calls that begin and end with a result, a
start or restart that succeeds with a gateway there, a stop or restart that
succeeds only when everything from before the call is gone. `ProcessManager`
implements it under the mapping `live <- Live`, `calling <-` callers not idle,
`result <- outcome`.

### ConfigManager

The active file is a record of its locked model fields and of the rest, with
the revision it came from and whether others have touched it as history;
`Torn` is a file cut off inside `os.WriteFile`, which truncates first.
Normalization is a constant idempotent function `Normal`. `Boot` to `Initial`
are the steps of `Supervisor.Run` (107-136); `Fetch`, `LockApply`,
`Activate`, `Record` are `ApplyRevision` outside and inside the lock; `Check`,
`Truncate`, `Restore` are `EnforceModelBaseline`; `Persist` is any other
`Update` of the store that saves what an earlier one could not. `Edit` is the
gateway or the user, `Crash` the end of the agent anywhere.

### ConfigContents

The inside of the file: a JSON document is a function from paths (sequences of
keys) to values, in which every proper prefix of a path is an object; `Put`,
`Remove`, `Sub` are `setNestedValue`, `deleteNestedValue`, `nestedValue`, with
parents that are no objects replaced. `Normalize` is `normalizeConfigMap`:
model lists from the environment (`BuildProviderModels`, `BuildAgentModels`),
URL and key, channels of file, environment and installed extensions
(`ReconcileChannels`), plugin paths. A start reads the file (`Start`), writes
what it made of it (`WriteNormalized`) and reads it again for the baseline per
guarded path (`CaptureModelBaseline`); `Apply` puts a revision in place; the
guard reads (`Check`) and writes (`Restore`). Before, between and after any of
these the user and the gateway write and delete, the environment differs at
each start, and extensions come and go. `mine`, `disturbed` and `resumed` are
histories: the channels set up while nobody held a copy of the file, whether a
guarded field was edited during this start, and whether this start resumes an
undisturbed one in the same environment without drift. Here
`Normal` of `ConfigManager` is looked into: `NormalSettles` is the assumption
`NormalAssumption` made there.

### GatewayConfig

`ConfigManager` and `GatewayLifecycle` side by side, with `loaded[p]`, the file
as gateway p has read it. A gateway reads it at some moment after its launch
and not again. The callers are composed from both: `BootSteps` and `BootStarts`
are `Supervisor.Run`, `BeginApply` to `ExecutorReturns` are
`apply_config_revision` with its reload and the commands that start, stop and
restart, `GuardSteps`, `GuardRestarts` and `GuardReturns` are `modelGuardLoop`.
Steps of the process manager inside a call are those `GatewayLifecycle` allows,
which `ProcessManager` implements. `AgentEnds` forgets the gateways: what is
said is said of the gateways of the agent that runs.

### Supervisor

`run` and `pc` are the control of `Run` and of the goroutines, `token` the
session in the store by what the control plane would say of it (good, bad,
none), `held` the token in a request or in the answer to it, so that
a rejection can arrive after another loop has registered again. `Ensure`,
retry, request, rejection, `Clear` and failure into `errCh` are actions. `wg` is
the counter `Run` waits on: it goes up where the code calls `wg.Add`
(`StartsLoops` adds for all loops at once, as line 137 does) and down where a
goroutine ends, and `Drains` looks at nothing else. `guard` is `modelGuardLoop`
as far as `Run` is concerned (at work or not). The returns of `Run` that do not
wait are `PreparationFails` (108, 111, 117) and `GiveUp` of `Main` (129). `Clears` are the loops that drop the session on 401 or
403 (the skill loop only logs), `Unasked` those that send before the first
`ensureSession` (the skill loop's bootstrap sync). `RegisterRevokes` says
whether the control plane ends earlier sessions at a registration.

### CommandExecutor

A command goes from the poll through announcement, the stages of `handle`
(`Stages` lists them by type), the record in the store and the report, with
the control plane's view in `control` and late reports in `wire`. What a stage
does is in the other modules; here it takes effect or fails, possibly after
taking effect. `memory` and `disk` are the commands on record; a save that fails
leaves the command in `unsaved` until a later one, of whichever part of the
agent (`OthersSave`), writes the whole state.

`CommandDelivery` is what the control plane may rely on: what it knows of a
command (queued, started, an outcome) follows what was done for it. One
command is carried out at a time, only one that counts as started, a success
needs an execution that did all of it, an end is final.
`CommandExecutor` implements it under `known <- control`,
`completed <- whole`, `running <-` the command whose `handle` is at work.

### SkillManager

A skill is its MD5 at a path. `disk`, `managed`, `digest`, their copies in
`state.json` and the control plane's `remote` inventory are shared by the
executor (install, uninstall or disable, then a forced sync) and the skill loop
(incremental and full syncs). Hashing is one action per entry; activating a
staged skill is split where the code removes, renames or copies, so that a
sync or a crash can come between. `collect_skill_package` discovers and hashes
like a sync (`Find` picks the one item that matches), reads the skill again for
the archive (`PackBegins`, `PackEnds`), and uploads that with the MD5 of the
first reading.

### Bootstrap

`Copy` to `CopyDone` are the walk over the default files and the loop over the
autostart entries, which both end in `copyRegularFile`: the look whether the
file is there, its creation with `O_EXCL`, its end, and its failures, which are
cleaned up (`CopyFails`), not cleaned up (`CopyStaysTorn`: `Close` or `Remove`
fails) or need not be (`ChmodFails`). Directories have owners: `Make` is
`MkdirAll`, `Tree` what `applyOwnership` hands over, and `above` the directory
above autostart (`/config/.config`), which it does not. The volume starts in
any state the user may have left it in and the user may edit it at any moment,
since the desktop session outlives the agent. The user replaces files rather
than writing into one the agent has open, and does not remove directories.

## 3. The runs

All runs say `CHECK_DEADLOCK FALSE` because the agent may stop: the boot can
fail, `Run` returns, a bound on crashes, edits or launches is used up.

| Run | Bounds | What it shows |
|---|---|---|
| `process` | 3 callers, 2 launches | invariants, refinement of `GatewayLifecycle`, and every call returns |
| `process_auto_restart` (violation) | as above | a crashed gateway stays down although `max_auto_restart: 3` is configured: the setting is parsed and never read |
| `config` | 2 revisions, 2 models, 3 rests, 2 edits, 2 crashes | all safety properties and that the guard restores |
| `config_initial_revision` (violation) | no edit or crash needed | an initial revision id is recorded as current by registration, so `Run` finds it current and never applies it |
| `contents` | 1 provider, 2 channels, 2 edits, 3 starts | what starts, revisions and the guard do to the tree is exact, with edits between their reads and writes |
| `gateway` | 2 revisions, 3 models, 1 edit, 1 crash, 3 launches | what a gateway has loaded is what was applied or restored |
| `supervisor` | a clearing loop, one that does not clear and asks first, 1 revocation | no blocked sender, only the guard can be cut off, shutdown completes, sessions recover |
| `executor` | a three-stage and a two-stage command, 1 crash, SIGTERM | three safety properties, refinement of `CommandDelivery`, and that commands end |
| `skills_safety` | 1 skill, 2 contents and versions, 2 commands, 1 edit, 1 fault | records, digest, labels of packages |
| `skills_liveness` | 1 skill, 1 command, 1 edit, 1 fault | the inventories converge |
| `bootstrap_safety` | 3 default files, 2 entries, 3 starts, 2 edits | the four safety properties |
| `bootstrap_once` (violation) | as above | an autostart entry the user deleted comes back, against `bootstrap/autostart.go:13-15` |

Why these bounds are enough to be of use:

- Two launches are an earlier and a later gateway, which is what every mix-up
  of the process manager needs; three callers are the goroutines there are.
  The safety theorems hold for any number of both.
- Two crashes let the second one hit what recovery from the first one left;
  two edits let one come before and one after a guard's read. The theorems of
  `ConfigManager` hold for any number.
- Of the four request loops the supervisor's run has the two kinds there are,
  one like `heartbeatLoop` that clears the session and one like `skillLoop`
  that does not and sends before it ensures: recovery needs one that registers
  while the other holds a stale answer, and `errCh` has one place more than
  loops, as in the code (5 places, 4 loops). The safety theorems hold for any
  set of loops. `MaxRevokes` bounds what the control plane does on its own, not
  the sessions the loops themselves clear.
- Two edits of a configuration can put a text in the place of a parent and
  change a field below or beside it, one before a read and one between it and
  the write; revisions and passes of the guard are not bounded; of three starts
  the first captures, the second meets what was changed since and the third
  shows whether its result has settled. Every guarded path and every path a start writes is among
  the paths. The theorems of `ConfigContents` hold for any documents, edits
  and environments, and any number of them.
- Three launches are one gateway at boot, one that a command starts and one
  that the guard starts; two revisions whose locked fields differ let each be
  taken for the other; one edit makes the guard work, one crash cuts any of it.
  The theorems hold for any number of each.
- Two skill commands are one that installs and one that changes or removes
  what the first installed. Symmetry under permutation of contents and versions
  is used in the safety run only. What that run
  checks is proved for any skills, contents and commands.
- Three starts are one that is cut off, one that resumes and one that has
  nothing left to do; again the theorems hold for any number.

### Fairness

Go's scheduler runs a goroutine that can run (weak fairness of each goroutine's
step) and `select` picks at random among ready cases, so a cancelled context or
a ready full ticker is not passed over for ever (strong fairness of `Ends`,
`GuardEnds`, `FullTick`). A pass of the guard ends, as its restart has a
context with a timeout (weak fairness of `GuardReturns`). `sync.Mutex` hands the lock to a waiter that has
starved for a millisecond (strong fairness of the guard's `Check`). `Stop`'s
timers fire and SIGKILL ends a process; nothing makes a gateway exit otherwise.
The control plane answers again and again when it is asked again and again
(strong fairness of `IsAnswered`, `NextCommand`, `Arrive`...), without
which no property about it could hold. No edit, crash, revocation, signal or
call is ever obliged to happen.

## 4. The proofs

| Module | Proved for all constants | Argument |
|---|---|---|
| `ProcessManagerProofs` | `TypeOK`, `SingleGateway`, `StatusMatchesCmd` with `ReadyMeansGateway`, `WaiterIsWoken`, `PromotedByOwn`, `StopMeansGone`, `RestartMeansFresh`, `ImplementsLifecycle` | `IInv` |
| `ConfigManagerProofs` | `TypeOK`, `BaselineFollowsRevision`, `GuardKeepsRevision`, `InjectionSurvives`, `TornHasCause`, `AckedSurvives`, and `RecordedWasActivated` when no initial revision is set | `CInv`, `RecInv` |
| `CommandExecutorProofs` | `TypeOK`, `SucceededTookEffect`, `NothingUnannounced`, `RecordedFirst`, `RepeatedOnlyIfBroken`, `ImplementsDelivery` | one inductive invariant per property |
| `SupervisorProofs` | `TypeOK`, `NoSenderBlocks`, `OnlyGuardIsCutOff` | `SInv` |
| `BootstrapProofs` | `TypeOK`, `TornHasCause`, `SeedIsComplete`, `RunsOnOwnFiles`, `NeverOverwritesUser` | `BInv` |
| `GatewayConfigProofs` | `JointTypeOK`, `ReloadServes`, `RestoredIsServed`, `TornLoadIsReplaced`, `JointSpec => Spec` of `ConfigManager` | `JInv` |
| `SkillManagerProofs` | `TypeOK`, `RecordMatchesContent`, `PackageMatchesLabel`, `DigestWasReported` | `Typed` and one invariant per property |
| `ConfigContentsProofs` | `TypeOK`, `GuardIsExact`, `StartIsExact`, `BaselineSurvivesRestart`, `EnvironmentInjected`, `ChannelSurvives`, `NormalSettles` | `Typed`, `EnvironmentLocked` |

With these every invariant, action property and refinement that a passing run
checks is proved for all values of the constants; the runs show that the
states they speak of are reached, and that a mistake in the code breaks them.

Some theorems are not checked by a run as well, because they say more than it
could: the typing invariants of `ProcessManager`, `CommandExecutor`,
`Supervisor`, `SkillManager` and `GatewayConfig`,
`PromotedByOwn`, `StopMeansGone`, `RestartMeansFresh`, `TornHasCause` of
`ConfigManager`, `NothingUnannounced`.

*ProcessManager.* None of the invariants is inductive alone: that `Start` sees
every live gateway depends on what `wait` clears and when. `IInv` adds that
the one live process is `cmd`, that `done` is its channel (`LiveIsCmd`), that
launches are numbered in order and a channel is closed exactly by the reaper
(`History`), and what a call in progress has captured (`CallOK`): the target
of a waiting `Stop` is no younger than the current process, so when its
channel is closed everything from before the call is gone. The two action
properties and the refinement follow step by step from `IInv`.

*ConfigManager.* The invariants support each other: the file can keep its
revision only if what the guard has read is still the active revision when it
writes, which is what the lock gives (`LockOK`, `FileOK`); the baseline can be
compared with the file only outside the window between rename and record
(`ContentOK`); an acknowledged revision is in memory as well as on disk, so a
later save cannot lose it (`RecordOK`).

*CommandExecutor.* Each property is extended to the places a fact passes
through on its way: a success in the executor's hand, on the wire or known has
been earned (`Earned`), what is on disk is in memory too, so that a save never
loses a record (`Recorded`), a command carried out once is finished, in hand or broken off
(`Accounted`). The refinement takes a report that arrives for a step of
`CommandDelivery` because it was earned and its command announced.

*Supervisor.* `errCh` is never full for a goroutine that has an error because
each sends at most one and ends with it: the errors waiting are at most as many
as the goroutines that have ended (`ErrorsInv`), of which the sender is not
one, and there is one place more than there are loops (`CapAssumption`).
`OnlyGuardIsCutOff` is about a counter: `CountInv` says that it is the number of
goroutines at work, through every way a goroutine starts and ends, so that it
is 0 only when all have ended; none of the loops runs while `Run` can still
return without waiting (`BootInv`).

*Bootstrap.* The walks over default files and autostart entries are followed
step by step: a half-written file is the one in hand or was left in mid-copy,
all before it in the walk is there unless the user is at work too (`SeedOK`),
and the agent is root until the step that hands the trees over (`OwnerOK`).
`Position` says that the place reached is one of the walk.

*GatewayConfig.* Every step of the composition is a step of `ConfigManager` or
leaves its variables alone; so `JointSpec` implies `Spec` of `ConfigManager`, and
`CInv` holds without being proved again. `JInv` adds what is known of a gateway
by its number: one that was launched after a caller's restart began
(`p > since[c]`) has read the file at a time when it was what the caller had
made of it. The restart of `GatewayLifecycle` leaves no older one, so that when
it returns, all gateways are such (`ServedOK`, `RestoredOK`, `LoadOK`). That
nobody else is at work in between is `CallerOK`: the guard's loop and the
executor each make one call at a time, and while the guard restarts it writes
nothing.

*SkillManager.* `Control` says which command can be at which step and what it
holds. On it rests, for the records, that what is about to be recorded is
already in place; for packages, that what has been hashed, found and read is
still there or `altered`; for the digest, that an answered report no other one
followed is what the control plane has.

*ConfigContents.* A document is a tree of paths, and most of the proof is about
paths: which of the fields lie above, below or apart from each other
(`GuardPathsApart`, `FieldsDiffer`), and what `Put`, `Remove` and `Ensured` leave
of a subtree elsewhere (`SubOfPut`, `SubOfEnsured`...). The guard restores four
fields in sequence; since they lie apart and what was captured of each could
stand there (`BaselineOK`), each comes out as captured and nothing else changes
(`RestoredAll`). `Aside` is where a normalization writes nothing, shown operation
by operation in the order of the code, from which `StartIsExact` and
`ChannelSurvives` follow. `NormalizedFields` is what it leaves where it does
write; `Locked` says the same of a captured baseline and is inductive because
every capture follows a normalization, with no edit of a guarded field in
between unless the start is `disturbed`. What a start or the guard holds in
`read` still has the channels in `mine` (`HasMine`), since those set up after
the read are not among them. A second normalization finds all that in
place (`ListAgain`, `LLMAgain`, `RewriteAgain`, `ReconcileAgain`), which gives
`BaselineSurvivesRestart` and `NormalSettles`. That the list of models has each
id once and in the order of the environment is `ModelIDs`: it is defined by the
ranks of first occurrences rather than by a recursion, so that cardinalities
and least elements take the place of an induction.

Assumptions are the named `ASSUME`s next to the constants: types, distinct
null values, `Normal` idempotent (which `NormalStays` proves of the real one),
finite sets. Those of `ConfigContents` say what a document, an edit and an
environment are: parents of a node are objects, an edit that sets up a channel
gives it a token, an environment that parses and names models at all names one
that is not blank (`parseModelIDs` returns none or an error otherwise), and the
directory plugins are moved to and the one they are moved from (`PathAssumption`)
are not inside each other, as in the image. TLC evaluates them in every run.

Only model-checked: the liveness properties (`EveryCallReturns`, `GuardRestores`,
`ShutdownCompletes`, `SessionRecovers`, `EveryCommandFinishes`, `Converges`), as
fairness and `ENABLED` are out of the prover's reach. What the models leave out
(section 6) and that an action is its code is checked by neither.

## 5. What the models show that no property forbids

These are behaviours of the code, in the models, that a maintainer should know:

- After an apply without reload, or a failed one, the status stays
  `configuring` and `readyz` answers 503 until the gateway exits or is restarted.
- A `Stop` whose context ends before its kill timer leaves the gateway
  `stopping`; SIGKILL is never sent.
- The guard and a start write back the whole file they read: an edit saved in
  between is lost. An edit of a guarded field between a start's write and its
  second reading for the baseline is what the guard then defends, the
  environment's settings notwithstanding (`disturbed` in `ConfigContents`).
- A signal while `Run` waits for its first session makes it return at once
  (`supervisor.go:129`): the guard may be cut off in its write of
  `openclaw.json`, which leaves the file torn, or in a restart.
- A command whose save fails is reported all the same (`executor.go:80-92`).
  One the control plane counts as started, because `StartCommand` arrived and
  its answer did not, is dropped without a report, on SIGTERM too: it stays
  started until it is handed out again.
- A guard's restart that fails is not tried again: the next check finds the
  file in order while the gateway still runs on what it had loaded.
- After a crash between the rename and the state update the new configuration
  is active under the old recorded revision until the next apply.
- A crash or full disk inside `os.WriteFile` leaves a file that no later boot
  can parse, and the boot ends with an error every time.
- If the control plane ends earlier sessions at every registration
  (`RegisterRevokes = TRUE`), two loops that register at once can void each
  other's sessions for ever: `SessionRecovers` then fails, so its run uses a
  control plane that keeps them.
- When the agent ends, the gateway stays; the next agent's first `Start` knows
  nothing of it and launches another. `SingleGateway` holds per agent run.
- The cache of executed commands is written and never read: a command handed
  out again is carried out again. It also grows without limit.
- Two syncs may cross, and the stored digest then is of an inventory the
  control plane has not got; the next full sync repairs it. The digest leaves
  versions out. An entry that cannot be hashed fails every sync.
- Seeding that was cut off after `openclaw.json` was copied is not resumed.
- A copy whose `Close` fails, or that fails and cannot be removed, stays
  (`defaultssync.go:101-108`), and later starts take it for the user's. One
  whose `Chmod` fails stays whole, with mode 0600. A file the user puts in the
  place of one that is being copied is removed when that copy fails, because
  `Remove` goes by name; one that appears before `O_EXCL` ends the start.
- A missing `/config/.config` is made by root (`autostart.go:43`) and stays
  root's, since only the autostart directory below it is handed over
  (`ownership.go:38-42`): the desktop user cannot add anything else to it.
- A configuration tampered with just before a start is captured as the new
  baseline, in the fields the environment does not set.
- An edit that is taken back before the guard looks, or an apply without
  reload, leaves a gateway on fields that are not the baseline's. A write of
  the guard that fails leaves the file truncated, and a gateway that starts
  then has read it so.
- A channel whose extension is missing at a start is dropped from the file for
  good; an empty API key in the environment erases the one in the file;
  `models.providers.auto` is created whether or not an override is set, and
  replaces whatever is there that is no object.
- A skill that others change between `Discover` and the packaging is uploaded
  with the MD5 it had before; an archive whose end cannot be written
  (the deferred `zw.Close`) is uploaded as if it were whole.
- An unanswered report is not repeated: the control plane hands the command out
  again, and the agent carries it out again.

## 6. Not modelled

- Formats: zip and tar and the flattening of archives, MD5, HTTP encoding, how
  a manifest or a JSON text is parsed.
- The profiler and the inspector only read `/proc`, `/sys` and directories for
  a report, keep no state and decide nothing: what they return is not looked at
  by any other part. `config/config.go` produces the constants of the modules.
- An inventory report that arrives after the client has given up on it.
- The gateway an agent leaves behind when it ends. Whether it and the next
  agent's gateway can run side by side is up to OpenClaw.
- Skills that contain each other: paths of skills are apart in `SkillManager`,
  while `ensureWithinRoot` (`skills/manager.go:824-835`) accepts a target inside
  another skill, or the skills root itself.
- The race on the store's maps, which `Snapshot` shares (`store/store.go:94`),
  but for the end of the agent that it may cause.
- Reuse of a process id: `Promote` compares the number of the launch where
  `process/manager.go:112` and `121` compare the id, which are the same unless
  the system gives the id of a gateway that ended to the next one within the
  promoter's 30 seconds.
- That a stopped gateway goes: `GatewayLifecycle` allows one whose stop failed
  to be left alone, as the code does.
- `privdrop_other.go` is not part of the image; file modes, links and the
  case without a drop user are left out of `Bootstrap`.
- A failure of `ApplyRevision` before its lock changes nothing and is left out.

## 7. Plan

Done: the eight modules above, the abstract `GatewayLifecycle` and
`CommandDelivery`, and a module of proofs for each of the eight: all safety
properties and refinements of the runs. Next, in this order:

1. What the liveness properties rest on and the prover can show: that each
   control state has a step to take, and that the measure by which a call, a
   command or a shutdown comes to its end decreases with every step of its own.
2. An abstract specification of the skill inventory the control plane sees,
   which `SkillManager` implements.
3. That `Normalize` of `ConfigContents` is a `Normal` of `ConfigManager`: the
   field-by-field guard as the record of locked fields and of the rest.
4. The archive layouts of skill packages and the profiler's small
   computations as pure functions against reference definitions.

To repeat the checks: `tlc -config X.cfg M.tla` for each run of
`PROJECT.json`, `tlapm M.tla` for each module of proofs.
