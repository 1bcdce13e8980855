# CybexOS: TLA+ models and proofs

This directory specifies the parts of CybexOS that keep state across processes,
failures and restarts: the durable updater, the recovery points, the release
transaction, the Hermes bridge, the display trial, the user's shell plugins and
the cost estimate. The modules are translated from the code (paths below are
relative to the repository). TLC checks all of them on small instances, and
TLAPS proves the main safety properties of nine of them, and one refinement,
for every value of the constants.

    tlc -workers 2 -config update_races.cfg MCUpdateRun
    tlapm UpdateRunProofs.tla

`PROJECT.json` holds the machine-readable part: the map from every definition
to the source lines it models, the runs, one mutant per checked property, the
hazards and the theorems.

## 1. Inventory

CybexOS is a Fedora configuration and a bootable image: Ansible roles, shell
and Python helpers, and a Quickshell desktop. Most of the code is declarative
(roles, themes, QML layout). What keeps state is listed here.

| component | state it keeps | operations | what is hard |
| --- | --- | --- | --- |
| update coordinator, `assets/scripts/cybexos-update-run` | `update.lock`, one `status.json` per run, `current`, `cancel.requested`, the systemd unit of the worker | start, status (repairs), attach, cancel, dismiss, prune, the worker and its phases | clients read and write status without the lock; a worker starts after its client is gone; kill and power loss at any point; a launch that fails after the unit exists |
| `install`, `uninstall` | the same lock | hold it during a playbook | mutual exclusion with workers |
| recovery points, `roles/base/files/cybexos-system-snapshot` | Btrfs subvolumes, boot archives, restore records, `/boot` entries, default entry | create and retention, restore, refresh, discard, refresh from the recovery boot | the machine may stop between any two renames and must still boot; the layout is probed before the lock |
| release transaction, `assets/scripts/cybexos-release-update` and the release phases of the coordinator | staged trees, `releases/VERSION`, `current`, saved configuration, `mixedState` | fetch, stage, promote, migrate, apply, activate, prune, restore | several clients stage at once; failure after a step that cannot be undone; kill between migration and restoration |
| Hermes bridge, local, `roles/desktop/files/hermes-menubar-bridge/hermes_bridge.py` | runtimes bound to conversations, watermarks, locks, the registry file | submit, call, delete, reset, reconnect and reconcile | answers after a reconnect; prompts whose delivery is in doubt; server restarts |
| Hermes bridge, remote | the WebUI session and its file, readers of response streams, observers, the conversation list | sign in and out, probe, requests, streams with resume, list refresh | requests in worker threads, outcomes applied late; dropped streams; invalidations during a refresh |
| display trial, `roles/desktop/files/quickshell/scripts/display-settings.py` | candidate, trial state, systemd timer, saved rules | apply, confirm, rollback, expire | a timer racing a confirm; a death between any two files |
| user plugins, `.../scripts/user-plugins.py`, `plugin_packages.py` | package trees, `plugins.json`, code snapshots | install, update, clone, remove, enable, disable, bar, live scan | validation without the lock, edits by the user at any time, a scan that is killed |
| cost estimate, `.../ModelUsage/scripts/cost-fetch.py`, `t3_costs.py` | the scan cache, saved T3 token and summary, saved rates | scan, resume, ask T3, price, report | files that grow or are rewritten while they are read, limits of lines, files, records and cache, two sources of one folder |
| quotas, `.../ModelUsage/scripts/usage-fetch.py` | cached answers, backoff | poll providers | - |
| firmware, `assets/scripts/cybexos-firmware-update` | capsules staged by fwupd, restart advice | check, install | advice lost when the worker dies after staging |
| session reconciliation, `image/rootfs/usr/libexec/cybexos-reconcile` | identity applied, attempts | apply with at most three attempts | power loss between apply and record |
| T3 client, Updates and Recovery panels (QML) | requests in flight, polled status | poll, start, cancel | stale answers applied to a newer request |
| agent skills, `scripts/manage-agent-skills` | discovery slots | provision, restore | must not take over what a user owns |
| installer backend, image first run, release pipeline | installation steps, published assets | run steps, repeat | failure half-way |
| login preparation, runtime helper, reminders, network, Bluetooth, themes, Ansible roles | little or none | one-shot commands | - |

How they interact: the panel and `cybex update` call the release client; it
starts the coordinator; the coordinator's worker calls `cybexos-system-snapshot
create`, dnf, fwupd and Ansible under the update lock, and runs the release
phases itself. A restore of a recovery point does not take the update lock. The
shell starts the display and plugin helpers and the bridge, and polls the cost
estimate. Inside the bridge the remote session (`RemoteAuth`) decides what the
list (`RemoteLink`) and the streams (`RemoteStream`) may do.

## 2. Modules

| module | models | instance | proofs |
| --- | --- | --- | --- |
| `UpdateJob` | what the updater promises of a run: published, working at most once and alone, settled for good | - | - |
| `UpdateRun` | the protocol of `cybexos-update-run`; implements `UpdateJob` | `MCUpdateRun` | `UpdateRunProofs` |
| `SystemSnapshot` | `cybexos-system-snapshot` with kernel changes, recovery boots, failures and restarts | `MCSystemSnapshot` | `RecoveryProofs` |
| `ReleaseTransaction` | releases from the client's check to activation or restoration | `MCReleaseTransaction` | `RecoveryProofs` |
| `HermesLocal` | the bridge with the local gateway: calls, routes, reconnects, the registry | `MCHermesLocal` | `HermesLocalProofs` |
| `RemoteAuth` | `RemoteWebUIAuth`: the remote session in memory and on disk | `MCRemoteAuth` | `RemoteAuthProofs` |
| `RemoteStream` | the readers of one conversation's responses and every request that starts or stops one | `MCRemoteStream` | `RemoteStreamProofs` |
| `RemoteLink` | the remote list, its observers and its refresh worker | `MCRemoteLink` | `RemoteLinkProofs` |
| `DisplayTrial` | `display-settings.py` and the page that calls it | `MCDisplayTrial` | `DisplayTrialProofs` |
| `UserPlugins` | package commands, the registry and live scans | `MCUserPlugins` | `UserPluginsProofs` |
| `CostFetch` | `cost-fetch.py` and `t3_costs.py` with the agents that write | `MCCostFetch` | - |

Operators prefixed by the name of a modelled definition and an underscore
(`worker_lock_Unchecked`) are mutants: the same definition with a plausible bug.
No specification uses them; `PROJECT.json` says which property each breaks.

### UpdateRun

A client executes one command at a time: `op` is the command, `pc` the place in
it, `target` the run it is about and `seen` the state it first read. Every read
or write of shared state is a step of its own, named after the function and
what it does (`start_run_publish`, `cancel_run_verify`), so that a step of
anybody else fits in between. `status`, `current` and `intent` are the files;
`lock` is the holder of `update.lock`; `worker[r]` is the control state of the
unit's main process: it waits for the lock, looks at the cancellation marker
and at the published state, and then goes through the phases that
`parse_options` selected. `NextPhase`, `CanFail` and `StoppingPoints` are the
phase table of `worker()`.

Abstracted: the text of messages and logs, time (an age check passes or not),
exit codes beyond success and failure, and what external commands do. `mv` over
a file is atomic. `systemctl` may be unable to answer. `systemd-run` may report
failure although the unit exists. A worker, a client, or the machine with all
of them may die at any step (`MaxEvents` bounds how often).

### SystemSnapshot

Subvolumes are known by who made them: 0 is the installed root, n the writable
copy of restore n. Of a subvolume the model keeps the kernels whose modules it
holds, of `/boot` the kernels with an entry, and the default entry. Every
command probes the layout first and then waits for the store lock (`open`), as
in the code; from there each action is one rename, unlink group, record or
reconciliation. `Fail` is a failing external command (`run`), with the cleanup
the code does; `Kill` and the restarts do no cleanup.

Abstracted: the files of one kernel in `/boot` come and go as a unit, the
unlinks of one undo are one step, dnf changes kernels only between commands,
stamps are taken from a clock that does not go back, and the boot menu and the
index that `regenerate` writes are functions of the modelled state.

### ReleaseTransaction

A release is its version, the saved configuration its schema. Clients fetch and
stage without any lock; the worker is single, which is what `UpdateRun`
establishes (`OneTransaction`). Its local variables (`config_changed`,
`activated`, `mixed_state`, `cancel_requested`) are separate from the status on
disk, and vanish with it: the next run resets them. `installed` and `applied`
say what Ansible has put on the machine. Restoring the configuration can fail
in two ways, as in the code: an unreadable backup is reported, a failing
`install` is not.

Abstracted: download and verification (they succeed or the client gives up),
the contents of the trees, the two swaps of the link when an activation is
undone (together with the final status), and failure of the second swap.

### HermesLocal, RemoteStream, RemoteLink

The bridge is one asyncio loop. An action is what a task does between two
awaits; a call that is awaited is the control state of the task that awaits it.
The servers at the other end are external: they are modelled by what the bridge
may observe of them, and may lose a call or its answer.

`HermesLocal` keeps the bridge's routing tables under their names
(`runtime_by_conversation`, `conversation_by_runtime`, `watermarks`, the
per-conversation locks), the registry in memory and on disk, and the server's
sessions, of which only those with an accepted prompt survive its restart. A
task is a client's request, the reconciliation of one connection, or its
restoration of one conversation. `RemoteStream` keeps the maps
`remote_stream_*` of one conversation; a reader opens a stream at an event id,
reads, is closed, asks for the status of the run, and gives up after `GiveUp`
failures in a row; ids are positions in the journal of a run. `RemoteLink` keeps
the rows, which of them are known to the WebUI, the observer and refresh tasks
with their cancellation, and the `pending` flag that coalesces invalidations. A
cancellation ends a task at its await, or is suppressed where the code suppresses
it: in a session observer that waits for a reader (`deaf` from then on), and in a
worker that waits for an observer or a reader.

Abstracted: the text of messages, attachments, the parsing of rows, and pauses
(a retry may come at any time).

### RemoteAuth

Operations run in threads, each a snapshot under the lock, a request without
it, and an outcome applied under it, and any others may come between. A jar is
an object with an identity, because the code compares identities
(`_session_fault`) before it applies an outcome; `cookie` says which session of
a WebUI it names. Any answer may bring a new cookie (`Renew`): the cookie
processor puts it into the jar (641) and nothing saves it; `renewed` records the
sessions replaced in this way. Writing the credential file may fail (`torn`
records that); a restart reads it. Abstracted: passwords, headers, and what a request is for.

### DisplayTrial

A candidate is named by the token of its trial. A process of the helper goes
through the files in the order of the code under `TrialLock`; the timer of a
token is a process of its own (`expire`). The page (`Common/DisplaySettings.qml`)
keeps the trial it offers to keep and has one request under way. Age is
`fresh`, `late` (the timer is due) or `stale` (another boot or too old); a
suspend (`Sleep`) makes a trial stale while its monotonic timer still runs.
Anybody may reload Hyprland (`Reload`), which takes a trial off the screen and
leaves its files and timer. A `systemctl stop` that fails is ignored, as in the
code, and the timer goes on. Entering the lock is one step per operation
(`EnterApply`, `EnterConfirm`, `EnterRollback`, `EnterExpire`).
Abstracted: the rules themselves and their syntax; `hyprctl` applies them or
fails.

### UserPlugins

A revision stands for the contents of a tree; `good` are those with a valid
manifest. What commands change together they change under the registry lock, a
tree and its registry entry in two steps with a possible death between; clones,
fetches and validation run without the lock. Edits come at any moment, also
between the `rev-parse`, `status` and `merge` of an update, and may bring a tree
back to its commit or to what a scan has read of it (`Undo`). `git merge` is
external: of edits made after the status it refuses to overwrite those in files
it changes, and keeps the others. A live scan reads the stat signature,
fingerprints, copies, compares and publishes each enabled tree as separate
steps, and its `.revisions.json` may fail to be written. Abstracted: the place
of widgets on the bar; commits of the user; a copy is of one moment, so that a
tree edited in the middle of it counts as edited before or after. Broken
manifests and edits undone share the bound of faults (`MaxFault`) to keep the
instance small.

### CostFetch

A line takes three bytes, so that a file can end in half a line, in a whole
line without its newline, or after a newline. `Read` resumes from the cached
position when the guard matches; a guard is the end of the last line before the
position (the code hashes 64 bytes), so that a rewrite may leave it as it was.
The histories `gen` and `blind` mark an entry that was resumed over such a
rewrite. The limits are those of the code with small values: bytes of a line
(`huge` lines are the ones that are longer), of a file and of a scan, records of
a file and in all, files walked and files cached, the last two on loading the
cache as well. The limit of directories is folded into that of files: both end
the walk at an arbitrary place and keep the cached entries. T3 answers with the
days it has usage on. Prices are left out: a report is what it counts and
whether it calls itself complete.

## 3. Runs

Every property of every run has one mutant in `PROJECT.json`: a plausible bug
in a modelled function that makes TLC report that property. `TypeOK` is listed
with no run: where a module has proofs it is part of the inductive invariant
that is proved, and its theorem `TypeCorrect` holds for every instance.

| run | instance | shows |
| --- | --- | --- |
| `update_races` | 2 clients, 2 runs, 1 run kept, 2 events, packages only | `OneTransaction`, `TerminalMeansStopped`, `NoSecondActiveRun`, `NoResurrection`, `ImplementsJob` |
| `update_settles` | 2 clients, 1 run with every phase, 1 event, fair | `CurrentRunSettles`, `CancellationIsHonoured`, `IntentPreventsWork` |
| `snapshot_restore` | 1 process, 2 kernels, 2 points, 1 restore, `KEEP` 1, 1 event, fair | `AlwaysBootable`, `RestorablePoints`, `InterruptedSettles` |
| `snapshot_commands` | 2 processes, 2 kernels, 2 points, 2 restores, `KEEP` 1, no event | `RunningRootKept`, `DefaultRuns` |
| `release_races` | 2 clients, 4 versions, 2 kept, 3 runs, 1 kill, 1 failed restoration | `MixedIsRecorded`, `FailureRestoresConfig`, `OnlyPromotionRemovesCurrent` |
| `hermes_local` | 1 conversation, 1 client, 2 connections, 2 lives of the server, 2 sessions, 1 submit, 1 other request, 2 events per runtime, 1 fault | `RoutesAgree`, `ForwardedOnce`, `FallbackKeepsMessages` |
| `remote_stream` | 2 request tasks, every operation, 2 of them begun, 2 turns, 2 readers, 1 token, 1 drop, `GiveUp` 2 | `TextIsJournal`, `OneCompletion`, `FinishedTurnStays` |
| `remote_auth` | 3 threads, 4 jars, 2 origins, one of them without a password, 2 sessions, 3 operations, 2 faults | `ConnectedIsConfirmed`, `SignedOutStaysOut`, `SavedIsCurrent`, `HonouredIsKept` |
| `remote_link` | 2 request tasks, 2 workers, 4 observers, 2 conversations, 2 operations, 1 drop, fair | `NoInvalidationLost`, `Settles` |
| `display_trial` | 2 helpers, 2 trials, 2 faults (edits by somebody else among them), fair | `Guarded`, `SettledIsSaved`, `SavedWasShown`, `TrialEnds` |
| `user_plugins` | 2 commands at once, 2 plugins, 2 operations, 3 revisions, 2 tries, 1 tick, 1 fault or edit undone | `Consent`, `EditsKept`, `LoadedKept`, `SnapshotTrue` |
| `cost_fetch` | 4 files of two providers, 2 keys, 9 settings, 2 writes, 2 faults, 2 days, limits of 14 and 17 bytes, 2 and 3 records, 2 files walked and 3 cached | `CacheIsParse`, `CountedOnce`, `CompleteIsWhole`, `BacklogShrinks` |

Why these bounds are enough to be interesting.

* Updater: the races are between one worker, one client that started or cancels
  it, and one more client; the second run is what a stale reader or a waiting
  worker could disturb, and with one run kept it also prunes the first. Two
  events let a fault hit the repair of a fault. Option sets differ in which
  phases occur; the safety theorems hold for all of them.
* Recovery points: two kernels give one that only the old root has and one that
  only the restored root has; a second restore finds the remains of the first;
  `KEEP` = 1 makes the second create prune.
* Releases: three runs are a success, a failure and a run over their remains;
  with two directories kept the fourth version makes pruning reach the active one.
* Bridge, local: the second connection meets the calls of the first, the second
  life of the server has forgotten a session that had no prompt; the client and
  the restoration contend for the lock of one conversation; of two events one is
  seen and the other missed, which is what a replay is for. Several clients and
  several conversations are covered by the theorems, not by the instance.
* Bridge, remote: two readers overlap or follow one another, two sessions are
  the replaced and the replacing one, three threads are a sign-in, a sign-out
  and a late challenge; with four observers each of the two kinds is replaced
  once; 4 jars are never used up by 3 operations.
* Display: two trials and two helpers let a confirm of one meet the timer of the
  other and the next apply; two faults hit an apply and the end of its trial.
* Plugins: the second command overlaps the first between its two locked parts;
  three revisions are an old, a fetched and an edited tree; the clock ticks
  once, so that an edit falls within the same tick or after it.
* Cost estimate: 17 bytes let a scan finish one file of 14 and not the second;
  the settings begin below, at and beyond the limits of records, of the walk and
  of the cache; lines of the day before the first leave both the window and the
  cache on the second; two writes are an unfinished line and its end.

Symmetry is used in runs without liveness only. Deadlock is not checked where
the bounds let the system come to rest: `release_races`, `hermes_local`,
`remote_stream`, `remote_auth`, `remote_link`, `display_trial`, `user_plugins`.

### Fairness

* `UpdateRun!FairSpec`: a client in the middle of a command and a worker that
  can step do so (processes are scheduled, and the external commands of a phase
  end; the checks are under `timeout`). Strong fairness of `worker_lock`,
  because `flock 9` blocks and the other holders release the lock. A client
  repeats its status query, since the panel polls; strong fairness of the query,
  of getting the lock in it, and of an answer from `systemctl` says that some of
  these attempts are not in vain. Nothing is assumed of starts, cancels, faults
  or installations.
* `SystemSnapshot!FairSpec`: a command runs to its end and gets the store lock
  in the end (it blocks in `flock`), the machine is restarted normally again and
  again, and the boot service runs its refresh.
* `DisplayTrial!FairSpec`: a process that can go on does (each call it makes has
  a timeout), time passes, and an armed timer fires. Nothing is assumed of the
  page.
* `RemoteLink!FairSpec`: weak fairness of `Progress`, everything the bridge can
  do by itself: the loop runs tasks that are ready, and every request ends
  because it has a timeout. Requests of clients and of the WebUI owe nothing.

## 4. Proofs

Eight modules hold theorems; each is checked by `tlapm` to the last leaf. The
constants are arbitrary but for the named assumptions of the modules
(`ConstantsAssumption`, `ReleaseAssumption` and so on), which say that bounds
are numbers and that identities differ, and which TLC evaluates on every run.
`RecoveryProofs` is about the two ways back from an update, the recovery points
and the release transaction; it extends both modules, which share no variable.

| module | theorem | statement |
| --- | --- | --- |
| `UpdateRunProofs` | `TypeCorrect` | `Spec => []TypeOK` |
| | `TransactionsExclude` | `Spec => []OneTransaction` |
| | `TerminalIsStopped` | `Spec => []TerminalMeansStopped` |
| | `SettledForGood` | `Spec => NoResurrection` |
| | `IntentIsFinal` | `Spec => IntentPreventsWork` |
| | `OneActiveRun` | `Spec => []NoSecondActiveRun` |
| | `CancelledIsNotDone` | `Spec => CancellationIsHonoured` |
| | `RefinesJob` | `Spec => ImplementsJob` |
| `RecoveryProofs` | `TypeCorrect` | `Spec => []TypeOK` |
| | `RunningRootSafe` | `Spec => RunningRootKept` |
| | `Bootable` | `Spec => [](events = 0 => AlwaysBootable)` |
| | `DefaultStarts` | `Spec => [](events = 0 => DefaultRuns)` |
| | `PointsRestorableAlone` | with one process: `Spec => [](events = 0 => RestorablePoints)` |
| | `ReleaseTypeCorrect` | `ReleaseSpec => []ReleaseTypeOK` |
| | `MixedAlwaysRecorded` | `ReleaseSpec => []MixedIsRecorded` |
| | `ConfigRestored` | `ReleaseSpec => []FailureRestoresConfig` |
| | `CurrentKept` | `ReleaseSpec => OnlyPromotionRemovesCurrent` |
| `DisplayTrialProofs` | `TypeCorrect` | `Spec => []TypeOK` |
| | `TrialGuarded` | `Spec => []Guarded` |
| | `SettledShowsSaved` | `Spec => []SettledIsSaved` |
| | `KeptWasShown` | `Spec => SavedWasShown` |
| `RemoteAuthProofs` | `TypeCorrect` | `Spec => []TypeOK` |
| | `ConnectedConfirmed` | `Spec => []ConnectedIsConfirmed` |
| | `SignedOut` | `Spec => []SignedOutStaysOut` |
| | `SavedCurrent` | `Spec => []SavedIsCurrent` |
| | `HonouredKept` | `Spec => HonouredIsKept` |
| `UserPluginsProofs` | `TypeCorrect` | `Spec => []TypeOK` |
| | `ConsentGiven` | `Spec => []Consent` |
| | `EditsStay` | `Spec => EditsKept` |
| | `LoadedStays` | `Spec => []LoadedKept` |
| | `SnapshotsTrue` | `Spec => []SnapshotTrue` |
| `RemoteLinkProofs` | `TypeCorrect` | `Spec => []TypeOK` |
| | `InvalidationServed` | `Spec => []NoInvalidationLost` |
| `RemoteStreamProofs` | `TypeCorrect` | `Spec => []TypeOK` |
| | `TextFollowsJournal` | `Spec => []TextIsJournal` |
| | `CompletedOnce` | `Spec => []OneCompletion` |
| | `FinishedStays` | `Spec => FinishedTurnStays` |
| `HermesLocalProofs` | `TypeCorrect` | `Spec => []TypeOK` |
| | `TablesAgree` | `Spec => []RoutesAgree` |
| | `FallbackIsSafe` | `Spec => FallbackKeepsMessages` |
| | `ForwardedAtMostOnce` | `Spec => []ForwardedOnce` |

Each module has a theorem `Invariance == Spec => []IInv` that the others rest
on, where `IInv` is inductive (for the release transaction, `ReleaseInvariance`
and `ReleaseInv`). Hardly any of the checked properties is; what has to be added
is what the code relies on without saying it.

### UpdateRun

That a final status means a stopped worker depends on what clients in the middle
of a command may still write: a cancel may write "cancelled" because it has seen
the unit stop, a repair may write "failed" because it holds the lock and has
seen no unit. `IInv` collects this:

* `LockHeld`: a process in a locked section is the holder;
* `TargetKnown`: a client past its first read is about a run that exists;
* `LaunchOnce`: a run has a worker only after its own client launched it;
* `RepairSafe`, `CancelSafe`, `DismissSafe`: a client about to write a final
  status has a target whose worker is gone or can no longer begin;
* `WorkingIsActive`: a worker at work has a run that is shown active.

`OneTransaction` follows from `LockHeld`, `TerminalMeansStopped` from
`WorkingIsActive`. The action properties and the two properties about the future
of one run (`IntentPreventsWork`, `CancellationIsHonoured`) rest on a predicate
each that no step leaves (`TerminalStep`, `DoomedStep`, `StoppingStep`), and
`NoSecondActiveRun` on an invariant of its own about which run a start command
is about to make current (`CurrentStep`).

The refinement: the mapping reads the life of a run off its record and its
worker (`JobOf`); its cases exclude each other only under `WorkingIsActive`.
Most steps concern one run, whose life then goes on by one transition or not at
all (lemma `OneRun`); pruning and a power loss end several lives in one step,
which is why `Settle` and `Lose` of `UpdateJob` take sets.

### ReleaseTransaction

`MixedFirst`: from before Ansible until the release is finished with, the mixed
state is on disk and in the worker's memory; once activation is over, the active
release is the one being installed. `Restorable`: while nothing was killed and
no restoration failed, the configuration on disk, or the backup that a failure
would put back, has the schema of the release that would be active afterwards,
at every control state. `OnlyPromotionRemovesCurrent` rests on the second part
of `MixedFirst`: what pruning spares as the version being installed is then the
active one.

### SystemSnapshot

`Ids`: names are used once and in order. `Layout`: where each subvolume is, at
each control state of a restore, an undo and a discard; in particular that an
undo deletes only a copy that was never made the root, and that the check of a
discard, made before it waited for the lock, is still true of a root that was set
aside when the check was made. Of one that was not (the discard is `ahead`),
nothing can be said, and `RunningRootKept` excepts it. `PointKernels` and `Records`: what the archives and records say of
kernels. `Starts`: until the first failure, that `root` keeps a kernel in `/boot`
through staging, exchange and retirement, and that the default entry is one.

`RunningRootKept` is proved whatever fails. `Bootable` and `DefaultStarts` are
proved up to the first failure (`events = 0`), for any number of processes,
points and restores. After failures they are not true without limit, and TLC
shows where that begins: see section 5. For one failure in the instance of
`snapshot_restore`, `AlwaysBootable` is model-checked. The lemma
`LeastElement` is there because pruning chooses the oldest points.

`RestorablePoints` rests on `Archives`: a point is listed only after its archive
and its snapshot are complete, retention takes it off the list before it removes
a file, and the files of a create are withdrawn by its own clean-up, which runs
only after a failure. What remains is that the archive was made of kernels that
start the system it is taken of (`Archivable`). A create that waits behind a
restore breaks that (section 5). With one process no create waits behind another
command (`Unmoved`), and then `Starts` and `Layout` imply it as long as nothing
has failed: `PointsRestorableAlone` assumes nothing about behaviours.

### DisplayTrial

`IInv` says for every process inside the lock what it may rely on: which files
hold its token (`Disk`), that its token is new until it has written, armed or
shown it (`AppliesNew`), that two applies never have the same token
(`AppliesApart`), and that a running timer has not fired (`TimersIdle`,
`ArmedFirst`). `ShownOnDisk` and `KeptEnds` connect the screen with the files:
an arrangement nobody kept is the trial on disk or about to be reloaded away,
and a kept one is cleared by its own confirm. The history variables `unseen`
(a fault in the apply, or a reload from elsewhere, kept the trial off the
screen) and `failed` (a fault hit its end, or the session slept during it) name
the trials the properties excuse; every other trial is covered although faults
and reloads happened.

### RemoteAuth

`JarsApart`: a jar a thread has made is nobody else's. `Issued`: every session
named by a jar, the file or a thread was issued before. `Snapshots`: what a
thread remembers of the jar in use is what the jar holds, unless a sign-out has
emptied it or an answer of the same WebUI has renewed its cookie. `Answers`: a good answer means that the session sent belongs to that
WebUI, a challenge that it is not honoured there, also when either arrives late.
`Kept`: while every write of the session has worked, a saved session is marked
as such and, after a sign-out, nothing is. The proof is by effects: each action is reduced to
one of a few changes of the session (ends, sends, is served, signs in, drops),
and the invariant is shown for each effect.

### UserPlugins

Each property needs something else to be inductive. `Consent`: `Chosen`, which
is about every name, installed or not, and a command that is about to delete a
tree has disabled it, which nobody undoes because of the one lock (`Exclusive`).
`SnapshotTrue`: `Fresh`, a staged copy whose tree still has the fingerprint is that
tree, or `undone` says that it was edited back; and `Settled`,
every remembered stat signature is older than the clock, so that nothing written
from now on can have it (this is what `SETTLE_NS` is for). `LoadedKept`:
`Handed`, what the shell runs is what was handed out last, and a scan has not
touched it for the plugins it has still to do. `EditsKept` rests on the merge
and on types: the status read before it does not protect an edit made after it,
git does.

### RemoteLink

`NoInvalidationLost` speaks of a connected session only, which makes it useless
for an induction: the session may be away while the invalidation waits and come
back before it is served. `Owed` is the same without the session. It needs
`Bounded` (nobody knows a version the WebUI has not reached, so the answer to a
list request is as new as every change announced before) and `Sensible`: a
worker is never in any state but asking for the list, sleeping, or waiting for
an observer before it sleeps, so a mark that is set is seen by the worker that
is registered. The hard step is an answer that is applied while newer changes
were heard: what it does not bring is owed by the mark, which an awaiting worker
finds when it comes back to its loop, or by another request that was sent later.

The theorem is about any number of workers, also those of which the registered
one was replaced, and assumes that some task serves requests (`Handlers # {}`).

### RemoteStream

The three properties speak of readers that follow one another (`~overlap`); when
`start_remote_stream` attaches a reader over a living one, which the code does
not exclude, they may fail, and section 5 lists it. Without an overlap
`Following` says that there is at most one living reader, and `Follows` what it
may rely on: while a stream is attached the reader is the registered task of that
run, has not been cancelled, and stands at the cursor; when none is attached the
reader is cancelled or closing for the last time, so that all it will still do is
clean up. A cancelled reader cannot be of an attached stream because
`stop_remote_stream` drops the entries in the step that cancels, and a start
waits for the reader to end.

`TextIsJournal` then needs only that the next event of the reader is the one
after the cursor (lemma `TextGrows`). For `OneCompletion` a reader that has
reported its turn is waiting for the history, leaving, or has marked the run as
completed; the mark means that the done is among the events up to the cursor
(`DoneBy`), and after a done the journal of the WebUI holds a title and the end
of the stream at most (`JournalsEnd`), neither of which reports a marked run
again (`NoSecondDone`). `FinishedTurnStays` follows from the same: the events
that could move the conversation back to work do not come after a done, the
steps that report a lost transport look at the mark, and a step of a request
task that changes a living reader changes itself as well (`RequestsLeave`).

`JournalsEnd` is a fact about the WebUI, which is external: it is what the
bridge relies on when it handles a done. The number of runs, readers, requests
and faults is arbitrary, and so is the set of events the WebUI records.

### HermesLocal

`RoutesAgree` is not inductive: `_bind_runtime` makes a conversation the owner of
whatever runtime Hermes answered with. Nobody else owns that runtime because a
session belongs to one conversation wherever it is named (`SessionsApart`: the
registry, its file, the route, a resume under way, an answer that has not been
read), and the conversation has no route because a session is only asked for by
the holder of its lock, who saw none (`LockHeld`). Both survive the steps that
drop routes without the lock: a new life of the server, a restoration, a delete
and a reset only take names away (`Fewer`). `Spawned` says that the
restorations of a connection start once, after its replay.

`FallbackKeepsMessages` rests on `Missing`: when Hermes has answered that it does
not know a session, the session the conversation has stored by then is not known
and not durable; it is the one that was asked for, or a reset has forgotten it.

For `ForwardedOnce`, `Replays` adds that no more was forwarded of a runtime than
was seen of it, and that a replay asks for what follows an event that was seen
and is still remembered as seen. The one step that breaks this is
`watermarks.clear()` while a replay of the runtime is awaited; such runtimes are
`lapsed`, and the invariant and the property are about the others. Nothing is
assumed of the number of connections or of their order.

### What stays with TLC

* Liveness (`CurrentRunSettles`, `InterruptedSettles`, `Settles`, `TrialEnds`):
  fairness and ENABLED are beyond the prover.
* `AlwaysBootable` and `RestorablePoints` after a failure, in the instance of
  `snapshot_restore`.
* `CostFetch` (whose parser is a fold over the lines of a file: what it computes
  for every file needs induction over data).
* `RemoteStream` once readers overlap: no property is claimed for that.

## 5. What the models show beyond the properties

These are behaviours of the code that were met while modelling. The properties
above are stated so as to hold with them; the excuses in them (`kills = 0`,
`~torn`, `failed`, `missed`, `undone`, `unseen`, `~overlap`, `lapsed`, `ahead`,
`deaf`, `~lost`, `renewed`, `blind`, `WithinLimits`) are exactly these cases.

Recovery points

* With two failures a machine may be left without a kernel for its root: a
  restore is killed after recording its staged kernels, dnf installs one of
  those versions for the old root, and the power is lost before a refresh; the
  system runs on that kernel, the other one is removed, and the undo of the
  restore (`undo_prepared`, 719-724) unlinks the one in use. TLC finds this in
  `AlwaysBootable` with `MaxEvents` = 2.
* The staged kernels are recorded only after all of them are in place
  (932-933). A restore that stops while staging is undone with an empty list and
  leaves kernels with boot entries (docs/operations.md:423 says otherwise).
* A discard compares the root it names with the running one before it has the
  lock, and afterwards looks only whether the root exists (966-977). One that
  names a restore which is about to begin, or waits while that restore sets the
  running system aside, deletes the subvolume the machine runs on, which
  docs/operations.md:433 rules out. TLC reaches it in `snapshot_commands` after
  some 20 steps; `ahead` in `RunningRootKept` is exactly this case.
* Discarding a restore that was interrupted after the rename and before a
  refresh leaves a default entry that may not fit the root.
* `create` probes the layout before it has the lock (773, 791): one that waits
  behind a restore takes a point of the system that waits for its restart, which
  782-783 refuse otherwise. Such a point may have an archive without a kernel of
  its snapshot; hence `RestorablePoints` for one process.

Releases

* A killed worker leaves the migrated configuration, and the next run, which
  resets `release_config_changed` (939), does not put it back
  (docs/releasing.md:68-69).
* A restoration whose `install` fails is reported as done (650, 652).
* Promoting the version that is active meanwhile removes its directory first
  (782); a kill or failure then leaves `current` dangling.
* A client that staged an older version after another client may apply it over
  a newer one (`cybexos-release-update`:360).

Hermes bridge

* Reset and reconfigure look at the state of a conversation before they await
  `session.close` (3115-3137), against the comment at 2878-2880.
* A reconciliation that finds a new life of the server clears the watermarks
  (6275) although an earlier one may be waiting for missed events. If the runtime
  is bound again and an event arrives live before that answer is handled, the
  event is forwarded twice. It takes three connections in quick succession: with
  `MaxConn` = 3 TLC finds a runtime in `twice` after some 25 steps. `lapsed` in
  `ForwardedOnce` is exactly this case.
* Readers of one response stream can overlap, although the docstring (5317)
  says one; a late `finally` pops the entry of its successor.
* A prompt that times out leaves "reconnecting"; a persisted "working" is not
  reset after a restart of the bridge.
* A failed login leaves "connecting"; a rejected sign-in for the origin in use
  marks a valid session expired; a write of the credential file that fails on
  sign-out leaves "connected".
* A cookie that an ordinary answer sets is in the jar and not in the file: a
  restart resumes the session it replaced (`renewed` in `SavedIsCurrent`). As
  `_session_fault` compares jars, the challenge of a request that was sent
  before such an answer expires the session that the answer brought; the last
  disjunct of `HonouredIsKept` is this case. TLC finds both when they are not
  excused.
* An invalidation whose list request fails is not asked for again.
* A request that observes another conversation may wait for ever. A session
  observer that was told of a new turn calls `start_remote_stream` (3689) and
  may wait there for the reader it replaces; `stop_remote_stream` suppresses the
  cancellation that reaches it there (5369-5371). The observer goes back to its
  loop, whose condition (3651-3655) is still true because the request sets
  `remote_observed_conversation_id` only when the observer has ended
  (3516-3517), and `stop_remote_observer` waits for it (3458-3459) without
  asking again. A sign-out ends this: it clears the observed conversation.
  `deaf` in `Settles` is exactly this case.
* A refresh worker that is cancelled while it waits for such an observer, or for
  a reader, suppresses its own cancellation in the same way and goes on.

Display and plugins

* A kill between disarming the timer and the save, clear or reload leaves an
  unconfirmed arrangement with no timer; a failed reload in `expire` is not
  retried; an apply killed before it showed its candidate leaves a trial that
  can be kept though it was never on screen.
* A full `hyprctl reload` by somebody else drops a trial from the screen
  (`docs/system-theme.md`:133-135), and nothing tells the helper: `confirm` still
  saves it (411) and applies nothing, so what is saved is not what is on screen
  until the next reload. `unseen` in `SavedWasShown` names these trials.
* A suspend during a trial can make it stale before its timer has run out: the
  next apply clears its files (358), and if that apply then fails, the old
  arrangement stays on screen with nothing left to restore it.
* Removing the clone of a plugin enables the original again even when it was
  removed meanwhile (`user-plugins.py`:686-690). If a package of that name is
  then installed and the command is killed between the rename of the tree and
  the write of the registry, that package is enabled at once, against the help
  of `add` ("disabled until enabled"); reinstalled before the clone goes, it is
  enabled by the removal. `Consent` counts such a name as given back. Removing an original leaves its clone's
  bar entry behind.
* If the answer of a finished scan is lost, or its `.revisions.json` cannot be
  written (530-534 ignore that, "the next scan hashes again"), a later scan may
  delete the code the shell still runs: it prunes by the file (507-513).
  `missed` in `LoadedKept` is these two cases.
* A tree that is edited after its fingerprint (443) and edited back after the
  copy (450) has the fingerprint again (451): the code without the edit's name
  is published under it, and not copied again while the tree stays (446).
  `undone` in `SnapshotTrue` is this case.

Cost estimate

* The guard that detects a rewritten file covers the 64 bytes before the position
  only (212-215). A file that is rewritten with the same bytes there is resumed,
  and the records of its old beginning stay (`blind`).
* A file whose records do not fit into what the total limit leaves (814-816) is
  read, left out and never cached (the entry is made at 818): it is read again by
  every scan and stays in the backlog for good. The same holds of what is beyond
  the limits of the walk and the cache, and a line that is too long
  leaves its file incomplete. `BacklogShrinks` is stated for transcripts within
  these limits (`WithinLimits`), and the report calls itself incomplete beyond.
* A kill between the exchange of a T3 pairing token and saving its result loses
  the token, which works once (`t3_costs.py`:393-397).

## 6. Plan

Done: `UpdateRun` and `UpdateJob` with the refinement; `SystemSnapshot`;
`ReleaseTransaction`; `DisplayTrial`; `RemoteAuth`; `UserPlugins`; `RemoteLink`;
`HermesLocal`, `RemoteStream`, all with proofs; the model of `CostFetch`.

Next, in this order:

1. An abstract specification of `DisplayTrial` ("shown, kept or back") and of
   a restore ("old root or new root"), and their refinements.
2. Models of `RebootAdvice` (carried between runs, boots and firmware),
   `Reconcile`, `AgentSkills`, the T3 client and the Updates panel as a client
   of `UpdateRun`.
3. A composition of `UpdateRun` and `SystemSnapshot`: a restore while an update
   is at work.

## 7. Not modelled

Ansible roles and playbooks (declarative; a run of one is a phase that succeeds
or fails), QML layout and theme generators (no state worth checking), one-shot
converters such as `scripts/migrate-config` (only their effect on the schema is
used), the order of widgets on the bar, prices and currencies, the restart
advice and the message texts of the coordinator, attachments and message texts
of the bridge, and vendored code. The components of the inventory without a
module are listed in `PROJECT.json` with the reason. Hazards of those parts, and
of lost restart advice and locks not taken between a restore and dnf, are left
for the models of the plan.
