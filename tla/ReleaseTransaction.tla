------------------------- MODULE ReleaseTransaction -------------------------
(***************************************************************************)
(* A CybexOS release from GitHub to `current`.  Clients                    *)
(* (assets/scripts/cybexos-release-update) resolve, verify and stage a     *)
(* candidate and hand it to the update worker                              *)
(* (assets/scripts/cybexos-update-run), which promotes it, migrates the    *)
(* saved configuration, applies it with Ansible, activates it and prunes   *)
(* old releases, or restores the configuration.  UpdateRun shows that at   *)
(* most one worker is at work; here there is only one.                     *)
(*                                                                         *)
(* A release is its version, its tree the directory releases/VERSION or a  *)
(* hidden stage.  Of the saved configuration the schema number is kept.    *)
(***************************************************************************)
EXTENDS Naturals, FiniteSets

CONSTANTS
    Clients,     \* processes that run cybex update
    MaxVersion,  \* release versions 1 .. MaxVersion, 1 is installed
    Schema,      \* the configuration schema of every version
    Keep,        \* release directories retained (3 in the code)
    MaxRuns,     \* bound: workers ever started
    MaxKills,    \* bound: workers killed or ended by a signal
    MaxFaults    \* bound: restorations that fail

Versions == 1 .. MaxVersion

ASSUME ReleaseAssumption ==
    /\ MaxVersion \in Nat \ {0}
    /\ Keep \in Nat \ {0}
    /\ MaxRuns \in Nat /\ MaxKills \in Nat /\ MaxFaults \in Nat
    /\ Schema \in [Versions -> Nat]
    /\ \A v, w \in Versions : v <= w => Schema[v] <= Schema[w]

VARIABLES
    releases,    \* versions with a directory under releases/
    current,     \* the version the link `current` names
    config,      \* schema of the saved installer configuration
    installed,   \* versions of which managed files are on the machine
    client,      \* control state of every client
    candidate,   \* the version a client has resolved
    worker,      \* control state of the worker, "none" without one
    version,     \* release_version of the last run
    previous,    \* previous_target, read by activate_release
    backup,      \* config.before.yml of the run
    config_changed,    \* release_config_changed
    activated,         \* release_activated
    mixed_state,       \* mixed_state in the worker
    cancel_requested,  \* a stop has reached the worker
    status,      \* state in the status of the last run
    phase,       \* its phase, as far as the end of the run goes
    mixedState,  \* its mixedState
    runs, kills, faults,  \* counters for the bounds
    applied      \* auxiliary: the last run has let Ansible change files

clientVars == <<client, candidate>>
treeVars == <<releases, current, config, installed>>
runVars == <<version, previous, backup, config_changed, activated,
             mixed_state>>
statusVars == <<status, phase, mixedState>>
countVars == <<runs, kills, faults>>
releaseVars == <<treeVars, clientVars, worker, runVars, cancel_requested,
                 statusVars, countVars, applied>>

ReleaseInit ==
    /\ releases = {1} /\ current = 1
    /\ config = Schema[1]
    /\ installed = {1}
    /\ client = [c \in Clients |-> "idle"]
    /\ candidate = [c \in Clients |-> 1]
    /\ worker = "none"
    /\ version = 1 /\ previous = 1 /\ backup = Schema[1]
    /\ config_changed = FALSE /\ activated = FALSE /\ mixed_state = FALSE
    /\ cancel_requested = FALSE
    /\ status = "done" /\ phase = "complete" /\ mixedState = FALSE
    /\ runs = 0 /\ kills = 0 /\ faults = 0
    /\ applied = FALSE

WorkerAt(label) == worker' = label

write_status(s, p, m) == status' = s /\ phase' = p /\ mixedState' = m

-----------------------------------------------------------------------------
(* The client.  Which release GitHub answers with is an input; it is taken *)
(* when it is newer than the release the client runs from.                 *)
fetch_release(c) ==
    /\ client[c] = "idle"
    /\ current \in releases
    /\ \E v \in Versions : /\ v > current
                           /\ candidate' = [candidate EXCEPT ![c] = v]
    /\ client' = [client EXCEPT ![c] = "fetched"]
    /\ UNCHANGED <<treeVars, worker, runVars, cancel_requested, statusVars,
                   countVars, applied>>

(* Download, verification and extraction, and compatible_manifest: a       *)
(* release whose schema is older than the saved configuration is refused.  *)
(* Whatever fails here ends the project step and removes the stage.        *)
stage_release(c) ==
    /\ client[c] = "fetched"
    /\ \/ /\ Schema[candidate[c]] >= config
          /\ client' = [client EXCEPT ![c] = "staged"]
       \/ client' = [client EXCEPT ![c] = "idle"]
    /\ UNCHANGED <<treeVars, candidate, worker, runVars, cancel_requested,
                   statusVars, countVars, applied>>

(* cybexos-update-run start: with a run active, or no launch, the client   *)
(* removes its candidate; else the worker owns it.  A run whose worker is  *)
(* gone is marked abandoned first.                                         *)

Abandoned == worker = "none" /\ status = "running"

start(c) ==
    /\ client[c] = "staged"
    /\ client' = [client EXCEPT ![c] = "idle"]
    /\ ~Abandoned
    /\ \/ UNCHANGED <<worker, runVars, cancel_requested, statusVars, runs,
                      applied>>
       \/ /\ worker = "none"
          /\ runs < MaxRuns
          /\ runs' = runs + 1
          /\ WorkerAt("promote")
          /\ version' = candidate[c]
          /\ config_changed' = FALSE /\ activated' = FALSE
          /\ mixed_state' = FALSE /\ cancel_requested' = FALSE
          /\ applied' = FALSE
          /\ write_status("running", "queued", FALSE)
          /\ UNCHANGED <<previous, backup>>
    /\ UNCHANGED <<treeVars, candidate, kills, faults>>

cancel == /\ worker # "none" /\ ~cancel_requested
          /\ cancel_requested' = TRUE
          /\ UNCHANGED <<treeVars, clientVars, worker, runVars, statusVars,
                         countVars, applied>>

repair_stale_status ==
    /\ Abandoned
    /\ write_status("failed", "abandoned", mixedState)
    /\ UNCHANGED <<treeVars, clientVars, worker, runVars, cancel_requested,
                   countVars, applied>>

-----------------------------------------------------------------------------
(* Mutant: the migrated configuration stays. *)
restore_release_configuration_Never(ok) == ok /\ UNCHANGED <<config, faults>>

(* A backup that cannot be read is an error; an install that fails is not, *)
(* the function goes on and returns 0.                                     *)
restore_release_configuration(ok) ==
    \/ /\ ok
       /\ config' = IF config_changed /\ ~activated THEN backup ELSE config
       /\ UNCHANGED faults
    \/ /\ config_changed /\ ~activated
       /\ faults < MaxFaults
       /\ faults' = faults + 1
       /\ UNCHANGED config

Ended == /\ WorkerAt("none")
         /\ UNCHANGED <<releases, installed, clientVars, runVars,
                        cancel_requested, runs, applied>>

(* The end of every run that the worker itself fails or cancels. *)
End(s, p) ==
    /\ Ended
    /\ \E ok \in BOOLEAN :
          /\ restore_release_configuration(ok)
          /\ IF ok THEN write_status(s, p, mixed_state)
                   ELSE write_status("failed", "rollback", mixed_state)
    /\ UNCHANGED kills

worker_failed(p) == End("failed", p) /\ UNCHANGED current

(* honor_cancellation, at a boundary between two steps. *)
worker_cancelled ==
    /\ worker \in {"promote", "packages", "boundary"}
    /\ cancel_requested
    /\ End("cancelled", "cancelled")
    /\ UNCHANGED current

(* A step that neither ends the run nor changes what the others see. *)
Advance(from, to) ==
    /\ worker = from
    /\ WorkerAt(to)
    /\ UNCHANGED <<clientVars, cancel_requested, countVars>>

(* promote_release_candidate: an existing directory of that version is     *)
(* removed, then the stage renamed.                                        *)
promote_remove ==
    /\ ~cancel_requested
    /\ Advance("promote", "promote_rename")
    /\ releases' = releases \ {version}
    /\ UNCHANGED <<current, config, installed, runVars, statusVars, applied>>

promote_rename ==
    \/ /\ Advance("promote_rename", "packages")
       /\ releases' = releases \cup {version}
       /\ UNCHANGED <<current, config, installed, runVars, statusVars,
                      applied>>
    \/ worker = "promote_rename" /\ worker_failed("staging")

(* Recovery point, packages and firmware: they succeed or fail. *)
packages ==
    \/ /\ ~cancel_requested
       /\ Advance("packages", "migration")
       /\ UNCHANGED <<treeVars, runVars, statusVars, applied>>
    \/ worker = "packages" /\ worker_failed("packages")

(* prepare_release_configuration: nothing to do, or a copy of the old      *)
(* configuration and then the new one in its place.  migrate-config        *)
(* refuses a configuration newer than its release.                         *)
prepare_release_configuration ==
    \/ /\ config = Schema[version]
       /\ Advance("migration", "boundary")
       /\ UNCHANGED <<treeVars, runVars, statusVars, applied>>
    \/ /\ config < Schema[version]
       /\ Advance("migration", "migrate")
       /\ backup' = config
       /\ config_changed' = TRUE
       /\ UNCHANGED <<treeVars, version, previous, activated, mixed_state,
                      statusVars, applied>>
    \/ worker = "migration" /\ worker_failed("migration")

install_configuration ==
    \/ /\ Advance("migrate", "boundary")
       /\ config' = Schema[version]
       /\ UNCHANGED <<releases, current, installed, runVars, statusVars,
                      applied>>
    \/ worker = "migrate" /\ worker_failed("migration")

(* Mutant: Ansible starts before the mixed state is on disk. *)
ansible_begin_Late ==
    /\ ~cancel_requested
    /\ Advance("boundary", "ansible")
    /\ write_status("running", "ansible", FALSE)
    /\ UNCHANGED <<treeVars, runVars, applied>>

(* The last boundary is behind: mixed_state is set and written before      *)
(* Ansible changes a file.                                                 *)
ansible_begin ==
    /\ ~cancel_requested
    /\ Advance("boundary", "ansible")
    /\ mixed_state' = TRUE
    /\ write_status("running", "ansible", TRUE)
    /\ UNCHANGED <<treeVars, version, previous, backup, config_changed,
                   activated, applied>>

ansible_playbook ==
    /\ Advance("ansible", "applying")
    /\ installed' = installed \cup {version}
    /\ applied' = TRUE
    /\ UNCHANGED <<releases, current, config, runVars, statusVars>>

ansible_end ==
    \/ /\ Advance("applying", "activate")
       /\ installed' = {version}
       /\ UNCHANGED <<releases, current, config, runVars, statusVars, applied>>
    \/ worker = "applying" /\ worker_failed("ansible")

(* activate_release: the link is swapped atomically, the agent skills are  *)
(* provisioned through it, and on failure the link goes back.              *)
activate_release ==
    \/ /\ version \in releases
       /\ Advance("activate", "provision")
       /\ previous' = current
       /\ current' = version
       /\ UNCHANGED <<releases, config, installed, version, backup,
                      config_changed, activated, mixed_state, statusVars,
                      applied>>
    \/ worker = "activate" /\ worker_failed("activation")

provision_skills ==
    \/ /\ Advance("provision", "prune")
       /\ activated' = TRUE
       /\ UNCHANGED <<treeVars, version, previous, backup, config_changed,
                      mixed_state, statusVars, applied>>
    \/ /\ worker = "provision"
       /\ End("failed", "activation")
       /\ current' = previous

(* The directories beyond the Keep newest, but never the one just made     *)
(* current.                                                                *)
Newer(v) == {w \in releases : w > v}

(* Mutant: the active release is pruned like any other. *)
Prunable_Any == {v \in releases : Cardinality(Newer(v)) >= Keep}

Prunable == {v \in releases : Cardinality(Newer(v)) >= Keep /\ v # version}

prune_releases ==
    /\ Advance("prune", "finish")
    /\ releases' = releases \ Prunable
    /\ mixed_state' = FALSE
    /\ UNCHANGED <<current, config, installed, version, previous, backup,
                   config_changed, activated, statusVars, applied>>

worker_done ==
    /\ Advance("finish", "none")
    /\ write_status("done", "complete", mixed_state)
    /\ UNCHANGED <<treeVars, runVars, applied>>

-----------------------------------------------------------------------------
(* worker_exit_fallback: the shell ends where the code does not plan it,   *)
(* by a signal other than the two it traps; the EXIT trap still runs.      *)
worker_exit_fallback ==
    /\ worker # "none"
    /\ kills < MaxKills
    /\ kills' = kills + 1
    /\ Ended
    /\ \E ok \in BOOLEAN : restore_release_configuration(ok)
    /\ write_status("failed", "internal", mixed_state)
    /\ UNCHANGED current

(* SIGKILL of the worker or a restart of the machine: no trap runs. *)
worker_killed ==
    /\ worker # "none"
    /\ kills < MaxKills
    /\ kills' = kills + 1
    /\ worker' = "none"
    /\ UNCHANGED <<treeVars, clientVars, runVars, cancel_requested,
                   statusVars, runs, faults, applied>>

WorkerStep ==
    \/ worker_cancelled \/ promote_remove \/ promote_rename \/ packages
    \/ prepare_release_configuration \/ install_configuration
    \/ ansible_begin \/ ansible_playbook \/ ansible_end
    \/ activate_release \/ provision_skills \/ prune_releases \/ worker_done

ReleaseNext ==
    \/ \E c \in Clients : fetch_release(c) \/ stage_release(c) \/ start(c)
    \/ cancel \/ repair_stale_status
    \/ WorkerStep \/ worker_exit_fallback \/ worker_killed

ReleaseSpec == ReleaseInit /\ [][ReleaseNext]_releaseVars

-----------------------------------------------------------------------------
WorkerStates == {"none", "promote", "promote_rename", "packages",
                 "migration", "migrate", "boundary", "ansible", "applying",
                 "activate", "provision", "prune", "finish"}

(* Every variable of the release transaction has its type, and whatever    *)
(* the repairs and kills, a worker works on a run that is shown running.   *)
ReleaseTypeOK ==
    /\ releases \subseteq Versions
    /\ current \in Versions
    /\ config \in Nat /\ backup \in Nat
    /\ installed \subseteq Versions
    /\ client \in [Clients -> {"idle", "fetched", "staged"}]
    /\ candidate \in [Clients -> Versions]
    /\ worker \in WorkerStates
    /\ version \in Versions /\ previous \in Versions
    /\ {config_changed, activated, mixed_state, cancel_requested,
        mixedState, applied} \subseteq BOOLEAN
    /\ status \in {"running", "done", "failed", "cancelled"}
    /\ runs \in 0 .. MaxRuns /\ kills \in 0 .. MaxKills
    /\ faults \in 0 .. MaxFaults
    /\ worker # "none" => status = "running"

(* Between runs the saved configuration has the schema of the active       *)
(* release, unless the last run says that it could not restore it, that it *)
(* was abandoned or that it ended unexpectedly                             *)
(* (restore_release_configuration).                                        *)
ConfigFollowsCurrent ==
    /\ worker = "none"
    /\ status # "running"
    /\ phase \notin {"rollback", "abandoned", "internal"}
    => config = Schema[current]

(* However many runs fail or are cancelled, at whatever step, and whoever  *)
(* else is staging a release: as long as no worker was killed and no       *)
(* restoration failed, configuration and active release go together.       *)
FailureRestoresConfig ==
    kills = 0 /\ faults = 0 => ConfigFollowsCurrent

(* A run that let Ansible change files and did not activate its release    *)
(* leaves mixedState in its status, however it ended (lines 1096-1099).    *)
MixedIsRecorded ==
    worker = "none" /\ applied /\ current # version => mixedState

(* The directory of the active release disappears only when the very same  *)
(* version is promoted once more; pruning, in particular, spares it        *)
(* although newer releases that were never activated may be there.         *)
OnlyPromotionRemovesCurrent ==
    [][(current \in releases \ releases')
       => worker = "promote" /\ version = current]_releaseVars

=============================================================================
