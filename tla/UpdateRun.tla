------------------------------ MODULE UpdateRun ------------------------------
(***************************************************************************)
(* The durable updater, assets/scripts/cybexos-update-run: short-lived     *)
(* clients (start, status/attach, cancel, dismiss) and one worker process  *)
(* per run, which is the main process of a transient systemd unit.  They   *)
(* share three things: the flock on update.lock, the status.json of every  *)
(* run with the `current` pointer, and the cancel.requested marker.        *)
(*                                                                         *)
(* A file replaced with mv is one step; everything between two reads or    *)
(* writes of shared state can be interleaved with any other process.  Work *)
(* done by external commands (the snapshot helper, dnf, fwupd, the checks, *)
(* Ansible) is a phase that ends well or badly.  What the release phases   *)
(* do to the release tree is in ReleaseTransaction.                        *)
(***************************************************************************)
EXTENDS Naturals, FiniteSets

CONSTANTS
    Clients,    \* processes that run one cybexos-update-run command at a time
    MaxRun,     \* bound: how many runs are ever published
    KeepRuns,   \* run directories prune_logs keeps (20 in the code)
    Options,    \* the option sets parse_options lets through, a subset of AllOptions
    MaxEvents,  \* bound: installs, power losses, killed workers and clients
    Free,       \* nobody holds update.lock
    Installer,  \* install or uninstall, which take the same lock
    NoRun       \* `current` names no run

Runs == 1 .. MaxRun

(* What a run is asked to do.  parse_options refuses a run without any     *)
(* work and a release transaction that is not a full run.                  *)
AllOptions ==
    { o \in [packages : BOOLEAN, firmware : BOOLEAN, full : BOOLEAN,
             tests : BOOLEAN, release : BOOLEAN] :
        /\ o.packages \/ o.full \/ o.firmware
        /\ o.release => o.full }

ASSUME ConstantsAssumption ==
    /\ MaxRun \in Nat
    /\ KeepRuns \in Nat \ {0}
    /\ MaxEvents \in Nat
    /\ Options \subseteq AllOptions
    /\ Options # {}
    /\ NoRun \notin Runs
    /\ Clients \cap Runs = {}
    /\ {Free, Installer} \cap (Runs \cup Clients) = {}
    /\ Free # Installer

VARIABLES
    status,            \* the state in the status.json of every run
    current,           \* the run named by the `current` file
    intent,            \* the cancel.requested marker in every run directory
    opts,              \* the options a run was launched with
    lock,              \* holder of the flock on update.lock
    worker,            \* control state of every run's worker
    cancel_requested,  \* the worker's SIGTERM flag, gone with the process
    op,                \* the command every client executes
    pc,                \* where it is in that command
    target,            \* the run it is about
    seen,              \* the state of that run when it was first read
    events             \* installs, kills and power losses so far

vars == <<status, current, intent, opts, lock, worker,
          cancel_requested, op, pc, target, seen, events>>

clientVars == <<op, pc, target, seen>>

-----------------------------------------------------------------------------
(* Published states.  "absent" and "pruned" stand for a missing directory. *)
ActiveStates == {"queued", "running"}
TerminalStates == {"done", "failed", "cancelled", "dismissed"}
States == ActiveStates \cup TerminalStates \cup {"absent", "pruned"}

is_active(state) == state \in ActiveStates
Present(r) == status[r] \notin {"absent", "pruned"}

(* The phases in which the worker changes the machine, in the order of the *)
(* worker function, and the control states before and after them.          *)
Phases == {"snapshot", "packages", "firmware", "tests", "migration", "ansible",
           "activation", "reboot-check"}
WorkPhases == Phases \cup {"cancelling", "restoring"}
HoldingStates == {"intent", "state", "begin", "exiting"} \cup WorkPhases
WorkerStates == {"none", "boot", "lockwait", "gone"} \cup HoldingStates

(* Control states from which machine work has begun or can no longer be    *)
(* refused.                                                                *)
Working(r) == worker[r] \in {"begin"} \cup WorkPhases

(* systemctl show --property=ActiveState: the unit lives as long as its    *)
(* main process.                                                           *)
unit_active(r) == worker[r] \notin {"none", "gone"}

(* A rename into a pruned directory fails and leaves nothing behind.       *)
write_status(r, state) ==
    status' = [status EXCEPT ![r] = IF Present(r) THEN state ELSE @]

(* The phase after p.  Packages, firmware and the full block are optional; *)
(* the restart check always comes last.                                    *)
FullPhase(o) == IF o.tests THEN "tests"
                ELSE IF o.release THEN "migration" ELSE "ansible"
AfterPackages(o) == IF o.firmware THEN "firmware"
                    ELSE IF o.full THEN FullPhase(o) ELSE "reboot-check"
NextPhase(o, p) ==
    CASE p = "snapshot"   -> IF o.packages THEN "packages" ELSE AfterPackages(o)
      [] p = "packages"   -> AfterPackages(o)
      [] p = "firmware"   -> IF o.full THEN FullPhase(o) ELSE "reboot-check"
      [] p = "tests"      -> IF o.release THEN "migration" ELSE "ansible"
      [] p = "migration"  -> "ansible"
      [] p = "ansible"    -> IF o.release THEN "activation" ELSE "reboot-check"
      [] p = "activation" -> "reboot-check"
      [] OTHER            -> p

(* Phases whose command can fail the run, and the phases after which the   *)
(* worker calls honor_cancellation: none from Ansible on.  A run that is   *)
(* cancelled or fails after the migration puts the configuration back; if  *)
(* that fails, a cancelled run is recorded as failed.                      *)
CanFail == {"snapshot", "packages", "tests", "migration", "ansible", "activation"}
StoppingPoints == {"snapshot", "packages", "firmware", "tests", "migration"}

Ops == {"idle", "start", "busy", "status", "cancel", "dismiss"}
ClientPcs == {"idle", "try", "read", "inspect", "write", "refuse", "decide",
              "publish", "current", "prune", "launch", "release",
              "intent", "unit", "stop", "verify", "reread", "cwrite", "dwrite"}

(* Control states in which a client owns the lock.  Inside a repair that   *)
(* includes the start command, which already held it when it called.       *)
LockedPcs == {"read", "inspect", "write", "decide", "publish", "current",
              "prune", "launch", "release"}

Init ==
    /\ status = [r \in Runs |-> "absent"]
    /\ current = NoRun
    /\ intent = [r \in Runs |-> FALSE]
    /\ opts = [r \in Runs |-> CHOOSE o \in Options : TRUE]
    /\ lock = Free
    /\ worker = [r \in Runs |-> "none"]
    /\ cancel_requested = [r \in Runs |-> FALSE]
    /\ op = [c \in Clients |-> "idle"]
    /\ pc = [c \in Clients |-> "idle"]
    /\ target = [c \in Clients |-> NoRun]
    /\ seen = [c \in Clients |-> "absent"]
    /\ events = 0

-----------------------------------------------------------------------------
(* Small steps of a client. *)
Call(c, command, label, r, state) ==
    /\ op' = [op EXCEPT ![c] = command]
    /\ pc' = [pc EXCEPT ![c] = label]
    /\ target' = [target EXCEPT ![c] = r]
    /\ seen' = [seen EXCEPT ![c] = state]
Goto(c, label) == pc' = [pc EXCEPT ![c] = label] /\ UNCHANGED <<op, target, seen>>
Return(c) == Call(c, "idle", "idle", NoRun, "absent")
Idle(c) == op[c] = "idle"
At(c, label) == pc[c] = label

(* repair_stale_status is called by four commands; this is where each goes *)
(* on.  Only start keeps the lock, because it held it before the call.     *)
RepairReturn(c) ==
    \/ op[c] = "start" /\ Goto(c, "decide") /\ UNCHANGED lock
    \/ op[c] = "busy" /\ Goto(c, "refuse") /\ lock' = Free
    \/ op[c] \in {"status", "cancel"} /\ Return(c) /\ lock' = Free

(* ---- repair_stale_status ---------------------------------------------- *)

(* status, attach, cancel and a refused start only repair when the lock is *)
(* free at that instant: a live worker publishes its own result.           *)
repair_stale_status_lock(c) ==
    /\ At(c, "try")
    /\ \/ /\ lock = Free
          /\ lock' = c
          /\ Goto(c, "read")
       \/ /\ lock # Free
          /\ IF op[c] = "busy" THEN Goto(c, "refuse") ELSE Return(c)
          /\ UNCHANGED lock
    /\ UNCHANGED <<status, current, intent, opts, worker,
                   cancel_requested, events>>

(* Mutant: only a running record can be stale. *)
repair_stale_status_read_Running(c) ==
    /\ At(c, "read")
    /\ \/ status[target[c]] = "running" /\ Goto(c, "inspect") /\ UNCHANGED lock
       \/ status[target[c]] # "running" /\ RepairReturn(c)
    /\ UNCHANGED <<status, current, intent, opts, worker,
                   cancel_requested, events>>

repair_stale_status_read(c) ==
    /\ At(c, "read")
    /\ \/ /\ is_active(status[target[c]])
          /\ Goto(c, "inspect")
          /\ UNCHANGED lock
       \/ /\ ~ is_active(status[target[c]])
          /\ RepairReturn(c)
    /\ UNCHANGED <<status, current, intent, opts, worker,
                   cancel_requested, events>>

(* The record is preserved: systemctl could not answer, or the unit lives, *)
(* or a queued record is less than ten seconds old, so that systemd-run    *)
(* may not have registered its unit yet.  The clock is not modelled: a     *)
(* record may be found young or old at any time.                           *)
repair_stale_status_preserve(c) ==
    /\ At(c, "inspect")
    /\ RepairReturn(c)
    /\ UNCHANGED <<status, current, intent, opts, worker, cancel_requested, events>>

repair_stale_status_inspect(c) ==
    /\ At(c, "inspect")
    /\ ~ unit_active(target[c])
    /\ Goto(c, "write")
    /\ UNCHANGED <<status, current, intent, opts, lock, worker,
                   cancel_requested, events>>

repair_stale_status_write(c) ==
    LET r == target[c] IN
    /\ At(c, "write")
    /\ write_status(r, "failed")
    /\ RepairReturn(c)
    /\ UNCHANGED <<current, intent, opts, worker, cancel_requested, events>>

(* `status` and every turn of the attach loop. *)
json_status(c, r) ==
    /\ Idle(c)
    /\ Present(r)
    /\ Call(c, "status", "try", r, "absent")
    /\ UNCHANGED <<status, current, intent, opts, lock, worker,
                   cancel_requested, events>>

(* ---- start_run -------------------------------------------------------- *)

(* `flock -n` won: look at the run that `current` names, if any.  The last *)
(* guard is the bound MaxRun.                                              *)
start_run_lock(c) ==
    /\ Idle(c)
    /\ lock = Free
    /\ \E r \in Runs : status[r] = "absent"
    /\ lock' = c
    /\ Call(c, "start", IF current = NoRun THEN "publish" ELSE "read", current, "absent")
    /\ UNCHANGED <<status, current, intent, opts, worker,
                   cancel_requested, events>>

(* `flock -n` lost: never wait, only report what is already there. *)
start_run_busy(c) ==
    /\ Idle(c)
    /\ lock # Free
    /\ Call(c, "busy", IF current = NoRun THEN "refuse" ELSE "try", current, "absent")
    /\ UNCHANGED <<status, current, intent, opts, lock, worker,
                   cancel_requested, events>>

(* Return code 3 for an active run, which is reported by json_status (one  *)
(* more attempt to repair it), and 4 otherwise.                            *)
start_run_refuse(c) ==
    LET r == target[c] IN
    /\ At(c, "refuse")
    /\ \/ Return(c)
       \/ /\ r # NoRun
          /\ is_active(status[r])
          /\ Call(c, "status", "try", r, "absent")
    /\ UNCHANGED <<status, current, intent, opts, lock, worker,
                   cancel_requested, events>>

(* Mutant: an active current run does not stop a new one. *)
start_run_decide_Always(c) ==
    /\ At(c, "decide")
    /\ Goto(c, "publish")
    /\ UNCHANGED <<status, current, intent, opts, lock, worker,
                   cancel_requested, events>>

(* The current run is still active: return code 3. *)
start_run_decide(c) ==
    /\ At(c, "decide")
    /\ \/ /\ is_active(status[target[c]])
          /\ Return(c)
          /\ lock' = Free
       \/ /\ ~ is_active(status[target[c]])
          /\ Goto(c, "publish")
          /\ UNCHANGED lock
    /\ UNCHANGED <<status, current, intent, opts, worker,
                   cancel_requested, events>>

(* A new directory with its first status.json.  Run identities start with  *)
(* the date, so they are taken in increasing order.                        *)
start_run_publish(c) ==
    /\ At(c, "publish")
    /\ \E r \in Runs, o \in Options :
          /\ status[r] = "absent"
          /\ \A q \in Runs : q < r => status[q] # "absent"
          /\ status' = [status EXCEPT ![r] = "queued"]
          /\ opts' = [opts EXCEPT ![r] = o]
          /\ Call(c, "start", "current", r, "absent")
    /\ UNCHANGED <<current, intent, lock, worker, cancel_requested, events>>

start_run_current(c) ==
    /\ At(c, "current")
    /\ current' = target[c]
    /\ Goto(c, "prune")
    /\ UNCHANGED <<status, intent, opts, lock, worker, cancel_requested, events>>

(* Only the KeepRuns newest directories survive; the run just published is *)
(* the newest.                                                             *)
Expired(keep) ==
    { q \in Runs \ {keep} :
        /\ Present(q)
        /\ Cardinality({p \in Runs : p > q /\ Present(p)}) >= KeepRuns }

prune_logs(c) ==
    LET gone == Expired(target[c]) IN
    /\ At(c, "prune")
    /\ status' = [q \in Runs |-> IF q \in gone THEN "pruned" ELSE status[q]]
    /\ intent' = [q \in Runs |-> intent[q] /\ q \notin gone]
    /\ Goto(c, "launch")
    /\ UNCHANGED <<current, opts, lock, worker, cancel_requested, events>>

(* systemd-run.  The client keeps the lock through the Polkit prompt. *)
start_run_launch(c) ==
    LET r == target[c] IN
    /\ At(c, "launch")
    /\ worker' = [worker EXCEPT ![r] = "boot"]
    /\ Goto(c, "release")
    /\ UNCHANGED <<status, current, intent, opts, lock, cancel_requested, events>>

(* systemd-run reports an error.  Usually there is no unit; when only the  *)
(* reply was lost there is one.                                            *)
start_run_launch_failed(c) ==
    LET r == target[c] IN
    /\ At(c, "launch")
    /\ \E w \in {"none", "boot"} : worker' = [worker EXCEPT ![r] = w]
    /\ write_status(r, "failed")
    /\ Goto(c, "release")
    /\ UNCHANGED <<current, intent, opts, lock, cancel_requested, events>>

(* The start command exits, which closes descriptor 9. *)
start_run_return(c) ==
    /\ At(c, "release")
    /\ Return(c)
    /\ lock' = Free
    /\ UNCHANGED <<status, current, intent, opts, worker,
                   cancel_requested, events>>

(* ---- cancel_run ------------------------------------------------------- *)

cancel_run(c, r) ==
    /\ Idle(c)
    /\ is_active(status[r])
    /\ Call(c, "cancel", "intent", r, status[r])
    /\ UNCHANGED <<status, current, intent, opts, lock, worker,
                   cancel_requested, events>>

(* Publish the intent before looking at the unit. *)
cancel_run_intent(c) ==
    LET r == target[c] IN
    /\ At(c, "intent")
    /\ intent' = [intent EXCEPT ![r] = Present(r)]
    /\ Goto(c, "unit")
    /\ UNCHANGED <<status, current, opts, lock, worker, cancel_requested, events>>

(* Mutant: a queued run is cancelled without stopping a unit it may have. *)
cancel_run_unit_NoStop(c) ==
    /\ At(c, "unit")
    /\ IF seen[c] = "queued" THEN Goto(c, "reread") ELSE Goto(c, "stop")
    /\ UNCHANGED <<status, current, intent, opts, lock, worker,
                   cancel_requested, events>>

(* An inactive unit whose record was `queued` may simply not be registered *)
(* yet; one whose record was `running` has died and is repaired.           *)
cancel_run_unit(c) ==
    LET r == target[c] IN
    /\ At(c, "unit")
    /\ \/ Return(c)                               \* could not be inspected
       \/ unit_active(r) /\ Goto(c, "stop")
       \/ ~ unit_active(r) /\ seen[c] = "queued" /\ Goto(c, "reread")
       \/ ~ unit_active(r) /\ seen[c] # "queued" /\ Goto(c, "try")
    /\ UNCHANGED <<status, current, intent, opts, lock, worker,
                   cancel_requested, events>>

(* `systemctl stop --no-block`: SIGTERM reaches the worker alone.  Before  *)
(* the worker has set its trap it dies of it, afterwards it only takes a   *)
(* note.                                                                   *)
cancel_run_stop(c) ==
    LET r == target[c] IN
    /\ At(c, "stop")
    /\ \/ /\ Return(c)                            \* could not be stopped
          /\ UNCHANGED <<worker, cancel_requested>>
       \/ /\ worker[r] = "boot"
          /\ worker' = [worker EXCEPT ![r] = "gone"]
          /\ Goto(c, "verify")
          /\ UNCHANGED cancel_requested
       \/ /\ cancel_requested' = [cancel_requested EXCEPT ![r] = @ \/ unit_active(r)]
          /\ Goto(c, "verify")
          /\ UNCHANGED worker
    /\ UNCHANGED <<status, current, intent, opts, lock, events>>

(* Up to a second of polling.  A worker that is still finishing its step   *)
(* records the cancellation itself.                                        *)
cancel_run_verify(c) ==
    LET r == target[c] IN
    /\ At(c, "verify")
    /\ \/ Return(c)
       \/ ~ unit_active(r) /\ Goto(c, "reread")
    /\ UNCHANGED <<status, current, intent, opts, lock, worker,
                   cancel_requested, events>>

cancel_run_reread(c) ==
    /\ At(c, "reread")
    /\ IF is_active(status[target[c]]) THEN Goto(c, "cwrite") ELSE Return(c)
    /\ UNCHANGED <<status, current, intent, opts, lock, worker,
                   cancel_requested, events>>

(* Written without the lock. *)
cancel_run_write(c) ==
    /\ At(c, "cwrite")
    /\ write_status(target[c], "cancelled")
    /\ Return(c)
    /\ UNCHANGED <<current, intent, opts, lock, worker, cancel_requested, events>>

(* ---- dismiss_run ------------------------------------------------------ *)

dismiss_run(c, r) ==
    /\ Idle(c)
    /\ Present(r)
    /\ ~ is_active(status[r])
    /\ Call(c, "dismiss", "dwrite", r, "absent")
    /\ UNCHANGED <<status, current, intent, opts, lock, worker,
                   cancel_requested, events>>

dismiss_run_write(c) ==
    LET r == target[c] IN
    /\ At(c, "dwrite")
    /\ write_status(r, "dismissed")
    /\ Return(c)
    /\ UNCHANGED <<current, intent, opts, lock, worker, cancel_requested, events>>

-----------------------------------------------------------------------------
(* ---- worker ----------------------------------------------------------- *)

Become(r, w) == worker' = [worker EXCEPT ![r] = w]

(* The worker publishes its result and has nothing left to do but exit.    *)
Finish(r, state) ==
    /\ write_status(r, state)
    /\ Become(r, "exiting")

worker_trap(r) ==
    /\ worker[r] = "boot"
    /\ Become(r, "lockwait")
    /\ UNCHANGED <<status, current, intent, opts, lock,
                   cancel_requested, clientVars, events>>

(* Mutant: the worker does not look at the result of flock. *)
worker_lock_Unchecked(r) ==
    /\ worker[r] = "lockwait"
    /\ lock' = r
    /\ Become(r, "intent")
    /\ UNCHANGED <<status, current, intent, opts, cancel_requested, clientVars, events>>

worker_lock(r) ==
    /\ worker[r] = "lockwait"
    /\ lock = Free
    /\ lock' = r
    /\ Become(r, "intent")
    /\ UNCHANGED <<status, current, intent, opts, cancel_requested, clientVars, events>>

(* Mutant: cancel.requested is not read under the lock. *)
worker_check_intent_Ignored(r) ==
    /\ worker[r] = "intent"
    /\ Become(r, "state")
    /\ UNCHANGED <<status, current, intent, opts, lock, cancel_requested, clientVars, events>>

worker_check_intent(r) ==
    /\ worker[r] = "intent"
    /\ IF intent[r] THEN Finish(r, "cancelled")
                    ELSE Become(r, "state") /\ UNCHANGED status
    /\ UNCHANGED <<current, intent, opts, lock, cancel_requested, clientVars, events>>

(* Mutant: the worker announces itself without reading the published state. *)
worker_check_state_Announce(r) ==
    /\ worker[r] = "state"
    /\ IF cancel_requested[r] THEN Finish(r, "cancelled")
                              ELSE write_status(r, "running") /\ Become(r, "begin")
    /\ UNCHANGED <<current, intent, opts, lock, cancel_requested, clientVars, events>>

(* A record that is no longer `queued` is honoured and left as it is. *)
worker_check_state(r) ==
    /\ worker[r] = "state"
    /\ \/ /\ status[r] # "queued"
          /\ Become(r, "exiting") /\ UNCHANGED status
       \/ /\ status[r] = "queued"
          /\ IF cancel_requested[r] THEN Finish(r, "cancelled")
                                    ELSE Become(r, "begin") /\ UNCHANGED status
    /\ UNCHANGED <<current, intent, opts, lock, cancel_requested, clientVars, events>>

(* Promote the staged release, then announce the first phase. *)
worker_begin(r) ==
    /\ worker[r] = "begin"
    /\ \/ opts[r].release /\ Finish(r, "failed")
       \/ write_status(r, "running") /\ Become(r, "snapshot")
    /\ UNCHANGED <<current, intent, opts, lock, cancel_requested, clientVars, events>>

(* worker_failed: the phase's command failed, or the repository that the   *)
(* checks and Ansible run in cannot be entered after the firmware phase,   *)
(* which itself never fails the run.                                       *)
worker_failed(r) ==
    /\ \/ worker[r] \in CanFail
       \/ worker[r] = "firmware" /\ opts[r].full /\ ~ cancel_requested[r]
    /\ Finish(r, "failed")
    /\ UNCHANGED <<current, intent, opts, lock, cancel_requested, clientVars, events>>

(* Mutant: the last stopping point, before Ansible, is forgotten. *)
worker_next_NoStop(r) ==
    LET p == worker[r] IN
    /\ p \in Phases
    /\ ~ (p \in StoppingPoints \ {"migration"} /\ cancel_requested[r])
    /\ IF p = "reboot-check"
       THEN Finish(r, "done")
       ELSE write_status(r, "running") /\ Become(r, NextPhase(opts[r], p))
    /\ UNCHANGED <<current, intent, opts, lock, cancel_requested, clientVars, events>>

(* The phase ended well and no cancellation is due. *)
worker_next(r) ==
    LET p == worker[r] IN
    /\ p \in Phases
    /\ ~ (p \in StoppingPoints /\ cancel_requested[r])
    /\ IF p = "reboot-check"
       THEN Finish(r, "done")
       ELSE write_status(r, "running") /\ Become(r, NextPhase(opts[r], p))
    /\ UNCHANGED <<current, intent, opts, lock, cancel_requested, clientVars, events>>

(* honor_cancellation: a finished package transaction is first followed by *)
(* the restart check, which reports the run as running once more.          *)
honor_cancellation(r) ==
    LET p == worker[r] IN
    /\ p \in StoppingPoints
    /\ cancel_requested[r]
    /\ IF opts[r].packages /\ p # "snapshot"
       THEN /\ write_status(r, "running")
            /\ Become(r, IF p = "migration" THEN "restoring" ELSE "cancelling")
       ELSE \/ Finish(r, "cancelled")
            \/ p = "migration" /\ Finish(r, "failed")
    /\ UNCHANGED <<current, intent, opts, lock, cancel_requested, clientVars, events>>

(* The rest of worker_cancelled, after that check. *)
worker_cancelled(r) ==
    /\ worker[r] \in {"cancelling", "restoring"}
    /\ \/ Finish(r, "cancelled")
       \/ worker[r] = "restoring" /\ Finish(r, "failed")
    /\ UNCHANGED <<current, intent, opts, lock, cancel_requested, clientVars, events>>

(* The EXIT trap of a worker that stops anywhere else. *)
worker_exit_fallback(r) ==
    /\ worker[r] \in {"lockwait"} \cup (HoldingStates \ {"exiting"})
    /\ write_status(r, "failed")
    /\ Become(r, IF worker[r] = "lockwait" THEN "gone" ELSE "exiting")
    /\ cancel_requested' = [cancel_requested EXCEPT ![r] = @ /\ worker[r] # "lockwait"]
    /\ UNCHANGED <<current, intent, opts, lock, clientVars, events>>

worker_exit(r) ==
    /\ worker[r] = "exiting"
    /\ Become(r, "gone")
    /\ lock' = Free
    /\ cancel_requested' = [cancel_requested EXCEPT ![r] = FALSE]
    /\ UNCHANGED <<status, current, intent, opts, clientVars, events>>

-----------------------------------------------------------------------------
(* ---- Environment ------------------------------------------------------ *)

Event == events < MaxEvents /\ events' = events + 1

(* install and uninstall hold update.lock for their whole playbook. *)
installer_lock ==
    /\ Event
    /\ lock = Free
    /\ lock' = Installer
    /\ UNCHANGED <<status, current, intent, opts, worker, cancel_requested, clientVars>>

installer_unlock ==
    /\ lock = Installer
    /\ lock' = Free
    /\ UNCHANGED <<status, current, intent, opts, worker,
                   cancel_requested, clientVars, events>>

(* SIGKILL (also TimeoutStopSec of a stop): no trap runs, and systemd      *)
(* kills what is left of the unit before it reports it inactive.           *)
worker_killed(r) ==
    /\ Event
    /\ unit_active(r)
    /\ Become(r, "gone")
    /\ lock' = IF lock = r THEN Free ELSE lock
    /\ cancel_requested' = [cancel_requested EXCEPT ![r] = FALSE]
    /\ UNCHANGED <<status, current, intent, opts, clientVars>>

(* A client is interrupted; its descriptors close.  A systemd-run it was   *)
(* waiting for may still get its unit started.                             *)
client_killed(c) ==
    /\ Event
    /\ ~ Idle(c)
    /\ \/ UNCHANGED worker
       \/ At(c, "launch") /\ Become(target[c], "boot")
    /\ Return(c)
    /\ lock' = IF lock = c THEN Free ELSE lock
    /\ UNCHANGED <<status, current, intent, opts, cancel_requested>>

(* Power loss: every process is gone, every renamed file stays. *)
power_loss ==
    /\ Event
    /\ worker' = [r \in Runs |-> IF unit_active(r) THEN "gone" ELSE worker[r]]
    /\ op' = [c \in Clients |-> "idle"]
    /\ pc' = [c \in Clients |-> "idle"]
    /\ target' = [c \in Clients |-> NoRun]
    /\ seen' = [c \in Clients |-> "absent"]
    /\ lock' = Free
    /\ cancel_requested' = [r \in Runs |-> FALSE]
    /\ UNCHANGED <<status, current, intent, opts>>

-----------------------------------------------------------------------------
repair_stale_status(c) ==
    \/ repair_stale_status_lock(c)
    \/ repair_stale_status_read(c)
    \/ repair_stale_status_preserve(c)
    \/ repair_stale_status_inspect(c)
    \/ repair_stale_status_write(c)

start_run(c) ==
    \/ start_run_refuse(c)
    \/ start_run_decide(c)
    \/ start_run_publish(c)
    \/ start_run_current(c)
    \/ prune_logs(c)
    \/ start_run_launch(c)
    \/ start_run_launch_failed(c)
    \/ start_run_return(c)

cancel_run_steps(c) ==
    \/ cancel_run_intent(c)
    \/ cancel_run_unit(c)
    \/ cancel_run_stop(c)
    \/ cancel_run_verify(c)
    \/ cancel_run_reread(c)
    \/ cancel_run_write(c)

(* A command a client has begun. *)
ClientStep(c) ==
    \/ repair_stale_status(c)
    \/ start_run(c)
    \/ cancel_run_steps(c)
    \/ dismiss_run_write(c)

(* A command that is invoked. *)
Invoke(c) ==
    \/ start_run_lock(c)
    \/ start_run_busy(c)
    \/ \E r \in Runs : json_status(c, r) \/ cancel_run(c, r) \/ dismiss_run(c, r)

WorkerStep(r) ==
    \/ worker_trap(r)
    \/ worker_lock(r)
    \/ worker_check_intent(r)
    \/ worker_check_state(r)
    \/ worker_begin(r)
    \/ worker_failed(r)
    \/ worker_next(r)
    \/ honor_cancellation(r)
    \/ worker_cancelled(r)
    \/ worker_exit_fallback(r)
    \/ worker_exit(r)

Next ==
    \/ \E c \in Clients : ClientStep(c) \/ Invoke(c) \/ client_killed(c)
    \/ \E r \in Runs : WorkerStep(r) \/ worker_killed(r)
    \/ installer_lock \/ installer_unlock \/ power_loss

Spec == Init /\ [][Next]_vars

-----------------------------------------------------------------------------
(* Fairness.  A process that can run does, the external commands of a      *)
(* phase end, and an installer finishes.  flock is fair                    *)
(* enough that the waiting worker is not passed over for ever by commands  *)
(* that hold the lock for an instant.  For a run that lost its worker the  *)
(* panel keeps asking for the status of the current run: some of these     *)
(* attempts find the lock free, systemctl answering and the record old     *)
(* enough.                                                                 *)
json_status_current(c) == \E r \in Runs : r = current /\ json_status(c, r)
repair_stale_status_locked(c) == lock = Free /\ repair_stale_status_lock(c)

Fairness ==
    /\ \A c \in Clients :
          /\ WF_vars(ClientStep(c))
          /\ SF_vars(json_status_current(c))
          /\ SF_vars(repair_stale_status_locked(c))
          /\ SF_vars(repair_stale_status_inspect(c))
    /\ \A r \in Runs :
          /\ WF_vars(WorkerStep(r))
          /\ SF_vars(worker_lock(r))
    /\ WF_vars(installer_unlock)

FairSpec == Spec /\ Fairness

-----------------------------------------------------------------------------
(* Properties. *)

Terminal(r) == status[r] \in TerminalStates

(* Types, together with what every control state knows of its own run. *)
TypeOK ==
    /\ status \in [Runs -> States]
    /\ current \in Runs \cup {NoRun}
    /\ intent \in [Runs -> BOOLEAN]
    /\ opts \in [Runs -> Options]
    /\ lock \in Runs \cup Clients \cup {Free, Installer}
    /\ worker \in [Runs -> WorkerStates]
    /\ cancel_requested \in [Runs -> BOOLEAN]
    /\ op \in [Clients -> Ops]
    /\ pc \in [Clients -> ClientPcs]
    /\ target \in [Clients -> Runs \cup {NoRun}]
    /\ seen \in [Clients -> States]
    /\ events \in 0 .. MaxEvents

(* At most one transaction changes the machine at a time, over the workers *)
(* of all runs and the installer: flock on update.lock is held from the    *)
(* first to the last change, whatever is killed or cancelled meanwhile.    *)
OneTransaction ==
    /\ \A r, q \in Runs : Working(r) /\ Working(q) => r = q
    /\ lock = Installer => \A r \in Runs : ~ Working(r)

(* A run whose record says done, failed, cancelled or dismissed is not     *)
(* changing the machine, although cancel, dismiss, repair and a failed     *)
(* launch write that record from other processes, two of them without the  *)
(* lock.                                                                   *)
TerminalMeansStopped ==
    \A r \in Runs : Terminal(r) => ~ Working(r)

(* A run never comes back: once its record is terminal it stays terminal   *)
(* until the directory is pruned, and no worker starts work for it.        *)
NoResurrection ==
    [][\A r \in Runs :
          Terminal(r) => /\ status'[r] \in TerminalStates \cup {"pruned"}
                         /\ ~ Working(r)']_vars

(* cancel publishes cancel.requested before it inspects the unit.  If the  *)
(* marker is there before the worker has looked for it, the worker never   *)
(* begins, whatever happens to the canceller, the launching client and the *)
(* directory.                                                              *)
IntentPreventsWork ==
    \A r \in Runs :
        [](intent[r] /\ worker[r] \in {"none", "boot", "lockwait", "intent"}
           => [] ~ Working(r))

(* start_run publishes a new run only when the current one is not active:  *)
(* two active records exist only if one of them was left behind by a       *)
(* client that died before it made its run the current one, and that run   *)
(* never works.                                                            *)
NoSecondActiveRun ==
    \A r \in Runs :
        is_active(status[r]) /\ r # current
          => \/ worker[r] = "none"
             \/ \E c \in Clients : target[c] = r /\ op[c] = "start"

(* The record of the current run does not stay active for ever: its worker *)
(* settles it, or a later status query finds the worker gone.              *)
CurrentRunSettles ==
    \A r \in Runs :
        (current = r /\ is_active(status[r])) ~> ~ is_active(status[r])

(* A cancellation that reached a worker before its last stopping point is  *)
(* not answered with a completed update.                                   *)
CancellationIsHonoured ==
    \A r \in Runs :
        [](cancel_requested[r] /\ worker[r] \in StoppingPoints
           => [](status[r] # "done"))

-----------------------------------------------------------------------------
(* Refinement of UpdateJob. *)
JobOf(r) ==
    CASE status[r] = "absent"                            -> "absent"
      [] status[r] \in TerminalStates \cup {"pruned"}    -> "settled"
      [] Working(r)                                            -> "working"
      [] is_active(status[r]) /\ worker[r] \in {"gone", "exiting"} -> "lost"
      [] OTHER                                                 -> "pending"

Job == INSTANCE UpdateJob WITH job <- [r \in Runs |-> JobOf(r)],
                               installing <- (lock = Installer)

(* The clients, workers, lock and files together implement UpdateJob:      *)
(* every step of every process is a step of a run's life or invisible.     *)
ImplementsJob == Job!JobSpec

=============================================================================
