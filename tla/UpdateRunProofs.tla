-------------------------- MODULE UpdateRunProofs --------------------------
(***************************************************************************)
(* Proofs about UpdateRun, for every number of clients, runs and events.   *)
(*                                                                         *)
(* TerminalMeansStopped is not inductive: cancel and dismiss write without *)
(* the lock, on the strength of something they saw some steps earlier.     *)
(* IInv says what every control state may still rely on when it writes.    *)
(***************************************************************************)
EXTENDS UpdateRun, TLAPS

(* A worker past flock holds the lock, and so does a client inside its     *)
(* critical section.                                                       *)
LockHeld ==
    /\ \A r \in Runs : worker[r] \in HoldingStates => lock = r
    /\ \A c \in Clients : pc[c] \in LockedPcs => lock = c

(* Which run a client can be talking about. *)
TargetKnown ==
    \A c \in Clients :
        /\ (op[c] = "idle") = (pc[c] = "idle")
        /\ pc[c] \notin {"idle", "refuse", "publish"} => target[c] \in Runs

(* A run that is being launched has no worker yet, and neither has a run   *)
(* that does not exist yet.                                                *)
LaunchOnce ==
    /\ \A r \in Runs : status[r] = "absent" => worker[r] = "none"
    /\ \A c \in Clients : pc[c] \in {"current", "prune", "launch"}
                            => /\ status[target[c]] # "absent"
                               /\ worker[target[c]] = "none"

(* What repair saw is still so when it writes. *)
RepairSafe ==
    \A c \in Clients : pc[c] = "write" => worker[target[c]] \in {"none", "gone"}

(* Once cancel has published the intent, it stays until the directory is   *)
(* pruned; and when cancel goes on to write, the worker is gone or will    *)
(* find the intent.                                                        *)
CancelSafe ==
    \A c \in Clients :
        /\ pc[c] \in {"intent", "unit", "stop", "verify", "reread", "cwrite"}
             => status[target[c]] # "absent"
        /\ pc[c] \in {"unit", "stop", "verify", "reread", "cwrite"}
             => intent[target[c]] \/ status[target[c]] = "pruned"
        /\ pc[c] \in {"reread", "cwrite"}
             => \/ status[target[c]] = "pruned"
                \/ worker[target[c]] \in {"none", "boot", "lockwait", "intent",
                                          "exiting", "gone"}

(* dismiss only overwrites a terminal record. *)
DismissSafe ==
    \A c \in Clients : pc[c] = "dwrite"
        => status[target[c]] \in TerminalStates \cup {"pruned"}

(* Work is done only under an active record. *)
WorkingIsActive ==
    \A r \in Runs : Working(r) => is_active(status[r])

IInv ==
    /\ TypeOK
    /\ LockHeld
    /\ TargetKnown
    /\ LaunchOnce
    /\ RepairSafe
    /\ CancelSafe
    /\ DismissSafe
    /\ WorkingIsActive

-----------------------------------------------------------------------------
(* Types are preserved by every step. *)
LEMMA TypeStep == TypeOK /\ [Next]_vars => TypeOK'
<1> SUFFICES ASSUME TypeOK, [Next]_vars PROVE TypeOK'
  OBVIOUS
<1> USE ConstantsAssumption DEF TypeOK, States, ActiveStates, TerminalStates, Ops,
     ClientPcs, WorkerStates, HoldingStates, WorkPhases, Phases
<1>repair_stale_status_lock. ASSUME NEW c \in Clients, repair_stale_status_lock(c)
      PROVE  TypeOK'
  BY <1>repair_stale_status_lock DEF repair_stale_status_lock, Call, Goto,
     Return, RepairReturn
<1>repair_stale_status_read. ASSUME NEW c \in Clients, repair_stale_status_read(c)
      PROVE  TypeOK'
  BY <1>repair_stale_status_read DEF repair_stale_status_read, Call, Goto,
     Return, RepairReturn
<1>repair_stale_status_preserve. ASSUME NEW c \in Clients, repair_stale_status_preserve(c)
      PROVE  TypeOK'
  BY <1>repair_stale_status_preserve DEF repair_stale_status_preserve, Call,
     Goto, Return, RepairReturn
<1>repair_stale_status_inspect. ASSUME NEW c \in Clients, repair_stale_status_inspect(c)
      PROVE  TypeOK'
  BY <1>repair_stale_status_inspect DEF repair_stale_status_inspect, Call,
     Goto, Return, RepairReturn
<1>repair_stale_status_write. ASSUME NEW c \in Clients, repair_stale_status_write(c)
      PROVE  TypeOK'
  BY <1>repair_stale_status_write DEF repair_stale_status_write, Call, Goto,
     Return, RepairReturn, write_status
<1>start_run_refuse. ASSUME NEW c \in Clients, start_run_refuse(c)
      PROVE  TypeOK'
  BY <1>start_run_refuse DEF start_run_refuse, Call, Goto, Return
<1>start_run_decide. ASSUME NEW c \in Clients, start_run_decide(c)
      PROVE  TypeOK'
  BY <1>start_run_decide DEF start_run_decide, Call, Goto, Return
<1>start_run_publish. ASSUME NEW c \in Clients, start_run_publish(c)
      PROVE  TypeOK'
  BY <1>start_run_publish DEF start_run_publish, Call, Goto, Return
<1>start_run_current. ASSUME NEW c \in Clients, start_run_current(c)
      PROVE  TypeOK'
  BY <1>start_run_current DEF start_run_current, Call, Goto, Return
<1>prune_logs. ASSUME NEW c \in Clients, prune_logs(c)
      PROVE  TypeOK'
  BY <1>prune_logs DEF prune_logs, Call, Goto, Return
<1>start_run_launch. ASSUME NEW c \in Clients, start_run_launch(c)
      PROVE  TypeOK'
  BY <1>start_run_launch DEF start_run_launch, Call, Goto, Return, Become
<1>start_run_launch_failed. ASSUME NEW c \in Clients, start_run_launch_failed(c)
      PROVE  TypeOK'
  <2>1. PICK w \in {"none", "boot"} : worker' = [worker EXCEPT ![target[c]] = w]
    BY <1>start_run_launch_failed DEF start_run_launch_failed
  <2>2. worker' \in [Runs -> WorkerStates]
    BY <2>1
  <2>3. status' \in [Runs -> States]
    BY <1>start_run_launch_failed DEF start_run_launch_failed, write_status
  <2> QED
    BY <1>start_run_launch_failed, <2>2, <2>3 DEF start_run_launch_failed, Goto
<1>start_run_return. ASSUME NEW c \in Clients, start_run_return(c)
      PROVE  TypeOK'
  BY <1>start_run_return DEF start_run_return, Call, Goto, Return
<1>cancel_run_intent. ASSUME NEW c \in Clients, cancel_run_intent(c)
      PROVE  TypeOK'
  BY <1>cancel_run_intent DEF cancel_run_intent, Call, Goto, Return, Present
<1>cancel_run_unit. ASSUME NEW c \in Clients, cancel_run_unit(c)
      PROVE  TypeOK'
  BY <1>cancel_run_unit DEF cancel_run_unit, Call, Goto, Return
<1>cancel_run_stop. ASSUME NEW c \in Clients, cancel_run_stop(c)
      PROVE  TypeOK'
  BY <1>cancel_run_stop DEF cancel_run_stop, Call, Goto, Return, Become
<1>cancel_run_verify. ASSUME NEW c \in Clients, cancel_run_verify(c)
      PROVE  TypeOK'
  BY <1>cancel_run_verify DEF cancel_run_verify, Call, Goto, Return
<1>cancel_run_reread. ASSUME NEW c \in Clients, cancel_run_reread(c)
      PROVE  TypeOK'
  BY <1>cancel_run_reread DEF cancel_run_reread, Call, Goto, Return
<1>cancel_run_write. ASSUME NEW c \in Clients, cancel_run_write(c)
      PROVE  TypeOK'
  BY <1>cancel_run_write DEF cancel_run_write, Call, Goto, Return,
     write_status
<1>dismiss_run_write. ASSUME NEW c \in Clients, dismiss_run_write(c)
      PROVE  TypeOK'
  BY <1>dismiss_run_write DEF dismiss_run_write, Call, Goto, Return,
     write_status
<1>start_run_lock. ASSUME NEW c \in Clients, start_run_lock(c)
      PROVE  TypeOK'
  BY <1>start_run_lock DEF start_run_lock, Call, Goto, Return
<1>start_run_busy. ASSUME NEW c \in Clients, start_run_busy(c)
      PROVE  TypeOK'
  BY <1>start_run_busy DEF start_run_busy, Call, Goto, Return
<1>client_killed. ASSUME NEW c \in Clients, client_killed(c)
      PROVE  TypeOK'
  BY <1>client_killed DEF client_killed, Call, Goto, Return, Become, Event
<1>json_status. ASSUME NEW c \in Clients, NEW r \in Runs, json_status(c, r)
      PROVE  TypeOK'
  BY <1>json_status DEF json_status, Call, Goto, Return
<1>cancel_run. ASSUME NEW c \in Clients, NEW r \in Runs, cancel_run(c, r)
      PROVE  TypeOK'
  BY <1>cancel_run DEF cancel_run, Call, Goto, Return
<1>dismiss_run. ASSUME NEW c \in Clients, NEW r \in Runs, dismiss_run(c, r)
      PROVE  TypeOK'
  BY <1>dismiss_run DEF dismiss_run, Call, Goto, Return
<1>worker_trap. ASSUME NEW r \in Runs, worker_trap(r)
      PROVE  TypeOK'
  BY <1>worker_trap DEF worker_trap, Become, Finish, clientVars, write_status
<1>worker_lock. ASSUME NEW r \in Runs, worker_lock(r)
      PROVE  TypeOK'
  BY <1>worker_lock DEF worker_lock, Become, Finish, clientVars, write_status
<1>worker_check_intent. ASSUME NEW r \in Runs, worker_check_intent(r)
      PROVE  TypeOK'
  BY <1>worker_check_intent DEF worker_check_intent, Become, Finish,
     clientVars, write_status
<1>worker_check_state. ASSUME NEW r \in Runs, worker_check_state(r)
      PROVE  TypeOK'
  BY <1>worker_check_state DEF worker_check_state, Become, Finish, clientVars,
     write_status
<1>worker_begin. ASSUME NEW r \in Runs, worker_begin(r)
      PROVE  TypeOK'
  BY <1>worker_begin DEF worker_begin, Become, Finish, clientVars,
     write_status
<1>worker_failed. ASSUME NEW r \in Runs, worker_failed(r)
      PROVE  TypeOK'
  BY <1>worker_failed DEF worker_failed, Become, Finish, clientVars,
     write_status
<1>worker_next. ASSUME NEW r \in Runs, worker_next(r)
      PROVE  TypeOK'
  BY <1>worker_next DEF worker_next, Become, Finish, clientVars, write_status,
     NextPhase, FullPhase, AfterPackages, StoppingPoints
<1>honor_cancellation. ASSUME NEW r \in Runs, honor_cancellation(r)
      PROVE  TypeOK'
  BY <1>honor_cancellation DEF honor_cancellation, Become, Finish, clientVars,
     write_status, NextPhase, FullPhase, AfterPackages, StoppingPoints
<1>worker_cancelled. ASSUME NEW r \in Runs, worker_cancelled(r)
      PROVE  TypeOK'
  BY <1>worker_cancelled DEF worker_cancelled, Become, Finish, clientVars,
     write_status
<1>worker_exit_fallback. ASSUME NEW r \in Runs, worker_exit_fallback(r)
      PROVE  TypeOK'
  BY <1>worker_exit_fallback DEF worker_exit_fallback, Become, Finish,
     clientVars, write_status
<1>worker_exit. ASSUME NEW r \in Runs, worker_exit(r)
      PROVE  TypeOK'
  BY <1>worker_exit DEF worker_exit, Become, Finish, clientVars, write_status
<1>worker_killed. ASSUME NEW r \in Runs, worker_killed(r)
      PROVE  TypeOK'
  BY <1>worker_killed DEF worker_killed, Become, Finish, clientVars,
     write_status, Event
<1>installer_lock. ASSUME installer_lock
      PROVE  TypeOK'
  BY <1>installer_lock DEF installer_lock, Event, clientVars
<1>installer_unlock. ASSUME installer_unlock
      PROVE  TypeOK'
  BY <1>installer_unlock DEF installer_unlock, clientVars
<1>power_loss. ASSUME power_loss
      PROVE  TypeOK'
  BY <1>power_loss DEF power_loss, Event, clientVars
<1>stutter. CASE UNCHANGED vars
  BY <1>stutter DEF vars, clientVars
<1> QED
  BY <1>repair_stale_status_lock, <1>repair_stale_status_read,
     <1>repair_stale_status_preserve, <1>repair_stale_status_inspect,
     <1>repair_stale_status_write, <1>start_run_refuse, <1>start_run_decide,
     <1>start_run_publish, <1>start_run_current, <1>prune_logs,
     <1>start_run_launch, <1>start_run_launch_failed, <1>start_run_return,
     <1>cancel_run_intent, <1>cancel_run_unit, <1>cancel_run_stop,
     <1>cancel_run_verify, <1>cancel_run_reread, <1>cancel_run_write,
     <1>dismiss_run_write, <1>start_run_lock, <1>start_run_busy,
     <1>client_killed, <1>json_status, <1>cancel_run, <1>dismiss_run,
     <1>worker_trap, <1>worker_lock, <1>worker_check_intent,
     <1>worker_check_state, <1>worker_begin, <1>worker_failed, <1>worker_next,
     <1>honor_cancellation, <1>worker_cancelled, <1>worker_exit_fallback,
     <1>worker_exit, <1>worker_killed, <1>installer_lock, <1>installer_unlock,
     <1>power_loss, <1>stutter
  DEF Next, ClientStep, Invoke, WorkerStep, repair_stale_status, start_run,
     cancel_run_steps

(* Every step preserves what the control states rely on. *)
LEMMA InductiveStep == IInv /\ [Next]_vars => IInv'
<1> SUFFICES ASSUME IInv, [Next]_vars PROVE IInv'
  OBVIOUS
<1> DEFINE Rest == LockHeld /\ TargetKnown /\ LaunchOnce /\ RepairSafe /\ CancelSafe
                     /\ DismissSafe /\ WorkingIsActive
<1>type. TypeOK'
  BY TypeStep DEF IInv
<1> SUFFICES Rest'
  BY <1>type DEF IInv
<1> USE ConstantsAssumption, <1>type DEF IInv, TypeOK, LockHeld, TargetKnown,
     LaunchOnce, RepairSafe, CancelSafe, DismissSafe, WorkingIsActive, Working,
     is_active, States, ActiveStates, TerminalStates, LockedPcs, HoldingStates,
     WorkPhases, Phases
<1>repair_stale_status_lock. ASSUME NEW c \in Clients, repair_stale_status_lock(c)
      PROVE  Rest'
  BY <1>repair_stale_status_lock DEF repair_stale_status_lock, Call, Goto,
     Return, RepairReturn, At
<1>repair_stale_status_read. ASSUME NEW c \in Clients, repair_stale_status_read(c)
      PROVE  Rest'
  BY <1>repair_stale_status_read DEF repair_stale_status_read, Call, Goto,
     Return, RepairReturn, At
<1>repair_stale_status_preserve. ASSUME NEW c \in Clients, repair_stale_status_preserve(c)
      PROVE  Rest'
  BY <1>repair_stale_status_preserve DEF repair_stale_status_preserve, Call,
     Goto, Return, RepairReturn, At
<1>repair_stale_status_inspect. ASSUME NEW c \in Clients, repair_stale_status_inspect(c)
      PROVE  Rest'
  BY <1>repair_stale_status_inspect DEF repair_stale_status_inspect, Call,
     Goto, Return, RepairReturn, At, unit_active
<1>repair_stale_status_write. ASSUME NEW c \in Clients, repair_stale_status_write(c)
      PROVE  Rest'
  BY <1>repair_stale_status_write DEF repair_stale_status_write, Call, Goto,
     Return, RepairReturn, write_status, At, Present
<1>start_run_refuse. ASSUME NEW c \in Clients, start_run_refuse(c)
      PROVE  Rest'
  BY <1>start_run_refuse DEF start_run_refuse, Call, Goto, Return, At
<1>start_run_decide. ASSUME NEW c \in Clients, start_run_decide(c)
      PROVE  Rest'
  BY <1>start_run_decide DEF start_run_decide, Call, Goto, Return, At
<1>start_run_publish. ASSUME NEW c \in Clients, start_run_publish(c)
      PROVE  Rest'
  BY <1>start_run_publish DEF start_run_publish, Call, Goto, Return, At
<1>start_run_current. ASSUME NEW c \in Clients, start_run_current(c)
      PROVE  Rest'
  BY <1>start_run_current DEF start_run_current, Call, Goto, Return, At
<1>prune_logs. ASSUME NEW c \in Clients, prune_logs(c)
      PROVE  Rest'
  BY <1>prune_logs DEF prune_logs, Call, Goto, Return, At, Expired, Present
<1>start_run_launch. ASSUME NEW c \in Clients, start_run_launch(c)
      PROVE  Rest'
  BY <1>start_run_launch DEF start_run_launch, Call, Goto, Return, Become, At
<1>start_run_launch_failed. ASSUME NEW c \in Clients, start_run_launch_failed(c)
      PROVE  Rest'
  BY <1>start_run_launch_failed DEF start_run_launch_failed, Call, Goto,
     Return, Become, write_status, Present, At
<1>start_run_return. ASSUME NEW c \in Clients, start_run_return(c)
      PROVE  Rest'
  BY <1>start_run_return DEF start_run_return, Call, Goto, Return, At
<1>cancel_run_intent. ASSUME NEW c \in Clients, cancel_run_intent(c)
      PROVE  Rest'
  <2> USE <1>cancel_run_intent DEF cancel_run_intent, Goto, Present, At
  <2>1. LockHeld' /\ TargetKnown' /\ LaunchOnce' /\ RepairSafe' /\ DismissSafe'
          /\ WorkingIsActive'
    OBVIOUS
  <2>2. target[c] \in Runs /\ status[target[c]] # "absent"
    OBVIOUS
  <2>3. intent'[target[c]] \/ status[target[c]] = "pruned"
    BY <2>2
  <2>4. CancelSafe'
    BY <2>2, <2>3
  <2> QED
    BY <2>1, <2>4
<1>cancel_run_unit. ASSUME NEW c \in Clients, cancel_run_unit(c)
      PROVE  Rest'
  BY <1>cancel_run_unit DEF cancel_run_unit, Call, Goto, Return, At,
     unit_active
<1>cancel_run_stop. ASSUME NEW c \in Clients, cancel_run_stop(c)
      PROVE  Rest'
  BY <1>cancel_run_stop DEF cancel_run_stop, Call, Goto, Return, Become, At,
     unit_active
<1>cancel_run_verify. ASSUME NEW c \in Clients, cancel_run_verify(c)
      PROVE  Rest'
  BY <1>cancel_run_verify DEF cancel_run_verify, Call, Goto, Return, At,
     unit_active
<1>cancel_run_reread. ASSUME NEW c \in Clients, cancel_run_reread(c)
      PROVE  Rest'
  BY <1>cancel_run_reread DEF cancel_run_reread, Call, Goto, Return, At
<1>cancel_run_write. ASSUME NEW c \in Clients, cancel_run_write(c)
      PROVE  Rest'
  BY <1>cancel_run_write DEF cancel_run_write, Call, Goto, Return,
     write_status, At, Present
<1>dismiss_run_write. ASSUME NEW c \in Clients, dismiss_run_write(c)
      PROVE  Rest'
  BY <1>dismiss_run_write DEF dismiss_run_write, Call, Goto, Return,
     write_status, At, Present
<1>start_run_lock. ASSUME NEW c \in Clients, start_run_lock(c)
      PROVE  Rest'
  BY <1>start_run_lock DEF start_run_lock, Call, Goto, Return, At, Idle
<1>start_run_busy. ASSUME NEW c \in Clients, start_run_busy(c)
      PROVE  Rest'
  BY <1>start_run_busy DEF start_run_busy, Call, Goto, Return, At, Idle
<1>client_killed. ASSUME NEW c \in Clients, client_killed(c)
      PROVE  Rest'
  BY <1>client_killed DEF client_killed, Call, Goto, Return, Become, Event,
     At, Idle
<1>json_status. ASSUME NEW c \in Clients, NEW r \in Runs, json_status(c, r)
      PROVE  Rest'
  BY <1>json_status DEF json_status, Call, Goto, Return, Idle, Present
<1>cancel_run. ASSUME NEW c \in Clients, NEW r \in Runs, cancel_run(c, r)
      PROVE  Rest'
  BY <1>cancel_run DEF cancel_run, Call, Goto, Return, Idle, Present
<1>dismiss_run. ASSUME NEW c \in Clients, NEW r \in Runs, dismiss_run(c, r)
      PROVE  Rest'
  BY <1>dismiss_run DEF dismiss_run, Call, Goto, Return, Idle, Present
<1>worker_trap. ASSUME NEW r \in Runs, worker_trap(r)
      PROVE  Rest'
  BY <1>worker_trap DEF worker_trap, Become, Finish, clientVars, write_status,
     Present
<1>worker_lock. ASSUME NEW r \in Runs, worker_lock(r)
      PROVE  Rest'
  BY <1>worker_lock DEF worker_lock, Become, Finish, clientVars, write_status,
     Present
<1>worker_check_intent. ASSUME NEW r \in Runs, worker_check_intent(r)
      PROVE  Rest'
  BY <1>worker_check_intent DEF worker_check_intent, Become, Finish,
     clientVars, write_status, Present
<1>worker_check_state. ASSUME NEW r \in Runs, worker_check_state(r)
      PROVE  Rest'
  BY <1>worker_check_state DEF worker_check_state, Become, Finish, clientVars,
     write_status, Present
<1>worker_begin. ASSUME NEW r \in Runs, worker_begin(r)
      PROVE  Rest'
  BY <1>worker_begin DEF worker_begin, Become, Finish, clientVars,
     write_status, Present
<1>worker_failed. ASSUME NEW r \in Runs, worker_failed(r)
      PROVE  Rest'
  BY <1>worker_failed DEF worker_failed, Become, Finish, clientVars,
     write_status, Present, CanFail
<1>worker_next. ASSUME NEW r \in Runs, worker_next(r)
      PROVE  Rest'
  BY <1>worker_next DEF worker_next, Become, Finish, clientVars, write_status,
     NextPhase, FullPhase, AfterPackages, StoppingPoints, Present
<1>honor_cancellation. ASSUME NEW r \in Runs, honor_cancellation(r)
      PROVE  Rest'
  BY <1>honor_cancellation DEF honor_cancellation, Become, Finish, clientVars,
     write_status, NextPhase, FullPhase, AfterPackages, StoppingPoints,
     Present
<1>worker_cancelled. ASSUME NEW r \in Runs, worker_cancelled(r)
      PROVE  Rest'
  BY <1>worker_cancelled DEF worker_cancelled, Become, Finish, clientVars,
     write_status, Present
<1>worker_exit_fallback. ASSUME NEW r \in Runs, worker_exit_fallback(r)
      PROVE  Rest'
  BY <1>worker_exit_fallback DEF worker_exit_fallback, Become, Finish,
     clientVars, write_status, Present
<1>worker_exit. ASSUME NEW r \in Runs, worker_exit(r)
      PROVE  Rest'
  BY <1>worker_exit DEF worker_exit, Become, Finish, clientVars, write_status,
     Present
<1>worker_killed. ASSUME NEW r \in Runs, worker_killed(r)
      PROVE  Rest'
  BY <1>worker_killed DEF worker_killed, Become, Finish, clientVars,
     write_status, Event, unit_active, Present
<1>installer_lock. ASSUME installer_lock
      PROVE  Rest'
  BY <1>installer_lock DEF installer_lock, Event, clientVars
<1>installer_unlock. ASSUME installer_unlock
      PROVE  Rest'
  BY <1>installer_unlock DEF installer_unlock, clientVars
<1>power_loss. ASSUME power_loss
      PROVE  Rest'
  BY <1>power_loss DEF power_loss, Event, clientVars, unit_active
<1>stutter. CASE UNCHANGED vars
  BY <1>stutter DEF vars, clientVars
<1> QED
  BY <1>repair_stale_status_lock, <1>repair_stale_status_read,
     <1>repair_stale_status_preserve, <1>repair_stale_status_inspect,
     <1>repair_stale_status_write, <1>start_run_refuse, <1>start_run_decide,
     <1>start_run_publish, <1>start_run_current, <1>prune_logs,
     <1>start_run_launch, <1>start_run_launch_failed, <1>start_run_return,
     <1>cancel_run_intent, <1>cancel_run_unit, <1>cancel_run_stop,
     <1>cancel_run_verify, <1>cancel_run_reread, <1>cancel_run_write,
     <1>dismiss_run_write, <1>start_run_lock, <1>start_run_busy,
     <1>client_killed, <1>json_status, <1>cancel_run, <1>dismiss_run,
     <1>worker_trap, <1>worker_lock, <1>worker_check_intent,
     <1>worker_check_state, <1>worker_begin, <1>worker_failed, <1>worker_next,
     <1>honor_cancellation, <1>worker_cancelled, <1>worker_exit_fallback,
     <1>worker_exit, <1>worker_killed, <1>installer_lock, <1>installer_unlock,
     <1>power_loss, <1>stutter
  DEF Next, ClientStep, Invoke, WorkerStep, repair_stale_status, start_run,
     cancel_run_steps

-----------------------------------------------------------------------------
(* The inductive invariant holds before the first run is published, with    *)
(* update.lock free and no worker.                                          *)
LEMMA InitIInv == Init => IInv
<1> SUFFICES ASSUME Init PROVE IInv
  OBVIOUS
<1>1. TypeOK
  <2>1. (CHOOSE o \in Options : TRUE) \in Options
    BY ConstantsAssumption
  <2> QED
    BY <2>1, ConstantsAssumption DEF Init, TypeOK, States, Ops, ClientPcs, WorkerStates
<1> QED
  BY <1>1 DEF Init, IInv, LockHeld, TargetKnown, LaunchOnce, RepairSafe, CancelSafe,
     DismissSafe, WorkingIsActive, Working, LockedPcs, HoldingStates, WorkPhases, Phases

(* The inductive invariant holds in every reachable state. *)
THEOREM Invariance == Spec => []IInv
<1>1. IInv /\ [Next]_vars => IInv'
  BY InductiveStep
<1> QED
  BY InitIInv, <1>1, PTL DEF Spec

(* Every variable keeps its type. *)
THEOREM TypeCorrect == Spec => []TypeOK
<1>1. IInv => TypeOK
  BY DEF IInv
<1> QED
  BY Invariance, <1>1, PTL

(* Two runs, or a run and an installation, never change the machine at the *)
(* same time.                                                              *)
THEOREM TransactionsExclude == Spec => []OneTransaction
<1>1. IInv => OneTransaction
  BY ConstantsAssumption DEF IInv, LockHeld, OneTransaction, Working, HoldingStates
<1> QED
  BY Invariance, <1>1, PTL

(* A run with a terminal record is not changing the machine. *)
THEOREM TerminalIsStopped == Spec => []TerminalMeansStopped
<1>1. IInv => TerminalMeansStopped
  BY DEF IInv, WorkingIsActive, TerminalMeansStopped, Terminal, is_active,
     ActiveStates, TerminalStates
<1> QED
  BY Invariance, <1>1, PTL

(* No step changes a terminal record back. *)
LEMMA TerminalStep ==
    ASSUME IInv, [Next]_vars, NEW q \in Runs, Terminal(q)
    PROVE  status'[q] \in TerminalStates \cup {"pruned"}
<1> DEFINE Over == status'[q] \in TerminalStates \cup {"pruned"}
<1> SUFFICES Over
  OBVIOUS
<1> USE DEF IInv, TypeOK, WorkingIsActive, Working, is_active, Terminal, ActiveStates,
     TerminalStates, WorkPhases, Phases
<1>repair_stale_status_lock. ASSUME NEW c \in Clients, repair_stale_status_lock(c)
      PROVE  Over
  BY <1>repair_stale_status_lock DEF repair_stale_status_lock
<1>repair_stale_status_read. ASSUME NEW c \in Clients, repair_stale_status_read(c)
      PROVE  Over
  BY <1>repair_stale_status_read DEF repair_stale_status_read
<1>repair_stale_status_preserve. ASSUME NEW c \in Clients, repair_stale_status_preserve(c)
      PROVE  Over
  BY <1>repair_stale_status_preserve DEF repair_stale_status_preserve
<1>repair_stale_status_inspect. ASSUME NEW c \in Clients, repair_stale_status_inspect(c)
      PROVE  Over
  BY <1>repair_stale_status_inspect DEF repair_stale_status_inspect
<1>repair_stale_status_write. ASSUME NEW c \in Clients, repair_stale_status_write(c)
      PROVE  Over
  BY <1>repair_stale_status_write DEF repair_stale_status_write, write_status,
     Present
<1>start_run_refuse. ASSUME NEW c \in Clients, start_run_refuse(c)
      PROVE  Over
  BY <1>start_run_refuse DEF start_run_refuse
<1>start_run_decide. ASSUME NEW c \in Clients, start_run_decide(c)
      PROVE  Over
  BY <1>start_run_decide DEF start_run_decide
<1>start_run_publish. ASSUME NEW c \in Clients, start_run_publish(c)
      PROVE  Over
  BY <1>start_run_publish DEF start_run_publish
<1>start_run_current. ASSUME NEW c \in Clients, start_run_current(c)
      PROVE  Over
  BY <1>start_run_current DEF start_run_current
<1>prune_logs. ASSUME NEW c \in Clients, prune_logs(c)
      PROVE  Over
  BY <1>prune_logs DEF prune_logs, Expired, Present
<1>start_run_launch. ASSUME NEW c \in Clients, start_run_launch(c)
      PROVE  Over
  BY <1>start_run_launch DEF start_run_launch
<1>start_run_launch_failed. ASSUME NEW c \in Clients, start_run_launch_failed(c)
      PROVE  Over
  BY <1>start_run_launch_failed DEF start_run_launch_failed, write_status,
     Present
<1>start_run_return. ASSUME NEW c \in Clients, start_run_return(c)
      PROVE  Over
  BY <1>start_run_return DEF start_run_return
<1>cancel_run_intent. ASSUME NEW c \in Clients, cancel_run_intent(c)
      PROVE  Over
  BY <1>cancel_run_intent DEF cancel_run_intent, Present
<1>cancel_run_unit. ASSUME NEW c \in Clients, cancel_run_unit(c)
      PROVE  Over
  BY <1>cancel_run_unit DEF cancel_run_unit
<1>cancel_run_stop. ASSUME NEW c \in Clients, cancel_run_stop(c)
      PROVE  Over
  BY <1>cancel_run_stop DEF cancel_run_stop
<1>cancel_run_verify. ASSUME NEW c \in Clients, cancel_run_verify(c)
      PROVE  Over
  BY <1>cancel_run_verify DEF cancel_run_verify
<1>cancel_run_reread. ASSUME NEW c \in Clients, cancel_run_reread(c)
      PROVE  Over
  BY <1>cancel_run_reread DEF cancel_run_reread
<1>cancel_run_write. ASSUME NEW c \in Clients, cancel_run_write(c)
      PROVE  Over
  BY <1>cancel_run_write DEF cancel_run_write, write_status, Present
<1>dismiss_run_write. ASSUME NEW c \in Clients, dismiss_run_write(c)
      PROVE  Over
  BY <1>dismiss_run_write DEF dismiss_run_write, write_status, Present
<1>start_run_lock. ASSUME NEW c \in Clients, start_run_lock(c)
      PROVE  Over
  BY <1>start_run_lock DEF start_run_lock
<1>start_run_busy. ASSUME NEW c \in Clients, start_run_busy(c)
      PROVE  Over
  BY <1>start_run_busy DEF start_run_busy
<1>client_killed. ASSUME NEW c \in Clients, client_killed(c)
      PROVE  Over
  BY <1>client_killed DEF client_killed
<1>json_status. ASSUME NEW c \in Clients, NEW r \in Runs, json_status(c, r)
      PROVE  Over
  BY <1>json_status DEF json_status, Present
<1>cancel_run. ASSUME NEW c \in Clients, NEW r \in Runs, cancel_run(c, r)
      PROVE  Over
  BY <1>cancel_run DEF cancel_run, Present
<1>dismiss_run. ASSUME NEW c \in Clients, NEW r \in Runs, dismiss_run(c, r)
      PROVE  Over
  BY <1>dismiss_run DEF dismiss_run, Present
<1>worker_trap. ASSUME NEW r \in Runs, worker_trap(r)
      PROVE  Over
  BY <1>worker_trap DEF worker_trap, Finish, write_status, Present
<1>worker_lock. ASSUME NEW r \in Runs, worker_lock(r)
      PROVE  Over
  BY <1>worker_lock DEF worker_lock, Finish, write_status, Present
<1>worker_check_intent. ASSUME NEW r \in Runs, worker_check_intent(r)
      PROVE  Over
  BY <1>worker_check_intent DEF worker_check_intent, Finish, write_status,
     Present
<1>worker_check_state. ASSUME NEW r \in Runs, worker_check_state(r)
      PROVE  Over
  BY <1>worker_check_state DEF worker_check_state, Finish, write_status,
     Present
<1>worker_begin. ASSUME NEW r \in Runs, worker_begin(r)
      PROVE  Over
  BY <1>worker_begin DEF worker_begin, Finish, write_status, Present
<1>worker_failed. ASSUME NEW r \in Runs, worker_failed(r)
      PROVE  Over
  BY <1>worker_failed DEF worker_failed, Finish, write_status, Present,
     CanFail
<1>worker_next. ASSUME NEW r \in Runs, worker_next(r)
      PROVE  Over
  BY <1>worker_next DEF worker_next, Finish, write_status, StoppingPoints,
     Present
<1>honor_cancellation. ASSUME NEW r \in Runs, honor_cancellation(r)
      PROVE  Over
  BY <1>honor_cancellation DEF honor_cancellation, Finish, write_status,
     StoppingPoints, Present
<1>worker_cancelled. ASSUME NEW r \in Runs, worker_cancelled(r)
      PROVE  Over
  BY <1>worker_cancelled DEF worker_cancelled, Finish, write_status, Present
<1>worker_exit_fallback. ASSUME NEW r \in Runs, worker_exit_fallback(r)
      PROVE  Over
  BY <1>worker_exit_fallback DEF worker_exit_fallback, Finish, write_status,
     Present
<1>worker_exit. ASSUME NEW r \in Runs, worker_exit(r)
      PROVE  Over
  BY <1>worker_exit DEF worker_exit, Finish, write_status, Present
<1>worker_killed. ASSUME NEW r \in Runs, worker_killed(r)
      PROVE  Over
  BY <1>worker_killed DEF worker_killed, Finish, write_status, Present
<1>installer_lock. ASSUME installer_lock
      PROVE  Over
  BY <1>installer_lock DEF installer_lock
<1>installer_unlock. ASSUME installer_unlock
      PROVE  Over
  BY <1>installer_unlock DEF installer_unlock
<1>power_loss. ASSUME power_loss
      PROVE  Over
  BY <1>power_loss DEF power_loss
<1>stutter. CASE UNCHANGED vars
  BY <1>stutter DEF vars, clientVars
<1> QED
  BY <1>repair_stale_status_lock, <1>repair_stale_status_read,
     <1>repair_stale_status_preserve, <1>repair_stale_status_inspect,
     <1>repair_stale_status_write, <1>start_run_refuse, <1>start_run_decide,
     <1>start_run_publish, <1>start_run_current, <1>prune_logs,
     <1>start_run_launch, <1>start_run_launch_failed, <1>start_run_return,
     <1>cancel_run_intent, <1>cancel_run_unit, <1>cancel_run_stop,
     <1>cancel_run_verify, <1>cancel_run_reread, <1>cancel_run_write,
     <1>dismiss_run_write, <1>start_run_lock, <1>start_run_busy,
     <1>client_killed, <1>json_status, <1>cancel_run, <1>dismiss_run,
     <1>worker_trap, <1>worker_lock, <1>worker_check_intent,
     <1>worker_check_state, <1>worker_begin, <1>worker_failed, <1>worker_next,
     <1>honor_cancellation, <1>worker_cancelled, <1>worker_exit_fallback,
     <1>worker_exit, <1>worker_killed, <1>installer_lock, <1>installer_unlock,
     <1>power_loss, <1>stutter
  DEF Next, ClientStep, Invoke, WorkerStep, repair_stale_status, start_run,
     cancel_run_steps

(* A terminal record stays terminal and its run never works again. *)
THEOREM SettledForGood == Spec => NoResurrection
<1>1. ASSUME IInv, IInv', [Next]_vars, NEW r \in Runs, Terminal(r)
      PROVE  status'[r] \in TerminalStates \cup {"pruned"} /\ ~ Working(r)'
  <2>1. status'[r] \in TerminalStates \cup {"pruned"}
    BY <1>1, TerminalStep
  <2> QED
    BY <1>1, <2>1 DEF IInv, WorkingIsActive, is_active, ActiveStates, TerminalStates
<1>2. IInv /\ IInv' /\ [Next]_vars
        => [\A r \in Runs :
              Terminal(r) => /\ status'[r] \in TerminalStates \cup {"pruned"}
                             /\ ~ Working(r)']_vars
  BY <1>1
<1> QED
  BY Invariance, <1>2, PTL DEF Spec, NoResurrection

-----------------------------------------------------------------------------
(* A run that can no longer begin: its worker has yet to look for an       *)
(* intent that is there, or its directory is gone, or it is over.          *)
Doomed(r) ==
    \/ /\ intent[r] \/ status[r] = "pruned"
       /\ worker[r] \in {"none", "boot", "lockwait", "intent", "exiting", "gone"}
    \/ status[r] = "pruned" /\ worker[r] = "state"

(* No step of any process rescues such a run. *)
LEMMA DoomedStep ==
    ASSUME IInv, [Next]_vars, NEW q \in Runs, Doomed(q)
    PROVE  Doomed(q)'
<1> USE DEF IInv, TypeOK, CancelSafe, Doomed, CanFail, Phases
<1>repair_stale_status_lock. ASSUME NEW c \in Clients, repair_stale_status_lock(c)
      PROVE  Doomed(q)'
  BY <1>repair_stale_status_lock DEF repair_stale_status_lock, At
<1>repair_stale_status_read. ASSUME NEW c \in Clients, repair_stale_status_read(c)
      PROVE  Doomed(q)'
  BY <1>repair_stale_status_read DEF repair_stale_status_read, At
<1>repair_stale_status_preserve. ASSUME NEW c \in Clients, repair_stale_status_preserve(c)
      PROVE  Doomed(q)'
  BY <1>repair_stale_status_preserve DEF repair_stale_status_preserve, At
<1>repair_stale_status_inspect. ASSUME NEW c \in Clients, repair_stale_status_inspect(c)
      PROVE  Doomed(q)'
  BY <1>repair_stale_status_inspect DEF repair_stale_status_inspect, At,
     unit_active
<1>repair_stale_status_write. ASSUME NEW c \in Clients, repair_stale_status_write(c)
      PROVE  Doomed(q)'
  BY <1>repair_stale_status_write DEF repair_stale_status_write, write_status,
     At, Present
<1>start_run_refuse. ASSUME NEW c \in Clients, start_run_refuse(c)
      PROVE  Doomed(q)'
  BY <1>start_run_refuse DEF start_run_refuse, At
<1>start_run_decide. ASSUME NEW c \in Clients, start_run_decide(c)
      PROVE  Doomed(q)'
  BY <1>start_run_decide DEF start_run_decide, At
<1>start_run_publish. ASSUME NEW c \in Clients, start_run_publish(c)
      PROVE  Doomed(q)'
  BY <1>start_run_publish DEF start_run_publish, At
<1>start_run_current. ASSUME NEW c \in Clients, start_run_current(c)
      PROVE  Doomed(q)'
  BY <1>start_run_current DEF start_run_current, At
<1>prune_logs. ASSUME NEW c \in Clients, prune_logs(c)
      PROVE  Doomed(q)'
  BY <1>prune_logs DEF prune_logs, At, Expired, Present
<1>start_run_launch. ASSUME NEW c \in Clients, start_run_launch(c)
      PROVE  Doomed(q)'
  BY <1>start_run_launch DEF start_run_launch, Become, At
<1>start_run_launch_failed. ASSUME NEW c \in Clients, start_run_launch_failed(c)
      PROVE  Doomed(q)'
  BY <1>start_run_launch_failed DEF start_run_launch_failed, Become,
     write_status, Present, At
<1>start_run_return. ASSUME NEW c \in Clients, start_run_return(c)
      PROVE  Doomed(q)'
  BY <1>start_run_return DEF start_run_return, At
<1>cancel_run_intent. ASSUME NEW c \in Clients, cancel_run_intent(c)
      PROVE  Doomed(q)'
  BY <1>cancel_run_intent DEF cancel_run_intent, Present, At
<1>cancel_run_unit. ASSUME NEW c \in Clients, cancel_run_unit(c)
      PROVE  Doomed(q)'
  BY <1>cancel_run_unit DEF cancel_run_unit, At, unit_active
<1>cancel_run_stop. ASSUME NEW c \in Clients, cancel_run_stop(c)
      PROVE  Doomed(q)'
  BY <1>cancel_run_stop DEF cancel_run_stop, Become, At, unit_active
<1>cancel_run_verify. ASSUME NEW c \in Clients, cancel_run_verify(c)
      PROVE  Doomed(q)'
  BY <1>cancel_run_verify DEF cancel_run_verify, At, unit_active
<1>cancel_run_reread. ASSUME NEW c \in Clients, cancel_run_reread(c)
      PROVE  Doomed(q)'
  BY <1>cancel_run_reread DEF cancel_run_reread, At
<1>cancel_run_write. ASSUME NEW c \in Clients, cancel_run_write(c)
      PROVE  Doomed(q)'
  BY <1>cancel_run_write DEF cancel_run_write, write_status, At, Present
<1>dismiss_run_write. ASSUME NEW c \in Clients, dismiss_run_write(c)
      PROVE  Doomed(q)'
  BY <1>dismiss_run_write DEF dismiss_run_write, write_status, At, Present
<1>start_run_lock. ASSUME NEW c \in Clients, start_run_lock(c)
      PROVE  Doomed(q)'
  BY <1>start_run_lock DEF start_run_lock, At
<1>start_run_busy. ASSUME NEW c \in Clients, start_run_busy(c)
      PROVE  Doomed(q)'
  BY <1>start_run_busy DEF start_run_busy, At
<1>client_killed. ASSUME NEW c \in Clients, client_killed(c)
      PROVE  Doomed(q)'
  BY <1>client_killed DEF client_killed, Become, At
<1>json_status. ASSUME NEW c \in Clients, NEW r \in Runs, json_status(c, r)
      PROVE  Doomed(q)'
  BY <1>json_status DEF json_status, Present
<1>cancel_run. ASSUME NEW c \in Clients, NEW r \in Runs, cancel_run(c, r)
      PROVE  Doomed(q)'
  BY <1>cancel_run DEF cancel_run, Present
<1>dismiss_run. ASSUME NEW c \in Clients, NEW r \in Runs, dismiss_run(c, r)
      PROVE  Doomed(q)'
  BY <1>dismiss_run DEF dismiss_run, Present
<1>worker_trap. ASSUME NEW r \in Runs, worker_trap(r)
      PROVE  Doomed(q)'
  BY <1>worker_trap DEF worker_trap, Become, Finish, write_status, Present
<1>worker_lock. ASSUME NEW r \in Runs, worker_lock(r)
      PROVE  Doomed(q)'
  BY <1>worker_lock DEF worker_lock, Become, Finish, write_status, Present
<1>worker_check_intent. ASSUME NEW r \in Runs, worker_check_intent(r)
      PROVE  Doomed(q)'
  BY <1>worker_check_intent DEF worker_check_intent, Become, Finish,
     write_status, Present
<1>worker_check_state. ASSUME NEW r \in Runs, worker_check_state(r)
      PROVE  Doomed(q)'
  BY <1>worker_check_state DEF worker_check_state, Become, Finish,
     write_status, Present
<1>worker_begin. ASSUME NEW r \in Runs, worker_begin(r)
      PROVE  Doomed(q)'
  BY <1>worker_begin DEF worker_begin, Become, Finish, write_status, Present
<1>worker_failed. ASSUME NEW r \in Runs, worker_failed(r)
      PROVE  Doomed(q)'
  BY <1>worker_failed DEF worker_failed, Become, Finish, write_status,
     Present
<1>worker_next. ASSUME NEW r \in Runs, worker_next(r)
      PROVE  Doomed(q)'
  BY <1>worker_next DEF worker_next, Become, Finish, write_status,
     StoppingPoints, Present
<1>honor_cancellation. ASSUME NEW r \in Runs, honor_cancellation(r)
      PROVE  Doomed(q)'
  BY <1>honor_cancellation DEF honor_cancellation, Become, Finish,
     write_status, StoppingPoints, Present
<1>worker_cancelled. ASSUME NEW r \in Runs, worker_cancelled(r)
      PROVE  Doomed(q)'
  BY <1>worker_cancelled DEF worker_cancelled, Become, Finish, write_status,
     Present
<1>worker_exit_fallback. ASSUME NEW r \in Runs, worker_exit_fallback(r)
      PROVE  Doomed(q)'
  BY <1>worker_exit_fallback DEF worker_exit_fallback, Become, Finish,
     write_status, Present
<1>worker_exit. ASSUME NEW r \in Runs, worker_exit(r)
      PROVE  Doomed(q)'
  BY <1>worker_exit DEF worker_exit, Become, Finish, write_status, Present
<1>worker_killed. ASSUME NEW r \in Runs, worker_killed(r)
      PROVE  Doomed(q)'
  BY <1>worker_killed DEF worker_killed, Become, Finish, write_status,
     unit_active, Present
<1>installer_lock. ASSUME installer_lock
      PROVE  Doomed(q)'
  BY <1>installer_lock DEF installer_lock
<1>installer_unlock. ASSUME installer_unlock
      PROVE  Doomed(q)'
  BY <1>installer_unlock DEF installer_unlock
<1>power_loss. ASSUME power_loss
      PROVE  Doomed(q)'
  BY <1>power_loss DEF power_loss, unit_active
<1>stutter. CASE UNCHANGED vars
  BY <1>stutter DEF vars, clientVars
<1> QED
  BY <1>repair_stale_status_lock, <1>repair_stale_status_read,
     <1>repair_stale_status_preserve, <1>repair_stale_status_inspect,
     <1>repair_stale_status_write, <1>start_run_refuse, <1>start_run_decide,
     <1>start_run_publish, <1>start_run_current, <1>prune_logs,
     <1>start_run_launch, <1>start_run_launch_failed, <1>start_run_return,
     <1>cancel_run_intent, <1>cancel_run_unit, <1>cancel_run_stop,
     <1>cancel_run_verify, <1>cancel_run_reread, <1>cancel_run_write,
     <1>dismiss_run_write, <1>start_run_lock, <1>start_run_busy,
     <1>client_killed, <1>json_status, <1>cancel_run, <1>dismiss_run,
     <1>worker_trap, <1>worker_lock, <1>worker_check_intent,
     <1>worker_check_state, <1>worker_begin, <1>worker_failed, <1>worker_next,
     <1>honor_cancellation, <1>worker_cancelled, <1>worker_exit_fallback,
     <1>worker_exit, <1>worker_killed, <1>installer_lock, <1>installer_unlock,
     <1>power_loss, <1>stutter
  DEF Next, ClientStep, Invoke, WorkerStep, repair_stale_status, start_run,
     cancel_run_steps

(* An intent that is there before the worker looks prevents all work. *)
THEOREM IntentIsFinal == Spec => IntentPreventsWork
<1> SUFFICES ASSUME NEW r \in Runs
             PROVE  Spec => [](intent[r] /\ worker[r] \in {"none", "boot", "lockwait", "intent"}
                               => [] ~ Working(r))
  BY DEF IntentPreventsWork
<1>1. intent[r] /\ worker[r] \in {"none", "boot", "lockwait", "intent"} => Doomed(r)
  BY DEF Doomed
<1>2. IInv /\ Doomed(r) /\ [Next]_vars => Doomed(r)'
  BY DoomedStep
<1>3. Doomed(r) => ~ Working(r)
  BY DEF Doomed, Working, WorkPhases, Phases
<1> QED
  BY Invariance, <1>1, <1>2, <1>3, PTL DEF Spec

-----------------------------------------------------------------------------
(* A start command has the lock from its first step to its last, and talks *)
(* about the current run except while it is making another one current;    *)
(* that only happens when the current one is over.                         *)
StartKnown ==
    \A c \in Clients :
        /\ op[c] = "start" => pc[c] \in LockedPcs
        /\ op[c] = "start" /\ pc[c] # "current" => target[c] = current
        /\ pc[c] \in {"decide", "publish", "current", "prune", "launch", "release"}
             => op[c] = "start"
        /\ pc[c] \in {"publish", "current"} /\ current # NoRun => ~ is_active(status[current])
CurrentKnown ==
    /\ current # NoRun => status[current] # "absent"
    /\ StartKnown
    /\ NoSecondActiveRun

(* No step of any process leaves a second active record with a worker.     *)
LEMMA CurrentStep ==
    ASSUME IInv, CurrentKnown, [Next]_vars
    PROVE  CurrentKnown'
<1> USE ConstantsAssumption DEF IInv, TypeOK, LockHeld, TargetKnown, LaunchOnce, WorkingIsActive,
     Working, is_active, ActiveStates, TerminalStates, LockedPcs, WorkPhases, Phases,
     CurrentKnown, StartKnown, NoSecondActiveRun
<1>repair_stale_status_lock. ASSUME NEW c \in Clients, repair_stale_status_lock(c)
      PROVE  CurrentKnown'
  BY <1>repair_stale_status_lock DEF repair_stale_status_lock, At, Call, Goto,
     Return, RepairReturn
<1>repair_stale_status_read. ASSUME NEW c \in Clients, repair_stale_status_read(c)
      PROVE  CurrentKnown'
  BY <1>repair_stale_status_read DEF repair_stale_status_read, At, Call, Goto,
     Return, RepairReturn
<1>repair_stale_status_preserve. ASSUME NEW c \in Clients, repair_stale_status_preserve(c)
      PROVE  CurrentKnown'
  BY <1>repair_stale_status_preserve DEF repair_stale_status_preserve, At,
     Call, Goto, Return, RepairReturn
<1>repair_stale_status_inspect. ASSUME NEW c \in Clients, repair_stale_status_inspect(c)
      PROVE  CurrentKnown'
  BY <1>repair_stale_status_inspect DEF repair_stale_status_inspect, At,
     unit_active, Call, Goto, Return, RepairReturn
<1>repair_stale_status_write. ASSUME NEW c \in Clients, repair_stale_status_write(c)
      PROVE  CurrentKnown'
  BY <1>repair_stale_status_write DEF repair_stale_status_write, write_status,
     At, Present, Call, Goto, Return, RepairReturn
<1>start_run_refuse. ASSUME NEW c \in Clients, start_run_refuse(c)
      PROVE  CurrentKnown'
  BY <1>start_run_refuse DEF start_run_refuse, At, Call, Goto, Return
<1>start_run_decide. ASSUME NEW c \in Clients, start_run_decide(c)
      PROVE  CurrentKnown'
  BY <1>start_run_decide DEF start_run_decide, At, Call, Goto, Return
<1>start_run_publish. ASSUME NEW c \in Clients, start_run_publish(c)
      PROVE  CurrentKnown'
  BY <1>start_run_publish DEF start_run_publish, At, Call, Goto, Return
<1>start_run_current. ASSUME NEW c \in Clients, start_run_current(c)
      PROVE  CurrentKnown'
  BY <1>start_run_current DEF start_run_current, At, Call, Goto, Return
<1>prune_logs. ASSUME NEW c \in Clients, prune_logs(c)
      PROVE  CurrentKnown'
  BY <1>prune_logs DEF prune_logs, At, Expired, Present, Call, Goto, Return
<1>start_run_launch. ASSUME NEW c \in Clients, start_run_launch(c)
      PROVE  CurrentKnown'
  BY <1>start_run_launch DEF start_run_launch, Become, At, Call, Goto, Return
<1>start_run_launch_failed. ASSUME NEW c \in Clients, start_run_launch_failed(c)
      PROVE  CurrentKnown'
  BY <1>start_run_launch_failed DEF start_run_launch_failed, Become,
     write_status, Present, At, Call, Goto, Return
<1>start_run_return. ASSUME NEW c \in Clients, start_run_return(c)
      PROVE  CurrentKnown'
  BY <1>start_run_return DEF start_run_return, At, Call, Goto, Return
<1>cancel_run_intent. ASSUME NEW c \in Clients, cancel_run_intent(c)
      PROVE  CurrentKnown'
  BY <1>cancel_run_intent DEF cancel_run_intent, Present, At, Call, Goto, Return
<1>cancel_run_unit. ASSUME NEW c \in Clients, cancel_run_unit(c)
      PROVE  CurrentKnown'
  BY <1>cancel_run_unit DEF cancel_run_unit, At, unit_active, Call, Goto, Return
<1>cancel_run_stop. ASSUME NEW c \in Clients, cancel_run_stop(c)
      PROVE  CurrentKnown'
  BY <1>cancel_run_stop DEF cancel_run_stop, Become, At, unit_active, Call,
     Goto, Return
<1>cancel_run_verify. ASSUME NEW c \in Clients, cancel_run_verify(c)
      PROVE  CurrentKnown'
  BY <1>cancel_run_verify DEF cancel_run_verify, At, unit_active, Call, Goto,
     Return
<1>cancel_run_reread. ASSUME NEW c \in Clients, cancel_run_reread(c)
      PROVE  CurrentKnown'
  BY <1>cancel_run_reread DEF cancel_run_reread, At, Call, Goto, Return
<1>cancel_run_write. ASSUME NEW c \in Clients, cancel_run_write(c)
      PROVE  CurrentKnown'
  BY <1>cancel_run_write DEF cancel_run_write, write_status, At, Present, Call,
     Goto, Return
<1>dismiss_run_write. ASSUME NEW c \in Clients, dismiss_run_write(c)
      PROVE  CurrentKnown'
  BY <1>dismiss_run_write DEF dismiss_run_write, write_status, At, Present,
     Call, Goto, Return
<1>start_run_lock. ASSUME NEW c \in Clients, start_run_lock(c)
      PROVE  CurrentKnown'
  BY <1>start_run_lock DEF start_run_lock, At, Call, Goto, Return
<1>start_run_busy. ASSUME NEW c \in Clients, start_run_busy(c)
      PROVE  CurrentKnown'
  BY <1>start_run_busy DEF start_run_busy, At, Call, Goto, Return
<1>client_killed. ASSUME NEW c \in Clients, client_killed(c)
      PROVE  CurrentKnown'
  BY <1>client_killed DEF client_killed, Become, At, Call, Goto, Return
<1>json_status. ASSUME NEW c \in Clients, NEW r \in Runs, json_status(c, r)
      PROVE  CurrentKnown'
  BY <1>json_status DEF json_status, Present, Call, Goto, Return
<1>cancel_run. ASSUME NEW c \in Clients, NEW r \in Runs, cancel_run(c, r)
      PROVE  CurrentKnown'
  BY <1>cancel_run DEF cancel_run, Present, Call, Goto, Return
<1>dismiss_run. ASSUME NEW c \in Clients, NEW r \in Runs, dismiss_run(c, r)
      PROVE  CurrentKnown'
  BY <1>dismiss_run DEF dismiss_run, Present, Call, Goto, Return
<1>worker_trap. ASSUME NEW r \in Runs, worker_trap(r)
      PROVE  CurrentKnown'
  BY <1>worker_trap DEF worker_trap, Become, Finish, write_status, Present,
     clientVars
<1>worker_lock. ASSUME NEW r \in Runs, worker_lock(r)
      PROVE  CurrentKnown'
  BY <1>worker_lock DEF worker_lock, Become, Finish, write_status, Present,
     clientVars
<1>worker_check_intent. ASSUME NEW r \in Runs, worker_check_intent(r)
      PROVE  CurrentKnown'
  BY <1>worker_check_intent DEF worker_check_intent, Become, Finish,
     write_status, Present, clientVars
<1>worker_check_state. ASSUME NEW r \in Runs, worker_check_state(r)
      PROVE  CurrentKnown'
  BY <1>worker_check_state DEF worker_check_state, Become, Finish,
     write_status, Present, clientVars
<1>worker_begin. ASSUME NEW r \in Runs, worker_begin(r)
      PROVE  CurrentKnown'
  BY <1>worker_begin DEF worker_begin, Become, Finish, write_status, Present,
     clientVars
<1>worker_failed. ASSUME NEW r \in Runs, worker_failed(r)
      PROVE  CurrentKnown'
  BY <1>worker_failed DEF worker_failed, Become, Finish, write_status, Present,
     clientVars
<1>worker_next. ASSUME NEW r \in Runs, worker_next(r)
      PROVE  CurrentKnown'
  BY <1>worker_next DEF worker_next, Become, Finish, write_status,
     StoppingPoints, Present, clientVars
<1>honor_cancellation. ASSUME NEW r \in Runs, honor_cancellation(r)
      PROVE  CurrentKnown'
  BY <1>honor_cancellation DEF honor_cancellation, Become, Finish,
     write_status, StoppingPoints, Present, clientVars
<1>worker_cancelled. ASSUME NEW r \in Runs, worker_cancelled(r)
      PROVE  CurrentKnown'
  BY <1>worker_cancelled DEF worker_cancelled, Become, Finish, write_status,
     Present, clientVars
<1>worker_exit_fallback. ASSUME NEW r \in Runs, worker_exit_fallback(r)
      PROVE  CurrentKnown'
  BY <1>worker_exit_fallback DEF worker_exit_fallback, Become, Finish,
     write_status, Present, clientVars
<1>worker_exit. ASSUME NEW r \in Runs, worker_exit(r)
      PROVE  CurrentKnown'
  BY <1>worker_exit DEF worker_exit, Become, Finish, write_status, Present,
     clientVars
<1>worker_killed. ASSUME NEW r \in Runs, worker_killed(r)
      PROVE  CurrentKnown'
  BY <1>worker_killed DEF worker_killed, Become, Finish, write_status,
     unit_active, Present, clientVars
<1>installer_lock. ASSUME installer_lock
      PROVE  CurrentKnown'
  BY <1>installer_lock DEF installer_lock, clientVars
<1>installer_unlock. ASSUME installer_unlock
      PROVE  CurrentKnown'
  BY <1>installer_unlock DEF installer_unlock, clientVars
<1>power_loss. ASSUME power_loss
      PROVE  CurrentKnown'
  BY <1>power_loss DEF power_loss, unit_active, clientVars
<1>stutter. CASE UNCHANGED vars
  BY <1>stutter DEF vars, clientVars
<1> QED
  BY <1>repair_stale_status_lock, <1>repair_stale_status_read,
     <1>repair_stale_status_preserve, <1>repair_stale_status_inspect,
     <1>repair_stale_status_write, <1>start_run_refuse, <1>start_run_decide,
     <1>start_run_publish, <1>start_run_current, <1>prune_logs,
     <1>start_run_launch, <1>start_run_launch_failed, <1>start_run_return,
     <1>cancel_run_intent, <1>cancel_run_unit, <1>cancel_run_stop,
     <1>cancel_run_verify, <1>cancel_run_reread, <1>cancel_run_write,
     <1>dismiss_run_write, <1>start_run_lock, <1>start_run_busy,
     <1>client_killed, <1>json_status, <1>cancel_run, <1>dismiss_run,
     <1>worker_trap, <1>worker_lock, <1>worker_check_intent,
     <1>worker_check_state, <1>worker_begin, <1>worker_failed, <1>worker_next,
     <1>honor_cancellation, <1>worker_cancelled, <1>worker_exit_fallback,
     <1>worker_exit, <1>worker_killed, <1>installer_lock, <1>installer_unlock,
     <1>power_loss, <1>stutter
  DEF Next, ClientStep, Invoke, WorkerStep, repair_stale_status, start_run,
     cancel_run_steps

(* Two active records are never two runs at work (start_run_decide).       *)
THEOREM OneActiveRun == Spec => []NoSecondActiveRun
<1>1. Init => CurrentKnown
  BY ConstantsAssumption DEF Init, CurrentKnown, StartKnown, NoSecondActiveRun, is_active,
     ActiveStates
<1>2. IInv /\ CurrentKnown /\ [Next]_vars => CurrentKnown'
  BY CurrentStep
<1>3. CurrentKnown => NoSecondActiveRun
  BY DEF CurrentKnown
<1> QED
  BY Invariance, <1>1, <1>2, <1>3, PTL DEF Spec

-----------------------------------------------------------------------------
(* A worker that knows of its cancellation before the last stopping point, *)
(* and what becomes of it.                                                 *)
Stopping(r) ==
    /\ status[r] \notin {"done", "absent"}
    /\ \/ worker[r] \in StoppingPoints /\ cancel_requested[r]
       \/ worker[r] \in {"cancelling", "restoring", "exiting", "gone"}

(* No step lets such a run go on to its end.                               *)
LEMMA StoppingStep ==
    ASSUME IInv, [Next]_vars, NEW q \in Runs, Stopping(q)
    PROVE  Stopping(q)'
<1> USE DEF IInv, TypeOK, LaunchOnce, TargetKnown, Stopping, StoppingPoints, Phases
<1>repair_stale_status_lock. ASSUME NEW c \in Clients, repair_stale_status_lock(c)
      PROVE  Stopping(q)'
  BY <1>repair_stale_status_lock DEF repair_stale_status_lock, At
<1>repair_stale_status_read. ASSUME NEW c \in Clients, repair_stale_status_read(c)
      PROVE  Stopping(q)'
  BY <1>repair_stale_status_read DEF repair_stale_status_read, At
<1>repair_stale_status_preserve. ASSUME NEW c \in Clients, repair_stale_status_preserve(c)
      PROVE  Stopping(q)'
  BY <1>repair_stale_status_preserve DEF repair_stale_status_preserve, At
<1>repair_stale_status_inspect. ASSUME NEW c \in Clients, repair_stale_status_inspect(c)
      PROVE  Stopping(q)'
  BY <1>repair_stale_status_inspect DEF repair_stale_status_inspect, At,
     unit_active
<1>repair_stale_status_write. ASSUME NEW c \in Clients, repair_stale_status_write(c)
      PROVE  Stopping(q)'
  BY <1>repair_stale_status_write DEF repair_stale_status_write, write_status,
     At, Present
<1>start_run_refuse. ASSUME NEW c \in Clients, start_run_refuse(c)
      PROVE  Stopping(q)'
  BY <1>start_run_refuse DEF start_run_refuse, At
<1>start_run_decide. ASSUME NEW c \in Clients, start_run_decide(c)
      PROVE  Stopping(q)'
  BY <1>start_run_decide DEF start_run_decide, At
<1>start_run_publish. ASSUME NEW c \in Clients, start_run_publish(c)
      PROVE  Stopping(q)'
  BY <1>start_run_publish DEF start_run_publish, At
<1>start_run_current. ASSUME NEW c \in Clients, start_run_current(c)
      PROVE  Stopping(q)'
  BY <1>start_run_current DEF start_run_current, At
<1>prune_logs. ASSUME NEW c \in Clients, prune_logs(c)
      PROVE  Stopping(q)'
  BY <1>prune_logs DEF prune_logs, At, Expired, Present
<1>start_run_launch. ASSUME NEW c \in Clients, start_run_launch(c)
      PROVE  Stopping(q)'
  BY <1>start_run_launch DEF start_run_launch, Become, At
<1>start_run_launch_failed. ASSUME NEW c \in Clients, start_run_launch_failed(c)
      PROVE  Stopping(q)'
  BY <1>start_run_launch_failed DEF start_run_launch_failed, Become,
     write_status, Present, At
<1>start_run_return. ASSUME NEW c \in Clients, start_run_return(c)
      PROVE  Stopping(q)'
  BY <1>start_run_return DEF start_run_return, At
<1>cancel_run_intent. ASSUME NEW c \in Clients, cancel_run_intent(c)
      PROVE  Stopping(q)'
  BY <1>cancel_run_intent DEF cancel_run_intent, Present, At
<1>cancel_run_unit. ASSUME NEW c \in Clients, cancel_run_unit(c)
      PROVE  Stopping(q)'
  BY <1>cancel_run_unit DEF cancel_run_unit, At, unit_active
<1>cancel_run_stop. ASSUME NEW c \in Clients, cancel_run_stop(c)
      PROVE  Stopping(q)'
  BY <1>cancel_run_stop DEF cancel_run_stop, Become, At, unit_active
<1>cancel_run_verify. ASSUME NEW c \in Clients, cancel_run_verify(c)
      PROVE  Stopping(q)'
  BY <1>cancel_run_verify DEF cancel_run_verify, At, unit_active
<1>cancel_run_reread. ASSUME NEW c \in Clients, cancel_run_reread(c)
      PROVE  Stopping(q)'
  BY <1>cancel_run_reread DEF cancel_run_reread, At
<1>cancel_run_write. ASSUME NEW c \in Clients, cancel_run_write(c)
      PROVE  Stopping(q)'
  BY <1>cancel_run_write DEF cancel_run_write, write_status, At, Present
<1>dismiss_run_write. ASSUME NEW c \in Clients, dismiss_run_write(c)
      PROVE  Stopping(q)'
  BY <1>dismiss_run_write DEF dismiss_run_write, write_status, At, Present
<1>start_run_lock. ASSUME NEW c \in Clients, start_run_lock(c)
      PROVE  Stopping(q)'
  BY <1>start_run_lock DEF start_run_lock, At
<1>start_run_busy. ASSUME NEW c \in Clients, start_run_busy(c)
      PROVE  Stopping(q)'
  BY <1>start_run_busy DEF start_run_busy, At
<1>client_killed. ASSUME NEW c \in Clients, client_killed(c)
      PROVE  Stopping(q)'
  BY <1>client_killed DEF client_killed, Become, At
<1>json_status. ASSUME NEW c \in Clients, NEW r \in Runs, json_status(c, r)
      PROVE  Stopping(q)'
  BY <1>json_status DEF json_status, Present
<1>cancel_run. ASSUME NEW c \in Clients, NEW r \in Runs, cancel_run(c, r)
      PROVE  Stopping(q)'
  BY <1>cancel_run DEF cancel_run, Present
<1>dismiss_run. ASSUME NEW c \in Clients, NEW r \in Runs, dismiss_run(c, r)
      PROVE  Stopping(q)'
  BY <1>dismiss_run DEF dismiss_run, Present
<1>worker_trap. ASSUME NEW r \in Runs, worker_trap(r)
      PROVE  Stopping(q)'
  BY <1>worker_trap DEF worker_trap, Become, Finish, write_status, Present
<1>worker_lock. ASSUME NEW r \in Runs, worker_lock(r)
      PROVE  Stopping(q)'
  BY <1>worker_lock DEF worker_lock, Become, Finish, write_status, Present
<1>worker_check_intent. ASSUME NEW r \in Runs, worker_check_intent(r)
      PROVE  Stopping(q)'
  BY <1>worker_check_intent DEF worker_check_intent, Become, Finish,
     write_status, Present
<1>worker_check_state. ASSUME NEW r \in Runs, worker_check_state(r)
      PROVE  Stopping(q)'
  BY <1>worker_check_state DEF worker_check_state, Become, Finish,
     write_status, Present
<1>worker_begin. ASSUME NEW r \in Runs, worker_begin(r)
      PROVE  Stopping(q)'
  BY <1>worker_begin DEF worker_begin, Become, Finish, write_status, Present
<1>worker_failed. ASSUME NEW r \in Runs, worker_failed(r)
      PROVE  Stopping(q)'
  BY <1>worker_failed DEF worker_failed, Become, Finish, write_status, Present
<1>worker_next. ASSUME NEW r \in Runs, worker_next(r)
      PROVE  Stopping(q)'
  BY <1>worker_next DEF worker_next, Become, Finish, write_status,
     StoppingPoints, Present
<1>honor_cancellation. ASSUME NEW r \in Runs, honor_cancellation(r)
      PROVE  Stopping(q)'
  BY <1>honor_cancellation DEF honor_cancellation, Become, Finish,
     write_status, StoppingPoints, Present
<1>worker_cancelled. ASSUME NEW r \in Runs, worker_cancelled(r)
      PROVE  Stopping(q)'
  BY <1>worker_cancelled DEF worker_cancelled, Become, Finish, write_status,
     Present
<1>worker_exit_fallback. ASSUME NEW r \in Runs, worker_exit_fallback(r)
      PROVE  Stopping(q)'
  BY <1>worker_exit_fallback DEF worker_exit_fallback, Become, Finish,
     write_status, Present
<1>worker_exit. ASSUME NEW r \in Runs, worker_exit(r)
      PROVE  Stopping(q)'
  BY <1>worker_exit DEF worker_exit, Become, Finish, write_status, Present
<1>worker_killed. ASSUME NEW r \in Runs, worker_killed(r)
      PROVE  Stopping(q)'
  BY <1>worker_killed DEF worker_killed, Become, Finish, write_status,
     unit_active, Present
<1>installer_lock. ASSUME installer_lock
      PROVE  Stopping(q)'
  BY <1>installer_lock DEF installer_lock
<1>installer_unlock. ASSUME installer_unlock
      PROVE  Stopping(q)'
  BY <1>installer_unlock DEF installer_unlock
<1>power_loss. ASSUME power_loss
      PROVE  Stopping(q)'
  BY <1>power_loss DEF power_loss, unit_active
<1>stutter. CASE UNCHANGED vars
  BY <1>stutter DEF vars, clientVars
<1> QED
  BY <1>repair_stale_status_lock, <1>repair_stale_status_read,
     <1>repair_stale_status_preserve, <1>repair_stale_status_inspect,
     <1>repair_stale_status_write, <1>start_run_refuse, <1>start_run_decide,
     <1>start_run_publish, <1>start_run_current, <1>prune_logs,
     <1>start_run_launch, <1>start_run_launch_failed, <1>start_run_return,
     <1>cancel_run_intent, <1>cancel_run_unit, <1>cancel_run_stop,
     <1>cancel_run_verify, <1>cancel_run_reread, <1>cancel_run_write,
     <1>dismiss_run_write, <1>start_run_lock, <1>start_run_busy,
     <1>client_killed, <1>json_status, <1>cancel_run, <1>dismiss_run,
     <1>worker_trap, <1>worker_lock, <1>worker_check_intent,
     <1>worker_check_state, <1>worker_begin, <1>worker_failed, <1>worker_next,
     <1>honor_cancellation, <1>worker_cancelled, <1>worker_exit_fallback,
     <1>worker_exit, <1>worker_killed, <1>installer_lock, <1>installer_unlock,
     <1>power_loss, <1>stutter
  DEF Next, ClientStep, Invoke, WorkerStep, repair_stale_status, start_run,
     cancel_run_steps

(* A cancellation that reached the worker before its last stopping point   *)
(* is not answered with a completed update (honor_cancellation).           *)
THEOREM CancelledIsNotDone == Spec => CancellationIsHonoured
<1> SUFFICES ASSUME NEW r \in Runs
             PROVE  Spec => [](cancel_requested[r] /\ worker[r] \in StoppingPoints
                               => [](status[r] # "done"))
  BY DEF CancellationIsHonoured
<1>1. IInv /\ cancel_requested[r] /\ worker[r] \in StoppingPoints => Stopping(r)
  BY DEF Stopping, StoppingPoints, IInv, WorkingIsActive, Working, WorkPhases, Phases,
     is_active, ActiveStates
<1>2. IInv /\ Stopping(r) /\ [Next]_vars => Stopping(r)'
  BY StoppingStep
<1>3. Stopping(r) => status[r] # "done"
  BY DEF Stopping
<1> QED
  BY Invariance, <1>1, <1>2, <1>3, PTL DEF Spec

-----------------------------------------------------------------------------
(* UpdateRun implements UpdateJob: the proof of ImplementsJob.             *)
(*                                                                         *)
(* The refinement mapping reads the life of a run off its record and its   *)
(* worker (JobOf).  Its cases exclude each other because work has an       *)
(* active record (IInv).  Most steps concern one run, whose life goes on   *)
(* by one transition (OneRun), or none (Quiet); pruning and a power loss   *)
(* end several lives at once.                                              *)

(* What the life of a run may do in a step in which nothing else happens.  *)
Lives(r) ==
    \/ JobOf(r)' = JobOf(r)
    \/ JobOf(r) = "absent" /\ JobOf(r)' = "pending"
    \/ JobOf(r) \in {"pending", "working", "lost"} /\ JobOf(r)' = "settled"
    \/ JobOf(r) \in {"pending", "working"} /\ JobOf(r)' = "lost"
    \/ /\ JobOf(r) = "pending" /\ JobOf(r)' = "working"
       /\ lock # Installer
       /\ \A q \in Runs : JobOf(q) # "working"

SameInstaller == (lock' = Installer) <=> (lock = Installer)

(* A step that concerns no run and no installation is invisible.           *)
LEMMA Invisible ==
    ASSUME \A q \in Runs : JobOf(q)' = JobOf(q), SameInstaller
    PROVE  [Job!JobNext]_(Job!jobVars)
<1>1. [r \in Runs |-> JobOf(r)]' = [r \in Runs |-> JobOf(r)]
  OBVIOUS
<1>2. (lock = Installer)' = (lock = Installer)
  BY DEF SameInstaller
<1> QED
  BY <1>1, <1>2 DEF Job!jobVars

(* A step in the life of one run is a step of UpdateJob.                   *)
LEMMA OneLife ==
    ASSUME NEW r \in Runs, Lives(r), SameInstaller,
           \A q \in Runs \ {r} : JobOf(q)' = JobOf(q)
    PROVE  [Job!JobNext]_(Job!jobVars)
<1> DEFINE job == [q \in Runs |-> JobOf(q)]
<1>1. (lock = Installer)' = (lock = Installer)
  BY DEF SameInstaller
<1>2. job' = [q \in Runs |-> IF q = r THEN JobOf(r)' ELSE job[q]]
  OBVIOUS
<1>3. CASE JobOf(r)' = JobOf(r)
  BY <1>3, Invisible
<1>4. CASE JobOf(r) = "absent" /\ JobOf(r)' = "pending"
  <2>1. job' = [job EXCEPT ![r] = "pending"]
    BY <1>2, <1>4
  <2>2. Job!Publish(r)
    BY <2>1, <1>1, <1>4 DEF Job!Publish
  <2> QED
    BY <2>2 DEF Job!JobNext
<1>5. CASE JobOf(r) \in {"pending", "working", "lost"} /\ JobOf(r)' = "settled"
  <2>1. job' = [q \in Runs |-> IF q \in {r} THEN "settled" ELSE job[q]]
    BY <1>2, <1>5
  <2>2. Job!Settle({r})
    BY <2>1, <1>1, <1>5 DEF Job!Settle
  <2> QED
    BY <2>2 DEF Job!JobNext
<1>6. CASE JobOf(r) \in {"pending", "working"} /\ JobOf(r)' = "lost"
  <2>1. job' = [q \in Runs |-> IF q \in {r} THEN "lost" ELSE job[q]]
    BY <1>2, <1>6
  <2>2. Job!Lose({r})
    BY <2>1, <1>1, <1>6 DEF Job!Lose
  <2> QED
    BY <2>2 DEF Job!JobNext
<1>7. CASE /\ JobOf(r) = "pending" /\ JobOf(r)' = "working"
           /\ lock # Installer
           /\ \A q \in Runs : JobOf(q) # "working"
  <2>1. job' = [job EXCEPT ![r] = "working"]
    BY <1>2, <1>7
  <2>2. Job!Begin(r)
    BY <2>1, <1>1, <1>7 DEF Job!Begin
  <2> QED
    BY <2>2 DEF Job!JobNext
<1> QED
  BY <1>3, <1>4, <1>5, <1>6, <1>7 DEF Lives

(* Control states of a worker that has not begun.                          *)
NotBegun == {"none", "boot", "lockwait", "intent", "state"}

(* The life of a run, read off its record and its worker.                  *)
LifeRead(r) ==
    /\ status[r] = "absent" => JobOf(r) = "absent"
    /\ status[r] \in TerminalStates \cup {"pruned"} => JobOf(r) = "settled"
    /\ is_active(status[r]) /\ Working(r) => JobOf(r) = "working"
    /\ is_active(status[r]) /\ worker[r] \in {"gone", "exiting"} => JobOf(r) = "lost"
    /\ is_active(status[r]) /\ worker[r] \in NotBegun => JobOf(r) = "pending"
    /\ JobOf(r) = "working" => Working(r)

(* The cases of JobOf exclude each other where work has an active record.  *)
LEMMA LifeNow ==
    ASSUME NEW r \in Runs, Working(r) => is_active(status[r])
    PROVE  LifeRead(r)
<1> USE DEF is_active, ActiveStates, TerminalStates, Working, WorkPhases, Phases,
     NotBegun
<1>1. status[r] = "absent" => JobOf(r) = "absent"
  BY DEF JobOf
<1>2. status[r] \in TerminalStates \cup {"pruned"} => JobOf(r) = "settled"
  BY DEF JobOf
<1>3. is_active(status[r]) /\ Working(r) => JobOf(r) = "working"
  BY DEF JobOf
<1>4. is_active(status[r]) /\ worker[r] \in {"gone", "exiting"}
        => JobOf(r) = "lost"
  BY DEF JobOf
<1>5. is_active(status[r]) /\ worker[r] \in NotBegun => JobOf(r) = "pending"
  BY DEF JobOf
<1>6. JobOf(r) = "working" => Working(r)
  BY DEF JobOf
<1> QED
  BY <1>1, <1>2, <1>3, <1>4, <1>5, <1>6 DEF LifeRead

(* The same after a step.                                                  *)
LEMMA LifeThen ==
    ASSUME NEW r \in Runs, Working(r)' => is_active(status'[r])
    PROVE  LifeRead(r)'
<1> USE DEF is_active, ActiveStates, TerminalStates, Working, WorkPhases, Phases,
     NotBegun
<1>1. status'[r] = "absent" => JobOf(r)' = "absent"
  BY DEF JobOf
<1>2. status'[r] \in TerminalStates \cup {"pruned"} => JobOf(r)' = "settled"
  BY DEF JobOf
<1>3. is_active(status'[r]) /\ Working(r)' => JobOf(r)' = "working"
  BY DEF JobOf
<1>4. is_active(status'[r]) /\ worker'[r] \in {"gone", "exiting"}
        => JobOf(r)' = "lost"
  BY DEF JobOf
<1>5. is_active(status'[r]) /\ worker'[r] \in NotBegun => JobOf(r)' = "pending"
  BY DEF JobOf
<1>6. JobOf(r)' = "working" => Working(r)'
  BY DEF JobOf
<1> QED
  BY <1>1, <1>2, <1>3, <1>4, <1>5, <1>6 DEF LifeRead

(* The life of a run whose record and worker are left alone.               *)
LEMMA SameLife ==
    ASSUME NEW q \in Runs, status'[q] = status[q], worker'[q] = worker[q]
    PROVE  JobOf(q)' = JobOf(q)
BY DEF JobOf, Working, is_active

(* A step that leaves every record and every worker alone is invisible.    *)
LEMMA Quiet ==
    ASSUME UNCHANGED <<status, worker>>, SameInstaller
    PROVE  [Job!JobNext]_(Job!jobVars)
BY SameLife, Invisible

(* A step about the record or the worker of one run.                       *)
LEMMA OneRun ==
    ASSUME NEW r \in Runs, Lives(r), SameInstaller,
           \A q \in Runs \ {r} : status'[q] = status[q] /\ worker'[q] = worker[q]
    PROVE  [Job!JobNext]_(Job!jobVars)
BY SameLife, OneLife

(* Every step is a step of UpdateJob or invisible to it.                   *)
LEMMA JobStep ==
    ASSUME IInv, [Next]_vars
    PROVE  [Job!JobNext]_(Job!jobVars)
<1> DEFINE Goal == [Job!JobNext]_(Job!jobVars)
<1> SUFFICES Goal
  OBVIOUS
<1> HIDE DEF Goal
<1>inv. IInv'
  BY InductiveStep
<1>now. \A r \in Runs : LifeRead(r)
  BY LifeNow DEF IInv, WorkingIsActive
<1>then. \A r \in Runs : LifeRead(r)'
  BY LifeThen, <1>inv DEF IInv, WorkingIsActive
<1>quiet. UNCHANGED <<status, worker>> /\ SameInstaller => Goal
  BY Quiet DEF Goal
<1>one. ASSUME NEW r \in Runs, Lives(r), SameInstaller,
               \A q \in Runs \ {r} : status'[q] = status[q] /\ worker'[q] = worker[q]
        PROVE  Goal
  BY OneRun, <1>one DEF Goal
<1>repair_stale_status_lock. ASSUME NEW c \in Clients, repair_stale_status_lock(c)
      PROVE  Goal
  <2>1. UNCHANGED <<status, worker>>
    BY <1>repair_stale_status_lock DEF repair_stale_status_lock
  <2>2. SameInstaller
    BY <1>repair_stale_status_lock, ConstantsAssumption
    DEF repair_stale_status_lock, SameInstaller, At, IInv, LockHeld, LockedPcs
  <2> QED
    BY <2>1, <2>2, <1>quiet
<1>repair_stale_status_read. ASSUME NEW c \in Clients, repair_stale_status_read(c)
      PROVE  Goal
  <2>1. UNCHANGED <<status, worker>>
    BY <1>repair_stale_status_read DEF repair_stale_status_read
  <2>2. SameInstaller
    BY <1>repair_stale_status_read, ConstantsAssumption
    DEF repair_stale_status_read, SameInstaller, RepairReturn, At, IInv,
      LockHeld, LockedPcs
  <2> QED
    BY <2>1, <2>2, <1>quiet
<1>repair_stale_status_preserve. ASSUME NEW c \in Clients, repair_stale_status_preserve(c)
      PROVE  Goal
  <2>1. UNCHANGED <<status, worker>>
    BY <1>repair_stale_status_preserve DEF repair_stale_status_preserve
  <2>2. SameInstaller
    BY <1>repair_stale_status_preserve, ConstantsAssumption
    DEF repair_stale_status_preserve, SameInstaller, RepairReturn, At, IInv,
      LockHeld, LockedPcs
  <2> QED
    BY <2>1, <2>2, <1>quiet
<1>repair_stale_status_inspect. ASSUME NEW c \in Clients, repair_stale_status_inspect(c)
      PROVE  Goal
  BY <1>repair_stale_status_inspect, <1>quiet
  DEF repair_stale_status_inspect, SameInstaller
<1>start_run_refuse. ASSUME NEW c \in Clients, start_run_refuse(c)
      PROVE  Goal
  BY <1>start_run_refuse, <1>quiet DEF start_run_refuse, SameInstaller
<1>start_run_decide. ASSUME NEW c \in Clients, start_run_decide(c)
      PROVE  Goal
  <2>1. UNCHANGED <<status, worker>>
    BY <1>start_run_decide DEF start_run_decide
  <2>2. SameInstaller
    BY <1>start_run_decide, ConstantsAssumption
    DEF start_run_decide, SameInstaller, At, IInv, LockHeld, LockedPcs
  <2> QED
    BY <2>1, <2>2, <1>quiet
<1>start_run_current. ASSUME NEW c \in Clients, start_run_current(c)
      PROVE  Goal
  BY <1>start_run_current, <1>quiet DEF start_run_current, SameInstaller
<1>start_run_return. ASSUME NEW c \in Clients, start_run_return(c)
      PROVE  Goal
  <2>1. UNCHANGED <<status, worker>>
    BY <1>start_run_return DEF start_run_return
  <2>2. SameInstaller
    BY <1>start_run_return, ConstantsAssumption
    DEF start_run_return, SameInstaller, At, IInv, LockHeld, LockedPcs
  <2> QED
    BY <2>1, <2>2, <1>quiet
<1>cancel_run_intent. ASSUME NEW c \in Clients, cancel_run_intent(c)
      PROVE  Goal
  BY <1>cancel_run_intent, <1>quiet DEF cancel_run_intent, SameInstaller
<1>cancel_run_unit. ASSUME NEW c \in Clients, cancel_run_unit(c)
      PROVE  Goal
  BY <1>cancel_run_unit, <1>quiet DEF cancel_run_unit, SameInstaller
<1>cancel_run_verify. ASSUME NEW c \in Clients, cancel_run_verify(c)
      PROVE  Goal
  BY <1>cancel_run_verify, <1>quiet DEF cancel_run_verify, SameInstaller
<1>cancel_run_reread. ASSUME NEW c \in Clients, cancel_run_reread(c)
      PROVE  Goal
  BY <1>cancel_run_reread, <1>quiet DEF cancel_run_reread, SameInstaller
<1>start_run_lock. ASSUME NEW c \in Clients, start_run_lock(c)
      PROVE  Goal
  <2>1. UNCHANGED <<status, worker>>
    BY <1>start_run_lock DEF start_run_lock
  <2>2. SameInstaller
    BY <1>start_run_lock, ConstantsAssumption
    DEF start_run_lock, SameInstaller, IInv, LockHeld, LockedPcs
  <2> QED
    BY <2>1, <2>2, <1>quiet
<1>start_run_busy. ASSUME NEW c \in Clients, start_run_busy(c)
      PROVE  Goal
  BY <1>start_run_busy, <1>quiet DEF start_run_busy, SameInstaller
<1>json_status. ASSUME NEW c \in Clients, NEW r \in Runs, json_status(c, r)
      PROVE  Goal
  BY <1>json_status, <1>quiet DEF json_status, SameInstaller
<1>cancel_run. ASSUME NEW c \in Clients, NEW r \in Runs, cancel_run(c, r)
      PROVE  Goal
  BY <1>cancel_run, <1>quiet DEF cancel_run, SameInstaller
<1>dismiss_run. ASSUME NEW c \in Clients, NEW r \in Runs, dismiss_run(c, r)
      PROVE  Goal
  BY <1>dismiss_run, <1>quiet DEF dismiss_run, SameInstaller
<1>repair_stale_status_write. ASSUME NEW c \in Clients, repair_stale_status_write(c)
      PROVE  Goal
  <2>r. PICK r \in Runs : r = target[c]
    BY <1>repair_stale_status_write
    DEF repair_stale_status_write, IInv, TargetKnown, At
  <2>1. \A q \in Runs \ {r} : status'[q] = status[q] /\ worker'[q] = worker[q]
    BY <2>r, <1>repair_stale_status_write
    DEF repair_stale_status_write, IInv, TypeOK, write_status
  <2>2. SameInstaller
    BY <2>r, <1>repair_stale_status_write, ConstantsAssumption
    DEF repair_stale_status_write, SameInstaller, RepairReturn, At, IInv,
      LockHeld, LockedPcs, HoldingStates, WorkPhases, Phases
  <2>3. Lives(r)
    BY <2>r, <1>repair_stale_status_write, <1>now, <1>then, ConstantsAssumption
    DEF LifeRead, NotBegun, repair_stale_status_write, Lives, IInv, TypeOK,
      States, write_status, Present, At, RepairSafe, LaunchOnce,
      WorkingIsActive, is_active, ActiveStates, TerminalStates, Working,
      WorkPhases, Phases, HoldingStates
  <2> QED
    BY <2>r, <1>one, <2>1, <2>2, <2>3
<1>start_run_launch. ASSUME NEW c \in Clients, start_run_launch(c)
      PROVE  Goal
  <2>r. PICK r \in Runs : r = target[c]
    BY <1>start_run_launch DEF start_run_launch, IInv, TargetKnown, At
  <2>1. \A q \in Runs \ {r} : status'[q] = status[q] /\ worker'[q] = worker[q]
    BY <2>r, <1>start_run_launch DEF start_run_launch, IInv, TypeOK
  <2>2. SameInstaller
    BY <1>start_run_launch DEF start_run_launch, SameInstaller
  <2>3. Lives(r)
    BY <2>r, <1>start_run_launch, <1>now, <1>then, ConstantsAssumption
    DEF LifeRead, NotBegun, start_run_launch, Lives, IInv, TypeOK, States, At,
      LaunchOnce, is_active, ActiveStates, TerminalStates, Working, WorkPhases,
      Phases, HoldingStates
  <2> QED
    BY <2>r, <1>one, <2>1, <2>2, <2>3
<1>start_run_launch_failed. ASSUME NEW c \in Clients, start_run_launch_failed(c)
      PROVE  Goal
  <2>r. PICK r \in Runs : r = target[c]
    BY <1>start_run_launch_failed
    DEF start_run_launch_failed, IInv, TargetKnown, At
  <2>1. \A q \in Runs \ {r} : status'[q] = status[q] /\ worker'[q] = worker[q]
    BY <2>r, <1>start_run_launch_failed
    DEF start_run_launch_failed, IInv, TypeOK, write_status
  <2>2. SameInstaller
    BY <1>start_run_launch_failed DEF start_run_launch_failed, SameInstaller
  <2>3. Lives(r)
    BY <2>r, <1>start_run_launch_failed, <1>now, <1>then, ConstantsAssumption
    DEF LifeRead, NotBegun, start_run_launch_failed, Lives, IInv, TypeOK,
      States, write_status, Present, At, LaunchOnce, is_active, ActiveStates,
      TerminalStates, Working, WorkPhases, Phases, HoldingStates
  <2> QED
    BY <2>r, <1>one, <2>1, <2>2, <2>3
<1>cancel_run_write. ASSUME NEW c \in Clients, cancel_run_write(c)
      PROVE  Goal
  <2>r. PICK r \in Runs : r = target[c]
    BY <1>cancel_run_write DEF cancel_run_write, IInv, TargetKnown, At
  <2>1. \A q \in Runs \ {r} : status'[q] = status[q] /\ worker'[q] = worker[q]
    BY <2>r, <1>cancel_run_write
    DEF cancel_run_write, IInv, TypeOK, write_status
  <2>2. SameInstaller
    BY <1>cancel_run_write DEF cancel_run_write, SameInstaller
  <2>3. Lives(r)
    BY <2>r, <1>cancel_run_write, <1>now, <1>then, ConstantsAssumption
    DEF LifeRead, NotBegun, cancel_run_write, Lives, IInv, TypeOK, States,
      write_status, Present, At, CancelSafe, LaunchOnce, is_active,
      ActiveStates, TerminalStates, Working, WorkPhases, Phases, HoldingStates
  <2> QED
    BY <2>r, <1>one, <2>1, <2>2, <2>3
<1>dismiss_run_write. ASSUME NEW c \in Clients, dismiss_run_write(c)
      PROVE  Goal
  <2>r. PICK r \in Runs : r = target[c]
    BY <1>dismiss_run_write DEF dismiss_run_write, IInv, TargetKnown, At
  <2>1. \A q \in Runs \ {r} : status'[q] = status[q] /\ worker'[q] = worker[q]
    BY <2>r, <1>dismiss_run_write
    DEF dismiss_run_write, IInv, TypeOK, write_status
  <2>2. SameInstaller
    BY <1>dismiss_run_write DEF dismiss_run_write, SameInstaller
  <2>3. Lives(r)
    BY <2>r, <1>dismiss_run_write, <1>now, <1>then, ConstantsAssumption
    DEF LifeRead, NotBegun, dismiss_run_write, Lives, IInv, TypeOK, States,
      write_status, Present, At, DismissSafe, is_active, ActiveStates,
      TerminalStates, Working, WorkPhases, Phases, HoldingStates
  <2> QED
    BY <2>r, <1>one, <2>1, <2>2, <2>3
<1>worker_trap. ASSUME NEW r \in Runs, worker_trap(r)
      PROVE  Goal
  <2>1. \A q \in Runs \ {r} : status'[q] = status[q] /\ worker'[q] = worker[q]
    BY <1>worker_trap DEF worker_trap, IInv, TypeOK, Become
  <2>2. SameInstaller
    BY <1>worker_trap DEF worker_trap, SameInstaller
  <2>3. Lives(r)
    BY <1>worker_trap, <1>now, <1>then, ConstantsAssumption
    DEF LifeRead, NotBegun, worker_trap, Lives, IInv, TypeOK, States, Become,
      LaunchOnce, WorkingIsActive, is_active, ActiveStates, TerminalStates,
      Working, WorkPhases, Phases, HoldingStates
  <2> QED
    BY <1>one, <2>1, <2>2, <2>3
<1>worker_lock. ASSUME NEW r \in Runs, worker_lock(r)
      PROVE  Goal
  <2>1. \A q \in Runs \ {r} : status'[q] = status[q] /\ worker'[q] = worker[q]
    BY <1>worker_lock DEF worker_lock, IInv, TypeOK, Become
  <2>2. SameInstaller
    BY <1>worker_lock, ConstantsAssumption
    DEF worker_lock, SameInstaller, IInv, LockHeld, LockedPcs, HoldingStates,
      WorkPhases, Phases
  <2>3. Lives(r)
    BY <1>worker_lock, <1>now, <1>then, ConstantsAssumption
    DEF LifeRead, NotBegun, worker_lock, Lives, IInv, TypeOK, States, Become,
      LaunchOnce, WorkingIsActive, is_active, ActiveStates, TerminalStates,
      Working, WorkPhases, Phases, HoldingStates
  <2> QED
    BY <1>one, <2>1, <2>2, <2>3
<1>worker_check_intent. ASSUME NEW r \in Runs, worker_check_intent(r)
      PROVE  Goal
  <2>1. \A q \in Runs \ {r} : status'[q] = status[q] /\ worker'[q] = worker[q]
    BY <1>worker_check_intent
    DEF worker_check_intent, IInv, TypeOK, write_status, Become, Finish
  <2>2. SameInstaller
    BY <1>worker_check_intent DEF worker_check_intent, SameInstaller
  <2>3. Lives(r)
    BY <1>worker_check_intent, <1>now, <1>then, ConstantsAssumption
    DEF LifeRead, NotBegun, worker_check_intent, Lives, IInv, TypeOK, States,
      write_status, Become, Finish, Present, LaunchOnce, WorkingIsActive,
      is_active, ActiveStates, TerminalStates, Working, WorkPhases, Phases,
      HoldingStates
  <2> QED
    BY <1>one, <2>1, <2>2, <2>3
<1>worker_check_state. ASSUME NEW r \in Runs, worker_check_state(r)
      PROVE  Goal
  <2>1. \A q \in Runs \ {r} : status'[q] = status[q] /\ worker'[q] = worker[q]
    BY <1>worker_check_state
    DEF worker_check_state, IInv, TypeOK, write_status, Become, Finish
  <2>2. SameInstaller
    BY <1>worker_check_state DEF worker_check_state, SameInstaller
  <2>3. Lives(r)
    BY <1>worker_check_state, <1>now, <1>then, ConstantsAssumption
    DEF LifeRead, NotBegun, worker_check_state, Lives, IInv, TypeOK, States,
      write_status, Become, Finish, Present, LaunchOnce, WorkingIsActive,
      LockHeld, is_active, ActiveStates, TerminalStates, Working, WorkPhases,
      Phases, HoldingStates
  <2> QED
    BY <1>one, <2>1, <2>2, <2>3
<1>worker_begin. ASSUME NEW r \in Runs, worker_begin(r)
      PROVE  Goal
  <2>1. \A q \in Runs \ {r} : status'[q] = status[q] /\ worker'[q] = worker[q]
    BY <1>worker_begin
    DEF worker_begin, IInv, TypeOK, write_status, Become, Finish
  <2>2. SameInstaller
    BY <1>worker_begin DEF worker_begin, SameInstaller
  <2>3. Lives(r)
    BY <1>worker_begin, <1>now, <1>then, ConstantsAssumption
    DEF LifeRead, NotBegun, worker_begin, Lives, IInv, TypeOK, States,
      write_status, Become, Finish, Present, LaunchOnce, WorkingIsActive,
      is_active, ActiveStates, TerminalStates, Working, WorkPhases, Phases,
      HoldingStates
  <2> QED
    BY <1>one, <2>1, <2>2, <2>3
<1>worker_failed. ASSUME NEW r \in Runs, worker_failed(r)
      PROVE  Goal
  <2>1. \A q \in Runs \ {r} : status'[q] = status[q] /\ worker'[q] = worker[q]
    BY <1>worker_failed
    DEF worker_failed, IInv, TypeOK, write_status, Become, Finish
  <2>2. SameInstaller
    BY <1>worker_failed DEF worker_failed, SameInstaller
  <2>3. Lives(r)
    BY <1>worker_failed, <1>now, <1>then, ConstantsAssumption
    DEF LifeRead, NotBegun, worker_failed, Lives, IInv, TypeOK, States,
      write_status, Become, Finish, Present, LaunchOnce, WorkingIsActive,
      CanFail, is_active, ActiveStates, TerminalStates, Working, WorkPhases,
      Phases, HoldingStates
  <2> QED
    BY <1>one, <2>1, <2>2, <2>3
<1>worker_next. ASSUME NEW r \in Runs, worker_next(r)
      PROVE  Goal
  <2>1. \A q \in Runs \ {r} : status'[q] = status[q] /\ worker'[q] = worker[q]
    BY <1>worker_next
    DEF worker_next, IInv, TypeOK, write_status, Become, Finish
  <2>2. SameInstaller
    BY <1>worker_next DEF worker_next, SameInstaller
  <2>3. Lives(r)
    BY <1>worker_next, <1>now, <1>then, ConstantsAssumption
    DEF LifeRead, NotBegun, worker_next, Lives, IInv, TypeOK, States,
      write_status, Become, Finish, Present, LaunchOnce, WorkingIsActive,
      NextPhase, FullPhase, AfterPackages, is_active, ActiveStates,
      TerminalStates, Working, WorkPhases, Phases, HoldingStates
  <2> QED
    BY <1>one, <2>1, <2>2, <2>3
<1>honor_cancellation. ASSUME NEW r \in Runs, honor_cancellation(r)
      PROVE  Goal
  <2>1. \A q \in Runs \ {r} : status'[q] = status[q] /\ worker'[q] = worker[q]
    BY <1>honor_cancellation
    DEF honor_cancellation, IInv, TypeOK, write_status, Become, Finish
  <2>2. SameInstaller
    BY <1>honor_cancellation DEF honor_cancellation, SameInstaller
  <2>3. Lives(r)
    BY <1>honor_cancellation, <1>now, <1>then, ConstantsAssumption
    DEF LifeRead, NotBegun, honor_cancellation, Lives, IInv, TypeOK, States,
      write_status, Become, Finish, Present, LaunchOnce, WorkingIsActive,
      StoppingPoints, is_active, ActiveStates, TerminalStates, Working,
      WorkPhases, Phases, HoldingStates
  <2> QED
    BY <1>one, <2>1, <2>2, <2>3
<1>worker_cancelled. ASSUME NEW r \in Runs, worker_cancelled(r)
      PROVE  Goal
  <2>1. \A q \in Runs \ {r} : status'[q] = status[q] /\ worker'[q] = worker[q]
    BY <1>worker_cancelled
    DEF worker_cancelled, IInv, TypeOK, write_status, Become, Finish
  <2>2. SameInstaller
    BY <1>worker_cancelled DEF worker_cancelled, SameInstaller
  <2>3. Lives(r)
    BY <1>worker_cancelled, <1>now, <1>then, ConstantsAssumption
    DEF LifeRead, NotBegun, worker_cancelled, Lives, IInv, TypeOK, States,
      write_status, Become, Finish, Present, LaunchOnce, WorkingIsActive,
      is_active, ActiveStates, TerminalStates, Working, WorkPhases, Phases,
      HoldingStates
  <2> QED
    BY <1>one, <2>1, <2>2, <2>3
<1>worker_exit_fallback. ASSUME NEW r \in Runs, worker_exit_fallback(r)
      PROVE  Goal
  <2>1. \A q \in Runs \ {r} : status'[q] = status[q] /\ worker'[q] = worker[q]
    BY <1>worker_exit_fallback
    DEF worker_exit_fallback, IInv, TypeOK, write_status, Become
  <2>2. SameInstaller
    BY <1>worker_exit_fallback DEF worker_exit_fallback, SameInstaller
  <2>3. Lives(r)
    BY <1>worker_exit_fallback, <1>now, <1>then, ConstantsAssumption
    DEF LifeRead, NotBegun, worker_exit_fallback, Lives, IInv, TypeOK, States,
      write_status, Become, Present, LaunchOnce, WorkingIsActive, is_active,
      ActiveStates, TerminalStates, Working, WorkPhases, Phases, HoldingStates
  <2> QED
    BY <1>one, <2>1, <2>2, <2>3
<1>worker_exit. ASSUME NEW r \in Runs, worker_exit(r)
      PROVE  Goal
  <2>1. \A q \in Runs \ {r} : status'[q] = status[q] /\ worker'[q] = worker[q]
    BY <1>worker_exit DEF worker_exit, IInv, TypeOK, Become
  <2>2. SameInstaller
    BY <1>worker_exit, ConstantsAssumption
    DEF worker_exit, SameInstaller, IInv, LockHeld, LockedPcs, HoldingStates,
      WorkPhases, Phases
  <2>3. Lives(r)
    BY <1>worker_exit, <1>now, <1>then, ConstantsAssumption
    DEF LifeRead, NotBegun, worker_exit, Lives, IInv, TypeOK, States, Become,
      LaunchOnce, WorkingIsActive, is_active, ActiveStates, TerminalStates,
      Working, WorkPhases, Phases, HoldingStates
  <2> QED
    BY <1>one, <2>1, <2>2, <2>3
<1>worker_killed. ASSUME NEW r \in Runs, worker_killed(r)
      PROVE  Goal
  <2>1. \A q \in Runs \ {r} : status'[q] = status[q] /\ worker'[q] = worker[q]
    BY <1>worker_killed DEF worker_killed, IInv, TypeOK, Become
  <2>2. SameInstaller
    BY <1>worker_killed, ConstantsAssumption
    DEF worker_killed, SameInstaller, IInv, LockHeld, LockedPcs, HoldingStates,
      WorkPhases, Phases
  <2>3. Lives(r)
    BY <1>worker_killed, <1>now, <1>then, ConstantsAssumption
    DEF LifeRead, NotBegun, worker_killed, Lives, IInv, TypeOK, States, Become,
      LaunchOnce, WorkingIsActive, unit_active, WorkerStates, is_active,
      ActiveStates, TerminalStates, Working, WorkPhases, Phases, HoldingStates
  <2> QED
    BY <1>one, <2>1, <2>2, <2>3
<1>cancel_run_stop. ASSUME NEW c \in Clients, cancel_run_stop(c)
      PROVE  Goal
  <2>1. status' = status /\ lock' = lock
    BY <1>cancel_run_stop DEF cancel_run_stop
  <2>2. CASE worker' = worker
    BY <2>1, <2>2, <1>quiet DEF SameInstaller
  <2>3. CASE worker[target[c]] = "boot" /\ worker' = [worker EXCEPT ![target[c]] = "gone"]
    <3>1. PICK r \in Runs : r = target[c] /\ worker[r] = "boot"
      BY <1>cancel_run_stop, <2>3 DEF cancel_run_stop, IInv, TargetKnown, At
    <3>2. worker'[r] = "gone" /\ \A q \in Runs \ {r} : worker'[q] = worker[q]
      BY <2>3, <3>1 DEF IInv, TypeOK
    <3>3. Lives(r)
      BY <2>1, <3>1, <3>2, <1>now, <1>then
      DEF LifeRead, NotBegun, Lives, IInv, TypeOK, States, is_active
    <3> QED
      BY <2>1, <3>1, <3>2, <3>3, <1>one DEF SameInstaller
  <2> QED
    BY <1>cancel_run_stop, <2>2, <2>3 DEF cancel_run_stop
<1>installer_unlock. ASSUME installer_unlock
      PROVE  Goal
  <2>1. \A q \in Runs : JobOf(q)' = JobOf(q)
    BY <1>installer_unlock, SameLife DEF installer_unlock
  <2>2. [q \in Runs |-> JobOf(q)]' = [q \in Runs |-> JobOf(q)]
    BY <2>1
  <2>3. Job!Installed
    BY <1>installer_unlock, <2>2, ConstantsAssumption
    DEF installer_unlock, Job!Installed
  <2> QED
    BY <2>3 DEF Job!JobNext, Goal
<1>installer_lock. ASSUME installer_lock
      PROVE  Goal
  <2>1. \A q \in Runs : JobOf(q)' = JobOf(q)
    BY <1>installer_lock, SameLife DEF installer_lock
  <2>2. [q \in Runs |-> JobOf(q)]' = [q \in Runs |-> JobOf(q)]
    BY <2>1
  <2>3. \A q \in Runs : ~ Working(q)
    BY <1>installer_lock, ConstantsAssumption
    DEF installer_lock, IInv, LockHeld, HoldingStates, Working
  <2>4. \A q \in Runs : JobOf(q) # "working"
    BY <2>3, <1>now DEF LifeRead
  <2>5. lock # Installer /\ lock' = Installer
    BY <1>installer_lock, ConstantsAssumption DEF installer_lock
  <2>6. Job!Install
    BY <2>2, <2>4, <2>5 DEF Job!Install
  <2> QED
    BY <2>6 DEF Job!JobNext, Goal
<1>start_run_publish. ASSUME NEW c \in Clients, start_run_publish(c)
      PROVE  Goal
  <2>1. PICK r \in Runs : status[r] = "absent" /\ status' = [status EXCEPT ![r] = "queued"]
    BY <1>start_run_publish DEF start_run_publish
  <2>2. worker' = worker /\ lock' = lock /\ worker[r] = "none"
    BY <1>start_run_publish, <2>1 DEF start_run_publish, IInv, LaunchOnce
  <2>3. status' \in [Runs -> States] /\ status'[r] = "queued"
    BY <2>1 DEF IInv, TypeOK, States, ActiveStates
  <2>4. Lives(r)
    BY <2>1, <2>2, <2>3, <1>now, <1>then
    DEF LifeRead, NotBegun, Lives, is_active, ActiveStates
  <2>5. \A q \in Runs \ {r} : status'[q] = status[q] /\ worker'[q] = worker[q]
    BY <2>1, <2>2 DEF IInv, TypeOK
  <2> QED
    BY <1>one, <2>2, <2>4, <2>5 DEF SameInstaller
<1>client_killed. ASSUME NEW c \in Clients, client_killed(c)
      PROVE  Goal
  <2>1. status' = status /\ SameInstaller
    BY <1>client_killed, ConstantsAssumption DEF client_killed, SameInstaller
  <2>2. CASE worker' = worker
    BY <2>1, <2>2, <1>quiet
  <2>3. CASE At(c, "launch") /\ Become(target[c], "boot")
    <3>1. PICK r \in Runs : r = target[c] /\ worker[r] = "none"
      BY <2>3 DEF At, IInv, TargetKnown, LaunchOnce
    <3>2. worker'[r] = "boot" /\ \A q \in Runs \ {r} : worker'[q] = worker[q]
      BY <2>3, <3>1 DEF Become, IInv, TypeOK
    <3>3. Lives(r)
      BY <2>1, <3>1, <3>2, <1>now, <1>then
      DEF LifeRead, NotBegun, Lives, IInv, TypeOK, States, is_active
    <3> QED
      BY <2>1, <3>1, <3>2, <3>3, <1>one
  <2> QED
    BY <1>client_killed, <2>2, <2>3 DEF client_killed
<1>prune_logs. ASSUME NEW c \in Clients, prune_logs(c)
      PROVE  Goal
  <2> DEFINE S == {q \in Expired(target[c]) : JobOf(q) # "settled"}
  <2>1. \A q \in Expired(target[c]) : q \in Runs /\ Present(q)
    BY DEF Expired
  <2>2. \A q \in Runs : status'[q] = IF q \in Expired(target[c]) THEN "pruned" ELSE status[q]
    BY <1>prune_logs DEF prune_logs
  <2>3. \A q \in Expired(target[c]) : JobOf(q)' = "settled"
    BY <2>1, <2>2, <1>then DEF LifeRead
  <2>4. \A q \in Runs \ Expired(target[c]) : JobOf(q)' = JobOf(q)
    BY <2>2, <1>prune_logs, SameLife DEF prune_logs
  <2>5. \A q \in Expired(target[c]) : JobOf(q) \in {"pending", "working", "lost", "settled"}
    BY <2>1, <1>now
    DEF LifeRead, NotBegun, IInv, TypeOK, States, is_active, Present, Working,
      WorkerStates, HoldingStates
  <2>6. [q \in Runs |-> JobOf(q)]'
          = [q \in Runs |-> IF q \in S THEN "settled" ELSE [p \in Runs |-> JobOf(p)][q]]
    BY <2>1, <2>3, <2>4
  <2>7. S \in SUBSET Runs
    BY <2>1
  <2>8. \A q \in S : [p \in Runs |-> JobOf(p)][q] \in {"pending", "working", "lost"}
    BY <2>5, <2>1
  <2>9. (lock = Installer)' = (lock = Installer)
    BY <1>prune_logs DEF prune_logs
  <2> HIDE DEF S
  <2>10. Job!Settle(S)
    BY <2>6, <2>8, <2>9 DEF Job!Settle
  <2> QED
    BY <2>7, <2>10 DEF Job!JobNext, Goal
<1>power_loss. ASSUME power_loss
      PROVE  Goal
  <2> DEFINE S == {q \in Runs : unit_active(q) /\ JobOf(q) \in {"pending", "working"}}
  <2>1. \A q \in Runs : /\ status'[q] = status[q]
                        /\ worker'[q] = IF unit_active(q) THEN "gone" ELSE worker[q]
    BY <1>power_loss DEF power_loss
  <2>2. \A q \in S : JobOf(q)' = "lost"
    <3> SUFFICES ASSUME NEW q \in S PROVE JobOf(q)' = "lost"
      OBVIOUS
    <3>1. is_active(status[q])
      BY <1>now DEF LifeRead, NotBegun, IInv, TypeOK, States, is_active
    <3> QED
      BY <2>1, <3>1, <1>then DEF LifeRead
  <2>3. \A q \in Runs \ S : JobOf(q)' = JobOf(q)
    <3> SUFFICES ASSUME NEW q \in Runs, q \notin S PROVE JobOf(q)' = JobOf(q)
      OBVIOUS
    <3>1. CASE ~ unit_active(q)
      BY <2>1, <3>1, SameLife
    <3>2. CASE ~ is_active(status[q])
      BY <2>1, <3>2, <1>now, <1>then
      DEF LifeRead, NotBegun, IInv, TypeOK, States, is_active
    <3>3. CASE unit_active(q) /\ is_active(status[q])
      <4>1. worker[q] = "exiting"
        BY <3>3, <1>now
        DEF LifeRead, NotBegun, unit_active, IInv, TypeOK, WorkerStates,
          HoldingStates, Working
      <4> QED
        BY <4>1, <3>3, <2>1, <1>now, <1>then DEF LifeRead
    <3> QED
      BY <3>1, <3>2, <3>3
  <2>4. [q \in Runs |-> JobOf(q)]'
          = [q \in Runs |-> IF q \in S THEN "lost" ELSE [p \in Runs |-> JobOf(p)][q]]
    BY <2>2, <2>3
  <2>5. \A q \in S : [p \in Runs |-> JobOf(p)][q] \in {"pending", "working"}
    OBVIOUS
  <2>6. (lock = Installer)' = FALSE
    BY <1>power_loss, ConstantsAssumption DEF power_loss
  <2>7. S \in SUBSET Runs
    OBVIOUS
  <2> HIDE DEF S
  <2>8. Job!Lose(S)
    BY <2>4, <2>5, <2>6 DEF Job!Lose
  <2> QED
    BY <2>7, <2>8 DEF Job!JobNext, Goal
<1>stutter. CASE UNCHANGED vars
  BY <1>stutter, <1>quiet DEF vars, SameInstaller
<1> QED
  BY <1>repair_stale_status_lock, <1>repair_stale_status_read,
     <1>repair_stale_status_preserve, <1>repair_stale_status_inspect,
     <1>repair_stale_status_write, <1>start_run_refuse, <1>start_run_decide,
     <1>start_run_publish, <1>start_run_current, <1>prune_logs,
     <1>start_run_launch, <1>start_run_launch_failed, <1>start_run_return,
     <1>cancel_run_intent, <1>cancel_run_unit, <1>cancel_run_stop,
     <1>cancel_run_verify, <1>cancel_run_reread, <1>cancel_run_write,
     <1>dismiss_run_write, <1>start_run_lock, <1>start_run_busy,
     <1>client_killed, <1>json_status, <1>cancel_run, <1>dismiss_run,
     <1>worker_trap, <1>worker_lock, <1>worker_check_intent,
     <1>worker_check_state, <1>worker_begin, <1>worker_failed, <1>worker_next,
     <1>honor_cancellation, <1>worker_cancelled, <1>worker_exit_fallback,
     <1>worker_exit, <1>worker_killed, <1>installer_lock, <1>installer_unlock,
     <1>power_loss, <1>stutter
  DEF Next, ClientStep, Invoke, WorkerStep, repair_stale_status, start_run,
     cancel_run_steps

(* The updater implements UpdateJob: clients without the lock, late        *)
(* workers, repairs and prunes only ever move the life of a run forward.   *)
THEOREM RefinesJob == Spec => ImplementsJob
<1>1. Init => Job!JobInit
  <2>1. ASSUME Init PROVE \A r \in Runs : JobOf(r) = "absent"
    <3>1. IInv
      BY <2>1, InitIInv
    <3> QED
      BY <2>1, <3>1, LifeNow
      DEF LifeRead, NotBegun, Init, IInv, WorkingIsActive
  <2> QED
    BY <2>1, ConstantsAssumption DEF Init, Job!JobInit
<1>2. IInv /\ [Next]_vars => [Job!JobNext]_(Job!jobVars)
  BY JobStep
<1> QED
  BY Invariance, <1>1, <1>2, PTL DEF Spec, ImplementsJob, Job!JobSpec

=============================================================================
