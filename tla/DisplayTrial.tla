---------------------------- MODULE DisplayTrial ----------------------------
(***************************************************************************)
(* The display trial of display-settings.py: apply shows a candidate with  *)
(* a systemd timer armed to restore the saved rules, confirm saves it,     *)
(* rollback and the timer's expire undo it.  Every operation is a process  *)
(* of its own that takes TrialLock; a step is one file, one systemctl or   *)
(* one hyprctl call, and a process may be killed between any two.          *)
(*                                                                         *)
(* The settings page (Common/DisplaySettings.qml) has one request under    *)
(* way at a time.  The candidate of a trial is named by its token.         *)
(***************************************************************************)
EXTENDS Naturals

CONSTANTS
    Helpers,    \* processes the page starts
    None,       \* no process, no file
    MaxToken,   \* bound: trials
    MaxFault    \* bound: kills, hanging or failing calls, shell restarts, suspends,
                \* and changes to displays.json by somebody else

Tokens == 1 .. MaxToken
Edited == MaxToken + 1           \* the rules somebody else wrote
Docs == 0 .. MaxToken + 1        \* 0: the rules saved at the start
Procs == Helpers \cup Tokens     \* a token names the timer's process, too

Trial == [token : Tokens, age : {"fresh", "late", "stale"}, base : Docs]

ASSUME ConstantsAssumption ==
    /\ MaxToken \in Nat /\ MaxFault \in Nat
    /\ Helpers \cap Nat = {} /\ None \notin Helpers /\ None \notin Nat /\ None \notin Trial

VARIABLES
    saved,     \* displays.json
    shown,     \* the rules Hyprland runs
    trial,     \* displays-trial.json
    state,     \* displays-trial-state.json
    armed,     \* the tokens whose timer runs
    lock,      \* displays-trial.lock
    proc,      \* the processes
    next,      \* the token of the next trial
    preview,   \* page: the trial to keep or revert, 0 without one
    base,      \* page: the saved rules it has read
    busy,      \* page: its process
    kept,      \* history: the trials confirmed
    unseen,    \* history: the trials that a fault in their apply, or a reload
               \* from elsewhere, kept off the screen
    failed,    \* history: the trials whose end was hit by a fault, or whose
               \* seconds passed while the session slept
    faults

files == <<saved, trial, state>>
page == <<preview, base, busy>>
vars == <<saved, shown, trial, state, armed, lock, proc, next, preview, base, busy,
          kept, unseen, failed, faults>>

Idle == [pc |-> "idle", op |-> "none", token |-> 0, base |-> 0, then |-> "none"]

Init ==
    /\ saved = 0 /\ shown = 0 /\ trial = None /\ state = None
    /\ armed = {} /\ lock = None /\ proc = [p \in Procs |-> Idle] /\ next = 1
    /\ preview = 0 /\ base = 0 /\ busy = None
    /\ kept = {} /\ unseen = {} /\ failed = {} /\ faults = 0

At(p, pc) == proc[p].pc = pc
Go(p, pc) == proc' = [proc EXCEPT ![p].pc = pc]

Fault == faults < MaxFault /\ faults' = faults + 1

(* Mutant: a request that fails leaves TrialLock held *)
End_LockKept(p, ok) ==
    /\ proc' = [proc EXCEPT ![p] = Idle]
    /\ lock' = IF lock = p /\ ok THEN None ELSE lock
    /\ busy' = IF busy = p THEN None ELSE busy
    /\ preview' = CASE busy # p -> preview
                    [] proc[p].op # "apply" -> 0
                    [] ok -> proc[p].token
                    [] OTHER -> preview
    /\ UNCHANGED base

(* The process ends and the lock is free; the page learns the checkpoint   *)
(* of an apply that succeeded, and a confirm or rollback ends its preview. *)
End(p, ok) ==
    /\ proc' = [proc EXCEPT ![p] = Idle]
    /\ lock' = IF lock = p THEN None ELSE lock
    /\ busy' = IF busy = p THEN None ELSE busy
    /\ preview' = CASE busy # p -> preview
                    [] proc[p].op # "apply" -> 0
                    [] ok -> proc[p].token
                    [] OTHER -> preview
    /\ UNCHANGED base

Ending == {"disarm", "check", "save", "clear", "unlink", "reload"}

(* A fault hits an apply, or a process that ends its trial; the timer's    *)
(* process is there for nothing else.                                      *)
Hit(p) ==
    LET t == proc[p].token
    IN /\ Fault
       /\ unseen' = IF proc[p].op = "apply" THEN unseen \cup {t} ELSE unseen
       /\ failed' = IF proc[p].pc \in Ending \/ p \in Tokens THEN failed \cup {t} ELSE failed
NoFault == UNCHANGED <<unseen, failed, faults>>
Goes(p, pc) == Go(p, pc) /\ UNCHANGED <<lock, page>>

-----------------------------------------------------------------------------
(* The settings page and the world. *)

Ask(op, t) ==
    /\ busy = None
    /\ \E p \in Helpers :
         /\ proc[p] = Idle
         /\ proc' = [proc EXCEPT ![p] = [Idle EXCEPT !.pc = "lock", !.op = op,
                                                     !.token = t, !.base = base]]
         /\ busy' = p
    /\ UNCHANGED <<files, shown, armed, lock, preview, base, kept, unseen, failed, faults>>

(* A new trial; its token is random, and drawn here already.               *)
Apply == preview = 0 /\ next <= MaxToken /\ Ask("apply", next) /\ next' = next + 1

(* Keep changes; and Revert now, the countdown or closing the page.        *)
Keep == preview # 0 /\ Ask("confirm", preview) /\ UNCHANGED next
Revert == preview # 0 /\ Ask("rollback", preview) /\ UNCHANGED next

(* snapshot: the page reads the saved rules and learns of a trial that     *)
(* began before it did, or of one that has ended.                          *)
snapshot ==
    /\ busy = None
    /\ base' = saved
    /\ preview' = IF state = None THEN 0 ELSE IF preview = 0 THEN state.token ELSE preview
    /\ UNCHANGED <<files, shown, armed, lock, proc, next, busy, kept, unseen, failed, faults>>

(* The shell restarts: its process goes on, its page is empty.             *)
ShellRestart ==
    /\ Fault
    /\ preview' = 0 /\ busy' = None /\ base' = saved
    /\ UNCHANGED <<files, shown, armed, lock, proc, next, kept, unseen, failed>>

(* Somebody else writes displays.json.                                     *)
Edit ==
    /\ Fault /\ saved # Edited
    /\ saved' = Edited
    /\ UNCHANGED <<shown, trial, state, armed, lock, proc, next, page, kept, unseen, failed>>

(* Time passes for the trial on disk: after TRIAL_SECONDS and              *)
(* CONFIRM_GRACE_SECONDS it is late, WATCHDOG_SECONDS after it expired it  *)
(* is stale, by when its timer has fired and the processes at work on it   *)
(* are through: their calls' timeouts are shorter than that.               *)
Tick ==
    /\ state # None
    /\ \/ state.age = "fresh" /\ state' = [state EXCEPT !.age = "late"]
       \/ /\ state.age = "late" /\ state.token \notin armed
          /\ \A p \in Procs : proc[p].token # state.token
          /\ state' = [state EXCEPT !.age = "stale"]
    /\ UNCHANGED <<saved, shown, trial, armed, lock, proc, next, page, kept, unseen, failed, faults>>

(* The session sleeps, or the clock is set: the wall clock that dates the  *)
(* trial has passed it, the monotonic one of its timer has not.            *)
Sleep ==
    /\ Fault /\ state # None /\ state.age # "stale"
    /\ state' = [state EXCEPT !.age = "stale"]
    /\ failed' = failed \cup {state.token}
    /\ UNCHANGED <<saved, shown, trial, armed, lock, proc, next, page, kept, unseen>>

(* A full hyprctl reload, by the user or another program, rebuilds every   *)
(* rule from the saved file and so drops a trial from the screen.          *)
Reload ==
    /\ shown # saved
    /\ shown' = saved
    /\ unseen' = IF shown \in Tokens THEN unseen \cup {shown} ELSE unseen
    /\ UNCHANGED <<files, armed, lock, proc, next, page, kept, failed, faults>>

(* The timer starts expire, not before a keep would be refused as late.    *)
Fire(t) ==
    /\ t \in armed /\ armed' = armed \ {t}
    /\ (state # None /\ state.token = t) => state.age # "fresh"
    /\ proc' = [proc EXCEPT ![t] = [Idle EXCEPT !.pc = "lock", !.op = "expire", !.token = t]]
    /\ UNCHANGED <<files, shown, lock, next, page, kept, unseen, failed, faults>>

(* A process is killed: by the page's timer, with the session, for memory. *)
Kill(p) ==
    /\ ~At(p, "idle") /\ Hit(p)
    /\ End(p, FALSE)
    /\ UNCHANGED <<files, shown, armed, next, kept>>

-----------------------------------------------------------------------------
(* The operations. *)

TrialLock(p) == At(p, "lock") /\ lock = None
Finds(p) == state # None /\ state.token = proc[p].token

(* apply wants no trial on disk, or a stale one, which it clears.          *)
EnterApply(p) ==
    /\ proc[p].op = "apply"
    /\ \/ state # None /\ state.age # "stale" /\ End(p, FALSE)
       \/ state = None /\ Go(p, "base") /\ lock' = p /\ UNCHANGED page
       \/ /\ state # None /\ state.age = "stale"
          /\ proc' = [proc EXCEPT ![p].pc = "clear", ![p].then = "base"]
          /\ lock' = p /\ UNCHANGED page

(* confirm wants its own trial.                                            *)
EnterConfirm(p) ==
    /\ proc[p].op = "confirm"
    /\ IF Finds(p) THEN Go(p, "disarm") /\ lock' = p /\ UNCHANGED page ELSE End(p, FALSE)

(* So does rollback: it is done without one, and refuses another one.      *)
EnterRollback(p) ==
    /\ proc[p].op = "rollback"
    /\ IF Finds(p) THEN Go(p, "disarm") /\ lock' = p /\ UNCHANGED page ELSE End(p, FALSE)

(* So does expire, whose timer has fired.                                  *)
EnterExpire(p) ==
    /\ proc[p].op = "expire"
    /\ IF Finds(p)
       THEN /\ proc' = [proc EXCEPT ![p].pc = "clear", ![p].then = "reload"]
            /\ lock' = p /\ UNCHANGED page
       ELSE End(p, FALSE)

(* The lock is taken and the trial on disk is read.                        *)
Enter(p) ==
    /\ TrialLock(p)
    /\ EnterApply(p) \/ EnterConfirm(p) \/ EnterRollback(p) \/ EnterExpire(p)
    /\ UNCHANGED <<files, shown, armed, next, kept, unseen, failed, faults>>

(* apply: the saved rules are still the ones the page has read.            *)
Base(p) ==
    /\ At(p, "base")
    /\ IF proc[p].base = saved THEN Goes(p, "candidate") ELSE End(p, FALSE)
    /\ UNCHANGED <<files, shown, armed, next, kept, unseen, failed, faults>>

(* apply: the candidate, then the state naming it, are written.            *)
WriteCandidate(p) ==
    /\ At(p, "candidate")
    /\ trial' = proc[p].token /\ Goes(p, "state")
    /\ UNCHANGED <<saved, state, shown, armed, next, kept, unseen, failed, faults>>

(* Mutant: the candidate is shown without arming the timer *)
WriteState_Unarmed(p) ==
    /\ At(p, "state")
    /\ state' = [token |-> proc[p].token, age |-> "fresh", base |-> proc[p].base]
    /\ Goes(p, "eval")
    /\ UNCHANGED <<saved, trial, shown, armed, next, kept, unseen, failed, faults>>

WriteState(p) ==
    /\ At(p, "state")
    /\ state' = [token |-> proc[p].token, age |-> "fresh", base |-> proc[p].base]
    /\ Goes(p, "arm")
    /\ UNCHANGED <<saved, trial, shown, armed, next, kept, unseen, failed, faults>>

(* arm_watchdog: the timer runs; or cannot be had and the trial is taken   *)
(* back; or systemd-run hangs and the request ends with what is there.     *)
arm_watchdog(p) ==
    /\ At(p, "arm")
    /\ \/ armed' = armed \cup {proc[p].token} /\ Goes(p, "eval") /\ NoFault
       \/ /\ Fault /\ UNCHANGED <<armed, unseen, failed, lock, page>>
          /\ proc' = [proc EXCEPT ![p].pc = "clear", ![p].then = "end"]
       \/ /\ Hit(p) /\ armed' \in {armed, armed \cup {proc[p].token}}
          /\ End(p, FALSE)
    /\ UNCHANGED <<files, shown, next, kept>>

(* Mutant: success is reported without waiting for Hyprland *)
EvalTrial_Early(p) ==
    /\ At(p, "eval")
    /\ \/ UNCHANGED shown /\ End(p, TRUE) /\ NoFault
       \/ /\ Fault /\ shown' \in {shown, trial} /\ UNCHANGED <<unseen, failed>>
          /\ Goes(p, "disarm")
       \/ /\ Hit(p) /\ shown' \in {shown, trial}
          /\ End(p, FALSE)
    /\ UNCHANGED <<files, armed, next, kept>>

(* hyprctl eval: the candidate is shown; or refused, some of it applied,   *)
(* and the trial is ended; or there is no answer.                          *)
EvalTrial(p) ==
    /\ At(p, "eval")
    /\ \/ shown' = trial /\ End(p, TRUE) /\ NoFault
       \/ /\ Fault /\ shown' \in {shown, trial} /\ UNCHANGED <<unseen, failed>>
          /\ Goes(p, "disarm")
       \/ /\ Hit(p) /\ shown' \in {shown, trial}
          /\ End(p, FALSE)
    /\ UNCHANGED <<files, armed, next, kept>>

(* disarm_watchdog: the timer and its process are stopped; or systemctl    *)
(* fails, which nobody looks at; or it hangs and the request ends.         *)
disarm_watchdog(p) ==
    LET t == proc[p].token
    IN /\ At(p, "disarm")
       /\ \/ /\ armed' = armed \ {t}
             /\ proc' = [proc EXCEPT ![t] = Idle,
                                     ![p].pc = IF @ = "idle" THEN @ ELSE
                                               IF proc[p].op = "confirm" THEN "check" ELSE "clear",
                                     ![p].then = "reload"]
             /\ UNCHANGED <<lock, page>> /\ NoFault
          \/ /\ Fault /\ armed' \in {armed, armed \ {t}}
             /\ proc' = [proc EXCEPT ![p].pc = IF proc[p].op = "confirm" THEN "check" ELSE "clear",
                                     ![p].then = "reload"]
             /\ UNCHANGED <<lock, page, unseen, failed>>
          \/ /\ Hit(p) /\ armed' \in {armed, armed \ {t}}
             /\ End(p, FALSE)
       /\ UNCHANGED <<files, shown, next, kept>>

(* confirm: too late, an unreadable candidate or rules that somebody else  *)
(* has changed undo the trial.                                             *)
Check(p) ==
    /\ At(p, "check")
    /\ Goes(p, IF state.age # "fresh" \/ trial = None \/ state.base # saved THEN "clear" ELSE "save")
    /\ UNCHANGED <<files, shown, armed, next, kept, unseen, failed, faults>>

(* confirm: the candidate replaces displays.json, or cannot be written.    *)
Save(p) ==
    /\ At(p, "save")
    /\ \/ /\ saved' = trial /\ kept' = kept \cup {trial} /\ NoFault
          /\ proc' = [proc EXCEPT ![p].pc = "clear", ![p].then = "end"]
          /\ UNCHANGED <<lock, page>>
       \/ Hit(p) /\ End(p, FALSE) /\ UNCHANGED <<saved, kept>>
    /\ UNCHANGED <<trial, state, shown, armed, next>>

(* clear_trial: the candidate is unlinked, then the state.                 *)
clear_trial(p) ==
    /\ \/ At(p, "clear") /\ trial' = None /\ Goes(p, "unlink") /\ UNCHANGED state
       \/ /\ At(p, "unlink") /\ state' = None /\ UNCHANGED trial
          /\ IF proc[p].then = "end" THEN End(p, FALSE) ELSE Goes(p, proc[p].then)
    /\ UNCHANGED <<saved, shown, armed, next, kept, unseen, failed, faults>>

(* Mutant: the reload does not read the file again *)
reload_hyprland_Cached(p) ==
    /\ At(p, "reload")
    /\ \/ shown' = 0 /\ NoFault
       \/ Hit(p) /\ UNCHANGED shown
    /\ End(p, FALSE)
    /\ UNCHANGED <<files, armed, next, kept>>

(* reload_hyprland: every rule is rebuilt from the saved file, or Hyprland *)
(* does not answer.                                                        *)
reload_hyprland(p) ==
    /\ At(p, "reload")
    /\ \/ shown' = saved /\ NoFault
       \/ Hit(p) /\ UNCHANGED shown
    /\ End(p, FALSE)
    /\ UNCHANGED <<files, armed, next, kept>>

Next ==
    \/ Apply
    \/ Keep
    \/ Revert
    \/ snapshot
    \/ ShellRestart
    \/ Edit
    \/ Tick
    \/ Sleep
    \/ Reload
    \/ \E t \in Tokens : Fire(t)
    \/ \E p \in Procs : Kill(p)
    \/ \E p \in Procs : Enter(p)
    \/ \E p \in Procs : Base(p)
    \/ \E p \in Procs : WriteCandidate(p)
    \/ \E p \in Procs : WriteState(p)
    \/ \E p \in Procs : arm_watchdog(p)
    \/ \E p \in Procs : EvalTrial(p)
    \/ \E p \in Procs : disarm_watchdog(p)
    \/ \E p \in Procs : Check(p)
    \/ \E p \in Procs : Save(p)
    \/ \E p \in Procs : clear_trial(p)
    \/ \E p \in Procs : reload_hyprland(p)

Spec == Init /\ [][Next]_vars

(* A process that can go on does (each call it makes has a timeout), time  *)
(* passes and an armed timer fires.  The page and the faults owe nothing.  *)
Step(p) ==
    \/ Enter(p) \/ Base(p) \/ WriteCandidate(p) \/ WriteState(p) \/ arm_watchdog(p)
    \/ EvalTrial(p) \/ disarm_watchdog(p) \/ Check(p) \/ Save(p) \/ clear_trial(p)
    \/ reload_hyprland(p)

FairSpec ==
    /\ Spec /\ WF_vars(Tick)
    /\ \A t \in Tokens : WF_vars(Fire(t))
    /\ \A p \in Procs : WF_vars(Step(p))

-----------------------------------------------------------------------------
(* Properties. *)

PCs == {"idle", "lock", "base", "candidate", "state", "arm", "eval", "disarm", "check",
        "save", "clear", "unlink", "reload"}

Process == [pc : PCs, op : {"none", "apply", "confirm", "rollback", "expire"},
            token : 0 .. MaxToken, base : Docs, then : {"none", "base", "end", "reload"}]

(* Every variable has its type.                                            *)
TypeOK ==
    /\ saved \in Docs /\ shown \in Docs /\ trial \in Tokens \cup {None}
    /\ state \in Trial \cup {None}
    /\ armed \in SUBSET Tokens /\ lock \in Procs \cup {None}
    /\ proc \in [Procs -> Process]
    /\ next \in 1 .. MaxToken + 1
    /\ preview \in 0 .. MaxToken /\ base \in Docs /\ busy \in Helpers \cup {None}
    /\ kept \in SUBSET Tokens /\ unseen \in SUBSET Tokens /\ failed \in SUBSET Tokens /\ faults \in 0 .. MaxFault

(* "arms a transient systemd timer that restores the previous rules, then  *)
(* asks Hyprland" (7-10): while an arrangement nobody kept is on screen,   *)
(* its timer runs, or its expiry or another process is ending it.  Excused *)
(* are a fault that hit the process ending the trial and a suspend during  *)
(* it: an apply, the page or the shell may die anywhere.                   *)
Guarded ==
    (shown \in Tokens /\ shown \notin kept \cup failed)
    => \/ shown \in armed \/ ~At(shown, "idle")
       \/ \E p \in Helpers : proc[p].pc \in Ending /\ proc[p].token = shown

(* With no trial on disk and none under way the screen shows the saved     *)
(* rules, unless somebody else wrote them or they are those of a trial     *)
(* that was not on screen when it was kept: an expiry, a rollback and a keep that  *)
(* overlap never leave another trial's arrangement behind.                 *)
SettledIsSaved ==
    (state = None /\ lock = None /\ failed = {} /\ saved \notin unseen \cup {Edited})
    => shown = saved

(* What is saved is what is on screen when it is kept, whatever expiry,    *)
(* rollback or later apply it raced: only a trial whose apply was hit by a *)
(* fault, or that a reload from elsewhere has taken off the screen, is     *)
(* kept without being seen.                                                *)
SavedWasShown ==
    [][(saved' # saved /\ saved' # Edited) => (shown = saved' \/ saved' \in unseen)]_vars

(* Every unconfirmed arrangement ends: it is kept or restored, unless a    *)
(* fault hit the process that was ending it or the session slept.          *)
TrialEnds ==
    \A t \in Tokens : (shown = t) ~> (shown # t \/ t \in kept \cup failed)

=============================================================================
