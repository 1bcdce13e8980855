--------------------------- MODULE SystemSnapshot ---------------------------
(***************************************************************************)
(* Recovery points, roles/base/files/cybexos-system-snapshot: create with  *)
(* retention, restore, refresh and discard, run by any number of processes *)
(* over one Btrfs top level and one /boot.  Every command but the layout   *)
(* probe at its start runs under an flock on the store.                    *)
(*                                                                         *)
(* A subvolume is known by who made it: 0 is the installed root, n the     *)
(* writable copy made by restore n; restore n also names root.incoming-n,  *)
(* root.replaced-n and the record of that restore.  Of a subvolume only    *)
(* the kernels whose modules it has are kept, of /boot only the kernels    *)
(* with an entry in it and the default one.  Renames and file replacements *)
(* are atomic; a process can die, and the machine can restart, between any *)
(* two of them.                                                            *)
(***************************************************************************)
EXTENDS Naturals, FiniteSets, FiniteSetsExt

CONSTANTS
    Procs,       \* processes that run one command at a time
    MaxKernel,   \* kernel versions 1 .. MaxKernel, the newest the largest
    MaxPoint,    \* bound: recovery points ever begun
    MaxRestore,  \* bound: restores ever begun
    KEEP,        \* recovery points retained (5 in the code)
    MaxEvents,   \* bound: failing steps, killed commands, power losses in one
    Free,        \* nobody holds the store lock
    None,        \* no such subvolume, no such kernel
    Recovery     \* the running system is a recovery point under an overlay

Kernels == 1 .. MaxKernel
Points == 1 .. MaxPoint
Names == 1 .. MaxRestore
Subvolumes == 0 .. MaxRestore

ASSUME SnapshotAssumption ==
    /\ MaxPoint \in Nat /\ MaxRestore \in Nat /\ MaxEvents \in Nat
    /\ KEEP \in Nat \ {0}
    /\ MaxKernel \in Nat \ {0}
    /\ Free \notin Procs
    /\ None \notin Subvolumes \cup Kernels
    /\ Recovery \notin Subvolumes \cup {None}

VARIABLES
    \* the Btrfs top level
    root,       \* the subvolume named `root`
    incoming,   \* root.incoming-n, None without one
    replaced,   \* root.replaced-n, None without one
    modules,    \* installed_kernels of every subvolume; {} before it exists
    \* the store
    begun,      \* recovery points ever begun: the ids taken so far
    points,     \* recovery points whose snapshot exists
    archive,    \* kernels in a point's /boot archive, {} without an archive
    snapshot,   \* kernels whose modules are in a point's snapshot
    kernel,     \* recorded_kernel of a point, None without a record
    state,      \* state in the record of restore n, "none" without a record
    staged,     \* kernels it lists as put into /boot
    wanted,     \* its kernel, the one to boot
    oldRoot,    \* the root it replaces; its newRoot is n
    \* /boot and the running system
    boot,       \* kernels with an entry in /boot
    saved_entry,\* the default entry
    boot_ro,    \* /boot is mounted read-only
    running,    \* the subvolume mounted as /, or Recovery
    booted,     \* the running kernel
    \* processes
    lock,       \* holder of the store lock
    pc,         \* control state
    arg,        \* the point or set-aside root a command is about
    name,       \* the restore a process is working on
    todo,       \* records complete_interrupted has still to look at
    placed,     \* kernels the process put into /boot
    events,     \* failures, kills and power losses so far
    ahead       \* history: processes that were told to discard a root that no
                \* restore had set aside yet

topVars == <<root, incoming, replaced, modules>>
pointVars == <<begun, points, archive, snapshot, kernel>>
recordVars == <<state, staged, wanted, oldRoot>>
bootVars == <<boot, saved_entry, boot_ro>>
hostVars == <<running, booted, ahead>>
procVars == <<arg, name, todo, placed>>
vars == <<topVars, pointVars, recordVars, bootVars, hostVars,
          lock, pc, procVars, events>>

-----------------------------------------------------------------------------
Goto(c, label) == pc' = [pc EXCEPT ![c] = label]
At(c, label) == pc[c] = label

(* The command returns, or dies: close() releases the lock. *)
Exit(c) ==
    /\ Goto(c, "idle")
    /\ lock' = IF lock = c THEN Free ELSE lock
    /\ arg' = [arg EXCEPT ![c] = 0]
    /\ name' = [name EXCEPT ![c] = 0]
    /\ todo' = [todo EXCEPT ![c] = {}]
    /\ placed' = [placed EXCEPT ![c] = {}]

(* One restore has been dealt with.  An interrupted one was taken from     *)
(* todo and complete_interrupted goes on; the command's own ends it.       *)
Leave(c) ==
    IF name[c] \in todo[c]
    THEN /\ Goto(c, "recover")
         /\ todo' = [todo EXCEPT ![c] = @ \ {name[c]}]
         /\ name' = [name EXCEPT ![c] = 0]
         /\ placed' = [placed EXCEPT ![c] = {}]
         /\ UNCHANGED <<lock, arg>>
    ELSE Exit(c)

(* Layout.pending_reboot: the running root has been renamed. *)
pending_reboot == running # Recovery /\ running # root

(* Layout.usable: between the exchange and the rename the running root is  *)
(* root.incoming-n, a layout detect_layout calls unsupported.              *)
usable == \/ running \in {Recovery, root}
          \/ \E n \in Names : replaced[n] = running

(* The kernel that boots the snapshotted system from the menu. *)
current_kernel ==
    IF saved_entry \in modules[running] THEN saved_entry
    ELSE IF booted \in modules[running] THEN booted ELSE None

Newest(S) == IF S = {} THEN None ELSE Max(S)

point_kernel(p) ==
    IF kernel[p] # None THEN kernel[p] ELSE Newest(snapshot[p] \cap boot)

Init ==
    /\ root = 0
    /\ incoming = [n \in Names |-> None]
    /\ replaced = [n \in Names |-> None]
    /\ modules = [v \in Subvolumes |-> IF v = 0 THEN {1} ELSE {}]
    /\ boot = {1} /\ saved_entry = 1 /\ boot_ro = FALSE
    /\ running = 0 /\ booted = 1
    /\ begun = 0 /\ points = {}
    /\ archive = [p \in Points |-> {}]
    /\ snapshot = [p \in Points |-> {}]
    /\ kernel = [p \in Points |-> None]
    /\ state = [n \in Names |-> "none"]
    /\ staged = [n \in Names |-> {}]
    /\ wanted = [n \in Names |-> None]
    /\ oldRoot = [n \in Names |-> 0]
    /\ lock = Free
    /\ pc = [c \in Procs |-> "idle"]
    /\ arg = [c \in Procs |-> 0]
    /\ name = [c \in Procs |-> 0]
    /\ todo = [c \in Procs |-> {}]
    /\ placed = [c \in Procs |-> {}]
    /\ events = 0 /\ ahead = {}

-----------------------------------------------------------------------------
(* A command starts by looking at the layout, before it has the lock.  A   *)
(* refused command changes nothing and is not a step.                      *)
Begin(c, label, about) ==
    /\ At(c, "idle")
    /\ Goto(c, label)
    /\ arg' = [arg EXCEPT ![c] = about]
    /\ UNCHANGED <<topVars, points, archive, snapshot, kernel, recordVars,
                   bootVars, running, booted, lock, name, todo, placed, events>>

(* command_create up to the lock: the id is a time stamp taken here. *)
command_create(c) ==
    /\ running # Recovery /\ usable /\ ~pending_reboot
    /\ begun < MaxPoint
    /\ begun' = begun + 1
    /\ Begin(c, "create_lock", begun + 1)
    /\ UNCHANGED ahead

command_restore(c) ==
    /\ usable
    /\ \E p \in points : Begin(c, "restore_lock", p)
    /\ UNCHANGED <<begun, ahead>>

command_refresh(c) ==
    /\ usable
    /\ Begin(c, "refresh_lock", 0)
    /\ UNCHANGED <<begun, ahead>>

(* Mutant: the running system is not exempt. *)
command_discard_Unchecked(c) ==
    /\ usable
    /\ \E n \in Names :
          /\ Begin(c, "discard_lock", n)
          /\ ahead' = IF replaced[n] = None THEN ahead \cup {c} ELSE ahead \ {c}
    /\ UNCHANGED begun

(* command_discard up to the lock: the name is only compared with that of  *)
(* the running root.  A set-aside root of that name may not be there yet.  *)
command_discard(c) ==
    /\ usable
    /\ \E n \in Names :
          /\ running # replaced[n]
          /\ Begin(c, "discard_lock", n)
          /\ ahead' = IF replaced[n] = None THEN ahead \cup {c} ELSE ahead \ {c}
    /\ UNCHANGED begun

(* Mutant: swapped records are taken for settled ones. *)
open_OnlyPrepared(c) ==
    /\ lock = Free
    /\ lock' = c
    /\ \/ At(c, "create_lock") /\ Goto(c, "archive") /\ UNCHANGED todo
       \/ At(c, "discard_lock") /\ Goto(c, "discard") /\ UNCHANGED todo
       \/ /\ pc[c] \in {"restore_lock", "refresh_lock"}
          /\ Goto(c, "recover")
          /\ todo' = [todo EXCEPT ![c] =
                         {n \in Names : state[n] = "prepared"}]
    /\ UNCHANGED <<topVars, pointVars, recordVars, bootVars, hostVars,
                   arg, name, placed, events>>

(* Store.open: flock without a timeout. *)
open(c) ==
    /\ lock = Free
    /\ lock' = c
    /\ \/ At(c, "create_lock") /\ Goto(c, "archive") /\ UNCHANGED todo
       \/ At(c, "discard_lock") /\ Goto(c, "discard") /\ UNCHANGED todo
       \/ /\ pc[c] \in {"restore_lock", "refresh_lock"}
          /\ Goto(c, "recover")
          /\ todo' = [todo EXCEPT ![c] =
                         {n \in Names : state[n] \in {"prepared", "swapped"}}]
    /\ UNCHANGED <<topVars, pointVars, recordVars, bootVars, hostVars,
                   arg, name, placed, events>>

-----------------------------------------------------------------------------
(* Mutant: a failing tar goes unnoticed. *)
create_archive_Lost(c) ==
    /\ At(c, "archive")
    /\ Goto(c, "snapshot")
    /\ UNCHANGED <<topVars, pointVars, recordVars, bootVars, hostVars, lock,
                   procVars, events>>

(* create: the /boot archive, then the snapshot, then its metadata. *)
create_archive(c) ==
    /\ At(c, "archive")
    /\ archive' = [archive EXCEPT ![arg[c]] = boot]
    /\ Goto(c, "snapshot")
    /\ UNCHANGED <<topVars, begun, points, snapshot, kernel, recordVars,
                   bootVars, hostVars, lock, procVars, events>>

create_snapshot(c) ==
    /\ At(c, "snapshot")
    /\ points' = points \cup {arg[c]}
    /\ snapshot' = [snapshot EXCEPT ![arg[c]] = modules[running]]
    /\ Goto(c, "metadata")
    /\ UNCHANGED <<topVars, begun, archive, kernel, recordVars, bootVars,
                   hostVars, lock, procVars, events>>

create_metadata(c) ==
    /\ At(c, "metadata")
    /\ kernel' = [kernel EXCEPT ![arg[c]] = current_kernel]
    /\ Goto(c, "prune")
    /\ UNCHANGED <<topVars, begun, points, archive, snapshot, recordVars,
                   bootVars, hostVars, lock, procVars, events>>

(* create failed: the files go first, then the snapshot. *)
create_cleanup(c) ==
    \/ /\ At(c, "cleanup")
       /\ archive' = [archive EXCEPT ![arg[c]] = {}]
       /\ kernel' = [kernel EXCEPT ![arg[c]] = None]
       /\ Goto(c, "cleanup_root")
       /\ UNCHANGED <<points, lock, procVars>>
       /\ UNCHANGED <<topVars, begun, snapshot, recordVars, bootVars,
                      hostVars, events>>
    \/ /\ At(c, "cleanup_root")
       /\ points' = points \ {arg[c]}
       /\ Exit(c)
       /\ UNCHANGED <<topVars, begun, archive, snapshot, kernel, recordVars,
                      bootVars, hostVars, events>>

(* Retention: while more than KEEP remain the oldest goes, its snapshot    *)
(* first and then its files.                                               *)
Oldest == Min(points)

create_prune(c) ==
    /\ At(c, "prune")
    /\ IF Cardinality(points) > KEEP
       THEN /\ points' = points \ {Oldest}
            /\ name' = [name EXCEPT ![c] = Oldest]
            /\ Goto(c, "prune_files")
            /\ UNCHANGED <<lock, arg, todo, placed>>
       ELSE Exit(c) /\ UNCHANGED points
    /\ UNCHANGED <<topVars, begun, archive, snapshot, kernel, recordVars,
                   bootVars, hostVars, events>>

create_prune_files(c) ==
    /\ At(c, "prune_files")
    /\ archive' = [archive EXCEPT ![name[c]] = {}]
    /\ kernel' = [kernel EXCEPT ![name[c]] = None]
    /\ name' = [name EXCEPT ![c] = 0]
    /\ Goto(c, "prune")
    /\ UNCHANGED <<topVars, begun, points, snapshot, recordVars, bootVars,
                   hostVars, lock, arg, todo, placed, events>>

-----------------------------------------------------------------------------
(* complete_interrupted: one record at a time, in order of name. *)
complete_interrupted(c) ==
    /\ At(c, "recover")
    /\ todo[c] # {}
    /\ LET n == Min(todo[c]) IN
       /\ name' = [name EXCEPT ![c] = n]
       /\ placed' = [placed EXCEPT ![c] = staged[n]]
       /\ \/ /\ state[n] = "prepared" /\ incoming[n] = oldRoot[n] /\ root = n
             /\ Goto(c, "rename")
          \/ /\ state[n] = "prepared"
             /\ ~(incoming[n] = oldRoot[n] /\ root = n)
             /\ Goto(c, IF replaced[n] = None THEN "undo" ELSE "swapped")
          \/ state[n] = "swapped" /\ Goto(c, "retire")
    /\ UNCHANGED <<topVars, pointVars, recordVars, bootVars, hostVars,
                   lock, arg, todo, events>>

(* Nothing is left to recover: a refresh is done. *)
refresh_done(c) ==
    /\ At(c, "recover") /\ todo[c] = {} /\ arg[c] = 0
    /\ Exit(c)
    /\ UNCHANGED <<topVars, pointVars, recordVars, bootVars, hostVars,
                   events>>

Unused == {n \in Names : modules[n] = {}}

(* restore: check the point, remount /boot for a recovery boot and make    *)
(* the writable copy.  wanted and oldRoot are part of the record only once *)
(* it has been written.                                                    *)
restore_copy(c) ==
    LET p == arg[c]
        k == IF point_kernel(p) # None THEN point_kernel(p)
             ELSE Newest(snapshot[p])
    IN
    /\ At(c, "recover") /\ todo[c] = {} /\ p # 0
    /\ IF p \in points /\ k # None /\ Unused # {}
       THEN LET n == Min(Unused) IN
            /\ incoming' = [incoming EXCEPT ![n] = n]
            /\ modules' = [modules EXCEPT ![n] = snapshot[p]]
            /\ wanted' = [wanted EXCEPT ![n] = k]
            /\ oldRoot' = [oldRoot EXCEPT ![n] = root]
            /\ boot_ro' = FALSE
            /\ name' = [name EXCEPT ![c] = n]
            /\ Goto(c, "record")
            /\ UNCHANGED <<lock, arg, todo, placed>>
       ELSE /\ Exit(c)
            /\ UNCHANGED <<incoming, modules, wanted, oldRoot, boot_ro>>
    /\ UNCHANGED <<root, replaced, pointVars, state, staged, boot,
                   saved_entry, hostVars, events>>

restore_record(c) ==
    /\ At(c, "record")
    /\ state' = [state EXCEPT ![name[c]] = "prepared"]
    /\ staged' = [staged EXCEPT ![name[c]] = {}]
    /\ Goto(c, "stage")
    /\ UNCHANGED <<topVars, pointVars, wanted, oldRoot, bootVars, hostVars,
                   lock, procVars, events>>

(* Kernels of the copy that /boot lacks. *)
Missing(c) == modules[name[c]] \ boot

(* stage_boot_files puts back what the archive has of them, one by one;    *)
(* with something missing and no archive it fails.                         *)
stage_boot_files(c) ==
    LET found == Missing(c) \cap archive[arg[c]] IN
    /\ At(c, "stage")
    /\ \/ /\ found # {}
          /\ boot' = boot \cup {Min(found)}
          /\ placed' = [placed EXCEPT ![c] = @ \cup {Min(found)}]
          /\ UNCHANGED pc
       \/ /\ found = {}
          /\ Goto(c, IF Missing(c) # {} /\ archive[arg[c]] = {}
                     THEN "undo" ELSE "staged")
          /\ UNCHANGED <<boot, placed>>
    /\ UNCHANGED <<topVars, pointVars, recordVars, saved_entry, boot_ro,
                   hostVars, lock, arg, name, todo, events>>

restore_staged(c) ==
    /\ At(c, "staged")
    /\ staged' = [staged EXCEPT ![name[c]] = placed[c]]
    /\ Goto(c, IF wanted[name[c]] \in boot THEN "exchange" ELSE "undo")
    /\ UNCHANGED <<topVars, pointVars, state, wanted, oldRoot, bootVars,
                   hostVars, lock, procVars, events>>

(* mv --exchange: `root` is the restored copy from here on. *)
restore_exchange(c) ==
    /\ At(c, "exchange")
    /\ incoming' = [incoming EXCEPT ![name[c]] = root]
    /\ root' = incoming[name[c]]
    /\ Goto(c, "rename")
    /\ UNCHANGED <<replaced, modules, pointVars, recordVars, bootVars,
                   hostVars, lock, procVars, events>>

restore_rename(c) ==
    /\ At(c, "rename")
    /\ replaced' = [replaced EXCEPT ![name[c]] = incoming[name[c]]]
    /\ incoming' = [incoming EXCEPT ![name[c]] = None]
    /\ Goto(c, "swapped")
    /\ UNCHANGED <<root, modules, pointVars, recordVars, bootVars, hostVars,
                   lock, procVars, events>>

restore_swapped(c) ==
    /\ At(c, "swapped")
    /\ state' = [state EXCEPT ![name[c]] = "swapped"]
    /\ Goto(c, "retire")
    /\ UNCHANGED <<topVars, pointVars, staged, wanted, oldRoot, bootVars,
                   hostVars, lock, procVars, events>>

(* Kernels in /boot that the system root cannot run. *)
Stray == boot \ modules[root]

(* reconcile_boot: refuse when the root lacks the kernel of the record,    *)
(* else move the stray kernels away one by one.  A read-only /boot raises  *)
(* OSError there, which nobody catches: the command dies.                  *)
reconcile_retire(c) ==
    /\ At(c, "retire")
    /\ \/ /\ wanted[name[c]] \notin modules[root]
          /\ Leave(c)
          /\ UNCHANGED boot
       \/ /\ wanted[name[c]] \in modules[root] /\ Stray # {} /\ ~boot_ro
          /\ boot' = boot \ {Min(Stray)}
          /\ UNCHANGED <<pc, lock, procVars>>
       \/ /\ wanted[name[c]] \in modules[root] /\ Stray # {} /\ boot_ro
          /\ Exit(c)
          /\ UNCHANGED boot
       \/ /\ wanted[name[c]] \in modules[root] /\ Stray = {}
          /\ Goto(c, "default")
          /\ UNCHANGED <<boot, lock, procVars>>
    /\ UNCHANGED <<topVars, pointVars, recordVars, saved_entry, boot_ro,
                   hostVars, events>>

(* Mutant: the default entry is left alone. *)
reconcile_default_Keeps(c) ==
    /\ At(c, "default")
    /\ IF wanted[name[c]] \in boot /\ ~boot_ro
       THEN Goto(c, "complete") /\ UNCHANGED <<lock, procVars>>
       ELSE Leave(c)
    /\ UNCHANGED <<topVars, pointVars, recordVars, bootVars, hostVars,
                   events>>

(* Without an entry for the kernel, or when grub2-editenv cannot write,    *)
(* reconcile_boot raises Failure and the record stays swapped.             *)
reconcile_default(c) ==
    /\ At(c, "default")
    /\ IF wanted[name[c]] \in boot /\ ~boot_ro
       THEN /\ saved_entry' = wanted[name[c]]
            /\ Goto(c, "complete")
            /\ UNCHANGED <<lock, procVars>>
       ELSE Leave(c) /\ UNCHANGED saved_entry
    /\ UNCHANGED <<topVars, pointVars, recordVars, boot, boot_ro, hostVars,
                   events>>

(* A finished restore in a recovery boot makes /boot read-only again. *)
finish_restore(c) ==
    /\ At(c, "complete")
    /\ state' = [state EXCEPT ![name[c]] = "complete"]
    /\ boot_ro' = (boot_ro \/ (running = Recovery /\ name[c] \notin todo[c]))
    /\ Leave(c)
    /\ UNCHANGED <<topVars, pointVars, staged, wanted, oldRoot, boot,
                   saved_entry, hostVars, events>>

-----------------------------------------------------------------------------
(* undo_prepared: the copy is deleted only while it still is the unused    *)
(* copy and `root` the old root.  The result of the deletion is ignored.   *)
undo_prepared(c) ==
    LET n == name[c] IN
    /\ At(c, "undo")
    /\ \/ /\ incoming[n] # None /\ ~(incoming[n] = n /\ root = oldRoot[n])
          /\ Leave(c)
          /\ UNCHANGED <<incoming, events>>
       \/ /\ incoming[n] = n /\ root = oldRoot[n]
          /\ \/ incoming' = [incoming EXCEPT ![n] = None] /\ UNCHANGED events
             \/ /\ events < MaxEvents
                /\ events' = events + 1
                /\ UNCHANGED incoming
          /\ Goto(c, "undo_boot")
          /\ UNCHANGED <<lock, procVars>>
       \/ /\ incoming[n] = None
          /\ Goto(c, "undo_boot")
          /\ UNCHANGED <<incoming, events, lock, procVars>>
    /\ UNCHANGED <<root, replaced, modules, pointVars, recordVars, bootVars,
                   hostVars>>

(* Mutant: every kernel of the copy is unlinked, staged or not. *)
undo_boot_All(c) ==
    /\ At(c, "undo_boot")
    /\ boot' = IF boot_ro THEN boot ELSE boot \ modules[name[c]]
    /\ Goto(c, "undo_record")
    /\ UNCHANGED <<topVars, pointVars, recordVars, saved_entry, boot_ro,
                   hostVars, lock, procVars, events>>

(* The staged kernels are unlinked; on a read-only /boot the error is      *)
(* suppressed.                                                             *)
undo_boot(c) ==
    /\ At(c, "undo_boot")
    /\ boot' = IF boot_ro THEN boot ELSE boot \ placed[c]
    /\ Goto(c, "undo_record")
    /\ UNCHANGED <<topVars, pointVars, recordVars, saved_entry, boot_ro,
                   hostVars, lock, procVars, events>>

undo_record(c) ==
    /\ At(c, "undo_record")
    /\ state' = [state EXCEPT ![name[c]] = "none"]
    /\ Leave(c)
    /\ UNCHANGED <<topVars, pointVars, staged, wanted, oldRoot, bootVars,
                   hostVars, events>>

(* discard: the set-aside root, then its record. *)
discard_root(c) ==
    /\ At(c, "discard")
    /\ IF replaced[arg[c]] = None
       THEN Exit(c) /\ UNCHANGED replaced
       ELSE /\ replaced' = [replaced EXCEPT ![arg[c]] = None]
            /\ Goto(c, "discard_record")
            /\ UNCHANGED <<lock, procVars>>
    /\ UNCHANGED <<root, incoming, modules, pointVars, recordVars, bootVars,
                   hostVars, events>>

discard_record(c) ==
    /\ At(c, "discard_record")
    /\ state' = [state EXCEPT ![arg[c]] = "none"]
    /\ Exit(c)
    /\ UNCHANGED <<topVars, pointVars, staged, wanted, oldRoot, bootVars,
                   hostVars, events>>

-----------------------------------------------------------------------------
(* A step raises: create cleans up, a restore that has not exchanged yet   *)
(* undoes.  What stage_boot_files had placed when it failed is forgotten.  *)
Fail(c) ==
    /\ events < MaxEvents
    /\ events' = events + 1
    /\ \/ /\ pc[c] \in {"archive", "snapshot", "metadata"}
          /\ Goto(c, "cleanup")
          /\ UNCHANGED placed
       \/ /\ pc[c] \in {"record", "stage", "staged", "exchange"}
          /\ Goto(c, "undo")
          /\ placed' = [placed EXCEPT ![c] =
                           IF pc[c] = "stage" THEN {} ELSE @]
    /\ UNCHANGED <<topVars, pointVars, recordVars, bootVars, hostVars,
                   lock, arg, name, todo>>

(* The process holding the lock is killed, or dies of an error that is not *)
(* caught.                                                                 *)
Kill(c) ==
    /\ lock = c
    /\ events < MaxEvents
    /\ events' = events + 1
    /\ Exit(c)
    /\ UNCHANGED <<topVars, pointVars, recordVars, bootVars, hostVars>>

(* A restart, or a power loss during a command. *)
Restart ==
    /\ \/ /\ \A c \in Procs : At(c, "idle")
          /\ UNCHANGED events
       \/ /\ \E c \in Procs : ~At(c, "idle")
          /\ events < MaxEvents
          /\ events' = events + 1
    /\ lock' = Free
    /\ pc' = [c \in Procs |-> "idle"]
    /\ arg' = [c \in Procs |-> 0]
    /\ name' = [c \in Procs |-> 0]
    /\ todo' = [c \in Procs |-> {}]
    /\ placed' = [c \in Procs |-> {}]
    /\ UNCHANGED <<topVars, pointVars, recordVars, boot, saved_entry, ahead>>

(* Booting `root` with a kernel it has the modules of. *)
RestartNormal ==
    /\ \E k \in boot \cap modules[root] : booted' = k
    /\ running' = root
    /\ boot_ro' = FALSE
    /\ Restart

(* Booting a recovery point from the submenu: /boot is mounted read-only. *)
RestartRecovery ==
    /\ \E p \in points : /\ point_kernel(p) \in boot
                         /\ booted' = point_kernel(p)
    /\ running' = Recovery
    /\ boot_ro' = TRUE
    /\ Restart

(* dnf between commands, on a root that is not waiting for a restart.  The *)
(* kernel-install hook of every kernel it adds or removes runs a refresh.  *)
Maintenance(c) ==
    /\ running = root /\ ~boot_ro
    /\ \A d \in Procs : At(d, "idle")
    /\ Goto(c, "refresh_lock")
    /\ UNCHANGED <<root, incoming, replaced, pointVars, recordVars, boot_ro,
                   hostVars, lock, procVars, events>>

KernelInstalled(c) ==
    /\ \E k \in Kernels \ modules[root] :
          /\ modules' = [modules EXCEPT ![root] = @ \cup {k}]
          /\ boot' = boot \cup {k}
          /\ saved_entry' = k
    /\ Maintenance(c)

KernelRemoved(c) ==
    /\ \E k \in modules[root] \ {booted} :
          /\ modules' = [modules EXCEPT ![root] = @ \ {k}]
          /\ boot' = boot \ {k}
          /\ saved_entry' = IF saved_entry = k THEN booted ELSE saved_entry
    /\ Maintenance(c)

-----------------------------------------------------------------------------
Step(c) ==
    \/ create_archive(c) \/ create_snapshot(c) \/ create_metadata(c)
    \/ create_cleanup(c) \/ create_prune(c) \/ create_prune_files(c)
    \/ complete_interrupted(c) \/ refresh_done(c) \/ restore_copy(c)
    \/ restore_record(c) \/ stage_boot_files(c) \/ restore_staged(c)
    \/ restore_exchange(c) \/ restore_rename(c) \/ restore_swapped(c)
    \/ reconcile_retire(c) \/ reconcile_default(c) \/ finish_restore(c)
    \/ undo_prepared(c) \/ undo_boot(c) \/ undo_record(c)
    \/ discard_root(c) \/ discard_record(c)

Next ==
    \/ \E c \in Procs :
          \/ command_create(c) \/ command_restore(c)
          \/ command_refresh(c) \/ command_discard(c)
          \/ open(c) \/ Step(c) \/ Fail(c) \/ Kill(c)
          \/ KernelInstalled(c) \/ KernelRemoved(c)
    \/ RestartNormal \/ RestartRecovery

Spec == Init /\ [][Next]_vars

(* A command runs to its end; flock wakes one waiter, so a process that    *)
(* finds the lock free again and again gets it in the end.  The machine is *)
(* restarted now and then, and the service of every boot refreshes.        *)
BootRefresh(c) == running = root /\ command_refresh(c)

FairSpec ==
    /\ Spec
    /\ SF_vars(RestartNormal)
    /\ \A c \in Procs : /\ WF_vars(Step(c))
                        /\ SF_vars(open(c))
                        /\ SF_vars(BootRefresh(c))

-----------------------------------------------------------------------------
Pcs == {"idle", "create_lock", "archive", "snapshot", "metadata", "prune",
        "prune_files", "cleanup", "cleanup_root", "restore_lock",
        "refresh_lock", "discard_lock", "recover", "record", "stage",
        "staged", "exchange", "rename", "swapped", "retire", "default",
        "complete", "undo", "undo_boot", "undo_record", "discard",
        "discard_record"}

(* Every variable of the recovery-point store, of /boot and of the         *)
(* commands has its type; outside idle and the waits for the lock a        *)
(* command holds it (Store.open, line 255).                                *)
TypeOK ==
    /\ root \in Subvolumes
    /\ incoming \in [Names -> Subvolumes \cup {None}]
    /\ replaced \in [Names -> Subvolumes \cup {None}]
    /\ modules \in [Subvolumes -> SUBSET Kernels]
    /\ begun \in 0 .. MaxPoint
    /\ points \subseteq 1 .. begun
    /\ archive \in [Points -> SUBSET Kernels]
    /\ snapshot \in [Points -> SUBSET Kernels]
    /\ kernel \in [Points -> Kernels \cup {None}]
    /\ state \in [Names -> {"none", "prepared", "swapped", "complete"}]
    /\ staged \in [Names -> SUBSET Kernels]
    /\ wanted \in [Names -> Kernels \cup {None}]
    /\ oldRoot \in [Names -> Subvolumes]
    /\ boot \subseteq Kernels
    /\ saved_entry \in Kernels
    /\ boot_ro \in BOOLEAN
    /\ running \in Subvolumes \cup {Recovery}
    /\ booted \in Kernels
    /\ lock \in Procs \cup {Free}
    /\ pc \in [Procs -> Pcs]
    /\ arg \in [Procs -> 0 .. MaxPoint + MaxRestore]
    /\ name \in [Procs -> 0 .. MaxPoint + MaxRestore]
    /\ todo \in [Procs -> SUBSET Names]
    /\ placed \in [Procs -> SUBSET Kernels]
    /\ events \in 0 .. MaxEvents
    /\ ahead \subseteq Procs
    /\ \A c \in Procs : lock = c <=>
          pc[c] \notin {"idle", "create_lock", "restore_lock",
                        "refresh_lock", "discard_lock"}

(* Whatever happens in a restore, and wherever it stops, /boot has an      *)
(* entry for a kernel whose modules the subvolume called `root` has        *)
(* (the order stage, exchange, retire of command_restore, lines 919-951).  *)
AlwaysBootable == boot \cap modules[root] # {}

(* "Discarding is refused while that root is still the running system"     *)
(* (docs/operations.md:433): no command deletes the subvolume the running  *)
(* system is on, neither the clean-up of a restore copy (undo_prepared)    *)
(* nor a discard, whose check was made before it had the lock (971).       *)
(* Excepted is a discard that named the root before a restore, for whose   *)
(* lock it waited, set the running system aside under that name: only that *)
(* the root exists is looked at again (975), and it is deleted.            *)
OnRoot ==
    \/ running \in {Recovery, root}
    \/ \E n \in Names : running \in {incoming[n], replaced[n]}

RunningRootKept ==
    [][OnRoot => \/ OnRoot'
                 \/ \E c \in ahead : At(c, "discard") /\ replaced[arg[c]] = running]_vars

(* With no command running and no restore left half-way, the default entry *)
(* starts a kernel that `root` has the modules of (reconcile_boot).        *)
DefaultRuns ==
    (/\ \A c \in Procs : At(c, "idle")
     /\ \A n \in Names : state[n] \notin {"prepared", "swapped"})
    => saved_entry \in boot \cap modules[root]

(* A recovery point can be restored from the moment it is listed: its      *)
(* archive has a kernel of its snapshot (the order of lines 797-803 in     *)
(* create and 826-830 in the retention), unless create is withdrawing it.  *)
RestorablePoints ==
    \A p \in points :
       \/ archive[p] \cap snapshot[p] # {}
       \/ \E c \in Procs : At(c, "cleanup_root") /\ arg[c] = p

(* A record of an interrupted restore does not stay: it is finished or     *)
(* undone by a refresh at some later boot (complete_interrupted), unless   *)
(* its kernel is not in the system any more.                               *)
InterruptedSettles ==
    \A n \in Names :
       state[n] \in {"prepared", "swapped"} ~>
          \/ state[n] \in {"complete", "none"}
          \/ wanted[n] \notin boot \cap modules[root]

=============================================================================
