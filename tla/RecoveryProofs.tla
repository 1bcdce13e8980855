--------------------------- MODULE RecoveryProofs ---------------------------
(***************************************************************************)
(* Proofs about the two ways back from an update: the recovery points of   *)
(* SystemSnapshot, for every number of processes, kernels, points,         *)
(* restores and failures, and, at the end, the restored configuration and  *)
(* recorded mixture of ReleaseTransaction, for every number of clients,    *)
(* versions, runs, kills and faults.  They share no variable.              *)
(*                                                                         *)
(* That the running root is kept is not inductive: a discard deletes, and  *)
(* an undo takes for an unused copy, what was looked at before; Layout     *)
(* says why that is still true.  That `root` can be started and the default entry starts it *)
(* is proved until the first failure (events = 0): after two of them, with *)
(* a kernel installed while an interrupted restore waits, it is false.     *)
(* RestorablePoints is proved for one command at a time.                   *)
(***************************************************************************)
EXTENDS SystemSnapshot, ReleaseTransaction, FiniteSetTheorems, TLAPS

(* Where a process that restores is: before the exchange, withdrawing the  *)
(* copy, after the exchange; and where one that creates is before its      *)
(* point is complete.                                                      *)
Own == {"record", "stage", "staged", "exchange"}
Undo == {"undo", "undo_boot", "undo_record"}
Swapping == {"rename", "swapped", "retire", "default"}
Creating == {"create_lock", "archive", "snapshot"}

(* The types of the commands' variables, and of the others.                *)
CommandTypes ==
    /\ lock \in Procs \cup {Free}
    /\ pc \in [Procs -> Pcs]
    /\ arg \in [Procs -> 0 .. MaxPoint + MaxRestore]
    /\ name \in [Procs -> 0 .. MaxPoint + MaxRestore]
    /\ todo \in [Procs -> SUBSET Names]
    /\ placed \in [Procs -> SUBSET Kernels]
    /\ \A c \in Procs : lock = c <=>
          pc[c] \notin {"idle", "create_lock", "restore_lock",
                        "refresh_lock", "discard_lock"}

StoreTypes ==
    /\ root \in Subvolumes
    /\ incoming \in [Names -> Subvolumes \cup {None}]
    /\ replaced \in [Names -> Subvolumes \cup {None}]
    /\ modules \in [Subvolumes -> SUBSET Kernels]
    /\ begun \in 0 .. MaxPoint
    /\ points \subseteq 1 .. begun
    /\ archive \in [Points -> SUBSET Kernels]
    /\ snapshot \in [Points -> SUBSET Kernels]
    /\ kernel \in [Points -> Kernels \cup {None}]
    /\ state \in [Names -> {"none", "prepared", "swapped", "complete"}]
    /\ staged \in [Names -> SUBSET Kernels]
    /\ wanted \in [Names -> Kernels \cup {None}]
    /\ oldRoot \in [Names -> Subvolumes]
    /\ boot \subseteq Kernels
    /\ saved_entry \in Kernels
    /\ boot_ro \in BOOLEAN
    /\ running \in Subvolumes \cup {Recovery}
    /\ booted \in Kernels
    /\ events \in 0 .. MaxEvents
    /\ ahead \subseteq Procs

(* What a command is about is a point or a restore that has been begun.    *)
Ids ==
    \A c \in Procs :
       /\ pc[c] \in Creating \cup {"metadata", "prune", "prune_files", "cleanup",
                                   "cleanup_root"} => arg[c] \in 1 .. begun
       /\ pc[c] \in {"idle", "refresh_lock"} => arg[c] = 0
       /\ pc[c] \in {"restore_lock"} \cup Own => arg[c] \in Points
       /\ pc[c] \in {"recover", "complete"} \cup Undo \cup Swapping =>
            arg[c] \in Points \cup {0}
       /\ pc[c] \in {"discard_lock", "discard", "discard_record"} => arg[c] \in Names
       /\ pc[c] = "prune_files" => name[c] \in Points
       /\ pc[c] \in Own \cup Undo \cup Swapping \cup {"complete"} => name[c] \in Names

(* A subvolume has one name, no copy is booted before `root` is exchanged  *)
(* for it, and what a discard waits to delete is set aside for good, if it *)
(* was set aside when the discard was begun.                               *)
Layout ==
    /\ \A n \in Names :
          /\ incoming[n] = None \/ replaced[n] = None
          /\ incoming[n] = n => root # n /\ running # n
          /\ modules[n] = {} => /\ incoming[n] = None /\ replaced[n] = None
                                /\ root # n /\ running # n
    /\ running # Recovery => booted \in modules[running]
    /\ \A p \in points : snapshot[p] # {}
    /\ \A c \in Procs :
          /\ pc[c] \in Creating => running # Recovery
          /\ pc[c] \in Own => incoming[name[c]] = name[c]
          /\ pc[c] = "rename" => incoming[name[c]] # None
          /\ pc[c] \in {"discard_lock", "discard"} /\ c \notin ahead =>
                /\ incoming[arg[c]] = None /\ running # replaced[arg[c]]
                /\ modules[arg[c]] # {}

(* The kernel recorded of a point is one of its snapshot.                  *)
PointKernels ==
    /\ \A p \in Points : kernel[p] # None => kernel[p] \in snapshot[p]
    /\ \A p \in Points : p > begun => kernel[p] = None
    /\ \A c \in Procs :
          /\ pc[c] \in Creating => kernel[arg[c]] = None
          /\ pc[c] = "metadata" => snapshot[arg[c]] = modules[running]
          /\ \A d \in Procs \ {c} :
                pc[c] = "create_lock" /\ pc[d] \in Creating \cup {"metadata"}
                => arg[c] # arg[d]

(* Until something fails a restore leaves no record behind: a record that  *)
(* is not settled is the one a command is working on.                      *)
Records ==
    events = 0 =>
    /\ \A n \in Names : state[n] \in {"prepared", "swapped"} =>
          \E c \in Procs : /\ pc[c] \in Own \cup Undo \cup Swapping \cup {"complete"}
                           /\ name[c] = n
    /\ \A c \in Procs :
          /\ todo[c] = {}
          /\ pc[c] \in Own \cup {"undo"} =>
                root = oldRoot[name[c]] /\ incoming[name[c]] = name[c]
          /\ pc[c] \in Own \cup Swapping \cup {"complete"} => ~boot_ro

(* Until something fails the system starts: the default entry is good but  *)
(* between the exchange and reconcile_boot, where the kernel of the record *)
(* is, and an undo takes no kernel away that was there before.             *)
Starts ==
    events = 0 =>
    /\ running = root => booted \in boot
    /\ (\A c \in Procs : pc[c] \notin Swapping) => saved_entry \in boot \cap modules[root]
    /\ \A c \in Procs :
          /\ pc[c] \in Own => wanted[name[c]] \in modules[name[c]]
          /\ pc[c] = "exchange" => wanted[name[c]] \in boot
          /\ pc[c] \in Own \cup {"undo", "undo_boot"} =>
                /\ saved_entry \notin placed[c]
                /\ (running = root => booted \notin placed[c])
          /\ pc[c] \in {"idle", "restore_lock", "refresh_lock", "recover", "record"}
             => placed[c] = {}
          /\ pc[c] \in Swapping => wanted[name[c]] \in boot \cap modules[root]

IInv ==
    /\ TypeOK
    /\ Ids
    /\ Layout
    /\ PointKernels
    /\ Records
    /\ Starts

-----------------------------------------------------------------------------
(* A set of naturals that is not empty has a least element: without one,   *)
(* what lies above an element of S and below N would be mapped by the      *)
(* predecessor, one to one, into a smaller set.                            *)
LEMMA LeastElement ==
    ASSUME NEW S \in SUBSET Nat, S # {}
    PROVE  \E x \in S : \A y \in S : x <= y
<1> SUFFICES ASSUME \A x \in S : \E y \in S : ~(x <= y) PROVE FALSE
  OBVIOUS
<1>1. PICK N \in S : TRUE
  OBVIOUS
<1> DEFINE D == {n \in 0 .. N : \E y \in S : y <= n}
<1>2. /\ N \in D
      /\ \A n \in D : n \in Nat /\ n - 1 \in D /\ n - 1 # N
  <2>1. N \in D
    BY <1>1
  <2>2. ASSUME NEW n \in D PROVE n \in Nat /\ n - 1 \in D /\ n - 1 # N
    <3>1. PICK y \in S : y <= n
      OBVIOUS
    <3>2. PICK z \in S : ~(y <= z)
      OBVIOUS
    <3>3. n \in 0 .. N /\ y \in Nat /\ z \in Nat
      OBVIOUS
    <3>4. z <= n - 1 /\ n - 1 \in 0 .. N /\ n - 1 # N
      BY <3>1, <3>2, <3>3
    <3> QED
      BY <3>3, <3>4
  <2> QED
    BY <2>1, <2>2
<1>3. IsFiniteSet(D)
  <2>1. IsFiniteSet(0 .. N)
    BY FS_Interval
  <2>2. D \in SUBSET (0 .. N)
    OBVIOUS
  <2> HIDE DEF D
  <2> QED
    BY <2>1, <2>2, FS_Subset
<1> HIDE DEF D
<1>4. /\ IsFiniteSet(D \ {N})
      /\ Cardinality(D \ {N}) = Cardinality(D) - 1 /\ Cardinality(D) \in Nat
  BY <1>2, <1>3, FS_RemoveElement, FS_CardinalityType
<1> DEFINE pred == [n \in D |-> n - 1]
<1>5. pred \in [D -> D \ {N}]
  BY <1>2
<1>6. PICK m \in D, n \in D : m # n /\ pred[m] = pred[n]
  <2>1. Cardinality(D) > Cardinality(D \ {N})
    BY <1>4
  <2> HIDE DEF pred
  <2> QED
    BY <1>3, <1>4, <1>5, <2>1, FS_PigeonHole
<1> QED
  BY <1>2, <1>6

(* Min is the least element of the set.                                    *)
LEMMA MinIn ==
    ASSUME NEW S \in SUBSET Nat, S # {}
    PROVE  Min(S) \in S /\ \A y \in S : Min(S) <= y
BY LeastElement DEF Min

(* The largest element of a bounded set is one of the set.                 *)
LEMMA MaxIn ==
    ASSUME NEW N \in Nat, NEW S \in SUBSET (0 .. N), S # {}
    PROVE  Max(S) \in S /\ \A y \in S : Max(S) >= y
<1> DEFINE D == {n \in Nat : \E y \in S : y = N - n}
<1>1. D # {} /\ D \in SUBSET Nat
  <2>1. PICK y \in S : TRUE
    OBVIOUS
  <2>2. N - y \in D
    BY <2>1
  <2> QED
    BY <2>2
<1>2. PICK x \in D : \A y \in D : x <= y
  <2> HIDE DEF D
  <2> QED
    BY <1>1, LeastElement
<1>3. PICK z \in S : z = N - x
  OBVIOUS
<1>4. ASSUME NEW y \in S PROVE z >= y
  <2>1. N - y \in D
    OBVIOUS
  <2>2. x <= N - y
    BY <1>2, <2>1
  <2> QED
    BY <1>3, <2>2
<1> QED
  BY <1>3, <1>4 DEF Max

-----------------------------------------------------------------------------
(* Nothing of the other commands changes.                                  *)
Others(c) ==
    \A d \in Procs \ {c} :
       /\ pc'[d] = pc[d] /\ arg'[d] = arg[d] /\ name'[d] = name[d]
       /\ todo'[d] = todo[d] /\ placed'[d] = placed[d]

(* While a command holds the lock the others are idle or wait for it.      *)
LEMMA OthersWait ==
    ASSUME CommandTypes, NEW c \in Procs, lock = c, NEW d \in Procs \ {c}
    PROVE  pc[d] \in {"idle", "create_lock", "restore_lock", "refresh_lock", "discard_lock"}
  BY DEF CommandTypes

(* A command that ends is idle, about nothing, and has left the lock.      *)
LEMMA ExitEffect ==
    ASSUME CommandTypes, NEW c \in Procs, Exit(c)
    PROVE  /\ CommandTypes' /\ Others(c)
           /\ pc'[c] = "idle" /\ arg'[c] = 0 /\ todo'[c] = {} /\ placed'[c] = {}
           /\ lock = c => lock' = Free
  BY SnapshotAssumption DEF CommandTypes, Others, Exit, Goto, Pcs, Names

(* After one restore a command ends or goes on to the next record.         *)
LEMMA LeaveEffect ==
    ASSUME CommandTypes, NEW c \in Procs, lock = c, Leave(c)
    PROVE  /\ CommandTypes' /\ Others(c)
           /\ pc'[c] \in {"idle", "recover"} /\ todo'[c] \subseteq todo[c]
           /\ placed'[c] = {}
           /\ pc'[c] = "recover" => arg'[c] = arg[c] /\ name[c] \in todo[c]
           /\ pc'[c] = "idle" => lock' = Free /\ arg'[c] = 0
<1>1. CASE name[c] \in todo[c]
  BY <1>1, SnapshotAssumption DEF CommandTypes, Others, Leave, Goto, Pcs, Names
<1>2. CASE name[c] \notin todo[c]
  BY <1>2, ExitEffect DEF Leave
<1> QED
  BY <1>1, <1>2

(* A command that ends, or goes on to the next record, keeps the types.    *)
LEMMA ExitKeeps ==
    ASSUME CommandTypes, Ids, begun' = begun, NEW c \in Procs, Exit(c)
    PROVE  CommandTypes' /\ Ids'
<1>1. CommandTypes' /\ Others(c) /\ pc'[c] = "idle" /\ arg'[c] = 0
  BY ExitEffect
<1>2. ASSUME NEW d \in Procs \ {c}
      PROVE  pc'[d] = pc[d] /\ arg'[d] = arg[d] /\ name'[d] = name[d]
  BY <1>1, <1>2 DEF Others
<1> QED
  BY <1>1, <1>2 DEF Ids, Own, Undo, Swapping, Creating

(* The same of a command that has dealt with one restore.                  *)
LEMMA LeaveKeeps ==
    ASSUME CommandTypes, Ids, begun' = begun, NEW c \in Procs, Leave(c), lock = c,
           pc[c] \in Undo \cup Swapping \cup {"complete"}
    PROVE  CommandTypes' /\ Ids'
<1>1. /\ CommandTypes' /\ Others(c) /\ pc'[c] \in {"idle", "recover"}
      /\ pc'[c] = "recover" => arg'[c] = arg[c]
      /\ pc'[c] = "idle" => arg'[c] = 0
  BY LeaveEffect
<1>2. ASSUME NEW d \in Procs \ {c}
      PROVE  pc'[d] = pc[d] /\ arg'[d] = arg[d] /\ name'[d] = name[d]
  BY <1>1, <1>2 DEF Others
<1> QED
  BY <1>1, <1>2 DEF Ids, Own, Undo, Swapping, Creating

(* What Min picks is what was asked for.                                   *)
LEMMA FreeName ==
    ASSUME SnapshotAssumption, Unused # {}
    PROVE  /\ Min(Unused) \in Names /\ Min(Unused) \in Subvolumes
           /\ modules[Min(Unused)] = {}
<1>1. Unused \in SUBSET Nat
  BY DEF Unused, Names
<1>2. Min(Unused) \in Unused
  BY <1>1, MinIn
<1>3. Names \subseteq Subvolumes
  BY DEF Names, Subvolumes, SnapshotAssumption
<1> QED
  BY <1>2, <1>3 DEF Unused

(* Retention removes a point there is.                                     *)
LEMMA OldestIn ==
    ASSUME SnapshotAssumption, points \in SUBSET Nat, Cardinality(points) > KEEP
    PROVE  Oldest \in points
<1>1. points # {}
  <2>1. Cardinality({}) = 0 /\ KEEP \in Nat
    BY FS_EmptySet DEF SnapshotAssumption
  <2> QED
    BY <2>1
<1> QED
  BY <1>1, MinIn DEF Oldest

(* Min of some kernels is one of them.                                     *)
LEMMA FoundIn ==
    ASSUME NEW S \in SUBSET Kernels, S # {}
    PROVE  Min(S) \in S
  BY MinIn DEF Kernels

(* The newest of some kernels is one of them.                              *)
LEMMA NewestIn ==
    ASSUME SnapshotAssumption, NEW S \in SUBSET Kernels
    PROVE  Newest(S) = None \/ Newest(S) \in S
<1>1. S \in SUBSET (0 .. MaxKernel) /\ MaxKernel \in Nat
  BY DEF SnapshotAssumption, Kernels
<1> QED
  BY <1>1, MaxIn DEF Newest

(* The store, /boot and the records keep their types.                      *)
LEMMA StoreStep == ASSUME TypeOK, Ids, Layout, [Next]_vars PROVE StoreTypes'
<1>0. StoreTypes
  BY DEF TypeOK, StoreTypes
<1> USE <1>0, SnapshotAssumption DEF StoreTypes
<1>1. ASSUME NEW c \in Procs, command_create(c) PROVE StoreTypes'
  BY <1>1 DEF command_create, Begin, topVars, recordVars, bootVars, hostVars
<1>2. ASSUME NEW c \in Procs, command_restore(c) PROVE StoreTypes'
  BY <1>2 DEF command_restore, Begin, At, topVars, recordVars, bootVars,
     hostVars
<1>3. ASSUME NEW c \in Procs, command_refresh(c) PROVE StoreTypes'
  BY <1>3 DEF command_refresh, Begin, At, topVars, recordVars, bootVars,
     hostVars
<1>4. ASSUME NEW c \in Procs, command_discard(c) PROVE StoreTypes'
  BY <1>4 DEF command_discard, Begin, At, topVars, recordVars, bootVars,
     hostVars
<1>5. ASSUME NEW c \in Procs, open(c) PROVE StoreTypes'
  BY <1>5 DEF open, At, topVars, pointVars, recordVars, bootVars, hostVars
<1>6. ASSUME NEW c \in Procs, create_archive(c) PROVE StoreTypes'
  <2>1. archive' \in [Points -> SUBSET Kernels]
    BY <1>6 DEF create_archive
  <2> QED
    BY <1>6, <2>1 DEF create_archive, topVars, recordVars, bootVars, hostVars
<1>7. ASSUME NEW c \in Procs, create_snapshot(c) PROVE StoreTypes'
  <2>1. points' \subseteq 1 .. begun
    BY <1>7 DEF create_snapshot, Ids, Creating, At
  <2>2. modules[running] \subseteq Kernels
    BY <1>7 DEF create_snapshot, Layout, Creating, At
  <2>3. snapshot' \in [Points -> SUBSET Kernels]
    BY <1>7, <2>2 DEF create_snapshot
  <2> QED
    BY <1>7, <2>1, <2>3 DEF create_snapshot, topVars, recordVars, bootVars, hostVars
<1>8. ASSUME NEW c \in Procs, create_metadata(c) PROVE StoreTypes'
  <2>1. kernel' \in [Points -> Kernels \cup {None}]
    BY <1>8 DEF create_metadata, current_kernel
  <2> QED
    BY <1>8, <2>1 DEF create_metadata, topVars, recordVars, bootVars, hostVars
<1>9. ASSUME NEW c \in Procs, create_cleanup(c) PROVE StoreTypes'
  BY <1>9 DEF create_cleanup, topVars, recordVars, bootVars, hostVars
<1>10. ASSUME NEW c \in Procs, create_prune(c) PROVE StoreTypes'
  BY <1>10 DEF create_prune, At, topVars, recordVars, bootVars, hostVars
<1>11. ASSUME NEW c \in Procs, create_prune_files(c) PROVE StoreTypes'
  BY <1>11 DEF create_prune_files, At, topVars, recordVars, bootVars, hostVars
<1>12. ASSUME NEW c \in Procs, complete_interrupted(c) PROVE StoreTypes'
  BY <1>12 DEF complete_interrupted, At, topVars, pointVars, recordVars,
     bootVars, hostVars
<1>13. ASSUME NEW c \in Procs, refresh_done(c) PROVE StoreTypes'
  BY <1>13 DEF refresh_done, At, topVars, pointVars, recordVars, bootVars,
     hostVars
<1>14. ASSUME NEW c \in Procs, restore_copy(c) PROVE StoreTypes'
  <2> DEFINE p == arg[c]
             k == IF point_kernel(p) # None THEN point_kernel(p)
                  ELSE Newest(snapshot[p])
             n == Min(Unused)
  <2>1. CASE p \in points /\ k # None /\ Unused # {}
    <3>0. p \in points /\ Unused # {}
      BY <2>1
    <3>1. n \in Names /\ n \in Subvolumes
      BY <3>0, FreeName
    <3>2. p \in Points
      <4> HIDE DEF p
      <4> QED
        BY <3>0 DEF Points
    <3>3. k \in Kernels
      BY <2>1, <3>2, NewestIn DEF point_kernel
    <3> HIDE DEF p, k, n
    <3>4. /\ incoming' = [incoming EXCEPT ![n] = n]
          /\ modules' = [modules EXCEPT ![n] = snapshot[p]]
          /\ wanted' = [wanted EXCEPT ![n] = k]
          /\ oldRoot' = [oldRoot EXCEPT ![n] = root]
          /\ boot_ro' = FALSE
      BY <1>14, <2>1 DEF restore_copy, p, k, n
    <3>5. UNCHANGED <<root, replaced, pointVars, state, staged, boot, saved_entry,
                      hostVars, events>>
      BY <1>14 DEF restore_copy
    <3>6. /\ incoming' \in [Names -> Subvolumes \cup {None}]
          /\ modules' \in [Subvolumes -> SUBSET Kernels]
      BY <3>1, <3>2, <3>4
    <3>7. /\ wanted' \in [Names -> Kernels \cup {None}]
          /\ oldRoot' \in [Names -> Subvolumes]
      BY <3>1, <3>3, <3>4
    <3> QED
      BY <3>4, <3>5, <3>6, <3>7 DEF pointVars, hostVars
  <2>2. CASE ~(p \in points /\ k # None /\ Unused # {})
    BY <1>14, <2>2 DEF restore_copy, pointVars, hostVars
  <2> QED
    BY <2>1, <2>2
<1>15. ASSUME NEW c \in Procs, restore_record(c) PROVE StoreTypes'
  BY <1>15 DEF restore_record, At, topVars, pointVars, bootVars, hostVars
<1>16. ASSUME NEW c \in Procs, stage_boot_files(c) PROVE StoreTypes'
  <2> DEFINE found == Missing(c) \cap archive[arg[c]]
  <2>1. ASSUME found # {} PROVE Min(found) \in Kernels
    <3>1. arg[c] \in Points /\ archive[arg[c]] \subseteq Kernels
      BY <1>16 DEF stage_boot_files, Ids, Own, At
    <3>2. found \in SUBSET Nat /\ found \subseteq Kernels
      BY <3>1 DEF Kernels
    <3> HIDE DEF found
    <3> QED
      BY <2>1, <3>2, MinIn
  <2>2. boot' \subseteq Kernels
    BY <1>16, <2>1 DEF stage_boot_files
  <2> QED
    BY <1>16, <2>2 DEF stage_boot_files, topVars, pointVars, recordVars, hostVars
<1>17. ASSUME NEW c \in Procs, restore_staged(c) PROVE StoreTypes'
  <2>1. placed[c] \subseteq Kernels
    BY DEF TypeOK
  <2> QED
    BY <1>17, <2>1 DEF restore_staged, topVars, pointVars, bootVars, hostVars
<1>18. ASSUME NEW c \in Procs, restore_exchange(c) PROVE StoreTypes'
  <2>1. name[c] \in Names /\ incoming[name[c]] = name[c] /\ Names \subseteq Subvolumes
    BY <1>18 DEF restore_exchange, Ids, Layout, Own, At, Swapping, Names, Subvolumes
  <2> QED
    BY <1>18, <2>1 DEF restore_exchange, pointVars, recordVars, bootVars, hostVars
<1>19. ASSUME NEW c \in Procs, restore_rename(c) PROVE StoreTypes'
  <2>1. name[c] \in Names
    BY <1>19 DEF restore_rename, Ids, Swapping, At
  <2> QED
    BY <1>19, <2>1 DEF restore_rename, pointVars, recordVars, bootVars, hostVars
<1>20. ASSUME NEW c \in Procs, restore_swapped(c) PROVE StoreTypes'
  BY <1>20 DEF restore_swapped, At, topVars, pointVars, bootVars, hostVars
<1>21. ASSUME NEW c \in Procs, reconcile_retire(c) PROVE StoreTypes'
  BY <1>21 DEF reconcile_retire, At, topVars, pointVars, recordVars, hostVars
<1>22. ASSUME NEW c \in Procs, reconcile_default(c) PROVE StoreTypes'
  BY <1>22 DEF reconcile_default, At, topVars, pointVars, recordVars, hostVars
<1>23. ASSUME NEW c \in Procs, finish_restore(c) PROVE StoreTypes'
  BY <1>23 DEF finish_restore, At, topVars, pointVars, hostVars
<1>24. ASSUME NEW c \in Procs, undo_prepared(c) PROVE StoreTypes'
  BY <1>24 DEF undo_prepared, At, pointVars, recordVars, bootVars, hostVars
<1>25. ASSUME NEW c \in Procs, undo_boot(c) PROVE StoreTypes'
  BY <1>25 DEF undo_boot, At, topVars, pointVars, recordVars, hostVars
<1>26. ASSUME NEW c \in Procs, undo_record(c) PROVE StoreTypes'
  BY <1>26 DEF undo_record, At, topVars, pointVars, bootVars, hostVars
<1>27. ASSUME NEW c \in Procs, discard_root(c) PROVE StoreTypes'
  BY <1>27 DEF discard_root, At, pointVars, recordVars, bootVars, hostVars
<1>28. ASSUME NEW c \in Procs, discard_record(c) PROVE StoreTypes'
  BY <1>28 DEF discard_record, At, topVars, pointVars, bootVars, hostVars
<1>29. ASSUME NEW c \in Procs, Fail(c) PROVE StoreTypes'
  BY <1>29 DEF Fail, topVars, pointVars, recordVars, bootVars, hostVars
<1>30. ASSUME NEW c \in Procs, Kill(c) PROVE StoreTypes'
  BY <1>30 DEF Kill, topVars, pointVars, recordVars, bootVars, hostVars
<1>31. ASSUME NEW c \in Procs, KernelInstalled(c) PROVE StoreTypes'
  BY <1>31 DEF KernelInstalled, Maintenance, At, pointVars, recordVars,
     hostVars
<1>32. ASSUME NEW c \in Procs, KernelRemoved(c) PROVE StoreTypes'
  BY <1>32 DEF KernelRemoved, Maintenance, At, pointVars, recordVars, hostVars
<1>33. CASE RestartNormal
  <2>1. booted' \in Kernels /\ running' = root /\ boot_ro' = FALSE
    BY <1>33 DEF RestartNormal
  <2>2. /\ events' \in 0 .. MaxEvents
        /\ UNCHANGED <<topVars, pointVars, recordVars, boot, saved_entry, ahead>>
    BY <1>33 DEF RestartNormal, Restart, At
  <2> QED
    BY <2>1, <2>2 DEF topVars, pointVars, recordVars
<1>34. CASE RestartRecovery
  <2>1. booted' \in Kernels /\ running' = Recovery /\ boot_ro' = TRUE
    BY <1>34 DEF RestartRecovery
  <2>2. /\ events' \in 0 .. MaxEvents
        /\ UNCHANGED <<topVars, pointVars, recordVars, boot, saved_entry, ahead>>
    BY <1>34 DEF RestartRecovery, Restart, At
  <2> QED
    BY <2>1, <2>2 DEF topVars, pointVars, recordVars
<1>35. CASE UNCHANGED vars
  BY <1>35 DEF vars, topVars, pointVars, recordVars, bootVars, hostVars,
     procVars
<1> QED
  BY <1>1, <1>2, <1>3, <1>4, <1>5, <1>6, <1>7, <1>8, <1>9, <1>10, <1>11,
     <1>12, <1>13, <1>14, <1>15, <1>16, <1>17, <1>18, <1>19, <1>20, <1>21,
     <1>22, <1>23, <1>24, <1>25, <1>26, <1>27, <1>28, <1>29, <1>30, <1>31,
     <1>32, <1>33, <1>34, <1>35 DEF Next, Step

(* So do the variables of the commands, and what they are about.           *)
LEMMA CommandStep ==
    ASSUME TypeOK, Ids, [Next]_vars PROVE CommandTypes' /\ Ids'
<1> SUFFICES ASSUME CommandTypes, begun \in 0 .. MaxPoint, Ids PROVE CommandTypes' /\ Ids'
  BY DEF TypeOK, CommandTypes
<1>0. /\ points \in SUBSET Nat /\ points \subseteq Points
      /\ staged \in [Names -> SUBSET Kernels]
      /\ archive \in [Points -> SUBSET Kernels]
  BY SnapshotAssumption DEF TypeOK, Points
<1> USE SnapshotAssumption DEF CommandTypes, Pcs, Ids, Own, Undo, Swapping, Creating,
       Points, Names
<1>1. ASSUME NEW c \in Procs, command_create(c) PROVE CommandTypes' /\ Ids'
  BY <1>1 DEF command_create, Begin, At, Goto, topVars, recordVars, bootVars,
     hostVars
<1>2. ASSUME NEW c \in Procs, command_restore(c) PROVE CommandTypes' /\ Ids'
  <2>1. PICK p \in points : Begin(c, "restore_lock", p)
    BY <1>2 DEF command_restore
  <2>2. p \in Points /\ begun' = begun
    BY <1>2, <1>0 DEF command_restore
  <2> QED
    BY <2>1, <2>2 DEF Begin, At, Goto
<1>3. ASSUME NEW c \in Procs, command_refresh(c) PROVE CommandTypes' /\ Ids'
  BY <1>3 DEF command_refresh, Begin, At, Goto, topVars, recordVars,
     bootVars, hostVars
<1>4. ASSUME NEW c \in Procs, command_discard(c) PROVE CommandTypes' /\ Ids'
  BY <1>4 DEF command_discard, Begin, At, Goto, topVars, recordVars,
     bootVars, hostVars
<1>5. ASSUME NEW c \in Procs, open(c) PROVE CommandTypes' /\ Ids'
  <2>1. /\ lock = Free /\ lock' = c /\ begun' = begun /\ arg' = arg /\ name' = name
        /\ placed' = placed
    BY <1>5 DEF open, pointVars
  <2>2. CASE At(c, "create_lock") /\ Goto(c, "archive") /\ UNCHANGED todo
    BY <2>1, <2>2 DEF At, Goto
  <2>3. CASE At(c, "discard_lock") /\ Goto(c, "discard") /\ UNCHANGED todo
    BY <2>1, <2>3 DEF At, Goto
  <2>4. CASE /\ pc[c] \in {"restore_lock", "refresh_lock"}
             /\ Goto(c, "recover")
             /\ todo' = [todo EXCEPT ![c] = {n \in Names : state[n] \in {"prepared", "swapped"}}]
    <3>1. PICK S \in SUBSET Names : todo' = [todo EXCEPT ![c] = S]
      BY <2>4
    <3>2. todo' \in [Procs -> SUBSET Names]
      BY <3>1
    <3>3. pc' = [pc EXCEPT ![c] = "recover"]
      BY <2>4 DEF Goto
    <3> QED
      BY <2>1, <2>4, <3>2, <3>3
  <2> QED
    BY <1>5, <2>2, <2>3, <2>4 DEF open
<1>6. ASSUME NEW c \in Procs, create_archive(c) PROVE CommandTypes' /\ Ids'
  BY <1>6 DEF create_archive, At, Goto, topVars, recordVars, bootVars,
     hostVars, procVars
<1>7. ASSUME NEW c \in Procs, create_snapshot(c) PROVE CommandTypes' /\ Ids'
  BY <1>7 DEF create_snapshot, At, Goto, topVars, recordVars, bootVars,
     hostVars, procVars
<1>8. ASSUME NEW c \in Procs, create_metadata(c) PROVE CommandTypes' /\ Ids'
  BY <1>8 DEF create_metadata, At, Goto, topVars, recordVars, bootVars,
     hostVars, procVars
<1>9. ASSUME NEW c \in Procs, create_cleanup(c) PROVE CommandTypes' /\ Ids'
  <2>1. CASE At(c, "cleanup")
    BY <1>9, <2>1 DEF create_cleanup, At, Goto, procVars
  <2>2. CASE Exit(c)
    BY <1>9, <2>2, ExitKeeps DEF create_cleanup
  <2> QED
    BY <1>9, <2>1, <2>2 DEF create_cleanup
<1>10. ASSUME NEW c \in Procs, create_prune(c) PROVE CommandTypes' /\ Ids'
  <2>1. begun' = begun
    BY <1>10 DEF create_prune
  <2>2. CASE Cardinality(points) > KEEP
    <3>1. Oldest \in Points /\ Oldest \in 0 .. MaxPoint + MaxRestore
      <4>2. Oldest \in points
        BY <1>0, <2>2, OldestIn
      <4> QED
        BY <1>0, <4>2
    <3>2. /\ pc[c] = "prune" /\ name' = [name EXCEPT ![c] = Oldest]
          /\ pc' = [pc EXCEPT ![c] = "prune_files"]
          /\ UNCHANGED <<lock, arg, todo, placed>>
      BY <1>10, <2>2 DEF create_prune, At, Goto
    <3> QED
      BY <2>1, <3>1, <3>2
  <2>3. CASE ~(Cardinality(points) > KEEP)
    BY <1>10, <2>1, <2>3, ExitKeeps DEF create_prune
  <2> QED
    BY <2>2, <2>3
<1>11. ASSUME NEW c \in Procs, create_prune_files(c) PROVE CommandTypes' /\ Ids'
  BY <1>11 DEF create_prune_files, At, Goto, topVars, recordVars, bootVars,
     hostVars
<1>12. ASSUME NEW c \in Procs, complete_interrupted(c) PROVE CommandTypes' /\ Ids'
  <2> DEFINE n == Min(todo[c])
  <2>1. n \in Names
    <3>1. todo[c] \in SUBSET Nat /\ todo[c] \subseteq Names /\ todo[c] # {}
      BY <1>12 DEF complete_interrupted
    <3> QED
      BY <3>1, MinIn
  <2>2. /\ name' = [name EXCEPT ![c] = n] /\ placed' = [placed EXCEPT ![c] = staged[n]]
        /\ begun' = begun /\ lock' = lock /\ arg' = arg /\ todo' = todo
        /\ pc[c] = "recover"
    BY <1>12 DEF complete_interrupted, pointVars, At
  <2>3. PICK l \in {"rename", "undo", "swapped", "retire"} : pc' = [pc EXCEPT ![c] = l]
    BY <1>12 DEF complete_interrupted, Goto
  <2>4. placed' \in [Procs -> SUBSET Kernels]
    BY <1>0, <2>1, <2>2
  <2> HIDE DEF n
  <2> QED
    BY <2>1, <2>2, <2>3, <2>4
<1>13. ASSUME NEW c \in Procs, refresh_done(c) PROVE CommandTypes' /\ Ids'
  BY <1>13, ExitEffect DEF refresh_done, At, Goto, topVars, pointVars,
     recordVars, bootVars, hostVars, Others
<1>14. ASSUME NEW c \in Procs, restore_copy(c) PROVE CommandTypes' /\ Ids'
  <2>1. begun' = begun /\ pc[c] = "recover" /\ arg[c] # 0
    BY <1>14 DEF restore_copy, pointVars, At
  <2>2. CASE Exit(c)
    BY <2>1, <2>2, ExitKeeps
  <2>3. CASE /\ Unused # {}
             /\ name' = [name EXCEPT ![c] = Min(Unused)] /\ Goto(c, "record")
             /\ UNCHANGED <<lock, arg, todo, placed>>
    <3>1. Min(Unused) \in Names
      <4>1. Unused \in SUBSET Nat /\ Unused \subseteq Names
        BY DEF Unused
      <4> QED
        BY <2>3, <4>1, MinIn
    <3> QED
      BY <2>1, <2>3, <3>1 DEF Goto
  <2> QED
    BY <1>14, <2>2, <2>3 DEF restore_copy
<1>15. ASSUME NEW c \in Procs, restore_record(c) PROVE CommandTypes' /\ Ids'
  BY <1>15 DEF restore_record, At, Goto, topVars, pointVars, bootVars,
     hostVars, procVars
<1>16. ASSUME NEW c \in Procs, stage_boot_files(c) PROVE CommandTypes' /\ Ids'
  <2> DEFINE found == Missing(c) \cap archive[arg[c]]
  <2>1. /\ pc[c] = "stage" /\ begun' = begun /\ lock' = lock /\ arg' = arg
        /\ name' = name /\ todo' = todo
    BY <1>16 DEF stage_boot_files, pointVars, At
  <2>2. CASE /\ found # {}
             /\ placed' = [placed EXCEPT ![c] = placed[c] \cup {Min(found)}]
             /\ UNCHANGED pc
    <3>1. Min(found) \in Kernels
      <4>1. found \subseteq Kernels
        BY <1>0, <2>1
      <4> HIDE DEF found
      <4> QED
        BY <2>2, <4>1, FoundIn
    <3> HIDE DEF found
    <3>3. placed[c] \cup {Min(found)} \in SUBSET Kernels
      BY <3>1
    <3>4. PICK S \in SUBSET Kernels : placed' = [placed EXCEPT ![c] = S]
      BY <2>2, <3>3
    <3>2. placed' \in [Procs -> SUBSET Kernels]
      BY <3>4
    <3> QED
      BY <2>1, <2>2, <3>2
  <2>3. CASE Goto(c, "undo") /\ UNCHANGED placed
    BY <2>1, <2>3 DEF Goto
  <2>4. CASE Goto(c, "staged") /\ UNCHANGED placed
    BY <2>1, <2>4 DEF Goto
  <2>6. \/ Goto(c, IF Missing(c) # {} /\ archive[arg[c]] = {} THEN "undo" ELSE "staged")
           /\ UNCHANGED placed
        \/ /\ found # {}
           /\ placed' = [placed EXCEPT ![c] = placed[c] \cup {Min(found)}]
           /\ UNCHANGED pc
    BY <1>16 DEF stage_boot_files
  <2>5. \/ /\ found # {}
           /\ placed' = [placed EXCEPT ![c] = placed[c] \cup {Min(found)}]
           /\ UNCHANGED pc
        \/ \E l \in {"undo", "staged"} : Goto(c, l) /\ UNCHANGED placed
    BY <2>6
  <2> HIDE DEF found
  <2> QED
    BY <2>2, <2>3, <2>4, <2>5
<1>17. ASSUME NEW c \in Procs, restore_staged(c) PROVE CommandTypes' /\ Ids'
  BY <1>17 DEF restore_staged, At, Goto, topVars, pointVars, bootVars,
     hostVars, procVars
<1>18. ASSUME NEW c \in Procs, restore_exchange(c) PROVE CommandTypes' /\ Ids'
  BY <1>18 DEF restore_exchange, At, Goto, pointVars, recordVars, bootVars,
     hostVars, procVars
<1>19. ASSUME NEW c \in Procs, restore_rename(c) PROVE CommandTypes' /\ Ids'
  BY <1>19 DEF restore_rename, At, Goto, pointVars, recordVars, bootVars,
     hostVars, procVars
<1>20. ASSUME NEW c \in Procs, restore_swapped(c) PROVE CommandTypes' /\ Ids'
  BY <1>20 DEF restore_swapped, At, Goto, topVars, pointVars, bootVars,
     hostVars, procVars
<1>21. ASSUME NEW c \in Procs, reconcile_retire(c) PROVE CommandTypes' /\ Ids'
  <2> USE <1>21 DEF reconcile_retire
  <2>1. begun' = begun /\ pc[c] = "retire" /\ lock = c
    BY DEF At, pointVars
  <2>2. CASE Leave(c)
    BY <2>1, <2>2, LeaveKeeps
  <2>3. CASE UNCHANGED <<pc, lock, procVars>>
    BY <2>1, <2>3 DEF procVars
  <2>4. CASE Exit(c)
    BY <2>1, <2>4, ExitKeeps
  <2>5. CASE Goto(c, "default") /\ UNCHANGED <<lock, procVars>>
    BY <2>1, <2>5 DEF Goto, procVars
  <2> QED
    BY <2>2, <2>3, <2>4, <2>5
<1>22. ASSUME NEW c \in Procs, reconcile_default(c) PROVE CommandTypes' /\ Ids'
  <2> USE <1>22 DEF reconcile_default
  <2>1. begun' = begun /\ pc[c] = "default" /\ lock = c
    BY DEF At, pointVars
  <2>2. CASE Leave(c)
    BY <2>1, <2>2, LeaveKeeps
  <2>3. CASE Goto(c, "complete") /\ UNCHANGED <<lock, procVars>>
    BY <2>1, <2>3 DEF Goto, procVars
  <2> QED
    BY <2>2, <2>3
<1>23. ASSUME NEW c \in Procs, finish_restore(c) PROVE CommandTypes' /\ Ids'
  <2>1. begun' = begun /\ pc[c] = "complete" /\ lock = c /\ Leave(c)
    BY <1>23 DEF finish_restore, At, pointVars
  <2> QED
    BY <2>1, LeaveKeeps
<1>24. ASSUME NEW c \in Procs, undo_prepared(c) PROVE CommandTypes' /\ Ids'
  <2> USE <1>24 DEF undo_prepared
  <2>1. begun' = begun /\ pc[c] = "undo" /\ lock = c
    BY DEF At, pointVars
  <2>2. CASE Leave(c)
    BY <2>1, <2>2, LeaveKeeps
  <2>3. CASE Goto(c, "undo_boot") /\ UNCHANGED <<lock, procVars>>
    BY <2>1, <2>3 DEF Goto, procVars
  <2> QED
    BY <2>2, <2>3
<1>25. ASSUME NEW c \in Procs, undo_boot(c) PROVE CommandTypes' /\ Ids'
  BY <1>25 DEF undo_boot, At, Goto, topVars, pointVars, recordVars, hostVars,
     procVars
<1>26. ASSUME NEW c \in Procs, undo_record(c) PROVE CommandTypes' /\ Ids'
  <2>1. begun' = begun /\ pc[c] = "undo_record" /\ lock = c /\ Leave(c)
    BY <1>26 DEF undo_record, At, pointVars
  <2> QED
    BY <2>1, LeaveKeeps
<1>27. ASSUME NEW c \in Procs, discard_root(c) PROVE CommandTypes' /\ Ids'
  <2> USE <1>27 DEF discard_root
  <2>1. begun' = begun /\ pc[c] = "discard"
    BY DEF At, pointVars
  <2>2. CASE Exit(c)
    BY <2>1, <2>2, ExitKeeps
  <2>3. CASE Goto(c, "discard_record") /\ UNCHANGED <<lock, procVars>>
    BY <2>1, <2>3 DEF Goto, procVars
  <2> QED
    BY <2>2, <2>3
<1>28. ASSUME NEW c \in Procs, discard_record(c) PROVE CommandTypes' /\ Ids'
  BY <1>28, ExitEffect DEF discard_record, At, Goto, topVars, pointVars,
     bootVars, hostVars, Others
<1>29. ASSUME NEW c \in Procs, Fail(c) PROVE CommandTypes' /\ Ids'
  <2> USE <1>29 DEF Fail
  <2>1. begun' = begun /\ lock' = lock /\ arg' = arg /\ name' = name /\ todo' = todo
    BY DEF pointVars
  <2>2. CASE /\ pc[c] \in {"archive", "snapshot", "metadata"} /\ Goto(c, "cleanup")
             /\ UNCHANGED placed
    BY <2>1, <2>2 DEF Goto
  <2>3. CASE /\ pc[c] \in {"record", "stage", "staged", "exchange"} /\ Goto(c, "undo")
             /\ \E S \in {{}, placed[c]} : placed' = [placed EXCEPT ![c] = S]
    <3>1. PICK S \in SUBSET Kernels : placed' = [placed EXCEPT ![c] = S]
      BY <2>3
    <3> QED
      BY <2>1, <2>3, <3>1 DEF Goto
  <2> QED
    BY <2>2, <2>3
<1>30. ASSUME NEW c \in Procs, Kill(c) PROVE CommandTypes' /\ Ids'
  BY <1>30, ExitEffect DEF Kill, Goto, topVars, pointVars, recordVars,
     bootVars, hostVars, Others
<1>31. ASSUME NEW c \in Procs, KernelInstalled(c) PROVE CommandTypes' /\ Ids'
  BY <1>31 DEF KernelInstalled, Maintenance, At, Goto, pointVars, recordVars,
     hostVars, procVars
<1>32. ASSUME NEW c \in Procs, KernelRemoved(c) PROVE CommandTypes' /\ Ids'
  BY <1>32 DEF KernelRemoved, Maintenance, At, Goto, pointVars, recordVars,
     hostVars, procVars
<1>33. CASE RestartNormal
  BY <1>33 DEF RestartNormal, Restart, At, topVars, pointVars, recordVars
<1>34. CASE RestartRecovery
  BY <1>34 DEF RestartRecovery, Restart, At, topVars, pointVars, recordVars
<1>35. CASE UNCHANGED vars
  BY <1>35 DEF vars, topVars, pointVars, recordVars, bootVars, hostVars,
     procVars
<1> QED
  BY <1>1, <1>2, <1>3, <1>4, <1>5, <1>6, <1>7, <1>8, <1>9, <1>10, <1>11,
     <1>12, <1>13, <1>14, <1>15, <1>16, <1>17, <1>18, <1>19, <1>20, <1>21,
     <1>22, <1>23, <1>24, <1>25, <1>26, <1>27, <1>28, <1>29, <1>30, <1>31,
     <1>32, <1>33, <1>34, <1>35 DEF Next, Step

(* Where a command counts on nothing in the layout.                        *)
Neutral == Pcs \ (Creating \cup Own \cup {"rename", "discard_lock", "discard"})

(* A step of c that leaves the subvolumes, the running system and the       *)
(* snapshots alone keeps the layout, when it keeps what c counts on.       *)
LEMMA LayoutCommand ==
    ASSUME Layout, NEW c \in Procs,
           pc'[c] \in Creating => running # Recovery,
           pc'[c] \in Own => incoming[name'[c]] = name'[c],
           pc'[c] = "rename" => incoming[name'[c]] # None,
           pc'[c] \in {"discard_lock", "discard"} /\ c \notin ahead =>
              /\ incoming[arg'[c]] = None /\ running # replaced[arg'[c]]
              /\ modules[arg'[c]] # {},
           \A d \in Procs \ {c} : pc'[d] = pc[d] /\ arg'[d] = arg[d] /\ name'[d] = name[d],
           points' \subseteq points, UNCHANGED <<topVars, snapshot, hostVars>>
    PROVE  Layout'
<1>1. UNCHANGED <<root, incoming, replaced, modules, snapshot, running, booted, ahead>>
  BY DEF topVars, hostVars
<1>3. ASSUME NEW d \in Procs
      PROVE  /\ pc'[d] \in Creating => running' # Recovery
             /\ pc'[d] \in Own => incoming'[name'[d]] = name'[d]
             /\ pc'[d] = "rename" => incoming'[name'[d]] # None
             /\ pc'[d] \in {"discard_lock", "discard"} /\ d \notin ahead' =>
                   /\ incoming'[arg'[d]] = None /\ running' # replaced'[arg'[d]]
                   /\ modules'[arg'[d]] # {}
  <2>1. CASE d = c
    BY <1>1, <2>1
  <2>2. CASE d # c
    BY <1>1, <2>2 DEF Layout
  <2> QED
    BY <2>1, <2>2
<1> QED
  BY <1>1, <1>3 DEF Layout

(* So does one that ends where nothing is counted on.                      *)
LEMMA LayoutFrame ==
    ASSUME Layout, NEW c \in Procs, pc'[c] \in Neutral, Others(c), points' \subseteq points,
           UNCHANGED <<topVars, snapshot, hostVars>>
    PROVE  Layout'
<1>1. /\ pc'[c] \notin Creating /\ pc'[c] \notin Own /\ pc'[c] # "rename"
      /\ pc'[c] \notin {"discard_lock", "discard"}
  BY DEF Neutral
<1>2. \A d \in Procs \ {c} : pc'[d] = pc[d] /\ arg'[d] = arg[d] /\ name'[d] = name[d]
  BY DEF Others
<1> QED
  BY <1>1, <1>2, LayoutCommand

(* The layout keeps its shape.                                             *)
LEMMA LayoutStep ==
    ASSUME TypeOK, Ids, Layout, [Next]_vars PROVE Layout'
<1>0. CommandTypes /\ StoreTypes
  BY DEF TypeOK, CommandTypes, StoreTypes
<1> USE <1>0, SnapshotAssumption DEF CommandTypes, StoreTypes, Layout,
       Creating, Own
<1>1. ASSUME NEW c \in Procs, command_create(c) PROVE Layout'
  <2>1. /\ pc' = [pc EXCEPT ![c] = "create_lock"] /\ running # Recovery
        /\ \A d \in Procs \ {c} : pc'[d] = pc[d] /\ arg'[d] = arg[d] /\ name'[d] = name[d]
        /\ points' \subseteq points /\ UNCHANGED <<topVars, snapshot, hostVars>>
    BY <1>1 DEF command_create, Begin, Goto, hostVars
  <2> QED
    BY <2>1, LayoutCommand
<1>2. ASSUME NEW c \in Procs, command_restore(c) \/ command_refresh(c) PROVE Layout'
  <2>1. /\ pc'[c] \in Neutral /\ Others(c)
        /\ points' \subseteq points /\ UNCHANGED <<topVars, snapshot, hostVars>>
    BY <1>2 DEF Neutral, Pcs, command_restore, command_refresh, Begin, Goto, hostVars, Others
  <2> QED
    BY <2>1, LayoutFrame
<1>4. ASSUME NEW c \in Procs, command_discard(c) PROVE Layout'
  <2>1. PICK n \in Names :
           /\ running # replaced[n]
           /\ pc' = [pc EXCEPT ![c] = "discard_lock"] /\ arg' = [arg EXCEPT ![c] = n]
           /\ ahead' = IF replaced[n] = None THEN ahead \cup {c} ELSE ahead \ {c}
    BY <1>4 DEF command_discard, Begin, Goto
  <2>2. UNCHANGED <<root, incoming, replaced, modules, points, snapshot, running, booted, name>>
    BY <1>4 DEF command_discard, Begin, topVars
  <2>3. ASSUME NEW d \in Procs
        PROVE  /\ pc'[d] \in Creating => running' # Recovery
               /\ pc'[d] \in Own => incoming'[name'[d]] = name'[d]
               /\ pc'[d] = "rename" => incoming'[name'[d]] # None
               /\ pc'[d] \in {"discard_lock", "discard"} /\ d \notin ahead' =>
                     /\ incoming'[arg'[d]] = None /\ running' # replaced'[arg'[d]]
                     /\ modules'[arg'[d]] # {}
    <3>1. CASE d = c
      BY <2>1, <2>2, <3>1
    <3>2. CASE d # c
      BY <2>1, <2>2, <3>2
    <3> QED
      BY <3>1, <3>2
  <2> QED
    BY <2>2, <2>3
<1>5. ASSUME NEW c \in Procs, open(c) PROVE Layout'
  BY <1>5 DEF open, At, Goto, topVars, pointVars, recordVars, bootVars,
     hostVars
<1>6. ASSUME NEW c \in Procs, create_archive(c) PROVE Layout'
  BY <1>6 DEF create_archive, At, Goto, topVars, recordVars, bootVars,
     hostVars, procVars
<1>7. ASSUME NEW c \in Procs, create_snapshot(c) PROVE Layout'
  <2>1. arg[c] \in Points /\ snapshot' = [snapshot EXCEPT ![arg[c]] = modules[running]]
    BY <1>7 DEF create_snapshot, At, Ids, Points
  <2>2. modules[running] # {}
    BY <1>7 DEF create_snapshot, At
  <2>3. \A p \in points' : snapshot'[p] # {}
    BY <1>7, <2>1, <2>2 DEF create_snapshot
  <2>4. ASSUME NEW d \in Procs \ {c}
        PROVE  pc'[d] = pc[d] /\ name'[d] = name[d] /\ arg'[d] = arg[d]
    BY <1>7 DEF create_snapshot, Goto, procVars
  <2> QED
    BY <1>7, <2>3, <2>4 DEF create_snapshot, At, Goto, topVars, hostVars, procVars
<1>8. ASSUME NEW c \in Procs, create_metadata(c) PROVE Layout'
  BY <1>8 DEF create_metadata, At, Goto, topVars, recordVars, bootVars,
     hostVars, procVars
<1>9. ASSUME NEW c \in Procs, create_cleanup(c) PROVE Layout'
  <2>1. /\ pc'[c] \in Neutral /\ Others(c)
        /\ points' \subseteq points /\ UNCHANGED <<topVars, snapshot, hostVars>>
    BY <1>9, ExitEffect DEF Neutral, Pcs, create_cleanup, At, Goto, recordVars,
       bootVars, procVars, Others
  <2> QED
    BY <2>1, LayoutFrame
<1>10. ASSUME NEW c \in Procs, create_prune(c) PROVE Layout'
  <2>1. /\ pc'[c] \in Neutral /\ Others(c)
        /\ points' \subseteq points /\ UNCHANGED <<topVars, snapshot, hostVars>>
    BY <1>10, ExitEffect DEF Neutral, Pcs, create_prune, At, Goto, recordVars,
       bootVars, Others
  <2> QED
    BY <2>1, LayoutFrame
<1>11. ASSUME NEW c \in Procs, create_prune_files(c) PROVE Layout'
  <2>1. /\ pc'[c] \in Neutral /\ Others(c)
        /\ points' \subseteq points /\ UNCHANGED <<topVars, snapshot, hostVars>>
    BY <1>11 DEF Neutral, Pcs, create_prune_files, At, Goto, recordVars,
       bootVars, Others
  <2> QED
    BY <2>1, LayoutFrame
<1>12. ASSUME NEW c \in Procs, complete_interrupted(c) PROVE Layout'
  <2> DEFINE n == Min(todo[c])
  <2>1. n \in Names
    <3>1. todo[c] \in SUBSET Nat /\ todo[c] \subseteq Names /\ todo[c] # {}
      BY <1>12 DEF complete_interrupted, Names
    <3> QED
      BY <3>1, MinIn
  <2>2. /\ name' = [name EXCEPT ![c] = n] /\ arg' = arg
        /\ UNCHANGED <<topVars, points, snapshot, hostVars>>
        /\ \/ incoming[n] = oldRoot[n] /\ Goto(c, "rename")
           \/ \E l \in {"undo", "swapped", "retire"} : Goto(c, l)
    BY <1>12 DEF complete_interrupted, pointVars
  <2> HIDE DEF n
  <2>3. CASE incoming[n] = oldRoot[n] /\ Goto(c, "rename")
    <3>1. oldRoot[n] # None
      BY <2>1
    <3>2. /\ pc'[c] = "rename" /\ name'[c] = n
          /\ \A d \in Procs \ {c} : pc'[d] = pc[d] /\ arg'[d] = arg[d] /\ name'[d] = name[d]
      BY <2>2, <2>3 DEF Goto
    <3>3. incoming[name'[c]] # None
      BY <2>3, <3>1, <3>2
    <3>4. /\ pc'[c] \notin Creating /\ pc'[c] \notin Own
          /\ pc'[c] \notin {"discard_lock", "discard"} /\ points' \subseteq points
          /\ UNCHANGED <<topVars, snapshot, hostVars>>
      BY <2>2, <3>2
    <3> HIDE DEF Layout, Creating, Own, CommandTypes, StoreTypes
    <3> QED
      BY <3>2, <3>3, <3>4, LayoutCommand
  <2>4. ASSUME NEW l \in {"undo", "swapped", "retire"}, Goto(c, l) PROVE Layout'
    <3>1. /\ pc'[c] = l
          /\ \A d \in Procs \ {c} : pc'[d] = pc[d] /\ arg'[d] = arg[d] /\ name'[d] = name[d]
      BY <2>2, <2>4 DEF Goto
    <3> QED
      BY <2>2, <2>4, <3>1, LayoutCommand
  <2> QED
    BY <2>2, <2>3, <2>4
<1>13. ASSUME NEW c \in Procs, refresh_done(c) PROVE Layout'
  <2>1. /\ pc'[c] \in Neutral /\ Others(c)
        /\ points' \subseteq points /\ UNCHANGED <<topVars, snapshot, hostVars>>
    BY <1>13, ExitEffect DEF Neutral, Pcs, refresh_done, At, Goto, pointVars,
       recordVars, bootVars
  <2> QED
    BY <2>1, LayoutFrame
<1>14. ASSUME NEW c \in Procs, restore_copy(c) PROVE Layout'
  <2>0. \A d \in Procs \ {c} : pc[d] \notin Own /\ pc[d] \notin {"rename", "discard"}
    BY <1>14 DEF restore_copy, At
  <2>1. CASE Exit(c) /\ UNCHANGED <<incoming, modules>>
    <3>1. /\ pc'[c] \in Neutral /\ Others(c)
          /\ points' \subseteq points /\ UNCHANGED <<topVars, snapshot, hostVars>>
      BY <1>14, <2>1, ExitEffect DEF restore_copy, Neutral, topVars, pointVars, Pcs
    <3> QED
      BY <3>1, LayoutFrame
  <2>2. CASE /\ arg[c] \in points /\ Unused # {}
             /\ incoming' = [incoming EXCEPT ![Min(Unused)] = Min(Unused)]
             /\ modules' = [modules EXCEPT ![Min(Unused)] = snapshot[arg[c]]]
             /\ name' = [name EXCEPT ![c] = Min(Unused)]
             /\ Goto(c, "record") /\ UNCHANGED arg
    <3> DEFINE n == Min(Unused)
    <3>1. n \in Names /\ n \in Subvolumes /\ modules[n] = {}
      BY <2>2, FreeName
    <3>2. /\ snapshot[arg[c]] # {} /\ incoming[n] = None /\ replaced[n] = None
          /\ root # n /\ running # n
      BY <2>2, <3>1
    <3>3. /\ incoming' = [incoming EXCEPT ![n] = n]
          /\ modules' = [modules EXCEPT ![n] = snapshot[arg[c]]]
          /\ name' = [name EXCEPT ![c] = n] /\ pc' = [pc EXCEPT ![c] = "record"]
          /\ arg' = arg
      BY <2>2 DEF Goto
    <3>4. UNCHANGED <<root, replaced, points, snapshot, running, booted, ahead>>
      BY <1>14 DEF restore_copy, pointVars, hostVars
    <3> HIDE DEF n
    <3>6. \A m \in Names :
             /\ incoming'[m] = None \/ replaced'[m] = None
             /\ incoming'[m] = m => root' # m /\ running' # m
             /\ modules'[m] = {} => /\ incoming'[m] = None /\ replaced'[m] = None
                                    /\ root' # m /\ running' # m
      BY <3>1, <3>2, <3>3, <3>4 DEF Names, Subvolumes
    <3>7. running' # Recovery => booted' \in modules'[running']
      BY <3>1, <3>2, <3>3, <3>4
    <3>8. ASSUME NEW d \in Procs
          PROVE  /\ pc'[d] \in Creating => running' # Recovery
                 /\ pc'[d] \in Own => incoming'[name'[d]] = name'[d]
                 /\ pc'[d] = "rename" => incoming'[name'[d]] # None
                 /\ pc'[d] \in {"discard_lock", "discard"} /\ d \notin ahead' =>
                       /\ incoming'[arg'[d]] = None /\ running' # replaced'[arg'[d]]
                       /\ modules'[arg'[d]] # {}
      <4>1. CASE d = c
        BY <3>1, <3>3, <3>4, <4>1
      <4>2. CASE d # c
        <5>1. pc'[d] = pc[d] /\ arg'[d] = arg[d]
          BY <3>3, <4>2
        <5>2. pc[d] = "discard_lock" /\ d \notin ahead =>
                 arg[d] \in Names /\ arg[d] # n /\ arg[d] \in Subvolumes
          BY <3>1 DEF Ids, Names, Subvolumes
        <5> QED
          BY <2>0, <3>1, <3>3, <3>4, <4>2, <5>1, <5>2
      <4> QED
        BY <4>1, <4>2
    <3> QED
      BY <3>4, <3>6, <3>7, <3>8
  <2> QED
    BY <1>14, <2>1, <2>2 DEF restore_copy
<1>15. ASSUME NEW c \in Procs, restore_record(c) PROVE Layout'
  BY <1>15 DEF restore_record, At, Goto, topVars, pointVars, bootVars,
     hostVars, procVars
<1>16. ASSUME NEW c \in Procs, stage_boot_files(c) PROVE Layout'
  BY <1>16 DEF stage_boot_files, At, Goto, topVars, pointVars, recordVars,
     hostVars
<1>17. ASSUME NEW c \in Procs, restore_staged(c) PROVE Layout'
  BY <1>17 DEF restore_staged, At, Goto, topVars, pointVars, bootVars,
     hostVars, procVars
<1>18. ASSUME NEW c \in Procs, restore_exchange(c) PROVE Layout'
  <2>1. /\ name[c] \in Names /\ incoming[name[c]] = name[c] /\ root # name[c]
        /\ root # None /\ modules[name[c]] # {} /\ replaced[name[c]] = None
        /\ name[c] # None
    <3>1. name[c] \in Names /\ pc[c] = "exchange"
      BY <1>18 DEF restore_exchange, At, Ids
    <3>2. name[c] \in Subvolumes
      BY <3>1 DEF Names, Subvolumes
    <3> QED
      BY <3>1, <3>2
  <2>2. /\ incoming' = [incoming EXCEPT ![name[c]] = root] /\ root' = name[c]
        /\ pc' = [pc EXCEPT ![c] = "rename"]
        /\ UNCHANGED <<replaced, modules, points, snapshot, running, booted, name, arg,
                       ahead>>
    BY <1>18, <2>1 DEF restore_exchange, Goto, pointVars, hostVars, procVars
  <2>3. \A d \in Procs \ {c} : pc[d] \notin Own /\ pc[d] \notin {"rename", "discard"}
    BY <1>18 DEF restore_exchange, At
  <2>5. \A m \in Names :
           /\ incoming'[m] = None \/ replaced'[m] = None
           /\ incoming'[m] = m => root' # m /\ running' # m
           /\ modules'[m] = {} => /\ incoming'[m] = None /\ replaced'[m] = None
                                  /\ root' # m /\ running' # m
    BY <2>1, <2>2
  <2>6. ASSUME NEW d \in Procs
        PROVE  /\ pc'[d] \in Creating => running' # Recovery
               /\ pc'[d] \in Own => incoming'[name'[d]] = name'[d]
               /\ pc'[d] = "rename" => incoming'[name'[d]] # None
               /\ pc'[d] \in {"discard_lock", "discard"} /\ d \notin ahead' =>
                     /\ incoming'[arg'[d]] = None /\ running' # replaced'[arg'[d]]
                     /\ modules'[arg'[d]] # {}
    <3>1. CASE d = c
      BY <2>1, <2>2, <3>1
    <3>2. CASE d # c
      <4>1. pc[d] = "discard_lock" /\ d \notin ahead => arg[d] \in Names /\ arg[d] # name[c]
        BY <2>1 DEF Ids
      <4>2. pc'[d] = pc[d] /\ name'[d] = name[d] /\ arg'[d] = arg[d]
        BY <2>2, <3>2
      <4> QED
        BY <2>1, <2>2, <2>3, <3>2, <4>1, <4>2
    <3> QED
      BY <3>1, <3>2
  <2> QED
    BY <2>2, <2>5, <2>6
<1>19. ASSUME NEW c \in Procs, restore_rename(c) PROVE Layout'
  <2>1. /\ replaced' = [replaced EXCEPT ![name[c]] = incoming[name[c]]]
        /\ incoming' = [incoming EXCEPT ![name[c]] = None]
        /\ pc' = [pc EXCEPT ![c] = "swapped"]
        /\ UNCHANGED <<root, modules, points, snapshot, running, booted, name, arg, ahead>>
    BY <1>19 DEF restore_rename, Goto, pointVars, hostVars, procVars
  <2>2. /\ name[c] \in Names /\ incoming[name[c]] # None /\ modules[name[c]] # {}
        /\ replaced[name[c]] = None
    <3>1. name[c] \in Names /\ pc[c] = "rename"
      BY <1>19 DEF restore_rename, At, Ids, Swapping
    <3> QED
      BY <3>1
  <2>3. \A d \in Procs \ {c} : pc[d] \notin Own /\ pc[d] \notin {"rename", "discard"}
    BY <1>19 DEF restore_rename, At
  <2>5. \A m \in Names :
           /\ incoming'[m] = None \/ replaced'[m] = None
           /\ incoming'[m] = m => root' # m /\ running' # m
           /\ modules'[m] = {} => /\ incoming'[m] = None /\ replaced'[m] = None
                                  /\ root' # m /\ running' # m
    BY <2>1, <2>2
  <2>6. ASSUME NEW d \in Procs
        PROVE  /\ pc'[d] \in Creating => running' # Recovery
               /\ pc'[d] \in Own => incoming'[name'[d]] = name'[d]
               /\ pc'[d] = "rename" => incoming'[name'[d]] # None
               /\ pc'[d] \in {"discard_lock", "discard"} /\ d \notin ahead' =>
                     /\ incoming'[arg'[d]] = None /\ running' # replaced'[arg'[d]]
                     /\ modules'[arg'[d]] # {}
    <3>1. CASE d = c
      BY <2>1, <3>1
    <3>2. CASE d # c
      <4>1. pc[d] = "discard_lock" /\ d \notin ahead => arg[d] # name[c]
        BY <2>2 DEF Ids
      <4>2. pc'[d] = pc[d] /\ name'[d] = name[d] /\ arg'[d] = arg[d]
        BY <2>1, <3>2
      <4> QED
        BY <2>1, <2>2, <2>3, <3>2, <4>1, <4>2
    <3> QED
      BY <3>1, <3>2
  <2> QED
    BY <2>1, <2>5, <2>6
<1>20. ASSUME NEW c \in Procs, restore_swapped(c) PROVE Layout'
  BY <1>20 DEF restore_swapped, At, Goto, topVars, pointVars, bootVars,
     hostVars, procVars
<1>21. ASSUME NEW c \in Procs, reconcile_retire(c) PROVE Layout'
  <2>0. /\ lock = c /\ pc[c] = "retire" /\ points' = points
        /\ UNCHANGED <<topVars, snapshot, hostVars>>
    BY <1>21 DEF reconcile_retire, At, pointVars
  <2>1. CASE Leave(c)
    BY <2>0, <2>1, LeaveEffect, LayoutFrame DEF Neutral, Pcs
  <2>2. CASE Exit(c)
    BY <2>0, <2>2, ExitEffect, LayoutFrame DEF Neutral, Pcs
  <2>3. CASE UNCHANGED <<pc, lock, procVars>>
    BY <2>0, <2>3 DEF topVars, hostVars, procVars
  <2>4. CASE Goto(c, "default") /\ UNCHANGED <<lock, procVars>>
    BY <2>0, <2>4 DEF topVars, hostVars, procVars, Goto
  <2> QED
    BY <1>21, <2>1, <2>2, <2>3, <2>4 DEF reconcile_retire
<1>22. ASSUME NEW c \in Procs, reconcile_default(c) PROVE Layout'
  <2>0. lock = c
    BY <1>22 DEF reconcile_default, At
  <2>1. /\ pc'[c] \in Neutral /\ Others(c)
        /\ points' \subseteq points /\ UNCHANGED <<topVars, snapshot, hostVars>>
    BY <1>22, <2>0, LeaveEffect DEF Neutral, Pcs, reconcile_default, At, Goto,
       pointVars, recordVars, procVars, Others
  <2> QED
    BY <2>1, LayoutFrame
<1>23. ASSUME NEW c \in Procs, finish_restore(c) PROVE Layout'
  <2>0. lock = c
    BY <1>23 DEF finish_restore, At
  <2>1. /\ pc'[c] \in Neutral /\ Others(c)
        /\ points' \subseteq points /\ UNCHANGED <<topVars, snapshot, hostVars>>
    BY <1>23, <2>0, LeaveEffect DEF Neutral, Pcs, finish_restore, At, Goto,
       pointVars
  <2> QED
    BY <2>1, LayoutFrame
<1>24. ASSUME NEW c \in Procs, undo_prepared(c) PROVE Layout'
  <2>0. /\ lock = c /\ name[c] \in Names
        /\ UNCHANGED <<root, replaced, modules, points, snapshot, hostVars>>
    BY <1>24 DEF undo_prepared, At, Ids, Undo, pointVars
  <2>1. CASE UNCHANGED incoming
    <3>1. pc'[c] \in Neutral /\ Others(c)
      BY <1>24, <2>0, LeaveEffect DEF undo_prepared, Goto, Neutral, Others, procVars, Pcs
    <3> QED
      BY <2>0, <2>1, <3>1, LayoutFrame DEF topVars
  <2>2. CASE /\ incoming[name[c]] = name[c]
             /\ incoming' = [incoming EXCEPT ![name[c]] = None]
             /\ Goto(c, "undo_boot") /\ UNCHANGED <<lock, procVars>>
    <3>1. \A d \in Procs \ {c} : pc[d] \notin Own /\ pc[d] \notin {"rename", "discard"}
      BY <2>0, OthersWait
    <3>2. UNCHANGED <<running, booted, ahead, arg, name>>
      BY <2>0, <2>2 DEF hostVars, procVars
    <3>4. /\ pc' = [pc EXCEPT ![c] = "undo_boot"]
          /\ \A d \in Procs : pc[d] = "discard_lock" => arg[d] \in Names
      BY <2>2 DEF Goto, Ids
    <3>5. \A n \in Names : incoming'[n] = incoming[n] \/ incoming'[n] = None
      BY <2>0, <2>2
    <3>3. ASSUME NEW d \in Procs
          PROVE  /\ pc'[d] \in Creating => running' # Recovery
                 /\ pc'[d] \in Own => incoming'[name'[d]] = name'[d]
                 /\ pc'[d] = "rename" => incoming'[name'[d]] # None
                 /\ pc'[d] \in {"discard_lock", "discard"} /\ d \notin ahead' =>
                       /\ incoming'[arg'[d]] = None /\ running' # replaced'[arg'[d]]
                       /\ modules'[arg'[d]] # {}
      <4>1. CASE d = c
        BY <2>2, <4>1 DEF Goto
      <4>2. CASE d # c
        <5>1. pc'[d] = pc[d] /\ pc[d] \notin Own /\ pc[d] \notin {"rename", "discard"}
          BY <3>1, <3>4, <4>2
        <5>2. pc[d] = "discard_lock" /\ d \notin ahead =>
                 incoming'[arg[d]] = None /\ running # replaced[arg[d]] /\ modules[arg[d]] # {}
          BY <3>4, <3>5
        <5> QED
          BY <2>0, <3>2, <5>1, <5>2
      <4> QED
        BY <4>1, <4>2
    <3>6. \A n \in Names :
             /\ incoming'[n] = None \/ replaced'[n] = None
             /\ incoming'[n] = n => root' # n /\ running' # n
             /\ modules'[n] = {} => /\ incoming'[n] = None /\ replaced'[n] = None
                                    /\ root' # n /\ running' # n
      BY <2>0, <3>2, <3>5
    <3> QED
      BY <2>0, <3>2, <3>3, <3>6
  <2> QED
    BY <1>24, <2>1, <2>2 DEF undo_prepared
<1>25. ASSUME NEW c \in Procs, undo_boot(c) PROVE Layout'
  <2>1. /\ pc'[c] \in Neutral /\ Others(c)
        /\ points' \subseteq points /\ UNCHANGED <<topVars, snapshot, hostVars>>
    BY <1>25 DEF Neutral, Pcs, undo_boot, At, Goto, pointVars, recordVars,
       procVars, Others
  <2> QED
    BY <2>1, LayoutFrame
<1>26. ASSUME NEW c \in Procs, undo_record(c) PROVE Layout'
  <2>0. lock = c
    BY <1>26 DEF undo_record, At
  <2>1. /\ pc'[c] \in Neutral /\ Others(c)
        /\ points' \subseteq points /\ UNCHANGED <<topVars, snapshot, hostVars>>
    BY <1>26, <2>0, LeaveEffect DEF Neutral, Pcs, undo_record, At, Goto,
       pointVars, bootVars
  <2> QED
    BY <2>1, LayoutFrame
<1>27. ASSUME NEW c \in Procs, discard_root(c) PROVE Layout'
  <2>0. /\ arg[c] \in Names
        /\ UNCHANGED <<root, incoming, modules, points, snapshot, hostVars>>
    BY <1>27 DEF discard_root, At, Ids, pointVars
  <2>1. CASE Exit(c) /\ UNCHANGED replaced
    <3>1. pc'[c] \in Neutral /\ Others(c)
      BY <2>1, ExitEffect DEF Neutral, Pcs
    <3> QED
      BY <2>0, <2>1, <3>1, LayoutFrame DEF topVars
  <2>2. CASE /\ pc[c] = "discard" /\ replaced' = [replaced EXCEPT ![arg[c]] = None]
             /\ Goto(c, "discard_record") /\ UNCHANGED <<lock, procVars>>
    <3> QED
      BY <2>0, <2>2 DEF Goto, hostVars, procVars
  <2> QED
    BY <1>27, <2>1, <2>2 DEF discard_root, At
<1>28. ASSUME NEW c \in Procs, discard_record(c) PROVE Layout'
  <2>1. /\ pc'[c] \in Neutral /\ Others(c)
        /\ points' \subseteq points /\ UNCHANGED <<topVars, snapshot, hostVars>>
    BY <1>28, ExitEffect DEF Neutral, Pcs, discard_record, At, Goto, pointVars,
       bootVars
  <2> QED
    BY <2>1, LayoutFrame
<1>29. ASSUME NEW c \in Procs, Fail(c) PROVE Layout'
  BY <1>29 DEF Fail, Goto, topVars, pointVars, recordVars, bootVars, hostVars
<1>30. ASSUME NEW c \in Procs, Kill(c) PROVE Layout'
  <2>1. /\ pc'[c] \in Neutral /\ Others(c)
        /\ points' \subseteq points /\ UNCHANGED <<topVars, snapshot, hostVars>>
    BY <1>30, ExitEffect DEF Neutral, Pcs, Kill, Goto, pointVars, recordVars,
       bootVars
  <2> QED
    BY <2>1, LayoutFrame
<1>31. ASSUME NEW c \in Procs, KernelInstalled(c) PROVE Layout'
  BY <1>31 DEF KernelInstalled, Maintenance, At, Goto, pointVars, recordVars,
     hostVars, procVars
<1>32. ASSUME NEW c \in Procs, KernelRemoved(c) PROVE Layout'
  BY <1>32 DEF KernelRemoved, Maintenance, At, Goto, pointVars, recordVars,
     hostVars, procVars
<1>33. CASE RestartNormal
  BY <1>33 DEF RestartNormal, Restart, At, topVars, pointVars, recordVars
<1>34. CASE RestartRecovery
  <2>1. /\ running' = Recovery /\ \A c \in Procs : pc'[c] = "idle"
        /\ UNCHANGED <<topVars, pointVars, ahead>>
    BY <1>34 DEF RestartRecovery, Restart
  <2>2. \A n \in Names : n # Recovery
    BY DEF Names, Subvolumes
  <2> QED
    BY <2>1, <2>2 DEF topVars, pointVars
<1>35. CASE UNCHANGED vars
  BY <1>35 DEF vars, topVars, pointVars, recordVars, bootVars, hostVars,
     procVars
<1> QED
  BY <1>1, <1>2, <1>4, <1>5, <1>6, <1>7, <1>8, <1>9, <1>10, <1>11,
     <1>12, <1>13, <1>14, <1>15, <1>16, <1>17, <1>18, <1>19, <1>20, <1>21,
     <1>22, <1>23, <1>24, <1>25, <1>26, <1>27, <1>28, <1>29, <1>30, <1>31,
     <1>32, <1>33, <1>34, <1>35 DEF Next, Step

(* Where a command is not creating.                                        *)
Outside == Pcs \ (Creating \cup {"metadata"})

(* A step that leaves the points alone and ends there keeps them.          *)
LEMMA PointFrame ==
    ASSUME PointKernels, NEW c \in Procs, pc'[c] \in Outside, Others(c),
           UNCHANGED <<kernel, snapshot, begun, running>>,
                       modules'[running] = modules[running]
    PROVE  PointKernels'
<1>1. ASSUME NEW d \in Procs
      PROVE  /\ pc'[d] \in Creating => kernel'[arg'[d]] = None
             /\ pc'[d] = "metadata" => snapshot'[arg'[d]] = modules'[running']
             /\ \A e \in Procs \ {d} :
                   pc'[d] = "create_lock" /\ pc'[e] \in Creating \cup {"metadata"}
                   => arg'[d] # arg'[e]
  BY <1>1 DEF PointKernels, Outside, Others, Creating
<1> QED
  BY <1>1 DEF PointKernels

(* The kernel recorded of a point stays one of its snapshot.               *)
LEMMA PointStep ==
    ASSUME TypeOK, Ids, Layout, PointKernels, [Next]_vars PROVE PointKernels'
<1>0. CommandTypes /\ StoreTypes
  BY DEF TypeOK, CommandTypes, StoreTypes
<1> USE <1>0, SnapshotAssumption DEF CommandTypes, StoreTypes, PointKernels, Creating
<1>1. ASSUME NEW c \in Procs, command_create(c) PROVE PointKernels'
  <2>1. /\ begun' = begun + 1 /\ begun + 1 \in Points /\ begun \in Nat
        /\ pc' = [pc EXCEPT ![c] = "create_lock"] /\ arg' = [arg EXCEPT ![c] = begun + 1]
        /\ UNCHANGED <<kernel, snapshot, modules, running>>
    BY <1>1 DEF command_create, Begin, Goto, topVars, hostVars, Points
  <2>2. ASSUME NEW d \in Procs, pc[d] \in Creating \cup {"metadata"}
        PROVE  arg[d] # begun + 1
    BY <2>1, <2>2 DEF Ids
  <2>3. kernel[begun + 1] = None
    BY <2>1
  <2>4. \A p \in Points : p > begun + 1 => p > begun
    BY <2>1 DEF Points
  <2> QED
    BY <2>1, <2>2, <2>3, <2>4
<1>2. ASSUME NEW c \in Procs, command_restore(c) PROVE PointKernels'
  <2>1. /\ pc'[c] \in Outside /\ Others(c)
        /\ UNCHANGED <<kernel, snapshot, begun, running>>
        /\ modules'[running] = modules[running]
    BY <1>2 DEF Outside, Pcs, command_restore, Begin, At, Goto, topVars,
       recordVars, bootVars, hostVars, Others
  <2> QED
    BY <2>1, PointFrame
<1>3. ASSUME NEW c \in Procs, command_refresh(c) PROVE PointKernels'
  <2>1. /\ pc'[c] \in Outside /\ Others(c)
        /\ UNCHANGED <<kernel, snapshot, begun, running>>
        /\ modules'[running] = modules[running]
    BY <1>3 DEF Outside, Pcs, command_refresh, Begin, At, Goto, topVars,
       recordVars, bootVars, hostVars, Others
  <2> QED
    BY <2>1, PointFrame
<1>4. ASSUME NEW c \in Procs, command_discard(c) PROVE PointKernels'
  <2>1. /\ pc'[c] \in Outside /\ Others(c)
        /\ UNCHANGED <<kernel, snapshot, begun, running>>
        /\ modules'[running] = modules[running]
    BY <1>4 DEF Outside, Pcs, command_discard, Begin, At, Goto, topVars,
       recordVars, bootVars, hostVars, Others
  <2> QED
    BY <2>1, PointFrame
<1>5. ASSUME NEW c \in Procs, open(c) PROVE PointKernels'
  BY <1>5 DEF open, At, Goto, topVars, pointVars, recordVars, bootVars,
     hostVars
<1>6. ASSUME NEW c \in Procs, create_archive(c) PROVE PointKernels'
  BY <1>6 DEF create_archive, At, Goto, topVars, recordVars, bootVars,
     hostVars, procVars
<1>7. ASSUME NEW c \in Procs, create_snapshot(c) PROVE PointKernels'
  <2>1. arg[c] \in Points /\ kernel[arg[c]] = None
    BY <1>7 DEF create_snapshot, At, Ids, Points
  <2>2. /\ snapshot' = [snapshot EXCEPT ![arg[c]] = modules[running]]
        /\ pc' = [pc EXCEPT ![c] = "metadata"]
        /\ UNCHANGED <<kernel, begun, modules, running, arg>>
    BY <1>7 DEF create_snapshot, Goto, topVars, hostVars, procVars
  <2>3. \A d \in Procs \ {c} :
           pc[d] # "metadata" /\ (pc[d] = "create_lock" => arg[d] # arg[c])
    BY <1>7 DEF create_snapshot, At
  <2>4. \A d \in Procs \ {c} : pc[d] \notin {"archive", "snapshot"}
    BY <1>7 DEF create_snapshot, At
  <2> QED
    BY <2>1, <2>2, <2>3, <2>4
<1>8. ASSUME NEW c \in Procs, create_metadata(c) PROVE PointKernels'
  <2>1. arg[c] \in Points /\ snapshot[arg[c]] = modules[running] /\ arg[c] \in 1 .. begun
    BY <1>8 DEF create_metadata, At, Ids, Points
  <2>2. /\ kernel' = [kernel EXCEPT ![arg[c]] = current_kernel]
        /\ pc' = [pc EXCEPT ![c] = "prune"]
        /\ UNCHANGED <<snapshot, begun, modules, running, arg>>
    BY <1>8 DEF create_metadata, Goto, topVars, hostVars, procVars
  <2>3. current_kernel = None \/ current_kernel \in modules[running]
    BY DEF current_kernel
  <2>4. \A d \in Procs \ {c} : /\ pc[d] \notin {"archive", "snapshot", "metadata"}
                               /\ (pc[d] = "create_lock" => arg[d] # arg[c])
    BY <1>8 DEF create_metadata, At
  <2> QED
    BY <2>1, <2>2, <2>3, <2>4
<1>9. ASSUME NEW c \in Procs, create_cleanup(c) PROVE PointKernels'
  <2>0. UNCHANGED <<snapshot, begun, running, modules>>
    BY <1>9 DEF create_cleanup, topVars, hostVars
  <2>1. CASE /\ At(c, "cleanup") /\ kernel' = [kernel EXCEPT ![arg[c]] = None]
             /\ Goto(c, "cleanup_root") /\ UNCHANGED procVars
    BY <2>0, <2>1 DEF At, Goto, procVars
  <2>2. CASE Exit(c) /\ kernel' = kernel
    BY <2>0, <2>2, ExitEffect, PointFrame DEF Outside, Pcs
  <2> QED
    BY <1>9, <2>1, <2>2 DEF create_cleanup
<1>10. ASSUME NEW c \in Procs, create_prune(c) PROVE PointKernels'
  <2>1. /\ pc'[c] \in Outside /\ Others(c)
        /\ UNCHANGED <<kernel, snapshot, begun, running>>
        /\ modules'[running] = modules[running]
    BY <1>10, ExitEffect DEF Outside, Pcs, create_prune, At, Goto, topVars,
       recordVars, bootVars, hostVars, Others
  <2> QED
    BY <2>1, PointFrame
<1>11. ASSUME NEW c \in Procs, create_prune_files(c) PROVE PointKernels'
  BY <1>11 DEF create_prune_files, At, Goto, topVars, recordVars, bootVars,
     hostVars
<1>12. ASSUME NEW c \in Procs, complete_interrupted(c) PROVE PointKernels'
  <2>1. /\ pc'[c] \in Outside /\ Others(c)
        /\ UNCHANGED <<kernel, snapshot, begun, running>>
        /\ modules'[running] = modules[running]
    BY <1>12 DEF Outside, Pcs, complete_interrupted, At, Goto, topVars,
       pointVars, recordVars, bootVars, hostVars, Others
  <2> QED
    BY <2>1, PointFrame
<1>13. ASSUME NEW c \in Procs, refresh_done(c) PROVE PointKernels'
  <2>1. /\ pc'[c] \in Outside /\ Others(c)
        /\ UNCHANGED <<kernel, snapshot, begun, running>>
        /\ modules'[running] = modules[running]
    BY <1>13, ExitEffect DEF Outside, Pcs, refresh_done, At, Goto, topVars,
       pointVars, recordVars, bootVars, hostVars
  <2> QED
    BY <2>1, PointFrame
<1>14. ASSUME NEW c \in Procs, restore_copy(c) PROVE PointKernels'
  <2>0. UNCHANGED <<snapshot, begun, running, kernel>>
    BY <1>14 DEF restore_copy, pointVars, hostVars
  <2>1. CASE Exit(c) /\ modules' = modules
    BY <2>0, <2>1, ExitEffect, PointFrame DEF Outside, Pcs
  <2>2. CASE /\ Unused # {} /\ Goto(c, "record") /\ UNCHANGED <<arg, todo, placed>>
             /\ name' = [name EXCEPT ![c] = Min(Unused)]
             /\ modules' = [modules EXCEPT ![Min(Unused)] = snapshot[arg[c]]]
    <3>1. running # Min(Unused)
      BY <2>2, FreeName DEF Layout
    <3>2. pc'[c] \in Outside /\ Others(c) /\ modules'[running] = modules[running]
      BY <2>2, <3>1 DEF Goto, Others, Outside, Pcs
    <3> QED
      BY <2>0, <3>2, PointFrame
  <2> QED
    BY <1>14, <2>1, <2>2 DEF restore_copy
<1>15. ASSUME NEW c \in Procs, restore_record(c) PROVE PointKernels'
  <2>1. /\ pc'[c] \in Outside /\ Others(c)
        /\ UNCHANGED <<kernel, snapshot, begun, running>>
        /\ modules'[running] = modules[running]
    BY <1>15 DEF Outside, Pcs, restore_record, At, Goto, topVars, pointVars,
       bootVars, hostVars, procVars, Others
  <2> QED
    BY <2>1, PointFrame
<1>16. ASSUME NEW c \in Procs, stage_boot_files(c) PROVE PointKernels'
  <2>1. /\ pc'[c] \in Outside /\ Others(c)
        /\ UNCHANGED <<kernel, snapshot, begun, running>>
        /\ modules'[running] = modules[running]
    BY <1>16 DEF Outside, Pcs, stage_boot_files, At, Goto, topVars, pointVars,
       recordVars, hostVars, Others
  <2> QED
    BY <2>1, PointFrame
<1>17. ASSUME NEW c \in Procs, restore_staged(c) PROVE PointKernels'
  <2>1. /\ pc'[c] \in Outside /\ Others(c)
        /\ UNCHANGED <<kernel, snapshot, begun, running>>
        /\ modules'[running] = modules[running]
    BY <1>17 DEF Outside, Pcs, restore_staged, At, Goto, topVars, pointVars,
       bootVars, hostVars, procVars, Others
  <2> QED
    BY <2>1, PointFrame
<1>18. ASSUME NEW c \in Procs, restore_exchange(c) PROVE PointKernels'
  <2>1. /\ pc'[c] \in Outside /\ Others(c)
        /\ UNCHANGED <<kernel, snapshot, begun, running>>
        /\ modules'[running] = modules[running]
    BY <1>18 DEF Outside, Pcs, restore_exchange, At, Goto, pointVars, recordVars,
       bootVars, hostVars, procVars, Others
  <2> QED
    BY <2>1, PointFrame
<1>19. ASSUME NEW c \in Procs, restore_rename(c) PROVE PointKernels'
  <2>1. /\ pc'[c] \in Outside /\ Others(c)
        /\ UNCHANGED <<kernel, snapshot, begun, running>>
        /\ modules'[running] = modules[running]
    BY <1>19 DEF Outside, Pcs, restore_rename, At, Goto, pointVars, recordVars,
       bootVars, hostVars, procVars, Others
  <2> QED
    BY <2>1, PointFrame
<1>20. ASSUME NEW c \in Procs, restore_swapped(c) PROVE PointKernels'
  <2>1. /\ pc'[c] \in Outside /\ Others(c)
        /\ UNCHANGED <<kernel, snapshot, begun, running>>
        /\ modules'[running] = modules[running]
    BY <1>20 DEF Outside, Pcs, restore_swapped, At, Goto, topVars, pointVars,
       bootVars, hostVars, procVars, Others
  <2> QED
    BY <2>1, PointFrame
<1>21. ASSUME NEW c \in Procs, reconcile_retire(c) PROVE PointKernels'
  <2>0. lock = c
    BY <1>21 DEF reconcile_retire, At
  <2>1. /\ pc'[c] \in Outside /\ Others(c)
        /\ UNCHANGED <<kernel, snapshot, begun, running>>
        /\ modules'[running] = modules[running]
    BY <1>21, ExitEffect, <2>0, LeaveEffect DEF Outside, Pcs, reconcile_retire,
       At, Goto, topVars, pointVars, recordVars, hostVars, procVars, Others
  <2> QED
    BY <2>1, PointFrame
<1>22. ASSUME NEW c \in Procs, reconcile_default(c) PROVE PointKernels'
  <2>0. lock = c
    BY <1>22 DEF reconcile_default, At
  <2>1. /\ pc'[c] \in Outside /\ Others(c)
        /\ UNCHANGED <<kernel, snapshot, begun, running>>
        /\ modules'[running] = modules[running]
    BY <1>22, <2>0, LeaveEffect DEF Outside, Pcs, reconcile_default, At, Goto,
       topVars, pointVars, recordVars, hostVars, procVars, Others
  <2> QED
    BY <2>1, PointFrame
<1>23. ASSUME NEW c \in Procs, finish_restore(c) PROVE PointKernels'
  <2>0. lock = c
    BY <1>23 DEF finish_restore, At
  <2>1. /\ pc'[c] \in Outside /\ Others(c)
        /\ UNCHANGED <<kernel, snapshot, begun, running>>
        /\ modules'[running] = modules[running]
    BY <1>23, <2>0, LeaveEffect DEF Outside, Pcs, finish_restore, At, Goto,
       topVars, pointVars, hostVars
  <2> QED
    BY <2>1, PointFrame
<1>24. ASSUME NEW c \in Procs, undo_prepared(c) PROVE PointKernels'
  <2>0. lock = c
    BY <1>24 DEF undo_prepared, At
  <2>1. /\ pc'[c] \in Outside /\ Others(c)
        /\ UNCHANGED <<kernel, snapshot, begun, running>>
        /\ modules'[running] = modules[running]
    BY <1>24, <2>0, LeaveEffect DEF Outside, Pcs, undo_prepared, At, Goto,
       pointVars, recordVars, bootVars, hostVars, procVars, Others
  <2> QED
    BY <2>1, PointFrame
<1>25. ASSUME NEW c \in Procs, undo_boot(c) PROVE PointKernels'
  <2>1. /\ pc'[c] \in Outside /\ Others(c)
        /\ UNCHANGED <<kernel, snapshot, begun, running>>
        /\ modules'[running] = modules[running]
    BY <1>25 DEF Outside, Pcs, undo_boot, At, Goto, topVars, pointVars,
       recordVars, hostVars, procVars, Others
  <2> QED
    BY <2>1, PointFrame
<1>26. ASSUME NEW c \in Procs, undo_record(c) PROVE PointKernels'
  <2>0. lock = c
    BY <1>26 DEF undo_record, At
  <2>1. /\ pc'[c] \in Outside /\ Others(c)
        /\ UNCHANGED <<kernel, snapshot, begun, running>>
        /\ modules'[running] = modules[running]
    BY <1>26, <2>0, LeaveEffect DEF Outside, Pcs, undo_record, At, Goto, topVars,
       pointVars, bootVars, hostVars
  <2> QED
    BY <2>1, PointFrame
<1>27. ASSUME NEW c \in Procs, discard_root(c) PROVE PointKernels'
  <2>1. /\ pc'[c] \in Outside /\ Others(c)
        /\ UNCHANGED <<kernel, snapshot, begun, running>>
        /\ modules'[running] = modules[running]
    BY <1>27, ExitEffect DEF Outside, Pcs, discard_root, At, Goto, pointVars,
       recordVars, bootVars, hostVars, procVars, Others
  <2> QED
    BY <2>1, PointFrame
<1>28. ASSUME NEW c \in Procs, discard_record(c) PROVE PointKernels'
  <2>1. /\ pc'[c] \in Outside /\ Others(c)
        /\ UNCHANGED <<kernel, snapshot, begun, running>>
        /\ modules'[running] = modules[running]
    BY <1>28, ExitEffect DEF Outside, Pcs, discard_record, At, Goto, topVars,
       pointVars, bootVars, hostVars
  <2> QED
    BY <2>1, PointFrame
<1>29. ASSUME NEW c \in Procs, Fail(c) PROVE PointKernels'
  BY <1>29 DEF Fail, Goto, topVars, pointVars, recordVars, bootVars, hostVars
<1>30. ASSUME NEW c \in Procs, Kill(c) PROVE PointKernels'
  <2>1. /\ pc'[c] \in Outside /\ Others(c)
        /\ UNCHANGED <<kernel, snapshot, begun, running>>
        /\ modules'[running] = modules[running]
    BY <1>30, ExitEffect DEF Outside, Pcs, Kill, Goto, topVars, pointVars,
       recordVars, bootVars, hostVars
  <2> QED
    BY <2>1, PointFrame
<1>31. ASSUME NEW c \in Procs, KernelInstalled(c) PROVE PointKernels'
  BY <1>31 DEF KernelInstalled, Maintenance, At, Goto, pointVars, recordVars,
     hostVars, procVars
<1>32. ASSUME NEW c \in Procs, KernelRemoved(c) PROVE PointKernels'
  BY <1>32 DEF KernelRemoved, Maintenance, At, Goto, pointVars, recordVars,
     hostVars, procVars
<1>33. CASE RestartNormal
  BY <1>33 DEF RestartNormal, Restart, At, topVars, pointVars, recordVars
<1>34. CASE RestartRecovery
  BY <1>34 DEF RestartRecovery, Restart, At, topVars, pointVars, recordVars
<1>35. CASE UNCHANGED vars
  BY <1>35 DEF vars, topVars, pointVars, recordVars, bootVars, hostVars,
     procVars
<1> QED
  BY <1>1, <1>2, <1>3, <1>4, <1>5, <1>6, <1>7, <1>8, <1>9, <1>10, <1>11,
     <1>12, <1>13, <1>14, <1>15, <1>16, <1>17, <1>18, <1>19, <1>20, <1>21,
     <1>22, <1>23, <1>24, <1>25, <1>26, <1>27, <1>28, <1>29, <1>30, <1>31,
     <1>32, <1>33, <1>34, <1>35 DEF Next, Step

(* Where a restore is under way.                                           *)
Restoring == Own \cup Undo \cup Swapping \cup {"complete"}

(* Commands that do not restore leave the records as they are.             *)
LEMMA RecordFrame ==
    ASSUME Records, events = 0, NEW c \in Procs, Others(c),
           pc[c] \notin Restoring, pc'[c] \notin Restoring, todo'[c] = {},
           UNCHANGED <<state, oldRoot, root, incoming, boot_ro>>
    PROVE  Records'
<1>1. ASSUME NEW d \in Procs
      PROVE  /\ todo'[d] = {}
             /\ pc'[d] \in Own \cup {"undo"} =>
                   root' = oldRoot'[name'[d]] /\ incoming'[name'[d]] = name'[d]
             /\ pc'[d] \in Own \cup Swapping \cup {"complete"} => ~boot_ro'
  BY <1>1 DEF Records, Restoring, Others, Undo
<1>2. ASSUME NEW n \in Names, state'[n] \in {"prepared", "swapped"}
      PROVE  \E d \in Procs : pc'[d] \in Restoring /\ name'[d] = n
  <2>1. PICK d \in Procs : pc[d] \in Restoring /\ name[d] = n
    BY <1>2 DEF Records, Restoring
  <2> QED
    BY <2>1 DEF Others
<1> QED
  BY <1>1, <1>2 DEF Records, Restoring

(* A restore that ends settles its record.                                 *)
LEMMA RecordSettled ==
    ASSUME CommandTypes, Records, events = 0, NEW c \in Procs, lock = c, Leave(c),
           state' = [state EXCEPT ![name[c]] = "none"]
           \/ state' = [state EXCEPT ![name[c]] = "complete"],
           state \in [Names -> {"none", "prepared", "swapped", "complete"}], name[c] \in Names
    PROVE  Records'
<1>1. Others(c) /\ pc'[c] = "idle" /\ todo'[c] = {}
  BY LeaveEffect DEF Records
<1>2. ASSUME NEW n \in Names PROVE state'[n] \notin {"prepared", "swapped"}
  <2>1. CASE n = name[c]
    BY <2>1
  <2>2. CASE n # name[c]
    <3>1. \A d \in Procs \ {c} :
             pc[d] \notin Own \cup Undo \cup Swapping \cup {"complete"}
      BY OthersWait DEF Own, Undo, Swapping
    <3> QED
      BY <2>2, <3>1 DEF Records
  <2> QED
    BY <2>1, <2>2
<1>3. ASSUME NEW d \in Procs
      PROVE  todo'[d] = {} /\ pc'[d] \notin Own \cup Undo \cup Swapping \cup {"complete"}
  <2>1. CASE d = c
    BY <1>1, <2>1 DEF Own, Undo, Swapping
  <2>2. CASE d # c
    <3>1. pc[d] \notin Own \cup Undo \cup Swapping \cup {"complete"}
      BY <2>2, OthersWait DEF Own, Undo, Swapping
    <3> QED
      BY <1>1, <2>2, <3>1 DEF Records, Others
  <2> QED
    BY <2>1, <2>2
<1> QED
  BY <1>2, <1>3 DEF Records, Undo

(* Until something fails no record is left behind.                         *)
LEMMA RecordStep ==
    ASSUME TypeOK, Ids, Layout, Records, Starts, [Next]_vars PROVE Records'
<1>0. CommandTypes /\ StoreTypes
  BY DEF TypeOK, CommandTypes, StoreTypes
<1> SUFFICES ASSUME events' = 0 PROVE Records'
  BY DEF Records
<1> USE <1>0, SnapshotAssumption DEF CommandTypes, StoreTypes, Records, Own, Undo,
       Swapping
<1>1. ASSUME NEW c \in Procs, command_create(c) PROVE Records'
  BY <1>1 DEF command_create, Begin, At, Goto, topVars, recordVars, bootVars,
     hostVars
<1>2. ASSUME NEW c \in Procs, command_restore(c) PROVE Records'
  BY <1>2 DEF command_restore, Begin, At, Goto, topVars, recordVars,
     bootVars, hostVars
<1>3. ASSUME NEW c \in Procs, command_refresh(c) PROVE Records'
  BY <1>3 DEF command_refresh, Begin, At, Goto, topVars, recordVars,
     bootVars, hostVars
<1>4. ASSUME NEW c \in Procs, command_discard(c) PROVE Records'
  BY <1>4 DEF command_discard, Begin, At, Goto, topVars, recordVars,
     bootVars, hostVars
<1>5. ASSUME NEW c \in Procs, open(c) PROVE Records'
  BY <1>5 DEF open, At, Goto, topVars, pointVars, recordVars, bootVars,
     hostVars
<1>6. ASSUME NEW c \in Procs, create_archive(c) PROVE Records'
  BY <1>6 DEF create_archive, At, Goto, topVars, recordVars, bootVars,
     hostVars, procVars
<1>7. ASSUME NEW c \in Procs, create_snapshot(c) PROVE Records'
  BY <1>7 DEF create_snapshot, At, Goto, topVars, recordVars, bootVars,
     hostVars, procVars
<1>8. ASSUME NEW c \in Procs, create_metadata(c) PROVE Records'
  BY <1>8 DEF create_metadata, At, Goto, topVars, recordVars, bootVars,
     hostVars, procVars
<1>9. ASSUME NEW c \in Procs, create_cleanup(c) PROVE Records'
  <2>0. /\ events = 0 /\ pc[c] \notin Restoring
        /\ UNCHANGED <<state, oldRoot, root, incoming, boot_ro>>
    BY <1>9 DEF create_cleanup, At, topVars, recordVars, bootVars, Restoring
  <2>1. CASE Exit(c)
    BY <2>0, <2>1, ExitEffect, RecordFrame DEF Restoring
  <2>2. CASE Goto(c, "cleanup_root") /\ UNCHANGED procVars
    <3>1. Others(c) /\ pc'[c] \notin Restoring /\ todo'[c] = {}
      BY <2>0, <2>2 DEF Others, Goto, procVars, Restoring
    <3> QED
      BY <2>0, <3>1, RecordFrame
  <2> QED
    BY <1>9, <2>1, <2>2 DEF create_cleanup
<1>10. ASSUME NEW c \in Procs, create_prune(c) PROVE Records'
  BY <1>10, ExitEffect DEF create_prune, At, Goto, topVars, recordVars,
     bootVars, hostVars, Others
<1>11. ASSUME NEW c \in Procs, create_prune_files(c) PROVE Records'
  BY <1>11 DEF create_prune_files, At, Goto, topVars, recordVars, bootVars,
     hostVars
<1>12. ASSUME NEW c \in Procs, complete_interrupted(c) PROVE Records'
  BY <1>12 DEF complete_interrupted, At, Goto, topVars, pointVars,
     recordVars, bootVars, hostVars
<1>13. ASSUME NEW c \in Procs, refresh_done(c) PROVE Records'
  BY <1>13, ExitEffect DEF refresh_done, At, Goto, topVars, pointVars,
     recordVars, bootVars, hostVars, Others
<1>14. ASSUME NEW c \in Procs, restore_copy(c) PROVE Records'
  <2>0. /\ events = 0 /\ pc[c] = "recover" /\ lock = c
        /\ UNCHANGED <<state, root>>
    BY <1>14 DEF restore_copy, At
  <2>1. CASE Exit(c) /\ UNCHANGED <<oldRoot, incoming, boot_ro>>
    BY <2>0, <2>1, ExitEffect, RecordFrame DEF Restoring
  <2>2. CASE /\ Unused # {} /\ Goto(c, "record") /\ UNCHANGED todo
             /\ name' = [name EXCEPT ![c] = Min(Unused)]
             /\ incoming' = [incoming EXCEPT ![Min(Unused)] = Min(Unused)]
             /\ oldRoot' = [oldRoot EXCEPT ![Min(Unused)] = root]
             /\ boot_ro' = FALSE
    <3>1. Min(Unused) \in Names
      BY <2>2, FreeName
    <3>2. ASSUME NEW d \in Procs \ {c}
          PROVE  pc'[d] \notin Own \cup Undo \cup Swapping \cup {"complete"}
      <4>1. pc[d] \in {"idle", "create_lock", "restore_lock", "refresh_lock", "discard_lock"}
        BY <2>0, OthersWait
      <4> QED
        BY <2>2, <4>1 DEF Goto
    <3>3. \A d \in Procs : pc[d] \notin Own \cup Undo \cup Swapping \cup {"complete"}
      BY <2>0, OthersWait
    <3>4. \A n \in Names : state'[n] \notin {"prepared", "swapped"}
      BY <2>0, <3>3
    <3>5. /\ pc'[c] = "record" /\ name'[c] = Min(Unused) /\ incoming'[name'[c]] = name'[c]
          /\ oldRoot'[name'[c]] = root' /\ ~boot_ro' /\ todo' = todo
      BY <2>0, <2>2, <3>1 DEF Goto
    <3> QED
      BY <2>0, <3>2, <3>4, <3>5
  <2> QED
    BY <1>14, <2>1, <2>2 DEF restore_copy
<1>15. ASSUME NEW c \in Procs, restore_record(c) PROVE Records'
  BY <1>15 DEF restore_record, At, Goto, topVars, pointVars, bootVars,
     hostVars, procVars
<1>16. ASSUME NEW c \in Procs, stage_boot_files(c) PROVE Records'
  BY <1>16 DEF stage_boot_files, At, Goto, topVars, pointVars, recordVars,
     hostVars
<1>17. ASSUME NEW c \in Procs, restore_staged(c) PROVE Records'
  BY <1>17 DEF restore_staged, At, Goto, topVars, pointVars, bootVars,
     hostVars, procVars
<1>18. ASSUME NEW c \in Procs, restore_exchange(c) PROVE Records'
  <2>0. /\ events = 0 /\ lock = c /\ pc[c] = "exchange" /\ state' = state
        /\ boot_ro' = boot_ro /\ name' = name /\ todo' = todo
    BY <1>18 DEF restore_exchange, At, recordVars, bootVars, procVars
  <2>1. \A d \in Procs \ {c} : pc[d] \notin Own \cup Undo \cup Swapping \cup {"complete"}
    BY <2>0, OthersWait
  <2>2. pc' = [pc EXCEPT ![c] = "rename"]
    BY <1>18 DEF restore_exchange, Goto
  <2> QED
    BY <2>0, <2>1, <2>2
<1>19. ASSUME NEW c \in Procs, restore_rename(c) PROVE Records'
  <2>0. /\ events = 0 /\ lock = c /\ pc[c] = "rename" /\ state' = state
        /\ boot_ro' = boot_ro /\ name' = name /\ todo' = todo
    BY <1>19 DEF restore_rename, At, recordVars, bootVars, procVars
  <2>1. \A d \in Procs \ {c} : pc[d] \notin Own \cup Undo \cup Swapping \cup {"complete"}
    BY <2>0, OthersWait
  <2>2. pc' = [pc EXCEPT ![c] = "swapped"]
    BY <1>19 DEF restore_rename, Goto
  <2> QED
    BY <2>0, <2>1, <2>2
<1>20. ASSUME NEW c \in Procs, restore_swapped(c) PROVE Records'
  BY <1>20 DEF restore_swapped, At, Goto, topVars, pointVars, bootVars,
     hostVars, procVars
<1>21. ASSUME NEW c \in Procs, reconcile_retire(c) PROVE Records'
  <2>0. /\ events = 0 /\ pc[c] = "retire" /\ lock = c
        /\ UNCHANGED <<state, oldRoot, root, incoming, boot_ro>>
    BY <1>21 DEF reconcile_retire, At, topVars, recordVars
  <2>1. wanted[name[c]] \in modules[root] /\ ~boot_ro
    BY <2>0 DEF Starts
  <2>2. CASE UNCHANGED <<pc, lock, procVars>>
    BY <2>0, <2>2 DEF procVars
  <2>3. CASE Goto(c, "default") /\ UNCHANGED <<lock, procVars>>
    BY <2>0, <2>3 DEF Goto, procVars
  <2> QED
    BY <1>21, <2>1, <2>2, <2>3 DEF reconcile_retire
<1>22. ASSUME NEW c \in Procs, reconcile_default(c) PROVE Records'
  <2>0. /\ events = 0 /\ pc[c] = "default" /\ lock = c
        /\ UNCHANGED <<state, oldRoot, root, incoming, boot_ro>>
    BY <1>22 DEF reconcile_default, At, topVars, recordVars
  <2>1. wanted[name[c]] \in boot /\ ~boot_ro
    BY <2>0 DEF Starts
  <2>3. Goto(c, "complete") /\ UNCHANGED <<lock, procVars>>
    BY <1>22, <2>1 DEF reconcile_default
  <2> QED
    BY <2>0, <2>3 DEF Goto, procVars
<1>23. ASSUME NEW c \in Procs, finish_restore(c) PROVE Records'
  <2>1. /\ events = 0 /\ lock = c /\ Leave(c) /\ name[c] \in Names
        /\ state' = [state EXCEPT ![name[c]] = "complete"]
    BY <1>23 DEF finish_restore, At, Ids
  <2> QED
    BY <2>1, RecordSettled
<1>24. ASSUME NEW c \in Procs, undo_prepared(c) PROVE Records'
  BY <1>24, LeaveEffect DEF undo_prepared, At, Goto, pointVars, recordVars,
     bootVars, hostVars, procVars, Others
<1>25. ASSUME NEW c \in Procs, undo_boot(c) PROVE Records'
  BY <1>25 DEF undo_boot, At, Goto, topVars, pointVars, recordVars, hostVars,
     procVars
<1>26. ASSUME NEW c \in Procs, undo_record(c) PROVE Records'
  <2>1. /\ events = 0 /\ lock = c /\ Leave(c) /\ name[c] \in Names
        /\ state' = [state EXCEPT ![name[c]] = "none"]
    BY <1>26 DEF undo_record, At, Ids
  <2> QED
    BY <2>1, RecordSettled
<1>27. ASSUME NEW c \in Procs, discard_root(c) PROVE Records'
  <2>0. /\ events = 0 /\ pc[c] \notin Restoring
        /\ UNCHANGED <<state, oldRoot, root, incoming, boot_ro>>
    BY <1>27 DEF discard_root, At, recordVars, bootVars, Restoring
  <2>1. CASE Exit(c)
    BY <2>0, <2>1, ExitEffect, RecordFrame DEF Restoring
  <2>2. CASE Goto(c, "discard_record") /\ UNCHANGED procVars
    <3>1. Others(c) /\ pc'[c] \notin Restoring /\ todo'[c] = {}
      BY <2>0, <2>2 DEF Others, Goto, procVars, Restoring
    <3> QED
      BY <2>0, <3>1, RecordFrame
  <2> QED
    BY <1>27, <2>1, <2>2 DEF discard_root
<1>28. ASSUME NEW c \in Procs, discard_record(c) PROVE Records'
  <2>1. /\ pc[c] = "discard_record" /\ Others(c) /\ pc'[c] = "idle" /\ todo'[c] = {}
        /\ state' = [state EXCEPT ![arg[c]] = "none"]
        /\ UNCHANGED <<oldRoot, root, incoming, boot_ro>>
    BY <1>28, ExitEffect DEF discard_record, At, topVars, bootVars
  <2>2. ASSUME NEW n \in Names, state'[n] \in {"prepared", "swapped"}  PROVE state[n] = state'[n]
    BY <2>1, <2>2
  <2>3. ASSUME events = 0, NEW n \in Names, state'[n] \in {"prepared", "swapped"}
        PROVE  \E d \in Procs : /\ pc'[d] \in Own \cup Undo \cup Swapping \cup {"complete"}
                                /\ name'[d] = n
    <3>1. PICK d \in Procs : /\ pc[d] \in Own \cup Undo \cup Swapping \cup {"complete"}
                             /\ name[d] = n
      BY <2>2, <2>3 DEF Records
    <3>2. d # c
      BY <2>1, <3>1 DEF Own, Undo, Swapping
    <3> QED
      BY <2>1, <3>1, <3>2 DEF Others
  <2>4. ASSUME events = 0, NEW d \in Procs
        PROVE  /\ todo'[d] = {}
               /\ pc'[d] \in Own \cup {"undo"} =>
                     root' = oldRoot'[name'[d]] /\ incoming'[name'[d]] = name'[d]
               /\ pc'[d] \in Own \cup Swapping \cup {"complete"} => ~boot_ro'
    BY <2>1, <2>4 DEF Others, Records, Own, Swapping
  <2>5. events' = events
    BY <1>28 DEF discard_record
  <2> QED
    BY <2>3, <2>4, <2>5 DEF Records
<1>29. ASSUME NEW c \in Procs, Fail(c) PROVE Records'
  BY <1>29 DEF Fail, Goto, topVars, pointVars, recordVars, bootVars, hostVars
<1>30. ASSUME NEW c \in Procs, Kill(c) PROVE Records'
  BY <1>30, ExitEffect DEF Kill, Goto, topVars, pointVars, recordVars,
     bootVars, hostVars, Others
<1>31. ASSUME NEW c \in Procs, KernelInstalled(c) PROVE Records'
  BY <1>31 DEF KernelInstalled, Maintenance, At, Goto, pointVars, recordVars,
     hostVars, procVars
<1>32. ASSUME NEW c \in Procs, KernelRemoved(c) PROVE Records'
  BY <1>32 DEF KernelRemoved, Maintenance, At, Goto, pointVars, recordVars,
     hostVars, procVars
<1>33. CASE RestartNormal
  BY <1>33 DEF RestartNormal, Restart, At, topVars, pointVars, recordVars
<1>34. CASE RestartRecovery
  BY <1>34 DEF RestartRecovery, Restart, At, topVars, pointVars, recordVars
<1>35. CASE UNCHANGED vars
  BY <1>35 DEF vars, topVars, pointVars, recordVars, bootVars, hostVars,
     procVars
<1> QED
  BY <1>1, <1>2, <1>3, <1>4, <1>5, <1>6, <1>7, <1>8, <1>9, <1>10, <1>11,
     <1>12, <1>13, <1>14, <1>15, <1>16, <1>17, <1>18, <1>19, <1>20, <1>21,
     <1>22, <1>23, <1>24, <1>25, <1>26, <1>27, <1>28, <1>29, <1>30, <1>31,
     <1>32, <1>33, <1>34, <1>35 DEF Next, Step

(* Until something fails the system starts.                                *)
LEMMA StartStep ==
    ASSUME TypeOK, Ids, Layout, PointKernels, Records, Starts, [Next]_vars PROVE Starts'
<1>0. CommandTypes /\ StoreTypes
  BY DEF TypeOK, CommandTypes, StoreTypes
<1> SUFFICES ASSUME events' = 0 PROVE Starts'
  BY DEF Starts
<1> USE <1>0, SnapshotAssumption DEF CommandTypes, StoreTypes, Starts, Own, Swapping
<1>1. ASSUME NEW c \in Procs, command_create(c) PROVE Starts'
  BY <1>1 DEF command_create, Begin, At, Goto, topVars, recordVars, bootVars,
     hostVars
<1>2. ASSUME NEW c \in Procs, command_restore(c) PROVE Starts'
  BY <1>2 DEF command_restore, Begin, At, Goto, topVars, recordVars,
     bootVars, hostVars
<1>3. ASSUME NEW c \in Procs, command_refresh(c) PROVE Starts'
  BY <1>3 DEF command_refresh, Begin, At, Goto, topVars, recordVars,
     bootVars, hostVars
<1>4. ASSUME NEW c \in Procs, command_discard(c) PROVE Starts'
  BY <1>4 DEF command_discard, Begin, At, Goto, topVars, recordVars,
     bootVars, hostVars
<1>5. ASSUME NEW c \in Procs, open(c) PROVE Starts'
  BY <1>5 DEF open, At, Goto, topVars, pointVars, recordVars, bootVars,
     hostVars
<1>6. ASSUME NEW c \in Procs, create_archive(c) PROVE Starts'
  BY <1>6 DEF create_archive, At, Goto, topVars, recordVars, bootVars,
     hostVars, procVars
<1>7. ASSUME NEW c \in Procs, create_snapshot(c) PROVE Starts'
  BY <1>7 DEF create_snapshot, At, Goto, topVars, recordVars, bootVars,
     hostVars, procVars
<1>8. ASSUME NEW c \in Procs, create_metadata(c) PROVE Starts'
  BY <1>8 DEF create_metadata, At, Goto, topVars, recordVars, bootVars,
     hostVars, procVars
<1>9. ASSUME NEW c \in Procs, create_cleanup(c) PROVE Starts'
  BY <1>9, ExitEffect DEF create_cleanup, At, Goto, topVars, recordVars,
     bootVars, hostVars, procVars, Others
<1>10. ASSUME NEW c \in Procs, create_prune(c) PROVE Starts'
  BY <1>10, ExitEffect DEF create_prune, At, Goto, topVars, recordVars,
     bootVars, hostVars, Others
<1>11. ASSUME NEW c \in Procs, create_prune_files(c) PROVE Starts'
  BY <1>11 DEF create_prune_files, At, Goto, topVars, recordVars, bootVars,
     hostVars
<1>12. ASSUME NEW c \in Procs, complete_interrupted(c) PROVE Starts'
  <2>1. todo[c] # {} /\ events = 0
    BY <1>12 DEF complete_interrupted
  <2> QED
    BY <2>1 DEF Records
<1>13. ASSUME NEW c \in Procs, refresh_done(c) PROVE Starts'
  BY <1>13, ExitEffect DEF refresh_done, At, Goto, topVars, pointVars,
     recordVars, bootVars, hostVars, Others
<1>14. ASSUME NEW c \in Procs, restore_copy(c) PROVE Starts'
  <2>0. /\ events = 0 /\ pc[c] = "recover" /\ lock = c
        /\ UNCHANGED <<root, boot, saved_entry, running, booted>>
    BY <1>14 DEF restore_copy, At, hostVars
  <2>1. CASE Exit(c) /\ UNCHANGED <<wanted, modules>>
    BY <2>0, <2>1, ExitEffect DEF Others
  <2> DEFINE p == arg[c]
             k == IF point_kernel(p) # None THEN point_kernel(p)
                  ELSE Newest(snapshot[p])
  <2>2. CASE /\ p \in points /\ k # None /\ Unused # {} /\ Goto(c, "record")
             /\ name' = [name EXCEPT ![c] = Min(Unused)]
             /\ modules' = [modules EXCEPT ![Min(Unused)] = snapshot[p]]
             /\ wanted' = [wanted EXCEPT ![Min(Unused)] = k]
             /\ UNCHANGED placed
    <3>1. Min(Unused) \in Names /\ Min(Unused) \in Subvolumes /\ root # Min(Unused)
      BY <2>2, FreeName DEF Layout
    <3>2. k \in snapshot[p]
      <4>1. p \in points
        BY <2>2
      <4>2. p \in Points /\ snapshot[p] \in SUBSET Kernels
        <5> HIDE DEF p, k
        <5> QED
          BY <4>1 DEF Points
      <4>3. kernel[p] # None => kernel[p] \in snapshot[p]
        BY <4>2 DEF PointKernels
      <4>4. \A S \in SUBSET snapshot[p] : Newest(S) = None \/ Newest(S) \in S
        BY <4>2, NewestIn
      <4>5. Newest(snapshot[p]) = None \/ Newest(snapshot[p]) \in snapshot[p]
        BY <4>4
      <4>6. \/ Newest(snapshot[p] \cap boot) = None
            \/ Newest(snapshot[p] \cap boot) \in snapshot[p]
        BY <4>4
      <4>7. k # None
        BY <2>2
      <4> HIDE DEF p
      <4> QED
        BY <4>3, <4>5, <4>6, <4>7 DEF point_kernel
    <3> HIDE DEF p, k
    <3>3. /\ pc'[c] = "record" /\ placed' = placed /\ name'[c] = Min(Unused)
          /\ wanted'[name'[c]] = k /\ modules'[name'[c]] = snapshot[p]
          /\ modules'[root] = modules[root]
      BY <2>2, <3>1 DEF Goto
    <3>4. \A d \in Procs \ {c} :
             pc'[d] \notin Own \cup {"undo", "undo_boot", "recover"} \cup Swapping
      <4>1. \A d \in Procs \ {c} :
               pc[d] \notin Own \cup {"undo", "undo_boot", "recover"} \cup Swapping
        BY <2>0, OthersWait
      <4> QED
        BY <2>2, <4>1 DEF Goto
    <3>5. \A d \in Procs : pc[d] \notin Swapping
      BY <2>0, OthersWait
    <3>6. \A d \in Procs \ {c} : pc'[d] = pc[d]
      BY <2>2 DEF Goto
    <3>7. /\ saved_entry \in boot \cap modules[root] /\ placed[c] = {}
          /\ (running = root => booted \in boot)
      BY <2>0, <3>5
    <3> QED
      BY <2>0, <3>2, <3>3, <3>4, <3>6, <3>7
  <2> QED
    BY <1>14, <2>1, <2>2 DEF restore_copy
<1>15. ASSUME NEW c \in Procs, restore_record(c) PROVE Starts'
  BY <1>15 DEF restore_record, At, Goto, topVars, pointVars, bootVars,
     hostVars, procVars
<1>16. ASSUME NEW c \in Procs, stage_boot_files(c) PROVE Starts'
  <2> DEFINE found == Missing(c) \cap archive[arg[c]]
  <2>0. /\ events = 0 /\ pc[c] = "stage" /\ lock = c
        /\ UNCHANGED <<root, modules, wanted, saved_entry, running, booted, name>>
    BY <1>16 DEF stage_boot_files, At, topVars, recordVars, hostVars
  <2>1. \A d \in Procs \ {c} : pc[d] \notin Own \cup {"undo", "undo_boot"} \cup Swapping
    BY <2>0, OthersWait
  <2>2. /\ saved_entry \in boot /\ saved_entry \in modules[root]
        /\ (running = root => booted \in boot)
    BY <2>0, <2>1
  <2>3. CASE /\ found # {} /\ boot' = boot \cup {Min(found)}
             /\ placed' = [placed EXCEPT ![c] = placed[c] \cup {Min(found)}]
             /\ UNCHANGED pc
    <3>1. Min(found) \notin boot
      <4>1. archive[arg[c]] \subseteq Kernels
        BY <2>0 DEF Ids
      <4>2. found \in SUBSET Kernels /\ found \cap boot = {}
        BY <4>1 DEF Missing
      <4> HIDE DEF found
      <4> QED
        BY <2>3, <4>2, FoundIn
    <3> HIDE DEF found
    <3> QED
      BY <2>0, <2>1, <2>2, <2>3, <3>1
  <2>4. ASSUME NEW l \in {"undo", "staged"}, Goto(c, l), UNCHANGED <<boot, placed>>
        PROVE  Starts'
    BY <2>0, <2>1, <2>2, <2>4 DEF Goto
  <2>5. \/ Goto(c, IF Missing(c) # {} /\ archive[arg[c]] = {} THEN "undo" ELSE "staged")
           /\ UNCHANGED <<boot, placed>>
        \/ /\ found # {} /\ boot' = boot \cup {Min(found)}
           /\ placed' = [placed EXCEPT ![c] = placed[c] \cup {Min(found)}] /\ UNCHANGED pc
    BY <1>16 DEF stage_boot_files
  <2>6. \/ \E l \in {"undo", "staged"} : Goto(c, l) /\ UNCHANGED <<boot, placed>>
        \/ /\ found # {} /\ boot' = boot \cup {Min(found)}
           /\ placed' = [placed EXCEPT ![c] = placed[c] \cup {Min(found)}] /\ UNCHANGED pc
    BY <2>5
  <2> HIDE DEF found
  <2> QED
    BY <2>3, <2>4, <2>6
<1>17. ASSUME NEW c \in Procs, restore_staged(c) PROVE Starts'
  BY <1>17 DEF restore_staged, At, Goto, topVars, pointVars, bootVars,
     hostVars, procVars
<1>18. ASSUME NEW c \in Procs, restore_exchange(c) PROVE Starts'
  <2>0. /\ events = 0 /\ pc[c] = "exchange" /\ lock = c /\ name[c] \in Names
        /\ UNCHANGED <<boot, modules, wanted, saved_entry, running, booted, name, placed>>
    BY <1>18 DEF restore_exchange, At, recordVars, bootVars, hostVars, procVars, Ids
  <2>1. \A d \in Procs \ {c} : pc[d] \notin Own \cup {"undo", "undo_boot"} \cup Swapping
    BY <2>0, OthersWait
  <2>2. root' = name[c] /\ running # name[c]
    BY <1>18, <2>0 DEF restore_exchange, Layout
  <2>3. pc' = [pc EXCEPT ![c] = "rename"]
    BY <1>18 DEF restore_exchange, Goto
  <2>4. wanted[name[c]] \in boot \cap modules[name[c]]
    BY <2>0
  <2> QED
    BY <2>0, <2>1, <2>2, <2>3, <2>4
<1>19. ASSUME NEW c \in Procs, restore_rename(c) PROVE Starts'
  BY <1>19 DEF restore_rename, At, Goto, pointVars, recordVars, bootVars,
     hostVars, procVars
<1>20. ASSUME NEW c \in Procs, restore_swapped(c) PROVE Starts'
  BY <1>20 DEF restore_swapped, At, Goto, topVars, pointVars, bootVars,
     hostVars, procVars
<1>21. ASSUME NEW c \in Procs, reconcile_retire(c) PROVE Starts'
  <2>0. /\ events = 0 /\ pc[c] = "retire" /\ lock = c
        /\ UNCHANGED <<root, modules, wanted, saved_entry, running, booted>>
    BY <1>21 DEF reconcile_retire, At, topVars, recordVars, hostVars
  <2>1. wanted[name[c]] \in modules[root] /\ wanted[name[c]] \in boot /\ ~boot_ro
    BY <2>0 DEF Records
  <2>2. \A d \in Procs \ {c} : pc[d] \notin Own \cup {"undo", "undo_boot"} \cup Swapping
    BY <2>0, OthersWait
  <2>3. CASE Stray # {} /\ boot' = boot \ {Min(Stray)} /\ UNCHANGED <<pc, lock, procVars>>
    <3>1. Min(Stray) \notin modules[root]
      <4>1. Stray \in SUBSET Kernels /\ Stray \cap modules[root] = {}
        BY DEF Stray
      <4> QED
        BY <2>3, <4>1, FoundIn
    <3>2. running = root => booted \in modules[root]
      BY DEF Layout, Subvolumes
    <3> QED
      BY <2>0, <2>1, <2>2, <2>3, <3>1, <3>2 DEF procVars
  <2>4. CASE Goto(c, "default") /\ UNCHANGED <<boot, lock, procVars>>
    BY <2>0, <2>1, <2>2, <2>4 DEF Goto, procVars
  <2> QED
    BY <1>21, <2>1, <2>3, <2>4 DEF reconcile_retire
<1>22. ASSUME NEW c \in Procs, reconcile_default(c) PROVE Starts'
  <2>0. /\ events = 0 /\ pc[c] = "default" /\ lock = c
        /\ UNCHANGED <<root, modules, wanted, boot, running, booted>>
    BY <1>22 DEF reconcile_default, At, topVars, recordVars, hostVars
  <2>1. wanted[name[c]] \in boot /\ wanted[name[c]] \in modules[root] /\ ~boot_ro
    BY <2>0 DEF Records
  <2>2. \A d \in Procs \ {c} : pc[d] \notin Own \cup {"undo", "undo_boot"} \cup Swapping
    BY <2>0, OthersWait
  <2>3. /\ saved_entry' = wanted[name[c]] /\ Goto(c, "complete")
        /\ UNCHANGED <<lock, procVars>>
    BY <1>22, <2>1 DEF reconcile_default
  <2> QED
    BY <2>0, <2>1, <2>2, <2>3 DEF Goto, procVars
<1>23. ASSUME NEW c \in Procs, finish_restore(c) PROVE Starts'
  <2>0. /\ events = 0 /\ pc[c] = "complete" /\ lock = c /\ Leave(c)
        /\ UNCHANGED <<root, modules, wanted, boot, saved_entry, running, booted>>
    BY <1>23 DEF finish_restore, At, topVars, hostVars
  <2>1. \A d \in Procs \ {c} : pc[d] \notin Own \cup {"undo", "undo_boot"} \cup Swapping
    BY <2>0, OthersWait
  <2>2. Others(c) /\ pc'[c] \in {"idle", "recover"} /\ placed'[c] = {}
    BY <2>0, LeaveEffect
  <2>3. saved_entry \in boot \cap modules[root]
    BY <2>0, <2>1
  <2>4. \A d \in Procs \ {c} : pc'[d] = pc[d] /\ placed'[d] = placed[d]
    BY <2>2 DEF Others
  <2> QED
    BY <2>0, <2>1, <2>2, <2>3, <2>4
<1>24. ASSUME NEW c \in Procs, undo_prepared(c) PROVE Starts'
  <2>0. /\ events = 0 /\ pc[c] = "undo" /\ lock = c /\ incoming[name[c]] = name[c]
        /\ root = oldRoot[name[c]]
        /\ UNCHANGED <<root, modules, wanted, boot, saved_entry, running, booted>>
    BY <1>24 DEF undo_prepared, At, recordVars, bootVars, hostVars, Records
  <2>1. name[c] # None
    <3>1. name[c] \in Subvolumes
      BY <2>0 DEF Ids, Undo, Names, Subvolumes
    <3> QED
      BY <3>1
  <2>2. Goto(c, "undo_boot") /\ UNCHANGED procVars
    BY <1>24, <2>0, <2>1 DEF undo_prepared
  <2> QED
    BY <2>0, <2>2 DEF Goto, procVars
<1>25. ASSUME NEW c \in Procs, undo_boot(c) PROVE Starts'
  BY <1>25 DEF undo_boot, At, Goto, topVars, pointVars, recordVars, hostVars,
     procVars
<1>26. ASSUME NEW c \in Procs, undo_record(c) PROVE Starts'
  <2>0. /\ events = 0 /\ pc[c] = "undo_record" /\ lock = c /\ Leave(c)
        /\ UNCHANGED <<root, modules, wanted, boot, saved_entry, running, booted>>
    BY <1>26 DEF undo_record, At, topVars, bootVars, hostVars
  <2>1. \A d \in Procs \ {c} : pc[d] \notin Own \cup {"undo", "undo_boot"} \cup Swapping
    BY <2>0, OthersWait
  <2>2. Others(c) /\ pc'[c] \in {"idle", "recover"} /\ placed'[c] = {}
    BY <2>0, LeaveEffect
  <2>3. saved_entry \in boot \cap modules[root]
    BY <2>0, <2>1
  <2>4. \A d \in Procs \ {c} : pc'[d] = pc[d] /\ placed'[d] = placed[d]
    BY <2>2 DEF Others
  <2> QED
    BY <2>0, <2>1, <2>2, <2>3, <2>4
<1>27. ASSUME NEW c \in Procs, discard_root(c) PROVE Starts'
  BY <1>27, ExitEffect DEF discard_root, At, Goto, pointVars, recordVars,
     bootVars, hostVars, procVars, Others
<1>28. ASSUME NEW c \in Procs, discard_record(c) PROVE Starts'
  BY <1>28, ExitEffect DEF discard_record, At, Goto, topVars, pointVars,
     bootVars, hostVars, Others
<1>29. ASSUME NEW c \in Procs, Fail(c) PROVE Starts'
  BY <1>29 DEF Fail, Goto, topVars, pointVars, recordVars, bootVars, hostVars
<1>30. ASSUME NEW c \in Procs, Kill(c) PROVE Starts'
  BY <1>30, ExitEffect DEF Kill, Goto, topVars, pointVars, recordVars,
     bootVars, hostVars, Others
<1>31. ASSUME NEW c \in Procs, KernelInstalled(c) PROVE Starts'
  BY <1>31 DEF KernelInstalled, Maintenance, At, Goto, pointVars, recordVars,
     hostVars, procVars
<1>32. ASSUME NEW c \in Procs, KernelRemoved(c) PROVE Starts'
  <2>0. /\ events = 0 /\ running = root /\ \A d \in Procs : pc[d] = "idle"
        /\ UNCHANGED <<root, wanted, running, booted, name, placed>>
        /\ Goto(c, "refresh_lock")
    BY <1>32 DEF KernelRemoved, Maintenance, At, recordVars, hostVars, procVars
  <2>1. PICK k \in modules[root] \ {booted} :
          /\ modules' = [modules EXCEPT ![root] = modules[root] \ {k}]
          /\ boot' = boot \ {k}
          /\ saved_entry' = IF saved_entry = k THEN booted ELSE saved_entry
    BY <1>32 DEF KernelRemoved
  <2>2. /\ booted \in boot /\ booted \in modules[root]
        /\ saved_entry \in boot /\ saved_entry \in modules[root]
    BY <2>0 DEF Layout, Subvolumes
  <2>3. modules'[root] = modules[root] \ {k}
    BY <2>1
  <2>4. saved_entry' \in boot' \cap modules'[root]
    BY <2>1, <2>2, <2>3
  <2>5. booted \in boot'
    BY <2>1, <2>2
  <2>6. \A d \in Procs : pc'[d] \in {"idle", "refresh_lock"} /\ placed'[d] = {}
    BY <2>0 DEF Goto
  <2> QED
    BY <2>0, <2>4, <2>5, <2>6
<1>33. CASE RestartNormal
  BY <1>33 DEF RestartNormal, Restart, At, topVars, pointVars, recordVars
<1>34. CASE RestartRecovery
  BY <1>34 DEF RestartRecovery, Restart, At, topVars, pointVars, recordVars
<1>35. CASE UNCHANGED vars
  BY <1>35 DEF vars, topVars, pointVars, recordVars, bootVars, hostVars,
     procVars
<1> QED
  BY <1>1, <1>2, <1>3, <1>4, <1>5, <1>6, <1>7, <1>8, <1>9, <1>10, <1>11,
     <1>12, <1>13, <1>14, <1>15, <1>16, <1>17, <1>18, <1>19, <1>20, <1>21,
     <1>22, <1>23, <1>24, <1>25, <1>26, <1>27, <1>28, <1>29, <1>30, <1>31,
     <1>32, <1>33, <1>34, <1>35 DEF Next, Step

-----------------------------------------------------------------------------
(* The inductive invariant.                                                *)
THEOREM Invariance == Spec => []IInv
<1>1. Init => IInv
  <2> SUFFICES ASSUME Init PROVE IInv
    OBVIOUS
  <2> USE SnapshotAssumption
  <2>1. Names \subseteq Subvolumes /\ 0 \in Subvolumes /\ \A n \in Names : n # 0
    BY DEF Names, Subvolumes
  <2>2. StoreTypes
    <3>1. 1 \in Kernels /\ MaxPoint \in Nat /\ MaxEvents \in Nat
      BY DEF Kernels
    <3>2. modules \in [Subvolumes -> SUBSET Kernels]
      BY <3>1 DEF Init
    <3>3. /\ incoming \in [Names -> Subvolumes \cup {None}]
          /\ replaced \in [Names -> Subvolumes \cup {None}]
          /\ state \in [Names -> {"none", "prepared", "swapped", "complete"}]
          /\ staged \in [Names -> SUBSET Kernels]
          /\ wanted \in [Names -> Kernels \cup {None}]
          /\ oldRoot \in [Names -> Subvolumes]
      BY <2>1 DEF Init
    <3>4. /\ archive \in [Points -> SUBSET Kernels]
          /\ snapshot \in [Points -> SUBSET Kernels]
          /\ kernel \in [Points -> Kernels \cup {None}]
      BY DEF Init
    <3>5. root \in Subvolumes /\ running \in Subvolumes \cup {Recovery}
      BY <2>1 DEF Init
    <3>6. boot \subseteq Kernels /\ saved_entry \in Kernels /\ booted \in Kernels
      BY <3>1 DEF Init
    <3>7. begun \in 0 .. MaxPoint /\ points \subseteq 1 .. begun
      BY <3>1 DEF Init
    <3>8. events \in 0 .. MaxEvents
      BY <3>1 DEF Init
    <3>9. boot_ro \in BOOLEAN /\ ahead \subseteq Procs
      BY DEF Init
    <3> QED
      BY <3>2, <3>3, <3>4, <3>5, <3>6, <3>7, <3>8, <3>9 DEF StoreTypes
  <2>3. CommandTypes
    BY DEF Init, CommandTypes, Pcs
  <2>4. TypeOK
    BY <2>2, <2>3 DEF TypeOK, StoreTypes, CommandTypes
  <2>5. Ids
    BY DEF Init, Ids, Creating, Own, Undo, Swapping
  <2>6. Layout
    <3>1. modules[0] = {1} /\ running = 0 /\ root = 0 /\ booted = 1
      BY <2>1 DEF Init
    <3>2. \A n \in Names : incoming[n] = None /\ replaced[n] = None /\ n # None
      BY <2>1 DEF Init
    <3> QED
      BY <2>1, <3>1, <3>2 DEF Init, Layout, Creating, Own
  <2>7. PointKernels
    BY DEF Init, PointKernels, Creating
  <2>8. Records
    BY DEF Init, Records, Own, Undo, Swapping
  <2>9. Starts
    BY <2>1 DEF Init, Starts, Own, Swapping
  <2> QED
    BY <2>4, <2>5, <2>6, <2>7, <2>8, <2>9 DEF IInv
<1>2. IInv /\ [Next]_vars => IInv'
  <2> SUFFICES ASSUME IInv, [Next]_vars PROVE IInv'
    OBVIOUS
  <2>1. TypeOK /\ Ids /\ Layout /\ PointKernels /\ Records /\ Starts
    BY DEF IInv
  <2>2. StoreTypes' /\ CommandTypes' /\ Ids'
    BY <2>1, StoreStep, CommandStep
  <2>3. TypeOK'
    BY <2>2 DEF TypeOK, StoreTypes, CommandTypes
  <2>4. Layout' /\ PointKernels' /\ Records' /\ Starts'
    BY <2>1, LayoutStep, PointStep, RecordStep, StartStep
  <2> QED
    BY <2>2, <2>3, <2>4 DEF IInv
<1> QED
  BY <1>1, <1>2, PTL DEF Spec

(* Type correctness of the store, /boot, the records and the commands.     *)
THEOREM TypeCorrect == Spec => []TypeOK
<1>1. IInv => TypeOK
  BY DEF IInv
<1> QED
  BY <1>1, Invariance, PTL

(* A step that takes the subvolume of the running system away from every   *)
(* name is a discard which named it before it had been set aside.          *)
LEMMA RootStep ==
    ASSUME IInv, [Next]_vars, OnRoot
    PROVE  \/ OnRoot'
           \/ \E c \in ahead : At(c, "discard") /\ replaced[arg[c]] = running
<1> USE DEF OnRoot
<1>0. TypeOK /\ Ids /\ Layout /\ StoreTypes
  BY DEF IInv, TypeOK, StoreTypes
<1>1. ASSUME UNCHANGED <<root, incoming, replaced, running>>  PROVE OnRoot'
  BY <1>1
<1>2. ASSUME NEW c \in Procs, \/ command_create(c) \/ command_restore(c) \/ command_refresh(c)
                              \/ command_discard(c) \/ open(c) \/ Fail(c) \/ Kill(c)
      PROVE  OnRoot'
  BY <1>1, <1>2 DEF command_create, command_restore, command_refresh, command_discard, Begin,
     open, Fail, Kill, topVars, hostVars
<1>3. ASSUME NEW c \in Procs, \/ create_archive(c) \/ create_snapshot(c) \/ create_metadata(c)
                              \/ create_cleanup(c) \/ create_prune(c) \/ create_prune_files(c)
                              \/ complete_interrupted(c) \/ refresh_done(c)
      PROVE  OnRoot'
  BY <1>1, <1>3 DEF create_archive, create_snapshot, create_metadata, create_cleanup, create_prune,
     create_prune_files, complete_interrupted, refresh_done, topVars, hostVars
<1>4. ASSUME NEW c \in Procs, \/ restore_record(c) \/ stage_boot_files(c) \/ restore_staged(c)
                              \/ restore_swapped(c) \/ reconcile_retire(c) \/ reconcile_default(c)
                              \/ finish_restore(c) \/ undo_boot(c) \/ undo_record(c)
                              \/ discard_record(c) \/ KernelInstalled(c) \/ KernelRemoved(c)
      PROVE  OnRoot'
  BY <1>1, <1>4 DEF restore_record, stage_boot_files, restore_staged, restore_swapped,
     reconcile_retire, reconcile_default, finish_restore, undo_boot, undo_record, discard_record,
     KernelInstalled, KernelRemoved, Maintenance, topVars, hostVars
<1>5. ASSUME NEW c \in Procs, restore_copy(c)  PROVE OnRoot'
  <2>1. UNCHANGED <<root, replaced, running>>
    BY <1>5 DEF restore_copy, hostVars
  <2>2. ASSUME Unused # {}, incoming' = [incoming EXCEPT ![Min(Unused)] = Min(Unused)]
        PROVE  \A n \in Names : incoming[n] = None \/ incoming'[n] = incoming[n]
    BY <1>0, <2>2, FreeName, SnapshotAssumption DEF Layout, StoreTypes
  <2>3. running # None
    BY <1>0, SnapshotAssumption DEF StoreTypes
  <2> QED
    BY <1>5, <2>1, <2>2, <2>3 DEF restore_copy
<1>6. ASSUME NEW c \in Procs, restore_exchange(c)  PROVE OnRoot'
  <2>1. name[c] \in Names
    BY <1>0, <1>6 DEF restore_exchange, At, Ids, Own
  <2>2. /\ incoming' = [incoming EXCEPT ![name[c]] = root] /\ root' = incoming[name[c]]
        /\ UNCHANGED <<replaced, running>>
    BY <1>6 DEF restore_exchange, hostVars
  <2> QED
    BY <1>0, <2>1, <2>2 DEF StoreTypes
<1>7. ASSUME NEW c \in Procs, restore_rename(c)  PROVE OnRoot'
  <2>1. name[c] \in Names /\ replaced[name[c]] = None
    BY <1>0, <1>7 DEF restore_rename, At, Ids, Swapping, Layout
  <2>2. /\ replaced' = [replaced EXCEPT ![name[c]] = incoming[name[c]]]
        /\ incoming' = [incoming EXCEPT ![name[c]] = None] /\ UNCHANGED <<root, running>>
    BY <1>7 DEF restore_rename, hostVars
  <2>3. running # None
    BY <1>0, SnapshotAssumption DEF StoreTypes
  <2> QED
    BY <1>0, <2>1, <2>2, <2>3 DEF StoreTypes
<1>8. ASSUME NEW c \in Procs, undo_prepared(c)  PROVE OnRoot'
  <2>1. name[c] \in Names
    BY <1>0, <1>8 DEF undo_prepared, At, Ids, Undo
  <2>2. /\ UNCHANGED <<root, replaced, running>>
        /\ \/ UNCHANGED incoming
           \/ /\ incoming[name[c]] = name[c]
              /\ incoming' = [incoming EXCEPT ![name[c]] = None]
    BY <1>8 DEF undo_prepared, hostVars
  <2>3. incoming[name[c]] = name[c] => running # incoming[name[c]]
    BY <1>0, <2>1 DEF Layout
  <2> QED
    BY <1>0, <2>1, <2>2, <2>3 DEF StoreTypes
<1>9. ASSUME NEW c \in Procs, discard_root(c)
      PROVE  OnRoot' \/ (c \in ahead /\ At(c, "discard") /\ replaced[arg[c]] = running)
  <2>1. arg[c] \in Names /\ At(c, "discard")
    BY <1>0, <1>9 DEF discard_root, At, Ids
  <2>2. /\ UNCHANGED <<root, incoming, running>>
        /\ replaced' = replaced \/ replaced' = [replaced EXCEPT ![arg[c]] = None]
    BY <1>9 DEF discard_root, hostVars
  <2>3. c \notin ahead => running # replaced[arg[c]]
    BY <1>0, <2>1 DEF Layout, At
  <2> QED
    BY <1>0, <2>1, <2>2, <2>3 DEF StoreTypes
<1>10. ASSUME RestartNormal \/ RestartRecovery  PROVE OnRoot'
  BY <1>10 DEF RestartNormal, RestartRecovery, Restart, topVars
<1>11. ASSUME UNCHANGED vars  PROVE OnRoot'
  BY <1>1, <1>11 DEF vars, topVars, hostVars
<1> HIDE DEF OnRoot
<1> QED
  BY <1>2, <1>3, <1>4, <1>5, <1>6, <1>7, <1>8, <1>9, <1>10, <1>11 DEF Next, Step, IInv, TypeOK

(* However commands interleave, fail, are killed or lose power, nothing    *)
(* deletes the subvolume the running system is on but a discard that named *)
(* it before a restore set it aside (undo_prepared, and command_discard,   *)
(* which compares with the running root before it has the lock).           *)
THEOREM RunningRootSafe == Spec => RunningRootKept
<1>1. IInv /\ [Next]_vars =>
        [OnRoot => \/ OnRoot'
                   \/ \E c \in ahead : At(c, "discard") /\ replaced[arg[c]] = running]_vars
  BY RootStep
<1> QED
  BY <1>1, Invariance, PTL DEF Spec, RunningRootKept

(* As long as no step has failed and nothing was killed, /boot can start   *)
(* the subvolume called `root` at every moment of every restore, whatever  *)
(* waits beside it (stage, exchange, retire in command_restore).           *)
THEOREM Bootable == Spec => [](events = 0 => AlwaysBootable)
<1>1. IInv => (events = 0 => AlwaysBootable)
  <2> SUFFICES ASSUME IInv, events = 0 PROVE boot \cap modules[root] # {}
    BY DEF AlwaysBootable
  <2>1. CASE \A c \in Procs : pc[c] \notin Swapping
    BY <2>1 DEF IInv, Starts
  <2>2. ASSUME NEW c \in Procs, pc[c] \in Swapping PROVE boot \cap modules[root] # {}
    BY <2>2 DEF IInv, Starts
  <2> QED
    BY <2>1, <2>2
<1> QED
  BY <1>1, Invariance, PTL

(* As long as no step has failed and nothing was killed, the default entry *)
(* starts `root` whenever no command runs (reconcile_boot).                *)
THEOREM DefaultStarts == Spec => [](events = 0 => DefaultRuns)
<1>1. IInv => (events = 0 => DefaultRuns)
  BY DEF IInv, Starts, DefaultRuns, Swapping, At
<1> QED
  BY <1>1, Invariance, PTL

-----------------------------------------------------------------------------
(* Recovery points. *)

(* A recovery point is not listed before its snapshot exists, nor while    *)
(* retention removes its files; it is withdrawn only after a failure; and  *)
(* what was archived starts what is about to be taken.                     *)
Archives ==
    /\ \A c \in Procs :
          /\ pc[c] \in Creating => arg[c] \notin points
          /\ pc[c] = "prune_files" => name[c] \notin points
          /\ pc[c] = "snapshot" => archive[arg[c]] \cap modules[running] # {}
          /\ pc[c] \in {"cleanup", "cleanup_root"} => events > 0
    /\ events <= 1 => RestorablePoints

(* The system that a create archives the kernels of can be started by one  *)
(* of them.                                                                *)
Archivable ==
    \A c \in Procs : pc[c] = "archive" => boot \cap modules[running] # {}

(* No command has replaced `root` behind a create that waited for it.      *)
Unmoved ==
    \A c \in Procs : pc[c] \in {"create_lock", "archive"} => running = root

(* Where a command has nothing to do with a point under way.               *)
Away == Pcs \ (Creating \cup {"prune_files", "cleanup", "cleanup_root"})

(* A step of one command that leaves the points alone and ends there.      *)
LEMMA ArchiveFrame ==
    ASSUME TypeOK, Archives, NEW c \in Procs, pc[c] # "cleanup_root", pc'[c] \in Away,
           Others(c), UNCHANGED <<points, archive, snapshot>>,
           events' \in {events, events + 1},
           \A d \in Procs \ {c} : pc[d] = "snapshot" => modules'[running'] = modules[running]
    PROVE  Archives'
<1>1. events \in Nat /\ events' >= events
  BY SnapshotAssumption DEF TypeOK
<1>2. ASSUME NEW d \in Procs
      PROVE  /\ pc'[d] \in Creating => arg'[d] \notin points'
             /\ pc'[d] = "prune_files" => name'[d] \notin points'
             /\ pc'[d] = "snapshot" => archive'[arg'[d]] \cap modules'[running'] # {}
             /\ pc'[d] \in {"cleanup", "cleanup_root"} => events' > 0
  <2>1. CASE d = c
    BY <2>1 DEF Away, Creating
  <2>2. CASE d # c
    BY <1>1, <2>2 DEF Others, Archives, Creating
  <2> QED
    BY <2>1, <2>2
<1>3. ASSUME events' <= 1, NEW p \in points', ~(archive'[p] \cap snapshot'[p] # {})
      PROVE  \E d \in Procs : pc'[d] = "cleanup_root" /\ arg'[d] = p
  <2>1. PICK d \in Procs : pc[d] = "cleanup_root" /\ arg[d] = p
    BY <1>1, <1>3 DEF Archives, RestorablePoints, At
  <2> QED
    BY <2>1 DEF Others
<1> QED
  BY <1>2, <1>3 DEF Archives, RestorablePoints, At

(* The commands begin, and take the lock. *)
LEMMA BeginArchives ==
    ASSUME IInv, Archives, NEW c \in Procs,
           \/ command_create(c) \/ command_restore(c) \/ command_refresh(c)
           \/ command_discard(c) \/ open(c)
    PROVE  Archives'
<1> USE DEF IInv, TypeOK
<1>1. CASE command_create(c)
  <2>1. /\ pc' = [pc EXCEPT ![c] = "create_lock"] /\ arg' = [arg EXCEPT ![c] = begun + 1]
        /\ pc[c] = "idle"
        /\ UNCHANGED <<points, archive, snapshot, modules, running, name, events>>
    BY <1>1 DEF command_create, Begin, Goto, At, topVars, hostVars
  <2>2. begun + 1 \notin points
    BY DEF TypeOK
  <2> QED
    BY <2>1, <2>2 DEF Archives, RestorablePoints, At, Creating
<1>2. CASE command_restore(c) \/ command_refresh(c) \/ command_discard(c)
  <2>1. /\ pc[c] = "idle" /\ pc'[c] \in {"restore_lock", "refresh_lock", "discard_lock"}
        /\ Others(c) /\ UNCHANGED <<points, archive, snapshot, modules, running, events>>
    BY <1>2 DEF command_restore, command_refresh, command_discard, Begin, Goto, At, topVars,
       hostVars, Others
  <2> QED
    BY <2>1, ArchiveFrame DEF Away, Pcs, Creating
<1>3. CASE open(c)
  <2>1. /\ pc' = [pc EXCEPT ![c] = pc'[c]] /\ pc'[c] \in {"archive", "discard", "recover"}
        /\ pc'[c] = "archive" => pc[c] = "create_lock"
        /\ pc[c] # "cleanup_root"
        /\ UNCHANGED <<points, archive, snapshot, modules, running, arg, name, events>>
    BY <1>3 DEF open, Goto, At, topVars, pointVars, hostVars
  <2> QED
    BY <2>1 DEF Archives, RestorablePoints, At, Creating
<1> QED
  BY <1>1, <1>2, <1>3

(* create and its retention. *)
Create(c) ==
    \/ create_archive(c) \/ create_snapshot(c) \/ create_metadata(c)
    \/ create_cleanup(c) \/ create_prune(c) \/ create_prune_files(c)

LEMMA CreateArchives ==
    ASSUME IInv, Archives, Archivable, NEW c \in Procs, Create(c)
    PROVE  Archives'
<1> USE DEF IInv, TypeOK, Create
<1>0. /\ lock = c
      /\ \A d \in Procs \ {c} : pc[d] \in {"idle", "create_lock", "restore_lock",
                                          "refresh_lock", "discard_lock"}
  <2>1. pc[c] \notin {"idle", "create_lock", "restore_lock", "refresh_lock", "discard_lock"}
    BY DEF create_archive, create_snapshot, create_metadata, create_cleanup, create_prune,
       create_prune_files, At
  <2> QED
    BY <2>1
<1>1. CASE create_archive(c)
  <2>1. /\ pc[c] = "archive" /\ pc' = [pc EXCEPT ![c] = "snapshot"]
        /\ archive' = [archive EXCEPT ![arg[c]] = boot]
        /\ UNCHANGED <<points, snapshot, modules, running, arg, name, events>>
    BY <1>1 DEF create_archive, Goto, At, topVars, hostVars, procVars
  <2>2. arg[c] \in Points /\ arg[c] \notin points
    BY <2>1, SnapshotAssumption DEF Ids, Creating, Points, Archives
  <2>3. boot \cap modules[running] # {}
    BY <2>1 DEF Archivable
  <2>4. archive'[arg[c]] = boot /\ \A p \in points : archive'[p] = archive[p]
    BY <2>1, <2>2
  <2> QED
    BY <1>0, <2>1, <2>2, <2>3, <2>4 DEF Archives, RestorablePoints, At, Creating
<1>2. CASE create_snapshot(c)
  <2>1. /\ pc[c] = "snapshot" /\ pc' = [pc EXCEPT ![c] = "metadata"]
        /\ points' = points \cup {arg[c]}
        /\ snapshot' = [snapshot EXCEPT ![arg[c]] = modules[running]]
        /\ UNCHANGED <<archive, modules, running, arg, name, events>>
    BY <1>2 DEF create_snapshot, Goto, At, topVars, hostVars, procVars
  <2>2. arg[c] \in Points /\ arg[c] \notin points /\ archive[arg[c]] \cap modules[running] # {}
    BY <2>1, SnapshotAssumption DEF Ids, Creating, Points, Archives
  <2>3. \A d \in Procs \ {c} : pc[d] = "create_lock" => arg[d] # arg[c]
    BY <2>1 DEF PointKernels, Creating
  <2>4. /\ snapshot'[arg[c]] = modules[running]
        /\ \A p \in points : snapshot'[p] = snapshot[p]
    BY <2>1, <2>2
  <2>5. \A d \in Procs : pc'[d] \in Creating => arg'[d] \notin points'
    BY <1>0, <2>1, <2>3 DEF Archives, Creating
  <2>6. events <= 1 => RestorablePoints'
    BY <1>0, <2>1, <2>2, <2>4 DEF Archives, RestorablePoints, At
  <2> QED
    BY <1>0, <2>1, <2>5, <2>6 DEF Archives
<1>3. CASE create_metadata(c)
  <2>1. /\ pc[c] = "metadata" /\ pc'[c] = "prune" /\ Others(c)
        /\ UNCHANGED <<points, archive, snapshot, modules, running, events>>
    BY <1>3 DEF create_metadata, Goto, At, topVars, hostVars, procVars, Others
  <2> QED
    BY <2>1, ArchiveFrame DEF Away, Pcs, Creating
<1>4. CASE create_cleanup(c)
  <2>0. UNCHANGED <<snapshot, modules, running, events>>
    BY <1>4 DEF create_cleanup, topVars, hostVars
  <2>1. CASE /\ pc[c] = "cleanup" /\ archive' = [archive EXCEPT ![arg[c]] = {}]
             /\ pc' = [pc EXCEPT ![c] = "cleanup_root"] /\ UNCHANGED <<points, arg, name>>
    <3>1. \A p \in points : p # arg[c] => archive'[p] = archive[p]
      BY <2>1
    <3>2. \A d \in Procs : pc'[d] # "snapshot"
      BY <1>0, <2>1
    <3> QED
      BY <1>0, <2>0, <2>1, <3>1, <3>2 DEF Archives, RestorablePoints, At, Creating
  <2>2. CASE /\ pc[c] = "cleanup_root" /\ points' = points \ {arg[c]} /\ Exit(c)
             /\ archive' = archive
    <3>1. pc'[c] = "idle" /\ Others(c)
      BY <2>2, ExitEffect DEF CommandTypes
    <3> QED
      BY <1>0, <2>0, <2>2, <3>1 DEF Archives, RestorablePoints, At, Creating, Others
  <2> QED
    BY <1>4, <2>1, <2>2 DEF create_cleanup, At, Goto, procVars
<1>5. CASE create_prune(c)
  <2>0. pc[c] = "prune" /\ UNCHANGED <<archive, snapshot, modules, running, events>>
    BY <1>5 DEF create_prune, At, topVars, hostVars
  <2>1. CASE /\ points' = points \ {Oldest} /\ name' = [name EXCEPT ![c] = Oldest]
             /\ pc' = [pc EXCEPT ![c] = "prune_files"] /\ arg' = arg
    BY <1>0, <2>0, <2>1 DEF Archives, RestorablePoints, At, Creating
  <2>2. CASE Exit(c) /\ points' = points
    BY <2>0, <2>2, ExitEffect, ArchiveFrame DEF CommandTypes, Away, Pcs, Creating
  <2> QED
    BY <1>5, <2>1, <2>2 DEF create_prune, Goto
<1>6. CASE create_prune_files(c)
  <2>1. /\ pc[c] = "prune_files" /\ pc' = [pc EXCEPT ![c] = "prune"]
        /\ archive' = [archive EXCEPT ![name[c]] = {}] /\ name' = [name EXCEPT ![c] = 0]
        /\ UNCHANGED <<points, snapshot, modules, running, arg, events>>
    BY <1>6 DEF create_prune_files, Goto, At, topVars, hostVars
  <2>2. name[c] \notin points
    BY <2>1 DEF Archives
  <2>3. \A p \in points : archive'[p] = archive[p]
    BY <2>1, <2>2
  <2> QED
    BY <1>0, <2>1, <2>3 DEF Archives, RestorablePoints, At, Creating
<1> QED
  BY <1>1, <1>2, <1>3, <1>4, <1>5, <1>6

(* A step that has nothing to do with any point.                           *)
Apart(c) ==
    /\ pc[c] \in Own \cup Undo \cup Swapping
                   \cup {"recover", "complete", "discard", "discard_record"}
    /\ pc'[c] \in Own \cup Undo \cup Swapping
                    \cup {"idle", "recover", "complete", "discard_record"}
    /\ Others(c) /\ UNCHANGED <<points, archive, snapshot, running>>
    /\ events' \in {events, events + 1}
    /\ modules'[running] = modules[running]

(* Recovery of interrupted restores, restore, undo and discard.            *)
LEMMA RestoreApart ==
    ASSUME IInv, NEW c \in Procs, Step(c), ~Create(c)
    PROVE  Apart(c)
<1> USE DEF IInv, TypeOK, Apart
<1>0. CommandTypes
  BY DEF CommandTypes
<1> USE DEF Own, Undo, Swapping
<1>1. ASSUME complete_interrupted(c) \/ refresh_done(c)  PROVE Apart(c)
  BY <1>0, <1>1, ExitEffect DEF complete_interrupted, refresh_done, Goto, At, topVars, pointVars,
     hostVars, Others
<1>2. ASSUME restore_copy(c)  PROVE Apart(c)
  <2>0. pc[c] = "recover" /\ UNCHANGED <<points, archive, snapshot, running, events>>
    BY <1>2 DEF restore_copy, pointVars, hostVars, At
  <2>1. CASE Exit(c) /\ modules' = modules
    BY <1>0, <2>0, <2>1, ExitEffect
  <2>2. CASE /\ Unused # {} /\ Goto(c, "record") /\ UNCHANGED <<arg, todo, placed>>
             /\ name' = [name EXCEPT ![c] = Min(Unused)]
             /\ modules' = [modules EXCEPT ![Min(Unused)] = snapshot[arg[c]]]
    <3>1. running # Min(Unused)
      BY <2>2, FreeName, SnapshotAssumption DEF Layout
    <3> QED
      BY <2>0, <2>2, <3>1 DEF Goto, Others
  <2> QED
    BY <1>2, <2>1, <2>2 DEF restore_copy
<1>3. ASSUME restore_record(c) \/ stage_boot_files(c) \/ restore_staged(c)
             \/ restore_exchange(c) \/ restore_rename(c) \/ restore_swapped(c)
      PROVE  Apart(c)
  BY <1>3 DEF restore_record, stage_boot_files, restore_staged, restore_exchange,
     restore_rename, restore_swapped, Goto, At, topVars, pointVars, hostVars, procVars, Others
<1>4. ASSUME reconcile_retire(c) \/ reconcile_default(c) \/ finish_restore(c)
      PROVE  Apart(c)
  <2>1. lock = c
    BY <1>4 DEF reconcile_retire, reconcile_default, finish_restore, At
  <2> QED
    BY <1>0, <1>4, <2>1, ExitEffect, LeaveEffect
       DEF reconcile_retire, reconcile_default, finish_restore, Goto, At, topVars, pointVars,
           hostVars, procVars, Others
<1>5. ASSUME undo_prepared(c) \/ undo_boot(c) \/ undo_record(c)  PROVE Apart(c)
  <2>1. lock = c
    BY <1>5 DEF undo_prepared, undo_boot, undo_record, At
  <2> QED
    BY <1>0, <1>5, <2>1, LeaveEffect
       DEF undo_prepared, undo_boot, undo_record, Goto, At, topVars, pointVars, hostVars,
           procVars, Others
<1>6. ASSUME discard_root(c) \/ discard_record(c)  PROVE Apart(c)
  BY <1>0, <1>6, ExitEffect DEF discard_root, discard_record, Goto, At, topVars, pointVars,
     hostVars, procVars, Others
<1> QED
  BY <1>1, <1>2, <1>3, <1>4, <1>5, <1>6 DEF Step, Create

LEMMA RestoreArchives ==
    ASSUME IInv, Archives, NEW c \in Procs, Step(c), ~Create(c)
    PROVE  Archives'
  BY RestoreApart, ArchiveFrame
     DEF IInv, Apart, Away, Pcs, Creating, Own, Undo, Swapping

(* Failures, kills, restarts and dnf. *)
LEMMA EventArchives ==
    ASSUME IInv, Archives,
           \/ \E c \in Procs : Fail(c) \/ Kill(c) \/ KernelInstalled(c) \/ KernelRemoved(c)
           \/ RestartNormal \/ RestartRecovery
    PROVE  Archives'
<1> USE DEF IInv, TypeOK
<1>0. CommandTypes /\ events \in Nat
  BY SnapshotAssumption DEF CommandTypes
<1>1. ASSUME NEW c \in Procs, Fail(c)  PROVE Archives'
  <2>1. /\ pc[c] # "cleanup_root" /\ pc'[c] \in {"cleanup", "undo"}
        /\ pc' = [pc EXCEPT ![c] = pc'[c]] /\ events' = events + 1
        /\ UNCHANGED <<points, archive, snapshot, modules, running, arg, name>>
    BY <1>1 DEF Fail, Goto, topVars, pointVars, hostVars
  <2> QED
    BY <1>0, <2>1 DEF Archives, RestorablePoints, At, Creating
<1>2. ASSUME NEW c \in Procs, Kill(c)  PROVE Archives'
  <2>1. /\ events' = events + 1 /\ pc'[c] = "idle" /\ Others(c)
        /\ UNCHANGED <<points, archive, snapshot, modules, running>>
    BY <1>0, <1>2, ExitEffect DEF Kill, topVars, pointVars, hostVars
  <2>2. CASE pc[c] # "cleanup_root"
    BY <2>1, <2>2, ArchiveFrame DEF Away, Pcs, Creating
  <2>3. CASE pc[c] = "cleanup_root"
    <3>1. ~(events' <= 1)
      BY <1>0, <2>1, <2>3 DEF Archives
    <3>2. \A d \in Procs \ {c} : pc'[d] = pc[d] /\ arg'[d] = arg[d] /\ name'[d] = name[d]
      BY <2>1 DEF Others
    <3> QED
      BY <1>0, <2>1, <3>1, <3>2 DEF Archives, Creating
  <2> QED
    BY <2>2, <2>3
<1>3. ASSUME NEW c \in Procs, KernelInstalled(c) \/ KernelRemoved(c)  PROVE Archives'
  <2>1. /\ \A d \in Procs : pc[d] = "idle"
        /\ pc'[c] = "refresh_lock" /\ Others(c)
        /\ UNCHANGED <<points, archive, snapshot, running, events>>
    BY <1>3 DEF KernelInstalled, KernelRemoved, Maintenance, Goto, At, pointVars, hostVars,
       procVars, Others
  <2> QED
    BY <2>1, ArchiveFrame DEF Away, Pcs, Creating
<1>4. CASE RestartNormal \/ RestartRecovery
  <2>1. /\ \A d \in Procs : pc'[d] = "idle"
        /\ UNCHANGED <<points, archive, snapshot>>
        /\ \/ events' = events /\ \A d \in Procs : pc[d] = "idle"
           \/ events' = events + 1
    BY <1>4 DEF RestartNormal, RestartRecovery, Restart, At, pointVars
  <2>2. events' <= 1 => \A d \in Procs : pc[d] # "cleanup_root"
    BY <1>0, <2>1 DEF Archives
  <2> QED
    BY <1>0, <2>1, <2>2 DEF Archives, RestorablePoints, At, Creating
<1> QED
  BY <1>1, <1>2, <1>3, <1>4

LEMMA ArchivesStep ==
    ASSUME IInv, Archives, Archivable, [Next]_vars
    PROVE  Archives'
<1>1. CASE Next
  BY <1>1, BeginArchives, CreateArchives, RestoreArchives, EventArchives DEF Next, Step
<1>2. CASE UNCHANGED vars
  BY <1>2 DEF vars, topVars, pointVars, hostVars, procVars, Archives, RestorablePoints, At,
     Creating
<1> QED
  BY <1>1, <1>2

LEMMA ArchivesInit == Init => Archives
  BY DEF Init, Archives, RestorablePoints, Creating

(* Nobody begins to create behind another command when there is only one.  *)
LEMMA UnmovedStep ==
    ASSUME IInv, Unmoved, \A c, d \in Procs : c = d, [Next]_vars
    PROVE  Unmoved'
<1> USE DEF IInv, TypeOK
<1>0. CommandTypes
  BY DEF CommandTypes
<1>1. ASSUME NEW c \in Procs,
             pc'[c] \in {"create_lock", "archive"} => UNCHANGED <<root, running>> /\ running = root
      PROVE  Unmoved'
  BY <1>1 DEF Unmoved
<1>2. ASSUME NEW c \in Procs, command_create(c)  PROVE Unmoved'
  BY <1>1, <1>2 DEF command_create, pending_reboot, Begin, topVars, hostVars
<1>3. ASSUME NEW c \in Procs, command_restore(c) \/ command_refresh(c) \/ command_discard(c)
      PROVE  Unmoved'
  BY <1>1, <1>3 DEF command_restore, command_refresh, command_discard, Begin, Goto
<1>4. ASSUME NEW c \in Procs, open(c)  PROVE Unmoved'
  BY <1>1, <1>4 DEF open, Goto, At, topVars, hostVars, Unmoved
<1>5. ASSUME NEW c \in Procs, Create(c)  PROVE Unmoved'
  BY <1>0, <1>1, <1>5, ExitEffect
     DEF Create, create_archive, create_snapshot, create_metadata, create_cleanup, create_prune,
         create_prune_files, Goto
<1>6. ASSUME NEW c \in Procs, Step(c), ~Create(c)  PROVE Unmoved'
  BY <1>1, <1>6, RestoreApart DEF Apart, Own, Undo, Swapping
<1>7. ASSUME NEW c \in Procs, Fail(c) \/ Kill(c) \/ KernelInstalled(c) \/ KernelRemoved(c)
      PROVE  Unmoved'
  BY <1>0, <1>1, <1>7, ExitEffect DEF Fail, Kill, KernelInstalled, KernelRemoved, Maintenance, Goto
<1>8. CASE RestartNormal \/ RestartRecovery
  BY <1>8 DEF RestartNormal, RestartRecovery, Restart, Unmoved
<1>9. CASE UNCHANGED vars
  BY <1>9 DEF vars, topVars, hostVars, Unmoved
<1> QED
  BY <1>2, <1>3, <1>4, <1>5, <1>6, <1>7, <1>8, <1>9 DEF Next

(* Failures are counted, and not forgotten. *)
LEMMA EventsStay ==
    ASSUME IInv, [Next]_vars
    PROVE  events' = 0 => events = 0
<1> USE DEF IInv, TypeOK
<1>0. events \in Nat
  BY SnapshotAssumption
<1>1. ASSUME NEW c \in Procs, \/ command_create(c) \/ command_restore(c) \/ command_refresh(c)
                              \/ command_discard(c) \/ open(c)
      PROVE  events' = events
  BY <1>1 DEF command_create, command_restore, command_refresh, command_discard, Begin, open
<1>2. ASSUME NEW c \in Procs, Create(c)  PROVE events' = events
  BY <1>2 DEF Create, create_archive, create_snapshot, create_metadata, create_cleanup,
     create_prune, create_prune_files
<1>3. ASSUME NEW c \in Procs, Step(c), ~Create(c)  PROVE events' \in {events, events + 1}
  BY <1>3, RestoreApart DEF Apart
<1>4. ASSUME NEW c \in Procs, Fail(c) \/ Kill(c) \/ KernelInstalled(c) \/ KernelRemoved(c)
      PROVE  events' \in {events, events + 1}
  BY <1>4 DEF Fail, Kill, KernelInstalled, KernelRemoved, Maintenance
<1>5. ASSUME RestartNormal \/ RestartRecovery  PROVE events' \in {events, events + 1}
  BY <1>5 DEF RestartNormal, RestartRecovery, Restart
<1> QED
  BY <1>0, <1>1, <1>2, <1>3, <1>4, <1>5 DEF Next, vars

(* Until something fails, the running system is in /boot.                  *)
LEMMA UnmovedArchivable ==
    ASSUME IInv, Unmoved, events = 0
    PROVE  Archivable
<1> SUFFICES ASSUME NEW c \in Procs, pc[c] = "archive"
             PROVE  booted \in boot \cap modules[running]
  BY DEF Archivable
<1>1. running = root /\ running # Recovery
  BY DEF Unmoved, IInv, Layout, Creating
<1> QED
  BY <1>1 DEF IInv, Layout, Starts

(* With one command at a time and until something fails, every listed      *)
(* recovery point has a kernel of its snapshot in its archive, through any *)
(* number of creates, prunings, restores, restarts and kernel changes.     *)
THEOREM PointsRestorableAlone ==
    ASSUME \A c, d \in Procs : c = d
    PROVE  Spec => [](events = 0 => RestorablePoints)
<1> DEFINE Sound == events = 0 => Archives
<1>1. Init => Unmoved
  BY DEF Init, Unmoved
<1>2. Spec => []Unmoved
  BY <1>1, UnmovedStep, Invariance, PTL DEF Spec
<1>3. Init => Sound
  BY ArchivesInit
<1>4. IInv /\ Unmoved /\ Sound /\ [Next]_vars => Sound'
  BY EventsStay, UnmovedArchivable, ArchivesStep
<1>5. Sound => (events = 0 => RestorablePoints)
  BY DEF Archives
<1> HIDE DEF Sound
<1> QED
  BY <1>2, <1>3, <1>4, <1>5, Invariance, PTL DEF Spec

-----------------------------------------------------------------------------
(* The release transaction.  None of its properties is inductive: each     *)
(* says how things stand between runs, and needs to know what a worker at  *)
(* a given step has already done to the configuration, the link and the    *)
(* status.                                                                 *)

(* Before Ansible changes the first file, and until the release is active, *)
(* mixed_state is set and on disk.                                         *)
MixedFirst ==
    /\ worker \in {"ansible", "applying", "activate", "provision", "prune"}
       => mixed_state /\ mixedState
    /\ worker \in {"provision", "prune", "finish"} => current = version
    /\ (worker # "none" /\ applied)
       => worker \in {"applying", "activate", "provision", "prune", "finish"}

(* What a worker that nothing has gone wrong with can put back.            *)
Restorable ==
    (kills = 0 /\ faults = 0)
    => /\ worker \in {"none", "promote", "promote_rename", "packages", "migration", "migrate",
                      "prune", "finish"} => config = Schema[current]
       /\ worker \in {"promote", "promote_rename", "packages", "migration"} => ~config_changed
       /\ worker = "migrate" => config_changed /\ backup = config
       /\ worker \in {"boundary", "ansible", "applying", "activate"}
          => /\ config = Schema[version]
             /\ (IF config_changed THEN backup ELSE config) = Schema[current]
       /\ worker = "provision"
          => /\ config = Schema[version]
             /\ (IF config_changed THEN backup ELSE config) = Schema[previous]
       /\ worker \notin {"none", "prune", "finish"} => ~activated
       /\ worker \in {"prune", "finish"} => activated

ReleaseInv ==
    /\ ReleaseTypeOK
    /\ MixedFirst
    /\ MixedIsRecorded
    /\ Restorable

-----------------------------------------------------------------------------
(* Types are preserved by every step.                                      *)
LEMMA ReleaseTypeStep == ReleaseTypeOK /\ [ReleaseNext]_releaseVars => ReleaseTypeOK'
<1> SUFFICES ASSUME ReleaseTypeOK, [ReleaseNext]_releaseVars PROVE ReleaseTypeOK'
  OBVIOUS
<1> USE ReleaseAssumption DEF ReleaseTypeOK, WorkerStates
<1>1. ASSUME NEW c \in Clients, fetch_release(c) PROVE ReleaseTypeOK'
  BY <1>1 DEF fetch_release, treeVars, clientVars, runVars, statusVars, countVars
<1>2. ASSUME NEW c \in Clients, stage_release(c) PROVE ReleaseTypeOK'
  BY <1>2 DEF stage_release, treeVars, clientVars, runVars, statusVars, countVars
<1>3. ASSUME NEW c \in Clients, start(c) PROVE ReleaseTypeOK'
  <2> USE <1>3 DEF start, WorkerAt, write_status, Abandoned
  <2>1. releases' = releases /\ current' = current /\ config' = config /\ installed' = installed
    BY DEF treeVars
  <2>2. CASE UNCHANGED <<worker, runVars, cancel_requested, statusVars, runs, applied>>
    BY <2>1, <2>2 DEF runVars, statusVars
  <2>3. CASE /\ runs < MaxRuns /\ runs' = runs + 1 /\ worker' = "promote"
             /\ version' = candidate[c]
             /\ config_changed' = FALSE /\ activated' = FALSE /\ mixed_state' = FALSE
             /\ cancel_requested' = FALSE /\ applied' = FALSE
             /\ status' = "running" /\ mixedState' = FALSE /\ UNCHANGED <<previous, backup>>
    <3>1. runs' \in 0 .. MaxRuns
      BY <2>3
    <3>2. client' \in [Clients -> {"idle", "fetched", "staged"}]
      OBVIOUS
    <3>3. version' \in Versions
      BY <2>3
    <3> QED
      BY <2>1, <2>3, <3>1, <3>2, <3>3
  <2> QED
    BY <2>2, <2>3
<1>4. CASE cancel
  BY <1>4 DEF cancel, treeVars, clientVars, runVars, statusVars, countVars
<1>5. CASE repair_stale_status
  BY <1>5 DEF repair_stale_status, Abandoned, write_status, treeVars, clientVars,
     runVars, statusVars, countVars
<1>6. CASE worker_cancelled
  BY <1>6 DEF worker_cancelled, End, Ended, restore_release_configuration, WorkerAt,
     write_status, treeVars, clientVars, runVars, statusVars, countVars
<1>7. CASE promote_remove
  BY <1>7 DEF promote_remove, Advance, WorkerAt, treeVars, clientVars, runVars,
     statusVars, countVars
<1>8. CASE promote_rename
  BY <1>8 DEF promote_rename, Advance, worker_failed, End, Ended,
     restore_release_configuration, WorkerAt, write_status, treeVars, clientVars,
     runVars, statusVars, countVars
<1>9. CASE packages
  BY <1>9 DEF packages, Advance, worker_failed, End, Ended,
     restore_release_configuration, WorkerAt, write_status, treeVars, clientVars,
     runVars, statusVars, countVars
<1>10. CASE prepare_release_configuration
  <2> USE <1>10 DEF prepare_release_configuration, WorkerAt
  <2>1. CASE config = Schema[version] /\ Advance("migration", "boundary")
             /\ UNCHANGED <<treeVars, runVars, statusVars, applied>>
    BY <2>1 DEF Advance, treeVars, clientVars, runVars, statusVars, countVars
  <2>2. CASE /\ Advance("migration", "migrate") /\ backup' = config /\ config_changed' = TRUE
             /\ UNCHANGED <<treeVars, version, previous, activated, mixed_state,
                            statusVars, applied>>
    BY <2>2 DEF Advance, treeVars, clientVars, statusVars, countVars
  <2>3. CASE worker = "migration" /\ worker_failed("migration")
    BY <2>3 DEF worker_failed, End, Ended, restore_release_configuration, write_status,
       clientVars, runVars
  <2> QED
    BY <2>1, <2>2, <2>3
<1>11. CASE install_configuration
  BY <1>11 DEF install_configuration, Advance, worker_failed, End, Ended,
     restore_release_configuration, WorkerAt, write_status, treeVars, clientVars,
     runVars, statusVars, countVars
<1>12. CASE ansible_begin
  BY <1>12 DEF ansible_begin, Advance, WorkerAt, write_status, treeVars, clientVars,
     runVars, statusVars, countVars
<1>13. CASE ansible_playbook
  BY <1>13 DEF ansible_playbook, Advance, WorkerAt, treeVars, clientVars, runVars,
     statusVars, countVars
<1>14. CASE ansible_end
  BY <1>14 DEF ansible_end, Advance, worker_failed, End, Ended,
     restore_release_configuration, WorkerAt, write_status, treeVars, clientVars,
     runVars, statusVars, countVars
<1>15. CASE activate_release
  BY <1>15 DEF activate_release, Advance, worker_failed, End, Ended,
     restore_release_configuration, WorkerAt, write_status, treeVars, clientVars,
     runVars, statusVars, countVars
<1>16. CASE provision_skills
  <2> USE <1>16 DEF provision_skills, WorkerAt
  <2>1. CASE /\ Advance("provision", "prune") /\ activated' = TRUE
             /\ UNCHANGED <<treeVars, version, previous, backup, config_changed,
                            mixed_state, statusVars, applied>>
    BY <2>1 DEF Advance, treeVars, clientVars, statusVars, countVars
  <2>2. CASE worker = "provision" /\ End("failed", "activation") /\ current' = previous
    BY <2>2 DEF End, Ended, restore_release_configuration, write_status, clientVars, runVars
  <2> QED
    BY <2>1, <2>2
<1>17. CASE prune_releases
  BY <1>17 DEF prune_releases, Advance, WorkerAt, Prunable, treeVars, clientVars, runVars,
     statusVars, countVars
<1>18. CASE worker_done
  BY <1>18 DEF worker_done, Advance, WorkerAt, write_status, treeVars, clientVars,
     runVars, statusVars, countVars
<1>19. CASE worker_exit_fallback
  BY <1>19 DEF worker_exit_fallback, Ended, restore_release_configuration, WorkerAt,
     write_status, treeVars, clientVars, runVars, statusVars, countVars
<1>20. CASE worker_killed
  BY <1>20 DEF worker_killed, treeVars, clientVars, runVars, statusVars, countVars
<1>21. CASE UNCHANGED releaseVars
  BY <1>21 DEF releaseVars, treeVars, clientVars, runVars, statusVars, countVars
<1> QED
  BY <1>1, <1>2, <1>3, <1>4, <1>5, <1>6, <1>7, <1>8, <1>9, <1>10, <1>11, <1>12,
     <1>13, <1>14, <1>15, <1>16, <1>17, <1>18, <1>19, <1>20, <1>21 DEF ReleaseNext,
     WorkerStep

(* Every step says in time what it is about to mix.                        *)
LEMMA MixedStep ==
    ASSUME MixedFirst, MixedIsRecorded, [ReleaseNext]_releaseVars
    PROVE  MixedFirst' /\ MixedIsRecorded'
<1> DEFINE Mixed == MixedFirst /\ MixedIsRecorded
<1> USE DEF MixedFirst, MixedIsRecorded
<1>1. ASSUME NEW c \in Clients, fetch_release(c) PROVE Mixed'
  BY <1>1 DEF fetch_release, treeVars, clientVars, runVars, statusVars, countVars
<1>2. ASSUME NEW c \in Clients, stage_release(c) PROVE Mixed'
  BY <1>2 DEF stage_release, treeVars, clientVars, runVars, statusVars, countVars
<1>3. ASSUME NEW c \in Clients, start(c) PROVE Mixed'
  BY <1>3 DEF start, WorkerAt, write_status, Abandoned, treeVars, clientVars, runVars,
     statusVars, countVars
<1>4. CASE cancel
  BY <1>4 DEF cancel, treeVars, clientVars, runVars, statusVars, countVars
<1>5. CASE repair_stale_status
  BY <1>5 DEF repair_stale_status, Abandoned, write_status, treeVars, clientVars,
     runVars, statusVars, countVars
<1>6. CASE worker_cancelled
  BY <1>6 DEF worker_cancelled, End, Ended, restore_release_configuration, WorkerAt,
     write_status, treeVars, clientVars, runVars, statusVars, countVars
<1>7. CASE promote_remove
  BY <1>7 DEF promote_remove, Advance, WorkerAt, treeVars, clientVars, runVars,
     statusVars, countVars
<1>8. CASE promote_rename
  BY <1>8 DEF promote_rename, Advance, worker_failed, End, Ended,
     restore_release_configuration, WorkerAt, write_status, treeVars, clientVars,
     runVars, statusVars, countVars
<1>9. CASE packages
  BY <1>9 DEF packages, Advance, worker_failed, End, Ended,
     restore_release_configuration, WorkerAt, write_status, treeVars, clientVars,
     runVars, statusVars, countVars
<1>10. CASE prepare_release_configuration
  BY <1>10 DEF prepare_release_configuration, Advance, worker_failed, End, Ended,
     restore_release_configuration, WorkerAt, write_status, treeVars, clientVars,
     runVars, statusVars, countVars
<1>11. CASE install_configuration
  BY <1>11 DEF install_configuration, Advance, worker_failed, End, Ended,
     restore_release_configuration, WorkerAt, write_status, treeVars, clientVars,
     runVars, statusVars, countVars
<1>12. CASE ansible_begin
  BY <1>12 DEF ansible_begin, Advance, WorkerAt, write_status, treeVars, clientVars,
     runVars, statusVars, countVars
<1>13. CASE ansible_playbook
  BY <1>13 DEF ansible_playbook, Advance, WorkerAt, treeVars, clientVars, runVars,
     statusVars, countVars
<1>14. CASE ansible_end
  BY <1>14 DEF ansible_end, Advance, worker_failed, End, Ended,
     restore_release_configuration, WorkerAt, write_status, treeVars, clientVars,
     runVars, statusVars, countVars
<1>15. CASE activate_release
  BY <1>15 DEF activate_release, Advance, worker_failed, End, Ended,
     restore_release_configuration, WorkerAt, write_status, treeVars, clientVars,
     runVars, statusVars, countVars
<1>16. CASE provision_skills
  BY <1>16 DEF provision_skills, Advance, End, Ended, restore_release_configuration,
     WorkerAt, write_status, treeVars, clientVars, runVars, statusVars, countVars
<1>17. CASE prune_releases
  BY <1>17 DEF prune_releases, Advance, WorkerAt, Prunable, treeVars, clientVars, runVars,
     statusVars, countVars
<1>18. CASE worker_done
  BY <1>18 DEF worker_done, Advance, WorkerAt, write_status, treeVars, clientVars,
     runVars, statusVars, countVars
<1>19. CASE worker_exit_fallback
  BY <1>19 DEF worker_exit_fallback, Ended, restore_release_configuration, WorkerAt,
     write_status, treeVars, clientVars, runVars, statusVars, countVars
<1>20. CASE worker_killed
  BY <1>20 DEF worker_killed, treeVars, clientVars, runVars, statusVars, countVars
<1>21. CASE UNCHANGED releaseVars
  BY <1>21 DEF releaseVars, treeVars, clientVars, runVars, statusVars, countVars
<1> QED
  BY <1>1, <1>2, <1>3, <1>4, <1>5, <1>6, <1>7, <1>8, <1>9, <1>10, <1>11, <1>12,
     <1>13, <1>14, <1>15, <1>16, <1>17, <1>18, <1>19, <1>20, <1>21 DEF ReleaseNext,
     WorkerStep

(* Every step leaves what restore_release_configuration needs.             *)
LEMMA RestorableStep ==
    ASSUME ReleaseTypeOK, MixedFirst, Restorable, [ReleaseNext]_releaseVars PROVE Restorable'
<1> USE ReleaseAssumption DEF ReleaseTypeOK, MixedFirst, Restorable
<1>1. ASSUME NEW c \in Clients, fetch_release(c) PROVE Restorable'
  BY <1>1 DEF fetch_release, treeVars, clientVars, runVars, statusVars, countVars
<1>2. ASSUME NEW c \in Clients, stage_release(c) PROVE Restorable'
  BY <1>2 DEF stage_release, treeVars, clientVars, runVars, statusVars, countVars
<1>3. ASSUME NEW c \in Clients, start(c) PROVE Restorable'
  BY <1>3 DEF start, WorkerAt, write_status, Abandoned, treeVars, clientVars, runVars,
     statusVars, countVars
<1>4. CASE cancel
  BY <1>4 DEF cancel, treeVars, clientVars, runVars, statusVars, countVars
<1>5. CASE repair_stale_status
  BY <1>5 DEF repair_stale_status, Abandoned, write_status, treeVars, clientVars,
     runVars, statusVars, countVars
<1>6. CASE worker_cancelled
  BY <1>6 DEF worker_cancelled, End, Ended, restore_release_configuration, WorkerAt,
     write_status, treeVars, clientVars, runVars, statusVars, countVars
<1>7. CASE promote_remove
  BY <1>7 DEF promote_remove, Advance, WorkerAt, treeVars, clientVars, runVars,
     statusVars, countVars
<1>8. CASE promote_rename
  BY <1>8 DEF promote_rename, Advance, worker_failed, End, Ended,
     restore_release_configuration, WorkerAt, write_status, treeVars, clientVars,
     runVars, statusVars, countVars
<1>9. CASE packages
  BY <1>9 DEF packages, Advance, worker_failed, End, Ended,
     restore_release_configuration, WorkerAt, write_status, treeVars, clientVars,
     runVars, statusVars, countVars
<1>10. CASE prepare_release_configuration
  BY <1>10 DEF prepare_release_configuration, Advance, worker_failed, End, Ended,
     restore_release_configuration, WorkerAt, write_status, treeVars, clientVars,
     runVars, statusVars, countVars
<1>11. CASE install_configuration
  BY <1>11 DEF install_configuration, Advance, worker_failed, End, Ended,
     restore_release_configuration, WorkerAt, write_status, treeVars, clientVars,
     runVars, statusVars, countVars
<1>12. CASE ansible_begin
  BY <1>12 DEF ansible_begin, Advance, WorkerAt, write_status, treeVars, clientVars,
     runVars, statusVars, countVars
<1>13. CASE ansible_playbook
  BY <1>13 DEF ansible_playbook, Advance, WorkerAt, treeVars, clientVars, runVars,
     statusVars, countVars
<1>14. CASE ansible_end
  BY <1>14 DEF ansible_end, Advance, worker_failed, End, Ended,
     restore_release_configuration, WorkerAt, write_status, treeVars, clientVars,
     runVars, statusVars, countVars
<1>15. CASE activate_release
  BY <1>15 DEF activate_release, Advance, worker_failed, End, Ended,
     restore_release_configuration, WorkerAt, write_status, treeVars, clientVars,
     runVars, statusVars, countVars
<1>16. CASE provision_skills
  BY <1>16 DEF provision_skills, Advance, End, Ended, restore_release_configuration,
     WorkerAt, write_status, treeVars, clientVars, runVars, statusVars, countVars
<1>17. CASE prune_releases
  BY <1>17 DEF prune_releases, Advance, WorkerAt, Prunable, treeVars, clientVars, runVars,
     statusVars, countVars
<1>18. CASE worker_done
  BY <1>18 DEF worker_done, Advance, WorkerAt, write_status, treeVars, clientVars,
     runVars, statusVars, countVars
<1>19. CASE worker_exit_fallback
  BY <1>19 DEF worker_exit_fallback, Ended, restore_release_configuration, WorkerAt,
     write_status, treeVars, clientVars, runVars, statusVars, countVars
<1>20. CASE worker_killed
  BY <1>20 DEF worker_killed, treeVars, clientVars, runVars, statusVars, countVars
<1>21. CASE UNCHANGED releaseVars
  BY <1>21 DEF releaseVars, treeVars, clientVars, runVars, statusVars, countVars
<1> QED
  BY <1>1, <1>2, <1>3, <1>4, <1>5, <1>6, <1>7, <1>8, <1>9, <1>10, <1>11, <1>12,
     <1>13, <1>14, <1>15, <1>16, <1>17, <1>18, <1>19, <1>20, <1>21 DEF ReleaseNext,
     WorkerStep

(* The inductive invariant.                                                *)
THEOREM ReleaseInvariance == ReleaseSpec => []ReleaseInv
<1>1. ReleaseInit => ReleaseInv
  <2> SUFFICES ASSUME ReleaseInit PROVE ReleaseInv
    OBVIOUS
  <2>1. 1 \in Versions /\ Schema[1] \in Nat
    BY ReleaseAssumption DEF Versions
  <2>2. ReleaseTypeOK
    <3>1. /\ releases \subseteq Versions /\ installed \subseteq Versions
          /\ current \in Versions /\ version \in Versions /\ previous \in Versions
          /\ config \in Nat /\ backup \in Nat
      BY <2>1 DEF ReleaseInit
    <3>2. /\ client \in [Clients -> {"idle", "fetched", "staged"}]
          /\ candidate \in [Clients -> Versions]
      BY <2>1 DEF ReleaseInit
    <3>3. {config_changed, activated, mixed_state, cancel_requested, mixedState, applied}
          \subseteq BOOLEAN
      BY DEF ReleaseInit
    <3>4. /\ worker = "none" /\ status = "done"
          /\ runs \in 0 .. MaxRuns /\ kills \in 0 .. MaxKills /\ faults \in 0 .. MaxFaults
      BY ReleaseAssumption DEF ReleaseInit
    <3> QED
      BY <3>1, <3>2, <3>3, <3>4 DEF ReleaseTypeOK, WorkerStates
  <2>3. MixedFirst /\ MixedIsRecorded /\ Restorable
    BY DEF ReleaseInit, MixedFirst, MixedIsRecorded, Restorable
  <2> QED
    BY <2>2, <2>3 DEF ReleaseInv
<1>2. ReleaseInv /\ [ReleaseNext]_releaseVars => ReleaseInv'
  BY ReleaseTypeStep, MixedStep, RestorableStep DEF ReleaseInv
<1> QED
  BY <1>1, <1>2, PTL DEF ReleaseSpec

(* Type correctness of clients, worker, release tree and status.           *)
THEOREM ReleaseTypeCorrect == ReleaseSpec => []ReleaseTypeOK
<1>1. ReleaseInv => ReleaseTypeOK
  BY DEF ReleaseInv
<1> QED
  BY <1>1, ReleaseInvariance, PTL

(* A run that let Ansible change files and did not activate its release    *)
(* says so in its status, also when it was killed (ansible_begin).         *)
THEOREM MixedAlwaysRecorded == ReleaseSpec => []MixedIsRecorded
<1>1. ReleaseInv => MixedIsRecorded
  BY DEF ReleaseInv
<1> QED
  BY <1>1, ReleaseInvariance, PTL

(* Without a kill or a restoration that fails, the saved configuration is  *)
(* that of the active release between runs, whatever failed and wherever   *)
(* (restore_release_configuration).                                        *)
THEOREM ConfigRestored == ReleaseSpec => []FailureRestoresConfig
<1>1. ReleaseInv => FailureRestoresConfig
  BY DEF ReleaseInv, Restorable, FailureRestoresConfig, ConfigFollowsCurrent
<1> QED
  BY <1>1, ReleaseInvariance, PTL

(* Nothing but the promotion of the same version removes the directory of  *)
(* the active release; prune_releases spares it.                           *)
THEOREM CurrentKept == ReleaseSpec => OnlyPromotionRemovesCurrent
<1> DEFINE Kept == (current \in releases \ releases') => worker = "promote" /\ version = current
<1>1. ASSUME ReleaseInv, ReleaseNext PROVE Kept
  <2>1. CASE promote_remove
    BY <2>1 DEF promote_remove, Advance
  <2>2. CASE prune_releases
    BY <1>1, <2>2 DEF prune_releases, Advance, Prunable, ReleaseInv, MixedFirst
  <2>3. CASE promote_rename
    BY <2>3 DEF promote_rename, worker_failed, End, Ended
  <2>4. ASSUME NEW c \in Clients, fetch_release(c) \/ stage_release(c) \/ start(c) PROVE Kept
    BY <2>4 DEF fetch_release, stage_release, start, treeVars
  <2>5. CASE cancel \/ repair_stale_status \/ worker_killed \/ worker_exit_fallback
    BY <2>5 DEF cancel, repair_stale_status, worker_killed, worker_exit_fallback, Ended,
       treeVars
  <2>6. CASE worker_cancelled \/ packages \/ prepare_release_configuration
             \/ install_configuration \/ ansible_begin \/ ansible_playbook
    BY <2>6 DEF worker_cancelled, packages, prepare_release_configuration,
       install_configuration, ansible_begin, ansible_playbook, worker_failed, End, Ended,
       treeVars
  <2>7. CASE ansible_end \/ activate_release \/ provision_skills \/ worker_done
    BY <2>7 DEF ansible_end, activate_release, provision_skills, worker_done,
       worker_failed, End, Ended, treeVars
  <2> QED
    BY <1>1, <2>1, <2>2, <2>3, <2>4, <2>5, <2>6, <2>7 DEF ReleaseNext, WorkerStep
<1>2. ReleaseInv /\ [ReleaseNext]_releaseVars => [Kept]_releaseVars
  BY <1>1
<1> QED
  BY <1>2, ReleaseInvariance, PTL DEF ReleaseSpec, OnlyPromotionRemovesCurrent

=============================================================================
