-------------------------- MODULE UserPluginsProofs --------------------------
(***************************************************************************)
(* Theorems about UserPlugins, for any plugins, commands and bounds.       *)
(***************************************************************************)
EXTENDS UserPlugins, TLAPS

(* The control states in which a command holds the registry lock, and      *)
(* those in which the scan does.                                           *)
Locked == {"placed", "same", "clean", "copied", "written"}
Reading == {"next", "stat", "hashed", "staged"}
Inside == {"stat", "hashed", "staged"}

(* What a command and a scan carry at the control states that use it.      *)
Shapes ==
    /\ \A p \in Procs : proc[p].pc # "idle" => proc[p].id \in Ids
    /\ \A p \in Procs : proc[p].pc = "copied" => proc[p].head \in Ids
    /\ scan.pc \in Reading => scan.cache \in [Ids -> RevEntry] /\ scan.current \in [Ids -> Nat]
    /\ scan.pc # "idle" => scan.out \in [Ids -> Nat]
    /\ scan.pc \in Inside => scan.id \in scan.todo

(* The registry lock is one lock.                                          *)
Exclusive ==
    /\ \A p \in Procs : proc[p].pc \in Locked => lock = p
    /\ scan.pc \in Reading => lock = "scan"

(* Whatever name is enabled was chosen, installed or not; a command that   *)
(* is about to delete a tree has disabled it.                              *)
Chosen ==
    /\ \A i \in Ids : prefs[i].enabled => i \in asked
    /\ \A p \in Procs : proc[p].pc = "written" => ~prefs[proc[p].id].enabled

(* What was fetched is a revision that exists; a copied tree that has the  *)
(* fingerprint it had before is the one that was copied, unless it was     *)
(* given back.                                                             *)
Fresh ==
    /\ \A i \in Ids : upstream[i] <= revs
    /\ \A p \in Procs : proc[p].rev <= revs
    /\ (scan.pc = "staged" /\ pkgs[scan.id].rev = scan.rev)
       => scan.code = scan.rev \/ <<scan.id, scan.rev>> \in undone

(* What a scan has handed out and what it will: a snapshot of it exists;   *)
(* and the shell runs what was handed out last, if anything.               *)
Named(i, r) == \E c \in snaps[i] : c.name = r

Handed ==
    /\ scan.pc \in Reading
       => /\ \A i \in scan.todo : scan.current[i] = current[i] /\ scan.out[i] = 0
          /\ \A i \in Ids : scan.out[i] # 0
                            => Named(i, scan.out[i]) /\ scan.current[i] = scan.out[i]
    /\ scan.pc = "print"
       => \A i \in Ids : scan.out[i] # 0
                         => Named(i, scan.out[i]) /\ (missed \/ current[i] = scan.out[i])
    /\ (scan.pc # "print" /\ ~missed) => \A i \in Ids : loaded[i] \in {0, current[i]}

(* A remembered fingerprint is older than the clock, so what is written    *)
(* from now on has another stat signature.                                 *)
Matches(i, e) == (Installed(i) /\ e.stat = pkgs[i].stamp) => e.rev = pkgs[i].rev
Good(i, e) == e # NoEntry => e.stat < now /\ Matches(i, e)

Settled ==
    /\ \A i \in Ids : Good(i, cache[i])
    /\ scan.pc \in Reading => scan.at <= now /\ \A i \in Ids : Good(i, scan.cache[i])
    /\ scan.pc \in {"hashed", "staged"} => Good(scan.id, Entry)

(* Snapshots are what their names say.                                     *)
NamesTrue ==
    \A i \in Ids : \A c \in snaps[i] : c.name = c.code \/ <<i, c.name>> \in undone

IInv ==
    /\ TypeOK
    /\ Shapes
    /\ Exclusive
    /\ Chosen
    /\ Fresh
    /\ Handed
    /\ Settled
    /\ LoadedKept
    /\ NamesTrue

-----------------------------------------------------------------------------
(* Effects of the actions. *)

(* The commands and the world leave the scan alone.                        *)
Outside ==
    \/ \E i \in Ids, ok \in BOOLEAN : Publish(i, ok) \/ Edit(i, ok)
    \/ \E i \in Ids, r \in 1 .. revs : Undo(i, r)
    \/ Tick
    \/ \E p \in Procs, i \in Ids : InstallFetch(p, i) \/ UpdateFetch(p, i) \/ remove(p, i)
    \/ \E p \in Procs, i, j \in Ids : clone(p, i, j)
    \/ \E p \in Procs : InstallPlace(p) \/ register(p) \/ UpdateLock(p) \/ UpdateStatus(p)
                        \/ UpdateMerge(p) \/ CloneWrite(p) \/ RemoveTree(p) \/ Kill(p)
    \/ \E i \in Ids : enable(i) \/ disable(i)
    \/ \E i \in Ids \cup {0} : select_bar(i)
    \/ \E S \in SUBSET Ids : apply_layout(S)

Scans ==
    \/ ListBegin
    \/ \E i \in Ids : snapshot(i)
    \/ fingerprint
    \/ CopyTree
    \/ Publishes
    \/ Retry
    \/ ListEnd
    \/ ShellApplies
    \/ ScanKilled
    \/ ShellRestart

LEMMA Parts == Next => Outside \/ Scans
  BY DEF Next, Outside, Scans

(* A tree stays, goes, or is written now; only edits happen while a scan   *)
(* reads, and those that give a copied tree its fingerprint back are noted. *)
Written(i) == pkgs'[i].stamp = now

Rewritten(i) ==
    /\ Written(i)
    /\ (scan.pc = "staged" /\ scan.id = i /\ pkgs'[i].rev = scan.rev)
       => <<i, scan.rev>> \in undone'

TreesMove ==
    /\ \A i \in Ids : pkgs'[i] = pkgs[i] \/ pkgs'[i] = NoTree \/ Written(i)
    /\ scan.pc \in Reading => \A i \in Ids : pkgs'[i] = pkgs[i] \/ Rewritten(i)
    /\ revs' = revs \/ revs' = revs + 1
    /\ now' = now \/ now' = now + 1
    /\ undone \subseteq undone' /\ undone' \subseteq Ids \X Nat

Still == UNCHANGED <<snaps, cache, current, scan, loaded, missed>>

LEMMA OutsideEffect ==
    ASSUME TypeOK, Shapes, Exclusive, Fresh, Outside
    PROVE  TreesMove /\ Still
<1> USE DEF TypeOK
<1>n. scan.pc \in Reading => lock = "scan" /\ lock # None /\ lock \notin Procs
  BY ConstantsAssumption DEF Exclusive
<1>o. \A p \in Procs : proc[p].pc \in Locked => lock = p
  BY DEF Exclusive
<1>q. ASSUME UNCHANGED <<pkgs, revs, now, undone>>
      PROVE  TreesMove
  BY <1>q DEF TreesMove
<1>r. ASSUME NEW i \in Ids, NEW r, r = NoTree \/ r.stamp = now,
             pkgs' = [pkgs EXCEPT ![i] = r], revs' = revs \/ revs' = revs + 1, now' = now,
             scan.pc \notin Reading, UNCHANGED undone
      PROVE  TreesMove
  <2>1. pkgs'[i] = r /\ \A j \in Ids : j # i => pkgs'[j] = pkgs[j]
    BY <1>r
  <2> QED
    BY <1>r, <2>1 DEF TreesMove, Written
<1>c. ASSUME NEW i \in Ids, NEW v \in Nat, Contents(i, v), revs' = revs \/ revs' = revs + 1
      PROVE  TreesMove /\ Still
  <2>1. /\ pkgs' = [pkgs EXCEPT ![i] = [pkgs[i] EXCEPT !.rev = v, !.stamp = now]]
        /\ now' = now /\ Still
        /\ undone' = IF scan.pc = "staged" /\ scan.id = i /\ scan.rev = v
                       THEN undone \cup {<<i, v>>} ELSE undone
    BY <1>c DEF Contents, Still
  <2>2. pkgs'[i].rev = v /\ pkgs'[i].stamp = now
    BY <2>1 DEF Tree
  <2>3. \A j \in Ids : j # i => pkgs'[j] = pkgs[j]
    BY <2>1
  <2>4. undone \subseteq undone' /\ undone' \subseteq Ids \X Nat
    BY <2>1
  <2>5. Rewritten(i)
    BY <2>1, <2>2 DEF Rewritten, Written
  <2> QED
    BY <1>c, <2>1, <2>2, <2>3, <2>4, <2>5 DEF TreesMove, Written
<1>1. ASSUME NEW i \in Ids, NEW ok \in BOOLEAN, Publish(i, ok)
      PROVE  TreesMove /\ Still
  BY <1>1 DEF Publish, code, TreesMove, Still
<1>2. ASSUME NEW i \in Ids, NEW ok \in BOOLEAN, Edit(i, ok)
      PROVE  TreesMove /\ Still
  <2>1. revs' = revs + 1 /\ Contents(i, revs + 1) /\ revs + 1 \in Nat
    BY <1>2 DEF Edit
  <2> QED
    BY <1>c, <2>1
<1>u. ASSUME NEW i \in Ids, NEW r \in 1 .. revs, Undo(i, r)
      PROVE  TreesMove /\ Still
  <2>1. revs' = revs /\ Contents(i, r) /\ r \in Nat
    BY <1>u DEF Undo
  <2> QED
    BY <1>c, <2>1
<1>3. ASSUME Tick
      PROVE  TreesMove /\ Still
  BY <1>3 DEF Tick, packages, code, TreesMove, Still
<1>4. ASSUME NEW p \in Procs, NEW i \in Ids, InstallFetch(p, i) \/ UpdateFetch(p, i) \/ remove(p, i)
      PROVE  TreesMove /\ Still
  BY <1>4, <1>q DEF InstallFetch, UpdateFetch, remove, packages, code, Still
<1>5. ASSUME NEW p \in Procs, NEW i \in Ids, NEW j \in Ids, clone(p, i, j)
      PROVE  TreesMove /\ Still
  <2> DEFINE r == [rev |-> revs + 1, head |-> 0, stamp |-> now, from |-> i]
  <2>1. /\ lock = None /\ pkgs' = [pkgs EXCEPT ![j] = r] /\ revs' = revs + 1 /\ now' = now
        /\ Still /\ UNCHANGED undone
    BY <1>5 DEF clone, code, Still
  <2>2. r.stamp = now
    OBVIOUS
  <2> HIDE DEF r
  <2>3. scan.pc \notin Reading
    BY <1>n, <2>1
  <2> QED
    BY <1>r, <2>1, <2>2, <2>3
<1>6. ASSUME NEW p \in Procs, InstallPlace(p)
      PROVE  TreesMove /\ Still
  <2> DEFINE i == proc[p].id
             r == [rev |-> proc[p].rev, head |-> proc[p].rev, stamp |-> now, from |-> 0]
  <2>1. i \in Ids
    BY <1>6 DEF InstallPlace, Shapes
  <2>2. /\ lock = None /\ UNCHANGED <<now, revs, undone>> /\ Still
        /\ UNCHANGED pkgs \/ pkgs' = [pkgs EXCEPT ![i] = r]
    BY <1>6 DEF InstallPlace, code, Still
  <2>3. r.stamp = now
    OBVIOUS
  <2> HIDE DEF r, i
  <2> QED
    BY <1>n, <1>q, <1>r, <2>1, <2>2, <2>3
<1>7. ASSUME NEW p \in Procs, register(p) \/ CloneWrite(p) \/ RemoveTree(p)
      PROVE  TreesMove /\ Still
  <2> DEFINE i == proc[p].id
  <2>1. i \in Ids /\ proc[p].pc \in Locked
    BY <1>7 DEF register, CloneWrite, RemoveTree, Shapes, Locked
  <2>2. /\ UNCHANGED <<now, revs, undone>> /\ Still
        /\ UNCHANGED pkgs \/ pkgs' = [pkgs EXCEPT ![i] = NoTree]
    BY <1>7 DEF register, CloneWrite, RemoveTree, code, Still
  <2> HIDE DEF i
  <2> QED
    BY <1>n, <1>o, <1>q, <1>r, <2>1, <2>2
<1>8. ASSUME NEW p \in Procs, UpdateMerge(p)
      PROVE  TreesMove /\ Still
  <2> DEFINE i == proc[p].id
             v == proc[p].rev
  <2>1. i \in Ids /\ lock = p
    BY <1>8, <1>o DEF UpdateMerge, Shapes, Locked
  <2>2. /\ UNCHANGED <<now, undone>> /\ Still /\ (revs' = revs \/ revs' = revs + 1)
        /\ \/ UNCHANGED <<pkgs, revs>>
           \/ \E r \in {v, revs + 1} :
                pkgs' = [pkgs EXCEPT ![i] = [pkgs[i] EXCEPT !.rev = r, !.head = v, !.stamp = now]]
    BY <1>8 DEF UpdateMerge, code, Still
  <2> HIDE DEF i, v
  <2>3. ASSUME NEW r, pkgs' = [pkgs EXCEPT ![i] = [pkgs[i] EXCEPT !.rev = r, !.head = v, !.stamp = now]]
        PROVE  TreesMove
    <3>1. [pkgs[i] EXCEPT !.rev = r, !.head = v, !.stamp = now].stamp = now
      BY <2>1 DEF Tree
    <3> QED
      BY <1>n, <1>r, <2>1, <2>2, <2>3, <3>1
  <2> QED
    BY <1>q, <2>2, <2>3
<1>9. ASSUME NEW p \in Procs, Kill(p) \/ UpdateLock(p) \/ UpdateStatus(p)
      PROVE  TreesMove /\ Still
  BY <1>9, <1>q DEF Kill, UpdateLock, UpdateStatus, packages, code, Still
<1>10. ASSUME NEW i \in Ids, enable(i) \/ disable(i)
       PROVE  TreesMove /\ Still
  BY <1>10, <1>q DEF enable, disable, Write, packages, code, Still
<1>11. ASSUME NEW i \in Ids \cup {0}, select_bar(i)
       PROVE  TreesMove /\ Still
  BY <1>11, <1>q DEF select_bar, Write, packages, code, Still
<1>12. ASSUME NEW S \in SUBSET Ids, apply_layout(S)
       PROVE  TreesMove /\ Still
  BY <1>12, <1>q DEF apply_layout, Write, packages, code, Still
<1> QED
  BY <1>1, <1>2, <1>3, <1>4, <1>5, <1>6, <1>7, <1>8, <1>9, <1>10, <1>11, <1>12, <1>u DEF Outside

(* A command replaces one record of a function.                            *)
LEMMA OneUpdate ==
    ASSUME NEW S, NEW T, NEW f \in [S -> T], NEW x \in S, NEW t \in T
    PROVE  [f EXCEPT ![x] = t] \in [S -> T]
  OBVIOUS

LEMMA TreeEdited ==
    ASSUME NEW t \in Tree, NEW v \in Nat, NEW n \in Nat
    PROVE  [t EXCEPT !.rev = v, !.stamp = n] \in Tree
  BY DEF Tree

(* What a clone remembers of its original, if it is enabled, has a name.   *)
LEMMA RestoreFields ==
    ASSUME NEW s \in Restore
    PROVE  /\ s.id \in Ids \cup {0} /\ s.enabled \in BOOLEAN
           /\ s.enabled => s.id \in Ids
<1>1. CASE s = NoRestore
  BY <1>1 DEF NoRestore
<1>2. CASE s \in [id : Ids, enabled : BOOLEAN, bar : BOOLEAN]
  BY <1>2
<1> QED
  BY <1>1, <1>2 DEF Restore

LEMMA TypeOutside ==
    ASSUME TypeOK, Shapes, Outside, TreesMove, Still
    PROVE  TypeOK' /\ Shapes'
<1> USE DEF TypeOK
<1> DEFINE Rest == <<pkgs, upstream, good, revs, prefs, bar, asked, now, ops, faults, lock, proc>>
           Typed == /\ pkgs' \in [Ids -> Tree] /\ upstream' \in [Ids -> Nat]
                    /\ good' \subseteq Nat /\ revs' \in Nat /\ now' \in Nat
                    /\ prefs' \in [Ids -> Pref] /\ bar' \in Ids \cup {0} /\ asked' \subseteq Ids
                    /\ lock' \in Procs \cup {None, "scan"} /\ proc' \in [Procs -> Process]
                    /\ ops' \in Nat /\ faults' \in Nat
           Shaped == /\ \A p \in Procs : proc'[p].pc # "idle" => proc'[p].id \in Ids
                     /\ \A p \in Procs : proc'[p].pc = "copied" => proc'[p].head \in Ids
<1>e. Idle \in Process /\ Idle.pc = "idle"
  BY DEF Idle, Process
<1>f. ASSUME NEW p \in Procs, NEW r \in Process, proc' = [proc EXCEPT ![p] = r],
             r.pc # "idle" => r.id \in Ids, r.pc = "copied" => r.head \in Ids
      PROVE  proc' \in [Procs -> Process] /\ Shaped
  <2>1. proc'[p] = r /\ \A q \in Procs : q # p => proc'[q] = proc[q]
    BY <1>f
  <2> QED
    BY <1>f, <2>1 DEF Shapes
<1>g. ASSUME UNCHANGED proc
      PROVE  Shaped
  BY <1>g DEF Shapes
<1>h. NoTree \in Tree
  BY DEF NoTree, Tree
<1>i. ASSUME NEW p \in Procs, End(p)
      PROVE  proc' \in [Procs -> Process] /\ Shaped
  BY <1>e, <1>f, <1>i DEF End
<1>c. ASSUME NEW i \in Ids, NEW v \in Nat, Contents(i, v)
      PROVE  pkgs' \in [Ids -> Tree] /\ UNCHANGED <<upstream, registry, lock, proc, now, ops>>
  <2>1. pkgs' = [pkgs EXCEPT ![i] = [pkgs[i] EXCEPT !.rev = v, !.stamp = now]]
    BY <1>c DEF Contents
  <2>2. [pkgs[i] EXCEPT !.rev = v, !.stamp = now] \in Tree
    <3>1. pkgs[i] \in Tree /\ now \in Nat
      OBVIOUS
    <3> QED
      BY <3>1, TreeEdited
  <2> QED
    BY <1>c, <2>1, <2>2 DEF Contents
<1>1. ASSUME NEW i \in Ids, NEW ok \in BOOLEAN, Publish(i, ok)
      PROVE  Typed /\ Shaped
  BY <1>1, <1>g DEF Publish, registry
<1>2. ASSUME NEW i \in Ids, NEW ok \in BOOLEAN, Edit(i, ok)
      PROVE  Typed /\ Shaped
  <2>1. Contents(i, revs + 1) /\ revs + 1 \in Nat
    BY <1>2 DEF Edit
  <2>2. pkgs' \in [Ids -> Tree] /\ UNCHANGED <<upstream, registry, lock, proc, now, ops>>
    BY <1>c, <2>1
  <2>3. /\ revs' = revs + 1 /\ good' \in {good, good \cup {revs + 1}}
        /\ faults' \in {faults, faults + 1}
    BY <1>2 DEF Edit, Fault
  <2> QED
    BY <1>g, <2>1, <2>2, <2>3 DEF registry
<1>u. ASSUME NEW i \in Ids, NEW r \in 1 .. revs, Undo(i, r)
      PROVE  Typed /\ Shaped
  <2>1. Contents(i, r) /\ r \in Nat
    BY <1>u DEF Undo
  <2>2. pkgs' \in [Ids -> Tree] /\ UNCHANGED <<upstream, registry, lock, proc, now, ops>>
    BY <1>c, <2>1
  <2> QED
    BY <1>u, <1>g, <2>2 DEF Undo, Fault, registry
<1>3. ASSUME Tick
      PROVE  Typed /\ Shaped
  BY <1>3, <1>g DEF Tick, packages, registry
<1>4. ASSUME NEW p \in Procs, NEW i \in Ids, InstallFetch(p, i)
      PROVE  Typed /\ Shaped
  <2> DEFINE r == [pc |-> "fetched", id |-> i, rev |-> upstream[i], head |-> 0]
  <2>1. r \in Process /\ r.pc = "fetched" /\ r.id = i
    BY DEF Process
  <2>2. proc' = [proc EXCEPT ![p] = r]
    BY <1>4 DEF InstallFetch
  <2> HIDE DEF r
  <2>3. proc' \in [Procs -> Process] /\ Shaped
    BY <1>f, <2>1, <2>2
  <2> QED
    BY <1>4, <2>3 DEF InstallFetch, Begin, packages, registry
<1>5. ASSUME NEW p \in Procs, NEW i \in Ids, UpdateFetch(p, i)
      PROVE  Typed /\ Shaped
  <2> DEFINE r == [pc |-> "validated", id |-> i, rev |-> upstream[i], head |-> pkgs[i].head]
  <2>1. r \in Process /\ r.pc = "validated" /\ r.id = i
    BY DEF Process, Tree
  <2>2. proc' = [proc EXCEPT ![p] = r]
    BY <1>5 DEF UpdateFetch
  <2> HIDE DEF r
  <2>3. proc' \in [Procs -> Process] /\ Shaped
    BY <1>f, <2>1, <2>2
  <2> QED
    BY <1>5, <2>3 DEF UpdateFetch, Begin, packages, registry
<1>6. ASSUME NEW p \in Procs, InstallPlace(p)
      PROVE  Typed /\ Shaped
  <2> DEFINE i == proc[p].id
             r == [proc[p] EXCEPT !.pc = "placed"]
             t == [rev |-> proc[p].rev, head |-> proc[p].rev, stamp |-> now, from |-> 0]
  <2>1. i \in Ids /\ proc[p].rev \in Nat /\ proc[p] \in Process
    BY <1>6 DEF InstallPlace, Shapes, Process
  <2>2. r \in Process /\ r.pc = "placed" /\ r.id = i
    BY <2>1 DEF Process
  <2>3. t \in Tree
    BY <2>1 DEF Tree
  <2>4. \/ End(p) /\ UNCHANGED <<pkgs, lock>>
        \/ pkgs' = [pkgs EXCEPT ![i] = t] /\ lock' = p /\ proc' = [proc EXCEPT ![p] = r]
    BY <1>6 DEF InstallPlace
  <2>5. UNCHANGED <<upstream, good, revs, prefs, bar, asked, now, ops, faults>>
    BY <1>6 DEF InstallPlace, registry
  <2> HIDE DEF i, r, t
  <2>6. proc' \in [Procs -> Process] /\ Shaped
    BY <1>f, <1>i, <2>1, <2>2, <2>4
  <2>7. pkgs' \in [Ids -> Tree] /\ lock' \in Procs \cup {None, "scan"}
    BY <2>1, <2>3, <2>4
  <2> QED
    BY <2>5, <2>6, <2>7
<1>7. ASSUME NEW p \in Procs, register(p)
      PROVE  Typed /\ Shaped
  <2> DEFINE i == proc[p].id
             f == [prefs[i] EXCEPT !.known = TRUE, !.enabled = FALSE]
  <2>1. i \in Ids
    BY <1>7 DEF register, Shapes
  <2>2. f \in Pref
    BY <2>1 DEF Pref
  <2>3. /\ UNCHANGED pkgs \/ pkgs' = [pkgs EXCEPT ![i] = NoTree]
        /\ UNCHANGED prefs \/ prefs' = [prefs EXCEPT ![i] = f]
        /\ faults' = faults \/ faults' = faults + 1
        /\ lock' = None /\ End(p)
        /\ UNCHANGED <<upstream, good, revs, bar, asked, now, ops>>
    BY <1>7 DEF register, Fault
  <2> HIDE DEF i, f
  <2>4. pkgs' \in [Ids -> Tree] /\ prefs' \in [Ids -> Pref]
    BY <1>h, <2>1, <2>2, <2>3
  <2> QED
    BY <1>i, <2>3, <2>4
<1>k. ASSUME NEW p \in Procs, UpdateLock(p) \/ UpdateStatus(p)
      PROVE  Typed /\ Shaped
  <2> DEFINE r == [proc[p] EXCEPT !.pc = "same"]
             t == [proc[p] EXCEPT !.pc = "clean"]
  <2>1. proc[p] \in Process /\ proc[p].id \in Ids
    BY <1>k DEF UpdateLock, UpdateStatus, Shapes
  <2>2. /\ r \in Process /\ r.pc = "same" /\ r.id = proc[p].id
        /\ t \in Process /\ t.pc = "clean" /\ t.id = proc[p].id
    BY <2>1 DEF Process
  <2>3. /\ End(p) \/ proc' = [proc EXCEPT ![p] = r] \/ proc' = [proc EXCEPT ![p] = t]
        /\ lock' \in {lock, p, None}
        /\ UNCHANGED <<packages, registry, now, ops, faults>>
    BY <1>k DEF UpdateLock, UpdateStatus
  <2> HIDE DEF r, t
  <2>4. proc' \in [Procs -> Process] /\ Shaped
    BY <1>f, <1>i, <2>1, <2>2, <2>3
  <2> QED
    BY <2>3, <2>4 DEF packages, registry
<1>8. ASSUME NEW p \in Procs, UpdateMerge(p)
      PROVE  Typed /\ Shaped
  <2> DEFINE i == proc[p].id
             v == proc[p].rev
  <2>1. v \in Nat /\ i \in Ids
    BY <1>8 DEF Process, UpdateMerge, Shapes
  <2>2. /\ \/ UNCHANGED pkgs
           \/ \E r \in {v, revs + 1} :
                pkgs' = [pkgs EXCEPT ![i] = [pkgs[i] EXCEPT !.rev = r, !.head = v, !.stamp = now]]
        /\ revs' \in {revs, revs + 1} /\ good' \in {good, good \cup {revs + 1}}
        /\ End(p) /\ lock' = None
        /\ UNCHANGED <<upstream, prefs, bar, asked, now, ops, faults>>
    BY <1>8 DEF UpdateMerge, registry
  <2> HIDE DEF i, v
  <2>3. ASSUME NEW r \in {v, revs + 1}
        PROVE  [pkgs[i] EXCEPT !.rev = r, !.head = v, !.stamp = now] \in Tree
    <3>1. r \in Nat /\ pkgs[i] \in Tree
      BY <2>1
    <3> QED
      BY <2>1, <3>1 DEF Tree
  <2>4. pkgs' \in [Ids -> Tree]
    BY <2>1, <2>2, <2>3
  <2> QED
    BY <1>i, <2>2, <2>4
<1>9. ASSUME NEW p \in Procs, NEW i \in Ids, NEW j \in Ids, clone(p, i, j)
      PROVE  Typed /\ Shaped
  <2> DEFINE r == [pc |-> "copied", id |-> j, rev |-> 0, head |-> i]
             t == [rev |-> revs + 1, head |-> 0, stamp |-> now, from |-> i]
  <2>1. r \in Process /\ r.pc = "copied" /\ r.id = j /\ r.head = i
    BY ConstantsAssumption DEF Process
  <2>2. t \in Tree
    BY DEF Tree
  <2>3. /\ pkgs' = [pkgs EXCEPT ![j] = t] /\ proc' = [proc EXCEPT ![p] = r]
        /\ revs' = revs + 1 /\ good' = good \cup {revs + 1} /\ lock' = p /\ ops' = ops + 1
        /\ UNCHANGED <<upstream, prefs, bar, asked, now, faults>>
    BY <1>9 DEF clone, Begin, registry
  <2> HIDE DEF r, t
  <2>4. proc' \in [Procs -> Process] /\ Shaped
    BY <1>f, <2>1, <2>3
  <2>5. pkgs' \in [Ids -> Tree]
    BY <2>2, <2>3
  <2> QED
    BY <2>3, <2>4, <2>5
<1>10. ASSUME NEW p \in Procs, CloneWrite(p)
       PROVE  Typed /\ Shaped
  <2> DEFINE j == proc[p].id
             i == proc[p].head
             f == [prefs[i] EXCEPT !.known = TRUE, !.enabled = TRUE,
                                   !.restore = [id |-> i, enabled |-> prefs[i].enabled,
                                                bar |-> bar = i]]
  <2>1. j \in Ids /\ i \in Ids
    BY <1>10 DEF CloneWrite, Shapes
  <2>2. f \in Pref
    <3>1. prefs[i] \in Pref /\ prefs[i].enabled \in BOOLEAN
      BY <2>1 DEF Pref
    <3>2. [id |-> i, enabled |-> prefs[i].enabled, bar |-> bar = i] \in Restore
      BY <2>1, <3>1 DEF Restore
    <3> QED
      BY <3>1, <3>2 DEF Pref
  <2>3. /\ UNCHANGED pkgs \/ pkgs' = [pkgs EXCEPT ![j] = NoTree]
        /\ UNCHANGED prefs \/ prefs' = [prefs EXCEPT ![j] = f, ![i].enabled = FALSE]
        /\ bar' \in {bar, j} /\ asked' \in {asked, asked \cup {j}}
        /\ faults' = faults \/ faults' = faults + 1
        /\ lock' = None /\ End(p)
        /\ UNCHANGED <<upstream, good, revs, now, ops>>
    BY <1>10 DEF CloneWrite, Fault, registry
  <2> HIDE DEF i, j, f
  <2>4. pkgs' \in [Ids -> Tree]
    BY <1>h, <2>1, <2>3
  <2>5. prefs' \in [Ids -> Pref]
    <3> DEFINE g == [prefs EXCEPT ![j] = f]
    <3>1. g \in [Ids -> Pref]
      BY <2>1, <2>2
    <3>2. prefs' = prefs \/ prefs' = [g EXCEPT ![i].enabled = FALSE]
      BY <2>3
    <3> HIDE DEF g
    <3> QED
      BY <2>1, <3>1, <3>2 DEF Pref
  <2> QED
    BY <1>i, <2>1, <2>3, <2>4, <2>5
<1>11. ASSUME NEW p \in Procs, NEW i \in Ids, remove(p, i)
       PROVE  Typed /\ Shaped
  <2> DEFINE s == prefs[i].restore
             f == [prefs[i] EXCEPT !.known = TRUE, !.enabled = FALSE, !.restore = NoRestore]
             r == [Idle EXCEPT !.pc = "written", !.id = i]
  <2>1. /\ s \in Restore /\ s.id \in Ids \cup {0} /\ s.enabled \in BOOLEAN
        /\ s.enabled => s.id \in Ids
    <3>1. prefs[i] \in Pref
      OBVIOUS
    <3>2. s \in Restore
      BY <3>1 DEF Pref
    <3> HIDE DEF s
    <3> QED
      BY <3>2, RestoreFields
  <2>2. f \in Pref
    BY DEF Pref, NoRestore, Restore
  <2>3. r \in Process /\ r.pc = "written" /\ r.id = i
    BY DEF Process, Idle
  <2>4. prefs' = [j \in Ids |-> CASE j = i -> f
                                  [] j # i /\ j = s.id /\ prefs[j].known
                                       -> [prefs[j] EXCEPT !.enabled = s.enabled]
                                  [] OTHER -> prefs[j]]
    BY <1>11 DEF remove
  <2>5. /\ bar' = IF bar = i THEN (IF s.bar THEN s.id ELSE 0) ELSE bar
        /\ asked' = IF s.enabled THEN asked \cup {s.id} ELSE asked
        /\ lock' = p /\ ops' = ops + 1 /\ proc' = [proc EXCEPT ![p] = r]
        /\ UNCHANGED <<pkgs, upstream, good, revs, now, faults>>
    BY <1>11 DEF remove, Begin, packages
  <2> HIDE DEF s, f, r
  <2>6. prefs' \in [Ids -> Pref]
    <3>1. ASSUME NEW j \in Ids PROVE [prefs[j] EXCEPT !.enabled = s.enabled] \in Pref
      BY <2>1 DEF Pref
    <3> QED
      BY <2>2, <2>4, <3>1
  <2>7. proc' \in [Procs -> Process] /\ Shaped
    BY <1>f, <2>3, <2>5
  <2> QED
    BY <2>1, <2>5, <2>6, <2>7
<1>12. ASSUME NEW p \in Procs, RemoveTree(p)
       PROVE  Typed /\ Shaped
  BY <1>12, <1>h, <1>i DEF RemoveTree, Forget
<1>13. ASSUME NEW p \in Procs, Kill(p)
       PROVE  Typed /\ Shaped
  BY <1>13, <1>i DEF Kill, Fault, packages, registry
<1>14. ASSUME NEW i \in Ids, enable(i) \/ disable(i)
       PROVE  Typed /\ Shaped
  <2>1. ASSUME NEW f \in Pref, NEW b \in BOOLEAN
        PROVE  [f EXCEPT !.enabled = b] \in Pref /\ [f EXCEPT !.known = TRUE, !.enabled = b] \in Pref
    BY DEF Pref
  <2>2. CASE enable(i)
    <3> DEFINE from   == IF pkgs[i].from = 0 THEN i ELSE pkgs[i].from
               rivals == {j \in Ids \ {i} : package(j) /\ (j = from \/ pkgs[j].from = from)}
    <3>1. /\ prefs' = [j \in Ids |->
                   CASE j = i -> [prefs[i] EXCEPT !.known = TRUE, !.enabled = TRUE]
                     [] j \in rivals -> [prefs[j] EXCEPT !.enabled = FALSE]
                     [] OTHER -> prefs[j]]
          /\ ops' = ops + 1 /\ bar' = bar /\ asked' = asked \cup {i}
          /\ UNCHANGED <<pkgs, upstream, good, revs, lock, proc, now, faults>>
      BY <2>2 DEF enable, Write, Command, packages
    <3> HIDE DEF rivals
    <3>2. prefs' \in [Ids -> Pref]
      BY <2>1, <3>1
    <3> QED
      BY <1>g, <3>1, <3>2
  <2>3. CASE disable(i)
    <3>1. /\ prefs' = [prefs EXCEPT ![i] = [prefs[i] EXCEPT !.known = TRUE, !.enabled = FALSE]]
          /\ ops' = ops + 1 /\ bar' = bar /\ asked' = asked
          /\ UNCHANGED <<pkgs, upstream, good, revs, lock, proc, now, faults>>
      BY <2>3 DEF disable, Write, Command, packages
    <3>2. prefs' \in [Ids -> Pref]
      BY <2>1, <3>1
    <3> QED
      BY <1>g, <3>1, <3>2
  <2> QED
    BY <1>14, <2>2, <2>3
<1>15. ASSUME NEW i \in Ids \cup {0}, select_bar(i)
       PROVE  Typed /\ Shaped
  <2>1. /\ ops' = ops + 1 /\ bar' \in {0, i} /\ asked' \in {asked, asked \cup {i}}
        /\ UNCHANGED <<pkgs, upstream, good, revs, lock, proc, now, faults>>
        /\ \/ i = 0 /\ prefs' = prefs /\ asked' = asked
           \/ i # 0 /\ prefs' = [prefs EXCEPT ![i] = [prefs[i] EXCEPT !.known = TRUE, !.enabled = TRUE]]
    BY <1>15 DEF select_bar, Write, Command, packages
  <2>2. ASSUME i # 0 PROVE [prefs[i] EXCEPT !.known = TRUE, !.enabled = TRUE] \in Pref
    BY <2>2 DEF Pref
  <2> QED
    BY <1>g, <2>1, <2>2
<1>l. ASSUME NEW S \in SUBSET Ids, apply_layout(S)
      PROVE  Typed /\ Shaped
  <2>1. /\ ops' = ops + 1 /\ bar' = bar /\ asked' = asked \cup S
        /\ UNCHANGED <<pkgs, upstream, good, revs, lock, proc, now, faults>>
    BY <1>l DEF apply_layout, Write, Command, packages
  <2>2. ASSUME NEW i \in Ids PROVE [prefs[i] EXCEPT !.known = TRUE, !.enabled = TRUE] \in Pref
    BY DEF Pref
  <2>3. prefs' \in [Ids -> Pref]
    <3>1. prefs' = [i \in Ids |-> IF i \in S THEN [prefs[i] EXCEPT !.known = TRUE, !.enabled = TRUE]
                                   ELSE prefs[i]]
      BY <1>l DEF apply_layout, Write
    <3> QED
      BY <2>2, <3>1
  <2>4. Shaped
    BY <1>g, <2>1
  <2>5. asked' \subseteq Ids
    <3>1. S \subseteq Ids /\ asked \subseteq Ids /\ asked' = asked \cup S
      BY <2>1
    <3> QED
      BY <3>1
  <2> QED
    BY <2>1, <2>3, <2>4, <2>5
<1>16. Typed /\ Shaped
  BY <1>u, <1>k, <1>l, <1>1, <1>2, <1>3, <1>4, <1>5, <1>6, <1>7, <1>8, <1>9, <1>10, <1>11, <1>12, <1>13, <1>14, <1>15
  DEF Outside
<1>17. undone' \subseteq Ids \X Nat
  BY DEF TreesMove
<1> QED
  BY <1>16, <1>17 DEF Still, Shapes

-----------------------------------------------------------------------------
(* The scan. *)

(* A plugin is done: its revision is handed out, and a snapshot of it is   *)
(* there; of the others of that plugin the one handed out last stays.      *)
Gives(i, r, e) ==
    /\ scan.pc \in Reading /\ scan'.pc = "next"
    /\ scan'.todo = scan.todo \ {i} /\ scan'.at = scan.at
    /\ scan'.cache = [scan.cache EXCEPT ![i] = e]
    /\ scan'.current = [scan.current EXCEPT ![i] = r]
    /\ scan'.out = [scan.out EXCEPT ![i] = r]
    /\ \A j \in Ids : j # i => snaps'[j] = snaps[j]
    /\ \E c \in snaps'[i] : c.name = r
    /\ \A c \in snaps'[i] : c \in snaps[i] \/ c.name = c.code \/ <<i, c.name>> \in undone
    /\ \A c \in snaps[i] : c.name = scan.current[i] => c \in snaps'[i]

(* Or the scan goes on.                                                    *)
Goes ==
    /\ scan.pc \in Reading /\ scan'.pc \in Reading
    /\ scan'.todo \subseteq scan.todo /\ scan'.at = scan.at /\ scan'.cache = scan.cache
    /\ scan'.current = scan.current /\ scan'.out = scan.out
    /\ UNCHANGED snaps

ScanOnly == UNCHANGED <<packages, registry, lock, proc, cache, current, loaded, missed, undone, now,
                        ops, faults>>

Copies == SUBSET [name : Nat, code : Nat]

LEMMA FoundEffect ==
    ASSUME TypeOK, Shapes, scan.pc \in Reading, NEW i \in scan.todo, NEW r \in Nat,
           NEW e \in RevEntry, NEW made \in Copies, Found(i, r, e, made), NEW v \in Nat,
           v = r \/ <<i, r>> \in undone,
           made = {} => Named(i, r), made # {} => made = {[name |-> r, code |-> v]}
    PROVE  Gives(i, r, e) /\ ScanOnly /\ scan' \in ScanState /\ snaps' \in [Ids -> Copies]
<1> DEFINE s == [scan EXCEPT !.pc = "next", !.id = 0, !.tries = 0, !.stat = 0, !.rev = 0, !.code = 0,
                             !.todo = @ \ {i}, !.cache = [@ EXCEPT ![i] = e],
                             !.current = [@ EXCEPT ![i] = r], !.out = [@ EXCEPT ![i] = r]]
<1>1. scan' = s /\ ScanOnly
  BY DEF Found, Step, ScanOnly
<1>2. /\ scan \in ScanState /\ scan.cache \in [Ids -> RevEntry] /\ scan.current \in [Ids -> Nat]
      /\ scan.out \in [Ids -> Nat] /\ snaps \in [Ids -> Copies]
  BY DEF TypeOK, Shapes, Reading, Copies
<1>3. i \in Ids
  BY <1>2 DEF ScanState
<1>4. /\ s.pc = "next" /\ s.todo = scan.todo \ {i} /\ s.at = scan.at
      /\ s.cache = [scan.cache EXCEPT ![i] = e] /\ s.current = [scan.current EXCEPT ![i] = r]
      /\ s.out = [scan.out EXCEPT ![i] = r]
  BY <1>2 DEF ScanState
<1>5. s \in ScanState
  <2>1. /\ [scan.cache EXCEPT ![i] = e] \in [Ids -> RevEntry]
        /\ [scan.current EXCEPT ![i] = r] \in [Ids -> Nat]
        /\ [scan.out EXCEPT ![i] = r] \in [Ids -> Nat]
    BY <1>2, <1>3
  <2> QED
    BY <1>2, <2>1 DEF ScanState
<1> HIDE DEF s
<1>6. snaps' = IF made = {} THEN snaps
               ELSE [snaps EXCEPT ![i] = {c \in @ : c.name \in {r, scan.current[i]}} \cup made]
  BY DEF Found
<1>7. CASE made = {}
  <2>1. UNCHANGED snaps
    BY <1>6, <1>7
  <2> QED
    BY <1>1, <1>2, <1>4, <1>5, <1>7, <2>1 DEF Gives, Named
<1>8. CASE made # {}
  <2>1. made = {[name |-> r, code |-> v]}
    BY <1>8
  <2>2. /\ snaps'[i] = {c \in snaps[i] : c.name \in {r, scan.current[i]}} \cup made
        /\ \A j \in Ids : j # i => snaps'[j] = snaps[j]
    BY <1>2, <1>3, <1>6, <1>8
  <2>3. snaps' \in [Ids -> Copies]
    <3>1. {c \in snaps[i] : c.name \in {r, scan.current[i]}} \cup made \in Copies
      BY <1>2, <1>3 DEF Copies
    <3> QED
      BY <1>2, <1>3, <1>6, <1>8, <3>1
  <2>4. \E c \in snaps'[i] : c.name = r
    <3> DEFINE c == [name |-> r, code |-> v]
    <3>1. c.name = r
      OBVIOUS
    <3>2. c \in snaps'[i]
      BY <2>1, <2>2
    <3> HIDE DEF c
    <3> QED
      BY <3>1, <3>2
  <2>5. /\ \A c \in snaps'[i] : c \in snaps[i] \/ c.name = c.code \/ <<i, c.name>> \in undone
        /\ \A c \in snaps[i] : c.name = scan.current[i] => c \in snaps'[i]
    BY <2>1, <2>2
  <2> QED
    BY <1>1, <1>4, <1>5, <2>2, <2>3, <2>4, <2>5 DEF Gives
<1> QED
  BY <1>7, <1>8

(* The steps of a scan between its beginning and its end.                  *)
Moves ==
    \/ scan'.pc = "next"
    \/ /\ scan'.pc = "stat" /\ scan'.id \in scan'.todo
    \/ /\ scan.pc = "stat" /\ scan'.pc = "hashed" /\ scan'.id = scan.id /\ scan'.todo = scan.todo
       /\ scan'.rev = pkgs[scan.id].rev /\ scan'.stat = scan.stat
    \/ /\ scan.pc = "hashed" /\ scan'.pc = "staged" /\ scan'.id = scan.id /\ scan'.todo = scan.todo
       /\ scan'.rev = scan.rev /\ scan'.stat = scan.stat /\ scan'.code = pkgs[scan.id].rev

Reads == (\E i \in Ids : snapshot(i)) \/ fingerprint \/ CopyTree \/ Publishes \/ Retry

LEMMA ReadEffect ==
    ASSUME TypeOK, Shapes, Fresh, Settled, Reads
    PROVE  /\ \/ \E i \in scan.todo, r \in Nat, e \in RevEntry : Gives(i, r, e) /\ Good(i, e)
              \/ Goes /\ Moves
           /\ ScanOnly /\ scan' \in ScanState /\ snaps' \in [Ids -> Copies]
<1> DEFINE Done == \E i \in scan.todo, r \in Nat, e \in RevEntry : Gives(i, r, e) /\ Good(i, e)
           Typed == ScanOnly /\ scan' \in ScanState /\ snaps' \in [Ids -> Copies]
<1>1. /\ scan \in ScanState /\ snaps \in [Ids -> Copies] /\ pkgs \in [Ids -> Tree]
      /\ scan.todo \subseteq Ids /\ scan.rev \in Nat /\ scan.stat \in Nat /\ scan.code \in Nat
  BY DEF TypeOK, Copies, ScanState
<1>2. \A i \in Ids : pkgs[i].rev \in Nat /\ pkgs[i].stamp \in Nat
  BY <1>1 DEF Tree
<1>t. scan.id \in Ids \cup {0} /\ scan.at \in Nat /\ scan.tries \in Nat
  BY <1>1 DEF ScanState
<1>e. Entry \in RevEntry
  BY <1>1 DEF Entry, RevEntry, NoEntry
<1>f. ASSUME NEW i \in scan.todo, NEW r \in Nat, NEW e \in RevEntry, NEW made \in Copies,
             Found(i, r, e, made), scan.pc \in Reading, Good(i, e), NEW v \in Nat,
             v = r \/ <<i, r>> \in undone,
             made = {} => Named(i, r), made # {} => made = {[name |-> r, code |-> v]}
      PROVE  Done /\ Typed
  BY <1>f, FoundEffect
<1>3. ASSUME NEW i \in Ids, snapshot(i)
      PROVE  (Done \/ (Goes /\ Moves)) /\ Typed
  <2>1. scan.pc = "next" /\ i \in scan.todo /\ scan.cache \in [Ids -> RevEntry]
    BY <1>3 DEF snapshot, Scanning, Shapes, Reading
  <2>2. CASE Found(i, scan.cache[i].rev, scan.cache[i], {}) /\ Named(i, scan.cache[i].rev)
    <3>1. scan.cache[i] \in RevEntry /\ scan.cache[i].rev \in Nat
      BY <2>1 DEF RevEntry
    <3>2. Good(i, scan.cache[i])
      BY <2>1 DEF Settled, Reading
    <3> QED
      BY <1>f, <2>1, <2>2, <3>1, <3>2 DEF Reading, Copies
  <2>3. CASE /\ Step([scan EXCEPT !.pc = "stat", !.id = i, !.stat = pkgs[i].stamp])
             /\ UNCHANGED snaps
    <3> DEFINE s == [scan EXCEPT !.pc = "stat", !.id = i, !.stat = pkgs[i].stamp]
    <3>1. s \in ScanState
      BY <1>1, <1>2 DEF ScanState
    <3>2. /\ s.pc = "stat" /\ s.id = i /\ s.todo = scan.todo
          /\ s.at = scan.at /\ s.cache = scan.cache
          /\ s.current = scan.current /\ s.out = scan.out
      BY <1>1 DEF ScanState
    <3>3. scan' = s /\ ScanOnly
      BY <2>3 DEF Step, ScanOnly
    <3> HIDE DEF s
    <3> QED
      BY <1>1, <2>1, <2>3, <3>1, <3>2, <3>3 DEF Goes, Moves, Reading
  <2> QED
    BY <1>3, <2>2, <2>3 DEF snapshot, Named
<1>h. ASSUME fingerprint
      PROVE  Goes /\ Moves /\ Typed
  <2> DEFINE s == [scan EXCEPT !.pc = "hashed", !.rev = pkgs[scan.id].rev]
  <2>1. scan.pc = "stat" /\ scan.id \in Ids /\ scan.id \in scan.todo
    BY <1>1, <1>h DEF fingerprint, Scanning, Shapes, Inside
  <2>2. s \in ScanState
    BY <1>1, <1>2, <2>1 DEF ScanState
  <2>3. /\ s.pc = "hashed" /\ s.id = scan.id /\ s.todo = scan.todo /\ s.rev = pkgs[scan.id].rev
        /\ s.stat = scan.stat /\ s.at = scan.at /\ s.cache = scan.cache
        /\ s.current = scan.current /\ s.out = scan.out
    BY <1>1 DEF ScanState
  <2>4. scan' = s /\ ScanOnly /\ UNCHANGED snaps
    BY <1>h DEF fingerprint, Step, ScanOnly
  <2> HIDE DEF s
  <2> QED
    BY <1>1, <2>1, <2>2, <2>3, <2>4 DEF Goes, Moves, Reading
<1>4. ASSUME CopyTree
      PROVE  (Done \/ (Goes /\ Moves)) /\ Typed
  <2> DEFINE i == scan.id
  <2>1. scan.pc = "hashed" /\ i \in scan.todo
    BY <1>4 DEF CopyTree, Scanning, Shapes, Inside
  <2>2. CASE Found(i, scan.rev, Entry, {}) /\ Named(i, scan.rev)
    <3>1. Good(i, Entry)
      BY <2>1 DEF Settled
    <3> QED
      BY <1>1, <1>e, <1>f, <2>1, <2>2, <3>1 DEF Reading, Copies
  <2>3. CASE Step([scan EXCEPT !.pc = "staged", !.code = pkgs[i].rev]) /\ UNCHANGED snaps
    <3> DEFINE s == [scan EXCEPT !.pc = "staged", !.code = pkgs[i].rev]
    <3>1. s \in ScanState
      BY <1>1, <1>2, <2>1 DEF ScanState
    <3>2. /\ s.pc = "staged" /\ s.id = scan.id /\ s.todo = scan.todo /\ s.rev = scan.rev
          /\ s.stat = scan.stat /\ s.at = scan.at /\ s.cache = scan.cache
          /\ s.current = scan.current /\ s.out = scan.out /\ s.code = pkgs[i].rev
      BY <1>1 DEF ScanState
    <3>3. scan' = s /\ ScanOnly
      BY <2>3 DEF Step, ScanOnly
    <3> HIDE DEF s
    <3> QED
      BY <1>1, <2>1, <2>3, <3>1, <3>2, <3>3 DEF Goes, Moves, Reading
  <2> QED
    BY <1>4, <2>2, <2>3 DEF CopyTree, Named
<1>5. ASSUME Publishes
      PROVE  Done /\ Typed
  <2> DEFINE i == scan.id
             made == {[name |-> scan.rev, code |-> scan.code]}
  <2>1. scan.pc = "staged" /\ i \in scan.todo /\ pkgs[i].rev = scan.rev
    BY <1>5 DEF Publishes, Scanning, Shapes, Inside
  <2>2. scan.code = scan.rev \/ <<i, scan.rev>> \in undone
    BY <2>1 DEF Fresh
  <2>3. made \in Copies
    BY <1>1 DEF Copies
  <2>4. Good(i, Entry)
    BY <2>1 DEF Settled
  <2>5. Found(i, scan.rev, Entry, made)
    BY <1>5 DEF Publishes
  <2>6. scan.pc \in Reading /\ scan.code \in Nat /\ scan.rev \in Nat
    BY <1>1, <2>1 DEF Reading
  <2>7. /\ made = {} => Named(i, scan.rev)
        /\ made # {} => made = {[name |-> scan.rev, code |-> scan.code]}
    OBVIOUS
  <2> HIDE DEF i, made
  <2>9. ASSUME NEW r \in Nat, NEW e \in RevEntry, NEW v \in Nat, Found(i, r, e, made),
               v = r \/ <<i, r>> \in undone, made = {} => Named(i, r),
               made # {} => made = {[name |-> r, code |-> v]}
        PROVE  Gives(i, r, e) /\ Typed
    BY <2>1, <2>3, <2>6, <2>9, FoundEffect
  <2>8. Gives(i, scan.rev, Entry) /\ Typed
    BY <1>e, <2>2, <2>5, <2>6, <2>7, <2>9
  <2> QED
    BY <1>e, <2>1, <2>4, <2>6, <2>8
<1>6. ASSUME Retry
      PROVE  Goes /\ Moves /\ Typed
  <2>1. /\ scan.pc = "staged" /\ UNCHANGED snaps /\ ScanOnly
        /\ \/ scan' = [scan EXCEPT !.pc = "next", !.tries = @ + 1]
           \/ scan' = [scan EXCEPT !.pc = "next", !.id = 0, !.tries = 0, !.todo = @ \ {scan.id}]
    BY <1>6 DEF Retry, Scanning, Step, ScanOnly
  <2>2. /\ scan' \in ScanState /\ scan'.pc = "next" /\ scan'.todo \subseteq scan.todo
        /\ scan'.at = scan.at /\ scan'.cache = scan.cache /\ scan'.current = scan.current
        /\ scan'.out = scan.out
    <3>1. CASE scan' = [scan EXCEPT !.pc = "next", !.tries = @ + 1]
      <4> DEFINE n == scan.tries + 1
      <4>1. n \in Nat
        BY <1>t
      <4>2. scan' = [scan EXCEPT !.pc = "next", !.tries = n]
        BY <3>1
      <4> HIDE DEF n
      <4> QED
        BY <1>1, <4>1, <4>2 DEF ScanState
    <3>2. CASE scan' = [scan EXCEPT !.pc = "next", !.id = 0, !.tries = 0, !.todo = @ \ {scan.id}]
      <4>1. scan.todo \ {scan.id} \in SUBSET Ids
        BY <1>1
      <4> QED
        BY <1>1, <3>2, <4>1 DEF ScanState
    <3> QED
      BY <2>1, <3>1, <3>2
  <2> QED
    BY <1>1, <2>1, <2>2 DEF Goes, Moves, Reading
<1> QED
  BY <1>3, <1>h, <1>4, <1>5, <1>6 DEF Reads

-----------------------------------------------------------------------------
(* Every conjunct of the invariant is kept. *)

LEMMA TypeScans ==
    ASSUME TypeOK, Shapes, Fresh, Settled, Scans
    PROVE  TypeOK' /\ Shapes'
<1> USE DEF TypeOK
<1>n. /\ NoScan.pc = "idle" /\ NoScan \in ScanState
      /\ NoEntry \in RevEntry /\ None0 \in [Ids -> Nat]
  BY DEF NoScan, ScanState, NoEntry, RevEntry, None0
<1>i. ASSUME scan'.pc = "idle", UNCHANGED proc
      PROVE  Shapes'
  BY <1>i DEF Shapes, Reading, Inside
<1>1. ASSUME ListBegin
      PROVE  TypeOK' /\ Shapes'
  <2> DEFINE todo == {i \in Ids : prefs[i].enabled /\ package(i)}
             s == [NoScan EXCEPT !.pc = "next", !.at = now, !.cache = cache, !.current = current,
                                 !.todo = todo, !.out = None0]
  <2>1. todo \in SUBSET Ids
    OBVIOUS
  <2> HIDE DEF todo
  <2>2. s \in ScanState
    BY <1>n, <2>1 DEF ScanState, NoScan
  <2>3. /\ s.pc = "next" /\ s.cache = cache /\ s.current = current /\ s.out = None0
    BY DEF NoScan
  <2>4. /\ scan' = s /\ lock' = "scan"
        /\ UNCHANGED <<packages, registry, proc, snaps, cache, current, loaded, missed, undone, now,
                       ops, faults>>
    BY <1>1 DEF ListBegin, todo
  <2> HIDE DEF s
  <2> QED
    BY <1>n, <2>2, <2>3, <2>4 DEF packages, registry, Shapes, Reading, Inside
<1>2. ASSUME Reads
      PROVE  TypeOK' /\ Shapes'
  <2>1. /\ ScanOnly /\ scan' \in ScanState /\ snaps' \in [Ids -> Copies]
        /\ \/ \E i \in scan.todo, r \in Nat, e \in RevEntry : Gives(i, r, e)
           \/ Goes /\ Moves
    BY <1>2, ReadEffect
  <2>2. TypeOK'
    BY <2>1 DEF ScanOnly, packages, registry, Copies
  <2>3. UNCHANGED proc
    BY <2>1 DEF ScanOnly
  <2>4. scan.todo \subseteq Ids
    BY DEF ScanState
  <2>5. ASSUME NEW i \in scan.todo, NEW r \in Nat, NEW e \in RevEntry, Gives(i, r, e)
        PROVE  Shapes'
    BY <2>3, <2>4, <2>5 DEF Gives, Shapes, Reading, Inside
  <2>6. CASE Goes /\ Moves
    <3>1. scan'.pc \in Inside => scan'.id \in scan'.todo
      BY <2>6 DEF Moves, Shapes, Inside
    <3>2. /\ scan.pc \in Reading /\ scan'.cache = scan.cache /\ scan'.current = scan.current
          /\ scan'.out = scan.out
      BY <2>6 DEF Goes
    <3>3. scan.pc # "idle"
      BY <3>2 DEF Reading
    <3>4. /\ scan'.cache \in [Ids -> RevEntry] /\ scan'.current \in [Ids -> Nat]
          /\ scan'.out \in [Ids -> Nat]
      BY <3>2, <3>3 DEF Shapes
    <3>5. /\ \A p \in Procs : proc'[p].pc # "idle" => proc'[p].id \in Ids
          /\ \A p \in Procs : proc'[p].pc = "copied" => proc'[p].head \in Ids
      BY <2>3 DEF Shapes
    <3> QED
      BY <2>2, <3>1, <3>4, <3>5 DEF Shapes
  <2> QED
    BY <2>1, <2>2, <2>5, <2>6
<1>3. ASSUME ListEnd
      PROVE  TypeOK' /\ Shapes'
  <2>1. scan.pc = "next" /\ scan.cache \in [Ids -> RevEntry] /\ scan.current \in [Ids -> Nat]
        /\ scan.out \in [Ids -> Nat]
    BY <1>3 DEF ListEnd, Scanning, Shapes, Reading
  <2>2. [NoScan EXCEPT !.pc = "print", !.out = scan.out] \in ScanState
    BY <2>1 DEF NoScan, ScanState
  <2>3. scan'.pc = "print" /\ scan'.out = scan.out
    BY <1>3 DEF ListEnd, NoScan
  <2>4. TypeOK'
    <3>1. /\ cache' \in {cache, scan.cache} /\ current' \in {current, scan.current}
          /\ missed' \in BOOLEAN /\ faults' \in {faults, faults + 1}
          /\ lock' = None /\ scan' = [NoScan EXCEPT !.pc = "print", !.out = scan.out]
          /\ UNCHANGED <<packages, registry, proc, snaps, loaded, undone, now, ops>>
      BY <1>3 DEF ListEnd, Fault
    <3> QED
      BY <2>1, <2>2, <3>1 DEF packages, registry
  <2> QED
    BY <1>3, <2>1, <2>3, <2>4 DEF ListEnd, Shapes, Reading, Inside
<1>4. ASSUME ShellApplies
      PROVE  TypeOK' /\ Shapes'
  <2>1. scan.out \in [Ids -> Nat]
    BY <1>4 DEF ShellApplies, Scanning, Shapes
  <2> QED
    BY <1>4, <1>i, <1>n, <2>1 DEF ShellApplies, packages, registry
<1>5. ASSUME ScanKilled
      PROVE  TypeOK' /\ Shapes'
  <2>1. missed' \in BOOLEAN
    BY <1>5 DEF ScanKilled
  <2> QED
    BY <1>5, <1>i, <1>n, <2>1 DEF ScanKilled, Fault, packages, registry
<1>6. ASSUME ShellRestart
      PROVE  TypeOK' /\ Shapes'
  <2>1. /\ snaps' = [i \in Ids |-> {}] /\ cache' = [i \in Ids |-> NoEntry]
        /\ current' = None0 /\ loaded' = None0 /\ missed' = FALSE /\ undone' = {}
        /\ faults' = faults + 1 /\ scan' = NoScan
        /\ UNCHANGED <<pkgs, upstream, good, revs, prefs, bar, asked, lock, proc, now, ops>>
    BY <1>6 DEF ShellRestart, Fault, packages, registry
  <2>2. snaps' \in [Ids -> SUBSET [name : Nat, code : Nat]]
    BY <2>1
  <2>3. cache' \in [Ids -> RevEntry]
    BY <1>n, <2>1
  <2>4. Shapes'
    BY <1>i, <1>n, <2>1
  <2>5. /\ scan' \in ScanState /\ current' \in [Ids -> Nat] /\ loaded' \in [Ids -> Nat]
        /\ faults' \in Nat
    BY <1>n, <2>1
  <2>7. missed' \in BOOLEAN
    BY <2>1
  <2>6. TypeOK'
    BY <2>1, <2>2, <2>3, <2>5, <2>7
  <2> QED
    BY <2>4, <2>6
<1> QED
  BY <1>1, <1>2, <1>3, <1>4, <1>5, <1>6 DEF Scans, Reads

LEMMA ExclusiveStep ==
    ASSUME TypeOK, Exclusive, Next
    PROVE  Exclusive'
<1> USE ConstantsAssumption DEF Exclusive, Locked, Reading
<1>p. lock \in Procs \cup {None, "scan"} /\ proc \in [Procs -> Process] /\ Idle.pc = "idle"
      /\ NoScan.pc = "idle"
  BY DEF TypeOK, Idle, NoScan
<1>1. ASSUME UNCHANGED <<lock, proc, scan>>
      PROVE  Exclusive'
  BY <1>1
<1>2. ASSUME NEW p \in Procs, End(p), UNCHANGED scan,
             \/ lock' = lock
             \/ lock' = None /\ lock = p
      PROVE  Exclusive'
  BY <1>p, <1>2 DEF End
<1>3. ASSUME NEW p \in Procs, NEW r, UNCHANGED scan, proc' = [proc EXCEPT ![p] = r],
             \/ lock' = lock /\ r.pc \notin Locked
             \/ lock' = p /\ lock = None
      PROVE  Exclusive'
  <2>1. proc'[p] = r /\ \A q \in Procs : q # p => proc'[q] = proc[q]
    BY <1>p, <1>3
  <2> QED
    BY <1>p, <1>3, <2>1
<1>4. ASSUME UNCHANGED proc, scan'.pc \in Reading => scan.pc \in Reading, UNCHANGED lock
      PROVE  Exclusive'
  BY <1>4
<1>5. ASSUME UNCHANGED proc, scan'.pc \notin Reading, lock' = None \/ UNCHANGED lock,
             lock' = None => lock \in {None, "scan"}
      PROVE  Exclusive'
  BY <1>p, <1>5
<1>6. CASE \/ \E i \in Ids, ok \in BOOLEAN : Publish(i, ok) \/ Edit(i, ok)
           \/ \E i \in Ids, r \in 1 .. revs : Undo(i, r)
           \/ Tick
           \/ \E i \in Ids : enable(i) \/ disable(i)
           \/ \E i \in Ids \cup {0} : select_bar(i)
           \/ \E S \in SUBSET Ids : apply_layout(S)
           \/ ShellRestart
  BY <1>1, <1>6 DEF Publish, Edit, Undo, Contents, Tick, enable, disable, select_bar, apply_layout,
     Write, ShellRestart, code
<1>7. ASSUME NEW p \in Procs, NEW i \in Ids, InstallFetch(p, i) \/ UpdateFetch(p, i)
      PROVE  Exclusive'
  BY <1>3, <1>7 DEF InstallFetch, UpdateFetch, code
<1>8. ASSUME NEW p \in Procs, InstallPlace(p)
      PROVE  Exclusive'
  BY <1>2, <1>3, <1>8 DEF InstallPlace, code
<1>9. ASSUME NEW p \in Procs, register(p) \/ CloneWrite(p) \/ RemoveTree(p)
      PROVE  Exclusive'
  <2>1. lock = p
    BY <1>9 DEF register, CloneWrite, RemoveTree
  <2> QED
    BY <1>2, <1>9, <2>1 DEF register, CloneWrite, RemoveTree, code
<1>10. ASSUME NEW p \in Procs, Kill(p)
       PROVE  Exclusive'
  BY <1>2, <1>10 DEF Kill, code
<1>k. ASSUME NEW p \in Procs, UpdateLock(p)
      PROVE  Exclusive'
  <2> DEFINE r == [proc[p] EXCEPT !.pc = "same"]
  <2>1. r.pc = "same"
    BY <1>p DEF Process
  <2>2. /\ UNCHANGED scan /\ lock = None
        /\ \/ lock' = p /\ proc' = [proc EXCEPT ![p] = r]
           \/ End(p) /\ UNCHANGED lock
    BY <1>k DEF UpdateLock, code
  <2> HIDE DEF r
  <2> QED
    BY <1>2, <1>3, <2>2
<1>l. ASSUME NEW p \in Procs, UpdateStatus(p) \/ UpdateMerge(p)
      PROVE  Exclusive'
  <2>1. proc[p].pc \in {"same", "clean"} /\ lock = p /\ p # None /\ p # "scan"
    BY <1>l DEF UpdateStatus, UpdateMerge
  <2>2. CASE End(p) /\ lock' = None /\ UNCHANGED scan
    BY <1>2, <2>1, <2>2
  <2>3. CASE proc' = [proc EXCEPT ![p] = [proc[p] EXCEPT !.pc = "clean"]] /\ UNCHANGED <<lock, scan>>
    <3>1. \A q \in Procs : proc'[q].pc \in Locked => lock = q
      <4> SUFFICES ASSUME NEW q \in Procs, proc'[q].pc \in Locked PROVE lock = q
        OBVIOUS
      <4>1. q # p => proc'[q] = proc[q]
        BY <1>p, <2>3
      <4> QED
        BY <2>1, <4>1
    <3> QED
      BY <2>1, <2>3, <3>1
  <2> QED
    BY <1>l, <2>2, <2>3 DEF UpdateStatus, UpdateMerge, code
<1>11. ASSUME NEW p \in Procs, NEW i \in Ids, NEW j \in Ids, clone(p, i, j) \/ remove(p, i)
       PROVE  Exclusive'
  BY <1>3, <1>11 DEF clone, remove, code
<1>12. CASE ListBegin
  <2>1. UNCHANGED proc /\ lock' = "scan" /\ lock = None
    BY <1>12 DEF ListBegin
  <2> QED
    BY <1>p, <2>1
<1>13. CASE Reads
  <2>1. scan.pc \in Reading /\ UNCHANGED <<lock, proc>>
    BY <1>13 DEF Reads, snapshot, fingerprint, CopyTree, Publishes, Retry, Found, Step, Scanning
  <2> QED
    BY <1>4, <2>1
<1>14. CASE ListEnd \/ ScanKilled
  <2>1. scan'.pc \notin Reading /\ UNCHANGED proc
    BY <1>p, <1>14 DEF ListEnd, ScanKilled, NoScan
  <2>2. lock' = IF lock = "scan" THEN None ELSE lock
    BY <1>14 DEF ListEnd, ScanKilled, Scanning
  <2> QED
    BY <1>p, <2>1, <2>2
<1>15. CASE ShellApplies
  <2>1. scan'.pc \notin Reading /\ UNCHANGED <<lock, proc>>
    BY <1>p, <1>15 DEF ShellApplies
  <2> QED
    BY <1>p, <2>1
<1> HIDE DEF Exclusive
<1>16. CASE Outside
  BY <1>6, <1>7, <1>8, <1>9, <1>10, <1>11, <1>16, <1>k, <1>l DEF Outside
<1>17. CASE Scans
  BY <1>6, <1>12, <1>13, <1>14, <1>15, <1>17 DEF Scans, Reads
<1> QED
  BY <1>16, <1>17, Parts

LEMMA ChosenStep ==
    ASSUME TypeOK, Shapes, Exclusive, Chosen, Next
    PROVE  Chosen'
<1> USE ConstantsAssumption
<1>p. /\ proc \in [Procs -> Process] /\ prefs \in [Ids -> Pref] /\ Idle.pc = "idle"
      /\ asked \subseteq Ids
  BY DEF TypeOK, Idle
<1>q. ASSUME NEW p \in Procs, proc[p].pc = "written"
      PROVE  lock = p /\ lock # None
  BY <1>q DEF Exclusive, Locked
<1>1. ASSUME UNCHANGED <<prefs, asked>>,
             \A q \in Procs : proc'[q].pc = "written" => proc'[q] = proc[q]
      PROVE  Chosen'
  BY <1>1 DEF Chosen
<1>2. ASSUME \A i \in Ids : prefs'[i].enabled => i \in asked',
             \A q \in Procs : proc'[q].pc # "written"
      PROVE  Chosen'
  BY <1>2 DEF Chosen
<1>3. ASSUME NEW p \in Procs, NEW r, proc' = [proc EXCEPT ![p] = r], r.pc # "written"
      PROVE  /\ \A q \in Procs : proc'[q].pc = "written" => proc'[q] = proc[q]
             /\ lock \in {None, p} => \A q \in Procs : proc'[q].pc # "written"
  <2>1. proc'[p] = r /\ \A q \in Procs : q # p => proc'[q] = proc[q]
    BY <1>p, <1>3
  <2> QED
    BY <1>3, <1>q, <2>1
<1>4. ASSUME NEW p \in Procs, End(p)
      PROVE  /\ \A q \in Procs : proc'[q].pc = "written" => proc'[q] = proc[q]
             /\ lock \in {None, p} => \A q \in Procs : proc'[q].pc # "written"
  BY <1>p, <1>3, <1>4 DEF End
<1>5. ASSUME UNCHANGED <<prefs, asked, proc>>
      PROVE  Chosen'
  BY <1>1, <1>5
<1>6. CASE \/ \E i \in Ids, ok \in BOOLEAN : Publish(i, ok) \/ Edit(i, ok)
           \/ \E i \in Ids, r \in 1 .. revs : Undo(i, r)
           \/ Tick
           \/ Scans
  BY <1>5, <1>6 DEF Publish, Edit, Undo, Contents, Tick, Scans, ListBegin, snapshot, fingerprint,
     CopyTree, Publishes, Retry, Found, Step, ListEnd, ShellApplies, ScanKilled, ShellRestart, registry
<1>7. ASSUME NEW p \in Procs, NEW i \in Ids, InstallFetch(p, i) \/ UpdateFetch(p, i)
      PROVE  Chosen'
  <2> DEFINE r == [pc |-> "fetched", id |-> i, rev |-> upstream[i], head |-> 0]
             s == [pc |-> "validated", id |-> i, rev |-> upstream[i], head |-> pkgs[i].head]
  <2>1. r.pc # "written" /\ s.pc # "written"
    OBVIOUS
  <2>2. /\ proc' = [proc EXCEPT ![p] = r] \/ proc' = [proc EXCEPT ![p] = s]
        /\ UNCHANGED <<prefs, asked>>
    BY <1>7 DEF InstallFetch, UpdateFetch, registry
  <2> HIDE DEF r, s
  <2> QED
    BY <1>1, <1>3, <2>1, <2>2
<1>8. ASSUME NEW p \in Procs, InstallPlace(p)
      PROVE  Chosen'
  <2>1. UNCHANGED <<prefs, asked>> /\ (End(p) \/ proc' = [proc EXCEPT ![p] = [proc[p] EXCEPT !.pc = "placed"]])
    BY <1>8 DEF InstallPlace, registry
  <2>2. [proc[p] EXCEPT !.pc = "placed"].pc = "placed"
    BY <1>p DEF Process
  <2> QED
    BY <1>1, <1>3, <1>4, <2>1, <2>2
<1>k. ASSUME NEW p \in Procs, UpdateLock(p) \/ UpdateStatus(p)
      PROVE  Chosen'
  <2> DEFINE r == [proc[p] EXCEPT !.pc = "same"]
             t == [proc[p] EXCEPT !.pc = "clean"]
  <2>1. r.pc = "same" /\ t.pc = "clean"
    BY <1>p DEF Process
  <2>2. /\ UNCHANGED <<prefs, asked>>
        /\ End(p) \/ proc' = [proc EXCEPT ![p] = r] \/ proc' = [proc EXCEPT ![p] = t]
    BY <1>k DEF UpdateLock, UpdateStatus, registry
  <2> HIDE DEF r, t
  <2> QED
    BY <1>1, <1>3, <1>4, <2>1, <2>2
<1>9. ASSUME NEW p \in Procs, UpdateMerge(p) \/ Kill(p)
      PROVE  Chosen'
  BY <1>1, <1>4, <1>9 DEF UpdateMerge, Kill, registry
<1>10. ASSUME NEW p \in Procs, NEW i \in Ids, NEW j \in Ids, clone(p, i, j)
       PROVE  Chosen'
  BY <1>1, <1>3, <1>10 DEF clone, registry
<1>11. ASSUME NEW p \in Procs, register(p)
       PROVE  Chosen'
  <2> DEFINE i == proc[p].id
             f == [prefs[i] EXCEPT !.known = TRUE, !.enabled = FALSE]
  <2>1. i \in Ids /\ lock = p /\ End(p) /\ UNCHANGED asked
        /\ (UNCHANGED prefs \/ prefs' = [prefs EXCEPT ![i] = f])
    BY <1>11 DEF register, Shapes, Exclusive, Locked
  <2>2. f.enabled = FALSE
    BY <1>p, <2>1 DEF Pref
  <2> HIDE DEF i, f
  <2>3. \A k \in Ids : prefs'[k].enabled => prefs[k].enabled
    BY <1>p, <2>1, <2>2
  <2> QED
    BY <1>2, <1>4, <2>1, <2>3 DEF Chosen
<1>12. ASSUME NEW p \in Procs, CloneWrite(p)
       PROVE  Chosen'
  <2> DEFINE j == proc[p].id
             i == proc[p].head
             f == [prefs[i] EXCEPT !.known = TRUE, !.enabled = TRUE,
                                   !.restore = [id |-> i, enabled |-> prefs[i].enabled,
                                                bar |-> bar = i]]
             g == [prefs EXCEPT ![j] = f]
  <2>1. /\ j \in Ids /\ i \in Ids /\ lock = p /\ End(p)
        /\ \/ prefs' = prefs /\ asked' = asked
           \/ prefs' = [g EXCEPT ![i].enabled = FALSE] /\ asked' = asked \cup {j}
    BY <1>12 DEF CloneWrite, Shapes, Exclusive, Locked, registry
  <2>2. \A k \in Ids : k # j => g[k] = prefs[k]
    BY <1>p
  <2>3. DOMAIN g = Ids
    BY <1>p
  <2> HIDE DEF i, j, f, g
  <2>4. \A k \in Ids : (prefs'[k].enabled /\ k # j) => prefs[k].enabled
    <3>1. CASE prefs' = [g EXCEPT ![i].enabled = FALSE]
      <4>1. \A k \in Ids : k # i => prefs'[k] = g[k]
        BY <2>1, <2>3, <3>1
      <4>2. CASE i = j
        BY <2>2, <4>1, <4>2
      <4>3. CASE i # j
        <5>1. prefs'[i] = [prefs[i] EXCEPT !.enabled = FALSE]
          BY <2>1, <2>2, <2>3, <3>1, <4>3
        <5>2. prefs'[i].enabled = FALSE
          BY <1>p, <2>1, <5>1 DEF Pref
        <5> QED
          BY <2>2, <4>1, <5>2
      <4> QED
        BY <4>2, <4>3
    <3> QED
      BY <2>1, <3>1
  <2>5. \A k \in Ids : prefs'[k].enabled => k \in asked'
    BY <2>1, <2>4 DEF Chosen
  <2> QED
    BY <1>2, <1>4, <2>1, <2>5
<1>13. ASSUME NEW p \in Procs, NEW i \in Ids, remove(p, i)
       PROVE  Chosen'
  <2> DEFINE s == prefs[i].restore
             f == [prefs[i] EXCEPT !.known = TRUE, !.enabled = FALSE, !.restore = NoRestore]
             r == [Idle EXCEPT !.pc = "written", !.id = i]
  <2>1. prefs' = [j \in Ids |-> CASE j = i -> f
                                  [] j # i /\ j = s.id /\ prefs[j].known
                                       -> [prefs[j] EXCEPT !.enabled = s.enabled]
                                  [] OTHER -> prefs[j]]
    BY <1>13 DEF remove
  <2>2. /\ asked' = IF s.enabled THEN asked \cup {s.id} ELSE asked
        /\ lock = None /\ proc' = [proc EXCEPT ![p] = r]
    BY <1>13 DEF remove
  <2>3. f.enabled = FALSE /\ r.id = i
    BY <1>p DEF Pref, Idle
  <2>4. ASSUME NEW j \in Ids PROVE [prefs[j] EXCEPT !.enabled = s.enabled].enabled = s.enabled
    BY <1>p DEF Pref
  <2> HIDE DEF s, f, r
  <2>5. proc'[p] = r /\ \A q \in Procs : q # p => proc'[q] = proc[q]
    BY <1>p, <2>2
  <2>6. \A q \in Procs : proc'[q].pc = "written" => proc'[q].id = i
    BY <1>q, <2>2, <2>3, <2>5
  <2>7. prefs'[i] = f
    BY <2>1
  <2>8. ASSUME NEW j \in Ids, prefs'[j].enabled
        PROVE  j \in asked'
    <3>1. CASE j = i
      BY <2>3, <2>7, <2>8, <3>1
    <3>2. CASE j # i /\ j = s.id /\ prefs[j].known
      <4>1. prefs'[j] = [prefs[j] EXCEPT !.enabled = s.enabled]
        BY <2>1, <3>2
      <4> QED
        BY <2>2, <2>4, <2>8, <3>2, <4>1
    <3>3. CASE j # i /\ ~(j = s.id /\ prefs[j].known)
      <4>1. prefs'[j] = prefs[j]
        BY <2>1, <3>3
      <4> QED
        BY <2>2, <2>8, <4>1 DEF Chosen
    <3> QED
      BY <3>1, <3>2, <3>3
  <2> QED
    BY <2>3, <2>6, <2>7, <2>8 DEF Chosen
<1>14. ASSUME NEW p \in Procs, RemoveTree(p)
       PROVE  Chosen'
  <2>1. /\ proc[p].pc = "written" /\ lock = p /\ proc[p].id \in Ids /\ End(p) /\ UNCHANGED prefs
        /\ asked' = asked \ {proc[p].id}
    BY <1>14, <1>q DEF RemoveTree, Forget, Shapes
  <2>2. \A k \in Ids : prefs'[k].enabled => k \in asked'
    BY <2>1 DEF Chosen
  <2> QED
    BY <1>2, <1>4, <2>1, <2>2
<1>15. ASSUME lock = None, UNCHANGED proc, \A i \in Ids : prefs'[i].enabled => i \in asked'
       PROVE  Chosen'
  BY <1>2, <1>15, <1>q
<1>16. ASSUME NEW i \in Ids, enable(i)
       PROVE  Chosen'
  <2> DEFINE from   == IF pkgs[i].from = 0 THEN i ELSE pkgs[i].from
             rivals == {j \in Ids \ {i} : package(j) /\ (j = from \/ pkgs[j].from = from)}
  <2>1. prefs' = [j \in Ids |-> CASE j = i -> [prefs[i] EXCEPT !.known = TRUE, !.enabled = TRUE]
                                  [] j \in rivals -> [prefs[j] EXCEPT !.enabled = FALSE]
                                  [] OTHER -> prefs[j]]
    BY <1>16 DEF enable, Write
  <2>2. asked' = asked \cup {i} /\ lock = None /\ UNCHANGED proc
    BY <1>16 DEF enable, Write, Command
  <2>3. ASSUME NEW j \in Ids PROVE [prefs[j] EXCEPT !.enabled = FALSE].enabled = FALSE
    BY <1>p DEF Pref
  <2> HIDE DEF rivals
  <2>4. ASSUME NEW j \in Ids, prefs'[j].enabled
        PROVE  j \in asked'
    <3>1. CASE j = i
      BY <2>2, <3>1
    <3>2. CASE j # i /\ j \in rivals
      <4>1. prefs'[j] = [prefs[j] EXCEPT !.enabled = FALSE]
        BY <2>1, <3>2
      <4> QED
        BY <2>3, <2>4, <4>1
    <3>3. CASE j # i /\ j \notin rivals
      <4>1. prefs'[j] = prefs[j]
        BY <2>1, <3>3
      <4> QED
        BY <2>2, <2>4, <4>1 DEF Chosen
    <3> QED
      BY <3>1, <3>2, <3>3
  <2> QED
    BY <1>15, <2>2, <2>4
<1>17. ASSUME NEW i \in Ids, disable(i)
       PROVE  Chosen'
  <2> DEFINE f == [prefs[i] EXCEPT !.known = TRUE, !.enabled = FALSE]
  <2>1. prefs' = [prefs EXCEPT ![i] = f] /\ asked' = asked /\ lock = None /\ UNCHANGED proc
    BY <1>17 DEF disable, Write, Command
  <2>2. f.enabled = FALSE
    BY <1>p DEF Pref
  <2> HIDE DEF f
  <2>3. \A k \in Ids : prefs'[k].enabled => k \in asked'
    BY <1>p, <2>1, <2>2 DEF Chosen
  <2> QED
    BY <1>15, <2>1, <2>3
<1>18. ASSUME NEW i \in Ids \cup {0}, select_bar(i)
       PROVE  Chosen'
  <2> DEFINE f == [prefs[i] EXCEPT !.known = TRUE, !.enabled = TRUE]
  <2>1. /\ \/ prefs' = prefs /\ asked' = asked \cup {}
           \/ prefs' = [prefs EXCEPT ![i] = f] /\ asked' = asked \cup {i}
        /\ lock = None /\ UNCHANGED proc
    BY <1>18 DEF select_bar, Write, Command
  <2> HIDE DEF f
  <2>2. \A k \in Ids : k # i => (prefs'[k].enabled => prefs[k].enabled)
    BY <1>p, <2>1
  <2>3. \A k \in Ids : prefs'[k].enabled => k \in asked'
    BY <2>1, <2>2 DEF Chosen
  <2> QED
    BY <1>15, <2>1, <2>3
<1>l. ASSUME NEW S \in SUBSET Ids, apply_layout(S)
      PROVE  Chosen'
  <2>1. /\ asked' = asked \cup S /\ lock = None /\ UNCHANGED proc
        /\ \A k \in Ids : k \notin S => prefs'[k] = prefs[k]
    BY <1>l DEF apply_layout, Write, Command
  <2>2. \A k \in Ids : prefs'[k].enabled => k \in asked'
    BY <2>1 DEF Chosen
  <2> QED
    BY <1>15, <2>1, <2>2
<1>19. CASE Outside
  BY <1>k, <1>l, <1>6, <1>7, <1>8, <1>9, <1>10, <1>11, <1>12, <1>13, <1>14, <1>16, <1>17, <1>18, <1>19
  DEF Outside
<1> QED
  BY <1>6, <1>19, Parts

(* What is fetched is a revision that exists.                              *)
LEMMA OutsideRevs ==
    ASSUME TypeOK, Fresh, Outside, revs' = revs \/ revs' = revs + 1
    PROVE  /\ \A i \in Ids : upstream'[i] <= revs'
           /\ \A p \in Procs : proc'[p].rev <= revs'
<1>p. /\ proc \in [Procs -> Process] /\ upstream \in [Ids -> Nat] /\ revs \in Nat
      /\ Idle.rev = 0 /\ \A q \in Procs : proc[q].rev \in Nat
  BY DEF TypeOK, Idle, Process
<1>g. revs <= revs' /\ revs' \in Nat
  BY <1>p
<1>u. ASSUME UNCHANGED upstream
      PROVE  \A i \in Ids : upstream'[i] <= revs'
  BY <1>g, <1>p, <1>u DEF Fresh
<1>v. ASSUME UNCHANGED proc
      PROVE  \A p \in Procs : proc'[p].rev <= revs'
  BY <1>g, <1>p, <1>v DEF Fresh
<1>w. ASSUME NEW p \in Procs, NEW r, proc' = [proc EXCEPT ![p] = r], r.rev \in Nat, r.rev <= revs
      PROVE  \A q \in Procs : proc'[q].rev <= revs'
  <2>1. proc'[p] = r /\ \A q \in Procs : q # p => proc'[q] = proc[q]
    BY <1>p, <1>w
  <2> QED
    BY <1>g, <1>p, <1>w, <2>1 DEF Fresh
<1>x. ASSUME NEW p \in Procs, End(p)
      PROVE  \A q \in Procs : proc'[q].rev <= revs'
  <2>1. Idle.rev \in Nat /\ Idle.rev <= revs /\ proc' = [proc EXCEPT ![p] = Idle]
    BY <1>p, <1>x DEF End
  <2> QED
    BY <1>w, <2>1
<1> DEFINE Goal == /\ \A i \in Ids : upstream'[i] <= revs'
                   /\ \A p \in Procs : proc'[p].rev <= revs'
<1>1. ASSUME NEW i \in Ids, NEW ok \in BOOLEAN, Publish(i, ok) \/ Edit(i, ok)
      PROVE  Goal
  <2>1. /\ upstream' = upstream \/ (upstream' = [upstream EXCEPT ![i] = revs + 1] /\ revs' = revs + 1)
        /\ UNCHANGED proc
    BY <1>1 DEF Publish, Edit, Contents
  <2> QED
    BY <1>p, <1>u, <1>v, <2>1 DEF Fresh
<1>2. ASSUME \/ Tick
             \/ \E i \in Ids, r \in 1 .. revs : Undo(i, r)
             \/ \E i \in Ids : enable(i) \/ disable(i)
             \/ \E i \in Ids \cup {0} : select_bar(i)
             \/ \E S \in SUBSET Ids : apply_layout(S)
      PROVE  Goal
  <2>1. UNCHANGED <<upstream, proc>>
    BY <1>2 DEF Tick, Undo, Contents, enable, disable, select_bar, apply_layout, Write, packages
  <2> QED
    BY <1>u, <1>v, <2>1
<1>3. ASSUME NEW p \in Procs, NEW i \in Ids, InstallFetch(p, i) \/ UpdateFetch(p, i)
      PROVE  Goal
  <2> DEFINE r == [pc |-> "fetched", id |-> i, rev |-> upstream[i], head |-> 0]
             s == [pc |-> "validated", id |-> i, rev |-> upstream[i], head |-> pkgs[i].head]
  <2>1. r.rev = upstream[i] /\ s.rev = upstream[i] /\ upstream[i] \in Nat /\ upstream[i] <= revs
    BY <1>p DEF Fresh
  <2>2. /\ proc' = [proc EXCEPT ![p] = r] \/ proc' = [proc EXCEPT ![p] = s]
        /\ UNCHANGED upstream
    BY <1>3 DEF InstallFetch, UpdateFetch, packages
  <2> HIDE DEF r, s
  <2> QED
    BY <1>u, <1>w, <2>1, <2>2
<1>4. ASSUME NEW p \in Procs, InstallPlace(p)
      PROVE  Goal
  <2> DEFINE r == [proc[p] EXCEPT !.pc = "placed"]
  <2>1. r.rev = proc[p].rev /\ proc[p].rev <= revs /\ proc[p].rev \in Nat
    BY <1>p DEF Process, Fresh
  <2>2. UNCHANGED upstream /\ (End(p) \/ proc' = [proc EXCEPT ![p] = r])
    BY <1>4 DEF InstallPlace
  <2> HIDE DEF r
  <2> QED
    BY <1>u, <1>w, <1>x, <2>1, <2>2
<1>k. ASSUME NEW p \in Procs, UpdateLock(p) \/ UpdateStatus(p)
      PROVE  Goal
  <2> DEFINE r == [proc[p] EXCEPT !.pc = "same"]
             t == [proc[p] EXCEPT !.pc = "clean"]
  <2>1. r.rev = proc[p].rev /\ t.rev = proc[p].rev /\ proc[p].rev <= revs /\ proc[p].rev \in Nat
    BY <1>p DEF Process, Fresh
  <2>2. /\ UNCHANGED upstream
        /\ End(p) \/ proc' = [proc EXCEPT ![p] = r] \/ proc' = [proc EXCEPT ![p] = t]
    BY <1>k DEF UpdateLock, UpdateStatus, packages
  <2> HIDE DEF r, t
  <2> QED
    BY <1>u, <1>w, <1>x, <2>1, <2>2
<1>5. ASSUME NEW p \in Procs, \/ register(p) \/ UpdateMerge(p) \/ CloneWrite(p) \/ RemoveTree(p)
                              \/ Kill(p)
      PROVE  Goal
  <2>1. End(p) /\ UNCHANGED upstream
    BY <1>5 DEF register, UpdateMerge, CloneWrite, RemoveTree, Kill, packages
  <2> QED
    BY <1>u, <1>x, <2>1
<1>6. ASSUME NEW p \in Procs, NEW i \in Ids, NEW j \in Ids, clone(p, i, j)
      PROVE  Goal
  <2> DEFINE r == [pc |-> "copied", id |-> j, rev |-> 0, head |-> i]
  <2>1. r.rev = 0
    OBVIOUS
  <2>2. proc' = [proc EXCEPT ![p] = r] /\ UNCHANGED upstream
    BY <1>6 DEF clone
  <2> HIDE DEF r
  <2>3. r.rev \in Nat /\ r.rev <= revs
    BY <1>p, <2>1
  <2> QED
    BY <1>u, <1>w, <2>2, <2>3
<1>8. ASSUME NEW p \in Procs, NEW i \in Ids, remove(p, i)
      PROVE  Goal
  <2> DEFINE r == [Idle EXCEPT !.pc = "written", !.id = i]
  <2>1. r.rev = 0
    BY DEF Idle
  <2>2. proc' = [proc EXCEPT ![p] = r] /\ UNCHANGED upstream
    BY <1>8 DEF remove, packages
  <2> HIDE DEF r
  <2>3. r.rev \in Nat /\ r.rev <= revs
    BY <1>p, <2>1
  <2> QED
    BY <1>u, <1>w, <2>2, <2>3
<1> HIDE DEF Goal
<1>7. Goal
  BY <1>1, <1>2, <1>3, <1>4, <1>5, <1>6, <1>8, <1>k DEF Outside
<1> QED
  BY <1>7 DEF Goal

(* The scan and the packages.                                              *)
LEMMA FreshStep ==
    ASSUME TypeOK, Shapes, Exclusive, Fresh, Settled, Next
    PROVE  Fresh'
<1>p. NoScan.pc = "idle" /\ scan.todo \subseteq Ids
  BY DEF TypeOK, ScanState, NoScan
<1>1. CASE Outside
  <2>1. TreesMove /\ UNCHANGED scan
    BY <1>1, OutsideEffect DEF Still
  <2>2. /\ \A i \in Ids : upstream'[i] <= revs'
        /\ \A p \in Procs : proc'[p].rev <= revs'
    BY <1>1, <2>1, OutsideRevs DEF TreesMove
  <2>3. ASSUME scan.pc = "staged", pkgs'[scan.id].rev = scan.rev
        PROVE  scan.code = scan.rev \/ <<scan.id, scan.rev>> \in undone'
    <3>1. /\ scan.id \in Ids /\ undone \subseteq undone'
          /\ pkgs'[scan.id] = pkgs[scan.id] \/ Rewritten(scan.id)
      BY <1>p, <2>1, <2>3 DEF TreesMove, Shapes, Reading, Inside
    <3> QED
      BY <2>3, <3>1 DEF Fresh, Rewritten
  <2> QED
    BY <2>1, <2>2, <2>3 DEF Fresh
<1>2. CASE Reads
  <2>1. /\ ScanOnly
        /\ \/ \E i \in scan.todo, r \in Nat, e \in RevEntry : Gives(i, r, e)
           \/ Goes /\ Moves
    BY <1>2, ReadEffect
  <2>2. UNCHANGED <<pkgs, upstream, revs, proc, undone>>
    BY <2>1 DEF ScanOnly, packages
  <2>3. CASE scan'.pc # "staged"
    BY <2>2, <2>3 DEF Fresh
  <2>4. CASE scan'.id = scan.id /\ scan'.rev = scan.rev /\ scan'.code = pkgs[scan.id].rev
    BY <2>2, <2>4 DEF Fresh
  <2> QED
    BY <2>1, <2>3, <2>4 DEF Gives, Moves
<1>3. CASE ListBegin \/ ListEnd \/ ShellApplies \/ ScanKilled \/ ShellRestart
  <2>1. UNCHANGED <<upstream, revs, proc>> /\ scan'.pc # "staged"
    BY <1>p, <1>3 DEF ListBegin, ListEnd, ShellApplies, ScanKilled, ShellRestart, packages, NoScan
  <2> QED
    BY <2>1 DEF Fresh
<1> QED
  BY <1>1, <1>2, <1>3, Parts DEF Scans, Reads

(* What a snapshot holds and what of it stays.                             *)
LEMMA HandedStep ==
    ASSUME TypeOK, Shapes, Exclusive, Fresh, Settled, Handed, LoadedKept, NamesTrue, Next
    PROVE  Handed' /\ LoadedKept' /\ NamesTrue'
<1> DEFINE Goal == Handed' /\ LoadedKept' /\ NamesTrue'
<1>p. /\ current \in [Ids -> Nat] /\ scan \in ScanState /\ scan.todo \subseteq Ids
      /\ NoScan.pc = "idle" /\ snaps \in [Ids -> Copies] /\ missed \in BOOLEAN
      /\ loaded \in [Ids -> Nat]
  BY DEF TypeOK, ScanState, NoScan, Copies
<1>1. CASE Outside
  <2>1. UNCHANGED <<snaps, current, scan, loaded, missed>> /\ undone \subseteq undone'
    BY <1>1, OutsideEffect DEF Still, TreesMove
  <2> QED
    BY <2>1 DEF Handed, Named, LoadedKept, NamesTrue
<1>2. CASE ListBegin
  <2> DEFINE todo == {i \in Ids : prefs[i].enabled /\ package(i)}
             s == [NoScan EXCEPT !.pc = "next", !.at = now, !.cache = cache, !.current = current,
                                 !.todo = todo, !.out = None0]
  <2>1. /\ s.pc = "next" /\ s.current = current /\ s.out = None0 /\ s.todo = todo
    BY DEF NoScan
  <2>2. scan' = s /\ UNCHANGED <<snaps, current, loaded, missed, undone>> /\ scan = NoScan
    BY <1>2 DEF ListBegin
  <2>3. todo \subseteq Ids
    OBVIOUS
  <2> HIDE DEF s, todo
  <2>4. Handed'
    <3>1. \A i \in Ids : scan'.out[i] = 0 /\ scan'.current[i] = current[i]
      BY <2>1, <2>2 DEF None0
    <3>2. ~missed => \A i \in Ids : loaded[i] \in {0, current[i]}
      BY <1>p, <2>2 DEF Handed
    <3> QED
      BY <2>1, <2>2, <2>3, <3>1, <3>2 DEF Handed
  <2> QED
    BY <2>2, <2>4 DEF LoadedKept, NamesTrue
<1>3. ASSUME NEW i \in scan.todo, NEW r \in Nat, NEW e \in RevEntry, Gives(i, r, e), ScanOnly
      PROVE  Goal
  <2>1. /\ scan.current \in [Ids -> Nat] /\ scan.out \in [Ids -> Nat] /\ scan.pc \in Reading
        /\ scan.pc # "print" /\ i \in Ids
    BY <1>3, <1>p DEF Gives, Shapes, Reading
  <2>2. /\ scan'.current[i] = r /\ scan'.out[i] = r
        /\ \A j \in Ids : j # i => scan'.current[j] = scan.current[j] /\ scan'.out[j] = scan.out[j]
    BY <1>3, <2>1 DEF Gives
  <2>3. /\ scan'.pc = "next" /\ scan'.todo = scan.todo \ {i}
        /\ \A j \in Ids : j # i => snaps'[j] = snaps[j]
        /\ \E c \in snaps'[i] : c.name = r
        /\ \A c \in snaps'[i] : c \in snaps[i] \/ c.name = c.code \/ <<i, c.name>> \in undone
        /\ \A c \in snaps[i] : c.name = scan.current[i] => c \in snaps'[i]
    BY <1>3 DEF Gives
  <2>4. UNCHANGED <<current, loaded, missed, undone>>
    BY <1>3 DEF ScanOnly
  <2>5. /\ \A j \in scan.todo : scan.current[j] = current[j] /\ scan.out[j] = 0
        /\ \A j \in Ids : scan.out[j] # 0 => Named(j, scan.out[j]) /\ scan.current[j] = scan.out[j]
        /\ ~missed => \A j \in Ids : loaded[j] \in {0, current[j]}
    BY <2>1 DEF Handed
  <2>6. \A j \in Ids : scan'.out[j] # 0
                       => (\E c \in snaps'[j] : c.name = scan'.out[j]) /\ scan'.current[j] = scan'.out[j]
    BY <2>2, <2>3, <2>5 DEF Named
  <2>7. Handed'
    <3>1. \A j \in scan'.todo : scan'.current[j] = current'[j] /\ scan'.out[j] = 0
      BY <1>p, <2>2, <2>3, <2>4, <2>5
    <3>2. ~missed' => \A j \in Ids : loaded'[j] \in {0, current'[j]}
      BY <2>4, <2>5
    <3> QED
      BY <2>3, <2>6, <3>1, <3>2 DEF Handed, Named
  <2>8. LoadedKept'
    <3> SUFFICES ASSUME ~missed, NEW j \in Ids, loaded[j] # 0
                 PROVE  \E c \in snaps'[j] : c.name = loaded[j]
      BY <2>4 DEF LoadedKept
    <3>1. PICK c \in snaps[j] : c.name = loaded[j]
      BY DEF LoadedKept
    <3>2. CASE j = i
      <4>1. loaded[j] = scan.current[i]
        BY <2>5, <3>2
      <4> QED
        BY <2>3, <3>1, <3>2, <4>1
    <3> QED
      BY <2>3, <3>1, <3>2
  <2>9. NamesTrue'
    BY <2>3, <2>4 DEF NamesTrue
  <2> QED
    BY <2>7, <2>8, <2>9
<1>4. CASE Goes /\ Moves /\ ScanOnly
  <2>1. /\ scan.pc \in Reading /\ scan'.pc \in Reading /\ scan'.todo \subseteq scan.todo
        /\ scan'.current = scan.current /\ scan'.out = scan.out
        /\ UNCHANGED <<snaps, current, loaded, missed, undone>>
    BY <1>4 DEF Goes, ScanOnly
  <2>2. scan.pc # "print" /\ scan'.pc # "print"
    BY <2>1 DEF Reading
  <2> QED
    BY <2>1, <2>2 DEF Handed, Named, LoadedKept, NamesTrue
<1>5. CASE Reads
  BY <1>3, <1>4, <1>5, ReadEffect
<1>6. CASE ListEnd
  <2>1. /\ scan.pc = "next" /\ UNCHANGED <<snaps, loaded, undone>>
        /\ \/ current' = scan.current /\ missed' = missed
           \/ missed' = TRUE
        /\ scan' = [NoScan EXCEPT !.pc = "print", !.out = scan.out]
    BY <1>6 DEF ListEnd, Scanning
  <2>2. scan'.pc = "print" /\ scan'.out = scan.out /\ scan'.pc \notin Reading
    BY <2>1 DEF NoScan, Reading
  <2>3. \A i \in Ids : scan.out[i] # 0 => Named(i, scan.out[i]) /\ scan.current[i] = scan.out[i]
    BY <2>1 DEF Handed, Reading
  <2>4. Handed'
    BY <2>1, <2>2, <2>3 DEF Handed, Named
  <2> QED
    BY <2>1, <2>4 DEF LoadedKept, NamesTrue
<1>7. CASE ShellApplies
  <2>1. /\ scan.pc = "print" /\ loaded' = scan.out /\ scan' = NoScan
        /\ UNCHANGED <<snaps, current, missed, undone>>
    BY <1>7 DEF ShellApplies, Scanning
  <2>2. \A i \in Ids : scan.out[i] # 0
                       => Named(i, scan.out[i]) /\ (missed \/ current[i] = scan.out[i])
    BY <2>1 DEF Handed
  <2>3. scan'.pc \notin Reading /\ scan'.pc # "print"
    BY <1>p, <2>1 DEF Reading
  <2>4. Handed'
    BY <2>1, <2>2, <2>3 DEF Handed
  <2>5. LoadedKept'
    BY <2>1, <2>2 DEF LoadedKept, Named
  <2> QED
    BY <2>1, <2>4, <2>5 DEF NamesTrue
<1>8. CASE ScanKilled
  <2>1. /\ missed' = (missed \/ scan.pc = "print") /\ scan' = NoScan
        /\ UNCHANGED <<snaps, current, loaded, undone>>
    BY <1>8 DEF ScanKilled, Scanning
  <2>2. scan'.pc \notin Reading /\ scan'.pc # "print"
    BY <1>p, <2>1 DEF Reading
  <2>3. Handed'
    BY <2>1, <2>2 DEF Handed
  <2> QED
    BY <2>1, <2>3 DEF LoadedKept, NamesTrue
<1>9. CASE ShellRestart
  <2>1. /\ snaps' = [i \in Ids |-> {}] /\ current' = None0 /\ loaded' = None0 /\ scan' = NoScan
    BY <1>9 DEF ShellRestart
  <2>2. scan'.pc \notin Reading /\ scan'.pc # "print" /\ \A i \in Ids : loaded'[i] = 0
    BY <1>p, <2>1 DEF Reading, None0
  <2>3. Handed'
    BY <2>2 DEF Handed
  <2> QED
    BY <2>1, <2>2, <2>3 DEF LoadedKept, NamesTrue
<1> QED
  BY <1>1, <1>2, <1>5, <1>6, <1>7, <1>8, <1>9, Parts DEF Scans, Reads

(* A stat signature that was remembered is older than the clock; trees get *)
(* the clock's.                                                            *)
LEMMA SettledStep ==
    ASSUME TypeOK, Shapes, Exclusive, Fresh, Settled, Next
    PROVE  Settled'
<1>p. /\ cache \in [Ids -> RevEntry] /\ scan \in ScanState /\ scan.todo \subseteq Ids
      /\ NoScan.pc = "idle" /\ now \in Nat /\ pkgs \in [Ids -> Tree] /\ NoEntry \in RevEntry
      /\ scan.stat \in Nat /\ scan.at \in Nat
  BY DEF TypeOK, ScanState, NoScan, NoEntry, RevEntry
<1>s. \A e \in RevEntry : e.stat \in Nat
  BY DEF RevEntry
<1>e. Entry \in RevEntry
  BY <1>p DEF Entry, RevEntry, NoEntry, ScanState
<1>1. CASE Outside
  <2>1. TreesMove /\ UNCHANGED <<cache, scan>> /\ now' \in Nat /\ now <= now'
    BY <1>1, <1>p, OutsideEffect DEF Still, TreesMove
  <2>2. ASSUME NEW i \in Ids, NEW e \in RevEntry, Good(i, e), e # NoEntry
        PROVE  e.stat < now' /\ ((pkgs'[i] # NoTree /\ e.stat = pkgs'[i].stamp) => e.rev = pkgs'[i].rev)
    <3>1. e.stat \in Nat /\ e.stat < now /\ Matches(i, e)
      BY <1>s, <2>2 DEF Good
    <3>2. pkgs'[i] = pkgs[i] \/ pkgs'[i] = NoTree \/ pkgs'[i].stamp = now
      BY <2>1 DEF TreesMove, Written
    <3> QED
      BY <1>p, <2>1, <3>1, <3>2 DEF Matches, Installed
  <2>3. \A i \in Ids, e \in RevEntry : Good(i, e)
            => (e # NoEntry => e.stat < now' /\ ((pkgs'[i] # NoTree /\ e.stat = pkgs'[i].stamp)
                                                 => e.rev = pkgs'[i].rev))
    BY <2>2
  <2>4. \A i \in Ids : Good(i, cache[i])'
    BY <1>p, <2>1, <2>3 DEF Settled, Good, Matches, Installed
  <2>5. scan.pc \in Reading => scan.at <= now' /\ \A i \in Ids : Good(i, scan.cache[i])'
    <3> SUFFICES ASSUME scan.pc \in Reading
                 PROVE  scan.at <= now' /\ \A i \in Ids : Good(i, scan.cache[i])'
      OBVIOUS
    <3>1. scan.cache \in [Ids -> RevEntry] /\ scan.at <= now /\ \A i \in Ids : Good(i, scan.cache[i])
      BY DEF Shapes, Settled
    <3> QED
      BY <1>p, <2>1, <2>3, <3>1 DEF Good, Matches, Installed
  <2>6. scan.pc \in {"hashed", "staged"} => Good(scan.id, Entry)'
    <3> SUFFICES ASSUME scan.pc \in {"hashed", "staged"}
                 PROVE  Good(scan.id, Entry)'
      OBVIOUS
    <3>1. scan.id \in Ids /\ Good(scan.id, Entry)
      BY <1>p DEF Shapes, Settled, Inside
    <3>2. Entry' = Entry
      BY <2>1 DEF Entry
    <3> QED
      BY <1>e, <2>1, <2>3, <3>1, <3>2 DEF Good, Matches, Installed
  <2> QED
    BY <2>1, <2>4, <2>5, <2>6 DEF Settled
<1>2. CASE Reads
  <2>1. /\ ScanOnly
        /\ \/ \E i \in scan.todo, r \in Nat, e \in RevEntry : Gives(i, r, e) /\ Good(i, e)
           \/ Goes /\ Moves
    BY <1>2, ReadEffect
  <2>2. UNCHANGED <<pkgs, now, cache>> /\ scan.pc \in Reading
    BY <2>1 DEF ScanOnly, packages, Gives, Goes
  <2>3. scan.cache \in [Ids -> RevEntry] /\ scan.at <= now /\ \A i \in Ids : Good(i, scan.cache[i])
    BY <2>2 DEF Shapes, Settled
  <2>4. \A i \in Ids : Good(i, cache[i])'
    BY <2>2 DEF Settled, Good, Matches, Installed
  <2>5. ASSUME NEW i \in scan.todo, NEW r \in Nat, NEW e \in RevEntry, Gives(i, r, e), Good(i, e)
        PROVE  Settled'
    <3>1. /\ scan'.pc = "next" /\ scan'.at = scan.at /\ i \in Ids
          /\ scan'.cache = [scan.cache EXCEPT ![i] = e]
      BY <1>p, <2>5 DEF Gives
    <3>2. \A j \in Ids : Good(j, scan'.cache[j])
      BY <2>3, <2>5, <3>1
    <3>3. \A j \in Ids : Good(j, scan.cache[j])'
      BY <2>2, <3>2 DEF Good, Matches, Installed
    <3> QED
      BY <2>2, <2>3, <2>4, <3>1, <3>3 DEF Settled
  <2>6. CASE Goes /\ Moves
    <3>1. scan'.at = scan.at /\ scan'.cache = scan.cache /\ scan'.todo \subseteq scan.todo
      BY <2>6 DEF Goes
    <3>2. \A j \in Ids : Good(j, scan.cache[j])'
      BY <2>2, <2>3, <3>1 DEF Good, Matches, Installed
    <3>3. scan'.pc \in {"hashed", "staged"} => Good(scan.id, Entry)'
      <4>1. CASE scan'.pc = "next"
        BY <4>1
      <4>0. CASE scan'.pc = "stat"
        BY <4>0
      <4>2. CASE /\ scan.pc = "stat" /\ scan'.id = scan.id
                 /\ scan'.rev = pkgs[scan.id].rev /\ scan'.stat = scan.stat
        <5>1. scan'.id \in Ids /\ scan'.stat \in Nat
          BY <1>p, <4>2 DEF Shapes, Inside
        <5>2. CASE scan'.stat < scan'.at
          <6>1. Entry' = [stat |-> scan'.stat, rev |-> scan'.rev]
            BY <5>2 DEF Entry
          <6>2. Entry'.stat = scan'.stat /\ Entry'.rev = scan'.rev
            BY <6>1
          <6>3. scan'.stat < now
            BY <1>p, <2>3, <3>1, <4>2, <5>1, <5>2
          <6> QED
            BY <2>2, <4>2, <6>2, <6>3 DEF Good, Matches, Installed
        <5>3. CASE ~(scan'.stat < scan'.at)
          BY <5>3 DEF Entry, Good
        <5> QED
          BY <5>2, <5>3
      <4>3. CASE scan.pc = "hashed" /\ scan'.id = scan.id /\ scan'.rev = scan.rev /\ scan'.stat = scan.stat
        <5>1. Entry' = Entry
          BY <3>1, <4>3 DEF Entry
        <5>2. Good(scan.id, Entry)
          BY <4>3 DEF Settled
        <5> QED
          BY <2>2, <4>3, <5>1, <5>2 DEF Good, Matches, Installed
      <4> QED
        BY <2>6, <4>0, <4>1, <4>2, <4>3 DEF Moves
    <3> QED
      BY <2>2, <2>3, <2>4, <3>1, <3>2, <3>3 DEF Settled
  <2> QED
    BY <2>1, <2>5, <2>6
<1>3. CASE ListBegin
  <2> DEFINE todo == {i \in Ids : prefs[i].enabled /\ package(i)}
             s == [NoScan EXCEPT !.pc = "next", !.at = now, !.cache = cache, !.current = current,
                                 !.todo = todo, !.out = None0]
  <2>1. s.pc = "next" /\ s.at = now /\ s.cache = cache
    BY DEF NoScan
  <2>2. scan' = s /\ UNCHANGED <<pkgs, now, cache>>
    BY <1>3 DEF ListBegin, packages
  <2> HIDE DEF s, todo
  <2>3. \A i \in Ids : Good(i, cache[i])' /\ Good(i, scan.cache[i])'
    BY <2>1, <2>2 DEF Settled, Good, Matches, Installed
  <2> QED
    BY <1>p, <2>1, <2>2, <2>3 DEF Settled
<1>4. CASE ListEnd
  <2>1. /\ scan.pc \in Reading /\ cache' \in {cache, scan.cache} /\ UNCHANGED <<pkgs, now>>
        /\ scan' = [NoScan EXCEPT !.pc = "print", !.out = scan.out]
    BY <1>4 DEF ListEnd, Scanning, Reading, packages
  <2>2. scan'.pc = "print"
    BY <2>1 DEF NoScan
  <2>3. \A i \in Ids : Good(i, cache[i])'
    BY <2>1 DEF Settled, Good, Matches, Installed
  <2> QED
    BY <2>2, <2>3 DEF Settled, Reading
<1>5. CASE ShellApplies \/ ScanKilled
  <2>1. UNCHANGED <<pkgs, now, cache>> /\ scan'.pc = "idle"
    BY <1>5, <1>p DEF ShellApplies, ScanKilled, packages
  <2>2. \A i \in Ids : Good(i, cache[i])'
    BY <2>1 DEF Settled, Good, Matches, Installed
  <2> QED
    BY <2>1, <2>2 DEF Settled, Reading
<1>6. CASE ShellRestart
  <2>1. cache' = [i \in Ids |-> NoEntry] /\ scan' = NoScan
    BY <1>6 DEF ShellRestart
  <2> QED
    BY <1>p, <2>1 DEF Settled, Reading, Good
<1> QED
  BY <1>1, <1>2, <1>3, <1>4, <1>5, <1>6, Parts DEF Scans, Reads

-----------------------------------------------------------------------------
(* The theorems. *)

LEMMA Initial == Init => IInv
<1> SUFFICES ASSUME Init PROVE IInv
  OBVIOUS
<1>1. PICK first \in First :
        /\ pkgs = [i \in Ids |-> IF i \in first THEN [NoTree EXCEPT !.rev = 1, !.head = 1, !.stamp = 1]
                                               ELSE NoTree]
        /\ prefs = [i \in Ids |-> IF i \in first THEN [NoPref EXCEPT !.known = TRUE, !.enabled = TRUE]
                                                ELSE NoPref]
        /\ asked = first
  BY DEF Init
<1>2. /\ upstream = [i \in Ids |-> 1] /\ good = {1} /\ revs = 1
      /\ bar = 0 /\ lock = None /\ proc = [p \in Procs |-> Idle]
      /\ snaps = [i \in Ids |-> {}] /\ cache = [i \in Ids |-> NoEntry]
      /\ current = None0 /\ scan = NoScan /\ loaded = None0
      /\ now = 1 /\ missed = FALSE /\ undone = {} /\ ops = 0 /\ faults = 0
  BY DEF Init
<1>3. first \subseteq Ids
  BY <1>1, ConstantsAssumption
<1>4. /\ [NoTree EXCEPT !.rev = 1, !.head = 1, !.stamp = 1] \in Tree /\ NoTree \in Tree
      /\ [NoTree EXCEPT !.rev = 1, !.head = 1, !.stamp = 1].rev = 1 /\ NoTree.rev = 0
  BY DEF NoTree, Tree
<1>5. /\ [NoPref EXCEPT !.known = TRUE, !.enabled = TRUE] \in Pref /\ NoPref \in Pref
      /\ NoPref.enabled = FALSE
  BY DEF NoPref, Pref, Restore
<1>6. /\ Idle \in Process /\ Idle.pc = "idle" /\ Idle.rev = 0
      /\ NoScan \in ScanState /\ NoScan.pc = "idle" /\ NoEntry \in RevEntry
      /\ None0 \in [Ids -> Nat] /\ \A i \in Ids : None0[i] = 0
  BY DEF Idle, Process, NoScan, ScanState, NoEntry, RevEntry, None0
<1>7. TypeOK
  <2>1. pkgs \in [Ids -> Tree]
    BY <1>1, <1>4
  <2>2. prefs \in [Ids -> Pref]
    BY <1>1, <1>5
  <2>3. snaps \in [Ids -> SUBSET [name : Nat, code : Nat]]
    BY <1>2
  <2>4. missed \in BOOLEAN
    BY <1>2
  <2> QED
    BY <1>1, <1>2, <1>3, <1>6, <2>1, <2>2, <2>3, <2>4 DEF TypeOK
<1>8. Shapes /\ Exclusive
  BY <1>2, <1>6 DEF Shapes, Exclusive, Locked, Reading, Inside
<1>9. Chosen
  <2>1. \A i \in Ids : prefs[i].enabled => i \in asked
    BY <1>1, <1>5
  <2> QED
    BY <1>2, <1>6, <2>1 DEF Chosen
<1>10. Fresh
  BY <1>2, <1>6 DEF Fresh
<1>11. Handed /\ LoadedKept /\ NamesTrue
  BY <1>2, <1>6 DEF Handed, LoadedKept, NamesTrue, Reading
<1>12. Settled
  BY <1>2, <1>6 DEF Settled, Good, Reading
<1> QED
  BY <1>7, <1>8, <1>9, <1>10, <1>11, <1>12 DEF IInv

(* The inductive invariant: one lock, trees that only the user's edits     *)
(* change while a scan reads them, and a clock that is ahead of every      *)
(* remembered stat signature.                                              *)
THEOREM Invariance == Spec => []IInv
<1>1. ASSUME IInv, Next PROVE IInv'
  <2>1. TypeOK' /\ Shapes'
    <3>1. CASE Outside
      BY <1>1, <3>1, OutsideEffect, TypeOutside DEF IInv
    <3> QED
      BY <1>1, <3>1, Parts, TypeScans DEF IInv
  <2> QED
    BY <1>1, <2>1, ExclusiveStep, ChosenStep, FreshStep, HandedStep, SettledStep DEF IInv
<1>2. ASSUME IInv, UNCHANGED vars PROVE IInv'
  <2>1. UNCHANGED <<pkgs, upstream, good, revs, prefs, bar, lock, proc>>
    BY <1>2 DEF vars
  <2>2. UNCHANGED <<snaps, cache, current, scan, loaded, now, asked, missed, undone, ops, faults>>
    BY <1>2 DEF vars
  <2>3. TypeOK' /\ Shapes' /\ Exclusive' /\ Chosen'
    BY <1>2, <2>1, <2>2 DEF IInv, TypeOK, Shapes, Exclusive, Chosen
  <2>4. Fresh' /\ Handed' /\ Settled' /\ LoadedKept' /\ NamesTrue'
    BY <1>2, <2>1, <2>2 DEF IInv, Fresh, Handed, Named, Settled, Good, Matches, Installed, Entry,
       LoadedKept, NamesTrue
  <2> QED
    BY <2>3, <2>4 DEF IInv
<1> QED
  BY <1>1, <1>2, Initial, PTL DEF Spec

(* Every variable keeps its type; in particular what a scan carries has    *)
(* the shape its control state needs.                                      *)
THEOREM TypeCorrect == Spec => []TypeOK
  BY Invariance, PTL DEF IInv

(* "Install a trusted Git package (disabled until enabled)" (main).        *)
THEOREM ConsentGiven == Spec => []Consent
<1>1. IInv => Consent
  BY DEF IInv, Chosen, Consent
<1> QED
  BY <1>1, Invariance, PTL

(* "The shell still runs the previously returned revision until it applies *)
(* this result, so that one stays too" (runtime_sources): it does, unless  *)
(* an answer was lost or the revision handed out could not be recorded.    *)
THEOREM LoadedStays == Spec => []LoadedKept
<1>1. IInv => LoadedKept
  BY DEF IInv
<1> QED
  BY <1>1, Invariance, PTL

(* Snapshots are what their names say, unless the tree was edited and      *)
(* edited back around its copy; and a remembered fingerprint is never      *)
(* stale (snapshot, SETTLE_NS).                                            *)
THEOREM SnapshotsTrue == Spec => []SnapshotTrue
<1>1. IInv => SnapshotTrue
  BY DEF IInv, NamesTrue, Settled, Good, Matches, SnapshotTrue
<1> QED
  BY <1>1, Invariance, PTL

(* "local edits are never discarded" (update), also those made between the *)
(* status and the merge.                                                   *)
THEOREM EditsStay == Spec => EditsKept
<1> DEFINE Stays == \A i \in Ids : (Installed(i) /\ ~Clean(i) /\ pkgs[i].head # 0)
                                   => \/ pkgs'[i].head = pkgs[i].head
                                      \/ pkgs'[i].rev # pkgs'[i].head
                                      \/ pkgs'[i] = NoTree
<1>1. ASSUME IInv, Next PROVE Stays
  <2>p. pkgs \in [Ids -> Tree] /\ proc \in [Procs -> Process] /\ revs \in Nat
    BY <1>1 DEF IInv, TypeOK
  <2>q. ASSUME UNCHANGED pkgs
        PROVE  Stays
    BY <2>q
  <2>r. ASSUME NEW i, NEW t, pkgs' = [pkgs EXCEPT ![i] = t],
               \/ t = NoTree \/ ~Installed(i) \/ Clean(i)
               \/ t.head = pkgs[i].head \/ t.rev # t.head
        PROVE  Stays
    <3> SUFFICES ASSUME NEW j \in Ids, Installed(j), ~Clean(j)
                 PROVE  \/ pkgs'[j].head = pkgs[j].head
                        \/ pkgs'[j].rev # pkgs'[j].head
                        \/ pkgs'[j] = NoTree
      OBVIOUS
    <3>1. CASE j = i
      BY <2>p, <2>r, <3>1
    <3>2. CASE j # i
      BY <2>p, <2>r, <3>2
    <3> QED
      BY <3>1, <3>2
  <2> HIDE DEF Stays
  <2>c. ASSUME NEW i \in Ids, NEW v, Contents(i, v)
        PROVE  Stays
    <3>1. [pkgs[i] EXCEPT !.rev = v, !.stamp = now].head = pkgs[i].head
      BY <2>p DEF Tree
    <3>2. pkgs' = [pkgs EXCEPT ![i] = [pkgs[i] EXCEPT !.rev = v, !.stamp = now]]
      BY <2>c DEF Contents
    <3> QED
      BY <2>r, <3>1, <3>2
  <2>1. ASSUME NEW i \in Ids, NEW ok \in BOOLEAN, Publish(i, ok) \/ Edit(i, ok)
        PROVE  Stays
    BY <2>1, <2>q, <2>c DEF Publish, Edit
  <2>u. ASSUME NEW i \in Ids, NEW r \in 1 .. revs, Undo(i, r)
        PROVE  Stays
    BY <2>u, <2>c DEF Undo
  <2>2. ASSUME NEW p \in Procs, InstallPlace(p)
        PROVE  Stays
    BY <2>2, <2>q, <2>r DEF InstallPlace
  <2>3. ASSUME NEW p \in Procs, register(p) \/ CloneWrite(p) \/ RemoveTree(p)
        PROVE  Stays
    BY <2>3, <2>q, <2>r DEF register, CloneWrite, RemoveTree
  <2>4. ASSUME NEW p \in Procs, UpdateMerge(p)
        PROVE  Stays
    <3> DEFINE i == proc[p].id
               v == proc[p].rev
               t(r) == [pkgs[i] EXCEPT !.rev = r, !.head = v, !.stamp = now]
    <3>1. \/ UNCHANGED pkgs
          \/ Clean(i) /\ pkgs' = [pkgs EXCEPT ![i] = t(v)]
          \/ pkgs' = [pkgs EXCEPT ![i] = t(revs + 1)]
      BY <2>4 DEF UpdateMerge
    <3>2. t(revs + 1).rev # t(revs + 1).head
      <4>1. i \in Ids /\ v \in Nat /\ v <= revs
        BY <1>1, <2>p, <2>4 DEF UpdateMerge, IInv, Shapes, Fresh, Process
      <4>2. t(revs + 1).rev = revs + 1 /\ t(revs + 1).head = v
        BY <2>p, <4>1 DEF Tree
      <4> QED
        BY <2>p, <4>1, <4>2
    <3> HIDE DEF t
    <3> QED
      BY <2>q, <2>r, <3>1, <3>2
  <2>5. ASSUME NEW p \in Procs, NEW i \in Ids, NEW j \in Ids, clone(p, i, j)
        PROVE  Stays
    BY <2>5, <2>q, <2>r DEF clone
  <2>6. ASSUME NEW p \in Procs, NEW i \in Ids, InstallFetch(p, i) \/ UpdateFetch(p, i) \/ remove(p, i)
        PROVE  Stays
    BY <2>6, <2>q DEF InstallFetch, UpdateFetch, remove, packages
  <2>7. ASSUME NEW p \in Procs, Kill(p) \/ UpdateLock(p) \/ UpdateStatus(p)
        PROVE  Stays
    BY <2>7, <2>q DEF Kill, UpdateLock, UpdateStatus, packages
  <2>8. ASSUME \/ Tick
               \/ \E i \in Ids : enable(i) \/ disable(i)
               \/ \E i \in Ids \cup {0} : select_bar(i)
               \/ \E S \in SUBSET Ids : apply_layout(S)
        PROVE  Stays
    BY <2>8, <2>q DEF Tick, enable, disable, select_bar, apply_layout, Write, packages
  <2>9. ASSUME Scans
        PROVE  Stays
    BY <2>9, <2>q DEF Scans, ListBegin, snapshot, fingerprint, CopyTree, Publishes, Retry, Found, Step,
       ListEnd, ShellApplies, ScanKilled, ShellRestart, packages
  <2>10. ASSUME Outside
         PROVE  Stays
    BY <2>1, <2>2, <2>3, <2>4, <2>5, <2>6, <2>7, <2>8, <2>10, <2>u DEF Outside
  <2> QED
    BY <1>1, <2>9, <2>10, Parts
<1>2. IInv /\ [Next]_vars => [Stays]_vars
  BY <1>1
<1> QED
  BY <1>2, Invariance, PTL DEF Spec, EditsKept

=============================================================================
