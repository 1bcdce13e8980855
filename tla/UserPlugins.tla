----------------------------- MODULE UserPlugins -----------------------------
(***************************************************************************)
(* The user's shell plugins: user-plugins.py and plugin_packages.py.       *)
(* Package trees are installed, updated, cloned and removed; plugins.json  *)
(* says which are enabled and which one replaces the bar; list --live      *)
(* hands the shell a snapshot of each enabled package's code.  Commands    *)
(* are processes; what they change together is changed under the registry  *)
(* lock, while clones, fetches and validation run without it and the user  *)
(* edits package trees whenever she likes.                                 *)
(*                                                                         *)
(* A revision stands for the contents of a tree; where widgets are on the  *)
(* bar is left out.                                                        *)
(***************************************************************************)
EXTENDS Naturals, FiniteSets

CONSTANTS
    Ids,         \* plugin ids, positive numbers in the order of their names
    First,       \* the sets of plugins that may be installed and enabled at the start
    Procs,       \* commands that may overlap
    None,        \* nobody
    Tries,       \* attempts at a snapshot: 3
    MaxOps,      \* bound: commands
    MaxRev,      \* bound: revisions
    MaxNow,      \* bound: ticks of the clock
    MaxFault     \* bound: kills, failed writes, broken manifests and edits undone

ASSUME ConstantsAssumption ==
    /\ Ids \subseteq Nat \ {0} /\ First \subseteq SUBSET Ids
    /\ None \notin Procs /\ "scan" \notin Procs \cup {None}
    /\ {Tries, MaxOps, MaxRev, MaxNow, MaxFault} \subseteq Nat

VARIABLES
    pkgs,      \* the package trees
    upstream,  \* the newest revision of each package's remote
    good,      \* the revisions whose manifest is valid
    revs,      \* revisions so far
    prefs,     \* plugins.json: the plugins
    bar,       \* plugins.json: the replacement bar, 0 for the native one
    lock,      \* plugins.json.lock
    proc,      \* the commands under way
    snaps,     \* the shell's code snapshots: [name, code]
    cache,     \* .revisions.json: stat and revision per plugin
    current,   \* .revisions.json: the revision handed out last
    scan,      \* the list --live process
    loaded,    \* the revision of each plugin the shell runs, 0 without one
    now,       \* the clock that stamps files
    asked,     \* history: enabled by the user, or given back by the removal of a clone,
               \* since the package of that name was last removed
    missed,    \* history: the answer of a finished scan was lost, or what it handed out could
               \* not be recorded
    undone,    \* history: the fingerprints a tree was given back while it was copied under them
    ops, faults

packages == <<pkgs, upstream, good, revs>>
registry == <<prefs, bar, asked>>
code == <<snaps, cache, current, scan, loaded, missed, undone>>
vars == <<pkgs, upstream, good, revs, prefs, bar, lock, proc, snaps, cache, current, scan,
          loaded, now, asked, missed, undone, ops, faults>>

NoTree == [rev |-> 0, head |-> 0, stamp |-> 0, from |-> 0]
NoRestore == [id |-> 0, enabled |-> FALSE, bar |-> FALSE]
NoPref == [known |-> FALSE, enabled |-> FALSE, restore |-> NoRestore]
NoEntry == [stat |-> 0, rev |-> 0]
Idle == [pc |-> "idle", id |-> 0, rev |-> 0, head |-> 0]
NoScan == [pc |-> "idle", todo |-> {}, id |-> 0, stat |-> 0, rev |-> 0, code |-> 0, tries |-> 0,
           at |-> 0, cache |-> <<>>, current |-> <<>>, out |-> <<>>]
None0 == [i \in Ids |-> 0]

Init ==
    \E first \in First :
      /\ pkgs = [i \in Ids |-> IF i \in first THEN [NoTree EXCEPT !.rev = 1, !.head = 1, !.stamp = 1]
                                             ELSE NoTree]
      /\ upstream = [i \in Ids |-> 1] /\ good = {1} /\ revs = 1
      /\ prefs = [i \in Ids |-> IF i \in first THEN [NoPref EXCEPT !.known = TRUE, !.enabled = TRUE]
                                              ELSE NoPref]
      /\ bar = 0 /\ lock = None /\ proc = [p \in Procs |-> Idle]
      /\ snaps = [i \in Ids |-> {}] /\ cache = [i \in Ids |-> NoEntry]
      /\ current = None0 /\ scan = NoScan /\ loaded = None0
      /\ now = 1 /\ asked = first /\ missed = FALSE /\ undone = {}
      /\ ops = 0 /\ faults = 0

Installed(i) == pkgs[i] # NoTree
Clean(i) == pkgs[i].rev = pkgs[i].head

(* package: the tree is there and its manifest is valid.                   *)
package(i) == Installed(i) /\ pkgs[i].rev \in good

Fault == faults < MaxFault /\ faults' = faults + 1

(* The user removes a tree: what is installed there next is nobody's       *)
(* choice yet.                                                             *)
Forget(i) == asked' = asked \ {i}

-----------------------------------------------------------------------------
(* The world. *)

(* The remote of a package gets a revision, valid or not.                  *)
Publish(i, ok) ==
    /\ revs < MaxRev /\ revs' = revs + 1
    /\ upstream' = [upstream EXCEPT ![i] = revs + 1]
    /\ good' = IF ok THEN good \cup {revs + 1} ELSE good
    /\ UNCHANGED <<pkgs, registry, lock, proc, code, now, ops, faults>>

(* The user gives an installed tree other contents, new ones ...           *)
Contents(i, r) ==
    /\ Installed(i) /\ r # pkgs[i].rev
    /\ pkgs' = [pkgs EXCEPT ![i] = [@ EXCEPT !.rev = r, !.stamp = now]]
    /\ undone' = IF scan.pc = "staged" /\ scan.id = i /\ scan.rev = r
                   THEN undone \cup {<<i, r>>} ELSE undone
    /\ UNCHANGED <<upstream, registry, lock, proc, snaps, cache, current, scan, loaded, missed,
                   now, ops>>

Edit(i, ok) ==
    /\ revs < MaxRev /\ revs' = revs + 1 /\ Contents(i, revs + 1)
    /\ \/ ok /\ good' = good \cup {revs + 1} /\ UNCHANGED faults
       \/ ~ok /\ UNCHANGED good /\ Fault

(* ... or ones it had: those of its commit, or those that a scan has read. *)
Undo(i, r) ==
    /\ r \in {pkgs[i].head, scan.rev} \ {0} /\ Contents(i, r) /\ Fault
    /\ UNCHANGED <<revs, good>>

Tick ==
    /\ now < MaxNow /\ now' = now + 1
    /\ UNCHANGED <<packages, registry, lock, proc, code, ops, faults>>

-----------------------------------------------------------------------------
(* Package commands. *)

Begin(p) == proc[p] = Idle /\ ops < MaxOps /\ ops' = ops + 1
End(p) == proc' = [proc EXCEPT ![p] = Idle]

(* install, unlocked: clone the remote and validate the checkout.          *)
InstallFetch(p, i) ==
    /\ Begin(p) /\ upstream[i] \in good
    /\ proc' = [proc EXCEPT ![p] = [pc |-> "fetched", id |-> i, rev |-> upstream[i], head |-> 0]]
    /\ UNCHANGED <<packages, registry, lock, code, now, faults>>

(* install, locked: rename the checkout into place unless one is there.    *)
InstallPlace(p) ==
    LET i == proc[p].id
    IN /\ proc[p].pc = "fetched" /\ lock = None
       /\ IF Installed(i)
            THEN End(p) /\ UNCHANGED <<pkgs, lock>>
            ELSE /\ pkgs' = [pkgs EXCEPT ![i] = [rev |-> proc[p].rev, head |-> proc[p].rev,
                                                stamp |-> now, from |-> 0]]
                 /\ lock' = p /\ proc' = [proc EXCEPT ![p].pc = "placed"]
       /\ UNCHANGED <<upstream, good, revs, registry, code, now, ops, faults>>

(* register: the plugin is listed, disabled; if that cannot be written the *)
(* tree is removed again.                                                  *)
register(p) ==
    LET i == proc[p].id
    IN /\ proc[p].pc = "placed"
       /\ \/ /\ prefs' = [prefs EXCEPT ![i] = [@ EXCEPT !.known = TRUE, !.enabled = FALSE]]
             /\ UNCHANGED <<pkgs, faults>>
          \/ /\ Fault /\ pkgs' = [pkgs EXCEPT ![i] = NoTree]
             /\ UNCHANGED prefs
       /\ lock' = None /\ End(p)
       /\ UNCHANGED <<upstream, good, revs, bar, asked, code, now, ops>>

(* update, unlocked: a clean checkout, its upstream fetched and validated. *)
UpdateFetch(p, i) ==
    /\ Begin(p) /\ Installed(i) /\ pkgs[i].head # 0 /\ Clean(i)
    /\ upstream[i] \in good
    /\ proc' = [proc EXCEPT ![p] = [pc |-> "validated", id |-> i, rev |-> upstream[i],
                                    head |-> pkgs[i].head]]
    /\ UNCHANGED <<packages, registry, lock, code, now, faults>>

(* update, locked: the checkout is still at the commit that was validated  *)
(* (rev-parse) ...                                                         *)
UpdateLock(p) ==
    LET i == proc[p].id
    IN /\ proc[p].pc = "validated" /\ lock = None
       /\ IF Installed(i) /\ pkgs[i].head = proc[p].head
            THEN lock' = p /\ proc' = [proc EXCEPT ![p].pc = "same"]
            ELSE End(p) /\ UNCHANGED lock
       /\ UNCHANGED <<packages, registry, code, now, ops, faults>>

(* ... and clean (status): the user does not take the lock, so she may     *)
(* edit it before and after ...                                            *)
UpdateStatus(p) ==
    /\ proc[p].pc = "same"
    /\ IF Clean(proc[p].id)
         THEN proc' = [proc EXCEPT ![p].pc = "clean"] /\ UNCHANGED lock
         ELSE End(p) /\ lock' = None
    /\ UNCHANGED <<packages, registry, code, now, ops, faults>>

(* Mutant: git reset --hard *)
UpdateMerge_Reset(p) ==
    LET i == proc[p].id
        v == proc[p].rev
    IN /\ proc[p].pc = "clean"
       /\ pkgs' = [pkgs EXCEPT ![i] = [@ EXCEPT !.rev = v, !.head = v, !.stamp = now]]
       /\ lock' = None /\ End(p)
       /\ UNCHANGED <<upstream, good, revs, registry, code, now, ops, faults>>

(* ... and git merge --ff-only: of edits made since, git refuses to        *)
(* overwrite those in files the merge changes and keeps the others.        *)
UpdateMerge(p) ==
    LET i == proc[p].id
        v == proc[p].rev
        Merge(r) == pkgs' = [pkgs EXCEPT ![i] = [@ EXCEPT !.rev = r, !.head = v, !.stamp = now]]
    IN /\ proc[p].pc = "clean"
       /\ \/ Clean(i) /\ v # pkgs[i].head /\ Merge(v) /\ UNCHANGED <<revs, good>>
          \/ /\ ~Clean(i) /\ v # pkgs[i].head /\ revs < MaxRev
             /\ revs' = revs + 1 /\ Merge(revs + 1) /\ good' \in {good, good \cup {revs + 1}}
          \/ (v = pkgs[i].head \/ ~Clean(i)) /\ UNCHANGED <<pkgs, revs, good>>
       /\ lock' = None /\ End(p)
       /\ UNCHANGED <<upstream, registry, code, now, ops, faults>>

(* clone: the copy is renamed into place ...                               *)
clone(p, i, j) ==
    /\ Begin(p) /\ lock = None
    /\ package(i) /\ ~Installed(j) /\ revs < MaxRev
    /\ pkgs' = [pkgs EXCEPT ![j] = [rev |-> revs + 1, head |-> 0, stamp |-> now, from |-> i]]
    /\ revs' = revs + 1 /\ good' = good \cup {revs + 1}
    /\ lock' = p
    /\ proc' = [proc EXCEPT ![p] = [pc |-> "copied", id |-> j, rev |-> 0, head |-> i]]
    /\ UNCHANGED <<upstream, registry, code, now, faults>>

(* ... and takes over the original's preferences, its place as the bar and *)
(* its being enabled, all of which it remembers; or is removed again.      *)
CloneWrite(p) ==
    LET j == proc[p].id
        i == proc[p].head
    IN /\ proc[p].pc = "copied"
       /\ \/ /\ prefs' = [prefs EXCEPT
                            ![j] = [prefs[i] EXCEPT
                                      !.known = TRUE, !.enabled = TRUE,
                                      !.restore = [id |-> i, enabled |-> prefs[i].enabled,
                                                   bar |-> bar = i]],
                            ![i].enabled = FALSE]
             /\ bar' = IF bar = i THEN j ELSE bar
             /\ asked' = asked \cup {j}
             /\ UNCHANGED <<pkgs, faults>>
          \/ /\ Fault /\ pkgs' = [pkgs EXCEPT ![j] = NoTree]
             /\ UNCHANGED registry
       /\ lock' = None /\ End(p)
       /\ UNCHANGED <<upstream, good, revs, code, now, ops>>

(* Mutant: the preferences stay enabled until the tree is gone *)
remove_Enabled(p, i) ==
    LET r == prefs[i].restore
    IN /\ Begin(p) /\ lock = None /\ Installed(i)
       /\ prefs' = [j \in Ids |->
                      CASE j = i -> [prefs[i] EXCEPT !.known = TRUE,
                                                     !.restore = NoRestore]
                        [] j # i /\ j = r.id /\ prefs[j].known
                             -> [prefs[j] EXCEPT !.enabled = r.enabled]
                        [] OTHER -> prefs[j]]
       /\ bar' = IF bar = i THEN (IF r.bar THEN r.id ELSE 0) ELSE bar
       /\ asked' = IF r.enabled THEN asked \cup {r.id} ELSE asked
       /\ lock' = p
       /\ proc' = [proc EXCEPT ![p] = [Idle EXCEPT !.pc = "written", !.id = i]]
       /\ UNCHANGED <<packages, code, now, faults>>

(* remove: the preferences are kept, disabled; what a clone had taken over *)
(* goes back to the original ...                                           *)
remove(p, i) ==
    LET r == prefs[i].restore
    IN /\ Begin(p) /\ lock = None /\ Installed(i)
       /\ prefs' = [j \in Ids |->
                      CASE j = i -> [prefs[i] EXCEPT !.known = TRUE, !.enabled = FALSE,
                                                     !.restore = NoRestore]
                        [] j # i /\ j = r.id /\ prefs[j].known
                             -> [prefs[j] EXCEPT !.enabled = r.enabled]
                        [] OTHER -> prefs[j]]
       /\ bar' = IF bar = i THEN (IF r.bar THEN r.id ELSE 0) ELSE bar
       /\ asked' = IF r.enabled THEN asked \cup {r.id} ELSE asked
       /\ lock' = p
       /\ proc' = [proc EXCEPT ![p] = [Idle EXCEPT !.pc = "written", !.id = i]]
       /\ UNCHANGED <<packages, code, now, faults>>

(* ... and the tree is deleted.                                            *)
RemoveTree(p) ==
    LET i == proc[p].id
    IN /\ proc[p].pc = "written"
       /\ pkgs' = [pkgs EXCEPT ![i] = NoTree] /\ Forget(i)
       /\ lock' = None /\ End(p)
       /\ UNCHANGED <<upstream, good, revs, prefs, bar, code, now, ops, faults>>

(* A command is killed: the lock is free, what is written stays.           *)
Kill(p) ==
    /\ proc[p] # Idle /\ Fault
    /\ End(p) /\ lock' = IF lock = p THEN None ELSE lock
    /\ UNCHANGED <<packages, registry, code, now, ops>>

-----------------------------------------------------------------------------
(* Preference commands: each reads and replaces plugins.json under the     *)
(* lock.                                                                   *)

Command == lock = None /\ ops < MaxOps /\ ops' = ops + 1

Write(pr, b, on) ==
    /\ prefs' = pr /\ bar' = b
    /\ asked' = asked \cup on
    /\ UNCHANGED <<packages, lock, proc, code, now, faults>>

(* enable: the original and the other clones of it are disabled.           *)
enable(i) ==
    LET from   == IF pkgs[i].from = 0 THEN i ELSE pkgs[i].from
        rivals == {j \in Ids \ {i} : package(j) /\ (j = from \/ pkgs[j].from = from)}
    IN /\ Command /\ package(i)
       /\ Write([j \in Ids |->
                   CASE j = i -> [prefs[i] EXCEPT !.known = TRUE, !.enabled = TRUE]
                     [] j \in rivals -> [prefs[j] EXCEPT !.enabled = FALSE]
                     [] OTHER -> prefs[j]],
                bar, {i})

disable(i) ==
    /\ Command
    /\ Write([prefs EXCEPT ![i] = [@ EXCEPT !.known = TRUE, !.enabled = FALSE]], bar, {})

(* bar: the native one, or an enabled plugin.                              *)
select_bar(i) ==
    /\ Command
    /\ \/ i = 0 /\ Write(prefs, 0, {})
       \/ /\ i # 0 /\ package(i)
          /\ Write([prefs EXCEPT ![i] = [@ EXCEPT !.known = TRUE, !.enabled = TRUE]], i, {i})

(* configure-widget, layout-edit and bar-config: the widgets that a layout  *)
(* places are enabled; nobody is disabled for it.                          *)
apply_layout(S) ==
    /\ Command /\ S # {} /\ \A i \in S : package(i)
    /\ Write([i \in Ids |-> IF i \in S THEN [prefs[i] EXCEPT !.known = TRUE, !.enabled = TRUE]
                                       ELSE prefs[i]],
             bar, S)

-----------------------------------------------------------------------------
(* list --live: discovery and code snapshots. *)

(* The lock is taken and the registry read; .revisions.json is in memory   *)
(* until the end.                                                          *)
ListBegin ==
    /\ scan = NoScan /\ lock = None /\ lock' = "scan"
    /\ scan' = [NoScan EXCEPT !.pc = "next", !.at = now, !.cache = cache, !.current = current,
                              !.todo = {i \in Ids : prefs[i].enabled /\ package(i)},
                              !.out = None0]
    /\ UNCHANGED <<packages, registry, proc, snaps, cache, current, loaded, missed, undone, now, ops,
                   faults>>

Scanning(pc) == scan.pc = pc
Step(s) ==
    /\ scan' = s
    /\ UNCHANGED <<packages, registry, lock, proc, cache, current, loaded, missed, undone, now, ops,
                   faults>>

(* Mutant: prunes all but the new revision *)
Found_OnlyNew(i, rev, entry, made) ==
    /\ Step([scan EXCEPT !.pc = "next", !.id = 0, !.tries = 0, !.stat = 0, !.rev = 0, !.code = 0,
                         !.todo = @ \ {i}, !.cache = [@ EXCEPT ![i] = entry],
                         !.current = [@ EXCEPT ![i] = rev], !.out = [@ EXCEPT ![i] = rev]])
    /\ snaps' = IF made = {}
                  THEN snaps
                  ELSE [snaps EXCEPT ![i] =
                          {c \in @ : c.name \in {rev}} \cup made]

(* The plugin's result: the revision is remembered if its stamp is settled *)
(* and handed out; a revision made now prunes all but it and the last one. *)
Found(i, rev, entry, made) ==
    /\ Step([scan EXCEPT !.pc = "next", !.id = 0, !.tries = 0, !.stat = 0, !.rev = 0, !.code = 0,
                         !.todo = @ \ {i}, !.cache = [@ EXCEPT ![i] = entry],
                         !.current = [@ EXCEPT ![i] = rev], !.out = [@ EXCEPT ![i] = rev]])
    /\ snaps' = IF made = {}
                  THEN snaps
                  ELSE [snaps EXCEPT ![i] =
                          {c \in @ : c.name \in {rev, scan.current[i]}} \cup made]

(* snapshot: a known stat signature gives the revision without reading     *)
(* the tree; otherwise it is fingerprinted ...                             *)
snapshot(i) ==
    LET known == /\ scan.cache[i] # NoEntry /\ scan.cache[i].stat = pkgs[i].stamp
                 /\ \E c \in snaps[i] : c.name = scan.cache[i].rev
    IN /\ Scanning("next") /\ i \in scan.todo /\ scan.id \in {0, i} /\ Installed(i)
       /\ IF known
            THEN Found(i, scan.cache[i].rev, scan.cache[i], {})
            ELSE /\ Step([scan EXCEPT !.pc = "stat", !.id = i, !.stat = pkgs[i].stamp])
                 /\ UNCHANGED snaps

(* ... as it is by then.                                                   *)
fingerprint ==
    /\ Scanning("stat") /\ Installed(scan.id)
    /\ Step([scan EXCEPT !.pc = "hashed", !.rev = pkgs[scan.id].rev]) /\ UNCHANGED snaps

(* Mutant: remembers a fingerprint that may not be settled *)
Entry_Racy == [stat |-> scan.stat, rev |-> scan.rev]

Entry == IF scan.stat < scan.at THEN [stat |-> scan.stat, rev |-> scan.rev] ELSE NoEntry

(* A snapshot of that name is there; or the tree is copied.                *)
CopyTree ==
    LET i == scan.id
    IN /\ Scanning("hashed") /\ Installed(i)
       /\ IF \E c \in snaps[i] : c.name = scan.rev
            THEN Found(i, scan.rev, Entry, {})
            ELSE Step([scan EXCEPT !.pc = "staged", !.code = pkgs[i].rev]) /\ UNCHANGED snaps

(* The tree has the fingerprint, or has it again: the copy is published     *)
(* under it.                                                               *)
Publishes ==
    LET i == scan.id
    IN /\ Scanning("staged") /\ Installed(i) /\ pkgs[i].rev = scan.rev
       /\ Found(i, scan.rev, Entry, {[name |-> scan.rev, code |-> scan.code]})

(* The tree changed while it was read: another try, or its error.     *)
Retry ==
    LET i == scan.id
    IN /\ Scanning("staged") /\ Installed(i) /\ pkgs[i].rev # scan.rev
       /\ Step(IF scan.tries + 1 < Tries
                 THEN [scan EXCEPT !.pc = "next", !.tries = @ + 1]
                 ELSE [scan EXCEPT !.pc = "next", !.id = 0, !.tries = 0, !.todo = @ \ {i}])
       /\ UNCHANGED snaps

(* write_revision_cache, whose failure is ignored; the lock is free and    *)
(* the result is printed.                                                  *)
ListEnd ==
    /\ Scanning("next") /\ scan.todo = {}
    /\ \/ cache' = scan.cache /\ current' = scan.current /\ UNCHANGED <<missed, faults>>
       \/ /\ <<scan.cache, scan.current>> # <<cache, current>> /\ Fault
          /\ missed' = TRUE /\ UNCHANGED <<cache, current>>
    /\ lock' = None
    /\ scan' = [NoScan EXCEPT !.pc = "print", !.out = scan.out]
    /\ UNCHANGED <<packages, registry, proc, snaps, loaded, undone, now, ops>>

(* The shell applies the result.                                           *)
ShellApplies ==
    /\ Scanning("print")
    /\ loaded' = scan.out /\ scan' = NoScan
    /\ UNCHANGED <<packages, registry, lock, proc, snaps, cache, current, missed, undone, now, ops,
                   faults>>

(* The shell's watchdog ends a scan that takes too long.                   *)
ScanKilled ==
    /\ scan # NoScan /\ Fault
    /\ lock' = IF lock = "scan" THEN None ELSE lock
    /\ missed' = (missed \/ Scanning("print")) /\ scan' = NoScan
    /\ UNCHANGED <<packages, registry, proc, snaps, cache, current, loaded, undone, now, ops>>

(* Another shell: its snapshots are its own, those of the dead one go.     *)
ShellRestart ==
    /\ Fault /\ scan = NoScan
    /\ snaps' = [i \in Ids |-> {}] /\ cache' = [i \in Ids |-> NoEntry]
    /\ current' = None0 /\ loaded' = None0 /\ missed' = FALSE /\ undone' = {}
    /\ UNCHANGED <<packages, registry, lock, proc, scan, now, ops>>

-----------------------------------------------------------------------------

Next ==
    \/ \E i \in Ids, ok \in BOOLEAN : Publish(i, ok)
    \/ \E i \in Ids, ok \in BOOLEAN : Edit(i, ok)
    \/ \E i \in Ids, r \in 1 .. revs : Undo(i, r)
    \/ Tick
    \/ \E p \in Procs, i \in Ids : InstallFetch(p, i)
    \/ \E p \in Procs : InstallPlace(p)
    \/ \E p \in Procs : register(p)
    \/ \E p \in Procs, i \in Ids : UpdateFetch(p, i)
    \/ \E p \in Procs : UpdateLock(p)
    \/ \E p \in Procs : UpdateStatus(p)
    \/ \E p \in Procs : UpdateMerge(p)
    \/ \E p \in Procs, i, j \in Ids : clone(p, i, j)
    \/ \E p \in Procs : CloneWrite(p)
    \/ \E p \in Procs, i \in Ids : remove(p, i)
    \/ \E p \in Procs : RemoveTree(p)
    \/ \E p \in Procs : Kill(p)
    \/ \E i \in Ids : enable(i)
    \/ \E i \in Ids : disable(i)
    \/ \E i \in Ids \cup {0} : select_bar(i)
    \/ \E S \in SUBSET Ids : apply_layout(S)
    \/ ListBegin
    \/ \E i \in Ids : snapshot(i)
    \/ fingerprint
    \/ CopyTree
    \/ Publishes
    \/ Retry
    \/ ListEnd
    \/ ShellApplies
    \/ ScanKilled
    \/ ShellRestart

Spec == Init /\ [][Next]_vars

-----------------------------------------------------------------------------
(* Properties. *)

(* Every variable has its type.                                            *)
Tree == [rev : Nat, head : Nat, stamp : Nat, from : Ids \cup {0}]
Restore == [id : Ids, enabled : BOOLEAN, bar : BOOLEAN] \cup {NoRestore}
Pref == [known : BOOLEAN, enabled : BOOLEAN, restore : Restore]
RevEntry == [stat : Nat, rev : Nat]
Process == [pc : {"idle", "fetched", "placed", "validated", "same", "clean", "copied",
                   "written"},
            id : Ids \cup {0}, rev : Nat, head : Nat]
ScanState == [pc : {"idle", "next", "stat", "hashed", "staged", "print"}, todo : SUBSET Ids,
              id : Ids \cup {0}, stat : Nat, rev : Nat, code : Nat, tries : Nat, at : Nat,
              cache : [Ids -> RevEntry] \cup {<<>>}, current : [Ids -> Nat] \cup {<<>>},
              out : [Ids -> Nat] \cup {<<>>}]

TypeOK ==
    /\ pkgs \in [Ids -> Tree] /\ upstream \in [Ids -> Nat]
    /\ good \subseteq Nat /\ revs \in Nat
    /\ prefs \in [Ids -> Pref] /\ bar \in Ids \cup {0}
    /\ lock \in Procs \cup {None, "scan"} /\ proc \in [Procs -> Process]
    /\ snaps \in [Ids -> SUBSET [name : Nat, code : Nat]]
    /\ cache \in [Ids -> RevEntry] /\ current \in [Ids -> Nat] /\ scan \in ScanState
    /\ loaded \in [Ids -> Nat] /\ now \in Nat
    /\ asked \subseteq Ids /\ missed \in BOOLEAN /\ undone \subseteq Ids \X Nat
    /\ ops \in Nat /\ faults \in Nat

(* "Install a trusted Git package (disabled until enabled)" (main): an     *)
(* installed package is enabled only if the user enabled it since one of   *)
(* that name was last removed, whatever is killed between a tree and its   *)
(* registry entry, or if the removal of a clone gave the name back that it *)
(* was enabled (which remove does even where the original is gone).        *)
Consent ==
    \A i \in Ids : (prefs[i].enabled /\ Installed(i)) => i \in asked

(* "local edits are never discarded" (update): a tree that is edited at    *)
(* any moment of an update, between its check and its merge too, is not    *)
(* brought to the fetched commit without the edits, unless it is removed.  *)
EditsKept ==
    [][\A i \in Ids : (Installed(i) /\ ~Clean(i) /\ pkgs[i].head # 0)
                      => \/ pkgs'[i].head = pkgs[i].head
                         \/ pkgs'[i].rev # pkgs'[i].head
                         \/ pkgs'[i] = NoTree]_vars

(* "The shell still runs the previously returned revision until it applies *)
(* this result, so that one stays too" (runtime_sources): the code the     *)
(* shell runs is never deleted under it, also by a scan that is killed.    *)
(* Two cases are excepted, in which the code does delete it: the answer of *)
(* a finished scan was lost, or the failed write of .revisions.json was    *)
(* ignored and the next scan prunes by the older file.                     *)
LoadedKept ==
    missed \/ \A i \in Ids : loaded[i] # 0 => \E c \in snaps[i] : c.name = loaded[i]

(* A snapshot is the tree its name is the fingerprint of, and a remembered *)
(* fingerprint is that of the tree with that stat signature, edits within  *)
(* one tick of the clock included (the racy git problem, SETTLE_NS).       *)
(* Excepted is the copy whose tree was edited before it and edited back    *)
(* after it, between the two fingerprints: they agree, and the code        *)
(* publishes the edit under the name of the tree without it.               *)
SnapshotTrue ==
    /\ \A i \in Ids : \A c \in snaps[i] : c.name = c.code \/ <<i, c.name>> \in undone
    /\ \A i \in Ids : (Installed(i) /\ cache[i] # NoEntry /\ cache[i].stat = pkgs[i].stamp)
                      => cache[i].rev = pkgs[i].rev

=============================================================================
