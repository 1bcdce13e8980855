------------------------- MODULE DisplayTrialProofs -------------------------
(***************************************************************************)
(* Proofs about DisplayTrial, for every number of helpers, trials and      *)
(* faults: who is guarded, what is on screen, and what a keep saves.       *)
(*                                                                         *)
(* None of the three properties is inductive.  Each needs to know which    *)
(* trial the process inside TrialLock works on, what the two files on disk *)
(* say of it, and that a token is new: no timer, no file and no other      *)
(* process can know it before its own apply has written it.                *)
(***************************************************************************)
EXTENDS DisplayTrial, TLAPS

Inside(p) == proc[p].pc \notin {"idle", "lock"}

(* An apply that has not named its trial on disk, has not armed its timer, *)
(* has not shown its candidate.                                            *)
Unwritten(p) ==
    /\ proc[p].op = "apply"
    /\ \/ proc[p].pc \in {"lock", "base", "candidate", "state"}
       \/ proc[p].pc \in {"clear", "unlink"} /\ proc[p].then = "base"
Unarmed(p) == Unwritten(p) \/ (proc[p].op = "apply" /\ proc[p].pc = "arm")
Unshown(p) ==
    \/ Unarmed(p)
    \/ /\ proc[p].op = "apply"
       /\ proc[p].pc = "eval" \/ (proc[p].pc \in {"clear", "unlink"} /\ proc[p].then = "end")

(* TrialLock is held by the process that is inside, and by no other.       *)
LockHeld == \A p \in Procs : Inside(p) <=> lock = p

(* What a process at a step of its operation can be.                       *)
Shape(p) ==
    /\ proc[p].pc = "idle" => proc[p].op = "none" /\ proc[p].token = 0
    /\ proc[p].pc # "idle" => proc[p].token \in Tokens /\ proc[p].token < next
    /\ (p \in Helpers /\ proc[p].pc # "idle") => proc[p].op \in {"apply", "confirm", "rollback"}
    /\ (p \in Tokens /\ proc[p].pc # "idle")
       => /\ proc[p].op = "expire" /\ proc[p].token = p
          /\ proc[p].pc \in {"lock", "clear", "unlink", "reload"}
          /\ proc[p].pc \in {"clear", "unlink"} => proc[p].then = "reload"
    /\ proc[p].pc \in {"base", "candidate", "state", "arm", "eval"} => proc[p].op = "apply"
    /\ proc[p].pc \in {"check", "save"} => proc[p].op = "confirm" /\ proc[p].then = "reload"
    /\ proc[p].pc \in {"clear", "unlink"}
       => /\ proc[p].then \in {"base", "end", "reload"}
          /\ proc[p].then = "base" => proc[p].op = "apply"
          /\ proc[p].then = "end" => proc[p].op \in {"apply", "confirm"}
Shapes == \A p \in Procs : Shape(p)

(* Nothing but the apply that drew it knows a token, and no two share one. *)
TokensKnown ==
    /\ \A t \in armed \cup kept : t < next
    /\ shown \in Tokens => shown < next
    /\ trial # None => trial < next
    /\ state # None => state.token < next
    /\ preview < next
    /\ saved \in Tokens => saved \in kept
AppliesApart ==
    \A p, q \in Procs :
        p # q /\ proc[p].op = "apply" /\ proc[q].op = "apply" => proc[p].token # proc[q].token
New(p) ==
    LET t == proc[p].token
    IN /\ Unwritten(p) /\ state # None => state.token # t
       /\ Unarmed(p) => t \notin armed /\ proc[t].pc = "idle"
       /\ Unshown(p) => shown # t /\ t \notin kept
AppliesNew == \A p \in Procs : New(p)

(* What the files say while a process is inside.                           *)
OnDisk(p) ==
    LET t == proc[p].token
    IN /\ proc[p].pc \in {"base", "candidate", "state", "reload"} => state = None
       /\ proc[p].pc \in {"state", "arm", "eval", "save"} => trial = t
       /\ proc[p].pc \in {"arm", "eval", "disarm", "check", "save"} => state # None /\ state.token = t
       /\ proc[p].pc \in {"arm", "eval"} => state.age # "stale" \/ t \in failed
       /\ proc[p].pc \in {"clear", "unlink"}
          => /\ state # None
             /\ IF proc[p].then = "base" THEN state.age = "stale" ELSE state.token = t
       /\ proc[p].pc \in {"clear", "unlink"} /\ proc[p].then = "end" /\ proc[p].op = "confirm"
          => t \in kept /\ saved \in {t, Edited} /\ (shown = t \/ t \in unseen)
Disk ==
    /\ state # None => trial \in {None, state.token}
    /\ \A p \in Procs : OnDisk(p)

(* A timer that runs has not fired, and a candidate is shown only with its *)
(* timer running or fired.                                                 *)
TimersIdle == \A t \in armed : proc[t].pc = "idle"
ArmedFirst ==
    \A p \in Procs : proc[p].pc = "eval"
        => LET t == proc[p].token IN t \in armed \/ proc[t].pc # "idle" \/ t \in failed

(* An arrangement that nobody kept is the trial on disk, or that trial has *)
(* been cleared and its reload is next.                                    *)
ShownOnDisk ==
    (shown \in Tokens /\ shown \notin kept \cup failed)
    => \/ state # None /\ state.token = shown /\ state.age # "stale"
       \/ \E p \in Procs : proc[p].pc = "reload" /\ proc[p].token = shown

(* A trial that was kept is on disk only until its confirm has cleared it. *)
KeptEnds ==
    (state # None /\ state.token \in kept)
    => \/ state.token \in failed
       \/ \E p \in Procs : /\ proc[p].pc \in {"clear", "unlink"} /\ proc[p].then = "end"
                           /\ proc[p].token = state.token

(* The screen shows the saved rules, the trial on disk, or is about to be  *)
(* rebuilt.                                                                *)
ShownIsKnown ==
    (failed = {} /\ saved \notin unseen \cup {Edited})
    => \/ shown = saved
       \/ state # None /\ shown = state.token
       \/ \E p \in Procs : proc[p].pc = "reload"

(* The trial on disk is on screen, or its apply is still at work on it, or *)
(* a fault or a reload from elsewhere kept it off the screen.              *)
TrialIsShown ==
    (state # None /\ state.token \notin unseen)
    => \/ shown = state.token
       \/ \E p \in Procs : proc[p].op = "apply" /\ Inside(p) /\ proc[p].token = state.token

IInv ==
    /\ TypeOK
    /\ LockHeld
    /\ Shapes
    /\ TokensKnown
    /\ AppliesApart
    /\ AppliesNew
    /\ Disk
    /\ TimersIdle
    /\ ArmedFirst
    /\ Guarded
    /\ ShownOnDisk
    /\ KeptEnds
    /\ ShownIsKnown
    /\ TrialIsShown

-----------------------------------------------------------------------------
(* None is no process, no rules and no trial.                              *)
LEMMA NoneFacts == None \notin Procs /\ None \notin Docs /\ None \notin Trial
BY ConstantsAssumption DEF Tokens, Edited, Procs, Docs, Trial

(* A token numbers its trial and names the process of its timer.           *)
LEMMA TokenFacts ==
  /\ Tokens \subseteq Nat /\ 0 \notin Tokens /\ Edited \notin Tokens /\ Edited # 0
  /\ Tokens \subseteq Docs /\ Tokens \subseteq Procs /\ Helpers \subseteq Procs /\ Tokens \cap Helpers = {}
  /\ \A p \in Procs : p \in Helpers \/ p \in Tokens
BY ConstantsAssumption DEF Tokens, Edited, Procs, Docs

(* What the types of the variables say of their parts.                     *)
LEMMA TypeFacts ==
  ASSUME TypeOK
  PROVE  /\ state # None => state.token \in Tokens /\ state.base \in Docs
         /\ state # None => state.age \in {"fresh", "late", "stale"}
         /\ next \in Nat \ {0} /\ armed \subseteq Tokens /\ kept \subseteq Tokens
         /\ saved \in Docs /\ shown \in Docs
         /\ \A p \in Procs : proc[p].token \in Nat
<1>1. state # None => state \in Trial
  BY DEF TypeOK
<1>2. /\ state # None => state.token \in Tokens /\ state.base \in Docs
      /\ state # None => state.age \in {"fresh", "late", "stale"}
  BY <1>1 DEF Trial
<1>3. \A p \in Procs : proc[p] \in Process
  BY DEF TypeOK
<1>4. \A p \in Procs : proc[p].token \in Nat
  BY <1>3 DEF Process
<1>5. /\ next \in Nat \ {0} /\ armed \subseteq Tokens /\ kept \subseteq Tokens
      /\ saved \in Docs /\ shown \in Docs
  BY ConstantsAssumption DEF TypeOK
<1> QED
  BY <1>2, <1>4, <1>5

(* Process p is hit by a fault, whatever call it was in.                   *)
Dies(p) ==
    /\ ~At(p, "idle") /\ Hit(p) /\ End(p, FALSE)
    /\ shown' = shown \/ (At(p, "eval") /\ shown' = trial)
    /\ \/ armed' = armed
       \/ At(p, "arm") /\ armed' = armed \cup {proc[p].token}
       \/ At(p, "disarm") /\ armed' = armed \ {proc[p].token}
    /\ UNCHANGED <<files, next, kept>>

(* End: the process is gone and has left the lock; the page knows.         *)
LEMMA EndEffect ==
  ASSUME TypeOK, NEW p \in Procs, NEW ok, End(p, ok)
  PROVE  /\ proc' \in [Procs -> Process]
         /\ proc'[p].pc = "idle" /\ proc'[p].op = "none" /\ proc'[p].token = 0
         /\ \A q \in Procs : q # p => proc'[q] = proc[q]
         /\ lock' = IF lock = p THEN None ELSE lock
         /\ preview' \in {0, preview, proc[p].token}
         /\ base' = base /\ busy' \in {busy, None}
<1>1. Idle \in Process /\ Idle.pc = "idle" /\ Idle.op = "none" /\ Idle.token = 0
  BY ConstantsAssumption DEF Idle, Process, PCs, Docs
<1>2. proc' = [proc EXCEPT ![p] = Idle]
  BY DEF End
<1>3. proc' \in [Procs -> Process] /\ proc'[p] = Idle
      /\ \A q \in Procs : q # p => proc'[q] = proc[q]
  BY <1>1, <1>2 DEF TypeOK
<1>4. /\ lock' = IF lock = p THEN None ELSE lock
      /\ base' = base /\ busy' \in {busy, None}
  BY DEF End
<1>5. preview' \in {0, preview, proc[p].token}
  BY DEF End
<1> QED
  BY <1>1, <1>3, <1>4, <1>5

(* A process that is hit by a fault leaves what others made of its trial.  *)
LEMMA DiesStep ==
  ASSUME IInv, NEW p \in Procs, Dies(p)  PROVE IInv'
<1> USE DEF IInv
<1>1. proc[p].pc # "idle" /\ proc[p].token \in Tokens /\ proc[p].token < next
  BY DEF Dies, At, Shapes, Shape
<1>2. proc' \in [Procs -> Process] /\ lock' = IF lock = p THEN None ELSE lock
  BY EndEffect DEF Dies
<1>3. /\ proc'[p].pc = "idle" /\ proc'[p].op = "none" /\ proc'[p].token = 0
      /\ \A q \in Procs : q # p => proc'[q] = proc[q]
  BY EndEffect DEF Dies
<1>4. /\ preview' \in {0, preview, proc[p].token}
      /\ base' = base /\ busy' \in {busy, None}
  BY EndEffect DEF Dies
<1>5. saved' = saved /\ trial' = trial /\ state' = state
  BY DEF Dies, files
<1>6. next' = next /\ kept' = kept
  BY DEF Dies
<1>7. /\ unseen' = IF proc[p].op = "apply" THEN unseen \cup {proc[p].token} ELSE unseen
      /\ failed' = IF proc[p].pc \in Ending \/ p \in Tokens
                  THEN failed \cup {proc[p].token} ELSE failed
  BY DEF Dies, Hit
<1>8. faults' \in 0 .. MaxFault
  BY ConstantsAssumption DEF Dies, Hit, Fault, TypeOK
<1>9. \/ shown' = shown
      \/ proc[p].pc = "eval" /\ shown' = trial /\ trial = proc[p].token
  BY DEF Dies, At, Disk, OnDisk
<1>10. \/ armed' = armed
       \/ proc[p].pc = "arm" /\ armed' = armed \cup {proc[p].token}
       \/ proc[p].pc = "disarm" /\ armed' = armed \ {proc[p].token}
  BY DEF Dies, At
<1>11. TypeOK'
  <2>1. shown' \in Docs
    BY TokenFacts, TypeFacts, <1>9, <1>1
  <2>2. armed' \subseteq Tokens /\ unseen' \subseteq Tokens /\ failed' \subseteq Tokens
    BY <1>10, <1>7, <1>1 DEF TypeOK
  <2>3. preview' \in 0 .. MaxToken /\ base' \in Docs /\ busy' \in Helpers \cup {None}
    BY ConstantsAssumption, <1>4, <1>1 DEF TypeOK, Tokens
  <2> QED
    BY <2>1, <2>2, <2>3, <1>2, <1>5, <1>6, <1>8 DEF TypeOK
<1>12. LockHeld'
  BY NoneFacts, <1>2, <1>3 DEF LockHeld, Inside
<1>13. Shapes'
  BY <1>3, <1>6 DEF Shapes, Shape
<1>14. TokensKnown'
  BY TypeFacts, <1>1, <1>4, <1>5, <1>6, <1>9, <1>10 DEF TokensKnown
<1>15. AppliesApart'
  BY <1>3 DEF AppliesApart
<1>16. AppliesNew'
  BY TokenFacts, TypeFacts, <1>3, <1>5, <1>6, <1>9, <1>10 DEF AppliesNew, New, Unshown,
     Unarmed, Unwritten, AppliesApart, Shapes, Shape
<1>17. Disk'
  BY <1>3, <1>5, <1>6, <1>7, <1>9 DEF Disk, OnDisk
<1>18. TimersIdle'
  <2> SUFFICES ASSUME NEW t \in armed', t # p PROVE proc[t].pc = "idle" /\ t \in Procs
    BY <1>3 DEF TimersIdle
  <2>1. t \in Procs
    <3>1. armed' \subseteq Tokens
      BY <1>10, <1>1 DEF TypeOK
    <3> QED
      BY <3>1, TokenFacts
  <2>2. CASE t \in armed
    BY <2>1, <2>2 DEF TimersIdle
  <2>3. CASE proc[p].pc = "arm" /\ t = proc[p].token
    BY <2>1, <2>3 DEF AppliesNew, New, Unarmed, Shapes, Shape
  <2> QED
    BY <2>2, <2>3, <1>10
<1>19. ArmedFirst'
  <2> SUFFICES ASSUME NEW q \in Procs, proc'[q].pc = "eval"
               PROVE  LET t == proc[q].token
                      IN t \in armed' \/ proc'[t].pc # "idle" \/ t \in failed'
    BY <1>3 DEF ArmedFirst
  <2>1. q # p /\ proc[q].pc = "eval" /\ proc[q].token \in Tokens
    BY <1>3 DEF Shapes, Shape
  <2>2. armed \subseteq armed'
    BY NoneFacts, <1>10, <2>1 DEF LockHeld, Inside
  <2>3. CASE proc[q].token = p
    <3>1. p \in Tokens /\ proc[p].token = p
      BY <2>1, <2>3, <1>1 DEF Shapes, Shape
    <3> QED
      BY <2>3, <3>1, <1>7
  <2>4. CASE proc[q].token # p
    BY <2>1, <2>2, <2>4, <1>3, <1>7, TokenFacts DEF ArmedFirst
  <2> QED
    BY <2>3, <2>4
<1>20. Guarded'
  <2> SUFFICES ASSUME shown' \in Tokens, shown' \notin kept, shown' \notin failed'
               PROVE  \/ shown' \in armed' \/ proc'[shown'].pc # "idle"
                      \/ \E q \in Helpers : proc'[q].pc \in Ending /\ proc'[q].token = shown'
    BY <1>6 DEF Guarded, At
  <2>1. shown' \notin failed /\ (proc[p].pc \in Ending \/ p \in Tokens => proc[p].token # shown')
    BY <1>7
  <2>2. \/ shown' \in armed \/ proc[shown'].pc # "idle"
        \/ \E q \in Helpers : proc[q].pc \in Ending /\ proc[q].token = shown'
    BY <2>1, <1>9 DEF Guarded, ArmedFirst, At
  <2>3. CASE shown' \in armed
    BY <2>1, <2>3, <1>10 DEF Ending
  <2>4. CASE proc[shown'].pc # "idle"
    <3>1. shown' # p
      BY <2>1, <1>1 DEF Shapes, Shape
    <3> QED
      BY <2>4, <3>1, <1>3, TokenFacts
  <2>5. ASSUME NEW q \in Helpers, proc[q].pc \in Ending, proc[q].token = shown'
        PROVE  proc'[q].pc \in Ending /\ proc'[q].token = shown'
    BY <2>1, <2>5, <1>3, TokenFacts
  <2> QED
    BY <2>2, <2>3, <2>4, <2>5
<1>21. ShownOnDisk'
  BY <1>3, <1>5, <1>6, <1>7, <1>9 DEF ShownOnDisk, Ending, Disk, OnDisk
<1>22. KeptEnds'
  BY <1>3, <1>5, <1>6, <1>7 DEF KeptEnds, Ending
<1>23. ShownIsKnown'
  BY <1>3, <1>5, <1>7, <1>9 DEF ShownIsKnown, Ending, Disk, OnDisk
<1>24. TrialIsShown'
  BY <1>3, <1>5, <1>7, <1>9 DEF TrialIsShown, LockHeld, Inside, Disk, OnDisk
<1> QED
  BY <1>11, <1>12, <1>13, <1>14, <1>15, <1>16, <1>17, <1>18, <1>19, <1>20, <1>21,
     <1>22, <1>23, <1>24

(* Go: the process is at another step of the same operation.               *)
LEMMA GoEffect ==
  ASSUME TypeOK, NEW p \in Procs, NEW x \in PCs, Go(p, x)
  PROVE  /\ proc' \in [Procs -> Process]
         /\ proc'[p].pc = x /\ proc'[p].op = proc[p].op
         /\ proc'[p].token = proc[p].token /\ proc'[p].then = proc[p].then
         /\ \A q \in Procs : q # p => proc'[q] = proc[q]
<1>1. proc[p] \in Process
  BY DEF TypeOK
<1>2. /\ [proc[p] EXCEPT !.pc = x] \in Process
      /\ [proc[p] EXCEPT !.pc = x].pc = x
      /\ [proc[p] EXCEPT !.pc = x].op = proc[p].op
      /\ [proc[p] EXCEPT !.pc = x].token = proc[p].token
      /\ [proc[p] EXCEPT !.pc = x].then = proc[p].then
  BY <1>1 DEF Process
<1>3. /\ proc' = [proc EXCEPT ![p] = [proc[p] EXCEPT !.pc = x]]
      /\ proc'[p] = [proc[p] EXCEPT !.pc = x]
  BY DEF Go, TypeOK
<1> QED
  BY <1>2, <1>3 DEF TypeOK

(* The process goes to clear_trial, and then on to y.                      *)
LEMMA TurnEffect ==
  ASSUME TypeOK, NEW p \in Procs, NEW x \in PCs, NEW y \in {"base", "end", "reload"},
         proc' = [proc EXCEPT ![p].pc = x, ![p].then = y]
  PROVE  /\ proc' \in [Procs -> Process]
         /\ proc'[p].pc = x /\ proc'[p].op = proc[p].op
         /\ proc'[p].token = proc[p].token /\ proc'[p].then = y
         /\ \A q \in Procs : q # p => proc'[q] = proc[q]
<1>1. proc[p] \in Process
  BY DEF TypeOK
<1> DEFINE r == [proc[p] EXCEPT !.pc = x, !.then = y]
<1>2. /\ r \in Process /\ r.pc = x /\ r.op = proc[p].op
      /\ r.token = proc[p].token /\ r.then = y
  BY <1>1 DEF Process
<1>3. proc' = [proc EXCEPT ![p] = r]
  BY DEF TypeOK
<1>4. proc'[p] = r
  BY <1>3 DEF TypeOK
<1> HIDE DEF r
<1> QED
  BY <1>2, <1>3, <1>4 DEF TypeOK

(* snapshot touches the page only.                                         *)
LEMMA SnapshotStep ==
  ASSUME IInv, snapshot  PROVE IInv'
<1> USE DEF IInv
<1>1. /\ saved' = saved /\ trial' = trial /\ state' = state /\ next' = next
      /\ kept' = kept /\ unseen' = unseen /\ failed' = failed /\ faults' = faults
      /\ shown' = shown /\ armed' = armed /\ lock' = lock /\ proc' = proc
  BY DEF snapshot, files
<1>2. /\ preview' = preview \/ preview' = 0 \/ (state # None /\ preview' = state.token)
      /\ base' = saved /\ busy' = busy
  BY DEF snapshot
<1>3. TypeOK'
  BY ConstantsAssumption, TypeFacts, <1>1, <1>2 DEF TypeOK, Tokens
<1>4. LockHeld'
  BY <1>1 DEF LockHeld, Inside
<1>5. Shapes'
  BY <1>1 DEF Shapes, Shape
<1>6. TokensKnown'
  BY TypeFacts, <1>1, <1>2 DEF TokensKnown
<1>7. AppliesApart'
  BY <1>1 DEF AppliesApart
<1>8. AppliesNew'
  BY <1>1 DEF AppliesNew, New, Unshown, Unarmed, Unwritten
<1>9. Disk'
  BY <1>1 DEF Disk, OnDisk
<1>10. TimersIdle'
  BY <1>1 DEF TimersIdle
<1>11. ArmedFirst'
  BY <1>1 DEF ArmedFirst
<1>12. Guarded'
  BY <1>1 DEF Guarded, At
<1>13. ShownOnDisk'
  BY <1>1 DEF ShownOnDisk
<1>14. KeptEnds'
  BY <1>1 DEF KeptEnds
<1>15. ShownIsKnown'
  BY <1>1 DEF ShownIsKnown
<1>16. TrialIsShown'
  BY <1>1 DEF TrialIsShown, LockHeld, Inside
<1> QED
  BY <1>3, <1>4, <1>5, <1>6, <1>7, <1>8, <1>9, <1>10, <1>11, <1>12, <1>13, <1>14,
     <1>15, <1>16

(* So does a restart of the shell.                                         *)
LEMMA ShellRestartStep ==
  ASSUME IInv, ShellRestart  PROVE IInv'
<1> USE DEF IInv
<1>1. /\ saved' = saved /\ trial' = trial /\ state' = state /\ next' = next
      /\ kept' = kept /\ unseen' = unseen /\ failed' = failed /\ shown' = shown
      /\ armed' = armed /\ lock' = lock /\ proc' = proc
  BY DEF ShellRestart, files
<1>2. /\ preview' = 0 /\ base' = saved /\ busy' = None
      /\ faults' \in 0 .. MaxFault
  BY ConstantsAssumption DEF ShellRestart, Fault, TypeOK
<1>3. TypeOK'
  BY ConstantsAssumption, <1>1, <1>2 DEF TypeOK
<1>4. LockHeld'
  BY <1>1 DEF LockHeld, Inside
<1>5. Shapes'
  BY <1>1 DEF Shapes, Shape
<1>6. TokensKnown'
  BY TypeFacts, <1>1, <1>2 DEF TokensKnown
<1>7. AppliesApart'
  BY <1>1 DEF AppliesApart
<1>8. AppliesNew'
  BY <1>1 DEF AppliesNew, New, Unshown, Unarmed, Unwritten
<1>9. Disk'
  BY <1>1 DEF Disk, OnDisk
<1>10. TimersIdle'
  BY <1>1 DEF TimersIdle
<1>11. ArmedFirst'
  BY <1>1 DEF ArmedFirst
<1>12. Guarded'
  BY <1>1 DEF Guarded, At
<1>13. ShownOnDisk'
  BY <1>1 DEF ShownOnDisk
<1>14. KeptEnds'
  BY <1>1 DEF KeptEnds
<1>15. ShownIsKnown'
  BY <1>1 DEF ShownIsKnown
<1>16. TrialIsShown'
  BY <1>1 DEF TrialIsShown, LockHeld, Inside
<1> QED
  BY <1>3, <1>4, <1>5, <1>6, <1>7, <1>8, <1>9, <1>10, <1>11, <1>12, <1>13, <1>14,
     <1>15, <1>16

(* Rules that somebody else wrote excuse the screen.                       *)
LEMMA EditStep ==
  ASSUME IInv, Edit  PROVE IInv'
<1> USE DEF IInv
<1>1. /\ trial' = trial /\ state' = state /\ next' = next /\ kept' = kept
      /\ unseen' = unseen /\ failed' = failed
      /\ shown' = shown /\ armed' = armed /\ lock' = lock /\ proc' = proc
      /\ preview' = preview /\ base' = base /\ busy' = busy
  BY DEF Edit, page
<1>2. saved' = Edited
  BY DEF Edit
<1>3. TypeOK'
  BY ConstantsAssumption, <1>1, <1>2 DEF TypeOK, Docs, Edited, Edit, Fault
<1>4. LockHeld'
  BY <1>1 DEF LockHeld, Inside
<1>5. Shapes'
  BY <1>1 DEF Shapes, Shape
<1>6. TokensKnown'
  BY TokenFacts, <1>1, <1>2 DEF TokensKnown
<1>7. AppliesApart'
  BY <1>1 DEF AppliesApart
<1>8. AppliesNew'
  BY <1>1 DEF AppliesNew, New, Unshown, Unarmed, Unwritten
<1>9. Disk'
  BY <1>1, <1>2 DEF Disk, OnDisk
<1>10. TimersIdle'
  BY <1>1 DEF TimersIdle
<1>11. ArmedFirst'
  BY <1>1 DEF ArmedFirst
<1>12. Guarded'
  BY <1>1 DEF Guarded, At
<1>13. ShownOnDisk'
  BY <1>1 DEF ShownOnDisk
<1>14. KeptEnds'
  BY <1>1 DEF KeptEnds
<1>15. ShownIsKnown'
  BY <1>2 DEF ShownIsKnown
<1>16. TrialIsShown'
  BY <1>1 DEF TrialIsShown, LockHeld, Inside
<1> QED
  BY <1>3, <1>4, <1>5, <1>6, <1>7, <1>8, <1>9, <1>10, <1>11, <1>12, <1>13, <1>14,
     <1>15, <1>16

(* Only a trial that nobody guards or works on gets stale.                 *)
LEMMA TickStep ==
  ASSUME IInv, Tick  PROVE IInv'
<1> USE DEF IInv
<1>1. /\ saved' = saved /\ trial' = trial /\ next' = next /\ kept' = kept
      /\ unseen' = unseen /\ failed' = failed /\ faults' = faults
      /\ shown' = shown /\ armed' = armed /\ lock' = lock /\ proc' = proc
      /\ preview' = preview /\ base' = base /\ busy' = busy
  BY DEF Tick, page
<1>2. /\ state # None /\ state' # None /\ state' \in Trial /\ state'.token = state.token
      /\ state.age = "stale" => state'.age = "stale"
      /\ state'.age = "stale" => /\ state.token \notin armed
                                /\ \A q \in Procs : proc[q].token # state.token
  BY NoneFacts DEF Tick, TypeOK, Trial
<1>3. TypeOK'
  BY <1>1, <1>2 DEF TypeOK
<1>4. LockHeld'
  BY <1>1 DEF LockHeld, Inside
<1>5. Shapes'
  BY <1>1 DEF Shapes, Shape
<1>6. TokensKnown'
  BY <1>1, <1>2 DEF TokensKnown
<1>7. AppliesApart'
  BY <1>1 DEF AppliesApart
<1>8. AppliesNew'
  BY <1>1, <1>2 DEF AppliesNew, New, Unshown, Unarmed, Unwritten
<1>9. Disk'
  BY <1>1, <1>2 DEF Disk, OnDisk
<1>10. TimersIdle'
  BY <1>1 DEF TimersIdle
<1>11. ArmedFirst'
  BY <1>1 DEF ArmedFirst
<1>12. Guarded'
  BY <1>1 DEF Guarded, At
<1>13. ShownOnDisk'
  BY TokenFacts, <1>1, <1>2 DEF ShownOnDisk, Guarded, At, Ending, LockHeld, Inside,
     Shapes, Shape, Disk, OnDisk
<1>14. KeptEnds'
  BY <1>1, <1>2 DEF KeptEnds
<1>15. ShownIsKnown'
  BY <1>1, <1>2 DEF ShownIsKnown
<1>16. TrialIsShown'
  BY <1>1, <1>2 DEF TrialIsShown, LockHeld, Inside
<1> QED
  BY <1>3, <1>4, <1>5, <1>6, <1>7, <1>8, <1>9, <1>10, <1>11, <1>12, <1>13, <1>14,
     <1>15, <1>16

(* A trial that a suspend makes stale is excused.                          *)
LEMMA SleepStep ==
  ASSUME IInv, Sleep  PROVE IInv'
<1> USE DEF IInv
<1>1. /\ saved' = saved /\ trial' = trial /\ next' = next
      /\ kept' = kept /\ unseen' = unseen
      /\ shown' = shown /\ armed' = armed /\ lock' = lock /\ proc' = proc
      /\ preview' = preview /\ base' = base /\ busy' = busy
  BY DEF Sleep, page
<1>2. /\ state # None /\ state' # None /\ state' \in Trial /\ state'.token = state.token
      /\ state'.age = "stale"
  BY NoneFacts DEF Sleep, TypeOK, Trial
<1>3. failed' = failed \cup {state.token} /\ state.token \in Tokens
  BY TypeFacts DEF Sleep
<1>4. faults' \in 0 .. MaxFault
  BY ConstantsAssumption DEF Sleep, Fault, TypeOK
<1>5. TypeOK'
  BY <1>1, <1>2, <1>3, <1>4 DEF TypeOK
<1>6. LockHeld'
  BY <1>1 DEF LockHeld, Inside
<1>7. Shapes'
  BY <1>1 DEF Shapes, Shape
<1>8. TokensKnown'
  BY <1>1, <1>2 DEF TokensKnown
<1>9. AppliesApart'
  BY <1>1 DEF AppliesApart
<1>10. AppliesNew'
  BY <1>1, <1>2 DEF AppliesNew, New, Unshown, Unarmed, Unwritten
<1>11. Disk'
  BY <1>1, <1>2, <1>3 DEF Disk, OnDisk
<1>12. TimersIdle'
  BY <1>1 DEF TimersIdle
<1>13. ArmedFirst'
  BY <1>1, <1>3 DEF ArmedFirst
<1>14. Guarded'
  BY <1>1, <1>3 DEF Guarded, At
<1>15. ShownOnDisk'
  BY <1>1, <1>2, <1>3 DEF ShownOnDisk
<1>16. KeptEnds'
  BY <1>1, <1>2, <1>3 DEF KeptEnds
<1>17. ShownIsKnown'
  BY <1>3 DEF ShownIsKnown
<1>18. TrialIsShown'
  BY <1>1, <1>2 DEF TrialIsShown, LockHeld, Inside
<1> QED
  BY <1>5, <1>6, <1>7, <1>8, <1>9, <1>10, <1>11, <1>12, <1>13, <1>14, <1>15, <1>16,
     <1>17, <1>18

(* A reload from elsewhere shows the saved rules and drops a trial.        *)
LEMMA OutsideReloadStep ==
  ASSUME IInv, Reload  PROVE IInv'
<1> USE DEF IInv
<1>1. /\ saved' = saved /\ trial' = trial /\ state' = state /\ next' = next
      /\ kept' = kept /\ failed' = failed /\ faults' = faults
      /\ armed' = armed /\ lock' = lock /\ proc' = proc
      /\ preview' = preview /\ base' = base /\ busy' = busy
  BY DEF Reload, files, page
<1>2. /\ shown' = saved
      /\ unseen' = IF shown \in Tokens THEN unseen \cup {shown} ELSE unseen
  BY DEF Reload
<1>3. \A t \in Tokens : shown = t => t \in unseen'
  BY <1>2
<1>4. TypeOK'
  BY <1>1, <1>2 DEF TypeOK
<1>5. LockHeld'
  BY <1>1 DEF LockHeld, Inside
<1>6. Shapes'
  BY <1>1 DEF Shapes, Shape
<1>7. TokensKnown'
  BY TypeFacts, <1>1, <1>2 DEF TokensKnown
<1>8. AppliesApart'
  BY <1>1 DEF AppliesApart
<1>9. AppliesNew'
  <2>1. saved \in Tokens => saved \in kept
    BY DEF TokensKnown
  <2>2. \A p \in Procs : Unshown(p) => proc[p].token \in Tokens
    BY DEF Unshown, Unarmed, Unwritten, Shapes, Shape
  <2> QED
    BY <2>1, <2>2, <1>1, <1>2 DEF AppliesNew, New, Unshown, Unarmed, Unwritten
<1>10. Disk'
  <2>1. \A p \in Procs : proc[p].pc \in {"clear", "unlink"} => proc[p].token \in Tokens
    BY DEF Shapes, Shape
  <2> QED
    BY <2>1, <1>1, <1>2, <1>3 DEF Disk, OnDisk
<1>11. TimersIdle'
  BY <1>1 DEF TimersIdle
<1>12. ArmedFirst'
  BY <1>1 DEF ArmedFirst
<1>13. Guarded'
  BY <1>1, <1>2 DEF Guarded, TokensKnown
<1>14. ShownOnDisk'
  BY <1>1, <1>2 DEF ShownOnDisk, TokensKnown
<1>15. KeptEnds'
  BY <1>1 DEF KeptEnds
<1>16. ShownIsKnown'
  BY <1>1, <1>2 DEF ShownIsKnown
<1>17. TrialIsShown'
  BY TypeFacts, <1>1, <1>2, <1>3 DEF TrialIsShown, LockHeld, Inside
<1> QED
  BY <1>4, <1>5, <1>6, <1>7, <1>8, <1>9, <1>10, <1>11, <1>12, <1>13, <1>14, <1>15,
     <1>16, <1>17

(* The timer's process wants the lock, for the trial of its token.         *)
LEMMA FireEffect ==
  ASSUME TypeOK, NEW t \in Tokens, Fire(t)
  PROVE  /\ proc' \in [Procs -> Process]
         /\ proc'[t].pc = "lock" /\ proc'[t].op = "expire" /\ proc'[t].token = t
         /\ \A q \in Procs : q # t => proc'[q] = proc[q]
<1> DEFINE r == [Idle EXCEPT !.pc = "lock", !.op = "expire", !.token = t]
<1>0. Idle \in Process
  BY ConstantsAssumption DEF Idle, Process, PCs, Docs
<1>1. /\ r \in Process /\ r.pc = "lock" /\ r.op = "expire" /\ r.token = t
  <2>1. Idle \in [pc : PCs, op : {"none", "apply", "confirm", "rollback", "expire"},
                  token : 0 .. MaxToken, base : Docs, then : {"none", "base", "end", "reload"}]
    BY <1>0 DEF Process
  <2>2. "lock" \in PCs /\ t \in 0 .. MaxToken
    BY ConstantsAssumption DEF PCs, Tokens
  <2>3. r.pc = "lock" /\ r.op = "expire" /\ r.token = t
    BY <2>1
  <2> QED
    BY <2>1, <2>2, <2>3 DEF Process
<1>2. proc' = [proc EXCEPT ![t] = r]
  BY DEF Fire
<1> HIDE DEF r
<1>3. proc'[t] = r
  BY <1>2, TokenFacts DEF TypeOK
<1> QED
  BY <1>1, <1>2, <1>3 DEF TypeOK

(* A timer that fires becomes a process that waits for the lock.           *)
LEMMA FireStep ==
  ASSUME IInv, NEW t \in Tokens, Fire(t)  PROVE IInv'
<1> USE DEF IInv
<1>1. /\ saved' = saved /\ trial' = trial /\ state' = state /\ next' = next
      /\ kept' = kept /\ unseen' = unseen /\ failed' = failed /\ faults' = faults
      /\ shown' = shown /\ lock' = lock /\ preview' = preview /\ base' = base
      /\ busy' = busy
  BY DEF Fire, files, page
<1>2. t \in armed /\ armed' = armed \ {t}
  BY DEF Fire
<1>3. /\ proc' \in [Procs -> Process]
      /\ proc'[t].pc = "lock" /\ proc'[t].op = "expire" /\ proc'[t].token = t
      /\ \A q \in Procs : q # t => proc'[q] = proc[q]
  BY TokenFacts, FireEffect
<1>4. proc[t].pc = "idle" /\ t < next
  BY DEF Fire, TimersIdle, TokensKnown
<1>5. TypeOK'
  BY <1>1, <1>2, <1>3 DEF TypeOK
<1>6. LockHeld'
  BY <1>1, <1>3, <1>4 DEF LockHeld, Inside
<1>7. Shapes'
  BY TokenFacts, <1>1, <1>3, <1>4 DEF Shapes, Shape
<1>8. TokensKnown'
  BY <1>1, <1>2 DEF TokensKnown
<1>9. AppliesApart'
  BY <1>3 DEF AppliesApart
<1>10. AppliesNew'
  BY TokenFacts, TypeFacts, <1>1, <1>2, <1>3 DEF AppliesNew, New, Unshown, Unarmed,
     Unwritten, Shapes, Shape
<1>11. Disk'
  BY <1>1, <1>3 DEF Disk, OnDisk
<1>12. TimersIdle'
  BY TokenFacts, TypeFacts, <1>2, <1>3 DEF TimersIdle
<1>13. ArmedFirst'
  <2> SUFFICES ASSUME NEW q \in Procs, proc'[q].pc = "eval"
               PROVE  LET x == proc[q].token
                      IN x \in armed' \/ proc'[x].pc # "idle" \/ x \in failed'
    BY <1>3 DEF ArmedFirst
  <2>1. q # t /\ proc[q].pc = "eval" /\ proc[q].token \in Tokens
    BY <1>3, <1>4 DEF Shapes, Shape
  <2> QED
    BY <2>1, <1>3, <1>4, <1>1, <1>2, TokenFacts DEF ArmedFirst
<1>14. Guarded'
  BY TokenFacts, <1>1, <1>2, <1>3 DEF Guarded, At
<1>15. ShownOnDisk'
  BY <1>1, <1>3, <1>4 DEF ShownOnDisk
<1>16. KeptEnds'
  BY <1>1, <1>3, <1>4 DEF KeptEnds
<1>17. ShownIsKnown'
  BY <1>1, <1>3, <1>4 DEF ShownIsKnown
<1>18. TrialIsShown'
  BY <1>1, <1>3, <1>4 DEF TrialIsShown, LockHeld, Inside
<1> QED
  BY <1>5, <1>6, <1>7, <1>8, <1>9, <1>10, <1>11, <1>12, <1>13, <1>14, <1>15, <1>16,
     <1>17, <1>18

(* Process p has been started for a new trial, or for the one on the page. *)
Asked(p) ==
    /\ proc[p].pc = "idle" /\ proc' \in [Procs -> Process]
    /\ proc'[p].pc = "lock" /\ proc'[p].token \in Tokens
    /\ \A q \in Procs : q # p => proc'[q] = proc[q]
    /\ \/ proc'[p].op = "apply" /\ proc'[p].token = next /\ next' = next + 1
       \/ proc'[p].op \in {"confirm", "rollback"} /\ proc'[p].token < next /\ next' = next
    /\ busy' = p
    /\ UNCHANGED <<files, shown, armed, lock, preview, base, kept, unseen, failed, faults>>

(* Ask starts one process, for a new token or the one on the page.         *)
LEMMA AskEffect ==
  ASSUME TypeOK, NEW op \in {"apply", "confirm", "rollback"}, NEW t \in Tokens, Ask(op, t),
         op = "apply" => t = next /\ next' = next + 1,
         op # "apply" => t < next /\ next' = next
  PROVE  \E p \in Helpers : Asked(p)
<1>1. PICK p \in Helpers :
         /\ proc[p] = Idle /\ busy' = p
         /\ proc' = [proc EXCEPT ![p] = [Idle EXCEPT !.pc = "lock", !.op = op,
                                                     !.token = t, !.base = base]]
  BY DEF Ask
<1> DEFINE r == [Idle EXCEPT !.pc = "lock", !.op = op, !.token = t, !.base = base]
<1>2. r \in Process /\ r.pc = "lock" /\ r.op = op /\ r.token = t
  <2>1. Idle \in Process
    BY ConstantsAssumption DEF Idle, Process, PCs, Docs
  <2>2. Idle \in [pc : PCs, op : {"none", "apply", "confirm", "rollback", "expire"},
                  token : 0 .. MaxToken, base : Docs, then : {"none", "base", "end", "reload"}]
    BY <2>1 DEF Process
  <2>3. "lock" \in PCs /\ t \in 0 .. MaxToken /\ base \in Docs
    BY ConstantsAssumption DEF PCs, Tokens, TypeOK
  <2>4. r.pc = "lock" /\ r.op = op /\ r.token = t
    BY <2>2
  <2> QED
    BY <2>2, <2>3, <2>4 DEF Process
<1>3. proc' = [proc EXCEPT ![p] = r]
  BY <1>1
<1> HIDE DEF r
<1>4. /\ proc' \in [Procs -> Process] /\ proc'[p] = r
      /\ \A q \in Procs : q # p => proc'[q] = proc[q]
  BY <1>2, <1>3, TokenFacts DEF TypeOK
<1>5. proc[p].pc = "idle"
  BY <1>1 DEF Idle
<1>6. UNCHANGED <<files, shown, armed, lock, preview, base, kept, unseen, failed, faults>>
  BY DEF Ask
<1> QED
  BY <1>1, <1>2, <1>4, <1>5, <1>6 DEF Asked

(* A process that waits for the lock has done nothing; a new token is new. *)
LEMMA AskedStep ==
  ASSUME IInv, NEW p \in Helpers, Asked(p)  PROVE IInv'
<1> USE DEF IInv
<1>1. /\ saved' = saved /\ trial' = trial /\ state' = state /\ kept' = kept
      /\ unseen' = unseen /\ failed' = failed /\ faults' = faults
      /\ shown' = shown /\ armed' = armed /\ lock' = lock
  BY DEF Asked, files
<1>2. preview' = preview /\ base' = base /\ busy' = p
  BY DEF Asked
<1>3. /\ proc' \in [Procs -> Process]
      /\ proc'[p].pc = "lock" /\ proc'[p].token \in Tokens
      /\ \A q \in Procs : q # p => proc'[q] = proc[q]
  BY DEF Asked
<1>4. /\ next \in Nat /\ next' \in Nat /\ next <= next'
      /\ proc'[p].token \in Nat /\ proc'[p].token < next'
  <2>1. next \in Nat /\ (next' = next \/ next' = next + 1)
    BY TypeFacts DEF Asked
  <2>2. proc'[p].token \in Nat
    <3>1. proc'[p].token \in Tokens
      BY DEF Asked
    <3> QED
      BY <3>1, TokenFacts
  <2>3. \/ proc'[p].token = next /\ next' = next + 1
        \/ proc'[p].token < next /\ next' = next
    BY DEF Asked
  <2> QED
    BY <2>1, <2>2, <2>3
<1>5. /\ \A x \in Nat : x < next => x < next'
      /\ \A q \in Procs : proc[q].token \in Nat
  BY TypeFacts, <1>4
<1>6. \/ proc'[p].op = "apply" /\ proc'[p].token = next /\ next' = next + 1
      \/ proc'[p].op \in {"confirm", "rollback"} /\ proc'[p].token < next /\ next' = next
  BY DEF Asked
<1>7. p \in Procs /\ p \notin Tokens /\ proc[p].pc = "idle" /\ proc[p].op = "none"
  BY TokenFacts DEF Asked, Shapes, Shape
<1>8. TypeOK'
  BY ConstantsAssumption, <1>1, <1>2, <1>3, <1>6 DEF TypeOK, Tokens
<1>9. LockHeld'
  BY <1>1, <1>3, <1>7 DEF LockHeld, Inside
<1>10. Shapes'
  BY <1>3, <1>4, <1>5, <1>6, <1>7 DEF Shapes, Shape
<1>11. TokensKnown'
  <2>1. \A t \in armed \cup kept : t \in Nat
    BY TokenFacts, TypeFacts
  <2>2. /\ shown \in Tokens => shown \in Nat
        /\ trial # None => trial \in Nat
        /\ state # None => state.token \in Nat
        /\ preview \in Nat
    <3>1. (trial # None => trial \in Tokens) /\ preview \in 0 .. MaxToken
      BY DEF TypeOK
    <3>2. preview \in Nat
      BY <3>1, ConstantsAssumption
    <3> QED
      BY <3>1, <3>2, TokenFacts, TypeFacts
  <2>3. /\ \A t \in armed \cup kept : t < next'
        /\ shown \in Tokens => shown < next'
        /\ trial # None => trial < next'
        /\ state # None => state.token < next'
        /\ preview < next'
    BY <2>1, <2>2, <1>5 DEF TokensKnown
  <2> QED
    BY <2>3, <1>1, <1>1, <1>1, <1>2, <1>1, <1>4 DEF TokensKnown
<1>12. AppliesApart'
  BY TypeFacts, <1>3, <1>6 DEF AppliesApart, Shapes, Shape
<1>13. AppliesNew'
  BY TokenFacts, TypeFacts, <1>1, <1>3, <1>6 DEF AppliesNew, New, Unshown, Unarmed,
     Unwritten, TokensKnown, Shapes, Shape
<1>14. Disk'
  BY <1>1, <1>3 DEF Disk, OnDisk
<1>15. TimersIdle'
  BY TokenFacts, TypeFacts, <1>1, <1>3 DEF TimersIdle
<1>16. ArmedFirst'
  <2> SUFFICES ASSUME NEW q \in Procs, proc'[q].pc = "eval"
               PROVE  LET t == proc[q].token
                      IN t \in armed' \/ proc'[t].pc # "idle" \/ t \in failed'
    BY <1>3, <1>6 DEF ArmedFirst
  <2>1. q # p /\ proc[q].pc = "eval" /\ proc[q].token \in Tokens
    BY <1>3, <1>6, <1>7 DEF Shapes, Shape
  <2> QED
    BY <2>1, <1>3, <1>6, <1>6, <1>7, <1>1, <1>1, TokenFacts DEF ArmedFirst
<1>17. Guarded'
  BY TokenFacts, <1>1, <1>3, <1>7 DEF Guarded, At, Ending
<1>18. ShownOnDisk'
  BY <1>1, <1>3, <1>7 DEF ShownOnDisk
<1>19. KeptEnds'
  BY <1>1, <1>3, <1>7 DEF KeptEnds
<1>20. ShownIsKnown'
  BY <1>1, <1>3, <1>7 DEF ShownIsKnown
<1>21. TrialIsShown'
  BY <1>1, <1>3, <1>7 DEF TrialIsShown, LockHeld, Inside
<1> QED
  BY <1>8, <1>9, <1>10, <1>11, <1>12, <1>13, <1>14, <1>15, <1>16, <1>17, <1>18, <1>19,
     <1>20, <1>21

(* Process p gives up before it has changed anything: an expiry, because   *)
(* its trial is not the one on disk.                                       *)
Quits(p) ==
    /\ proc[p].pc \in {"lock", "base"} /\ End(p, FALSE)
    /\ p \in Tokens => (state = None \/ state.token # p)
    /\ UNCHANGED <<files, shown, armed, next, kept, unseen, failed, faults>>

(* A process that gives up leaves the trial to those that guard it.        *)
LEMMA QuitsStep ==
  ASSUME IInv, NEW p \in Procs, Quits(p)  PROVE IInv'
<1> USE DEF IInv
<1>1. /\ proc[p].pc \in {"lock", "base"} /\ proc[p].token \in Tokens /\ proc[p].token < next
      /\ p \in Tokens => (state = None \/ state.token # p)
  BY DEF Quits, Shapes, Shape
<1>2. proc' \in [Procs -> Process] /\ lock' = IF lock = p THEN None ELSE lock
  BY EndEffect DEF Quits
<1>3. /\ proc'[p].pc = "idle" /\ proc'[p].op = "none" /\ proc'[p].token = 0
      /\ \A q \in Procs : q # p => proc'[q] = proc[q]
  BY EndEffect DEF Quits
<1>4. /\ preview' \in {0, preview, proc[p].token}
      /\ base' = base /\ busy' \in {busy, None}
  BY EndEffect DEF Quits
<1>5. /\ saved' = saved /\ trial' = trial /\ state' = state /\ next' = next
      /\ kept' = kept /\ unseen' = unseen /\ failed' = failed /\ faults' = faults
      /\ shown' = shown /\ armed' = armed
  BY DEF Quits, files
<1>6. TypeOK'
  BY ConstantsAssumption, <1>1, <1>2, <1>4, <1>5 DEF TypeOK, Tokens
<1>7. LockHeld'
  BY NoneFacts, <1>2, <1>3 DEF LockHeld, Inside
<1>8. Shapes'
  BY <1>3, <1>5 DEF Shapes, Shape
<1>9. TokensKnown'
  BY TypeFacts, <1>1, <1>4, <1>5 DEF TokensKnown
<1>10. AppliesApart'
  BY <1>3 DEF AppliesApart
<1>11. AppliesNew'
  BY TokenFacts, TypeFacts, <1>3, <1>5 DEF AppliesNew, New, Unshown, Unarmed,
     Unwritten, Shapes, Shape
<1>12. Disk'
  BY <1>3, <1>5 DEF Disk, OnDisk
<1>13. TimersIdle'
  BY TokenFacts, TypeFacts, <1>3, <1>5 DEF TimersIdle
<1>14. ArmedFirst'
  <2> SUFFICES ASSUME NEW q \in Procs, proc'[q].pc = "eval"
               PROVE  LET t == proc[q].token
                      IN t \in armed' \/ proc'[t].pc # "idle" \/ t \in failed'
    BY <1>3 DEF ArmedFirst
  <2>1. q # p /\ proc[q].pc = "eval" /\ proc[q].token \in Tokens
    BY <1>3 DEF Shapes, Shape
  <2>2. proc[q].token # p
    BY <2>1, <1>1 DEF Disk, OnDisk
  <2> QED
    BY <2>1, <2>2, <1>3, <1>5, <1>5, TokenFacts DEF ArmedFirst
<1>15. Guarded'
  <2> SUFFICES ASSUME shown' \in Tokens, shown' \notin kept, shown' \notin failed'
               PROVE  \/ shown' \in armed' \/ proc'[shown'].pc # "idle"
                      \/ \E q \in Helpers : proc'[q].pc \in Ending /\ proc'[q].token = shown'
    BY <1>5 DEF Guarded, At
  <2>1. shown \in Tokens /\ shown \notin kept \cup failed /\ shown' = shown
    BY <1>5, <1>5
  <2>2. CASE shown \in armed
    BY <2>1, <2>2, <1>5
  <2>3. CASE proc[shown].pc # "idle" /\ shown # p
    BY <2>1, <2>3, <1>3, TokenFacts
  <2>4. CASE shown = p
    <3>1. PICK q \in Procs : proc[q].pc = "reload" /\ proc[q].token = shown
      BY <2>1, <2>4, <1>1 DEF ShownOnDisk
    <3>2. q # p /\ q \in Helpers
      BY <3>1, <2>4, <1>1, TokenFacts DEF Shapes, Shape
    <3> QED
      BY <3>1, <3>2, <1>3, <2>1, TokenFacts DEF Ending
  <2>5. ASSUME NEW q \in Helpers, proc[q].pc \in Ending, proc[q].token = shown
        PROVE  proc'[q].pc \in Ending /\ proc'[q].token = shown
    BY <2>5, <1>3, <1>1, TokenFacts DEF Ending
  <2> QED
    BY <2>1, <2>2, <2>3, <2>4, <2>5 DEF Guarded, At
<1>16. ShownOnDisk'
  BY <1>1, <1>3, <1>5 DEF ShownOnDisk
<1>17. KeptEnds'
  BY <1>1, <1>3, <1>5 DEF KeptEnds
<1>18. ShownIsKnown'
  BY <1>1, <1>3, <1>5 DEF ShownIsKnown
<1>19. TrialIsShown'
  BY <1>1, <1>3, <1>5 DEF TrialIsShown, LockHeld, Inside, Disk, OnDisk
<1> QED
  BY <1>6, <1>7, <1>8, <1>9, <1>10, <1>11, <1>12, <1>13, <1>14, <1>15, <1>16, <1>17,
     <1>18, <1>19

(* Process p takes the lock: apply with no trial on disk or a stale one,   *)
(* confirm, rollback and expire with their own.                            *)
Enters(p) ==
    LET t == proc[p].token
    IN /\ proc[p].pc = "lock" /\ lock = None /\ lock' = p
       /\ proc' \in [Procs -> Process]
       /\ proc'[p].op = proc[p].op /\ proc'[p].token = t
       /\ \A q \in Procs : q # p => proc'[q] = proc[q]
       /\ \/ proc'[p].pc = "base" /\ proc[p].op = "apply" /\ state = None
          \/ /\ proc'[p].pc = "clear" /\ proc'[p].then = "base" /\ proc[p].op = "apply"
             /\ state # None /\ state.age = "stale"
          \/ /\ proc'[p].pc = "disarm" /\ proc[p].op \in {"confirm", "rollback"}
             /\ state # None /\ state.token = t
          \/ /\ proc'[p].pc = "clear" /\ proc'[p].then = "reload" /\ proc[p].op = "expire"
             /\ state # None /\ state.token = t
       /\ UNCHANGED <<files, shown, armed, next, page, kept, unseen, failed, faults>>

(* A process inside the lock found the trial it wants.                     *)
LEMMA EntersStep ==
  ASSUME IInv, NEW p \in Procs, Enters(p)  PROVE IInv'
<1> USE DEF IInv
<1>1. /\ proc[p].pc = "lock" /\ proc[p].token \in Tokens /\ proc[p].token < next
  BY DEF Enters, Shapes, Shape
<1>2. lock = None /\ lock' = p
  BY DEF Enters
<1>3. /\ proc' \in [Procs -> Process]
      /\ proc'[p].op = proc[p].op /\ proc'[p].token = proc[p].token
      /\ \A q \in Procs : q # p => proc'[q] = proc[q]
  BY DEF Enters
<1>4. \/ proc'[p].pc = "base" /\ proc[p].op = "apply" /\ state = None
      \/ /\ proc'[p].pc = "clear" /\ proc'[p].then = "base" /\ proc[p].op = "apply"
         /\ state # None /\ state.age = "stale"
      \/ /\ proc'[p].pc = "disarm" /\ proc[p].op \in {"confirm", "rollback"}
         /\ state # None /\ state.token = proc[p].token
      \/ /\ proc'[p].pc = "clear" /\ proc'[p].then = "reload" /\ proc[p].op = "expire"
         /\ state # None /\ state.token = proc[p].token
  BY DEF Enters
<1>5. /\ saved' = saved /\ trial' = trial /\ state' = state /\ next' = next
      /\ kept' = kept /\ unseen' = unseen /\ failed' = failed /\ faults' = faults
      /\ shown' = shown /\ armed' = armed /\ preview' = preview /\ base' = base
      /\ busy' = busy
  BY DEF Enters, files, page
<1>6. TypeOK'
  BY <1>2, <1>3, <1>5 DEF TypeOK
<1>7. LockHeld'
  BY NoneFacts, <1>2, <1>3, <1>4 DEF LockHeld, Inside
<1>8. Shapes'
  BY <1>3, <1>4, <1>5 DEF Shapes, Shape
<1>9. TokensKnown'
  BY <1>5 DEF TokensKnown
<1>10. AppliesApart'
  BY <1>3 DEF AppliesApart
<1>11. AppliesNew'
  BY TokenFacts, TypeFacts, <1>1, <1>3, <1>4, <1>5 DEF AppliesNew, New, Unshown, Unarmed,
     Unwritten, AppliesApart, TokensKnown, Shapes, Shape
<1>12. Disk'
  BY <1>3, <1>4, <1>5 DEF Disk, OnDisk
<1>13. TimersIdle'
  BY TokenFacts, TypeFacts, <1>1, <1>3, <1>5 DEF TimersIdle
<1>14. ArmedFirst'
  <2> SUFFICES ASSUME NEW q \in Procs, proc'[q].pc = "eval"
               PROVE  LET t == proc[q].token
                      IN t \in armed' \/ proc'[t].pc # "idle" \/ t \in failed'
    BY <1>3, <1>4 DEF ArmedFirst
  <2>1. q # p /\ proc[q].pc = "eval" /\ proc[q].token \in Tokens
    BY <1>3, <1>1, <1>4 DEF Shapes, Shape
  <2> QED
    BY <2>1, <1>3, <1>4, <1>1, <1>4, <1>5, <1>5, TokenFacts DEF ArmedFirst
<1>15. Guarded'
  BY TokenFacts, <1>1, <1>3, <1>4, <1>5 DEF Guarded, At, Ending
<1>16. ShownOnDisk'
  BY <1>1, <1>3, <1>5 DEF ShownOnDisk
<1>17. KeptEnds'
  BY <1>1, <1>3, <1>5 DEF KeptEnds
<1>18. ShownIsKnown'
  BY <1>1, <1>3, <1>5 DEF ShownIsKnown
<1>19. TrialIsShown'
  BY <1>3, <1>4, <1>5 DEF TrialIsShown, LockHeld, Inside
<1> QED
  BY <1>6, <1>7, <1>8, <1>9, <1>10, <1>11, <1>12, <1>13, <1>14, <1>15, <1>16, <1>17,
     <1>18, <1>19

(* The saved rules are those the page has read: the candidate is next.     *)
LEMMA CandidateStep ==
  ASSUME IInv, NEW p \in Procs, Goes(p, "candidate"), proc[p].pc = "base",
         UNCHANGED <<files, shown, armed, next, kept, unseen, failed, faults>>
  PROVE  IInv'
<1> USE DEF IInv
<1>1. proc[p].token \in Tokens /\ proc[p].token < next
  BY DEF At, Shapes, Shape
<1>2. /\ proc' \in [Procs -> Process]
      /\ proc'[p].pc = "candidate" /\ proc'[p].op = proc[p].op
      /\ proc'[p].token = proc[p].token /\ proc'[p].then = proc[p].then
      /\ \A q \in Procs : q # p => proc'[q] = proc[q]
  BY GoEffect DEF Goes, PCs
<1>3. /\ saved' = saved /\ trial' = trial /\ state' = state /\ next' = next
      /\ kept' = kept /\ unseen' = unseen /\ failed' = failed /\ faults' = faults
      /\ shown' = shown /\ armed' = armed /\ lock' = lock /\ preview' = preview
      /\ base' = base /\ busy' = busy
  BY DEF Goes, files, page
<1>4. TypeOK'
  BY <1>2, <1>3 DEF TypeOK
<1>5. LockHeld'
  BY <1>2, <1>3 DEF LockHeld, Inside
<1>6. Shapes'
  BY <1>2 DEF Shapes, Shape
<1>7. TokensKnown'
  BY <1>3 DEF TokensKnown
<1>8. AppliesApart'
  BY <1>2 DEF AppliesApart
<1>9. AppliesNew'
  BY TokenFacts, TypeFacts, <1>2, <1>3 DEF AppliesNew, New, Unshown, Unarmed,
     Unwritten, Shapes, Shape
<1>10. Disk'
  BY <1>2, <1>3 DEF Disk, OnDisk
<1>11. TimersIdle'
  BY TokenFacts, TypeFacts, <1>2 DEF TimersIdle
<1>12. ArmedFirst'
  <2> SUFFICES ASSUME NEW q \in Procs, proc'[q].pc = "eval"
               PROVE  LET t == proc[q].token
                      IN t \in armed' \/ proc'[t].pc # "idle" \/ t \in failed'
    BY <1>2 DEF ArmedFirst
  <2>1. q # p /\ proc[q].pc = "eval" /\ proc[q].token \in Tokens
    BY <1>2, <1>1 DEF Shapes, Shape
  <2> QED
    BY <2>1, <1>2, <1>1, <1>3, <1>3, TokenFacts DEF ArmedFirst
<1>13. Guarded'
  BY DEF Guarded, ShownOnDisk, LockHeld, Inside, Disk, OnDisk
<1>14. ShownOnDisk'
  BY <1>2, <1>3 DEF ShownOnDisk
<1>15. KeptEnds'
  BY <1>2, <1>3 DEF KeptEnds
<1>16. ShownIsKnown'
  BY <1>2, <1>3 DEF ShownIsKnown
<1>17. TrialIsShown'
  BY <1>3 DEF TrialIsShown, Disk, OnDisk
<1> QED
  BY <1>4, <1>5, <1>6, <1>7, <1>8, <1>9, <1>10, <1>11, <1>12, <1>13, <1>14, <1>15,
     <1>16, <1>17

(* confirm keeps the trial whose candidate it has found, or undoes it.     *)
LEMMA CheckStep ==
  ASSUME IInv, NEW p \in Procs, Check(p)  PROVE IInv'
<1> USE DEF IInv
<1>1. /\ proc[p].pc = "check" /\ proc[p].op = "confirm" /\ proc[p].then = "reload"
      /\ proc[p].token \in Tokens /\ proc[p].token < next
  BY DEF Check, At, Shapes, Shape
<1>2. proc'[p].pc = "clear" \/ (proc'[p].pc = "save" /\ trial # None)
  BY GoEffect DEF Check, Goes, PCs
<1>3. /\ proc' \in [Procs -> Process]
      /\ proc'[p].pc = proc'[p].pc /\ proc'[p].op = proc[p].op
      /\ proc'[p].token = proc[p].token /\ proc'[p].then = proc[p].then
      /\ \A q \in Procs : q # p => proc'[q] = proc[q]
  BY GoEffect DEF Check, Goes, PCs
<1>4. /\ saved' = saved /\ trial' = trial /\ state' = state /\ next' = next
      /\ kept' = kept /\ unseen' = unseen /\ failed' = failed /\ faults' = faults
      /\ shown' = shown /\ armed' = armed /\ lock' = lock /\ preview' = preview
      /\ base' = base /\ busy' = busy
  BY DEF Check, Goes, files, page
<1>5. TypeOK'
  BY <1>3, <1>4 DEF TypeOK
<1>6. LockHeld'
  BY <1>1, <1>2, <1>3, <1>4 DEF LockHeld, Inside
<1>7. Shapes'
  BY <1>1, <1>2, <1>3, <1>4 DEF Shapes, Shape
<1>8. TokensKnown'
  BY <1>4 DEF TokensKnown
<1>9. AppliesApart'
  BY <1>3 DEF AppliesApart
<1>10. AppliesNew'
  BY TokenFacts, TypeFacts, <1>1, <1>2, <1>3, <1>4 DEF AppliesNew, New, Unshown, Unarmed,
     Unwritten, AppliesApart, TokensKnown, Shapes, Shape, LockHeld, Inside, Disk, OnDisk
<1>11. Disk'
  BY <1>1, <1>2, <1>3, <1>4 DEF Disk, OnDisk
<1>12. TimersIdle'
  BY TokenFacts, TypeFacts, <1>1, <1>3, <1>4 DEF TimersIdle
<1>13. ArmedFirst'
  <2> SUFFICES ASSUME NEW q \in Procs, proc'[q].pc = "eval"
               PROVE  LET t == proc[q].token
                      IN t \in armed' \/ proc'[t].pc # "idle" \/ t \in failed'
    BY <1>2, <1>3 DEF ArmedFirst
  <2>1. q # p /\ proc[q].pc = "eval" /\ proc[q].token \in Tokens
    BY <1>3, <1>1, <1>2 DEF Shapes, Shape
  <2> QED
    BY <2>1, <1>2, <1>3, <1>1, <1>2, <1>4, <1>4, TokenFacts DEF ArmedFirst
<1>14. Guarded'
  BY TokenFacts, <1>2, <1>3, <1>4 DEF Guarded, At, Ending
<1>15. ShownOnDisk'
  BY <1>1, <1>3, <1>4 DEF ShownOnDisk
<1>16. KeptEnds'
  BY <1>1, <1>3, <1>4 DEF KeptEnds
<1>17. ShownIsKnown'
  BY <1>1, <1>3, <1>4 DEF ShownIsKnown
<1>18. TrialIsShown'
  BY <1>2, <1>3, <1>4 DEF TrialIsShown, LockHeld, Inside
<1> QED
  BY <1>5, <1>6, <1>7, <1>8, <1>9, <1>10, <1>11, <1>12, <1>13, <1>14, <1>15, <1>16,
     <1>17, <1>18

(* The candidate is written while no state names a trial.                  *)
LEMMA WriteCandidateStep ==
  ASSUME IInv, NEW p \in Procs, WriteCandidate(p)  PROVE IInv'
<1> USE DEF IInv
<1>1. /\ proc[p].pc = "candidate" /\ proc[p].op = "apply"
      /\ proc[p].token \in Tokens /\ proc[p].token < next
  BY DEF WriteCandidate, At, Shapes, Shape
<1>2. /\ proc' \in [Procs -> Process]
      /\ proc'[p].pc = "state" /\ proc'[p].op = proc[p].op
      /\ proc'[p].token = proc[p].token /\ proc'[p].then = proc[p].then
      /\ \A q \in Procs : q # p => proc'[q] = proc[q]
  BY GoEffect DEF WriteCandidate, Goes, PCs
<1>3. trial' = proc[p].token /\ saved' = saved /\ state' = state
  BY DEF WriteCandidate
<1>4. /\ next' = next /\ kept' = kept /\ unseen' = unseen /\ failed' = failed
      /\ faults' = faults /\ shown' = shown /\ armed' = armed /\ lock' = lock
      /\ preview' = preview /\ base' = base /\ busy' = busy
  BY DEF WriteCandidate, Goes, page
<1>5. TypeOK'
  BY <1>1, <1>2, <1>3, <1>4 DEF TypeOK
<1>6. LockHeld'
  BY <1>1, <1>2, <1>4 DEF LockHeld, Inside
<1>7. Shapes'
  BY <1>1, <1>2, <1>4 DEF Shapes, Shape
<1>8. TokensKnown'
  BY <1>1, <1>3, <1>4 DEF TokensKnown
<1>9. AppliesApart'
  BY <1>2 DEF AppliesApart
<1>10. AppliesNew'
  BY TokenFacts, TypeFacts, <1>1, <1>2, <1>3, <1>4 DEF AppliesNew, New, Unshown, Unarmed,
     Unwritten, AppliesApart, TokensKnown, Shapes, Shape, LockHeld, Inside, Disk, OnDisk
<1>11. Disk'
  BY <1>1, <1>2, <1>3 DEF Disk, OnDisk, LockHeld, Inside
<1>12. TimersIdle'
  BY TokenFacts, TypeFacts, <1>1, <1>2, <1>4 DEF TimersIdle
<1>13. ArmedFirst'
  <2> SUFFICES ASSUME NEW q \in Procs, proc'[q].pc = "eval"
               PROVE  LET t == proc[q].token
                      IN t \in armed' \/ proc'[t].pc # "idle" \/ t \in failed'
    BY <1>2 DEF ArmedFirst
  <2>1. q # p /\ proc[q].pc = "eval" /\ proc[q].token \in Tokens
    BY <1>2, <1>1 DEF Shapes, Shape
  <2> QED
    BY <2>1, <1>2, <1>1, <1>4, <1>4, TokenFacts DEF ArmedFirst
<1>14. Guarded'
  BY <1>1, <1>4 DEF Guarded, ShownOnDisk, LockHeld, Inside, Disk, OnDisk
<1>15. ShownOnDisk'
  BY <1>1, <1>2, <1>3, <1>4 DEF ShownOnDisk
<1>16. KeptEnds'
  BY <1>1, <1>2, <1>3, <1>4 DEF KeptEnds
<1>17. ShownIsKnown'
  BY <1>1, <1>2, <1>3, <1>4 DEF ShownIsKnown
<1>18. TrialIsShown'
  BY <1>1, <1>3 DEF TrialIsShown, Disk, OnDisk
<1> QED
  BY <1>5, <1>6, <1>7, <1>8, <1>9, <1>10, <1>11, <1>12, <1>13, <1>14, <1>15, <1>16,
     <1>17, <1>18

(* The state names a trial that was not there and whose token is new.      *)
LEMMA WriteStateStep ==
  ASSUME IInv, NEW p \in Procs, WriteState(p)  PROVE IInv'
<1> USE DEF IInv
<1>1. /\ proc[p].pc = "state" /\ proc[p].op = "apply"
      /\ proc[p].token \in Tokens /\ proc[p].token < next
  BY DEF WriteState, At, Shapes, Shape
<1>2. /\ proc' \in [Procs -> Process]
      /\ proc'[p].pc = "arm" /\ proc'[p].op = proc[p].op
      /\ proc'[p].token = proc[p].token /\ proc'[p].then = proc[p].then
      /\ \A q \in Procs : q # p => proc'[q] = proc[q]
  BY GoEffect DEF WriteState, Goes, PCs
<1>3. trial' = trial /\ saved' = saved
      /\ state' \in Trial /\ state' # None /\ state'.token = proc[p].token /\ state'.age = "fresh"
  <2>1. proc[p] \in Process
    BY DEF TypeOK
  <2>2. proc[p].base \in Docs
    BY <2>1 DEF Process
  <2>3. state' = [token |-> proc[p].token, age |-> "fresh", base |-> proc[p].base]
    BY DEF WriteState
  <2> QED
    BY <2>2, <2>3, <1>1, NoneFacts DEF Trial, WriteState
<1>4. state = None /\ lock = p
  BY DEF WriteState, At, Disk, OnDisk, LockHeld, Inside
<1>5. /\ next' = next /\ kept' = kept /\ unseen' = unseen /\ failed' = failed
      /\ faults' = faults /\ shown' = shown /\ armed' = armed /\ lock' = lock
      /\ preview' = preview /\ base' = base /\ busy' = busy
  BY DEF WriteState, Goes, page
<1>6. TypeOK'
  BY <1>2, <1>3, <1>5 DEF TypeOK
<1>7. LockHeld'
  BY <1>2, <1>4, <1>5 DEF LockHeld, Inside
<1>8. Shapes'
  BY <1>1, <1>2, <1>5 DEF Shapes, Shape
<1>9. TokensKnown'
  BY <1>1, <1>3, <1>5 DEF TokensKnown
<1>10. AppliesApart'
  BY <1>2 DEF AppliesApart
<1>11. AppliesNew'
  BY TokenFacts, TypeFacts, <1>1, <1>2, <1>3, <1>5 DEF AppliesNew, New, Unshown, Unarmed,
     Unwritten, AppliesApart, Shapes, Shape, Disk, OnDisk
<1>12. Disk'
  BY <1>1, <1>2, <1>3 DEF Disk, OnDisk, LockHeld, Inside
<1>13. TimersIdle'
  BY TokenFacts, TypeFacts, <1>1, <1>2, <1>5 DEF TimersIdle
<1>14. ArmedFirst'
  <2> SUFFICES ASSUME NEW q \in Procs, proc'[q].pc = "eval"
               PROVE  LET t == proc[q].token
                      IN t \in armed' \/ proc'[t].pc # "idle" \/ t \in failed'
    BY <1>2 DEF ArmedFirst
  <2>1. q # p /\ proc[q].pc = "eval" /\ proc[q].token \in Tokens
    BY <1>2, <1>1, <1>4 DEF Shapes, Shape
  <2> QED
    BY <2>1, <1>2, <1>1, <1>4, <1>5, <1>5, TokenFacts DEF ArmedFirst
<1>15. Guarded'
  BY <1>1, <1>4, <1>5 DEF Guarded, ShownOnDisk, LockHeld, Inside
<1>16. ShownOnDisk'
  BY <1>2, <1>3, <1>4, <1>5 DEF ShownOnDisk
<1>17. KeptEnds'
  BY <1>1, <1>3, <1>5 DEF KeptEnds, AppliesNew, New, Unshown, Unarmed, Unwritten
<1>18. ShownIsKnown'
  BY <1>1, <1>2, <1>3, <1>4, <1>5 DEF ShownIsKnown
<1>19. TrialIsShown'
  BY <1>1, <1>2, <1>3 DEF TrialIsShown, LockHeld, Inside
<1> QED
  BY <1>6, <1>7, <1>8, <1>9, <1>10, <1>11, <1>12, <1>13, <1>14, <1>15, <1>16, <1>17,
     <1>18, <1>19

(* The timer runs: the candidate may be shown.                             *)
LEMMA ArmStep ==
  ASSUME IInv, NEW p \in Procs, At(p, "arm"), armed' = armed \cup {proc[p].token},
         Goes(p, "eval"), NoFault, UNCHANGED <<files, shown, next, kept>>
  PROVE  IInv'
<1> USE DEF IInv
<1>1. /\ proc[p].pc = "arm" /\ proc[p].op = "apply"
      /\ proc[p].token \in Tokens /\ proc[p].token < next
  BY DEF At, Shapes, Shape
<1>2. /\ proc' \in [Procs -> Process]
      /\ proc'[p].pc = "eval" /\ proc'[p].op = proc[p].op
      /\ proc'[p].token = proc[p].token /\ proc'[p].then = proc[p].then
      /\ \A q \in Procs : q # p => proc'[q] = proc[q]
  BY GoEffect DEF Goes, PCs
<1>3. armed' = armed \cup {proc[p].token}
  OBVIOUS
<1>4. proc[proc[p].token].pc = "idle" /\ proc[p].token \in Procs
  BY TokenFacts, <1>1 DEF AppliesNew, New, Unarmed
<1>5. /\ saved' = saved /\ trial' = trial /\ state' = state /\ next' = next
      /\ kept' = kept /\ unseen' = unseen /\ failed' = failed /\ faults' = faults
      /\ shown' = shown /\ lock' = lock /\ preview' = preview /\ base' = base
      /\ busy' = busy
  BY DEF NoFault, Goes, files, page
<1>6. TypeOK'
  BY <1>1, <1>2, <1>5 DEF TypeOK
<1>7. LockHeld'
  BY <1>1, <1>2, <1>5 DEF LockHeld, Inside
<1>8. Shapes'
  BY <1>1, <1>2 DEF Shapes, Shape
<1>9. TokensKnown'
  BY <1>1, <1>5 DEF TokensKnown
<1>10. AppliesApart'
  BY <1>2 DEF AppliesApart
<1>11. AppliesNew'
  BY TokenFacts, TypeFacts, <1>1, <1>2, <1>5 DEF AppliesNew, New, Unshown, Unarmed,
     Unwritten, AppliesApart, Shapes, Shape
<1>12. Disk'
  BY <1>1, <1>2, <1>5 DEF Disk, OnDisk
<1>13. TimersIdle'
  BY TokenFacts, TypeFacts, <1>1, <1>2, <1>4 DEF TimersIdle
<1>14. ArmedFirst'
  <2> SUFFICES ASSUME NEW q \in Procs, proc'[q].pc = "eval"
               PROVE  LET t == proc[q].token
                      IN t \in armed' \/ proc'[t].pc # "idle" \/ t \in failed'
    BY <1>2 DEF ArmedFirst
  <2>1. CASE q = p
    BY <2>1, <1>3
  <2>2. CASE q # p
    BY <2>2, <1>2, <1>1, NoneFacts DEF LockHeld, Inside
  <2> QED
    BY <2>1, <2>2
<1>15. Guarded'
  BY <1>1, <1>5 DEF Guarded, ShownOnDisk, Disk, OnDisk
<1>16. ShownOnDisk'
  BY <1>1, <1>2, <1>5 DEF ShownOnDisk
<1>17. KeptEnds'
  BY <1>1, <1>2, <1>5 DEF KeptEnds
<1>18. ShownIsKnown'
  BY <1>1, <1>2, <1>5 DEF ShownIsKnown
<1>19. TrialIsShown'
  BY <1>2, <1>5 DEF TrialIsShown, LockHeld, Inside
<1> QED
  BY <1>6, <1>7, <1>8, <1>9, <1>10, <1>11, <1>12, <1>13, <1>14, <1>15, <1>16, <1>17,
     <1>18, <1>19

(* The timer cannot be had: the trial is taken back, nothing was shown.    *)
LEMMA RefusedArmStep ==
  ASSUME IInv, NEW p \in Procs, At(p, "arm"), Fault,
         proc' = [proc EXCEPT ![p].pc = "clear", ![p].then = "end"],
         UNCHANGED <<files, shown, armed, next, kept, unseen, failed, lock, page>>
  PROVE  IInv'
<1> USE DEF IInv
<1>1. /\ proc[p].pc = "arm" /\ proc[p].op = "apply"
      /\ proc[p].token \in Tokens /\ proc[p].token < next
  BY DEF At, Shapes, Shape
<1>2. /\ proc' \in [Procs -> Process]
      /\ proc'[p].pc = "clear" /\ proc'[p].op = proc[p].op
      /\ proc'[p].token = proc[p].token /\ proc'[p].then = "end"
      /\ \A q \in Procs : q # p => proc'[q] = proc[q]
  BY TurnEffect DEF PCs
<1>3. faults' \in 0 .. MaxFault
  BY ConstantsAssumption DEF Fault, TypeOK
<1>4. /\ saved' = saved /\ trial' = trial /\ state' = state /\ next' = next
      /\ kept' = kept /\ unseen' = unseen /\ failed' = failed /\ shown' = shown
      /\ armed' = armed /\ lock' = lock /\ preview' = preview /\ base' = base
      /\ busy' = busy
  BY DEF files, page
<1>5. TypeOK'
  BY <1>2, <1>3, <1>4 DEF TypeOK
<1>6. LockHeld'
  BY <1>1, <1>2 DEF LockHeld, Inside
<1>7. Shapes'
  BY <1>1, <1>2 DEF Shapes, Shape
<1>8. TokensKnown'
  BY <1>4 DEF TokensKnown
<1>9. AppliesApart'
  BY <1>2 DEF AppliesApart
<1>10. AppliesNew'
  BY TokenFacts, <1>1, <1>2, <1>4 DEF AppliesNew, New, Unshown, Unarmed, Unwritten,
     Shapes, Shape
<1>11. Disk'
  BY <1>1, <1>2, <1>4 DEF Disk, OnDisk
<1>12. TimersIdle'
  BY TokenFacts, TypeFacts, <1>1, <1>2 DEF TimersIdle
<1>13. ArmedFirst'
  <2> SUFFICES ASSUME NEW q \in Procs, proc'[q].pc = "eval"
               PROVE  LET t == proc[q].token
                      IN t \in armed' \/ proc'[t].pc # "idle" \/ t \in failed'
    BY <1>2 DEF ArmedFirst
  <2>1. q # p /\ proc[q].pc = "eval" /\ proc[q].token \in Tokens
    BY <1>2, <1>1 DEF Shapes, Shape
  <2> QED
    BY <2>1, <1>2, <1>1, <1>4, <1>4, TokenFacts DEF ArmedFirst
<1>14. Guarded'
  BY <1>1 DEF Guarded, ShownOnDisk, AppliesNew, New, Unshown, Unarmed, Unwritten, Disk,
     OnDisk
<1>15. ShownOnDisk'
  BY <1>1, <1>2, <1>4 DEF ShownOnDisk
<1>16. KeptEnds'
  BY <1>2, <1>4 DEF KeptEnds
<1>17. ShownIsKnown'
  BY <1>1, <1>2, <1>4 DEF ShownIsKnown
<1>18. TrialIsShown'
  BY <1>2, <1>4 DEF TrialIsShown, LockHeld, Inside
<1> QED
  BY <1>5, <1>6, <1>7, <1>8, <1>9, <1>10, <1>11, <1>12, <1>13, <1>14, <1>15, <1>16,
     <1>17, <1>18

(* The candidate is on screen, its timer armed, its apply over.            *)
LEMMA ShowStep ==
  ASSUME IInv, NEW p \in Procs, At(p, "eval"), shown' = trial, End(p, TRUE),
         NoFault, UNCHANGED <<files, armed, next, kept>>
  PROVE  IInv'
<1> USE DEF IInv
<1>1. /\ proc[p].pc = "eval" /\ proc[p].op = "apply"
      /\ proc[p].token \in Tokens /\ proc[p].token < next
  BY DEF At, Shapes, Shape
<1>2. proc' \in [Procs -> Process] /\ lock' = IF lock = p THEN None ELSE lock
  BY EndEffect DEF NoFault
<1>3. /\ proc'[p].pc = "idle" /\ proc'[p].op = "none" /\ proc'[p].token = 0
      /\ \A q \in Procs : q # p => proc'[q] = proc[q]
  BY EndEffect DEF NoFault
<1>4. /\ preview' \in {0, preview, proc[p].token}
      /\ base' = base /\ busy' \in {busy, None}
  BY EndEffect DEF NoFault
<1>5. shown' = proc[p].token
  BY DEF At, Disk, OnDisk
<1>6. /\ saved' = saved /\ trial' = trial /\ state' = state /\ next' = next
      /\ kept' = kept /\ unseen' = unseen /\ failed' = failed /\ faults' = faults
      /\ armed' = armed
  BY DEF NoFault, files
<1>7. TypeOK'
  <2>1. shown' \in Docs
    BY TokenFacts, <1>5, <1>1
  <2>2. preview' \in 0 .. MaxToken /\ base' \in Docs /\ busy' \in Helpers \cup {None}
    BY ConstantsAssumption, <1>4, <1>1 DEF TypeOK, Tokens
  <2> QED
    BY <2>1, <2>2, <1>2, <1>6, <1>6, <1>6, <1>6 DEF TypeOK
<1>8. LockHeld'
  BY NoneFacts, <1>2, <1>3 DEF LockHeld, Inside
<1>9. Shapes'
  BY <1>3 DEF Shapes, Shape
<1>10. TokensKnown'
  <2>1. preview' < next
    BY TypeFacts, <1>4, <1>1 DEF TokensKnown
  <2>2. shown' < next
    BY <1>5, <1>1
  <2> QED
    BY <2>1, <2>2, <1>6, <1>6, <1>6 DEF TokensKnown
<1>11. AppliesApart'
  BY <1>3 DEF AppliesApart
<1>12. AppliesNew'
  BY TokenFacts, TypeFacts, <1>1, <1>3, <1>5, <1>6 DEF AppliesNew, New, Unshown,
     Unarmed, Unwritten, AppliesApart, Shapes, Shape
<1>13. Disk'
  <2>1. \A q \in Procs : q # p => proc[q].pc \in {"idle", "lock"}
    BY <1>1, NoneFacts DEF LockHeld, Inside
  <2>2. \A q \in Procs : proc'[q].pc \in {"idle", "lock"}
    BY <2>1, <1>3
  <2> QED
    BY <2>2, <1>6 DEF Disk, OnDisk
<1>14. TimersIdle'
  BY TokenFacts, TypeFacts, <1>3 DEF TimersIdle
<1>15. ArmedFirst'
  <2> SUFFICES ASSUME NEW q \in Procs, proc'[q].pc = "eval" PROVE FALSE
    BY DEF ArmedFirst
  <2>1. q # p /\ proc[q].pc = "eval"
    BY <1>3, <1>2, <1>1
  <2> QED
    BY <2>1, <1>1, NoneFacts DEF LockHeld, Inside
<1>16. Guarded'
  BY TokenFacts, <1>3, <1>5, <1>6 DEF Guarded, At, ArmedFirst, Shapes, Shape
<1>17. ShownOnDisk'
  BY <1>1, <1>6 DEF ShownOnDisk, Disk, OnDisk
<1>18. KeptEnds'
  BY <1>1, <1>3, <1>6 DEF KeptEnds
<1>19. ShownIsKnown'
  BY <1>1, <1>6 DEF ShownIsKnown, Disk, OnDisk
<1>20. TrialIsShown'
  BY <1>1, <1>6 DEF TrialIsShown, Disk, OnDisk
<1> QED
  BY <1>7, <1>8, <1>9, <1>10, <1>11, <1>12, <1>13, <1>14, <1>15, <1>16, <1>17, <1>18,
     <1>19, <1>20

(* The candidate is refused, and may be on screen in part: it is undone.   *)
LEMMA RefusedShowStep ==
  ASSUME IInv, NEW p \in Procs, At(p, "eval"), Fault, shown' \in {shown, trial},
         Goes(p, "disarm"), UNCHANGED <<files, armed, next, kept, unseen, failed>>
  PROVE  IInv'
<1> USE DEF IInv
<1>1. /\ proc[p].pc = "eval" /\ proc[p].op = "apply"
      /\ proc[p].token \in Tokens /\ proc[p].token < next
  BY DEF At, Shapes, Shape
<1>2. /\ proc' \in [Procs -> Process]
      /\ proc'[p].pc = "disarm" /\ proc'[p].op = proc[p].op
      /\ proc'[p].token = proc[p].token /\ proc'[p].then = proc[p].then
      /\ \A q \in Procs : q # p => proc'[q] = proc[q]
  BY GoEffect DEF Goes, PCs
<1>3. shown' = shown \/ shown' = proc[p].token
  BY DEF At, Disk, OnDisk
<1>4. faults' \in 0 .. MaxFault
  BY ConstantsAssumption DEF Fault, TypeOK
<1>5. /\ saved' = saved /\ trial' = trial /\ state' = state /\ next' = next
      /\ kept' = kept /\ unseen' = unseen /\ failed' = failed /\ armed' = armed
      /\ lock' = lock /\ preview' = preview /\ base' = base /\ busy' = busy
  BY DEF Goes, files, page
<1>6. TypeOK'
  BY TokenFacts, <1>1, <1>2, <1>3, <1>4, <1>5 DEF TypeOK
<1>7. LockHeld'
  BY <1>1, <1>2, <1>5 DEF LockHeld, Inside
<1>8. Shapes'
  BY <1>1, <1>2 DEF Shapes, Shape
<1>9. TokensKnown'
  BY <1>1, <1>3, <1>5 DEF TokensKnown
<1>10. AppliesApart'
  BY <1>2 DEF AppliesApart
<1>11. AppliesNew'
  BY TokenFacts, TypeFacts, <1>1, <1>2, <1>3, <1>5 DEF AppliesNew, New, Unshown,
     Unarmed, Unwritten, AppliesApart, Shapes, Shape
<1>12. Disk'
  BY <1>1, <1>2, <1>5 DEF Disk, OnDisk
<1>13. TimersIdle'
  BY TokenFacts, TypeFacts, <1>1, <1>2 DEF TimersIdle
<1>14. ArmedFirst'
  <2> SUFFICES ASSUME NEW q \in Procs, proc'[q].pc = "eval"
               PROVE  LET t == proc[q].token
                      IN t \in armed' \/ proc'[t].pc # "idle" \/ t \in failed'
    BY <1>2 DEF ArmedFirst
  <2>1. q # p /\ proc[q].pc = "eval" /\ proc[q].token \in Tokens
    BY <1>2, <1>1 DEF Shapes, Shape
  <2> QED
    BY <2>1, <1>2, <1>1, <1>5, <1>5, TokenFacts DEF ArmedFirst
<1>15. Guarded'
  BY TokenFacts, <1>2, <1>3 DEF Guarded, At, ArmedFirst, TokensKnown
<1>16. ShownOnDisk'
  BY <1>1, <1>5 DEF ShownOnDisk, Disk, OnDisk
<1>17. KeptEnds'
  BY <1>1, <1>2, <1>5 DEF KeptEnds
<1>18. ShownIsKnown'
  BY <1>1, <1>5 DEF ShownIsKnown, Disk, OnDisk
<1>19. TrialIsShown'
  BY <1>1, <1>2, <1>5 DEF TrialIsShown, LockHeld, Inside, Disk, OnDisk
<1> QED
  BY <1>6, <1>7, <1>8, <1>9, <1>10, <1>11, <1>12, <1>13, <1>14, <1>15, <1>16, <1>17,
     <1>18, <1>19

(* The timer of p's trial and the timer's process are stopped, or go on.   *)
Disarms(p) ==
    LET t == proc[p].token
    IN /\ proc[p].pc = "disarm" /\ proc[p].token \in Tokens /\ armed' \in {armed, armed \ {t}}
       /\ proc' \in [Procs -> Process]
       /\ \/ /\ proc'[t].pc = "idle" /\ proc'[t].op = "none" /\ proc'[t].token = 0
          \/ proc'[t] = proc[t]
       /\ p # t
       /\ proc'[p].pc = IF proc[p].op = "confirm" THEN "check" ELSE "clear"
       /\ proc'[p].op = proc[p].op /\ proc'[p].token = t /\ proc'[p].then = "reload"
       /\ \A q \in Procs : q # p /\ q # t => proc'[q] = proc[q]
       /\ UNCHANGED <<files, shown, lock, page, next, kept, unseen, failed>>
       /\ faults' \in 0 .. MaxFault

(* The calls that stop a timer and its process, as disarm_watchdog has them. *)
Stops(p) ==
    LET t == proc[p].token
    IN /\ At(p, "disarm")
       /\ armed' = armed \ {t}
       /\ proc' = [proc EXCEPT ![t] = Idle,
                               ![p].pc = IF @ = "idle" THEN @ ELSE
                                         IF proc[p].op = "confirm" THEN "check" ELSE "clear",
                               ![p].then = "reload"]
       /\ UNCHANGED <<lock, page>> /\ NoFault
       /\ UNCHANGED <<files, shown, next, kept>>

(* disarm_watchdog stops the timer of the trial and goes on.               *)
LEMMA DisarmEffect ==
  ASSUME TypeOK, Shapes, NEW p \in Procs, Stops(p)
  PROVE  Disarms(p)
<1> DEFINE t == proc[p].token
           x == IF proc[p].op = "confirm" THEN "check" ELSE "clear"
           r == [proc[p] EXCEPT !.pc = x, !.then = "reload"]
<1>1. p # t /\ t \in Tokens /\ t \in Procs /\ proc[p].pc = "disarm"
  BY TokenFacts DEF Stops, At, Shapes, Shape
<1>2. Idle \in Process /\ Idle.pc = "idle" /\ Idle.op = "none" /\ Idle.token = 0
  BY ConstantsAssumption DEF Idle, Process, PCs, Docs
<1>3. proc[p] \in Process
  BY DEF TypeOK
<1>4. x \in PCs
  BY DEF PCs
<1> HIDE DEF x
<1>5. /\ r \in Process /\ r.pc = x /\ r.op = proc[p].op
      /\ r.token = t /\ r.then = "reload"
  BY <1>3, <1>4 DEF Process
<1>6. proc' = [[proc EXCEPT ![t] = Idle] EXCEPT ![p] = r]
  BY <1>1 DEF Stops, TypeOK, x
<1> HIDE DEF r
<1>7. /\ proc' \in [Procs -> Process] /\ proc'[p] = r /\ proc'[t] = Idle
      /\ \A q \in Procs : q # p /\ q # t => proc'[q] = proc[q]
  <2> HIDE DEF t
  <2> DEFINE f == [proc EXCEPT ![t] = Idle]
  <2>1. proc \in [Procs -> Process]
    BY DEF TypeOK
  <2>2. /\ f \in [Procs -> Process] /\ f[t] = Idle
        /\ \A q \in Procs : q # t => f[q] = proc[q]
    BY <1>1, <1>2, <2>1
  <2>3. proc' = [f EXCEPT ![p] = r]
    BY <1>6
  <2> HIDE DEF f
  <2>4. proc' \in [Procs -> Process] /\ \A q \in Procs : q # p => proc'[q] = f[q]
    BY <1>5, <2>2, <2>3
  <2>5. proc'[p] = r /\ proc'[t] = Idle
    BY <1>1, <2>2, <2>3
  <2> QED
    BY <2>2, <2>4, <2>5
<1> HIDE DEF t
<1>8. /\ UNCHANGED <<files, shown, lock, page, next, kept, unseen, failed>>
      /\ armed' = armed \ {proc[p].token} /\ faults' \in 0 .. MaxFault
  BY DEF Stops, NoFault, TypeOK
<1> QED
  BY <1>1, <1>2, <1>5, <1>7, <1>8 DEF Disarms, x, t

(* systemctl fails, and the process goes on all the same.                  *)
LEMMA DisarmFailedEffect ==
  ASSUME TypeOK, Shapes, NEW p \in Procs, At(p, "disarm"), Fault,
         armed' \in {armed, armed \ {proc[p].token}},
         proc' = [proc EXCEPT ![p].pc = IF proc[p].op = "confirm" THEN "check" ELSE "clear",
                              ![p].then = "reload"],
         UNCHANGED <<lock, page, unseen, failed>>, UNCHANGED <<files, shown, next, kept>>
  PROVE  Disarms(p)
<1> DEFINE x == IF proc[p].op = "confirm" THEN "check" ELSE "clear"
<1>1. /\ p # proc[p].token /\ proc[p].token \in Tokens /\ proc[p].token \in Procs
      /\ proc[p].pc = "disarm"
  BY TokenFacts DEF At, Shapes, Shape
<1>2. x \in PCs /\ proc' = [proc EXCEPT ![p].pc = x, ![p].then = "reload"]
  BY DEF PCs
<1> HIDE DEF x
<1>3. /\ proc' \in [Procs -> Process]
      /\ proc'[p].pc = x /\ proc'[p].op = proc[p].op
      /\ proc'[p].token = proc[p].token /\ proc'[p].then = "reload"
      /\ \A q \in Procs : q # p => proc'[q] = proc[q]
  BY <1>2, TurnEffect
<1>4. faults' \in 0 .. MaxFault
  BY ConstantsAssumption DEF Fault, TypeOK
<1> QED
  BY <1>1, <1>3, <1>4 DEF Disarms, x

(* Its process ends the trial in the place of the timer.                   *)
LEMMA DisarmsStep ==
  ASSUME IInv, NEW p \in Procs, Disarms(p)  PROVE IInv'
<1> USE DEF IInv
<1>1. /\ proc[p].pc = "disarm" /\ proc[p].token \in Tokens /\ proc[p].token < next
      /\ p # proc[p].token /\ p \in Helpers
  BY TokenFacts DEF Disarms, Shapes, Shape
<1>2. /\ proc' \in [Procs -> Process]
      /\ proc'[p].pc = (IF proc[p].op = "confirm" THEN "check" ELSE "clear")
      /\ proc'[p].op = proc[p].op
      /\ proc'[p].token = proc[p].token /\ proc'[p].then = "reload"
      /\ \A q \in Procs : q # p /\ q # proc[p].token => proc'[q] = proc[q]
  BY DEF Disarms
<1>3. \/ /\ proc'[proc[p].token].pc = "idle" /\ proc'[proc[p].token].op = "none"
         /\ proc'[proc[p].token].token = 0
      \/ proc'[proc[p].token] = proc[proc[p].token]
  BY DEF Disarms
<1>4. armed' \in {armed, armed \ {proc[p].token}} /\ faults' \in 0 .. MaxFault
  BY DEF Disarms
<1>5. lock = p /\ proc[proc[p].token].pc \in {"idle", "lock"}
  BY TokenFacts, NoneFacts, <1>1 DEF LockHeld, Inside
<1>6. /\ saved' = saved /\ trial' = trial /\ state' = state /\ next' = next
      /\ kept' = kept /\ unseen' = unseen /\ failed' = failed
      /\ shown' = shown /\ lock' = lock /\ preview' = preview /\ base' = base
      /\ busy' = busy
  BY DEF Disarms, files, page
<1>7. TypeOK'
  BY <1>2, <1>4, <1>6 DEF TypeOK
<1>8. LockHeld'
  BY <1>1, <1>2, <1>3, <1>6 DEF LockHeld, Inside
<1>9. Shapes'
  BY <1>1, <1>2, <1>3, <1>6 DEF Shapes, Shape
<1>10. TokensKnown'
  BY <1>4, <1>6 DEF TokensKnown
<1>11. AppliesApart'
  BY <1>2, <1>3 DEF AppliesApart
<1>12. AppliesNew'
  BY TokenFacts, TypeFacts, <1>1, <1>2, <1>3, <1>4, <1>6 DEF AppliesNew, New, Unshown,
     Unarmed, Unwritten, Shapes, Shape
<1>13. Disk'
  BY <1>1, <1>2, <1>3, <1>6 DEF Disk, OnDisk
<1>14. TimersIdle'
  <2> SUFFICES ASSUME NEW t \in armed' PROVE proc'[t].pc = "idle"
    BY DEF TimersIdle
  <2>1. t \in armed /\ t \in Tokens /\ proc[t].pc = "idle"
    BY <1>4, TypeFacts DEF TimersIdle
  <2>2. CASE t = proc[p].token
    BY <2>1, <2>2, <1>3
  <2>3. CASE t # proc[p].token
    BY <2>1, <2>3, <1>1, <1>2, TokenFacts
  <2> QED
    BY <2>2, <2>3
<1>15. ArmedFirst'
  <2> SUFFICES ASSUME NEW q \in Procs, proc'[q].pc = "eval" PROVE FALSE
    BY DEF ArmedFirst
  <2>1. q # p /\ proc[q].pc = "eval"
    BY <1>2, <1>3, <1>2, <1>1
  <2> QED
    BY <2>1, <1>1, NoneFacts DEF LockHeld, Inside
<1>16. Guarded'
  BY <1>1, <1>2, <1>6 DEF Guarded, Ending, ShownOnDisk, Disk, OnDisk
<1>17. ShownOnDisk'
  BY <1>1, <1>6 DEF ShownOnDisk, Disk, OnDisk
<1>18. KeptEnds'
  BY <1>1, <1>6 DEF KeptEnds, LockHeld, Inside
<1>19. ShownIsKnown'
  BY <1>1, <1>6 DEF ShownIsKnown, Disk, OnDisk
<1>20. TrialIsShown'
  BY <1>1, <1>2, <1>6 DEF TrialIsShown, LockHeld, Inside
<1> QED
  BY <1>7, <1>8, <1>9, <1>10, <1>11, <1>12, <1>13, <1>14, <1>15, <1>16, <1>17, <1>18,
     <1>19, <1>20

(* The candidate is saved: it is what is on screen.                        *)
LEMMA KeepStep ==
  ASSUME IInv, NEW p \in Procs, At(p, "save"), saved' = trial,
         kept' = kept \cup {trial}, NoFault,
         proc' = [proc EXCEPT ![p].pc = "clear", ![p].then = "end"],
         UNCHANGED <<trial, state, shown, armed, next, lock, page>>
  PROVE  IInv'
<1> USE DEF IInv
<1>1. /\ proc[p].pc = "save" /\ proc[p].op = "confirm"
      /\ proc[p].token \in Tokens /\ proc[p].token < next
  BY DEF At, Shapes, Shape
<1>2. /\ proc' \in [Procs -> Process]
      /\ proc'[p].pc = "clear" /\ proc'[p].op = proc[p].op
      /\ proc'[p].token = proc[p].token /\ proc'[p].then = "end"
      /\ \A q \in Procs : q # p => proc'[q] = proc[q]
  BY TurnEffect DEF PCs
<1>3. /\ trial = proc[p].token /\ state # None /\ state.token = proc[p].token
      /\ lock = p
  BY DEF At, Disk, OnDisk, LockHeld, Inside
<1>4. saved' = proc[p].token /\ kept' = kept \cup {proc[p].token}
  BY <1>3
<1>5. shown = proc[p].token \/ proc[p].token \in unseen
  BY <1>1, <1>3 DEF TrialIsShown, LockHeld, Inside
<1>6. /\ trial' = trial /\ state' = state /\ next' = next /\ unseen' = unseen
      /\ failed' = failed /\ faults' = faults /\ shown' = shown /\ armed' = armed
      /\ lock' = lock /\ preview' = preview /\ base' = base /\ busy' = busy
  BY DEF NoFault, page
<1>7. TypeOK'
  BY TokenFacts, <1>1, <1>2, <1>4, <1>6 DEF TypeOK
<1>8. LockHeld'
  BY <1>1, <1>2 DEF LockHeld, Inside
<1>9. Shapes'
  BY <1>1, <1>2 DEF Shapes, Shape
<1>10. TokensKnown'
  BY <1>1, <1>4, <1>6 DEF TokensKnown
<1>11. AppliesApart'
  BY <1>2 DEF AppliesApart
<1>12. AppliesNew'
  BY TokenFacts, <1>1, <1>2 DEF AppliesNew, New, Unshown, Unarmed, Unwritten, Shapes,
     Shape, LockHeld, Inside, Disk, OnDisk
<1>13. Disk'
  BY <1>2, <1>3, <1>5, <1>6 DEF Disk, OnDisk
<1>14. TimersIdle'
  BY TokenFacts, TypeFacts, <1>1, <1>2 DEF TimersIdle
<1>15. ArmedFirst'
  <2> SUFFICES ASSUME NEW q \in Procs, proc'[q].pc = "eval"
               PROVE  LET t == proc[q].token
                      IN t \in armed' \/ proc'[t].pc # "idle" \/ t \in failed'
    BY <1>2 DEF ArmedFirst
  <2>1. q # p /\ proc[q].pc = "eval" /\ proc[q].token \in Tokens
    BY <1>2, <1>1 DEF Shapes, Shape
  <2> QED
    BY <2>1, <1>2, <1>1, <1>6, <1>6, TokenFacts DEF ArmedFirst
<1>16. Guarded'
  BY <1>1, <1>6 DEF Guarded, ShownOnDisk, Disk, OnDisk
<1>17. ShownOnDisk'
  BY <1>2, <1>4, <1>6 DEF ShownOnDisk
<1>18. KeptEnds'
  BY <1>2, <1>4, <1>6 DEF KeptEnds
<1>19. ShownIsKnown'
  BY <1>4, <1>5, <1>6 DEF ShownIsKnown
<1>20. TrialIsShown'
  BY <1>2, <1>6 DEF TrialIsShown, LockHeld, Inside
<1> QED
  BY <1>7, <1>8, <1>9, <1>10, <1>11, <1>12, <1>13, <1>14, <1>15, <1>16, <1>17, <1>18,
     <1>19, <1>20

(* The candidate is unlinked first.                                        *)
LEMMA ClearStep ==
  ASSUME IInv, NEW p \in Procs, At(p, "clear"), trial' = None, Goes(p, "unlink"),
         UNCHANGED <<saved, state, shown, armed, next, kept, unseen, failed, faults>>
  PROVE  IInv'
<1> USE DEF IInv
<1>1. /\ proc[p].pc = "clear"
      /\ proc[p].token \in Tokens /\ proc[p].token < next
  BY DEF At, Shapes, Shape
<1>2. /\ proc' \in [Procs -> Process]
      /\ proc'[p].pc = "unlink" /\ proc'[p].op = proc[p].op
      /\ proc'[p].token = proc[p].token /\ proc'[p].then = proc[p].then
      /\ \A q \in Procs : q # p => proc'[q] = proc[q]
  BY GoEffect DEF Goes, PCs
<1>3. trial' = None /\ saved' = saved /\ state' = state
  OBVIOUS
<1>4. /\ next' = next /\ kept' = kept /\ unseen' = unseen /\ failed' = failed
      /\ faults' = faults /\ shown' = shown /\ armed' = armed /\ lock' = lock
      /\ preview' = preview /\ base' = base /\ busy' = busy
  BY DEF Goes, page
<1>5. TypeOK'
  BY <1>2, <1>4 DEF TypeOK
<1>6. LockHeld'
  BY <1>1, <1>2, <1>4 DEF LockHeld, Inside
<1>7. Shapes'
  BY <1>1, <1>2 DEF Shapes, Shape
<1>8. TokensKnown'
  BY <1>4 DEF TokensKnown
<1>9. AppliesApart'
  BY <1>2 DEF AppliesApart
<1>10. AppliesNew'
  BY TokenFacts, TypeFacts, <1>1, <1>2 DEF AppliesNew, New, Unshown, Unarmed,
     Unwritten, Shapes, Shape
<1>11. Disk'
  BY <1>1, <1>2 DEF Disk, OnDisk, LockHeld, Inside
<1>12. TimersIdle'
  BY TokenFacts, TypeFacts, <1>1, <1>2 DEF TimersIdle
<1>13. ArmedFirst'
  <2> SUFFICES ASSUME NEW q \in Procs, proc'[q].pc = "eval"
               PROVE  LET t == proc[q].token
                      IN t \in armed' \/ proc'[t].pc # "idle" \/ t \in failed'
    BY <1>2 DEF ArmedFirst
  <2>1. q # p /\ proc[q].pc = "eval" /\ proc[q].token \in Tokens
    BY <1>2, <1>1 DEF Shapes, Shape
  <2> QED
    BY <2>1, <1>2, <1>1, <1>4, <1>4, TokenFacts DEF ArmedFirst
<1>14. Guarded'
  BY TokenFacts, <1>2 DEF Guarded, At, Ending
<1>15. ShownOnDisk'
  BY <1>1, <1>2 DEF ShownOnDisk
<1>16. KeptEnds'
  BY <1>2 DEF KeptEnds
<1>17. ShownIsKnown'
  BY <1>1, <1>2 DEF ShownIsKnown
<1>18. TrialIsShown'
  BY <1>2 DEF TrialIsShown, LockHeld, Inside
<1> QED
  BY <1>5, <1>6, <1>7, <1>8, <1>9, <1>10, <1>11, <1>12, <1>13, <1>14, <1>15, <1>16,
     <1>17, <1>18

(* A kept trial, or one that was never shown, is over.                     *)
LEMMA UnlinkEndStep ==
  ASSUME IInv, NEW p \in Procs, At(p, "unlink"), state' = None,
         UNCHANGED <<saved, trial, shown, armed, next, kept, unseen, failed, faults>>,
         proc[p].then = "end", End(p, FALSE)
  PROVE  IInv'
<1> USE DEF IInv
<1>1. /\ proc[p].pc = "unlink" /\ proc[p].then = "end"
      /\ proc[p].token \in Tokens /\ proc[p].token < next
  BY DEF At, Shapes, Shape
<1>2. proc' \in [Procs -> Process] /\ lock' = IF lock = p THEN None ELSE lock
  BY EndEffect DEF files
<1>3. /\ proc'[p].pc = "idle" /\ proc'[p].op = "none" /\ proc'[p].token = 0
      /\ \A q \in Procs : q # p => proc'[q] = proc[q]
  BY EndEffect DEF files
<1>4. /\ preview' \in {0, preview, proc[p].token}
      /\ base' = base /\ busy' \in {busy, None}
  BY EndEffect DEF files
<1>5. state' = None /\ trial' = trial /\ saved' = saved
  OBVIOUS
<1>6. /\ next' = next /\ kept' = kept /\ unseen' = unseen /\ failed' = failed
      /\ faults' = faults /\ shown' = shown /\ armed' = armed
  OBVIOUS
<1>7. TypeOK'
  BY ConstantsAssumption, <1>1, <1>2, <1>4 DEF TypeOK, Tokens
<1>8. LockHeld'
  BY NoneFacts, <1>2, <1>3 DEF LockHeld, Inside
<1>9. Shapes'
  BY <1>3 DEF Shapes, Shape
<1>10. TokensKnown'
  BY TypeFacts, <1>1, <1>4 DEF TokensKnown
<1>11. AppliesApart'
  BY <1>3 DEF AppliesApart
<1>12. AppliesNew'
  BY TokenFacts, TypeFacts, <1>3 DEF AppliesNew, New, Unshown, Unarmed, Unwritten,
     Shapes, Shape
<1>13. Disk'
  BY <1>1, <1>3 DEF Disk, OnDisk, LockHeld, Inside
<1>14. TimersIdle'
  BY TokenFacts, TypeFacts, <1>3 DEF TimersIdle
<1>15. ArmedFirst'
  <2> SUFFICES ASSUME NEW q \in Procs, proc'[q].pc = "eval" PROVE FALSE
    BY DEF ArmedFirst
  <2>1. q # p /\ proc[q].pc = "eval"
    BY <1>3, <1>2, <1>1
  <2> QED
    BY <2>1, <1>1, NoneFacts DEF LockHeld, Inside
<1>16. Guarded'
  BY <1>1 DEF Guarded, ShownOnDisk, AppliesNew, New, Unshown, Unarmed, Unwritten,
     Shapes, Shape, Disk, OnDisk
<1>17. ShownOnDisk'
  BY <1>1 DEF ShownOnDisk, AppliesNew, New, Unshown, Unarmed, Unwritten, Shapes, Shape,
     Disk, OnDisk
<1>18. KeptEnds'
  BY DEF KeptEnds
<1>19. ShownIsKnown'
  BY <1>1 DEF ShownIsKnown, AppliesNew, New, Unshown, Unarmed, Unwritten, Shapes,
     Shape, Disk, OnDisk
<1>20. TrialIsShown'
  BY DEF TrialIsShown
<1> QED
  BY <1>7, <1>8, <1>9, <1>10, <1>11, <1>12, <1>13, <1>14, <1>15, <1>16, <1>17, <1>18,
     <1>19, <1>20

(* The reload of a trial undone is next, or the apply that found it stale. *)
LEMMA UnlinkGoStep ==
  ASSUME IInv, NEW p \in Procs, At(p, "unlink"), state' = None,
         UNCHANGED <<saved, trial, shown, armed, next, kept, unseen, failed, faults>>,
         proc[p].then # "end", Goes(p, proc[p].then)
  PROVE  IInv'
<1> USE DEF IInv
<1>1. /\ proc[p].pc = "unlink"
      /\ proc[p].token \in Tokens /\ proc[p].token < next
  BY DEF At, Shapes, Shape
<1>2. proc[p].then \in {"base", "reload"}
  BY <1>1 DEF Shapes, Shape
<1>3. /\ proc' \in [Procs -> Process]
      /\ proc'[p].pc = proc[p].then /\ proc'[p].op = proc[p].op
      /\ proc'[p].token = proc[p].token /\ proc'[p].then = proc[p].then
      /\ \A q \in Procs : q # p => proc'[q] = proc[q]
  BY <1>2, GoEffect DEF Goes, PCs
<1>4. state' = None /\ trial' = trial /\ saved' = saved
  OBVIOUS
<1>5. /\ next' = next /\ kept' = kept /\ unseen' = unseen /\ failed' = failed
      /\ faults' = faults /\ shown' = shown /\ armed' = armed /\ lock' = lock
      /\ preview' = preview /\ base' = base /\ busy' = busy
  BY DEF Goes, page
<1>6. TypeOK'
  BY <1>3, <1>5 DEF TypeOK
<1>7. LockHeld'
  BY <1>1, <1>2, <1>3, <1>5 DEF LockHeld, Inside
<1>8. Shapes'
  BY <1>1, <1>3 DEF Shapes, Shape
<1>9. TokensKnown'
  BY <1>5 DEF TokensKnown
<1>10. AppliesApart'
  BY <1>3 DEF AppliesApart
<1>11. AppliesNew'
  BY TokenFacts, TypeFacts, <1>1, <1>3 DEF AppliesNew, New, Unshown, Unarmed,
     Unwritten, Shapes, Shape
<1>12. Disk'
  BY <1>1, <1>2, <1>3 DEF Disk, OnDisk, LockHeld, Inside
<1>13. TimersIdle'
  BY TokenFacts, TypeFacts, <1>1, <1>3 DEF TimersIdle
<1>14. ArmedFirst'
  <2> SUFFICES ASSUME NEW q \in Procs, proc'[q].pc = "eval"
               PROVE  LET t == proc[q].token
                      IN t \in armed' \/ proc'[t].pc # "idle" \/ t \in failed'
    BY <1>3 DEF ArmedFirst
  <2>1. q # p /\ proc[q].pc = "eval" /\ proc[q].token \in Tokens
    BY <1>3, <1>1, <1>2 DEF Shapes, Shape
  <2> QED
    BY <2>1, <1>3, <1>1, <1>2, <1>5, <1>5, TokenFacts DEF ArmedFirst
<1>15. Guarded'
  BY TokenFacts, <1>2, <1>3 DEF Guarded, At, Ending, ShownOnDisk, Disk, OnDisk
<1>16. ShownOnDisk'
  BY <1>1, <1>2, <1>3 DEF ShownOnDisk, Disk, OnDisk
<1>17. KeptEnds'
  BY DEF KeptEnds
<1>18. ShownIsKnown'
  BY TypeFacts, <1>1, <1>2, <1>3 DEF ShownIsKnown, ShownOnDisk, KeptEnds, LockHeld,
     Inside, Disk, OnDisk
<1>19. TrialIsShown'
  BY DEF TrialIsShown
<1> QED
  BY <1>6, <1>7, <1>8, <1>9, <1>10, <1>11, <1>12, <1>13, <1>14, <1>15, <1>16, <1>17,
     <1>18, <1>19

(* The screen shows the saved rules.                                       *)
LEMMA ReloadStep ==
  ASSUME IInv, NEW p \in Procs, At(p, "reload"), shown' = saved, NoFault,
         End(p, FALSE), UNCHANGED <<files, armed, next, kept>>
  PROVE  IInv'
<1> USE DEF IInv
<1>1. /\ proc[p].pc = "reload"
      /\ proc[p].token \in Tokens /\ proc[p].token < next
  BY DEF At, Shapes, Shape
<1>2. proc' \in [Procs -> Process] /\ lock' = IF lock = p THEN None ELSE lock
  BY EndEffect DEF files
<1>3. /\ proc'[p].pc = "idle" /\ proc'[p].op = "none" /\ proc'[p].token = 0
      /\ \A q \in Procs : q # p => proc'[q] = proc[q]
  BY EndEffect DEF files
<1>4. /\ preview' \in {0, preview, proc[p].token}
      /\ base' = base /\ busy' \in {busy, None}
  BY EndEffect DEF files
<1>5. shown' = saved
  OBVIOUS
<1>6. /\ saved' = saved /\ trial' = trial /\ state' = state /\ next' = next
      /\ kept' = kept /\ unseen' = unseen /\ failed' = failed /\ faults' = faults
      /\ armed' = armed
  BY DEF NoFault, files
<1>7. TypeOK'
  BY ConstantsAssumption, <1>1, <1>2, <1>4, <1>6 DEF TypeOK, Tokens
<1>8. LockHeld'
  BY NoneFacts, <1>2, <1>3 DEF LockHeld, Inside
<1>9. Shapes'
  BY <1>3 DEF Shapes, Shape
<1>10. TokensKnown'
  BY TypeFacts, <1>1, <1>4, <1>6 DEF TokensKnown
<1>11. AppliesApart'
  BY <1>3 DEF AppliesApart
<1>12. AppliesNew'
  BY TokenFacts, TypeFacts, <1>3, <1>6 DEF AppliesNew, New, Unshown, Unarmed,
     Unwritten, TokensKnown, Shapes, Shape
<1>13. Disk'
  BY <1>1, <1>3, <1>6 DEF Disk, OnDisk
<1>14. TimersIdle'
  BY TokenFacts, TypeFacts, <1>3 DEF TimersIdle
<1>15. ArmedFirst'
  <2> SUFFICES ASSUME NEW q \in Procs, proc'[q].pc = "eval" PROVE FALSE
    BY DEF ArmedFirst
  <2>1. q # p /\ proc[q].pc = "eval"
    BY <1>3, <1>2, <1>1
  <2> QED
    BY <2>1, <1>1, NoneFacts DEF LockHeld, Inside
<1>16. Guarded'
  BY DEF Guarded, TokensKnown
<1>17. ShownOnDisk'
  BY DEF ShownOnDisk, TokensKnown
<1>18. KeptEnds'
  BY <1>1, <1>3, <1>6 DEF KeptEnds
<1>19. ShownIsKnown'
  BY <1>6 DEF ShownIsKnown
<1>20. TrialIsShown'
  BY <1>1, <1>6 DEF TrialIsShown, Disk, OnDisk
<1> QED
  BY <1>7, <1>8, <1>9, <1>10, <1>11, <1>12, <1>13, <1>14, <1>15, <1>16, <1>17, <1>18,
     <1>19, <1>20

(* Nothing changes when no variable does.                                  *)
LEMMA StutterStep ==
  ASSUME IInv, UNCHANGED vars  PROVE IInv'
<1> USE DEF IInv
<1>1. /\ saved' = saved /\ trial' = trial /\ state' = state /\ next' = next
      /\ kept' = kept /\ unseen' = unseen /\ failed' = failed /\ faults' = faults
      /\ shown' = shown /\ armed' = armed /\ lock' = lock /\ proc' = proc
      /\ preview' = preview /\ base' = base /\ busy' = busy
  BY DEF vars
<1>2. TypeOK'
  BY <1>1 DEF TypeOK
<1>3. LockHeld'
  BY <1>1 DEF LockHeld, Inside
<1>4. Shapes'
  BY <1>1 DEF Shapes, Shape
<1>5. TokensKnown'
  BY <1>1 DEF TokensKnown
<1>6. AppliesApart'
  BY <1>1 DEF AppliesApart
<1>7. AppliesNew'
  BY <1>1 DEF AppliesNew, New, Unshown, Unarmed, Unwritten
<1>8. Disk'
  BY <1>1 DEF Disk, OnDisk
<1>9. TimersIdle'
  BY <1>1 DEF TimersIdle
<1>10. ArmedFirst'
  BY <1>1 DEF ArmedFirst
<1>11. Guarded'
  BY <1>1 DEF Guarded, At
<1>12. ShownOnDisk'
  BY <1>1 DEF ShownOnDisk
<1>13. KeptEnds'
  BY <1>1 DEF KeptEnds
<1>14. ShownIsKnown'
  BY <1>1 DEF ShownIsKnown
<1>15. TrialIsShown'
  BY <1>1 DEF TrialIsShown, LockHeld, Inside
<1> QED
  BY <1>2, <1>3, <1>4, <1>5, <1>6, <1>7, <1>8, <1>9, <1>10, <1>11, <1>12, <1>13, <1>14,
     <1>15

(* At first there is no trial.                                             *)
LEMMA InitInv == Init => IInv
<1> SUFFICES ASSUME Init PROVE IInv
  OBVIOUS
<1>1. /\ saved = 0 /\ shown = 0 /\ trial = None /\ state = None /\ armed = {} /\ lock = None
      /\ next = 1 /\ preview = 0 /\ base = 0 /\ busy = None
      /\ kept = {} /\ unseen = {} /\ failed = {} /\ faults = 0
  BY DEF Init
<1>2. \A p \in Procs : proc[p].pc = "idle" /\ proc[p].op = "none" /\ proc[p].token = 0
  BY DEF Init, Idle
<1>3. proc \in [Procs -> Process]
  <2>1. Idle \in Process
    BY ConstantsAssumption DEF Idle, Process, PCs, Docs
  <2> QED
    BY <2>1 DEF Init
<1>4. TypeOK
  BY <1>1, <1>3, ConstantsAssumption DEF TypeOK, Docs
<1>5. LockHeld /\ Shapes /\ AppliesApart /\ Disk
  BY <1>1, <1>2, NoneFacts DEF LockHeld, Inside, Shapes, Shape, AppliesApart, Disk, OnDisk
<1>6. TokensKnown
  BY <1>1, TokenFacts DEF TokensKnown
<1>7. AppliesNew /\ TimersIdle /\ ArmedFirst
  BY <1>1, <1>2 DEF AppliesNew, New, Unshown, Unarmed, Unwritten, TimersIdle, ArmedFirst
<1>8. Guarded /\ ShownOnDisk /\ KeptEnds /\ ShownIsKnown /\ TrialIsShown
  BY <1>1, TokenFacts DEF Guarded, ShownOnDisk, KeptEnds, ShownIsKnown, TrialIsShown
<1> QED
  BY <1>4, <1>5, <1>6, <1>7, <1>8 DEF IInv

(* Every step of the page, the world and the operations keeps IInv.        *)
LEMMA NextStep == IInv /\ [Next]_vars => IInv'
<1> SUFFICES ASSUME IInv, [Next]_vars PROVE IInv'
  OBVIOUS
<1>1. TypeOK
  BY DEF IInv
<1>2. CASE Apply
  <2>1. next \in Tokens
    BY <1>1, <1>2, ConstantsAssumption DEF Apply, TypeOK, Tokens
  <2>2. \E p \in Helpers : Asked(p)
    BY <1>1, <1>2, <2>1, AskEffect DEF Apply
  <2> QED
    BY <2>2, AskedStep
<1>3. CASE Keep \/ Revert
  <2>1. preview \in Tokens /\ preview < next
    BY <1>1, <1>3, ConstantsAssumption DEF Keep, Revert, IInv, TypeOK, TokensKnown, Tokens
  <2>2. \E p \in Helpers : Asked(p)
    BY <1>1, <1>3, <2>1, AskEffect DEF Keep, Revert
  <2> QED
    BY <2>2, AskedStep
<1>4. CASE snapshot
  BY <1>4, SnapshotStep
<1>5. CASE ShellRestart
  BY <1>5, ShellRestartStep
<1>6. CASE Edit
  BY <1>6, EditStep
<1>7. CASE Tick
  BY <1>7, TickStep
<1>22. CASE Sleep
  BY <1>22, SleepStep
<1>23. CASE Reload
  BY <1>23, OutsideReloadStep
<1>8. ASSUME NEW t \in Tokens, Fire(t) PROVE IInv'
  BY <1>8, FireStep
<1>9. ASSUME NEW p \in Procs, Kill(p) PROVE IInv'
  <2>1. Dies(p)
    BY <1>9 DEF Kill, Dies
  <2> QED
    BY <2>1, DiesStep
<1>10. ASSUME NEW p \in Procs, Enter(p) PROVE IInv'
  <2>1. /\ proc[p].pc = "lock" /\ lock = None
        /\ UNCHANGED <<files, shown, armed, next, kept, unseen, failed, faults>>
    BY <1>10 DEF Enter, TrialLock, At
  <2>2. p \in Tokens => proc[p].op = "expire" /\ proc[p].token = p
    BY <2>1 DEF IInv, Shapes, Shape
  <2>3. ASSUME End(p, FALSE), p \in Tokens => ~Finds(p) PROVE IInv'
    <3>1. Quits(p)
      BY <2>1, <2>2, <2>3 DEF Quits, Finds
    <3> QED
      BY <3>1, QuitsStep
  <2>4. CASE EnterApply(p)
    <3>1. CASE state = None /\ Go(p, "base") /\ lock' = p /\ UNCHANGED page
      <4>1. Enters(p)
        BY <1>1, <2>1, <2>4, <3>1, GoEffect DEF Enters, PCs, EnterApply
      <4> QED
        BY <4>1, EntersStep
    <3>2. CASE /\ state # None /\ state.age = "stale"
               /\ proc' = [proc EXCEPT ![p].pc = "clear", ![p].then = "base"]
               /\ lock' = p /\ UNCHANGED page
      <4>1. Enters(p)
        BY <1>1, <2>1, <2>4, <3>2, TurnEffect DEF Enters, PCs, EnterApply
      <4> QED
        BY <4>1, EntersStep
    <3> QED
      BY <2>2, <2>3, <2>4, <3>1, <3>2 DEF EnterApply
  <2>5. CASE EnterConfirm(p) \/ EnterRollback(p)
    <3>1. CASE Finds(p) /\ Go(p, "disarm") /\ lock' = p /\ UNCHANGED page
      <4>1. Enters(p)
        BY <1>1, <2>1, <2>5, <3>1, GoEffect DEF Enters, PCs, EnterConfirm, EnterRollback, Finds
      <4> QED
        BY <4>1, EntersStep
    <3> QED
      BY <2>3, <2>5, <3>1 DEF EnterConfirm, EnterRollback
  <2>6. CASE EnterExpire(p)
    <3>1. CASE /\ Finds(p)
               /\ proc' = [proc EXCEPT ![p].pc = "clear", ![p].then = "reload"]
               /\ lock' = p /\ UNCHANGED page
      <4>1. Enters(p)
        BY <1>1, <2>1, <2>6, <3>1, TurnEffect DEF Enters, PCs, EnterExpire, Finds
      <4> QED
        BY <4>1, EntersStep
    <3> QED
      BY <2>3, <2>6, <3>1 DEF EnterExpire
  <2> QED
    BY <1>10, <2>4, <2>5, <2>6 DEF Enter
<1>11. ASSUME NEW p \in Procs, Base(p) PROVE IInv'
  <2>1. CASE proc[p].base = saved
    BY <1>11, <2>1, CandidateStep DEF Base, At
  <2>2. CASE proc[p].base # saved
    <3>1. p \notin Tokens
      BY <1>11 DEF Base, At, IInv, Shapes, Shape
    <3>2. Quits(p)
      BY <1>11, <2>2, <3>1 DEF Base, At, Quits
    <3> QED
      BY <3>2, QuitsStep
  <2> QED
    BY <2>1, <2>2
<1>12. ASSUME NEW p \in Procs, WriteCandidate(p) PROVE IInv'
  BY <1>12, WriteCandidateStep
<1>13. ASSUME NEW p \in Procs, WriteState(p) PROVE IInv'
  BY <1>13, WriteStateStep
<1>14. ASSUME NEW p \in Procs, arm_watchdog(p) PROVE IInv'
  <2>1. At(p, "arm") /\ UNCHANGED <<files, shown, next, kept>>
    BY <1>14 DEF arm_watchdog
  <2>2. CASE armed' = armed \cup {proc[p].token} /\ Goes(p, "eval") /\ NoFault
    BY <2>1, <2>2, ArmStep
  <2>3. CASE /\ Fault /\ UNCHANGED <<armed, unseen, failed, lock, page>>
             /\ proc' = [proc EXCEPT ![p].pc = "clear", ![p].then = "end"]
    BY <2>1, <2>3, RefusedArmStep
  <2>4. CASE /\ Hit(p) /\ armed' \in {armed, armed \cup {proc[p].token}}
             /\ End(p, FALSE)
    <3>1. Dies(p)
      BY <2>1, <2>4 DEF Dies, At
    <3> QED
      BY <3>1, DiesStep
  <2> QED
    BY <1>14, <2>2, <2>3, <2>4 DEF arm_watchdog
<1>15. ASSUME NEW p \in Procs, EvalTrial(p) PROVE IInv'
  <2>1. At(p, "eval") /\ UNCHANGED <<files, armed, next, kept>>
    BY <1>15 DEF EvalTrial
  <2>2. CASE shown' = trial /\ End(p, TRUE) /\ NoFault
    BY <2>1, <2>2, ShowStep
  <2>3. CASE /\ Fault /\ shown' \in {shown, trial} /\ UNCHANGED <<unseen, failed>>
             /\ Goes(p, "disarm")
    BY <2>1, <2>3, RefusedShowStep
  <2>4. CASE Hit(p) /\ shown' \in {shown, trial} /\ End(p, FALSE)
    <3>1. Dies(p)
      BY <2>1, <2>4 DEF Dies, At
    <3> QED
      BY <3>1, DiesStep
  <2> QED
    BY <1>15, <2>2, <2>3, <2>4 DEF EvalTrial
<1>16. ASSUME NEW p \in Procs, disarm_watchdog(p) PROVE IInv'
  <2>1. At(p, "disarm") /\ UNCHANGED <<files, shown, next, kept>>
    BY <1>16 DEF disarm_watchdog
  <2>2. CASE Stops(p)
    <3>1. Disarms(p)
      BY <1>1, <2>2, DisarmEffect DEF IInv
    <3> QED
      BY <3>1, DisarmsStep
  <2>3. CASE Hit(p) /\ armed' \in {armed, armed \ {proc[p].token}} /\ End(p, FALSE)
    <3>1. Dies(p)
      BY <2>1, <2>3 DEF Dies, At
    <3> QED
      BY <3>1, DiesStep
  <2>4. CASE /\ Fault /\ armed' \in {armed, armed \ {proc[p].token}}
             /\ proc' = [proc EXCEPT ![p].pc = IF proc[p].op = "confirm" THEN "check" ELSE "clear",
                                     ![p].then = "reload"]
             /\ UNCHANGED <<lock, page, unseen, failed>>
    <3>1. Disarms(p)
      BY <1>1, <2>1, <2>4, DisarmFailedEffect DEF IInv
    <3> QED
      BY <3>1, DisarmsStep
  <2> QED
    BY <1>16, <2>2, <2>3, <2>4 DEF disarm_watchdog, Stops
<1>17. ASSUME NEW p \in Procs, Check(p) PROVE IInv'
  BY <1>17, CheckStep
<1>18. ASSUME NEW p \in Procs, Save(p) PROVE IInv'
  <2>1. At(p, "save") /\ UNCHANGED <<trial, state, shown, armed, next>>
    BY <1>18 DEF Save
  <2>2. CASE /\ saved' = trial /\ kept' = kept \cup {trial} /\ NoFault
             /\ proc' = [proc EXCEPT ![p].pc = "clear", ![p].then = "end"]
             /\ UNCHANGED <<lock, page>>
    BY <2>1, <2>2, KeepStep
  <2>3. CASE Hit(p) /\ End(p, FALSE) /\ UNCHANGED <<saved, kept>>
    <3>1. Dies(p)
      BY <2>1, <2>3 DEF Dies, At, files
    <3> QED
      BY <3>1, DiesStep
  <2> QED
    BY <1>18, <2>2, <2>3 DEF Save
<1>19. ASSUME NEW p \in Procs, clear_trial(p) PROVE IInv'
  <2>1. UNCHANGED <<saved, shown, armed, next, kept, unseen, failed, faults>>
    BY <1>19 DEF clear_trial
  <2>2. CASE At(p, "clear") /\ trial' = None /\ Goes(p, "unlink") /\ UNCHANGED state
    BY <2>1, <2>2, ClearStep
  <2>3. CASE /\ At(p, "unlink") /\ state' = None /\ UNCHANGED trial
             /\ IF proc[p].then = "end" THEN End(p, FALSE) ELSE Goes(p, proc[p].then)
    <3>1. CASE proc[p].then = "end"
      BY <2>1, <2>3, <3>1, UnlinkEndStep
    <3>2. CASE proc[p].then # "end"
      BY <2>1, <2>3, <3>2, UnlinkGoStep
    <3> QED
      BY <3>1, <3>2
  <2> QED
    BY <1>19, <2>2, <2>3 DEF clear_trial
<1>20. ASSUME NEW p \in Procs, reload_hyprland(p) PROVE IInv'
  <2>1. At(p, "reload") /\ End(p, FALSE) /\ UNCHANGED <<files, armed, next, kept>>
    BY <1>20 DEF reload_hyprland
  <2>2. CASE shown' = saved /\ NoFault
    BY <2>1, <2>2, ReloadStep
  <2>3. CASE Hit(p) /\ UNCHANGED shown
    <3>1. Dies(p)
      BY <2>1, <2>3 DEF Dies, At
    <3> QED
      BY <3>1, DiesStep
  <2> QED
    BY <1>20, <2>2, <2>3 DEF reload_hyprland
<1>21. CASE UNCHANGED vars
  BY <1>21, StutterStep
<1> QED
  BY <1>2, <1>3, <1>4, <1>5, <1>6, <1>7, <1>8, <1>9, <1>10, <1>11, <1>12, <1>13, <1>14,
     <1>15, <1>16, <1>17, <1>18, <1>19, <1>20, <1>21, <1>22, <1>23 DEF Next

(* The inductive invariant, of which the theorems below are consequences.  *)
THEOREM Invariance == Spec => []IInv
<1> QED
  BY InitInv, NextStep, PTL DEF Spec

(* Type correctness of the trial, for every number of helpers, trials and  *)
(* faults.                                                                 *)
THEOREM TypeCorrect == Spec => []TypeOK
<1>1. IInv => TypeOK
  BY DEF IInv
<1> QED
  BY <1>1, Invariance, PTL

(* An arrangement that nobody kept is never left on screen without its     *)
(* timer or a process that ends it (arm_watchdog before hyprctl eval).     *)
THEOREM TrialGuarded == Spec => []Guarded
<1>1. IInv => Guarded
  BY DEF IInv
<1> QED
  BY <1>1, Invariance, PTL

(* Once no trial is on disk and none is under way, the screen shows the    *)
(* saved rules (clear_trial, then reload_hyprland, under TrialLock).       *)
THEOREM SettledShowsSaved == Spec => []SettledIsSaved
<1>1. IInv => SettledIsSaved
  BY NoneFacts DEF IInv, SettledIsSaved, ShownIsKnown, LockHeld, Inside
<1> QED
  BY <1>1, Invariance, PTL

(* What confirm saves is what is on screen, unless the apply of that trial *)
(* was hit by a fault or a reload from elsewhere has dropped the trial.    *)
THEOREM KeptWasShown == Spec => SavedWasShown
<1> DEFINE A == (saved' # saved /\ saved' # Edited) => (shown = saved' \/ saved' \in unseen)
<1>1. IInv /\ [Next]_vars => [A]_vars
  <2> SUFFICES ASSUME IInv, Next PROVE A
    OBVIOUS
  <2>1. ASSUME NEW p \in Procs, Save(p) PROVE A
    <3>1. CASE saved' = trial
      <4>1. /\ proc[p].pc = "save" /\ proc[p].op = "confirm" /\ lock = p
            /\ trial = state.token /\ state # None
        BY <2>1 DEF Save, At, IInv, Shapes, Shape, Disk, OnDisk, LockHeld, Inside
      <4>2. \A q \in Procs : ~(proc[q].op = "apply" /\ Inside(q))
        BY <4>1 DEF IInv, LockHeld
      <4> QED
        BY <3>1, <4>1, <4>2 DEF IInv, TrialIsShown
    <3>2. CASE saved' = saved
      BY <3>2
    <3> QED
      BY <2>1, <3>1, <3>2 DEF Save
  <2>2. CASE Edit
    BY <2>2 DEF Edit
  <2>3. CASE Apply \/ Keep \/ Revert \/ snapshot \/ ShellRestart \/ Tick \/ Sleep \/ Reload
    BY <2>3 DEF Apply, Keep, Revert, Ask, snapshot, ShellRestart, Tick, Sleep, Reload, files
  <2>4. ASSUME NEW t \in Tokens, Fire(t) PROVE A
    BY <2>4 DEF Fire, files
  <2>5. ASSUME NEW p \in Procs,
               \/ Kill(p) \/ Enter(p) \/ Base(p) \/ WriteCandidate(p) \/ WriteState(p)
               \/ arm_watchdog(p) \/ EvalTrial(p) \/ disarm_watchdog(p) \/ Check(p)
               \/ clear_trial(p) \/ reload_hyprland(p)
        PROVE  A
    BY <2>5 DEF Kill, Enter, Base, WriteCandidate, WriteState, arm_watchdog, EvalTrial,
       disarm_watchdog, Check, clear_trial, reload_hyprland, files
  <2> QED
    BY <2>1, <2>2, <2>3, <2>4, <2>5 DEF Next
<1> QED
  BY <1>1, Invariance, PTL DEF Spec, SavedWasShown

=============================================================================
