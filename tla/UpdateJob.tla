----------------------------- MODULE UpdateJob -----------------------------
(***************************************************************************)
(* What the durable updater promises, without locks, files or clients: a   *)
(* run is published, may work once, and is settled for good.  Work of two  *)
(* runs, and work of a run and of an installation, never overlaps.         *)
(***************************************************************************)
CONSTANT Runs

VARIABLES
    job,        \* the life of every run
    installing  \* an install or uninstall is in progress

jobVars == <<job, installing>>

(* "pending": published, nothing changed yet.  "working": changing the     *)
(* machine.  "lost": the worker is gone and nobody has noticed.            *)
JobStates == {"absent", "pending", "working", "lost", "settled"}

JobInit ==
    /\ job = [r \in Runs |-> "absent"]
    /\ installing = FALSE

Publish(r) ==
    /\ job[r] = "absent"
    /\ job' = [job EXCEPT ![r] = "pending"]
    /\ UNCHANGED installing

Begin(r) ==
    /\ job[r] = "pending"
    /\ ~ installing
    /\ \A q \in Runs : job[q] # "working"
    /\ job' = [job EXCEPT ![r] = "working"]
    /\ UNCHANGED installing

(* Runs end together when old directories are pruned. *)
Settle(S) ==
    /\ \A r \in S : job[r] \in {"pending", "working", "lost"}
    /\ job' = [r \in Runs |-> IF r \in S THEN "settled" ELSE job[r]]
    /\ UNCHANGED installing

(* Workers die together, and with them an installation, when the power is  *)
(* lost.                                                                   *)
Lose(S) ==
    /\ \A r \in S : job[r] \in {"pending", "working"}
    /\ job' = [r \in Runs |-> IF r \in S THEN "lost" ELSE job[r]]
    /\ installing' \in {installing, FALSE}

Install ==
    /\ ~ installing
    /\ \A r \in Runs : job[r] # "working"
    /\ installing' = TRUE
    /\ UNCHANGED job

Installed ==
    /\ installing
    /\ installing' = FALSE
    /\ UNCHANGED job

JobNext ==
    \/ \E r \in Runs : Publish(r) \/ Begin(r)
    \/ \E S \in SUBSET Runs : Settle(S) \/ Lose(S)
    \/ Install
    \/ Installed

JobSpec == JobInit /\ [][JobNext]_jobVars

=============================================================================
