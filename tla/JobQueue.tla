------------------------------ MODULE JobQueue ------------------------------
(***************************************************************************)
(* What the execution stage of the benchmark promises about its job queue, *)
(* with no Python, no signals and no pickles: a durable queue of jobs      *)
(* still to do, and the jobs that have an outcome.                         *)
(*                                                                         *)
(*  - A script is started only for a job still in the durable queue, so a  *)
(*    job whose removal has been made durable never runs again, however    *)
(*    often the run is killed and resumed.                                 *)
(*  - A job gets an outcome (ok, timeout, or pruned by a sibling's         *)
(*    timeout) only while it is queued.                                    *)
(*  - A job leaves the durable queue only once it has an outcome.          *)
(*  - The durable queue may be lost as a whole (the run then cannot be     *)
(*    resumed), never changed in any other way.                            *)
(***************************************************************************)
EXTENDS Naturals

CONSTANT Jobs

VARIABLES
    todo,   \* the jobs the durable queue still holds
    done,   \* the jobs that have an outcome
    runs,   \* runs[j]: how often the script of j was started
    lost    \* the durable queue can no longer be read

avars == <<todo, done, runs, lost>>

QTypeOK ==
    /\ todo \subseteq Jobs
    /\ done \subseteq Jobs
    /\ runs \in [Jobs -> Nat]
    /\ lost \in BOOLEAN

QInit ==
    /\ todo = Jobs
    /\ done = {}
    /\ runs = [j \in Jobs |-> 0]
    /\ lost = FALSE

\* The script of a queued job is started.
Run(j) ==
    /\ ~lost
    /\ j \in todo
    /\ runs' = [runs EXCEPT ![j] = @ + 1]
    /\ UNCHANGED <<todo, done, lost>>

\* Queued jobs get outcomes, and jobs with an outcome leave the queue; one
\* step of the program may do both (a timeout prunes the siblings of the
\* job and saves the queue).
Progress ==
    /\ ~lost
    /\ done \subseteq done'
    /\ done' \subseteq done \cup todo
    /\ todo' \subseteq todo
    /\ todo \ todo' \subseteq done'
    /\ UNCHANGED <<runs, lost>>

\* The durable queue becomes unreadable.
Lose ==
    /\ ~lost
    /\ lost' = TRUE
    /\ todo' = {}
    /\ UNCHANGED <<done, runs>>

QNext == (\E j \in Jobs : Run(j)) \/ Progress \/ Lose

QSpec == QInit /\ [][QNext]_avars

=============================================================================
