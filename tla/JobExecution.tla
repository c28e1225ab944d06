---------------------------- MODULE JobExecution ----------------------------
(***************************************************************************)
(* One run of the job queue as the processes see it: the main thread of   *)
(* process_files (src/benchmark/benchmark.py 108-131), the watcher threads *)
(* it starts (src/benchmark/watcher.py) and the R child running the       *)
(* generated script, whose prelude and conclude (src/benchmark/querying.py *)
(* 57-84) start and kill the MonetDB server for MonetDB.R jobs.            *)
(*                                                                         *)
(* Processes are counted by the name pgrep and pkill match.  A sink is     *)
(* open or closed and has or has not received a sample.  Watchers are      *)
(* never joined, so a watcher may outlive its job.  The timeout branch is  *)
(* JobScheduler's; here every job runs to its end.  A crash here kills the *)
(* Python process alone (kill -9, the OOM killer): its threads die and its *)
(* files are closed, but the R child started by os.system is not in its   *)
(* way and runs on as an orphan beside the resumed run.                    *)
(***************************************************************************)
EXTENDS Integers, Sequences, FiniteSets

CONSTANTS
    JobTools,   \* the tool of each job, in queue order
    MaxTries,   \* the retry bound of watch_pid (100 in the code)
    MaxCrashes  \* how often the Python process may be killed

VARIABLES
    mpc,        \* main thread: "next", "open", "wait", "done", "crashed"
    j,          \* the index of the current job
    spc,        \* script -> "none", "prelude", "query", "conclude", "failed", "exited"
    oj,         \* the job of the orphaned script
    crashes,    \* how often the Python process was killed
    live,       \* name -> number of live processes of that name
    sinkOpen,   \* the open sinks, as <<job, name>> pairs
    sampled,    \* the sinks that received at least one sample
    ws,         \* <<job, name>> -> watcher [st, i, ran]
    strays      \* ghost: sinks written while another job was running

vars == <<mpc, j, spc, oj, crashes, live, sinkOpen, sampled, ws, strays>>

\* The R child of the running Python process, and the one a killed
\* process left behind (the model holds at most one orphan at a time).
Scripts == {"child", "orphan"}
JobOf(s) == IF s = "child" THEN j ELSE oj
Stages == {"none", "prelude", "query", "conclude", "failed", "exited"}

Names == {"R", "mserver5"}
NJobs == Len(JobTools)
Pairs == (1..NJobs) \X Names

\* pss: the process roles sampled for a job (113-116).
Pss(t) == IF t = "MonetDB.R" THEN <<"R", "mserver5">> ELSE <<"R">>

Idle == [st |-> "idle", i |-> 0, ran |-> FALSE]

TypeOK ==
    /\ mpc \in {"next", "open", "wait", "done", "crashed"}
    /\ j \in 0..NJobs /\ oj \in 0..NJobs /\ crashes \in 0..MaxCrashes
    /\ spc \in [Scripts -> Stages]
    /\ live \in [Names -> 0..2]
    /\ sinkOpen \subseteq Pairs /\ sampled \subseteq Pairs /\ strays \subseteq Pairs
    /\ \A w \in Pairs : /\ ws[w].st \in {"idle", "poll", "write", "done"}
                        /\ ws[w].i \in 0..(MaxTries + 1)
                        /\ ws[w].ran \in BOOLEAN

Init ==
    /\ mpc = "next" /\ j = 0 /\ oj = 0 /\ crashes = 0
    /\ spc = [s \in Scripts |-> "none"]
    /\ live = [n \in Names |-> 0]
    /\ sinkOpen = {} /\ sampled = {}
    /\ ws = [w \in Pairs |-> Idle]
    /\ strays = {}

(***************************************************************************)
(* Main thread.                                                            *)
(***************************************************************************)
\* while files: fi = files.pop(0)
NextJob ==
    /\ mpc = "next"
    /\ IF j < NJobs THEN j' = j + 1 /\ mpc' = "open" ELSE mpc' = "done" /\ j' = j
    /\ UNCHANGED <<spc, oj, crashes, live, sinkOpen, sampled, ws, strays>>

Roles(ps) == {ps[x] : x \in DOMAIN ps}

\* watchers.append(...) follows the for loop over pss (121-124): only the
\* last role gets a watcher, with the last sink opened.
Watched(ps) == {ps[Len(ps)]}

\* Open a sink per role, truncating what an earlier run of the job wrote
\* ("w"), start the watchers (119-126), then os.system forks the R child
\* (127).
StartJob ==
    /\ mpc = "open"
    /\ LET ps == Pss(JobTools[j])
           sinks == {<<j, p>> : p \in Roles(ps)} IN
         /\ sinkOpen' = sinkOpen \cup sinks
         /\ sampled' = sampled \ sinks
         /\ ws' = [w \in Pairs |->
                     IF w[1] = j /\ w[2] \in Watched(ps)
                     THEN [st |-> "poll", i |-> 0, ran |-> FALSE] ELSE ws[w]]
    /\ live' = [live EXCEPT !["R"] = @ + 1]
    /\ spc' = [spc EXCEPT !["child"] = "prelude"]
    /\ mpc' = "wait"
    /\ UNCHANGED <<j, oj, crashes, strays>>

\* Mutant: the sinks are left open (no close loop).
SystemReturnsKeepsSinks ==
    /\ mpc = "wait" /\ spc["child"] = "exited"
    /\ spc' = [spc EXCEPT !["child"] = "none"]
    /\ mpc' = "next"
    /\ UNCHANGED <<j, oj, crashes, live, sinkOpen, sampled, ws, strays>>

\* os.system returns when R has exited; the sinks are closed (127-130) and
\* the queue without the job is saved (131).
SystemReturns ==
    /\ mpc = "wait" /\ spc["child"] = "exited"
    /\ sinkOpen' = {s \in sinkOpen : s[1] # j}
    /\ spc' = [spc EXCEPT !["child"] = "none"]
    /\ mpc' = "next"
    /\ UNCHANGED <<j, oj, crashes, live, sampled, ws, strays>>

\* The Python process is killed.  Its watcher threads die and its sinks are
\* closed; the R child, if any, is re-parented and runs on.  The job popped
\* at 109 is in the saved queue until save_it at 131, so the resumed run
\* starts again from the job before it unless the job was saved.
Crash ==
    /\ mpc \in {"next", "open", "wait"}
    /\ crashes < MaxCrashes
    /\ spc["orphan"] \in {"none", "exited"}
    /\ spc' = [child |-> "none", orphan |-> spc["child"]]
    /\ oj' = j
    /\ j' = IF mpc = "next" THEN j ELSE j - 1
    /\ ws' = [w \in Pairs |-> IF ws[w].st = "idle" THEN ws[w]
                              ELSE [ws[w] EXCEPT !.st = "done"]]
    /\ sinkOpen' = {}
    /\ crashes' = crashes + 1
    /\ mpc' = "crashed"
    /\ UNCHANGED <<live, sampled, strays>>

\* state 4 with --resume: files = load_it(); process_files() (439-441).
Resume ==
    /\ mpc = "crashed"
    /\ mpc' = "next"
    /\ UNCHANGED <<j, spc, oj, crashes, live, sinkOpen, sampled, ws, strays>>

(***************************************************************************)
(* An R process running the generated script: the child of the running    *)
(* Python process or the orphan of a killed one.                          *)
(***************************************************************************)
\* do_prelude: MonetDB.R runs "pkill monetdb", which matches no mserver5,
\* and starts "mserver5 --daemon=yes &"; a second server on the same
\* dbpath cannot lock the database and exits at once.
Prelude(s) ==
    /\ spc[s] = "prelude"
    /\ IF JobTools[JobOf(s)] = "MonetDB.R" /\ live["mserver5"] = 0
       THEN live' = [live EXCEPT !["mserver5"] = 1]
       ELSE UNCHANGED live
    /\ spc' = [spc EXCEPT ![s] = "query"]
    /\ UNCHANGED <<mpc, j, oj, crashes, sinkOpen, sampled, ws, strays>>

\* The benchmark and save() succeed; do_conclude runs "pkill mserver5",
\* which kills any server of that name, whichever script started it.
QueryOK(s) ==
    /\ spc[s] = "query"
    /\ live' = IF JobTools[JobOf(s)] = "MonetDB.R"
               THEN [live EXCEPT !["mserver5"] = 0] ELSE live
    /\ spc' = [spc EXCEPT ![s] = "conclude"]
    /\ UNCHANGED <<mpc, j, oj, crashes, sinkOpen, sampled, ws, strays>>

\* An error halts R under --slave: the conclude is never reached.
QueryFails(s) ==
    /\ spc[s] = "query"
    /\ spc' = [spc EXCEPT ![s] = "failed"]
    /\ UNCHANGED <<mpc, j, oj, crashes, live, sinkOpen, sampled, ws, strays>>

RExits(s) ==
    /\ spc[s] \in {"conclude", "failed"}
    /\ live' = [live EXCEPT !["R"] = @ - 1]
    /\ spc' = [spc EXCEPT ![s] = "exited"]
    /\ UNCHANGED <<mpc, j, oj, crashes, sinkOpen, sampled, ws, strays>>

(***************************************************************************)
(* A watcher thread: watch_pid (watcher.py 14-31).  find_pid returns 0     *)
(* when pgrep finds nothing and raises when it finds several, which the   *)
(* bare except turns into a silent return.  After a match, ps is run and  *)
(* its output written to the sink; a closed sink raises, and so returns.  *)
(* ps of a process that has just exited prints nothing.                    *)
(***************************************************************************)
\* Mutant: the attempt count is never checked (only already_run ends it).
GiveUpNever(w) == ws[w].ran

GiveUp(w) == ws[w].ran \/ ws[w].i > MaxTries

Poll(w) ==
    /\ ws[w].st = "poll"
    /\ LET n == live[w[2]] IN
         ws' = [ws EXCEPT ![w] =
                  CASE n = 0 /\ GiveUp(w) -> [@ EXCEPT !.st = "done"]
                    [] n = 0              -> [@ EXCEPT !.i = @ + 1]
                    [] n > 1              -> [@ EXCEPT !.st = "done"]
                    [] OTHER              -> [@ EXCEPT !.st = "write", !.ran = TRUE]]
    /\ UNCHANGED <<mpc, j, spc, oj, crashes, live, sinkOpen, sampled, strays>>

\* Mutant: a failed write is retried instead of ending the thread.
WriteKeepsGoing(w) ==
    /\ ws[w].st = "write"
    /\ sampled' = IF w \in sinkOpen /\ live[w[2]] = 1 THEN sampled \cup {w} ELSE sampled
    /\ ws' = [ws EXCEPT ![w].st = "poll"]
    /\ UNCHANGED <<mpc, j, spc, oj, crashes, live, sinkOpen, strays>>

Write(w) ==
    /\ ws[w].st = "write"
    /\ IF w \notin sinkOpen
       THEN ws' = [ws EXCEPT ![w].st = "done"] /\ UNCHANGED <<sampled, strays>>
       ELSE /\ sampled' = IF live[w[2]] = 1 THEN sampled \cup {w} ELSE sampled
            /\ strays' = IF live[w[2]] = 1 /\ ~(mpc = "wait" /\ j = w[1])
                         THEN strays \cup {w} ELSE strays
            /\ ws' = [ws EXCEPT ![w].st = "poll"]
    /\ UNCHANGED <<mpc, j, spc, oj, crashes, live, sinkOpen>>

MainStep == NextJob \/ StartJob \/ SystemReturns
ScriptStep == \E s \in Scripts :
                Prelude(s) \/ QueryOK(s) \/ QueryFails(s) \/ RExits(s)
WatcherStep(w) == Poll(w) \/ Write(w)

Next == MainStep \/ ScriptStep \/ Crash \/ Resume \/ \E w \in Pairs : WatcherStep(w)

Spec == Init /\ [][Next]_vars

\* Threads are scheduled by the OS: the main thread and every watcher make
\* progress.  The R child ending is the script's business, not the
\* engine's, and is a hypothesis of the properties that need it.
FairSpec == Spec /\ WF_vars(MainStep) /\ \A w \in Pairs : WF_vars(WatcherStep(w))

(***************************************************************************)
(* Every watcher thread started ends.  They are never joined and are not  *)
(* daemon threads, so one that never ends keeps the benchmark process     *)
(* from exiting after the last job.  This rests on the retry bound, the   *)
(* already_run test and the write into a closed sink raising.              *)
(***************************************************************************)
WatchersEnd ==
    WF_vars(ScriptStep) =>
        \A w \in Pairs : [](ws[w].st # "idle" => <>(ws[w].st = "done"))

(***************************************************************************)
(* Each sample is written into the sink of the job that is running when  *)
(* it is written: a watcher outlives its job, so this rests on the close  *)
(* loop (128-129) running before the next job starts and on a write into  *)
(* a closed sink ending the watcher.  After a crash the resumed run opens *)
(* the sink afresh; which R process a sample measured is not tracked.     *)
(***************************************************************************)
SamplesBelongToTheirJob == strays = {}

(***************************************************************************)
(* Every sink opened for a job has a sampler bound to it (spec step 2,    *)
(* benchmark.py 121-126).                                                  *)
(***************************************************************************)
SamplerPerSink == \A w \in sinkOpen : ws[w].st # "idle"

(***************************************************************************)
(* A MonetDB server is alive only while a MonetDB.R job runs: the prelude *)
(* of one job and the conclude of the same job bound its life (spec       *)
(* section 5: no two jobs hold a live server of the same engine).         *)
(***************************************************************************)
ServerOwnedByCurrentJob ==
    live["mserver5"] > 0 => (mpc = "wait" /\ JobTools[j] = "MonetDB.R")

(***************************************************************************)
(* No two jobs run concurrently (spec section 5): at most one R process   *)
(* runs a job script.  A resumed run re-runs the job the killed process    *)
(* had popped but not saved, and the killed process's R child (127) was   *)
(* not killed with it.                                                     *)
(***************************************************************************)
ScriptsRunOneAtATime == live["R"] <= 1

=============================================================================
