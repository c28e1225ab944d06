---------------------------- MODULE JobScheduler ----------------------------
(***************************************************************************)
(* The execution stage of src/benchmark/benchmark.py: process_files(), the *)
(* SIGALRM Timeout guard around each job, the .backup checkpoint written   *)
(* by save_it() and read back by load_it() when main() is resumed at state *)
(* 4, and crashes of the benchmark process at any point.                   *)
(*                                                                         *)
(* One Python thread runs process_files; its position is pc.  The R child  *)
(* started by os.system, the kernel's SIGALRM and a crash of the process   *)
(* are the other actors.  The Python-level signal handler only runs in     *)
(* the main thread between two bytecodes: while the main thread is blocked *)
(* in os.system (glibc's system() retries waitpid on EINTR) the signal     *)
(* stays pending until the child has exited.                               *)
(*                                                                         *)
(* The sampling sinks and watcher threads opened for each job are left to  *)
(* the ResourceSampler model: nothing here reads them.                     *)
(***************************************************************************)
EXTENDS Integers, Sequences, FiniteSets, SequencesExt, FiniteSetsExt, JobFiles

CONSTANTS
    JobList,    \* `files' as stage 3 of main() leaves it (sorted by name)
    MaxCrashes  \* bound on crashes of the benchmark process

JobSet == ToSet(JobList)
NoJob  == Job("", 0, "", 0)

\* The content of src/.backup.  Stage 3 ends with save_it(files.sort()),
\* and list.sort() returns None: the file holds a pickled None until the
\* first job of process_files is saved.
ListBlob(q) == [kind |-> "list", jobs |-> q]
NoneBlob    == [kind |-> "none", jobs |-> <<>>]
TornBlob    == [kind |-> "torn", jobs |-> <<>>]   \* opened "wb", not yet dumped

VARIABLES
    files,      \* the global list process_files pops from
    pc,         \* where the main thread is
    cur,        \* fi, the job being run
    alarm,      \* "armed" between signal.alarm(3600) and its expiry or alarm(0)
    pending,    \* SIGALRM arrived while the main thread was inside os.system
    proc,       \* the R child of os.system: "running" or "none"
    backup,     \* src/.backup
    crashes,    \* crashes so far
    (* history, for the properties *)
    runs,       \* runs[j]: how often the script of j was started
    reported,   \* the outcomes printed for the current execution of cur
    handled,    \* jobs whose outcome (ok or timeout) has been handled
    pruned      \* jobs removed from the queue by the timeout handler

vars == <<files, pc, cur, alarm, pending, proc, backup, crashes,
          runs, reported, handled, pruned>>

PCs == {"loop", "system", "closeOK", "saveOpen", "saveDump", "exitWith",
        "handler", "hSaveOpen", "hSaveDump", "done", "crashed", "failed"}

\* The main thread is inside the body of `with Timeout(3600):'.
WithBody == {"system", "closeOK", "saveOpen", "saveDump", "exitWith"}
Alive    == PCs \ {"done", "crashed", "failed"}

TypeOK ==
    /\ files \in Seq(JobSet)
    /\ pc \in PCs
    /\ cur \in JobSet \cup {NoJob}
    /\ alarm \in {"armed", "off"}
    /\ pending \in BOOLEAN
    /\ proc \in {"running", "none"}
    /\ backup.kind \in {"list", "none", "torn"}
    /\ backup.jobs \in Seq(JobSet)
    /\ backup.kind # "list" => backup.jobs = <<>>
    /\ crashes \in 0..MaxCrashes
    /\ runs \in [JobSet -> 0..(MaxCrashes + 1)]   \* once per process life
    /\ reported \subseteq {"ok", "timeout"}
    /\ handled \subseteq JobSet
    /\ pruned \subseteq JobSet

Init ==
    /\ files = ListSort(JobList)            \* files.sort(sort_fun)
    /\ pc = "loop"
    /\ cur = NoJob
    /\ alarm = "off"
    /\ pending = FALSE
    /\ proc = "none"
    /\ backup = NoneBlob
    /\ crashes = 0
    /\ runs = [j \in JobSet |-> 0]
    /\ reported = {}
    /\ handled = {}
    /\ pruned = {}

(***************************************************************************)
(* The loop of process_files.                                               *)
(***************************************************************************)
\* Mutant: fi = files[0], the job is read but not popped.
StartJobNoPop ==
    /\ pc = "loop"
    /\ files # <<>>
    /\ cur' = Head(files)
    /\ files' = files
    /\ alarm' = "armed"
    /\ proc' = "running"
    /\ runs' = [runs EXCEPT ![Head(files)] = @ + 1]
    /\ reported' = {}
    /\ pc' = "system"
    /\ UNCHANGED <<pending, backup, crashes, handled, pruned>>

\* fi = files.pop(0); with Timeout(3600): open the sinks, start the watcher,
\* os.system(R < script).  The main thread blocks in os.system.
StartJob ==
    /\ pc = "loop"
    /\ files # <<>>
    /\ cur' = Head(files)
    /\ files' = Tail(files)
    /\ alarm' = "armed"
    /\ proc' = "running"
    /\ runs' = [runs EXCEPT ![Head(files)] = @ + 1]
    /\ reported' = {}
    /\ pc' = "system"
    /\ UNCHANGED <<pending, backup, crashes, handled, pruned>>

\* Mutant: `while len(files) > 1:', the last job is never started.
FinishOffByOne ==
    /\ pc = "loop"
    /\ Len(files) <= 1
    /\ pc' = "done"
    /\ UNCHANGED <<files, cur, alarm, pending, proc, backup, crashes,
                   runs, reported, handled, pruned>>

\* while files: ends; main() then saves state 5.
Finish ==
    /\ pc = "loop"
    /\ files = <<>>
    /\ pc' = "done"
    /\ UNCHANGED <<files, cur, alarm, pending, proc, backup, crashes,
                   runs, reported, handled, pruned>>

\* The R script ends, normally or on an R error; os.system's exit status
\* is not looked at.
ScriptExits ==
    /\ proc = "running"
    /\ proc' = "none"
    /\ UNCHANGED <<files, pc, cur, alarm, pending, backup, crashes,
                   runs, reported, handled, pruned>>

\* SIGALRM.  Inside os.system the Python handler cannot run yet; anywhere
\* else in the with-body raise_timeout raises Timeout.Timeout at once.
AlarmFires ==
    /\ alarm = "armed"
    /\ pc \in WithBody
    /\ alarm' = "off"
    /\ IF pc = "system"
         THEN pending' = TRUE /\ UNCHANGED pc
         ELSE pc' = "handler" /\ UNCHANGED pending
    /\ UNCHANGED <<files, cur, proc, backup, crashes, runs, reported,
                   handled, pruned>>

\* os.system returns once the child is gone; a pending SIGALRM is raised
\* at the first bytecode after it.
SystemReturns ==
    /\ pc = "system"
    /\ proc = "none"
    /\ pc' = IF pending THEN "handler" ELSE "closeOK"
    /\ pending' = FALSE
    /\ UNCHANGED <<files, cur, alarm, proc, backup, crashes, runs,
                   reported, handled, pruned>>

\* Mutant: the OK branch does not call save_it(files).
ReportOKNoSave ==
    /\ pc = "closeOK"
    /\ reported' = reported \cup {"ok"}
    /\ handled' = handled \cup {cur}
    /\ pc' = "exitWith"
    /\ UNCHANGED <<files, cur, alarm, pending, proc, backup, crashes,
                   runs, pruned>>

\* Close the sinks and print " OK".
ReportOK ==
    /\ pc = "closeOK"
    /\ reported' = reported \cup {"ok"}
    /\ handled' = handled \cup {cur}
    /\ pc' = "saveOpen"
    /\ UNCHANGED <<files, cur, alarm, pending, proc, backup, crashes,
                   runs, pruned>>

\* save_it(files): open("src/.backup", "wb") truncates the file ...
SaveOpen(from, to) ==
    /\ pc = from
    /\ backup' = TornBlob
    /\ pc' = to
    /\ UNCHANGED <<files, cur, alarm, pending, proc, crashes, runs,
                   reported, handled, pruned>>

\* ... and pickle.dump + close fill it.
SaveDump(from, to) ==
    /\ pc = from
    /\ backup' = ListBlob(files)
    /\ pc' = to
    /\ UNCHANGED <<files, cur, alarm, pending, proc, crashes, runs,
                   reported, handled, pruned>>

\* Timeout.__exit__: signal.alarm(0).
ExitWith ==
    /\ pc = "exitWith"
    /\ alarm' = "off"
    /\ pc' = "loop"
    /\ UNCHANGED <<files, cur, pending, proc, backup, crashes, runs,
                   reported, handled, pruned>>

\* except Timeout.Timeout: print " Timeout", pkill R, pkill mserver5,
\* sleep, close the sinks, and filter the queue with the pattern built
\* from fi.  save_it(files) follows.
HandleTimeout ==
    /\ pc = "handler"
    /\ reported' = reported \cup {"timeout"}
    /\ handled' = handled \cup {cur}
    /\ proc' = "none"
    /\ files' = PruneQueue(files, cur)
    /\ pruned' = pruned \cup (ToSet(files) \ ToSet(PruneQueue(files, cur)))
    /\ pc' = "hSaveOpen"
    /\ UNCHANGED <<cur, alarm, pending, backup, crashes, runs>>

(***************************************************************************)
(* Crash and resume.                                                        *)
(***************************************************************************)
\* The benchmark process dies (kill, reboot); the memory is lost, the
\* files on disk stay.  Its R child dies with it.
Crash ==
    /\ pc \in Alive
    /\ crashes < MaxCrashes
    /\ crashes' = crashes + 1
    /\ pc' = "crashed"
    /\ files' = <<>>
    /\ cur' = NoJob
    /\ alarm' = "off"
    /\ pending' = FALSE
    /\ proc' = "none"
    /\ UNCHANGED <<backup, runs, reported, handled, pruned>>

\* Mutant: a resume that rebuilds the list of stage 3 instead of loading it.
ResumeFromScratch ==
    /\ pc = "crashed"
    /\ IF backup.kind = "list"
         THEN /\ files' = ListSort(JobList)
              /\ pc' = "loop"
         ELSE /\ pc' = "failed"
              /\ UNCHANGED files
    /\ UNCHANGED <<cur, alarm, pending, proc, backup, crashes, runs,
                   reported, handled, pruned>>

\* main() --resume at state 4: `if resuming and not files: files =
\* load_it()', then process_files sorts it.  A pickled None has no sort()
\* and a truncated pickle does not load: the run dies.
Resume ==
    /\ pc = "crashed"
    /\ IF backup.kind = "list"
         THEN /\ files' = ListSort(backup.jobs)
              /\ pc' = "loop"
         ELSE /\ pc' = "failed"
              /\ UNCHANGED files
    /\ UNCHANGED <<cur, alarm, pending, proc, backup, crashes, runs,
                   reported, handled, pruned>>

MainStep ==
    \/ StartJob \/ Finish \/ SystemReturns \/ ReportOK
    \/ SaveOpen("saveOpen", "saveDump") \/ SaveDump("saveDump", "exitWith")
    \/ ExitWith \/ HandleTimeout
    \/ SaveOpen("hSaveOpen", "hSaveDump") \/ SaveDump("hSaveDump", "loop")

Next ==
    \/ MainStep
    \/ ScriptExits
    \/ AlarmFires
    \/ Crash
    \/ Resume

Spec == Init /\ [][Next]_vars

\* The main thread never stops while it can move, and the kernel delivers an
\* armed SIGALRM.  Whether R scripts end, and whether someone resumes a
\* crashed run, are not the program's to guarantee: the properties that
\* need them state them as hypotheses.
FairSpec == Spec /\ WF_vars(MainStep) /\ WF_vars(AlarmFires)

(***************************************************************************)
(* Properties.                                                              *)
(***************************************************************************)

\* Spec section 5: the checkpoint never shows a job as pending once the loop
\* has moved past it, and never drops a job before its outcome (ok or
\* timeout) has been handled.  It is about the order of files.pop(0), the
\* run, and save_it in both branches of process_files, and about the
\* reload on resume.
CheckpointFaithful ==
    /\ (pc = "loop" /\ backup.kind = "list") => backup.jobs = files
    /\ backup.kind = "list" =>
         \A j \in JobSet \ ToSet(backup.jobs) : j \in handled \cup pruned

\* Spec section 3: a crash costs at most one job of progress, so the number
\* of script runs beyond the first, over all jobs, never exceeds the
\* number of crashes.  It is about where save_it sits in the loop and about
\* resume reading .backup rather than starting the list again.
ReRuns == MapThenSumSet(LAMBDA j : runs[j] - 1, {k \in JobSet : runs[k] > 1})
AtMostOneJobLostPerCrash == ReRuns <= crashes

\* Spec section 7: every execution of a job prints exactly one of ok and
\* timeout.  It is about SIGALRM arriving after " OK" was printed and before
\* Timeout.__exit__ disarms it.
OneOutcomePerRun == Cardinality(reported) <= 1

\* Spec section 4.3: once the budget of a job has expired, the job's R
\* process is terminated.  It is about SIGALRM reaching a main thread that
\* is blocked in os.system.
TimeoutTerminatesJob == pending ~> (proc = "none")

\* Spec section 4.4: after a timeout on (T, K) the pruned queue holds no job
\* of tool T and operation K.  It is about the regular expression the
\* handler builds from the file name.
Sibling(j, fi) == j.tool = fi.tool /\ j.op = fi.op
PruneExact ==
    pc = "hSaveOpen" => \A i \in DOMAIN files : ~Sibling(files[i], cur)

\* Spec sections 2 and 4.1: a killed run resumes where it left off, so after
\* a crash .backup holds a whole job list.  It is about the None stage 3
\* leaves in .backup (save_it(files.sort())) before the first job of
\* process_files is saved, and about save_it opening the file with "wb" and
\* dumping into it in place, which a crash can cut in two.
ResumableAfterCrash == pc = "crashed" => backup.kind = "list"

\* Every job is eventually run to an outcome or pruned, unless the run
\* dies on an unreadable checkpoint; provided every R script ends and a
\* crashed run is resumed.  It is about the loop, the pops and the
\* resume from .backup losing no job.
EveryJobSettled ==
    \A j \in JobSet : <>(j \in handled \cup pruned \/ pc = "failed")
EveryJobSettledIfScriptsEnd ==
    (WF_vars(ScriptExits) /\ WF_vars(Resume)) => EveryJobSettled

(***************************************************************************)
(* Refinement of JobQueue.  The durable queue is what a resume would load  *)
(* from .backup: the pickled list, or, while .backup holds stage 3's None, *)
(* every job.  Between open("wb") and the dump, the queue is the list the  *)
(* live process is about to write; a crash there, or while the None is     *)
(* still in place, loses it.                                               *)
(***************************************************************************)
Lost == pc \in {"crashed", "failed"} /\ backup.kind # "list"

Todo ==
    CASE Lost                   -> {}
      [] backup.kind = "list"   -> ToSet(backup.jobs)
      [] backup.kind = "none"   -> JobSet
      [] OTHER                  -> ToSet(files)

Queue == INSTANCE JobQueue
            WITH Jobs <- JobSet, todo <- Todo, done <- handled \cup pruned,
                 runs <- runs, lost <- Lost

\* Spec sections 3 and 5, as JobQueue states them: process_files starts a
\* script only for a job still in .backup, gives outcomes only to queued
\* jobs, and drops a job from .backup only after its outcome.  It is about
\* the order of pop, run, outcome and save_it in both branches, and about
\* resume loading .backup instead of starting the list again.
ImplementsJobQueue == Queue!QSpec


(***************************************************************************)
(* Spec section 4.4: the queue runs tool by tool in the fixed priority,   *)
(* datasets by cardinality (row count), then the operation kinds in the   *)
(* fixed order selection, projection, projection-selection, grouping,     *)
(* join, then arguments ascending.  The spec does not list the tools'     *)
(* priority, so sort_fun's list is taken for it.  This is about sort_fun  *)
(* (which compares name lengths, answers 1 both ways for different names  *)
(* of one length, and reads only the integer part of the argument), the   *)
(* byte order of the list it sorts at 104 and after load_it at 440, and   *)
(* the pruning filter at 143 keeping the order.                            *)
(***************************************************************************)
SpecOpOrder == <<"sel", "proj", "psel", "group", "join">>

SpecKey(job) == <<IndexIn(ToolOrder, job.tool), job.ds, IndexIn(SpecOpOrder, job.op), job.arg>>

QueueInSpecOrder ==
    \A i, k \in DOMAIN files : i < k => ~SeqLess(SpecKey(files[k]), SpecKey(files[i]))

=============================================================================
