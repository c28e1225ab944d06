------------------------------ MODULE Pipeline ------------------------------
(***************************************************************************)
(* main() of src/benchmark/benchmark.py: the resumable pipeline of five    *)
(* stages, its two durable files and what a resumed run reloads.           *)
(*                                                                         *)
(*   src/state    the stage counter, written by save_state after a stage;  *)
(*   src/.backup  ONE key shared by the stages: tnames (stage 0), dquery   *)
(*                (stage 2), files.sort() (stage 3) and the job queue      *)
(*                (stage 4), written by save_it.                           *)
(*                                                                         *)
(* A crash may strike between any two steps; the next process is started  *)
(* with --resume and reads src/state, then reloads what each stage needs   *)
(* from src/.backup, guarded by vars().has_key exactly as main() is.       *)
(*                                                                         *)
(* Data is abstracted to what decides the job set: a dataset is its row    *)
(* count n, a join table "n%d_j%d" is the pair (n, int(n*j)), a query list *)
(* is a model value, and only the families "sel" and "join" are kept (the  *)
(* other three are built like "sel" and do not read tnames).  Stage 4 runs *)
(* one job and saves the rest as one step; the steps inside process_files  *)
(* are the subject of JobScheduler.                                        *)
(***************************************************************************)
EXTENDS Integers, Sequences, FiniteSets, SequencesExt, JobFiles

CONSTANTS
    NRow,        \* options.nrow: the row counts, a sequence
    Joins,       \* options.joins: join fractions in hundredths, a sequence
    Sel,         \* options.sel: selectivities in hundredths, a set
    Tools,       \* the tools selected by the flags, a set
    Families,    \* the query families switched on in the bitmask queries
    MaxCrashes,  \* bound on the number of crashes of one history
    UseHackResume \* whether the operator may run hack-resume.py on a crashed run

VARIABLES
    pc,          \* where main() is
    resuming,    \* the local resuming
    defined,     \* which of tnames, dquery the frame has (vars().has_key)
    tnames,      \* ftname -> list of join tables, as n -> Seq(int(n*j))
    dquery,      \* ftname -> family -> qarg -> query list
    files,       \* the global job list
    d, k,        \* the dataset and join loop positions of stage 0
    stateFile,   \* src/state: -1 while absent
    backup,      \* src/.backup: [kind, val]
    csvs,        \* the join-table CSV files under src/, as <<n, int(n*j)>>
    completed,   \* ghost: the jobs run to their end
    crashes      \* ghost: crashes so far

vars == <<pc, resuming, defined, tnames, dquery, files, d, k, stateFile,
          backup, csvs, completed, crashes>>

JoinOn == "join" \in Families

\* The pickled blobs the code writes under src/.backup.
Blob(kind, val) == [kind |-> kind, val |-> val]
Absent == Blob("absent", <<>>)
NoneBlob == Blob("None", <<>>)

EmptyMap == [x \in {} |-> <<>>]

\* dtname = "n%d_j%d" % (n, int(n*j)); j is in hundredths.
JoinTable(n, j) == (n * j) \div 100

(***************************************************************************)
(* Stage 2: the query map built from tnames (benchmark.py 359-403), one   *)
(* entry per dataset of options.nrow.  The join queries of ftname are      *)
(* labelled options.joins[i] for the i-th entry of tnames[ftname],         *)
(* whatever join size that table was made for.                             *)
(***************************************************************************)
\* tnames[ftname] (390) raises KeyError for a dataset tnames has no entry for.
JoinKeyError(tn) == JoinOn /\ ~(Range(NRow) \subseteq DOMAIN tn)

Queries(tn) ==
    [n \in Range(NRow) |->
        [qt \in Families |->
            IF qt = "sel" THEN [s \in Sel |-> "q"]
            ELSE [j \in {Joins[i] : i \in 1..Len(tn[n])} |->
                      tn[n][CHOOSE i \in 1..Len(tn[n]) : Joins[i] = j]]]]

\* Stage 3: one script per dataset, tool, family and qarg (413-432).
ScriptJobs(dq) ==
    UNION {UNION {{Job(t, n, qt, a) : t \in Tools, a \in DOMAIN dq[n][qt]}
                  : qt \in DOMAIN dq[n]} : n \in DOMAIN dq}

TypeOK ==
    /\ pc \in {"setup", "s0start", "s0", "s0end", "s1", "s1b", "s1end",
               "s2", "s2save", "s3", "s3save", "s4", "s4loop",
               "finished", "crashed", "failed"}
    /\ resuming \in BOOLEAN
    /\ defined \subseteq {"tnames", "dquery"}
    /\ d \in 1..(Len(NRow) + 1)
    /\ k \in 0..Len(Joins)
    /\ stateFile \in -1..5
    /\ backup.kind \in {"absent", "tnames", "dquery", "None", "jobs"}
    /\ csvs \subseteq {<<n, JoinTable(n, j)>> : n \in Range(NRow), j \in Range(Joins)}
    /\ crashes \in 0..MaxCrashes

Init ==
    /\ pc = "setup"
    /\ resuming = FALSE
    /\ defined = {}
    /\ tnames = EmptyMap
    /\ dquery = EmptyMap
    /\ files = <<>>
    /\ d = 1 /\ k = 0
    /\ stateFile = -1
    /\ backup = Absent
    /\ csvs = {}
    /\ completed = {}
    /\ crashes = 0

\* A fresh run: the directories, src/options, save_state(0), createDatabase.
Setup ==
    /\ pc = "setup" /\ ~resuming
    /\ stateFile' = 0
    /\ pc' = "s0start"
    /\ UNCHANGED <<csvs, resuming, defined, tnames, dquery, files, d, k, backup,
                   completed, crashes>>

\* tnames = {}; if resuming: tnames = load_it()
Stage0Start ==
    /\ pc = "s0start"
    /\ defined' = defined \cup {"tnames"}
    /\ d' = 1 /\ k' = 0
    /\ IF ~resuming THEN tnames' = EmptyMap /\ pc' = "s0"
       ELSE IF backup.kind = "tnames" THEN tnames' = backup.val /\ pc' = "s0"
       ELSE pc' = "failed" /\ UNCHANGED tnames
    /\ UNCHANGED <<csvs, resuming, dquery, files, stateFile, backup,
                   completed, crashes>>

(***************************************************************************)
(* Stage 0 (benchmark.py 307-340): one step per dataset and per join size, *)
(* each ending in its save_it(tnames).  A dataset is skipped when it is    *)
(* in tnames and either joins are off or it has len(options.joins) tables; *)
(* a join size is skipped when int(n*j) is 0 or its table is listed.      *)
(***************************************************************************)
\* Mutant: a dataset already in tnames is skipped whatever its join tables.
DatasetListed(tn, n) == n \in DOMAIN tn

DatasetDone(tn, n) == n \in DOMAIN tn /\ (~JoinOn \/ Len(tn[n]) = Len(Joins))

\* After the dataset header: into the join loop, or on to the next dataset.
NextAfterDataset ==
    IF JoinOn /\ Joins # <<>> THEN k' = 1 /\ d' = d ELSE k' = 0 /\ d' = d + 1

Stage0Dataset ==
    /\ pc = "s0" /\ d <= Len(NRow) /\ k = 0
    /\ LET n == NRow[d] IN
         IF DatasetDone(tnames, n)
         THEN d' = d + 1 /\ UNCHANGED <<k, tnames, backup>>
         ELSE /\ NextAfterDataset
              /\ IF n \in DOMAIN tnames THEN UNCHANGED <<tnames, backup>>
                 ELSE /\ tnames' = tnames @@ (n :> <<>>)
                      /\ backup' = Blob("tnames", tnames')
    /\ UNCHANGED <<csvs, pc, resuming, defined, dquery, files, stateFile,
                   completed, crashes>>

AddTable(tn, n, m) ==
    IF m = 0 \/ m \in Range(tn[n]) THEN tn ELSE [tn EXCEPT ![n] = Append(@, m)]

\* Mutant: the join loop position runs past the last join size.
Stage0JoinNoWrap ==
    /\ pc = "s0" /\ d <= Len(NRow) /\ k >= 1
    /\ LET n == NRow[d] IN
         /\ tnames' = AddTable(tnames, n, JoinTable(n, Joins[k]))
         /\ backup' = IF tnames' = tnames THEN backup ELSE Blob("tnames", tnames')
         /\ csvs' = csvs \cup {<<n, m>> : m \in Range(tnames'[n]) \ Range(tnames[n])}
    /\ k' = k + 1 /\ d' = d
    /\ UNCHANGED <<pc, resuming, defined, dquery, files, stateFile,
                   completed, crashes>>

Stage0Join ==
    /\ pc = "s0" /\ d <= Len(NRow) /\ k >= 1
    /\ LET n == NRow[d] IN
         /\ tnames' = AddTable(tnames, n, JoinTable(n, Joins[k]))
         /\ backup' = IF tnames' = tnames THEN backup ELSE Blob("tnames", tnames')
         /\ csvs' = csvs \cup {<<n, m>> : m \in Range(tnames'[n]) \ Range(tnames[n])}
    /\ IF k = Len(Joins) THEN k' = 0 /\ d' = d + 1 ELSE k' = k + 1 /\ d' = d
    /\ UNCHANGED <<pc, resuming, defined, dquery, files, stateFile,
                   completed, crashes>>

Stage0End ==
    /\ pc = "s0" /\ d > Len(NRow)
    /\ stateFile' = 1
    /\ pc' = "s1"
    /\ UNCHANGED <<csvs, resuming, defined, tnames, dquery, files, d, k, backup,
                   completed, crashes>>

(***************************************************************************)
(* Stage 1 (346-352): importDataset into MonetDB, then into SQLite, then   *)
(* save_state(2).  Each import runs the concatenated CREATE TABLE and      *)
(* COPY/.import scripts against the store as it is.                        *)
(***************************************************************************)
Import(s, from, to) ==
    /\ pc = from
    /\ pc' = to
    /\ UNCHANGED <<csvs, resuming, defined, tnames, dquery, files, d, k, stateFile,
                   backup, completed, crashes>>

Stage1End ==
    /\ pc = "s1end"
    /\ stateFile' = 2
    /\ pc' = "s2"
    /\ UNCHANGED <<csvs, resuming, defined, tnames, dquery, files, d, k, backup,
                   completed, crashes>>

(***************************************************************************)
(* Stage 2 (354-408): tnames is reloaded when the frame lacks it, the      *)
(* query map is built, save_state(3) is written, and only then            *)
(* save_it(dquery).                                                        *)
(***************************************************************************)
\* if not vars().has_key("tnames"): tnames = load_it() (356), then the loop
\* over options.nrow; a .backup that holds no map (load_it raises) or a
\* dataset with no tnames entry (KeyError at 390) ends the run.
Stage2Queries ==
    /\ pc = "s2"
    /\ LET loaded == "tnames" \in defined \/ backup.kind = "tnames"
           tn     == IF "tnames" \in defined THEN tnames ELSE backup.val
       IN  IF ~loaded \/ JoinKeyError(tn)
           THEN pc' = "failed" /\ UNCHANGED <<defined, tnames, dquery, stateFile>>
           ELSE /\ tnames' = tn
                /\ dquery' = Queries(tn)
                /\ defined' = defined \cup {"tnames", "dquery"}
                /\ stateFile' = 3
                /\ pc' = "s2save"
    /\ UNCHANGED <<csvs, resuming, files, d, k, backup, completed, crashes>>

Stage2Save ==
    /\ pc = "s2save"
    /\ backup' = Blob("dquery", dquery)
    /\ pc' = "s3"
    /\ UNCHANGED <<csvs, resuming, defined, tnames, dquery, files, d, k, stateFile,
                   completed, crashes>>

(***************************************************************************)
(* Stage 3 (410-437): dquery is reloaded on a resume that lacks it; one R  *)
(* script per job; save_state(4); then save_it(files.sort()), which       *)
(* pickles the None that list.sort returns.  A reloaded blob that is a     *)
(* tnames map makes dquery[ftname] a list: a non-empty one fails with a    *)
(* TypeError at dquery[ftname][qt], an empty one yields no scripts.        *)
(***************************************************************************)
LoadedJobs ==
    CASE backup.kind = "dquery" -> ScriptJobs(backup.val)
      [] OTHER                  -> {}

LoadFails ==
    \/ backup.kind \notin {"dquery", "tnames"}
    \/ backup.kind = "tnames" /\ \E n \in DOMAIN backup.val : backup.val[n] # <<>>

Stage3Scripts ==
    /\ pc = "s3"
    /\ IF resuming /\ "dquery" \notin defined
       THEN IF LoadFails
            THEN pc' = "failed" /\ UNCHANGED <<files, stateFile>>
            ELSE files' = NameSort(LoadedJobs) /\ stateFile' = 4 /\ pc' = "s3save"
       ELSE files' = NameSort(ScriptJobs(dquery)) /\ stateFile' = 4 /\ pc' = "s3save"
    /\ UNCHANGED <<csvs, resuming, defined, tnames, dquery, d, k, backup,
                   completed, crashes>>

Stage3Save ==
    /\ pc = "s3save"
    /\ backup' = NoneBlob
    /\ pc' = "s4"
    /\ UNCHANGED <<csvs, resuming, defined, tnames, dquery, files, d, k, stateFile,
                   completed, crashes>>

(***************************************************************************)
(* Stage 4 (439-443): if resuming and not files: files = load_it(); then   *)
(* process_files sorts and runs the queue, saving the rest after each job; *)
(* then save_state(5).  files.sort on a None or a dict raises.            *)
(***************************************************************************)
Stage4Start ==
    /\ pc = "s4"
    /\ IF resuming /\ files = <<>>
       THEN IF backup.kind = "jobs"
            THEN files' = ListSort(backup.val) /\ pc' = "s4loop"
            ELSE pc' = "failed" /\ UNCHANGED files
       ELSE files' = ListSort(files) /\ pc' = "s4loop"
    /\ UNCHANGED <<csvs, resuming, defined, tnames, dquery, d, k, stateFile, backup,
                   completed, crashes>>

\* Mutant: the head is run but not popped (files[0] for files.pop(0)).
RunJobNoPop ==
    /\ pc = "s4loop" /\ files # <<>>
    /\ completed' = completed \cup {Head(files)}
    /\ backup' = Blob("jobs", files)
    /\ UNCHANGED <<csvs, pc, resuming, defined, tnames, dquery, files, d, k,
                   stateFile, crashes>>

RunJob ==
    /\ pc = "s4loop" /\ files # <<>>
    /\ completed' = completed \cup {Head(files)}
    /\ files' = Tail(files)
    /\ backup' = Blob("jobs", files')
    /\ UNCHANGED <<csvs, pc, resuming, defined, tnames, dquery, d, k, stateFile,
                   crashes>>

Stage4End ==
    /\ pc = "s4loop" /\ files = <<>>
    /\ stateFile' = 5
    /\ pc' = "finished"
    /\ UNCHANGED <<csvs, resuming, defined, tnames, dquery, files, d, k, backup,
                   completed, crashes>>

(***************************************************************************)
(* The process dies (a kill, a power loss, any uncaught exception of an    *)
(* external step); the files on disk stay as they are.                     *)
(***************************************************************************)
Crash ==
    /\ pc \notin {"finished", "failed", "crashed"}
    /\ crashes < MaxCrashes
    /\ crashes' = crashes + 1
    /\ pc' = "crashed"
    /\ UNCHANGED <<csvs, resuming, defined, tnames, dquery, files, d, k, stateFile,
                   backup, completed>>

\* --resume (219-229, 292-295): src/options and src/state are read, the
\* frame is new, and main() enters the stage the counter names.
StagePC == <<"s0start", "s1", "s2", "s3", "s4", "finished">>

Resume ==
    /\ pc = "crashed"
    /\ IF stateFile = -1
       THEN pc' = "failed"
       ELSE pc' = StagePC[stateFile + 1]
    /\ resuming' = TRUE
    /\ defined' = {}
    /\ tnames' = EmptyMap /\ dquery' = EmptyMap
    /\ files' = <<>>
    /\ d' = 1 /\ k' = 0
    /\ UNCHANGED <<csvs, stateFile, backup, completed, crashes>>

(***************************************************************************)
(* src/benchmark/hack-resume.py, run by hand on a crashed run (its         *)
(* __main__: hack1-3 are commented out).  find_tname walks src/ and, for   *)
(* each join CSV "n%d_j%d.csv", appends the table to the list of its      *)
(* dataset in the order os.walk yields the files, which is the directory's *)
(* order, not the order of options.joins.  A dataset with no join CSV gets *)
(* no entry.  The map is saved to .backup and state 2 to src/state.  It is *)
(* meant for a run whose datasets are generated and imported (state >= 2). *)
(***************************************************************************)
WalkOrders(cs) ==
    LET Ns == {c[1] : c \in cs}
        tables(n) == {c[2] : c \in {x \in cs : x[1] = n}}
    IN  {tn \in [Ns -> UNION {SetToSeqs(tables(n)) : n \in Ns}] :
            \A n \in Ns : Range(tn[n]) = tables(n)}

HackResume ==
    /\ UseHackResume
    /\ pc = "crashed" /\ stateFile >= 2
    /\ \E tn \in WalkOrders(csvs) : backup' = Blob("tnames", tn)
    /\ stateFile' = 2
    /\ UNCHANGED <<csvs, pc, resuming, defined, tnames, dquery, files, d, k,
                   completed, crashes>>

MainStep ==
    \/ Setup \/ Stage0Start \/ Stage0Dataset \/ Stage0Join \/ Stage0End
    \/ Import("monetdb", "s1", "s1b") \/ Import("sqlite", "s1b", "s1end")
    \/ Stage1End \/ Stage2Queries \/ Stage2Save \/ Stage3Scripts \/ Stage3Save
    \/ Stage4Start \/ RunJob \/ Stage4End

Next == MainStep \/ Crash \/ Resume \/ HackResume

Spec == Init /\ [][Next]_vars

\* The process runs alone and the main thread never waits on anything but
\* the external steps the model makes atomic.
FairSpec == Spec /\ WF_vars(MainStep)

(***************************************************************************)
(* What an uninterrupted run produces: for each dataset, the distinct      *)
(* non-zero int(n*j) in the order of options.joins.                        *)
(***************************************************************************)
RefTables(n) ==
    LET m(i) == JoinTable(n, Joins[i])
        keep(i) == m(i) > 0 /\ \A h \in 1..(i - 1) : m(h) # m(i)
        idx == SelectSeq([i \in 1..Len(Joins) |-> i], keep)
    IN  [p \in DOMAIN idx |-> m(idx[p])]

RefTnames == [n \in Range(NRow) |-> IF JoinOn THEN RefTables(n) ELSE <<>>]

UninterruptedJobs == ScriptJobs(Queries(RefTnames))

(***************************************************************************)
(* Resume idempotence (main(), stages 0-4): a run that reaches the end,    *)
(* through any crashes and resumes, has run exactly the jobs of a run that *)
(* never crashed.  It rests on the stage-0 skip test and the "dtname in    *)
(* tnames" test rebuilding the same tnames from a partial one.            *)
(***************************************************************************)
FinishedRunCompletedAllJobs == pc = "finished" => completed = UninterruptedJobs

(***************************************************************************)
(* A crashed run is resumed until it finishes or dies of an unreadable     *)
(* checkpoint: no stage loop of main() spins.  Resuming is the operator's  *)
(* act, so it is a hypothesis.                                             *)
(***************************************************************************)
PipelineTerminates ==
    WF_vars(Resume) => <>(pc \in {"finished", "failed"})

(***************************************************************************)
(* Spec section 2: a killed run resumes where it left off.  Whenever the  *)
(* process is down, src/.backup holds what the resume at the stage        *)
(* src/state names will load: tnames at 0 (305) and 2 (356), the query    *)
(* map at 3 (412), a job list at 4 (440).                                  *)
(***************************************************************************)
ExpectedKind(s) == IF s = 3 THEN "dquery" ELSE IF s = 4 THEN "jobs" ELSE "tnames"

ResumeFindsItsCheckpoint ==
    (pc = "crashed" /\ stateFile \in 0..4) => backup.kind = ExpectedKind(stateFile)

(***************************************************************************)
(* The join query labelled j of dataset n (392) reads the table made for   *)
(* that j, "n%d_j%d" % (n, int(n*j)).                                      *)
(***************************************************************************)
JoinLabelsMatchTables ==
    \A n \in DOMAIN dquery :
        "join" \in DOMAIN dquery[n] =>
            \A j \in DOMAIN dquery[n]["join"] : dquery[n]["join"][j] = JoinTable(n, j)

=============================================================================
