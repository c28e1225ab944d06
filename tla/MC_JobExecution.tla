-------------------------- MODULE MC_JobExecution --------------------------
(***************************************************************************)
(* Two MonetDB.R jobs and a monetinR job: the second MonetDB.R job meets  *)
(* a server left by the first when that one fails, and the monetinR job   *)
(* runs after them.  The retry bound 100 is scaled to 2: the control of   *)
(* watch_pid depends only on whether i has passed the bound.              *)
(***************************************************************************)
EXTENDS JobExecution

MCJobTools == <<"MonetDB.R", "MonetDB.R", "monetinR">>

\* With a crash: a MonetDB.R job whose script and server may be orphaned,
\* then a monetinR job whose R watcher may meet the orphaned R.
MCJobToolsCrash == <<"MonetDB.R", "monetinR">>

=============================================================================
