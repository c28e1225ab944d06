-------------------------- MODULE MC_JobScheduler --------------------------
(***************************************************************************)
(* Model-checking instance of JobScheduler: three jobs of one tool on one  *)
(* dataset, two selections (0.01 and 0.5) and one join (0.01), so that a   *)
(* timeout has a sibling to prune and the first job is followed by two.    *)
(* JobList is in the order stage 3's files.sort() leaves the names:        *)
(* "monetinR/n100_join_0.01.R" < "monetinR/n100_sel_0.01.R" <              *)
(* "monetinR/n100_sel_0.5.R".                                               *)
(*                                                                         *)
(* MCJobList4 has a MonetDB.R selection and three monetinR jobs on the    *)
(* datasets n100, n200 and n1000, in the byte order stage 3 leaves them:  *)
(* "MonetDB.R/n200_sel_0.01.R" < "monetinR/n1000_sel_0.01.R" <           *)
(* "monetinR/n100_join_0.01.R" < "monetinR/n200_sel_0.5.R".  sort_fun     *)
(* must move the MonetDB.R job last and n1000 behind n100 and n200, whose  *)
(* names have one length.  A timeout of a monetinR job must leave the     *)
(* MonetDB.R job alone, and the refinement of JobQueue is checked with a  *)
(* job of another tool in the queue.                                       *)
(***************************************************************************)
EXTENDS JobScheduler

MCJobList ==
    << Job("monetinR", 100, "join", 1),
       Job("monetinR", 100, "sel", 1),
       Job("monetinR", 100, "sel", 50) >>

MCJobList4 ==
    << Job("MonetDB.R", 200, "sel", 1),
       Job("monetinR", 1000, "sel", 1),
       Job("monetinR", 100, "join", 1),
       Job("monetinR", 200, "sel", 50) >>

=============================================================================
