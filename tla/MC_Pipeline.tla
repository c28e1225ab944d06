---------------------------- MODULE MC_Pipeline ----------------------------
(***************************************************************************)
(* Instances of main() for TLC.                                            *)
(*                                                                         *)
(* MCGood: one dataset of 100 rows, selectivity 0.01, joins 0.01 and 0.02. *)
(* Both join tables are non-empty and distinct, so a run has three jobs   *)
(* and stage 0 saves tnames three times, giving a crash three places to    *)
(* cut the join loop.                                                      *)
(*                                                                         *)
(* MCSmall: 50 rows with the same joins; int(50*0.01) is 0, so that size   *)
(* makes no table and tnames is shorter than options.joins.                *)
(*                                                                         *)
(* MCLabels: both datasets, so that a run can mislabel its joins through  *)
(* the skipped size (50 rows) or through hack-resume.py listing the two   *)
(* join tables of n100 in directory order.                                *)
(***************************************************************************)
EXTENDS Pipeline

MCGoodNRow  == <<100>>
MCSmallNRow == <<50>>
MCLabelsNRow == <<50, 100>>
MCJoins     == <<1, 2>>
MCSel       == {1}
MCTools     == {"monetinR"}
MCFamilies  == {"sel", "join"}

=============================================================================
