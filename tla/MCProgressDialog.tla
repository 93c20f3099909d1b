-------------------------- MODULE MCProgressDialog --------------------------
(***************************************************************************)
(* Three operations, so that one finds what two others have left.          *)
(***************************************************************************)
EXTENDS ProgressDialog

MCHandler == 1..MaxTasks
=============================================================================
