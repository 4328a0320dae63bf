------------------------------ MODULE MCReplay ------------------------------
(***************************************************************************)
(* Replay for the model checker: pages of five commits, posted in chunks   *)
(* of three, so that a page ends in a smaller chunk, and one blank commit. *)
(***************************************************************************)
EXTENDS Replay
=============================================================================
