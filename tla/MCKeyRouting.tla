---------------------------- MODULE MCKeyRouting ----------------------------
(* Instances of KeyRouting for TLC: the keys are model values of the cfgs. *)
EXTENDS KeyRouting
=============================================================================
