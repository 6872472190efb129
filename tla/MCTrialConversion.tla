-------------------------- MODULE MCTrialConversion --------------------------
(* Instances of TrialConversion for TLC. *)
EXTENDS TrialConversion
=============================================================================
