--------------------------- MODULE MCFlagRuntime ----------------------------
(* Instances of FlagRuntime for TLC: the configurations give the constants. *)
EXTENDS FlagRuntime
=============================================================================
