-------------------------- MODULE MCGuardInjection --------------------------
(* Instances of GuardInjection for TLC: the configurations give the bound. *)
EXTENDS GuardInjection
=============================================================================
