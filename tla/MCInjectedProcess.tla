------------------------- MODULE MCInjectedProcess -------------------------
(* Instances of InjectedProcess for TLC: the configuration gives the        *)
(* constants.                                                               *)
EXTENDS InjectedProcess
=============================================================================
