------------------------------- MODULE Target -------------------------------
(***************************************************************************)
(* The injected program, as the Python drivers see it when they run it on  *)
(* one seed: which injections are switched on goes in (the environment     *)
(* variable FIXREVERTER), an exit code and the printed "triggered" lines   *)
(* come out.                                                               *)
(*                                                                         *)
(* A deterministic run on a fixed seed is a decision tree.  The only thing *)
(* the flags influence is the outcome of an injected guard, so a run is a  *)
(* path that ends normally or in a crash, and branches at the guards whose *)
(* outcome the injection would change.  Most of these guards tell, with a  *)
(* "triggered" line, that they do; those that fault do not.                *)
(***************************************************************************)
EXTENDS FiniteSets

CONSTANT Index   \* the indices of the injections in inject.json

ASSUME IndexFinite == IsFiniteSet(Index)

(* A mistake to detect: "off" has no effect. *)
FlagsOffIgnored(listed) == Index

(***************************************************************************)
(* setFixReverterFlags: the flags after "off l1 l2 ..." and "on l1 l2 ..." *)
(***************************************************************************)
FlagsOff(listed) == Index \ listed
FlagsOn(listed)  == Index \cap listed

(***************************************************************************)
(* What a run shows: whether it fails, the injections whose "triggered     *)
(* bug index" line it prints, and what it may have printed if it is killed *)
(* half way.                                                               *)
(***************************************************************************)
Result == [crash : BOOLEAN, trig : SUBSET Index, partial : SUBSET SUBSET Index]

(* The rest of the run meets no guard that an injection can change. *)
Ends(crashes) ==
  [F \in SUBSET Index |-> [crash |-> crashes, trig |-> {}, partial |-> {{}}]]

(***************************************************************************)
(* The run reaches the instrumented condition of injection i, with values  *)
(* for which the injected condition and the original one differ.  With the *)
(* flag off the original branch is taken and nothing is printed; with the  *)
(* flag on "triggered" is printed and the other branch is taken.           *)
(***************************************************************************)
Guard(i, on, off) ==
  [F \in SUBSET Index |->
     IF i \in F
     THEN [on[F] EXCEPT !.trig = @ \cup {i},
                        !.partial = {{}} \cup {P \cup {i} : P \in @}]
     ELSE off[F]]

(***************************************************************************)
(* The run reaches the condition of injection i with values for which one  *)
(* of its two forms faults.  Neither course prints "triggered": the check  *)
(* of a COND_ABORT faults before it prints, the injected condition of a    *)
(* COND_EXEC when only "reached" is printed; and a clause that faults with *)
(* the flag off may be the one that the flag drops.                        *)
(***************************************************************************)
SilentGuard(i, on, off) == [F \in SUBSET Index |-> IF i \in F THEN on[F] ELSE off[F]]

FaultingGuards(i, rest) ==
  {SilentGuard(i, Ends(TRUE), r) : r \in rest} \cup {SilentGuard(i, r, Ends(TRUE)) : r \in rest}

(* Every program in which each injection of U decides at most once. *)
Trees[U \in SUBSET Index] ==
  {Ends(TRUE), Ends(FALSE)} \cup
  UNION {LET rest == Trees[U \ {i}]
         IN  {Guard(i, on, off) : on, off \in rest} \cup FaultingGuards(i, rest) : i \in U}

(***************************************************************************)
(* A failing run fails again with some of its flags switched off, as long  *)
(* as the injections it printed as triggered stay on.  The drivers rely on *)
(* this without saying so: they re-run a failure with subsets of the       *)
(* triggered injections only.  A silent guard can break it.                *)
(***************************************************************************)
Reproducible(run) ==
  \A F \in SUBSET Index : \A G \in SUBSET F :
    run[F].crash /\ run[F].trig \subseteq G => run[G].crash
=============================================================================
