----------------------------- MODULE SeedFilter -----------------------------
(***************************************************************************)
(* What the naive bug filter promises (driver.py -r; section 4.2 of the    *)
(* paper): seeds are taken one by one; an injection is dropped only as a   *)
(* member of a failure cause of the seed at hand, that is a set of         *)
(* injections that fails the seed when all of them are on and does not     *)
(* with fewer (section 3.5); a seed is left only when it passes with       *)
(* everything but the dropped injections switched on; a seed is given up   *)
(* if it fails without any injection, or if the triggered lines of a       *)
(* failure do not tell which injections it takes.                          *)
(***************************************************************************)
EXTENDS Target

CONSTANT Seeds

VARIABLES prog,   \* prog[s][F].crash: seed s fails when exactly F is on
          todo,   \* the seeds not taken yet
          seed,   \* the seed at hand
          mute,   \* the injections dropped so far
          phase   \* "idle", "busy", "done", "exit"

vars == <<prog, todo, seed, mute, phase>>

Fails(s, F) == prog[s][F].crash

(* S is an individual or a combination cause of seed s. *)
Cause(s, S) ==
  /\ S # {}
  /\ Fails(s, S)
  /\ \A R \in SUBSET S : R # {} /\ R # S => ~Fails(s, R)

InitFor(Programs) ==
  /\ prog \in [Seeds -> Programs]
  /\ todo = Seeds
  /\ seed \in Seeds
  /\ mute = {}
  /\ phase = "idle"

Take(s) ==
  /\ phase = "idle"
  /\ s \in todo
  /\ todo' = todo \ {s}
  /\ seed' = s
  /\ phase' = "busy"
  /\ UNCHANGED <<prog, mute>>

Drop(S) ==
  /\ phase = "busy"
  /\ S \subseteq Index
  /\ Cause(seed, S)
  /\ mute' = mute \cup S
  /\ UNCHANGED <<prog, todo, seed, phase>>

Pass ==
  /\ phase = "busy"
  /\ ~Fails(seed, Index \ mute)
  /\ phase' = "idle"
  /\ UNCHANGED <<prog, todo, seed, mute>>

Finish ==
  /\ phase = "idle"
  /\ todo = {}
  /\ phase' = "done"
  /\ UNCHANGED <<prog, todo, seed, mute>>

(* Gives up on a seed that the program fails without any injection, or of    *)
(* whose failures one cannot be blamed on the injections it printed.         *)
GiveUp ==
  /\ phase = "busy"
  /\ Fails(seed, {}) \/ ~Reproducible(prog[seed])
  /\ phase' = "exit"
  /\ UNCHANGED <<prog, todo, seed, mute>>

Next ==
  \/ \E s \in Seeds : Take(s)
  \/ \E S \in SUBSET Index : Drop(S)
  \/ Pass
  \/ Finish
  \/ GiveUp

=============================================================================
