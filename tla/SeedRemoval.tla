---------------------------- MODULE SeedRemoval -----------------------------
(***************************************************************************)
(* drivers/inject/remove.py (the naive bug filter) with                    *)
(* drivers/utils/runtarget.py: the injected program is run on every seed,  *)
(* and the injections that make a seed fail are muted, to be left out of   *)
(* the second injection.                                                   *)
(*                                                                         *)
(* One step per run of the target.  A run is a step because its answer     *)
(* depends on the flags of that run only; but it may be late: runTarget    *)
(* kills it after one second, and a killed run looks like a failed one.    *)
(***************************************************************************)
EXTENDS Target, Naturals

CONSTANTS Seeds,      \* the files of seedsDir
          Programs,   \* what the target may do on a seed
          MaxLate     \* bound on the runs that are killed although they
                      \* would have ended by themselves

(* Only an injection that is on prints "triggered". *)
ASSUME ProgramsRun ==
  \A run \in Programs :
    run \in [SUBSET Index -> Result] /\ \A F \in SUBSET Index : run[F].trig \subseteq F
ASSUME MaxLateNat == MaxLate \in Nat

VARIABLES
  prog,       \* prog[s]: the target on seed s; never changes
  todo,       \* seeds the for loop has not reached
  seed,       \* inputPath
  mute,       \* muteIndices
  triggers,   \* triggered by the last run with "off muteIndices"
  untried,    \* combinations of triggers not enumerated yet
  crashsets,  \* crashsets
  late,       \* runs killed by the timeout although they would have ended
  pc          \* "seed": top of the for loop, "off": top of the while loop,
              \* "sets": in the enumeration, "done", "exit": sys.exit(0)

vars == <<prog, todo, seed, mute, triggers, untried, crashsets, late, pc>>

-----------------------------------------------------------------------------
(* A mistake to detect: a killed run counts as one that passed. *)
RunKilledPasses(F, crash, trig) ==
  \/ /\ crash = prog[seed][F].crash
     /\ trig = prog[seed][F].trig
     /\ UNCHANGED late
  \/ /\ late < MaxLate
     /\ crash = FALSE
     /\ trig \in prog[seed][F].partial
     /\ late' = late + 1

(***************************************************************************)
(* runWithOff with the flags F: the exit code (crash: not 0) and the       *)
(* trigger lines found in stderr.  A late run is killed and has printed a  *)
(* part of its lines only.                                                 *)
(***************************************************************************)
RunWithOff(F, crash, trig) ==
  \/ /\ crash = prog[seed][F].crash
     /\ trig = prog[seed][F].trig
     /\ UNCHANGED late
  \/ /\ late < MaxLate
     /\ crash = TRUE
     /\ trig \in prog[seed][F].partial
     /\ late' = late + 1

Init ==
  /\ prog \in [Seeds -> Programs]
  /\ todo = Seeds
  /\ seed \in Seeds
  /\ mute = {}
  /\ triggers = {}
  /\ untried = {}
  /\ crashsets = {}
  /\ late = 0
  /\ pc = "seed"

(* A mistake to detect: muteIndices starts anew for every seed. *)
NextSeedForgets(s) ==
  /\ pc = "seed"
  /\ s \in todo
  /\ todo' = todo \ {s}
  /\ seed' = s
  /\ mute' = {}
  /\ pc' = "off"
  /\ UNCHANGED <<prog, triggers, untried, crashsets, late>>

(* for i in inputPaths *)
NextSeed(s) ==
  /\ pc = "seed"
  /\ s \in todo
  /\ todo' = todo \ {s}
  /\ seed' = s
  /\ pc' = "off"
  /\ UNCHANGED <<prog, mute, triggers, untried, crashsets, late>>

Return ==
  /\ pc = "seed"
  /\ todo = {}
  /\ pc' = "done"
  /\ UNCHANGED <<prog, todo, seed, mute, triggers, untried, crashsets, late>>

(* The run at the top of the while loop ends with code 0. *)
Passes ==
  /\ pc = "off"
  /\ \E trig \in SUBSET Index : RunWithOff(FlagsOff(mute), FALSE, trig)
  /\ pc' = "seed"
  /\ UNCHANGED <<prog, todo, seed, mute, triggers, untried, crashsets>>

(* A mistake to detect: the exit does not ask whether anything triggered. *)
FailsAndExits ==
  /\ pc = "off"
  /\ \E trig \in SUBSET Index : RunWithOff(FlagsOff(mute), TRUE, trig)
  /\ pc' = "exit"
  /\ UNCHANGED <<prog, todo, seed, mute, triggers, untried, crashsets>>

(* It fails although no injection was triggered. *)
FailsUntriggered ==
  /\ pc = "off"
  /\ RunWithOff(FlagsOff(mute), TRUE, {})
  /\ pc' = "exit"
  /\ UNCHANGED <<prog, todo, seed, mute, triggers, untried, crashsets>>

(* Mistakes to detect: the sizes start at 0; they end below len(triggers).   *)
FailsFromSizeZero ==
  /\ pc = "off"
  /\ \E trig \in (SUBSET Index) \ {{}} :
       /\ RunWithOff(FlagsOff(mute), TRUE, trig)
       /\ triggers' = trig
       /\ untried' = SUBSET trig
  /\ crashsets' = {}
  /\ pc' = "sets"
  /\ UNCHANGED <<prog, todo, seed, mute>>

FailsUpToProperSubsets ==
  /\ pc = "off"
  /\ \E trig \in (SUBSET Index) \ {{}} :
       /\ RunWithOff(FlagsOff(mute), TRUE, trig)
       /\ triggers' = trig
       /\ untried' = (SUBSET trig) \ {{}, trig}
  /\ crashsets' = {}
  /\ pc' = "sets"
  /\ UNCHANGED <<prog, todo, seed, mute>>

(* It fails, and the triggered injections are to be blamed. *)
FailsTriggered ==
  /\ pc = "off"
  /\ \E trig \in (SUBSET Index) \ {{}} :
       /\ RunWithOff(FlagsOff(mute), TRUE, trig)
       /\ triggers' = trig
       /\ untried' = (SUBSET trig) \ {{}}
  /\ crashsets' = {}
  /\ pc' = "sets"
  /\ UNCHANGED <<prog, todo, seed, mute>>

(* Mistakes to detect: combinations in no order; all triggered injections    *)
(* muted for one crash set.                                                  *)
Unordered(S) == S \in untried

(* The next combination: sizes in increasing order. *)
Smallest(S) == S \in untried /\ \A R \in untried : Cardinality(S) <= Cardinality(R)

IsSuper(S) == \E C \in crashsets : C \subseteq S

SkipSuperset(S) ==
  /\ pc = "sets"
  /\ Smallest(S)
  /\ IsSuper(S)
  /\ untried' = untried \ {S}
  /\ UNCHANGED <<prog, todo, seed, mute, triggers, crashsets, late, pc>>

TrySetMutesAll(S) ==
  /\ pc = "sets"
  /\ Smallest(S)
  /\ ~IsSuper(S)
  /\ \E crash \in BOOLEAN, trig \in SUBSET Index :
       /\ RunWithOff(FlagsOn(S), crash, trig)
       /\ crashsets' = IF crash THEN crashsets \cup {S} ELSE crashsets
       /\ mute' = IF crash THEN mute \cup triggers ELSE mute
  /\ untried' = untried \ {S}
  /\ UNCHANGED <<prog, todo, seed, triggers, pc>>

(* "on S" and run; a failure makes S a crash set and mutes it. *)
TrySet(S) ==
  /\ pc = "sets"
  /\ Smallest(S)
  /\ ~IsSuper(S)
  /\ \E crash \in BOOLEAN, trig \in SUBSET Index :
       /\ RunWithOff(FlagsOn(S), crash, trig)
       /\ crashsets' = IF crash THEN crashsets \cup {S} ELSE crashsets
       /\ mute' = IF crash THEN mute \cup S ELSE mute
  /\ untried' = untried \ {S}
  /\ UNCHANGED <<prog, todo, seed, triggers, pc>>

(* All combinations are enumerated: back to the while condition. *)
RunAgain ==
  /\ pc = "sets"
  /\ untried = {}
  /\ pc' = "off"
  /\ UNCHANGED <<prog, todo, seed, mute, triggers, untried, crashsets, late>>

Next ==
  \/ \E s \in Seeds : NextSeed(s)
  \/ Return
  \/ Passes
  \/ FailsUntriggered
  \/ FailsTriggered
  \/ \E S \in SUBSET Index : SkipSuperset(S) \/ TrySet(S)
  \/ RunAgain

Spec == Init /\ [][Next]_vars

(* One sequential script, each of whose steps ends within the timeout. *)
FairSpec == Spec /\ WF_vars(Next)
-----------------------------------------------------------------------------
(* Type correctness of the filter's variables. *)
TypeOK ==
  /\ prog \in [Seeds -> [SUBSET Index -> Result]]
  /\ todo \subseteq Seeds
  /\ seed \in Seeds
  /\ mute \subseteq Index
  /\ triggers \subseteq Index
  /\ untried \subseteq (SUBSET triggers) \ {{}}
  /\ crashsets \subseteq (SUBSET triggers) \ {{}}
  /\ late \in 0..MaxLate
  /\ pc \in {"seed", "off", "sets", "done", "exit"}

Fails(s, F) == prog[s][F].crash

(* A failure cause in the sense of section 3.5 of the paper: all of S are    *)
(* needed for seed s to fail.                                                *)
MinimalCause(s, S) ==
  /\ S # {}
  /\ Fails(s, S)
  /\ \A R \in SUBSET S : R # {} /\ R # S => ~Fails(s, R)

(***************************************************************************)
(* No injection is muted by association: as long as no run was killed      *)
(* late, every muted injection is needed in a failure of some seed.  This  *)
(* is what the enumeration by size and the superset test in removeSeed-    *)
(* Triggers are for.                                                       *)
(***************************************************************************)
MuteJustified ==
  late = 0 =>
    \A i \in mute : \E s \in Seeds, S \in SUBSET Index : i \in S /\ MinimalCause(s, S)

(* A whole round of the enumeration has found nothing to mute. *)
Fruitless == pc = "sets" /\ untried = {} /\ crashsets = {}

(***************************************************************************)
(* A round of the enumeration finds a crash set, so that the while loop    *)
(* makes progress, if the failures of the seed can be reproduced with the  *)
(* injections they printed; or else a run was killed late.                 *)
(***************************************************************************)
CrashExplained ==
  Fruitless /\ late = 0 => ~Reproducible(prog[seed])

(***************************************************************************)
(* And if a round finds none, no later one does: the while loop has no way *)
(* out, neither to the next seed nor to an exit, unless a run is killed    *)
(* late.  So the filter hangs on a seed on which a harmless injection      *)
(* tells of itself and a silent one makes the failure.                     *)
(***************************************************************************)
FruitlessForEver ==
  [](Fruitless /\ late = 0 => [](late = 0 => pc \in {"off", "sets"}))

(***************************************************************************)
(* sys.exit(0) at "seed crashes with no triggering at all" is taken only   *)
(* if the seed makes the program fail without any injection, or a failure  *)
(* of the seed does not tell of its injections, or a run was killed late.  *)
(***************************************************************************)
ExitBlamesProgram ==
  pc = "exit" /\ late = 0 => Fails(seed, {}) \/ ~Reproducible(prog[seed])

(***************************************************************************)
(* Late kills can mute too much but never too little: a seed is left only  *)
(* when it really passes with the unmuted injections on.                   *)
(***************************************************************************)
LastSeedPasses ==
  pc \in {"seed", "done"} /\ todo # Seeds => ~Fails(seed, FlagsOff(mute))

(***************************************************************************)
(* "remove boring injections that are triggered by fuzzing seed(s) and     *)
(* reinject the remaining injections" (driver.py:24), "We drop from con-   *)
(* sideration any injections that crash any seed" (paper, section 4.2):    *)
(* no seed fails with the remaining injections.                            *)
(***************************************************************************)
RemainingPassSeeds ==
  pc = "done" => \A s \in Seeds : ~Fails(s, FlagsOff(mute))

(* Muting an injection never makes seed s fail. *)
Monotone(s) ==
  \A G \in SUBSET Index : \A F \in SUBSET G : Fails(s, F) => Fails(s, G)

(***************************************************************************)
(* The promise does hold for programs in which no injection hides the      *)
(* failure of another one.                                                 *)
(***************************************************************************)
MonotonePassSeeds ==
  pc = "done" /\ (\A s \in Seeds : Monotone(s)) =>
    \A s \in Seeds : ~Fails(s, FlagsOff(mute))

(***************************************************************************)
(* The filter ends, by returning or by giving up, although the while loop  *)
(* has no bound of its own, if the failures of all seeds can be reproduced *)
(* with the injections they printed.                                       *)
(***************************************************************************)
Terminates ==
  (\A s \in Seeds : Reproducible(prog[s])) => <>(pc \in {"done", "exit"})

(***************************************************************************)
(* Up to the first late kill the script does what the abstract filter      *)
(* promises.                                                               *)
(***************************************************************************)
Phase == CASE pc = "seed" -> "idle"
           [] pc \in {"off", "sets"} -> "busy"
           [] OTHER -> pc

Filter == INSTANCE SeedFilter WITH phase <- Phase

ImplementsFilter ==
  Filter!InitFor(Programs) /\ [][late' = 0 => [Filter!Next]_(Filter!vars)]_vars

=============================================================================
