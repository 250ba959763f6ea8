------------------------- MODULE SeedRemoval_proof --------------------------
(***************************************************************************)
(* Proofs about SeedRemoval, for all finite sets of injections, all sets   *)
(* of seeds and every target, also one that fails without telling why.     *)
(***************************************************************************)
EXTENDS SeedRemoval, FiniteSetTheorems, TLAPS

(* TypeOK, with the fact that a target stays the one it was.                 *)
TypeInv == TypeOK /\ prog \in [Seeds -> Programs]

(***************************************************************************)
(* The inductive invariant.  In the enumeration, as long as no run was     *)
(* killed late: before anything is muted, the triggers are those of a      *)
(* failure with the injections that are not muted; every set tried that    *)
(* fails the seed is covered by a crash set; crash sets are minimal causes.*)
(***************************************************************************)
OffRun == prog[seed][FlagsOff(mute)]

TriggersTold ==
  pc = "sets" /\ late = 0 =>
    triggers # {} /\ (crashsets = {} => OffRun.crash /\ OffRun.trig = triggers)

TriedCovered ==
  pc = "sets" /\ late = 0 =>
    \A S \in SUBSET triggers : S # {} /\ S \notin untried /\ Fails(seed, S) => IsSuper(S)

CrashsetsMinimal == pc = "sets" /\ late = 0 => \A C \in crashsets : MinimalCause(seed, C)

IInv == TypeInv /\ TriggersTold /\ TriedCovered /\ CrashsetsMinimal /\ MuteJustified

-----------------------------------------------------------------------------
(* Every set of injections is finite. *)
LEMMA SubsetsFinite ==
  ASSUME NEW S \in SUBSET Index
  PROVE  IsFiniteSet(S) /\ Cardinality(S) \in Nat
BY IndexFinite, FS_Subset, FS_CardinalityType

(* A run of a target has a result, and only what is on is triggered. *)
LEMMA RunTriggers ==
  ASSUME TypeInv, NEW s \in Seeds, NEW F \in SUBSET Index
  PROVE  prog[s][F] \in Result /\ prog[s][F].trig \subseteq F
<1>1. prog[s] \in Programs
  BY DEF TypeInv
<1>2. QED
  BY <1>1, ProgramsRun

(* A proper subset of the combination that comes next was enumerated. *)
LEMMA SmallerTried ==
  ASSUME NEW S \in SUBSET Index, Smallest(S), NEW R \in SUBSET S, R # S
  PROVE  R \notin untried
<1>1. IsFiniteSet(S) /\ Cardinality(S) \in Nat
  BY SubsetsFinite
<1>2. Cardinality(R) <= Cardinality(S) /\ Cardinality(R) # Cardinality(S)
  BY <1>1, FS_Subset
<1>3. Cardinality(R) \in Nat
  BY <1>1, FS_Subset, FS_CardinalityType
<1>4. ASSUME R \in untried PROVE FALSE
  <2>1. Cardinality(S) <= Cardinality(R)
    BY <1>4 DEF Smallest
  <2>2. QED
    BY <1>1, <1>2, <1>3, <2>1
<1>5. QED
  BY <1>4

-----------------------------------------------------------------------------
(* The initial states satisfy the typing invariant. *)
LEMMA InitTypeInv == Init => TypeInv
<1>1. SUFFICES ASSUME Init PROVE TypeInv
  OBVIOUS
<1>2. prog \in [Seeds -> [SUBSET Index -> Result]]
  BY <1>1, ProgramsRun DEF Init
<1>3. late \in 0..MaxLate
  BY <1>1, MaxLateNat DEF Init
<1>4. untried \subseteq (SUBSET triggers) \ {{}} /\ crashsets \subseteq (SUBSET triggers) \ {{}}
  BY <1>1 DEF Init
<1>5. QED
  BY <1>1, <1>2, <1>3, <1>4, Zenon DEF Init, TypeInv, TypeOK

(* One run changes nothing but the number of late kills. *)
LEMMA RunTyped ==
  ASSUME TypeInv, NEW F \in SUBSET Index, NEW crash \in BOOLEAN,
         NEW trig \in SUBSET Index, RunWithOff(F, crash, trig)
  PROVE  /\ late' \in 0..MaxLate
         /\ late' = 0 => /\ late = 0
                         /\ crash = prog[seed][F].crash
                         /\ trig = prog[seed][F].trig
BY MaxLateNat DEF TypeInv, TypeOK, RunWithOff

(* A passing run, late kills or not, is a real one. *)
LEMMA PassesReal ==
  ASSUME Passes
  PROVE  ~Fails(seed, FlagsOff(mute))
BY DEF Passes, RunWithOff, Fails

(* The number of late kills never falls back to 0. *)
LEMMA NextLate ==
  ASSUME TypeInv, [Next]_vars, late' = 0
  PROVE  late = 0
BY MaxLateNat DEF TypeInv, TypeOK, Next, NextSeed, Return, Passes, FailsUntriggered, FailsTriggered,
   SkipSuperset, TrySet, RunAgain, RunWithOff, vars

(* Every step preserves the typing invariant. *)
LEMMA NextTypeInv == TypeInv /\ [Next]_vars => TypeInv'
<1> SUFFICES ASSUME TypeInv, [Next]_vars PROVE TypeInv'
  OBVIOUS
<1> USE DEF TypeInv, TypeOK
<1>1. ASSUME NEW s \in Seeds, NextSeed(s) PROVE TypeInv'
  BY <1>1 DEF NextSeed
<1>2. CASE Return
  BY <1>2 DEF Return
<1>3. CASE Passes
  <2>1. late' \in 0..MaxLate
    BY <1>3, MaxLateNat DEF Passes, RunWithOff
  <2>2. QED
    BY <1>3, <2>1 DEF Passes
<1>4. CASE FailsUntriggered
  <2>1. late' \in 0..MaxLate
    BY <1>4, MaxLateNat DEF FailsUntriggered, RunWithOff
  <2>2. QED
    BY <1>4, <2>1 DEF FailsUntriggered
<1>5. CASE FailsTriggered
  <2>1. late' \in 0..MaxLate
    BY <1>5, MaxLateNat DEF FailsTriggered, RunWithOff
  <2>2. /\ triggers' \in SUBSET Index
        /\ untried' \subseteq (SUBSET triggers') \ {{}} /\ crashsets' \subseteq (SUBSET triggers') \ {{}}
    BY <1>5 DEF FailsTriggered
  <2>3. QED
    BY <1>5, <2>1, <2>2 DEF FailsTriggered
<1>6. ASSUME NEW S \in SUBSET Index, SkipSuperset(S) PROVE TypeInv'
  BY <1>6 DEF SkipSuperset
<1>7. ASSUME NEW S \in SUBSET Index, TrySet(S) PROVE TypeInv'
  <2>1. PICK crash \in BOOLEAN, trig \in SUBSET Index :
          /\ RunWithOff(FlagsOn(S), crash, trig)
          /\ crashsets' = IF crash THEN crashsets \cup {S} ELSE crashsets
          /\ mute' = IF crash THEN mute \cup S ELSE mute
    BY <1>7 DEF TrySet
  <2>2. late' \in 0..MaxLate
    BY <2>1, MaxLateNat DEF RunWithOff
  <2>3. S \in untried
    BY <1>7 DEF TrySet, Smallest
  <2>4. crashsets' \subseteq (SUBSET triggers) \ {{}} /\ mute' \subseteq Index
    BY <2>1, <2>3
  <2>5. QED
    BY <1>7, <2>2, <2>4 DEF TrySet
<1>8. CASE RunAgain
  BY <1>8 DEF RunAgain
<1>9. CASE UNCHANGED vars
  BY <1>9 DEF vars
<1>10. QED
  BY <1>1, <1>2, <1>3, <1>4, <1>5, <1>6, <1>7, <1>8, <1>9 DEF Next

(***************************************************************************)
(* The variables of the filter keep their types, in every behaviour.       *)
(***************************************************************************)
THEOREM TypeCorrect == Spec => []TypeOK
<1>1. TypeInv => TypeOK
  BY DEF TypeInv
<1>2. QED
  BY InitTypeInv, NextTypeInv, <1>1, PTL DEF Spec
-----------------------------------------------------------------------------
(* Nothing is muted, and nothing enumerated, at the start. *)
LEMMA InitIInv == Init => IInv
<1>1. SUFFICES ASSUME Init PROVE IInv
  OBVIOUS
<1>2. TypeInv
  BY <1>1, InitTypeInv
<1>3. QED
  BY <1>1, <1>2 DEF Init, IInv, TriggersTold, TriedCovered, CrashsetsMinimal, MuteJustified

(* A round starts with the triggers of a failure, and no set is tried. *)
LEMMA FailsTriggeredIInv ==
  ASSUME IInv, FailsTriggered, TypeInv'
  PROVE  IInv'
<1>1. PICK trig \in (SUBSET Index) \ {{}} :
        /\ RunWithOff(FlagsOff(mute), TRUE, trig)
        /\ triggers' = trig
        /\ untried' = (SUBSET trig) \ {{}}
  BY DEF FailsTriggered
<1>2. UNCHANGED <<prog, seed, mute>> /\ crashsets' = {} /\ pc' = "sets"
  BY DEF FailsTriggered
<1>3. FlagsOff(mute) \in SUBSET Index /\ seed \in Seeds
  BY DEF FlagsOff, IInv, TypeInv, TypeOK
<1>4. late' = 0 => late = 0 /\ OffRun.crash /\ OffRun.trig = trig
  BY <1>1, <1>3, RunTyped DEF IInv, OffRun
<1>5. TriggersTold'
  BY <1>1, <1>2, <1>4 DEF TriggersTold, OffRun, FlagsOff
<1>6. TriedCovered' /\ CrashsetsMinimal'
  BY <1>1, <1>2 DEF TriedCovered, CrashsetsMinimal
<1>7. MuteJustified'
  BY <1>2, <1>4 DEF IInv, MuteJustified, MinimalCause, Fails
<1>8. QED
  BY <1>5, <1>6, <1>7 DEF IInv

(* A combination that contains a crash set is covered by it. *)
LEMMA SkipSupersetIInv ==
  ASSUME IInv, NEW S \in SUBSET Index, SkipSuperset(S), TypeInv'
  PROVE  IInv'
<1>1. UNCHANGED <<prog, seed, mute, triggers, crashsets, late, pc>>
  BY DEF SkipSuperset
<1>2. IsSuper(S) /\ untried' = untried \ {S}
  BY DEF SkipSuperset
<1>3. TriggersTold' /\ CrashsetsMinimal' /\ MuteJustified'
  BY <1>1 DEF IInv, TriggersTold, OffRun, FlagsOff, CrashsetsMinimal, MuteJustified,
              MinimalCause, Fails
<1>4. TriedCovered'
  BY <1>1, <1>2 DEF IInv, TriedCovered, IsSuper, Fails
<1>5. QED
  BY <1>3, <1>4 DEF IInv

(***************************************************************************)
(* A combination that fails and covers no crash set is a minimal cause:    *)
(* its proper parts were enumerated, and if one of them failed, a crash    *)
(* set would cover it and so the combination.                              *)
(***************************************************************************)
LEMMA TrySetMinimal ==
  ASSUME IInv, pc = "sets", late = 0, NEW S \in SUBSET Index, Smallest(S),
         ~IsSuper(S), Fails(seed, S)
  PROVE  MinimalCause(seed, S)
<1>1. S # {} /\ S \subseteq triggers
  BY DEF Smallest, IInv, TypeInv, TypeOK
<1>2. ASSUME NEW R \in SUBSET S, R # {}, R # S, Fails(seed, R) PROVE FALSE
  <2>1. R \notin untried
    BY <1>2, SmallerTried
  <2>2. R \in SUBSET triggers
    BY <1>1
  <2>3. IsSuper(R)
    BY <1>2, <2>1, <2>2 DEF IInv, TriedCovered
  <2>4. QED
    BY <2>3 DEF IsSuper
<1>3. QED
  BY <1>1, <1>2 DEF MinimalCause

(* A run with "on S": S is covered afterwards if it fails. *)
LEMMA TrySetIInv ==
  ASSUME IInv, NEW S \in SUBSET Index, TrySet(S), TypeInv'
  PROVE  IInv'
<1>1. PICK crash \in BOOLEAN, trig \in SUBSET Index :
        /\ RunWithOff(FlagsOn(S), crash, trig)
        /\ crashsets' = IF crash THEN crashsets \cup {S} ELSE crashsets
        /\ mute' = IF crash THEN mute \cup S ELSE mute
  BY DEF TrySet
<1>2. /\ pc = "sets" /\ Smallest(S) /\ ~IsSuper(S)
      /\ untried' = untried \ {S}
      /\ UNCHANGED <<prog, seed, triggers, pc>>
  BY DEF TrySet
<1>3. FlagsOn(S) = S /\ seed \in Seeds
  BY DEF FlagsOn, IInv, TypeInv, TypeOK
<1>4. late' = 0 => late = 0 /\ crash = Fails(seed, S)
  BY <1>1, <1>3, MaxLateNat DEF IInv, TypeInv, TypeOK, RunWithOff, Fails
<1>5. late' = 0 /\ crash => MinimalCause(seed, S)
  BY <1>2, <1>4, TrySetMinimal
<1>6. TriggersTold'
  BY <1>1, <1>2, <1>4 DEF IInv, TriggersTold, OffRun, FlagsOff
<1>7. TriedCovered'
  <2>1. SUFFICES ASSUME late' = 0,
                        NEW R \in SUBSET triggers, R # {}, R \notin untried', Fails(seed, R)
                 PROVE  \E C \in crashsets' : C \subseteq R
    BY <1>2 DEF TriedCovered, IsSuper, Fails
  <2>2. CASE R = S
    BY <1>1, <1>4, <2>1, <2>2
  <2>3. CASE R # S
    BY <1>1, <1>2, <1>4, <2>1, <2>3 DEF IInv, TriedCovered, IsSuper
  <2>4. QED
    BY <2>2, <2>3
<1>8. CrashsetsMinimal'
  <2>1. SUFFICES ASSUME late' = 0, NEW C \in crashsets' PROVE MinimalCause(seed, C)
    BY <1>2 DEF CrashsetsMinimal, MinimalCause, Fails
  <2>2. C \in crashsets \/ (crash /\ C = S)
    BY <1>1
  <2>3. QED
    BY <1>2, <1>4, <1>5, <2>1, <2>2 DEF IInv, CrashsetsMinimal
<1>9. MuteJustified'
  <2>1. SUFFICES ASSUME late' = 0, NEW i \in mute'
                 PROVE  \E s \in Seeds, R \in SUBSET Index : i \in R /\ MinimalCause(s, R)
    BY <1>2 DEF MuteJustified, MinimalCause, Fails
  <2>2. i \in mute \/ (crash /\ i \in S)
    BY <1>1
  <2>3. QED
    BY <1>3, <1>4, <1>5, <2>1, <2>2 DEF IInv, MuteJustified
<1>10. QED
  BY <1>6, <1>7, <1>8, <1>9 DEF IInv

(* The steps outside the enumeration leave it empty. *)
LEMMA OtherIInv ==
  ASSUME IInv, TypeInv', pc' # "sets", UNCHANGED <<prog, mute>>, late' = 0 => late = 0
  PROVE  IInv'
BY DEF IInv, TriggersTold, TriedCovered, CrashsetsMinimal, MuteJustified, MinimalCause, Fails

(* Every step preserves the invariant. *)
LEMMA NextIInv == IInv /\ [Next]_vars => IInv'
<1> SUFFICES ASSUME IInv, [Next]_vars PROVE IInv'
  OBVIOUS
<1>0. TypeInv /\ TypeInv'
  BY NextTypeInv DEF IInv
<1>1. ASSUME NEW s \in Seeds, NextSeed(s) PROVE IInv'
  BY <1>0, <1>1, OtherIInv DEF NextSeed
<1>2. CASE Return
  BY <1>0, <1>2, OtherIInv DEF Return
<1>3. CASE Passes
  <2>1. late' = 0 => late = 0
    BY <1>0, <1>3, RunTyped DEF Passes, FlagsOff
  <2>2. QED
    BY <1>0, <1>3, <2>1, OtherIInv DEF Passes
<1>4. CASE FailsUntriggered
  <2>1. late' = 0 => late = 0
    BY <1>0, <1>4, MaxLateNat DEF FailsUntriggered, RunWithOff, TypeInv, TypeOK
  <2>2. QED
    BY <1>0, <1>4, <2>1, OtherIInv DEF FailsUntriggered
<1>5. CASE FailsTriggered
  BY <1>0, <1>5, FailsTriggeredIInv
<1>6. ASSUME NEW S \in SUBSET Index, SkipSuperset(S) PROVE IInv'
  BY <1>0, <1>6, SkipSupersetIInv
<1>7. ASSUME NEW S \in SUBSET Index, TrySet(S) PROVE IInv'
  BY <1>0, <1>7, TrySetIInv
<1>8. CASE RunAgain
  BY <1>0, <1>8, OtherIInv DEF RunAgain
<1>9. CASE UNCHANGED vars
  BY <1>0, <1>9 DEF vars, IInv, TriggersTold, OffRun, FlagsOff, TriedCovered,
                    CrashsetsMinimal, MuteJustified, MinimalCause, IsSuper, Fails
<1>10. QED
  BY <1>1, <1>2, <1>3, <1>4, <1>5, <1>6, <1>7, <1>8, <1>9 DEF Next

(***************************************************************************)
(* No injection is muted by association.                                   *)
(***************************************************************************)
THEOREM Justified == Spec => []MuteJustified
<1>1. IInv => MuteJustified
  BY DEF IInv
<1>2. QED
  BY InitIInv, NextIInv, <1>1, PTL DEF Spec

(***************************************************************************)
(* A round of the enumeration finds a crash set, if the failures of the    *)
(* seed can be reproduced: all triggers together are tried at the latest.  *)
(***************************************************************************)
THEOREM Explained == Spec => []CrashExplained
<1>1. ASSUME IInv, Fruitless, late = 0, Reproducible(prog[seed]) PROVE FALSE
  <2>1. pc = "sets" /\ untried = {} /\ crashsets = {}
    BY <1>1 DEF Fruitless
  <2>2. triggers # {} /\ OffRun.crash /\ OffRun.trig = triggers
    BY <1>1, <2>1 DEF IInv, TriggersTold
  <2>3. seed \in Seeds /\ FlagsOff(mute) \in SUBSET Index
    BY <1>1 DEF FlagsOff, IInv, TypeInv, TypeOK
  <2>4. triggers \in SUBSET FlagsOff(mute)
    BY <1>1, <2>2, <2>3, RunTriggers DEF IInv, OffRun
  <2>5. Fails(seed, triggers)
    BY <1>1, <2>2, <2>3, <2>4 DEF Reproducible, OffRun, Fails
  <2>6. IsSuper(triggers)
    BY <1>1, <2>1, <2>2, <2>5 DEF IInv, TriedCovered
  <2>7. QED
    BY <2>1, <2>6 DEF IsSuper
<1>2. IInv => CrashExplained
  BY <1>1 DEF CrashExplained
<1>3. QED
  BY InitIInv, NextIInv, <1>2, PTL DEF Spec

(***************************************************************************)
(* The state that the while loop cannot leave: the failure with the        *)
(* unmuted injections is none with any set of the injections it told of,   *)
(* and this round has muted nothing.                                       *)
(***************************************************************************)
Hopeless ==
  /\ pc \in {"off", "sets"}
  /\ OffRun.crash
  /\ OffRun.trig # {}
  /\ \A S \in SUBSET OffRun.trig : S # {} => ~Fails(seed, S)
  /\ pc = "sets" => crashsets = {} /\ triggers = OffRun.trig

(* A round without late kills that found no crash set is hopeless. *)
LEMMA FruitlessHopeless ==
  ASSUME IInv, Fruitless, late = 0
  PROVE  Hopeless
<1>1. pc = "sets" /\ untried = {} /\ crashsets = {}
  BY DEF Fruitless
<1>2. triggers # {} /\ OffRun.crash /\ OffRun.trig = triggers
  BY <1>1 DEF IInv, TriggersTold
<1>3. ASSUME NEW S \in SUBSET triggers, S # {}, Fails(seed, S) PROVE FALSE
  BY <1>1, <1>3 DEF IInv, TriedCovered, IsSuper
<1>4. QED
  BY <1>1, <1>2, <1>3 DEF Hopeless

(* Only a late kill leads out of it. *)
LEMMA NextHopeless ==
  ASSUME TypeInv, Hopeless, [Next]_vars, late' = 0
  PROVE  Hopeless'
<1>0. FlagsOff(mute) \in SUBSET Index /\ seed \in Seeds
  BY DEF FlagsOff, TypeInv, TypeOK
<1>1. CASE Passes
  BY <1>1, PassesReal DEF Hopeless, OffRun, Fails
<1>2. CASE FailsUntriggered
  BY <1>0, <1>2, RunTyped DEF FailsUntriggered, Hopeless, OffRun
<1>3. CASE FailsTriggered
  <2>1. PICK trig \in (SUBSET Index) \ {{}} :
          RunWithOff(FlagsOff(mute), TRUE, trig) /\ triggers' = trig
    BY <1>3 DEF FailsTriggered
  <2>2. trig = OffRun.trig
    BY <1>0, <2>1, RunTyped DEF OffRun
  <2>3. QED
    BY <1>3, <2>1, <2>2 DEF FailsTriggered, Hopeless, OffRun, Fails, FlagsOff
<1>4. ASSUME NEW S \in SUBSET Index, SkipSuperset(S) PROVE Hopeless'
  BY <1>4 DEF SkipSuperset, Hopeless, OffRun, Fails, FlagsOff
<1>5. ASSUME NEW S \in SUBSET Index, TrySet(S) PROVE Hopeless'
  <2>1. PICK crash \in BOOLEAN, trig \in SUBSET Index :
          /\ RunWithOff(FlagsOn(S), crash, trig)
          /\ crashsets' = IF crash THEN crashsets \cup {S} ELSE crashsets
          /\ mute' = IF crash THEN mute \cup S ELSE mute
    BY <1>5 DEF TrySet
  <2>2. FlagsOn(S) = S
    BY DEF FlagsOn
  <2>3. S \in SUBSET OffRun.trig /\ S # {}
    BY <1>5 DEF TrySet, Smallest, Hopeless, TypeInv, TypeOK
  <2>4. crash = Fails(seed, S)
    BY <1>0, <2>1, <2>2, RunTyped DEF Fails
  <2>5. ~crash
    BY <2>3, <2>4 DEF Hopeless
  <2>6. UNCHANGED <<prog, seed, mute, triggers, crashsets, pc>>
    BY <1>5, <2>1, <2>5 DEF TrySet
  <2>7. QED
    BY <2>6 DEF Hopeless, OffRun, Fails, FlagsOff
<1>6. CASE RunAgain
  BY <1>6 DEF RunAgain, Hopeless, OffRun, Fails, FlagsOff
<1>7. CASE UNCHANGED vars
  BY <1>7 DEF vars, Hopeless, OffRun, Fails, FlagsOff
<1>8. QED
  BY <1>1, <1>2, <1>3, <1>4, <1>5, <1>6, <1>7 DEF Next, NextSeed, Return, Hopeless

(***************************************************************************)
(* A round that finds no crash set is repeated for ever, unless a run is   *)
(* killed late.                                                            *)
(***************************************************************************)
THEOREM NeverLeft == Spec => FruitlessForEver
<1> DEFINE Kept == late # 0 \/ Hopeless
           InLoop == late = 0 => pc \in {"off", "sets"}
           Starts == Fruitless /\ late = 0
<1>1. IInv => (Starts => Kept)
  BY FruitlessHopeless
<1>2. IInv /\ Kept /\ [Next]_vars => Kept'
  <2>1. SUFFICES ASSUME IInv, Kept, [Next]_vars, late' = 0 PROVE Hopeless'
    OBVIOUS
  <2>2. late = 0
    BY <2>1, NextLate DEF IInv
  <2>3. QED
    BY <2>1, <2>2, NextHopeless DEF IInv
<1>3. Kept => InLoop
  BY DEF Hopeless
<1> HIDE DEF Kept, InLoop, Starts
<1>4. Spec => [](Starts => []InLoop)
  BY InitIInv, NextIInv, <1>1, <1>2, <1>3, PTL DEF Spec
<1>5. QED
  BY <1>4 DEF Starts, InLoop, FruitlessForEver
-----------------------------------------------------------------------------
(* A run that fails without a trigger fails without any injection, if it can *)
(* be reproduced.                                                            *)
LEMMA UntriggeredFailsAlone ==
  ASSUME IInv, FailsUntriggered, late' = 0
  PROVE  late = 0 /\ (Fails(seed, {}) \/ ~Reproducible(prog[seed]))
<1>1. FlagsOff(mute) \in SUBSET Index /\ seed \in Seeds /\ late \in 0..MaxLate
  BY DEF FlagsOff, IInv, TypeInv, TypeOK
<1>2. /\ late = 0
      /\ prog[seed][FlagsOff(mute)].crash
      /\ prog[seed][FlagsOff(mute)].trig = {}
  BY <1>1, MaxLateNat DEF FailsUntriggered, RunWithOff
<1>3. QED
  BY <1>1, <1>2 DEF Fails, Reproducible

(***************************************************************************)
(* sys.exit(0) is taken only on a seed that fails by itself, or of which a *)
(* failure does not tell of its injections.                                *)
(***************************************************************************)
THEOREM ExitJustified == Spec => []ExitBlamesProgram
<1>1. Init => IInv /\ ExitBlamesProgram
  BY InitIInv DEF Init, ExitBlamesProgram
<1>2. IInv /\ ExitBlamesProgram /\ [Next]_vars => IInv' /\ ExitBlamesProgram'
  <2>1. SUFFICES ASSUME IInv, ExitBlamesProgram, [Next]_vars, pc' = "exit", late' = 0
                 PROVE  (Fails(seed, {}) \/ ~Reproducible(prog[seed]))'
    BY NextIInv DEF ExitBlamesProgram
  <2>2. CASE FailsUntriggered
    BY <2>1, <2>2, UntriggeredFailsAlone DEF FailsUntriggered, Fails
  <2>3. CASE UNCHANGED vars
    BY <2>1, <2>3 DEF vars, ExitBlamesProgram, Fails
  <2>4. QED
    BY <2>1, <2>2, <2>3 DEF Next, NextSeed, Return, Passes, FailsTriggered, SkipSuperset,
                            TrySet, RunAgain
<1>3. QED
  BY <1>1, <1>2, PTL DEF Spec

(***************************************************************************)
(* A seed that was left passes with the unmuted injections on; later       *)
(* mutings do not spoil that if the injections are monotone for the seed.  *)
(***************************************************************************)
LeftPass ==
  \A s \in Seeds \ todo :
    (s # seed \/ pc \in {"seed", "done"}) /\ Monotone(s) => ~Fails(s, FlagsOff(mute))

DoneAll == pc = "done" => todo = {}

(* Muting more keeps a passing monotone seed passing. *)
LEMMA MutedMonotone ==
  ASSUME NEW s, Monotone(s), NEW M, NEW N, M \subseteq N, ~Fails(s, FlagsOff(M))
  PROVE  ~Fails(s, FlagsOff(N))
BY DEF Monotone, FlagsOff

(* Every step keeps the seeds that were left passing. *)
LEMMA NextLeftPass == TypeInv /\ LeftPass /\ [Next]_vars => LeftPass'
<1> SUFFICES ASSUME TypeInv, LeftPass, [Next]_vars,
                    NEW s \in Seeds \ todo',
                    s # seed' \/ pc' \in {"seed", "done"},
                    Monotone(s)'
             PROVE  ~Fails(s, FlagsOff(mute))'
  BY DEF LeftPass
<1>0. UNCHANGED prog
  BY DEF Next, NextSeed, Return, Passes, FailsUntriggered, FailsTriggered, SkipSuperset,
         TrySet, RunAgain, vars
<1>1. Monotone(s)
  BY <1>0 DEF Monotone, Fails
<1>2. SUFFICES ~Fails(s, FlagsOff(mute'))
  BY <1>0 DEF Fails, FlagsOff
<1>3. mute \subseteq mute'
  BY DEF Next, NextSeed, Return, Passes, FailsUntriggered, FailsTriggered, SkipSuperset,
         TrySet, RunAgain, vars
<1>4. CASE Passes
  BY <1>1, <1>4, PassesReal DEF LeftPass, Passes
<1>5. CASE ~Passes
  <2>1. s \notin todo /\ (s # seed \/ pc \in {"seed", "done"})
    BY <1>5 DEF Next, NextSeed, Return, FailsUntriggered, FailsTriggered, SkipSuperset,
                TrySet, RunAgain, vars
  <2>2. QED
    BY <1>1, <1>3, <2>1, MutedMonotone DEF LeftPass
<1>6. QED
  BY <1>4, <1>5

(***************************************************************************)
(* Where no injection hides the failure of another one, the promise of the *)
(* filter holds: no seed fails with the remaining injections.              *)
(***************************************************************************)
THEOREM MonotoneFilter == Spec => []MonotonePassSeeds
<1>1. Init => TypeInv /\ LeftPass /\ DoneAll
  BY InitTypeInv DEF Init, LeftPass, DoneAll
<1>2. DoneAll /\ [Next]_vars => DoneAll'
  BY DEF DoneAll, Next, NextSeed, Return, Passes, FailsUntriggered, FailsTriggered,
         SkipSuperset, TrySet, RunAgain, vars
<1>3. TypeInv /\ LeftPass /\ DoneAll /\ [Next]_vars => TypeInv' /\ LeftPass' /\ DoneAll'
  BY <1>2, NextTypeInv, NextLeftPass
<1>4. TypeInv /\ LeftPass /\ DoneAll => MonotonePassSeeds
  BY DEF LeftPass, DoneAll, MonotonePassSeeds
<1>5. QED
  BY <1>1, <1>3, <1>4, PTL DEF Spec

(***************************************************************************)
(* A seed is left only when it passes with the unmuted injections on,      *)
(* however many runs have been killed late.                                *)
(***************************************************************************)
THEOREM LeftSeedPasses == Spec => []LastSeedPasses
<1>1. Init => LastSeedPasses
  BY DEF Init, LastSeedPasses
<1>2. LastSeedPasses /\ [Next]_vars => LastSeedPasses'
  <2> SUFFICES ASSUME LastSeedPasses, [Next]_vars, pc' \in {"seed", "done"}, todo' # Seeds
               PROVE  ~Fails(seed, FlagsOff(mute))'
    BY DEF LastSeedPasses
  <2>1. CASE Passes
    BY <2>1, PassesReal DEF Passes, Fails, FlagsOff
  <2>2. CASE Return
    BY <2>2 DEF Return, LastSeedPasses, Fails, FlagsOff
  <2>3. CASE UNCHANGED vars
    BY <2>3 DEF vars, LastSeedPasses, Fails, FlagsOff
  <2>4. QED
    BY <2>1, <2>2, <2>3 DEF Next, NextSeed, FailsUntriggered, FailsTriggered, SkipSuperset,
                            TrySet, RunAgain
<1>3. QED
  BY <1>1, <1>2, PTL DEF Spec
-----------------------------------------------------------------------------
(***************************************************************************)
(* Until a run is killed late, the script implements the abstract filter.  *)
(***************************************************************************)
NoLate == late = 0

(* Each step of the script is a step of the filter, or none. *)
LEMMA NextRefines ==
  ASSUME IInv, NoLate', [Next]_vars
  PROVE  [Filter!Next]_(Filter!vars)
<1> USE DEF Filter!Next, Filter!vars
<1>1. ASSUME NEW s \in Seeds, NextSeed(s) PROVE Filter!Take(s)
  BY <1>1 DEF NextSeed, Filter!Take, Phase
<1>2. CASE Return
  BY <1>2 DEF Return, Filter!Finish, Phase
<1>3. CASE Passes
  <2>1. ~Fails(seed, Index \ mute)
    BY <1>3, PassesReal DEF FlagsOff
  <2>2. QED
    BY <1>3, <2>1 DEF Passes, Filter!Pass, Filter!Fails, Fails, Phase
<1>4. CASE FailsUntriggered
  <2>1. Fails(seed, {}) \/ ~Reproducible(prog[seed])
    BY <1>4, UntriggeredFailsAlone DEF NoLate
  <2>2. QED
    BY <1>4, <2>1 DEF FailsUntriggered, Filter!GiveUp, Filter!Fails, Fails, Phase,
                      Filter!Reproducible, Reproducible
<1>5. CASE FailsTriggered
  BY <1>5 DEF FailsTriggered, Phase
<1>6. ASSUME NEW S \in SUBSET Index, SkipSuperset(S) PROVE UNCHANGED Filter!vars
  BY <1>6 DEF SkipSuperset, Phase
<1>7. ASSUME NEW S \in SUBSET Index, TrySet(S) PROVE [Filter!Drop(S)]_(Filter!vars)
  <2>1. PICK crash \in BOOLEAN, trig \in SUBSET Index :
          /\ RunWithOff(FlagsOn(S), crash, trig)
          /\ mute' = IF crash THEN mute \cup S ELSE mute
    BY <1>7 DEF TrySet
  <2>2. pc = "sets" /\ UNCHANGED <<prog, todo, seed, pc>>
    BY <1>7 DEF TrySet
  <2>3. FlagsOn(S) = S
    BY DEF FlagsOn
  <2>4. late = 0 /\ crash = Fails(seed, S)
    BY <2>1, <2>3, RunTyped DEF IInv, Fails, NoLate
  <2>5. CASE crash
    <3>1. MinimalCause(seed, S)
      BY <1>7, <2>2, <2>4, <2>5, TrySetMinimal DEF TrySet
    <3>2. Filter!Cause(seed, S)
      BY <3>1 DEF MinimalCause, Filter!Cause, Filter!Fails, Fails
    <3>3. QED
      BY <2>1, <2>2, <2>5, <3>2 DEF Filter!Drop, Phase
  <2>6. CASE ~crash
    BY <2>1, <2>2, <2>6 DEF Phase
  <2>7. QED
    BY <2>5, <2>6
<1>8. CASE RunAgain
  BY <1>8 DEF RunAgain, Phase
<1>9. CASE UNCHANGED vars
  BY <1>9 DEF vars, Phase
<1>10. QED
  BY <1>1, <1>2, <1>3, <1>4, <1>5, <1>6, <1>7, <1>8, <1>9 DEF Next

(***************************************************************************)
(* The refinement: the script starts where the filter starts, and up to    *)
(* the first late kill each of its steps is one of the filter.             *)
(***************************************************************************)
THEOREM Refinement == Spec => ImplementsFilter
<1>1. Init => Filter!InitFor(Programs)
  BY DEF Init, Filter!InitFor, Phase
<1>2. IInv /\ [Next]_vars => [late' = 0 => [Filter!Next]_(Filter!vars)]_vars
  BY NextRefines DEF NoLate
<1>3. QED
  BY InitIInv, NextIInv, <1>1, <1>2, PTL DEF Spec, ImplementsFilter
=============================================================================
