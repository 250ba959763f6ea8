------------------------ MODULE GuardInjection_proof ------------------------
(***************************************************************************)
(* Proofs about GuardInjection, for conditions of any length: "triggered"  *)
(* is logged if and only if the injection changes the branch, an injection *)
(* that is off changes nothing, and the checks of COND_EXEC are safe.      *)
(***************************************************************************)
EXTENDS GuardInjection, FiniteSetTheorems, TLAPS

(* The shape of the statement, which no step changes. *)
ShapeOK ==
  /\ pattern \in Patterns
  /\ n \in 1..MaxClauses
  /\ pattern = "COND_EXEC" => n >= 2
  /\ marked \subseteq Clauses
  /\ marked = {} => pattern = "COND_ASSIGN"
  /\ loop \in BOOLEAN /\ on \in BOOLEAN

-----------------------------------------------------------------------------
(* A chain has at most one outcome. *)
LEMMA OutcomeUnique ==
  ASSUME n \in Nat, NEW S \in SUBSET Clauses, NEW r, NEW q, Outcome(S, r), Outcome(S, q)
  PROVE  r = q
<1>1. S \subseteq Nat
  BY DEF Clauses
<1>2. CASE \E i \in S : Stops(i)
  BY <1>1, <1>2 DEF Outcome
<1>3. CASE \A i \in S : ~Stops(i)
  BY <1>3 DEF Outcome
<1> QED
  BY <1>2, <1>3

(* What the two halves of a disjunction say about the whole. *)
LEMMA Disjunction ==
  ASSUME ShapeOK, pattern # "COND_EXEC"
  PROVE  /\ Outcome(Traced, "T") /\ Outcome(Untraced, "F") => Original("T")
         /\ Outcome(Traced, "T") /\ Outcome(Untraced, "T") => Original("T")
         /\ \A r \in {"T", "F"} : Outcome(Traced, "F") /\ Outcome(Untraced, r) => Original(r)
<1>1. /\ Traced \subseteq Clauses /\ Untraced = Clauses \ Traced /\ Clauses \subseteq Nat
  BY DEF ShapeOK, Traced, Untraced, ChooseCondExe, Clauses
<1>2. \A i : Stops(i) <=> vals[i] = "X" \/ vals[i] = "T"
  BY DEF ShapeOK, Stops
<1>3. \A S \in SUBSET Clauses : Outcome(S, "F") <=> \A i \in S : ~Stops(i)
  BY <1>2 DEF Outcome, ShapeOK
<1>4. \A S \in SUBSET Clauses :
        Outcome(S, "T") <=> \E i \in S : vals[i] = "T" /\ \A j \in S : j < i => ~Stops(j)
  BY <1>2 DEF Outcome, ShapeOK
<1>5. Outcome(Traced, "T") /\ Outcome(Untraced, "F") => Original("T")
  BY <1>1, <1>3, <1>4 DEF Original
<1>6. Outcome(Traced, "T") /\ Outcome(Untraced, "T") => Original("T")
  <2> SUFFICES ASSUME Outcome(Traced, "T"), Outcome(Untraced, "T") PROVE Original("T")
    OBVIOUS
  <2>1. PICK i \in Traced : vals[i] = "T" /\ \A j \in Traced : j < i => ~Stops(j)
    BY <1>1, <1>4
  <2>2. PICK k \in Untraced : vals[k] = "T" /\ \A j \in Untraced : j < k => ~Stops(j)
    BY <1>1, <1>4
  <2>3. CASE i < k
    BY <2>1, <2>2, <2>3, <1>1, <1>4 DEF Original
  <2>4. CASE ~(i < k)
    BY <2>1, <2>2, <2>4, <1>1, <1>4 DEF Original
  <2> QED
    BY <2>3, <2>4
<1>7. ASSUME NEW r \in {"T", "F"}, Outcome(Traced, "F"), Outcome(Untraced, r)
      PROVE  Original(r)
  <2>1. CASE r = "F"
    BY <1>7, <2>1, <1>1, <1>3 DEF Original
  <2>2. CASE r = "T"
    BY <1>7, <2>2, <1>1, <1>3, <1>4 DEF Original
  <2> QED
    BY <2>1, <2>2
<1> QED
  BY <1>5, <1>6, <1>7

(* A set of clauses that is not empty has a last one. *)
LEMMA LastExists ==
  ASSUME NEW m \in Nat, NEW S \in SUBSET (1..m), S # {}
  PROVE  \E i \in S : \A j \in S : j <= i
<1> DEFINE After(i) == {j \in S : i < j}
           T == {After(i) : i \in S}
<1> HIDE DEF After, T
<1>1. IsFiniteSet(S)
  <2>1. IsFiniteSet(1..m)
    BY FS_Interval
  <2> QED
    BY <2>1, FS_Subset
<1>2. T \subseteq SUBSET S /\ T # {}
  BY DEF After, T
<1>3. PICK x \in T : \A y \in T : ~(<<y, x>> \in StrictSubsetOrdering(S))
  <2>1. IsWellFoundedOn(StrictSubsetOrdering(S), SUBSET S)
    BY <1>1, FS_StrictSubsetOrderingWellFounded, FS_FiniteSubsetsOfFinite
  <2> QED
    BY <1>2, <2>1, WFMin
<1>4. \A y \in T : ~(y \subseteq x /\ y # x)
  BY <1>2, <1>3 DEF StrictSubsetOrdering
<1>5. PICK i \in S : x = After(i)
  BY DEF T
<1>6. \A j \in S : j \in Nat
  OBVIOUS
<1>7. ASSUME NEW j \in S, ~(j <= i)
      PROVE  FALSE
  <2>1. i \in Nat /\ j \in Nat /\ i < j
    BY <1>6, <1>7
  <2>2. After(j) \subseteq After(i)
    <3> SUFFICES ASSUME NEW k \in S, j < k PROVE i < k
      BY DEF After
    <3>1. i \in Nat /\ j \in Nat /\ k \in Nat
      BY <1>6
    <3> QED
      BY <2>1, <3>1
  <2>3. j \in After(i) /\ j \notin After(j)
    BY <2>1 DEF After
  <2>4. After(j) \in T
    BY DEF T
  <2> QED
    BY <2>2, <2>3, <2>4, <1>4, <1>5
<1> QED
  BY <1>7

(* A COND_EXEC has one traced clause, hence another one that is not.         *)
LEMMA OneTraced ==
  ASSUME ShapeOK, pattern = "COND_EXEC"
  PROVE  /\ \A i, j \in Traced : i = j
         /\ Traced # {}
         /\ Untraced # {}
         /\ Traced \subseteq Clauses /\ Untraced = Clauses \ Traced
<1>1. /\ Traced \subseteq Clauses /\ Untraced = Clauses \ Traced /\ Clauses \subseteq Nat
  <2>1. Traced \subseteq Clauses
    BY DEF ShapeOK, Traced, ChooseCondExe
  <2>2. Clauses \subseteq Nat
    BY DEF Clauses
  <2> QED
    BY <2>1, <2>2 DEF Untraced
<1>2. \A i, j \in Traced : i = j
  BY <1>1 DEF ShapeOK, Traced, ChooseCondExe, Clauses
<1>3. 1 \in Clauses /\ 2 \in Clauses
  BY DEF ShapeOK, Clauses
<1>4. Traced # {}
  <2>1. marked \in SUBSET (1..n) /\ marked # {} /\ n \in Nat
    BY DEF ShapeOK, Clauses
  <2>2. PICK i \in marked : \A j \in marked : j <= i
    BY <2>1, LastExists
  <2> QED
    BY <2>2 DEF Traced, ChooseCondExe
<1> QED
  BY <1>1, <1>2, <1>3, <1>4

(* What the outcomes for a conjunction with one clause dropped say.          *)
LEMMA Conjunction ==
  ASSUME ShapeOK, pattern = "COND_EXEC"
  PROVE  /\ \A r \in Values : Outcome(Untraced, "T") /\ Outcome(Traced, r) => Original(r)
         /\ Outcome(Untraced, "F") => ~Original("T")
         /\ Original("T") => Outcome(Traced, "T")
<1>1. /\ \A i, j \in Traced : i = j
      /\ Traced # {} /\ Untraced # {}
      /\ Traced \subseteq Clauses /\ Untraced = Clauses \ Traced /\ Clauses \subseteq Nat
  BY OneTraced DEF Clauses
<1>2. \A i : Stops(i) <=> vals[i] = "X" \/ vals[i] = "F"
  BY DEF Stops
<1>3. \A S \in SUBSET Clauses : Outcome(S, "T") <=> S # {} /\ \A i \in S : ~Stops(i)
  BY <1>2 DEF Outcome
<1>4. \A S \in (SUBSET Clauses) \ {{}}, r \in {"X", "F"} :
        Outcome(S, r) <=> \E i \in S : vals[i] = r /\ \A j \in S : j < i => ~Stops(j)
  BY <1>2 DEF Outcome
<1>5. ASSUME NEW r \in Values, Outcome(Untraced, "T"), Outcome(Traced, r)
      PROVE  Original(r)
  <2>1. \A i \in Untraced : ~Stops(i)
    BY <1>1, <1>3, <1>5
  <2>2. CASE r = "T"
    BY <1>1, <1>3, <1>5, <2>1, <2>2 DEF Original
  <2>3. CASE r \in {"X", "F"}
    <3>1. PICK i \in Traced : vals[i] = r /\ \A j \in Traced : j < i => ~Stops(j)
      BY <1>1, <1>4, <1>5, <2>3
    <3>2. \A j \in Clauses : j < i => ~Stops(j)
      BY <1>1, <2>1, <3>1
    <3> QED
      BY <1>1, <1>4, <2>3, <3>1, <3>2 DEF Original
  <2> QED
    BY <2>2, <2>3 DEF Values
<1>6. Outcome(Untraced, "F") => ~Original("T")
  BY <1>1, <1>2, <1>3, <1>4 DEF Original
<1>7. Original("T") => Outcome(Traced, "T")
  BY <1>1, <1>3 DEF Original
<1> QED
  BY <1>5, <1>6, <1>7
-----------------------------------------------------------------------------
(* Where the statement is in its visit, and what is known there.             *)
Agree == "triggered" \in log <=> diverged

CheckInv == at = "check" => on /\ pattern # "COND_EXEC" /\ Agree

CondInv ==
  at = "cond" =>
    IF on /\ pattern # "COND_EXEC"
    THEN /\ Outcome(Traced, "T") \/ Outcome(Traced, "F")
         /\ "triggered" \in log
              <=> diverged \/ (Outcome(Traced, "T") /\ Outcome(Untraced, "F"))
    ELSE Agree

BodyInv ==
  at = "body" => /\ pattern = "COND_EXEC" /\ Injected("T")
                 /\ diverged <=> "triggered" \in log \/ Original("F")

AgainInv == at = "again" => pattern = "COND_EXEC"

IInv ==
  /\ ShapeOK /\ TypeOK
  /\ CheckInv /\ CondInv /\ BodyInv /\ AgainInv
  /\ TriggeredIffDiverged /\ OffPreserves /\ ExecCheckSafe

(* The outcomes of the clauses do not change while their values do not.      *)
LEMMA SameOutcomes ==
  ASSUME UNCHANGED <<shape, vals>>
  PROVE  /\ \A r : Original(r)' <=> Original(r)
         /\ \A r : Outcome(Traced, r)' <=> Outcome(Traced, r)
         /\ \A r : Outcome(Untraced, r)' <=> Outcome(Untraced, r)
         /\ \A r : Injected(r)' <=> Injected(r)
         /\ ShapeOK' <=> ShapeOK
<1>1. pattern' = pattern /\ n' = n /\ marked' = marked /\ on' = on /\ vals' = vals /\ loop' = loop
  BY DEF shape
<1> QED
  BY <1>1 DEF Original, Outcome, Stops, Traced, Untraced, ChooseCondExe, Clauses, Injected,
              ShapeOK

(* In a state of the right shape an outcome is unique.                       *)
LEMMA Unique ==
  ASSUME ShapeOK
  PROVE  /\ \A r, q : Original(r) /\ Original(q) => r = q
         /\ \A r, q : Outcome(Traced, r) /\ Outcome(Traced, q) => r = q
         /\ \A r, q : Outcome(Untraced, r) /\ Outcome(Untraced, q) => r = q
<1>1. n \in Nat /\ Traced \in SUBSET Clauses /\ Untraced \in SUBSET Clauses
  <2>1. n \in Nat
    BY DEF ShapeOK
  <2>2. Traced \subseteq Clauses
    BY DEF ShapeOK, Traced, ChooseCondExe
  <2> QED
    BY <2>1, <2>2 DEF Untraced
<1>2. \A S \in SUBSET Clauses : \A r, q : Outcome(S, r) /\ Outcome(S, q) => r = q
  BY <1>1, OutcomeUnique
<1>3. Clauses \in SUBSET Clauses
  OBVIOUS
<1> QED
  BY <1>1, <1>2, <1>3 DEF Original

(* The invariant holds initially. *)
LEMMA InitInv == Init => IInv
BY DEF Init, IInv, ShapeOK, TypeOK, CheckInv, CondInv, BodyInv, AgainInv, TriggeredIffDiverged,
       OffPreserves, ExecCheckSafe, Clauses, Values, Patterns

(* Reaching the statement keeps the invariant. *)
LEMMA EnterInv == IInv /\ (Enter \/ Again) => IInv'
<1> SUFFICES ASSUME IInv, Enter \/ Again PROVE IInv'
  OBVIOUS
<1>1. /\ shape' = shape /\ diverged' = diverged
      /\ at' \in {"check", "cond"} /\ vals' \in [Clauses -> Values]
  BY DEF Enter, Again
<1>2. /\ pattern' = pattern /\ n' = n /\ marked' = marked /\ on' = on /\ loop' = loop
  BY <1>1 DEF shape
<1>3. ShapeOK'
  BY <1>2 DEF IInv, ShapeOK, Clauses
<1>4. log' \subseteq {"reached", "triggered"} /\ Agree'
  <2>1. at \in {"out", "again"}
    BY DEF Enter, Again
  <2>2. log' = log \/ log' = log \cup {"reached"}
    BY DEF Enter, Again
  <2>3. log \subseteq {"reached", "triggered"} /\ Agree
    BY <2>1 DEF IInv, TypeOK, TriggeredIffDiverged, Agree
  <2> QED
    BY <1>1, <2>2, <2>3 DEF Agree
<1>5. TypeOK'
  BY <1>1, <1>2, <1>4 DEF IInv, TypeOK, Clauses
<1>6. CheckInv' /\ CondInv'
  BY <1>1, <1>2, <1>4 DEF IInv, Enter, Again, AgainInv, CheckInv, CondInv, Agree
<1>7. OffPreserves'
  BY <1>1, <1>2 DEF IInv, Enter, Again, OffPreserves
<1> QED
  BY <1>1, <1>3, <1>5, <1>6, <1>7
     DEF IInv, BodyInv, AgainInv, TriggeredIffDiverged, ExecCheckSafe

(* The check before the condition keeps the invariant. *)
LEMMA CheckStepInv == IInv /\ (Check \/ CheckFaults) => IInv'
<1> SUFFICES ASSUME IInv, Check \/ CheckFaults PROVE IInv'
  OBVIOUS
<1>1. /\ UNCHANGED <<shape, vals, diverged>> /\ at = "check"
      /\ at' \in {"cond", "fault"}
      /\ on /\ pattern # "COND_EXEC" /\ ShapeOK /\ Agree
  BY DEF Check, CheckFaults, IInv, CheckInv
<1>2. pattern' = pattern /\ n' = n /\ marked' = marked /\ on' = on /\ loop' = loop
  BY <1>1 DEF shape
<1>3. log' \subseteq {"reached", "triggered"}
  BY DEF IInv, TypeOK, Check, CheckFaults
<1>4. ShapeOK' /\ TypeOK'
  BY <1>1, <1>2, <1>3 DEF IInv, ShapeOK, TypeOK, Clauses
<1>5. CondInv'
  <2>1. CASE Check
    <3>1. Outcome(Traced, "T") \/ Outcome(Traced, "F")
      BY <2>1 DEF Check
    <3>2. "triggered" \in log'
            <=> diverged \/ (Outcome(Traced, "T") /\ Outcome(Untraced, "F"))
      BY <1>1, <2>1, Unique DEF Check, Agree
    <3> QED
      BY <1>1, <1>2, <3>1, <3>2, SameOutcomes DEF CondInv
  <2>2. CASE CheckFaults
    BY <2>2 DEF CheckFaults, CondInv
  <2> QED
    BY <2>1, <2>2
<1> QED
  BY <1>1, <1>2, <1>4, <1>5
     DEF IInv, CheckInv, BodyInv, AgainInv, TriggeredIffDiverged, OffPreserves, ExecCheckSafe

(* Evaluating the condition keeps the invariant. *)
LEMMA ConditionInv == ASSUME NEW r \in Values, IInv, Condition(r) PROVE IInv'
<1>1. /\ UNCHANGED <<shape, vals, log>> /\ at = "cond" /\ ShapeOK /\ Injected(r)
      /\ at' \in {"fault", "body", "out"}
      /\ at' = "fault" <=> r = "X"
      /\ at' = "body" <=> r = "T" /\ pattern = "COND_EXEC"
      /\ diverged' = (diverged \/ \E o \in {"T", "F"} : r # "X" /\ Original(o) /\ o # r)
  BY DEF Condition, IInv
<1>2. pattern' = pattern /\ n' = n /\ marked' = marked /\ on' = on /\ loop' = loop
  BY <1>1 DEF shape
<1>3. ShapeOK' /\ TypeOK'
  BY <1>1, <1>2 DEF IInv, ShapeOK, TypeOK, Clauses
<1>4. CASE ~on
  <2>1. Original(r)
    BY <1>1, <1>4 DEF Injected, Original
  <2>2. ~diverged /\ ~diverged' /\ log = {} /\ log' = {}
    BY <1>1, <1>4, <2>1, Unique DEF IInv, OffPreserves
  <2>3. OffPreserves'
    BY <1>1, <1>2, <2>1, <2>2, SameOutcomes DEF OffPreserves
  <2>4. BodyInv'
    BY <1>1, <1>2, <2>1, <2>2, SameOutcomes, Unique DEF BodyInv
  <2>5. ExecCheckSafe'
    BY <1>1, <2>1, SameOutcomes DEF ExecCheckSafe
  <2> QED
    BY <1>1, <1>3, <2>2, <2>3, <2>4, <2>5
       DEF IInv, CheckInv, CondInv, AgainInv, TriggeredIffDiverged
<1>5. CASE on /\ pattern # "COND_EXEC"
  <2>1. /\ Outcome(Untraced, r)
        /\ Outcome(Traced, "T") \/ Outcome(Traced, "F")
        /\ "triggered" \in log
              <=> diverged \/ (Outcome(Traced, "T") /\ Outcome(Untraced, "F"))
    BY <1>1, <1>5 DEF IInv, CondInv, Injected
  <2>2. r # "X" => ("triggered" \in log' <=> diverged')
    <3> SUFFICES ASSUME r \in {"T", "F"} PROVE "triggered" \in log <=> diverged'
      BY <1>1 DEF Values
    <3>1. CASE Outcome(Traced, "T") /\ r = "F"
      BY <1>1, <1>5, <2>1, <3>1, Disjunction
    <3>2. CASE Outcome(Traced, "F") \/ r = "T"
      <4>1. Original(r)
        <5>1. CASE Outcome(Traced, "F")
          BY <1>1, <1>5, <2>1, <5>1, Disjunction
        <5>2. CASE Outcome(Traced, "T") /\ r = "T"
          BY <1>1, <1>5, <2>1, <5>2, Disjunction
        <5> QED
          BY <2>1, <3>2, <5>1, <5>2
      <4>2. diverged' = diverged
        BY <1>1, <4>1, Unique DEF IInv, TypeOK
      <4>3. ~(Outcome(Traced, "T") /\ Outcome(Untraced, "F"))
        BY <1>1, <2>1, <3>2, Unique
      <4> QED
        BY <2>1, <4>2, <4>3
    <3> QED
      BY <2>1, <3>1, <3>2
  <2> QED
    BY <1>1, <1>2, <1>3, <1>5, <2>2
       DEF IInv, CheckInv, CondInv, BodyInv, AgainInv, TriggeredIffDiverged, OffPreserves,
           ExecCheckSafe
<1>6. CASE on /\ pattern = "COND_EXEC"
  <2>1. Outcome(Untraced, r) /\ Agree
    BY <1>1, <1>6 DEF IInv, CondInv, Injected
  <2>2. r = "F" => diverged' = diverged
    BY <1>1, <1>6, <2>1, Conjunction DEF IInv, TypeOK
  <2>3. r = "T" => (diverged' <=> diverged \/ Original("F"))
    BY <1>1
  <2>4. BodyInv'
    BY <1>1, <1>2, <1>6, <2>1, <2>3, SameOutcomes DEF BodyInv, Agree
  <2>5. TriggeredIffDiverged'
    BY <1>1, <1>6, <2>1, <2>2 DEF TriggeredIffDiverged, Agree, Values
  <2>6. ExecCheckSafe'
    BY <1>1, <2>1, SameOutcomes DEF ExecCheckSafe
  <2> QED
    BY <1>1, <1>2, <1>3, <1>6, <2>4, <2>5, <2>6
       DEF IInv, CheckInv, CondInv, AgainInv, OffPreserves
<1> QED
  BY <1>4, <1>5, <1>6

(* The check in the body keeps the invariant. *)
LEMMA BodyStepInv == ASSUME NEW r \in Values, IInv, Body(r) PROVE IInv'
<1>1. /\ UNCHANGED <<shape, vals, diverged>> /\ at = "body" /\ ShapeOK /\ Outcome(Traced, r)
      /\ at' \in {"fault", "again", "out"}
      /\ at' = "fault" <=> r = "X"
      /\ log' = IF r = "F" THEN log \cup {"triggered"} ELSE log
      /\ pattern = "COND_EXEC" /\ Injected("T")
      /\ diverged <=> "triggered" \in log \/ Original("F")
  BY DEF Body, IInv, BodyInv
<1>2. pattern' = pattern /\ n' = n /\ marked' = marked /\ on' = on /\ loop' = loop
  BY <1>1 DEF shape
<1>3. ShapeOK' /\ TypeOK'
  BY <1>1, <1>2 DEF IInv, ShapeOK, TypeOK, Clauses
<1>4. Original(r)
  <2>1. CASE on
    BY <1>1, <2>1, Conjunction DEF Injected
  <2>2. CASE ~on
    <3>1. Original("T")
      BY <1>1, <2>2 DEF Injected, Original
    <3>2. r = "T"
      BY <1>1, <3>1, Conjunction, Unique
    <3> QED
      BY <3>1, <3>2
  <2> QED
    BY <2>1, <2>2
<1>5. TriggeredIffDiverged'
  <2>1. r = "T" => ~Original("F")
    BY <1>1, <1>4, Unique
  <2> QED
    BY <1>1, <1>4, <2>1 DEF TriggeredIffDiverged, Values
<1>6. OffPreserves'
  <2> SUFFICES ASSUME ~on PROVE OffPreserves'
    BY <1>2 DEF OffPreserves
  <2>1. Original("T")
    BY <1>1 DEF Injected, Original
  <2>2. r = "T"
    BY <1>1, <1>4, <2>1, Unique
  <2> QED
    BY <1>1, <2>2 DEF IInv, OffPreserves
<1>7. ExecCheckSafe'
  BY <1>1, <1>4, SameOutcomes DEF ExecCheckSafe
<1> QED
  BY <1>1, <1>2, <1>3, <1>5, <1>6, <1>7 DEF IInv, CheckInv, CondInv, BodyInv, AgainInv

(* The invariant is inductive. *)
LEMMA NextInv == IInv /\ [Next]_vars => IInv'
<1> SUFFICES ASSUME IInv, [Next]_vars PROVE IInv'
  OBVIOUS
<1>1. CASE Next
  BY <1>1, EnterInv, CheckStepInv, ConditionInv, BodyStepInv DEF Next
<1>2. CASE UNCHANGED vars
  <2>1. UNCHANGED <<shape, vals>> /\ at' = at /\ log' = log /\ diverged' = diverged
    BY <1>2 DEF vars, shape
  <2>2. pattern' = pattern /\ n' = n /\ marked' = marked /\ on' = on /\ loop' = loop
    BY <2>1 DEF shape
  <2>3. TypeOK'
    BY <2>1, <2>2 DEF IInv, TypeOK, Clauses
  <2>4. CheckInv' /\ CondInv' /\ BodyInv' /\ AgainInv'
    BY <2>1, <2>2, SameOutcomes DEF IInv, CheckInv, CondInv, BodyInv, AgainInv, Agree
  <2>5. TriggeredIffDiverged' /\ OffPreserves' /\ ExecCheckSafe'
    BY <2>1, <2>2, SameOutcomes DEF IInv, TriggeredIffDiverged, OffPreserves, ExecCheckSafe
  <2> QED
    BY <2>1, <2>3, <2>4, <2>5, SameOutcomes DEF IInv
<1> QED
  BY <1>1, <1>2

(* The invariant holds in every reachable state.                             *)
THEOREM Inductive == Spec => []IInv
BY InitInv, NextInv, PTL DEF Spec

(* Every state has its type, for conditions of any length: the two builds    *)
(* meet no value, place in the statement or line of the log but those that   *)
(* nullCheckML.cpp can give them.                                            *)
THEOREM TypeCorrect == Spec => []TypeOK
<1>1. IInv => TypeOK
  BY DEF IInv
<1> QED
  BY <1>1, Inductive, PTL

(* A trigger is logged if and only if the injection changed a branch of the  *)
(* original program, whatever the length of its condition.                   *)
THEOREM TriggerExact == Spec => [](TypeOK /\ TriggeredIffDiverged)
<1>1. IInv => TypeOK /\ TriggeredIffDiverged
  BY DEF IInv
<1> QED
  BY <1>1, Inductive, PTL

(* An injection that is off takes every branch of the original program,      *)
(* faults only where it does, and logs nothing.                              *)
THEOREM OffIsOriginal == Spec => []OffPreserves
<1>1. IInv => OffPreserves
  BY DEF IInv
<1> QED
  BY <1>1, Inductive, PTL

(* The checks around a COND_EXEC never introduce a fault.                    *)
THEOREM ExecChecksSafe == Spec => []ExecCheckSafe
<1>1. IInv => ExecCheckSafe
  BY DEF IInv
<1> QED
  BY <1>1, Inductive, PTL
=============================================================================
