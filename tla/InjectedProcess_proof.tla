----------------------- MODULE InjectedProcess_proof ------------------------
(***************************************************************************)
(* The flags of every call, for every set of injections, every value of    *)
(* FIXREVERTER and any number of calls; and what a process shows of them,  *)
(* for every program.                                                      *)
(***************************************************************************)
EXTENDS InjectedProcess, SequenceTheorems, TLAPS

Elements(s) == {s[n] : n \in DOMAIN s}

(* While the tokens are read, the flags and the rest of the string together  *)
(* are the flags of the call.                                                *)
Reading ==
  /\ first = "on" => flags \cup Elements(rest) = FlagsOf(calls)
  /\ first = "off" => flags \ Elements(rest) = FlagsOf(calls)

FlagInv ==
  /\ TypeOK
  /\ calls = 0 => seen = listed /\ status = "between"
  /\ calls > 0 /\ first \in {"on", "off"} => seen = <<>>
  /\ status \in {"parsing", "inside"} => calls > 0
  /\ status = "parsing" => first \in {"on", "off"} /\ Reading
  /\ status = "inside" => flags = FlagsOf(calls)
-----------------------------------------------------------------------------
(* The tail of a list is a list, and what it has lost is its head.           *)
LEMMA TailOfList ==
  ASSUME NEW s \in Lists, s # <<>>
  PROVE  /\ Head(s) \in Index
         /\ Tail(s) \in Lists
         /\ Elements(s) = {Head(s)} \cup Elements(Tail(s))
<1>1. PICK n \in 0..MaxListed : s \in [1..n -> Index]
  BY DEF Lists
<1>2. s \in Seq(Index) /\ Len(s) = n /\ n > 0
  BY <1>1, BoundsNat
<1>3. /\ Tail(s) \in Seq(Index)
      /\ Len(Tail(s)) = n - 1
      /\ \A k \in 1..n - 1 : Tail(s)[k] = s[k + 1]
      /\ Head(s) = s[1]
  BY <1>2
<1>4. Tail(s) \in [1..n - 1 -> Index] /\ n - 1 \in 0..MaxListed
  <2>1. Tail(s) \in [1..Len(Tail(s)) -> Index]
    BY <1>3, LenProperties
  <2> QED
    BY <1>2, <1>3, <2>1, BoundsNat
<1>5. Elements(s) = {Head(s)} \cup Elements(Tail(s))
  <2>1. DOMAIN s = 1..n /\ DOMAIN Tail(s) = 1..n - 1
    BY <1>1, <1>4
  <2>2. \A k \in 1..n : k = 1 \/ (k - 1 \in 1..n - 1 /\ s[k] = Tail(s)[k - 1])
    BY <1>2, <1>3
  <2>3. \A k \in 1..n - 1 : k + 1 \in 1..n /\ s[k + 1] = Tail(s)[k]
    BY <1>2, <1>3
  <2>4. 1 \in 1..n
    BY <1>2
  <2>5. ASSUME NEW e \in Elements(s) PROVE e \in {Head(s)} \cup Elements(Tail(s))
    <3>1. PICK k \in 1..n : e = s[k]
      BY <2>1, <2>5 DEF Elements
    <3>2. k = 1 \/ (k - 1 \in 1..n - 1 /\ e = Tail(s)[k - 1])
      BY <2>2, <3>1
    <3> QED
      BY <1>3, <2>1, <3>1, <3>2 DEF Elements
  <2>6. ASSUME NEW e \in {Head(s)} \cup Elements(Tail(s)) PROVE e \in Elements(s)
    <3>1. CASE e = Head(s)
      BY <1>3, <2>1, <2>4, <3>1 DEF Elements
    <3>2. CASE e \in Elements(Tail(s))
      <4>1. PICK k \in 1..n - 1 : e = Tail(s)[k]
        BY <2>1, <3>2 DEF Elements
      <4> QED
        BY <2>1, <2>3, <4>1 DEF Elements
    <3> QED
      BY <2>6, <3>1, <3>2
  <2> QED
    BY <2>5, <2>6
<1> QED
  BY <1>2, <1>3, <1>4, <1>5 DEF Lists

(* The empty list has no elements, and listed indices are indices.           *)
LEMMA ListFacts ==
  /\ <<>> \in Lists /\ Elements(<<>>) = {}
  /\ \A s \in Lists : Elements(s) \subseteq Index
<1>1. <<>> \in [1..0 -> Index] /\ 0 \in 0..MaxListed
  BY BoundsNat
<1>2. \A s \in Lists : Elements(s) \subseteq Index
  BY DEF Lists, Elements
<1> QED
  BY <1>1, <1>2 DEF Lists, Elements

LEMMA FlagInit == Init => FlagInv
<1> SUFFICES ASSUME Init PROVE FlagInv
  OBVIOUS
<1>1. listed \in Lists
  BY ListFacts DEF Init
<1> QED
  BY <1>1, ListFacts, BoundsNat DEF Init, FlagInv, TypeOK

LEMMA FlagStep == FlagInv /\ [Next]_vars => FlagInv'
<1> SUFFICES ASSUME FlagInv, [Next]_vars PROVE FlagInv'
  OBVIOUS
<1> USE BoundsNat, ListFacts
<1>1. CASE SetAll
  BY <1>1 DEF SetAll, Enter, FlagInv, TypeOK, FlagsOf, Listed
<1>2. CASE FaultOnUnset
  BY <1>2 DEF FaultOnUnset, Enter, FlagInv, TypeOK
<1>3. CASE ReadMode
  <2>1. TypeOK'
    BY <1>3 DEF ReadMode, Enter, CutFirstToken, Default, FlagInv, TypeOK
  <2>2. calls' = calls + 1 /\ calls \in Nat /\ first' = first /\ listed' = listed
    BY <1>3 DEF ReadMode, Enter, FlagInv, TypeOK
  <2>3. rest' = IF calls = 0 THEN listed ELSE <<>>
    BY <1>3 DEF ReadMode, CutFirstToken, FlagInv, TypeOK
  <2>4. Elements(listed) = Listed /\ Listed \subseteq Index
    BY DEF FlagInv, TypeOK, Elements, Listed
  <2>5. Reading'
    BY <1>3, <2>2, <2>3, <2>4
       DEF ReadMode, Default, Reading, FlagsOf, FlagsOn, FlagsOff, Listed
  <2> QED
    BY <1>3, <2>1, <2>2, <2>5 DEF ReadMode, CutFirstToken, FlagInv
<1>4. CASE ReadIndex
  <2>1. rest \in Lists /\ rest # <<>>
    BY <1>4 DEF ReadIndex, FlagInv, TypeOK
  <2>2. /\ Head(rest) \in Index /\ Tail(rest) \in Lists
        /\ Elements(rest) = {Head(rest)} \cup Elements(Tail(rest))
    BY <2>1, TailOfList
  <2>3. TypeOK'
    BY <1>4, <2>2 DEF ReadIndex, FlagInv, TypeOK
  <2>4. FlagsOf(calls)' = FlagsOf(calls)
    BY <1>4 DEF ReadIndex, FlagsOf, Listed
  <2>5. Reading
    BY <1>4 DEF ReadIndex, FlagInv
  <2>6. Reading'
    BY <1>4, <2>2, <2>4, <2>5 DEF ReadIndex, Reading
  <2> QED
    BY <1>4, <2>3, <2>6 DEF ReadIndex, FlagInv
<1>5. CASE NoMoreTokens
  <2>1. first \in {"on", "off"} /\ Reading
    BY <1>5 DEF NoMoreTokens, FlagInv
  <2>2. flags = FlagsOf(calls)
    BY <1>5, <2>1 DEF NoMoreTokens, Reading
  <2>3. (FlagsOf(calls))' = FlagsOf(calls)
    BY <1>5 DEF NoMoreTokens, FlagsOf, Listed
  <2> QED
    BY <1>5, <2>2, <2>3 DEF NoMoreTokens, FlagInv, TypeOK
<1>6. CASE RejectToken
  BY <1>6 DEF RejectToken, Enter, FlagInv, TypeOK
<1>7. CASE Leave
  BY <1>7 DEF Leave, FlagInv, TypeOK
<1>8. CASE UNCHANGED vars
  BY <1>8 DEF vars, FlagInv, TypeOK, Reading, FlagsOf, Listed
<1> QED
  BY <1>1, <1>2, <1>3, <1>4, <1>5, <1>6, <1>7, <1>8 DEF Next

(* What the invariant says of the properties of FlagRuntime.                 *)
LEMMA FlagInvImplies == FlagInv => TypeOK /\ FirstCallObeys /\ OnNeverAddsFlags
  BY DEF FlagInv, FirstCallObeys, OnNeverAddsFlags, FlagsOf, FlagsOn, FlagsOff
-----------------------------------------------------------------------------
(* Type correctness of FlagRuntime, for all constants.                       *)
THEOREM FlagTypes == Spec => []TypeOK
<1>1. Init => FlagInv
  BY FlagInit
<1>2. FlagInv /\ [Next]_vars => FlagInv'
  BY FlagStep
<1>3. FlagInv => TypeOK
  BY FlagInvImplies
<1> QED
  BY <1>1, <1>2, <1>3, PTL DEF Spec

(* The token loop gives the first call the flags that were asked for,        *)
(* although strtok destroys the string it walks over.                        *)
THEOREM FirstCall == Spec => []FirstCallObeys
<1>1. Init => FlagInv
  BY FlagInit
<1>2. FlagInv /\ [Next]_vars => FlagInv'
  BY FlagStep
<1>3. FlagInv => FirstCallObeys
  BY FlagInvImplies
<1> QED
  BY <1>1, <1>2, <1>3, PTL DEF Spec

(* "on S" never runs with an injection outside of S, however often the       *)
(* entry function is called.                                                 *)
THEOREM OnAddsNothing == Spec => []OnNeverAddsFlags
<1>1. Init => FlagInv
  BY FlagInit
<1>2. FlagInv /\ [Next]_vars => FlagInv'
  BY FlagStep
<1>3. FlagInv => OnNeverAddsFlags
  BY FlagInvImplies
<1> QED
  BY <1>1, <1>2, <1>3, PTL DEF Spec

(* A process reads its flags as FlagRuntime says, so the theorems above hold *)
(* of every process.                                                         *)
THEOREM ProcessReadsFlags == SpecProcess => Spec
<1>1. InitProcess => Init
  BY DEF InitProcess
<1>2. [NextProcess]_processVars => [Next]_vars
  BY DEF NextProcess, ReadFlags, RunBody, Next, processVars, vars
<1> QED
  BY <1>1, <1>2, PTL DEF SpecProcess, Spec
-----------------------------------------------------------------------------
(* Between two steps the runs of all calls but the current one are shown.    *)
ProcessInv ==
  /\ FlagInv
  /\ ended \in Nat
  /\ status = "between" => ended = calls
  /\ status \in {"parsing", "inside"} => ended = calls - 1
  /\ ShowsCalls

(* Reading the flags shows nothing, and changes those of no earlier call.    *)
LEMMA ReadStep == ProcessInv /\ ReadFlags => ProcessInv'
<1> SUFFICES ASSUME ProcessInv, ReadFlags PROVE ProcessInv'
  OBVIOUS
<1>1. FlagInv'
  BY FlagStep DEF ProcessInv, ReadFlags, Next
<1>2. first' = first /\ listed' = listed
  BY DEF ReadFlags, SetAll, FaultOnUnset, ReadMode, ReadIndex, NoMoreTokens, RejectToken
<1>3. program' = program /\ ended' = ended /\ printed' = printed
  BY DEF ReadFlags
<1>4. \A k : FlagsOf(k)' = FlagsOf(k)
  BY <1>2 DEF FlagsOf, Listed
<1>5. status # "crashed"
  BY DEF ReadFlags, Enter, SetAll, FaultOnUnset, ReadMode, ReadIndex, NoMoreTokens, RejectToken
<1>6. ShowsCalls'
  BY <1>3, <1>4, <1>5 DEF ProcessInv, ShowsCalls
<1>7. /\ calls \in Nat
      /\ status' = "between" => FALSE
      /\ status' \in {"parsing", "inside"} => ended = calls' - 1
  BY BoundsNat DEF ProcessInv, FlagInv, TypeOK, ReadFlags, Enter, SetAll, FaultOnUnset,
     ReadMode, ReadIndex, NoMoreTokens, RejectToken
<1> QED
  BY <1>1, <1>3, <1>6, <1>7 DEF ProcessInv

(* The run of a call adds its lines and may be the one that crashes.         *)
LEMMA BodyStep == ProcessInv /\ RunBody => ProcessInv'
<1> SUFFICES ASSUME ProcessInv, RunBody PROVE ProcessInv'
  OBVIOUS
<1>1. FlagInv'
  BY FlagStep DEF ProcessInv, RunBody, Next
<1>2. /\ status = "inside" /\ calls \in Nat /\ calls > 0 /\ ended = calls - 1
      /\ flags = FlagsOf(calls)
  BY BoundsNat DEF ProcessInv, FlagInv, TypeOK, RunBody, Leave
<1>3. /\ first' = first /\ listed' = listed /\ calls' = calls /\ program' = program
      /\ ended' = calls
      /\ printed' = printed \cup program[calls][flags].trig
      /\ status' = IF program[calls][flags].crash THEN "crashed" ELSE "between"
  BY DEF RunBody, Leave
<1>4. \A k : FlagsOf(k)' = FlagsOf(k)
  BY <1>3 DEF FlagsOf, Listed
<1>5. 1..calls = (1..ended) \cup {calls}
  BY <1>2
<1>6. ShowsCalls'
  <2>1. printed' = UNION {program[k][FlagsOf(k)].trig : k \in 1..calls}
    BY <1>2, <1>3, <1>5 DEF ProcessInv, ShowsCalls
  <2>2. \A k \in 1..ended : ~program[k][FlagsOf(k)].crash
    BY <1>2 DEF ProcessInv, ShowsCalls
  <2>3. \A k \in 1..calls :
          program[k][FlagsOf(k)].crash => k = calls /\ status' = "crashed"
    BY <1>2, <1>3, <1>5, <2>2
  <2> QED
    BY <1>3, <1>4, <2>1, <2>3 DEF ShowsCalls
<1> QED
  BY <1>1, <1>2, <1>3, <1>6 DEF ProcessInv

(* What the drivers take a process for: the lines of its runs, the first     *)
(* with the flags that were asked for.  For every program, every value of    *)
(* FIXREVERTER and any number of calls.                                      *)
THEOREM ProcessShows == SpecProcess => []ShowsCalls
<1>1. InitProcess => ProcessInv
  BY FlagInit DEF InitProcess, Init, ProcessInv, ShowsCalls
<1>2. ProcessInv /\ [NextProcess]_processVars => ProcessInv'
  <2> SUFFICES ASSUME ProcessInv, [NextProcess]_processVars PROVE ProcessInv'
    OBVIOUS
  <2>1. CASE ReadFlags
    BY <2>1, ReadStep
  <2>2. CASE RunBody
    BY <2>2, BodyStep
  <2>3. CASE UNCHANGED processVars
    <3>1. FlagInv'
      BY <2>3, FlagStep DEF processVars, ProcessInv
    <3>2. \A k : FlagsOf(k)' = FlagsOf(k)
      BY <2>3 DEF processVars, vars, FlagsOf, Listed
    <3>3. ShowsCalls'
      BY <2>3, <3>2 DEF processVars, vars, ProcessInv, ShowsCalls
    <3> QED
      BY <2>3, <3>1, <3>3 DEF processVars, vars, ProcessInv
  <2> QED
    BY <2>1, <2>2, <2>3 DEF NextProcess
<1>3. ProcessInv => ShowsCalls
  BY DEF ProcessInv
<1> QED
  BY <1>1, <1>2, <1>3, PTL DEF SpecProcess
=============================================================================
