---------------------------- MODULE FlagRuntime -----------------------------
(***************************************************************************)
(* drivers/inject/codes/setFixReverterFlags: the code that injectEntryFile *)
(* puts at the start of the entry function.  It reads the environment      *)
(* variable FIXREVERTER ("on i j ...", "off i j ...") and sets the flag of *)
(* every injection.                                                        *)
(*                                                                         *)
(* The entry function is LLVMFuzzerTestOneInput in most programs, which a  *)
(* fuzzing engine may call several times in one process.  strtok works on  *)
(* the string getenv returns, which is the process environment itself: it  *)
(* writes a 0 byte after every token, so a later getenv sees the first     *)
(* token only.                                                             *)
(***************************************************************************)
EXTENDS Target, Naturals, Sequences

CONSTANTS MaxListed,  \* bound on the indices listed in the variable
          MaxCalls    \* bound on the calls of the entry function

ASSUME BoundsNat == MaxListed \in Nat /\ MaxCalls \in Nat

VARIABLES
  first,    \* the first token: "on", "off", "other"; "none" if there is no
            \* token, "unset" if there is no variable
  listed,   \* the indices the variable was started with
  seen,     \* the indices that the string returned by getenv still shows
  rest,     \* the indices behind strtok's own pointer
  flags,    \* the injections whose FIXREVERTER[i] is 1
  calls,    \* calls of the entry function so far
  status    \* "between" calls, "parsing", "inside", "exited", "crashed"

vars == <<first, listed, seen, rest, flags, calls, status>>

Lists == UNION {[1..n -> Index] : n \in 0..MaxListed}

Init ==
  /\ first \in {"on", "off", "other", "none", "unset"}
  /\ listed \in (IF first \in {"on", "off"} THEN Lists ELSE {<<>>})
  /\ seen = listed
  /\ rest = <<>>
  /\ flags = {}
  /\ calls = 0
  /\ status = "between"

Enter ==
  /\ status = "between"
  /\ calls < MaxCalls
  /\ calls' = calls + 1

(* A mistake to detect: no indices left is taken for no token. *)
SetAllWithoutIndices ==
  /\ Enter
  /\ first \in {"none", "unset"} \/ seen = <<>>
  /\ flags' = Index
  /\ status' = "inside"
  /\ UNCHANGED <<first, listed, seen, rest>>

(* strtok finds no token: all flags on. *)
SetAll ==
  /\ Enter
  /\ first \in {"none", "unset"}
  /\ flags' = Index
  /\ status' = "inside"
  /\ UNCHANGED <<first, listed, seen, rest>>

(* strtok(NULL, " ") without an earlier string is undefined: with some C     *)
(* libraries it returns NULL, as SetAll assumes, with others it faults.      *)
FaultOnUnset ==
  /\ Enter
  /\ first = "unset"
  /\ status' = "crashed"
  /\ UNCHANGED <<first, listed, seen, rest, flags>>

(* Mistakes to detect: the loop runs to i <= FIXREVERTER_SIZE; the flags are *)
(* not set before "off" clears some; not cleared before "on" sets some.      *)
DefaultPastEnd == IF first = "off" THEN Index \cup {Cardinality(Index) + 1} ELSE {}
DefaultZero == {}
DefaultKept == IF first = "off" THEN Index ELSE flags

(* The value the flags have before the listed ones are set. *)
Default == IF first = "off" THEN Index ELSE {}

(* The first strtok returns "on" or "off", ends the string of the            *)
(* environment there and keeps a pointer to what follows.                    *)
CutFirstToken ==
  /\ seen' = <<>>
  /\ rest' = seen

ReadMode ==
  /\ Enter
  /\ first \in {"on", "off"}
  /\ flags' = Default
  /\ CutFirstToken
  /\ status' = "parsing"
  /\ UNCHANGED <<first, listed>>

ReadIndex ==
  /\ status = "parsing"
  /\ rest # <<>>
  /\ flags' = IF first = "on" THEN flags \cup {Head(rest)} ELSE flags \ {Head(rest)}
  /\ rest' = Tail(rest)
  /\ UNCHANGED <<first, listed, seen, calls, status>>

NoMoreTokens ==
  /\ status = "parsing"
  /\ rest = <<>>
  /\ status' = "inside"
  /\ UNCHANGED <<first, listed, seen, rest, flags, calls>>

RejectToken ==
  /\ Enter
  /\ first = "other"
  /\ status' = "exited"
  /\ UNCHANGED <<first, listed, seen, rest, flags>>

(* The rest of the entry function runs; it returns to the engine or crashes. *)
Leave ==
  /\ status = "inside"
  /\ status' \in {"between", "crashed"}
  /\ UNCHANGED <<first, listed, seen, rest, flags, calls>>

Next ==
  SetAll \/ FaultOnUnset \/ ReadMode \/ ReadIndex \/ NoMoreTokens \/ RejectToken \/ Leave

Spec == Init /\ [][Next]_vars
-----------------------------------------------------------------------------
Listed == {listed[n] : n \in DOMAIN listed}

(* Type correctness. *)
TypeOK ==
  /\ first \in {"on", "off", "other", "none", "unset"}
  /\ listed \in Lists /\ seen \in Lists /\ rest \in Lists
  /\ flags \subseteq Index
  /\ calls \in 0..MaxCalls
  /\ status \in {"between", "parsing", "inside", "exited", "crashed"}

(***************************************************************************)
(* The token loop implements what the drivers are modelled with: the first *)
(* call of a process runs with FlagsOn or FlagsOff of the listed indices,  *)
(* in whatever order and however often they are listed, although strtok    *)
(* destroys the string it walks over.                                      *)
(***************************************************************************)
FirstCallObeys ==
  status = "inside" /\ calls = 1 /\ first \in {"on", "off"} =>
    flags = IF first = "on" THEN FlagsOn(Listed) ELSE FlagsOff(Listed)

(***************************************************************************)
(* However often the entry function is called, a process with "on S" never *)
(* runs with an injection outside S: a failure found with "on S" is a      *)
(* failure caused by injections of S, which is what the crash sets of      *)
(* remove.py and the causes of the triage rest on.                         *)
(***************************************************************************)
OnNeverAddsFlags ==
  status = "inside" /\ first = "on" => flags \subseteq Listed

(***************************************************************************)
(* "FixReverter controls if an injection is turned on or off using an      *)
(* environment variable" (paper, section 3.4): an injection listed after   *)
(* "off" stays off for as long as the process runs.                        *)
(***************************************************************************)
OffKeepsListedOff ==
  status = "inside" /\ first = "off" => flags \cap Listed = {}
=============================================================================
