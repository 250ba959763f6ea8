-------------------------- MODULE InjectedProcess ---------------------------
(***************************************************************************)
(* One process of the injected program: the fuzzing engine calls the entry *)
(* function several times, each call first reads FIXREVERTER as            *)
(* FlagRuntime does and then runs the program under test on its input with *)
(* the flags it has.  The drivers look at the process as a whole: at its   *)
(* exit code and at all the "triggered" lines it printed (extractStat).    *)
(***************************************************************************)
EXTENDS FlagRuntime

VARIABLES
  program,   \* the run of each call, as a function of the flags (Target)
  ended,     \* how many of them have run to their end
  printed    \* the injections whose "triggered" line the process has printed

processVars == <<vars, program, ended, printed>>

Runs == [1..MaxCalls -> Trees[Index]]

InitProcess ==
  /\ Init
  /\ program \in Runs
  /\ ended = 0
  /\ printed = {}

(* FIXREVERTER is read; nothing of the program runs meanwhile. *)
ReadFlags ==
  /\ SetAll \/ FaultOnUnset \/ ReadMode \/ ReadIndex \/ NoMoreTokens \/ RejectToken
  /\ UNCHANGED <<program, ended, printed>>

(* The program under test, on the input of this call. *)
RunBody ==
  LET run == program[calls][flags] IN
  /\ Leave
  /\ status' = IF run.crash THEN "crashed" ELSE "between"
  /\ ended' = calls
  /\ printed' = printed \cup run.trig
  /\ UNCHANGED program

NextProcess == ReadFlags \/ RunBody

SpecProcess == InitProcess /\ [][NextProcess]_processVars
-----------------------------------------------------------------------------
(* The flags that the call with number k runs with: the listed indices count *)
(* in the first call only, because the variable is cut to its first token.   *)
FlagsOf(k) ==
  CASE first = "on" -> IF k = 1 THEN FlagsOn(Listed) ELSE FlagsOn({})
    [] first = "off" -> IF k = 1 THEN FlagsOff(Listed) ELSE FlagsOff({})
    [] OTHER -> Index

(***************************************************************************)
(* What a process shows, whatever its calls do: the lines of its runs, the *)
(* first with the flags that were asked for and each later one as if no    *)
(* index had been listed, up to and including the first run that crashes.  *)
(* So a process with one call is what remove.py takes it for, the run of   *)
(* the target with these flags, and an injection that was switched off     *)
(* shows only in a second or later call.                                   *)
(***************************************************************************)
ShowsCalls ==
  /\ printed = UNION {program[k][FlagsOf(k)].trig : k \in 1..ended}
  /\ \A k \in 1..ended :
       program[k][FlagsOf(k)].crash => k = ended /\ status = "crashed"
=============================================================================
