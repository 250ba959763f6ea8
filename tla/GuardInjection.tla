--------------------------- MODULE GuardInjection ---------------------------
(***************************************************************************)
(* What mutantLocator (nullCheckML.cpp) makes of one matched statement in  *)
(* the triage build (FRCOV defined), executed as C executes it.            *)
(*                                                                         *)
(* The condition is a chain of clauses 1..n, joined by || in COND_ABORT,   *)
(* by && in COND_EXEC, and a single clause in COND_ASSIGN.  The clauses of *)
(* a traced variable that reaches a sink are dropped by the injection.     *)
(* Evaluating a clause can fault ("X"), as p->n > 5 does when p is NULL,   *)
(* unless an earlier clause decides the condition.                         *)
(***************************************************************************)
EXTENDS Naturals

CONSTANT MaxClauses   \* bound on the clauses of a condition

ASSUME MaxClausesNat == MaxClauses \in Nat \ {0}

Patterns == {"COND_ABORT", "COND_ASSIGN", "COND_EXEC"}
Values == {"T", "F", "X"}

VARIABLES
  pattern, n,
  loop,      \* a while or for statement
  marked,    \* clauses with a variable that is marked as crash
  on,        \* FIXREVERTER[i]
  vals,      \* what each clause evaluates to now
  at,        \* "out" of the statement, at its "check", "cond", "body",
             \* "again" before the next evaluation, "fault"
  log,       \* lines printed for this injection
  diverged   \* history: a branch was taken that the original code would
             \* not have taken

vars == <<pattern, n, loop, marked, on, vals, at, log, diverged>>
shape == <<pattern, n, loop, marked, on>>

Clauses == 1..n
-----------------------------------------------------------------------------
(* Mistakes to detect: a COND_EXEC keeps all its crash variables; COND_EXEC  *)
(* is checked before its condition, as the others are; a line that is not    *)
(* known is logged; the injected condition does not look at the flag.        *)
ChooseAll(crash) == crash
EnterChecksAll ==
  /\ at = "out"
  /\ vals' \in [Clauses -> Values]
  /\ at' = IF on THEN "check" ELSE "cond"
  /\ UNCHANGED <<shape, log, diverged>>
EnterLogsFlag ==
  /\ at = "out"
  /\ vals' \in [Clauses -> Values]
  /\ IF on /\ pattern # "COND_EXEC"
     THEN at' = "check" /\ UNCHANGED log
     ELSE at' = "cond" /\ log' = IF on THEN log \cup {"on"} ELSE log
  /\ UNCHANGED <<shape, diverged>>

(* chooseCondExe: of the crash variables of a COND_EXEC the last one stays.  *)
ChooseCondExe(crash) ==
  IF pattern = "COND_EXEC" THEN {i \in crash : \A j \in crash : j <= i} ELSE crash

(* getConds(TRACE) and getConds(UNTRACE); getConds(ALL) is Clauses. *)
Traced == ChooseCondExe(marked)
Untraced == Clauses \ Traced

(* Clause i ends the evaluation of a chain. *)
Stops(i) == vals[i] = "X" \/ vals[i] = (IF pattern = "COND_EXEC" THEN "F" ELSE "T")

(***************************************************************************)
(* r is the outcome of the chain of the clauses S; the empty chain is the  *)
(* text "0".                                                               *)
(***************************************************************************)
Outcome(S, r) ==
  \/ \E i \in S : Stops(i) /\ r = vals[i] /\ \A j \in S : j < i => ~Stops(j)
  \/ /\ \A i \in S : ~Stops(i)
     /\ r = IF pattern = "COND_EXEC" /\ S # {} THEN "T" ELSE "F"

Original(r) == Outcome(Clauses, r)
-----------------------------------------------------------------------------
Init ==
  /\ pattern \in Patterns
  /\ n \in 1..MaxClauses
  /\ pattern = "COND_ASSIGN" => n = 1
  /\ pattern = "COND_EXEC" => n >= 2
  /\ loop \in BOOLEAN
  /\ loop => pattern = "COND_EXEC"
  /\ marked \in SUBSET Clauses
  /\ marked = {} => pattern = "COND_ASSIGN"
  /\ on \in BOOLEAN
  /\ vals \in [Clauses -> {"T"}]
  /\ at = "out"
  /\ log = {}
  /\ diverged = FALSE

(***************************************************************************)
(* Control reaches the statement.  With the flag on, COND_EXEC logs        *)
(* "reached" and the others first find out what to log.                    *)
(***************************************************************************)
Enter ==
  /\ at = "out"
  /\ vals' \in [Clauses -> Values]
  /\ IF on /\ pattern # "COND_EXEC"
     THEN at' = "check" /\ UNCHANGED log
     ELSE at' = "cond" /\ log' = IF on THEN log \cup {"reached"} ELSE log
  /\ UNCHANGED <<shape, diverged>>

(* if ((trace) && !(untrace)) triggered; else reached *)
Check ==
  /\ at = "check"
  /\ \/ /\ Outcome(Traced, "T") /\ Outcome(Untraced, "F")
        /\ log' = log \cup {"triggered"}
     \/ /\ Outcome(Traced, "F") \/ (Outcome(Traced, "T") /\ Outcome(Untraced, "T"))
        /\ log' = log \cup {"reached"}
  /\ at' = "cond"
  /\ UNCHANGED <<shape, vals, diverged>>

CheckFaults ==
  /\ at = "check"
  /\ Outcome(Traced, "X") \/ (Outcome(Traced, "T") /\ Outcome(Untraced, "X"))
  /\ at' = "fault"
  /\ UNCHANGED <<shape, vals, log, diverged>>

InjectedAlways(r) == Outcome(Untraced, r)

(* (FIXREVERTER[i] && (untrace)) || (!FIXREVERTER[i] && (all)) *)
Injected(r) == IF on THEN Outcome(Untraced, r) ELSE Outcome(Clauses, r)

Condition(r) ==
  /\ at = "cond"
  /\ Injected(r)
  /\ at' = CASE r = "X" -> "fault"
             [] r = "T" /\ pattern = "COND_EXEC" -> "body"
             [] OTHER -> "out"
  /\ diverged' = (diverged \/ \E o \in {"T", "F"} : r # "X" /\ Original(o) /\ o # r)
  /\ UNCHANGED <<shape, vals, log>>

(* The body of COND_EXEC begins with: if (!(trace)) triggered *)
Body(r) ==
  /\ at = "body"
  /\ Outcome(Traced, r)
  /\ log' = IF r = "F" THEN log \cup {"triggered"} ELSE log
  /\ at' = CASE r = "X" -> "fault"
             [] r # "X" /\ loop -> "again"
             [] OTHER -> "out"
  /\ UNCHANGED <<shape, vals, diverged>>

(* The next evaluation of the condition of a loop. *)
Again ==
  /\ at = "again"
  /\ vals' \in [Clauses -> Values]
  /\ at' = "cond"
  /\ UNCHANGED <<shape, log, diverged>>

Next == Enter \/ Check \/ CheckFaults \/ (\E r \in Values : Condition(r) \/ Body(r)) \/ Again

Spec == Init /\ [][Next]_vars
-----------------------------------------------------------------------------
(* Type correctness. *)
TypeOK ==
  /\ pattern \in Patterns
  /\ n \in 1..MaxClauses
  /\ loop \in BOOLEAN /\ on \in BOOLEAN /\ diverged \in BOOLEAN
  /\ marked \subseteq Clauses
  /\ vals \in [Clauses -> Values]
  /\ at \in {"out", "check", "cond", "body", "again", "fault"}
  /\ log \subseteq {"reached", "triggered"}

(***************************************************************************)
(* "triggered" is logged exactly when the injection has changed the course *)
(* of the program, although the two are found out by different conditions, *)
(* before the branch (COND_ABORT, COND_ASSIGN) or after it (COND_EXEC).    *)
(***************************************************************************)
TriggeredIffDiverged ==
  at \in {"out", "again"} => ("triggered" \in log <=> diverged)

(***************************************************************************)
(* "Turning off an injection means that the original code logic at the     *)
(* injection site is preserved" (paper, section 3.4), with its faults, and *)
(* nothing is logged, although the check in the body of COND_EXEC does not *)
(* look at the flag.                                                       *)
(***************************************************************************)
OffPreserves ==
  ~on => /\ ~diverged
         /\ log = {}
         /\ at = "fault" => Original("X")

(***************************************************************************)
(* The checks added to a COND_EXEC never fault by themselves: where the    *)
(* triage build faults at the statement, the original program or the fuzz- *)
(* ing build, whose condition is (untrace), does too.                      *)
(***************************************************************************)
ExecCheckSafe ==
  at = "fault" /\ pattern = "COND_EXEC" => Original("X") \/ Outcome(Untraced, "X")

(***************************************************************************)
(* "This enables extra logic to log that a bug is triggered if the sub-    *)
(* expression(s) with tracers is satisfied and other subexpression(s) is   *)
(* not satisfied.  Otherwise, reached is logged." (paper, section 3.4):    *)
(* a visit of an injection that is on leaves a line, also when it ends in  *)
(* a fault which the original program would not have had.                  *)
(***************************************************************************)
VisitLogged ==
  on /\ at = "fault" => log # {} \/ Original("X")
=============================================================================
