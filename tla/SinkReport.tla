----------------------------- MODULE SinkReport -----------------------------
(***************************************************************************)
(* The candidates of pattern COND_EXEC in the dependence analysis: the     *)
(* plugin runs as TaintFlow says, collects per entered function where the  *)
(* body of the guard is (matchSourceCode, CodeMatcher.cpp), and marks a    *)
(* traced variable of the guard only if a leak that is blamed on it is in  *)
(* that body or in a function called from there (WriteOutput, SinkTracer). *)
(* The program runs afterwards as TracedRun says.                          *)
(***************************************************************************)
EXTENDS TracedRun, FiniteSets

VARIABLES
  matched,  \* the functions that MethodData has, in the order of matchSourceCode
  guard,    \* the COND_EXEC: around which statements, and how they are laid out
  marked    \* its traced variables that WriteOutput has marked

sink == <<matched, guard, marked>>

(* The debug location of an instruction: its statement, or 0 for none.       *)
StatementOf(n) == Instr(n).stmt
Instructions(fn) == {N(fn, k) : k \in {i \in DOMAIN prog.code[fn] : StatementOf(N(fn, i)) # 0}}
Statements(fn) == {StatementOf(n) : n \in Instructions(fn)}

(* The guard stands around the statements first to last of a function.  A    *)
(* line of main ends behind the statements in breaks.                        *)
NoGuard == [fn |-> "none", first |-> 0, last |-> 0, breaks |-> {}]
Guards ==
  UNION {{[fn |-> fn, first |-> i, last |-> j, breaks |-> B] :
            i, j \in Statements(fn), B \in SUBSET Statements("main")} : fn \in {"main", "f"}}

(* Lines and columns; the text of f is one line, before that of main.        *)
LineOf(g, fn, j) == IF fn = "f" THEN 0 ELSE 1 + Cardinality({k \in g.breaks : k < j})
-----------------------------------------------------------------------------
(* A mistake to detect: only the lines are compared.                         *)
InRangeByLine(g, n) ==
  LineOf(g, n[1], StatementOf(n)) \in LineOf(g, g.fn, g.first)..LineOf(g, g.fn, g.last)

(* The test of matchSourceCode for an instruction.                           *)
InRange(g, n) ==
  LET line == LineOf(g, n[1], StatementOf(n))
      start == LineOf(g, g.fn, g.first)
      end == LineOf(g, g.fn, g.last)
  IN \/ line > start /\ line < end
     \/ line = start /\ StatementOf(n) >= g.first
     \/ line = end /\ StatementOf(n) <= g.last

(* A local variable is found in its function, a global one in each.          *)
DeclaredIn(fn) == LocalsOf[fn] \cup {"g"}
MatchedIn(t) == {k \in DOMAIN matched : t.var \in DeclaredIn(matched[k])}

(* Each call of matchSourceCode that finds the variable sets the function    *)
(* and adds to the range.                                                    *)
RangeFunc(t) ==
  IF MatchedIn(t) = {} THEN "none"
  ELSE matched[CHOOSE k \in MatchedIn(t) : \A j \in MatchedIn(t) : j <= k]
InstsInRange(g, t) == UNION {{n \in Instructions(matched[k]) : InRange(g, n)} : k \in MatchedIn(t)}

Calls(n) == CASE IsA("call", n) -> {"f"} [] IsA("lib", n) -> {"library"} [] OTHER -> {}

(* What can be reached in the call graph from the functions in F.            *)
ClosedInCG(G) == \A fn \in G \ {"library"} : \A n \in Instructions(fn) : Calls(n) \subseteq G
ReachableInCG(F) ==
  {fn \in {"main", "f", "library"} :
     \A G \in SUBSET {"main", "f", "library"} : F \subseteq G /\ ClosedInCG(G) => fn \in G}

(* A mistake to detect: a sink in another function is not looked for.        *)
SinkInRangeLocally(g, t, n) == n \in InstsInRange(g, t)

SinkInRange(g, t, n) ==
  IF RangeFunc(t) = n[1] THEN n \in InstsInRange(g, t)
  ELSE n[1] \in ReachableInCG(UNION {Calls(m) : m \in InstsInRange(g, t)})
-----------------------------------------------------------------------------
SinkInit == RunInit /\ matched = <<"main">> /\ guard = NoGuard /\ marked = {}

(* genMethodData, at every call, for a function that is not known yet.       *)
EnterCallee(t) ==
  /\ ProcessCall(t)
  /\ matched' = IF \E k \in DOMAIN matched : matched[k] = "f" THEN matched ELSE Append(matched, "f")
  /\ UNCHANGED <<guard, marked>>

Propagate(t) ==
  /\ Known(t) \/ ProcessNormal(t) \/ ApplySummaries(t) \/ ProcessExit(t)
  /\ UNCHANGED sink

(* Where the guard is makes no difference to the solver; it is chosen here.  *)
Tracers(g) == {t \in prog.tracers : t.var \in DeclaredIn(g.fn)}
MarkTracers ==
  /\ WriteOutput
  /\ guard' \in {g \in Guards : g.first <= g.last /\ Tracers(g) # {}}
  /\ marked' = {t \in Tracers(guard') : \E n \in leaks : <<t, n>> \in report' /\ SinkInRange(guard', t, n)}
  /\ UNCHANGED matched

Analyse ==
  \/ stack # <<>> /\ \E t \in Head(stack) : EnterCallee(t) \/ Propagate(t)
  \/ WalkBack /\ UNCHANGED sink
  \/ MarkTracers

SinkNext == (Analyse /\ UNCHANGED run) \/ (Execute /\ UNCHANGED sink)

SinkSpec == SinkInit /\ [][SinkNext]_<<vars, run, sink>>
-----------------------------------------------------------------------------
(* In the body of the guard, or in a function that is called from there.     *)
Under(g, n) ==
  \/ n[1] = g.fn /\ StatementOf(n) \in g.first..g.last
  \/ /\ n[1] = "f" /\ g.fn = "main"
     /\ \E m \in Instructions("main") : IsA("call", m) /\ StatementOf(m) \in g.first..g.last

(* The body begins and ends on one line that has other statements as well.   *)
SharesLine(g) ==
  /\ LineOf(g, g.fn, g.first) = LineOf(g, g.fn, g.last)
  /\ \E j \in Statements(g.fn) \ (g.first..g.last) : LineOf(g, g.fn, j) = LineOf(g, g.fn, g.first)

(***************************************************************************)
(* A traced variable of a guard is marked exactly if a leak blamed on it   *)
(* is under the guard.  Two cases are excluded that go wrong: a body that  *)
(* shares its line, which takes all of the line for itself, and a global   *)
(* variable when another function has been entered after the guard's own.  *)
(***************************************************************************)
MarkedIffSinkUnder ==
  written /\ ~SharesLine(guard) =>
    \A t \in Tracers(guard) :
      RangeFunc(t) = guard.fn =>
        (t \in marked <=> \E n \in leaks : <<t, n>> \in report /\ Under(guard, n))

(***************************************************************************)
(* A guard whose body dereferences, itself or in a function it calls, what *)
(* was copied from a traced variable of the guard, is reported: in         *)
(* whatever order the solver takes the facts, and however the text is laid *)
(* out.  The global variable is excluded as before.                        *)
(***************************************************************************)
GuardedDereferencesFound ==
  written =>
    \A h \in holds :
      /\ Dereferences(at, h[1]) /\ Under(guard, at)
      /\ h[2] \in Tracers(guard) /\ RangeFunc(h[2]) = guard.fn
      => h[2] \in marked
=============================================================================
