----------------------------- MODULE NaiveTaint -----------------------------
(***************************************************************************)
(* What TaintFlow has to find in a program without fields, where no flow   *)
(* function reads TaintPaths: the path edges that follow from the tracers, *)
(* what may alias them and the copies of the program, round by round,      *)
(* without a solver and its order.                                         *)
(***************************************************************************)
EXTENDS TracedRun

NoFields(p) ==
  /\ \A t \in p.tracers : ~t.field
  /\ \A fn \in {"main", "f"} : \A k \in DOMAIN p.code[fn] : p.code[fn][k].op # "gep"

InstrOf(p, n) == p.code[n[1]][n[2]]
SuccOf(p, n) ==
  {N(n[1], n[2] + 1)} \cup (IF InstrOf(p, n).op = "br" THEN {N("main", 3)} ELSE {})
LoadedIn(p, d) == d[2] > 0 /\ InstrOf(p, d).op = "load"
EndOfF(p) == N("f", Len(p.code["f"]))

(* The instruction at n uses the object that d points to.                    *)
UsedAt(p, n, d) ==
  LET i == InstrOf(p, n)
  IN d = i.ptr /\ (i.op = "lib" \/ (i.op \in {"load", "store"} /\ LoadedIn(p, d)))

(* What is tainted behind the instruction at n if d is before it: an address *)
(* that has been loaded is used once, and a variable keeps its taint.        *)
TaintedBehind(p, n, d) ==
  LET i == InstrOf(p, n)
  IN (IF i.op # "lib" /\ UsedAt(p, n, d) THEN {} ELSE {d})
       \cup (IF \/ i.op = "alloca" /\ d = Zero /\ Plain(i.ptr[1]) \in p.tracers
                \/ i.op = "store" /\ d = i.val
             THEN {i.ptr} ELSE {})
       \cup (IF i.op = "alloca" /\ d = Zero /\ Plain(i.ptr[1]) \in p.tracers
             THEN AliasesIn(p, i.ptr[1]) ELSE {})
       \cup (IF \/ i.op = "load" /\ d = i.ptr /\ ~LoadedIn(p, d)
                \/ i.op = "cast" /\ d = i.ptr
             THEN {n} ELSE {})

(* What f is entered with if d is tainted at the call n, and what has been   *)
(* tainted behind the call of e when the edge x has come to the end of f.    *)
TaintedInside(p, n, d) == (IF d = Zero THEN {Zero} ELSE {}) \cup (IF d = InstrOf(p, n).ptr THEN {Formal} ELSE {})
TaintedByCall(p, e, x) ==
  IF x[1] \in TaintedInside(p, e[2], e[3])
  THEN (IF x[3] = Formal THEN {InstrOf(p, e[2]).ptr} ELSE {})
         \cup (IF x[3] = InstrOf(p, EndOfF(p)).val THEN {e[2]} ELSE {})
  ELSE {}

(* The path edges that follow from those in S in one step.                   *)
Follows(p, S) ==
  LET calls == {e \in S : InstrOf(p, e[2]).op = "call"}
      starts == {<<Zero, N("main", 1), d>> : d \in {Zero} \cup (IF Plain("g") \in p.tracers THEN {V("g")} ELSE {})}
      behind == UNION {{<<e[1], m, y>> : m \in SuccOf(p, e[2]), y \in TaintedBehind(p, e[2], e[3])} :
                         e \in {x \in S : InstrOf(p, x[2]).op # "ret"}}
      inside == UNION {{<<y, N("f", 1), y>> : y \in TaintedInside(p, e[2], e[3])} : e \in calls}
      back == UNION {{<<e[1], m, y>> : m \in SuccOf(p, e[2]), y \in TaintedByCall(p, e, x)} :
                       e \in calls, x \in {z \in S : z[2] = EndOfF(p)}}
  IN starts \cup behind \cup inside \cup back

Closed(p, S) == Follows(p, S) \subseteq S

(* The rounds for a program: all in the next round follows from the one      *)
(* before, and from the last one nothing new.                                *)
CONSTANT Rounds

ASSUME RoundsFollow ==
  \A p \in {x \in Programs : NoFields(x)} :
    LET R == Rounds[p]
    IN /\ Len(R) \in Nat \ {0} /\ R[1] = {}
       /\ \A j \in 1..Len(R) - 1 : R[j + 1] \subseteq Follows(p, R[j])
       /\ Closed(p, R[Len(R)])

UsesIn(p, S) == {e[2] : e \in {x \in S : UsedAt(p, x[2], x[3])}}
-----------------------------------------------------------------------------
(* Without fields the leaks that WriteOutput is given are the uses of what   *)
(* has been copied from a tracer, or from what may alias one, no more and no *)
(* fewer, in whatever order the solver has taken the facts.                  *)
LeaksFollow ==
  stack = <<>> /\ ~written /\ NoFields(prog) => leaks = UsesIn(prog, Rounds[prog][Len(Rounds[prog])])
=============================================================================
