------------------------------ MODULE TaintFlow ------------------------------
(***************************************************************************)
(* The dependence analysis (phasar_plugin): which dereferences of a        *)
(* program can depend on which traced variables.  The flow functions of    *)
(* the plugin run in Phasar's IFDS solver, which is depth-first and visits *)
(* the facts of a set in no order that matters; they have side effects on  *)
(* the global data TaintPaths and Leaks, and those of getelementptr and of *)
(* load read TaintPaths, too.  WriteOutput walks TaintPaths backwards from *)
(* every leak to the tracers.                                              *)
(*                                                                         *)
(* Programs are given as the code of main and of a function f that main    *)
(* may call, with local variables, one global variable and one struct type *)
(* that has one field; they are compiled as clang -O0 does, so that every  *)
(* use of a variable is a load of its own.  What the library's points-to   *)
(* analysis says is part of the program; variadic functions are left out.  *)
(***************************************************************************)
EXTENDS Integers, Sequences

CONSTANT Programs     \* records with the fields code, tracers and aliases

VARIABLES
  prog,      \* the program
  stack,     \* what the recursive solver has still to do: sets, innermost first
  seen,      \* path edges <<d1, n, d2>>
  incoming,  \* calls <<d1, n, d2, d3>> whose callee was entered with d3
  paths,     \* GlobalData->TaintPaths: <<target, source>>
  leaks,     \* GlobalData->Leaks
  visited,   \* <<leak, node>>: what the walk from a leak has come to
  report,    \* pairs <<tracer, leak>>
  written    \* WriteOutput has run

vars == <<prog, stack, seen, incoming, paths, leaks, visited, report, written>>
-----------------------------------------------------------------------------
(* Values, which are also the facts and, with Field, the taint nodes: the    *)
(* address of variable x, the result of instruction k of function fn.        *)
V(x) == <<x, 0>>
N(fn, k) == <<fn, k>>
Zero == <<"zero", 0>>
Formal == <<"formal", 0>>
Const == <<"const", 0>>
Field == <<"field", 0>>

LocalsOf == [fn \in {"main", "f"} |-> IF fn = "main" THEN {"p", "q"} ELSE {"a"}]
Variables == {"p", "q", "a", "g"}
Node == ({"zero", "formal", "const", "field"} \cup Variables) \X {0} \cup {"main", "f"} \X (Nat \ {0})

(* An instruction reads or writes at ptr, or takes it as its argument, and   *)
(* stores or returns val.  It has been compiled from statement stmt of the   *)
(* body of its function; 0 is for what comes before and behind the body.     *)
Ops == {"alloca", "store", "load", "gep", "cast", "lib", "call", "br", "ret"}
Instruction == [op : Ops, ptr : Node, val : Node, stmt : Nat]

(* Tracers: a variable, or the field of what a variable points to.           *)
Plain(x) == [var |-> x, field |-> FALSE]
OfField(x) == [var |-> x, field |-> TRUE]
Tracer == [var : Variables, field : BOOLEAN]

(* The nodes that DecToTraceMap has the tracer at.                           *)
Keys(t) == {V(t.var)} \cup (IF t.field THEN {Field} ELSE {})

(* What an instruction of fn can use: variables, the argument of f and       *)
(* results of earlier instructions, each of which is used once.              *)
Usable(fn, k) ==
  {V(x) : x \in LocalsOf[fn] \cup {"g"}} \cup {N(fn, j) : j \in 1..k - 1} \cup {Const}
    \cup (IF fn = "f" THEN {Formal} ELSE {})
Uses(p, fn, d) == {k \in DOMAIN p.code[fn] : d \in {p.code[fn][k].ptr, p.code[fn][k].val}}

(* The results in fn that can be pointers. *)
Pointers(p, fn) ==
  {N(fn, k) : k \in {j \in DOMAIN p.code[fn] : p.code[fn][j].op \in {"load", "gep", "cast", "call"}}}

(* The field of a parameter is no tracer here: it is known to WriteOutput    *)
(* only once its function has been entered.  The code begins with the two    *)
(* variables of main; the address of a variable is only loaded from and      *)
(* stored to, so that what may alias a loaded pointer are results.           *)
WellFormed(p) ==
  /\ p.tracers \subseteq Tracer
  /\ \A t \in p.tracers : t.field => t.var \in LocalsOf["main"]
  /\ p.code \in [{"main", "f"} -> Seq(Instruction)]
  /\ \A fn \in {"main", "f"} :
       /\ p.code[fn] # <<>>
       /\ \A k \in DOMAIN p.code[fn] :
            LET i == p.code[fn][k]
            IN /\ i.op = "ret" <=> k = Len(p.code[fn])
               /\ i.op \in {"br", "call"} => fn = "main"
               /\ fn = "main" /\ k <= 2 => i.op = "alloca"
               /\ i.op = "alloca" => i.ptr \in {V(x) : x \in LocalsOf[fn]}
               /\ {i.ptr, i.val} \subseteq Usable(fn, k)
               /\ i.op \notin {"alloca", "load", "store"} => i.ptr[1] \notin Variables
               /\ i.val[1] \notin Variables
               /\ i.op = "store" /\ i.ptr = i.val => i.ptr = Const
               /\ i.op # "alloca" => \A d \in {i.ptr, i.val} : d[2] > 0 => Uses(p, fn, d) = {k}
       /\ \A x \in LocalsOf[fn] : p.aliases[x] \subseteq Pointers(p, fn)

ASSUME ProgramsWellFormed == \A p \in Programs : WellFormed(p)

Instr(n) == prog.code[n[1]][n[2]]
IsA(op, v) == v[2] > 0 /\ Instr(v).op = op
LastOf(fn) == N(fn, Len(prog.code[fn]))

Succ(n) ==
  {N(n[1], n[2] + 1)} \cup (IF Instr(n).op = "br" THEN {N("main", 3)} ELSE {})
-----------------------------------------------------------------------------
(* A flow function yields the facts after the instruction, what it adds to   *)
(* TaintPaths, and whether it reports a leak.                                *)
Effect(to, new, leak) == [to |-> to, paths |-> new, leak |-> leak]
Keep(d) == Effect({d}, {}, FALSE)

(* The points-to set of a load of x, as far as it is in the same function.   *)
AliasesIn(p, x) ==
  IF \E fn \in {"main", "f"} : \E k \in DOMAIN p.code[fn] :
       p.code[fn][k].op = "load" /\ p.code[fn][k].ptr = V(x)
  THEN p.aliases[x] ELSE {}

(* With a traced variable all that may alias its value becomes a source.     *)
AllocaFlow(i, n, d) ==
  LET x == i.ptr[1]
      sources == IF Plain(x) \in prog.tracers THEN AliasesIn(prog, x) ELSE {}
  IN IF d # Zero THEN Keep(d)
     ELSE Effect({Zero} \cup {V(x) : t \in prog.tracers \cap {Plain(x)}} \cup sources,
                 {<<Field, Field>> : t \in prog.tracers \cap {OfField(x)}}
                   \cup {<<y, V(x)>> : y \in sources},
                 FALSE)

(* The address that is dereferenced is tainted: by what?                     *)
SinkFlow(n, d) ==
  LET byFlow == \E v \in {e[2] : e \in {x \in paths : x[1] = d}} : v # Field
      byFieldBase == <<d, Field>> \in paths
  IN CASE IsA("load", d) -> Effect({}, {<<n, d>>}, TRUE)
       [] IsA("gep", d) /\ byFlow -> Effect(IF byFieldBase THEN {d} ELSE {}, {<<n, d>>}, TRUE)
       [] OTHER -> Keep(d)

(* A mistake to detect: an assignment takes the taint of the variable away. *)
StoreFlowOverwrites(i, n, d) ==
  CASE d = i.val -> Effect({d, i.ptr}, {<<i.ptr, d>>}, FALSE)
    [] d # i.val /\ d = i.ptr -> Effect({}, {}, FALSE)
    [] OTHER -> Keep(d)

StoreFlow(i, n, d) ==
  CASE d = i.val ->
         Effect({d, i.ptr},
                {<<i.ptr, d>>} \cup (IF IsA("gep", i.ptr) THEN {<<Field, i.ptr>>} ELSE {}), FALSE)
    [] d # i.val /\ d = i.ptr -> SinkFlow(n, d)
    [] OTHER -> Keep(d)

LoadFlow(i, n, d) ==
  CASE d # i.ptr -> Keep(d)
    [] d = i.ptr /\ (IsA("load", d) \/ IsA("gep", d)) -> SinkFlow(n, d)
    [] OTHER -> Effect({d, n}, {<<n, d>>}, FALSE)

(* The set of field tuples is looked up whatever the fact is.                *)
GetElePtrFlow(i, n, d) ==
  LET byFieldBase == \E e \in paths : e[1] = Field
  IN Effect({d} \cup (IF byFieldBase \/ d = i.ptr THEN {n} ELSE {}),
            (IF byFieldBase THEN {<<n, Field>>} ELSE {})
              \cup (IF d = i.ptr THEN {<<n, d>>, <<Field, n>>} ELSE {}),
            FALSE)

CastFlow(i, n, d) == IF d = i.ptr THEN Effect({d, n}, {<<n, d>>}, FALSE) ELSE Keep(d)

(* strlen and others, whose bodies are not known but are sinks: ptr is an    *)
(* argument at one of the listed indices, val one at another.                *)
SummaryFlow(i, n, d) == IF d = i.ptr THEN Effect({d}, {<<n, d>>}, TRUE) ELSE Keep(d)

NormalFlow(n, d) ==
  LET i == Instr(n)
  IN CASE i.op = "alloca" -> AllocaFlow(i, n, d)
       [] i.op = "store" -> StoreFlow(i, n, d)
       [] i.op = "load" -> LoadFlow(i, n, d)
       [] i.op = "gep" -> GetElePtrFlow(i, n, d)
       [] i.op = "cast" -> CastFlow(i, n, d)
       [] i.op = "lib" -> SummaryFlow(i, n, d)
       [] OTHER -> Keep(d)

(* A mistake to detect: the argument is passed without a step in TaintPaths. *)
CallFlowWithoutPath(i, d) ==
  IF d = Zero THEN Keep(d) ELSE Effect(IF d = i.ptr THEN {Formal} ELSE {}, {}, FALSE)

(* The zero fact enters the callee alone: the global variables that are      *)
(* collected are not returned.                                               *)
CallFlow(i, d) ==
  CASE d = Zero -> Effect({Zero}, {}, FALSE)
    [] d = i.ptr -> Effect({Formal}, {<<Formal, d>>}, FALSE)
    [] OTHER -> Effect({}, {}, FALSE)

(* A mistake to detect: only the parameters come back, not the result. *)
RetFlowParameters(n, d) ==
  IF d = Zero THEN Keep(d)
  ELSE Effect({Instr(n).ptr : x \in {d} \cap {Formal}},
              {<<Instr(n).ptr, d>> : x \in {d} \cap {Formal}}, FALSE)

RetFlow(n, d) ==
  LET target == (IF d = Formal THEN {Instr(n).ptr} ELSE {})
                  \cup (IF d = Instr(LastOf("f")).val THEN {n} ELSE {})
  IN IF d = Zero THEN Keep(d) ELSE Effect(target, {<<v, d>> : v \in target}, FALSE)
-----------------------------------------------------------------------------
(* The solver.  An entry of the stack is a path edge to propagate, or what   *)
(* is left of a call once its callee, entered with d3, has been solved.      *)
Edge(d1, n, d2) == [after |-> FALSE, d1 |-> d1, n |-> n, d2 |-> d2, d3 |-> Zero]
After(d1, n, d2, d3) == [after |-> TRUE, d1 |-> d1, n |-> n, d2 |-> d2, d3 |-> d3]
EdgeOf(t) == <<t.d1, t.n, t.d2>>

(* A set to solve before the rest; what is left when t is done.              *)
Push(S, rest) == IF S = {} THEN rest ELSE <<S>> \o rest
Rest(t) == Push(Head(stack) \ {t}, Tail(stack))

Apply(e, n) ==
  /\ paths' = paths \cup e.paths
  /\ leaks' = IF e.leak THEN leaks \cup {n} ELSE leaks

Init ==
  /\ prog \in Programs
  /\ stack = <<{Edge(Zero, N("main", 1), Zero)}
                 \cup {Edge(Zero, N("main", 1), V("g")) :
                         t \in {u \in prog.tracers : u = Plain("g")}}>>
  /\ seen = {}
  /\ incoming = {}
  /\ paths = {}
  /\ leaks = {}
  /\ visited = {}
  /\ report = {}
  /\ written = FALSE

(* propagate returns at once for a known edge.                               *)
Known(t) ==
  /\ ~t.after /\ EdgeOf(t) \in seen
  /\ stack' = Rest(t)
  /\ UNCHANGED <<prog, seen, incoming, paths, leaks, visited, report, written>>

ProcessNormal(t) ==
  /\ ~t.after /\ EdgeOf(t) \notin seen
  /\ Instr(t.n).op \notin {"call", "ret"}
  /\ seen' = seen \cup {EdgeOf(t)}
  /\ LET e == NormalFlow(t.n, t.d2)
     IN /\ stack' = Push({Edge(t.d1, m, d) : m \in Succ(t.n), d \in e.to}, Rest(t))
        /\ Apply(e, t.n)
  /\ UNCHANGED <<prog, incoming, visited, report, written>>

(* The callee first, then its summaries, then the call-to-return flow.       *)
ProcessCall(t) ==
  /\ ~t.after /\ EdgeOf(t) \notin seen
  /\ Instr(t.n).op = "call"
  /\ seen' = seen \cup {EdgeOf(t)}
  /\ LET e == CallFlow(Instr(t.n), t.d2)
     IN /\ stack' = Push({Edge(d, N("f", 1), d) : d \in e.to},
                         Push({After(t.d1, t.n, t.d2, d) : d \in e.to},
                              Push({Edge(t.d1, m, t.d2) : m \in Succ(t.n)}, Rest(t))))
        /\ Apply(e, t.n)
  /\ UNCHANGED <<prog, incoming, visited, report, written>>

(* The call is registered, and what is known of its callee is applied.       *)
ApplySummaries(t) ==
  /\ t.after
  /\ incoming' = incoming \cup {<<t.d1, t.n, t.d2, t.d3>>}
  /\ LET out == {e[3] : e \in {x \in seen : x[1] = t.d3 /\ x[2] = LastOf("f")}}
     IN /\ stack' = Push({Edge(t.d1, m, d) : m \in Succ(t.n), d \in UNION {RetFlow(t.n, o).to : o \in out}}, Rest(t))
        /\ paths' = paths \cup UNION {RetFlow(t.n, o).paths : o \in out}
  /\ UNCHANGED <<prog, seen, leaks, visited, report, written>>

(* A mistake to detect: what comes out of f goes back to every call of it.   *)
ProcessExitToAll(t) ==
  /\ ~t.after /\ EdgeOf(t) \notin seen
  /\ Instr(t.n).op = "ret"
  /\ seen' = seen \cup {EdgeOf(t)}
  /\ LET calls == {c \in incoming : t.n[1] = "f"}
     IN /\ stack' = Push(UNION {{Edge(c[1], m, d) : m \in Succ(c[2]), d \in RetFlow(c[2], t.d2).to} : c \in calls}, Rest(t))
        /\ paths' = paths \cup UNION {RetFlow(c[2], t.d2).paths : c \in calls}
  /\ UNCHANGED <<prog, incoming, leaks, visited, report, written>>

ProcessExit(t) ==
  /\ ~t.after /\ EdgeOf(t) \notin seen
  /\ Instr(t.n).op = "ret"
  /\ seen' = seen \cup {EdgeOf(t)}
  /\ LET calls == {c \in incoming : t.n[1] = "f" /\ c[4] = t.d1}
     IN /\ stack' = Push(UNION {{Edge(c[1], m, d) : m \in Succ(c[2]), d \in RetFlow(c[2], t.d2).to} : c \in calls}, Rest(t))
        /\ paths' = paths \cup UNION {RetFlow(c[2], t.d2).paths : c \in calls}
  /\ UNCHANGED <<prog, incoming, leaks, visited, report, written>>

(* WriteOutput: backwards through TaintPaths from every leak, a step of all  *)
(* of the walks at a time.                                                   *)
Before == {<<n, n>> : n \in leaks}
            \cup UNION {{<<v[1], e[2]>> : e \in {x \in paths : x[1] = v[2]}} : v \in visited}

WalkBack ==
  /\ stack = <<>> /\ ~(Before \subseteq visited)
  /\ visited' = visited \cup Before
  /\ UNCHANGED <<prog, stack, seen, incoming, paths, leaks, report, written>>

(* A mistake to detect: the results are written while the solver is at work. *)
WriteOutputEarly ==
  /\ ~written /\ leaks # {}
  /\ written' = TRUE
  /\ report' = {r \in prog.tracers \X leaks : \E key \in Keys(r[1]) : <<r[2], key>> \in visited}
  /\ UNCHANGED <<prog, stack, seen, incoming, paths, leaks, visited>>

WriteOutput ==
  /\ stack = <<>> /\ Before \subseteq visited /\ ~written
  /\ written' = TRUE
  /\ report' = {r \in prog.tracers \X leaks : \E key \in Keys(r[1]) : <<r[2], key>> \in visited}
  /\ UNCHANGED <<prog, stack, seen, incoming, paths, leaks, visited>>

Next ==
  \/ /\ stack # <<>>
     /\ \E t \in Head(stack) :
          Known(t) \/ ProcessNormal(t) \/ ProcessCall(t) \/ ApplySummaries(t) \/ ProcessExit(t)
  \/ WalkBack
  \/ WriteOutput

Spec == Init /\ [][Next]_vars
-----------------------------------------------------------------------------
(* Type correctness: leaks are dereferences, and nothing is reported before  *)
(* the solver has finished.                                                  *)
TypeOK ==
  /\ stack \in Seq(SUBSET [after : BOOLEAN, d1 : Node, n : Node, d2 : Node, d3 : Node])
  /\ seen \subseteq Node \X Node \X Node
  /\ incoming \subseteq Node \X Node \X Node \X Node
  /\ paths \subseteq Node \X Node
  /\ leaks \subseteq Node /\ \A n \in leaks : Instr(n).op \in {"load", "store", "lib"}
  /\ visited \subseteq leaks \X Node
  /\ report \subseteq prog.tracers \X leaks
  /\ written => stack = <<>>

(* The walk back through TaintPaths from a leak comes to a tracer: no flow   *)
(* function generates a fact without the step it came by.                    *)
LeaksBlamed == written => \A n \in leaks : \E t \in prog.tracers : <<t, n>> \in report
=============================================================================
