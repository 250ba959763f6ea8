---------------------------- MODULE TaintPrograms ----------------------------
(***************************************************************************)
(* Programs for TaintFlow as C statements over the pointers p and q of     *)
(* main, a of a function f that main calls, and the global g, compiled as  *)
(* clang -O0 does, and which of their dereferences are to be leaks.        *)
(***************************************************************************)
EXTENDS NaiveTaint, SequencesExt

Do(op, ptr, val) == [op |-> op, ptr |-> ptr, val |-> val, stmt |-> 0]

(* The instructions of statement s of fn, placed after the first b ones.     *)
Compile(s, fn, b) ==
  LET k(j) == N(fn, b + j)
      load(x) == Do("load", V(x), Const)
  IN CASE s.op = "copy" -> <<load(s.x), Do("store", V(s.to), k(1))>>
       [] s.op = "cast" -> <<load(s.x), Do("cast", k(1), Const), Do("store", V(s.to), k(2))>>
       [] s.op = "read" -> <<load(s.x), Do("load", k(1), Const)>>
       [] s.op = "write" -> <<load(s.x), Do("store", k(1), Const)>>
       [] s.op = "lib" -> <<load(s.to), load(s.x), Do("lib", k(2), k(1))>>
       [] s.op = "getf" -> <<load(s.x), Do("gep", k(1), Const), Do("load", k(2), Const),
                             Do("store", V(s.to), k(3))>>
       [] s.op = "putf" -> <<load(s.to), load(s.x), Do("gep", k(2), Const), Do("store", k(3), k(1))>>
       [] s.op = "call" -> <<load(s.x), Do("call", k(1), Const), Do("store", V(s.to), k(2))>>

Labelled(code, j) == [k \in DOMAIN code |-> [code[k] EXCEPT !.stmt = j]]

(* main: the code, and where each statement begins in it.                    *)
CompileMain(body) ==
  FoldLeft(LAMBDA c, s : [code |-> c.code \o Labelled(Compile(s, "main", Len(c.code)), Len(c.at) + 1),
                          at   |-> Append(c.at, Len(c.code))],
           [code |-> <<Do("alloca", V("p"), Const), Do("alloca", V("q"), Const)>>, at |-> <<>>], body)

CompileF(s) ==
  LET code == <<Do("alloca", V("a"), Const), Do("store", V("a"), Formal)>> \o Labelled(Compile(s, "f", 2), 1)
  IN code \o <<Do("load", V("a"), Const), Do("ret", Const, N("f", Len(code) + 1))>>

(***************************************************************************)
(* The points-to sets are those of an analysis that unifies what is        *)
(* assigned, in whatever order: the cells whose pointers may be equal, and *)
(* the results in a function that stand for one of them.                   *)
(***************************************************************************)
Linked(s) ==
  CASE s.op \in {"copy", "cast"} -> {{s.x, s.to}}
    [] s.op \in {"getf", "putf"} -> {{"field", s.to}}
    [] s.op = "call" -> {{s.x, "a"}, {"a", s.to}}
    [] OTHER -> {}

Unified(stmts, x) ==
  LET links == UNION {Linked(s) : s \in stmts}
      closed(C) == \A l \in links : l \cap C # {} => l \subseteq C
  IN {y \in Variables \cup {"field"} :
        \A C \in SUBSET (Variables \cup {"field"}) : x \in C /\ closed(C) => y \in C}

(* The cell whose pointer is the result of instruction k; body has the       *)
(* statements of the function.                                               *)
CellOf(code, body, k) ==
  LET i == code[k]
  IN CASE i.op = "load" /\ i.ptr[2] = 0 -> i.ptr[1]
       [] i.op = "load" /\ i.ptr[2] > 0 -> IF code[i.ptr[2]].op = "gep" THEN "field" ELSE "none"
       [] i.op = "cast" -> body[i.stmt].x
       [] i.op = "call" -> body[i.stmt].to
       [] OTHER -> "none"

AliasesOf(code, body, fn, cells) == {N(fn, k) : k \in {j \in DOMAIN code : CellOf(code, body, j) \in cells}}

Program(body, callee, tracers, loop) ==
  LET main == CompileMain(body)
      stmts == ToSet(body) \cup {callee}
      code == [main |-> main.code \o (IF loop THEN <<Do("br", Const, Const)>> ELSE <<>>)
                          \o <<Do("ret", Const, Const)>>,
               f    |-> CompileF(callee)]
  IN [body |-> body, callee |-> callee, tracers |-> tracers, loop |-> loop, start |-> main.at, code |-> code,
      aliases |-> [x \in {"p", "q", "a"} |->
                     IF x = "a" THEN AliasesOf(code["f"], <<callee>>, "f", Unified(stmts, x))
                                ELSE AliasesOf(code["main"], body, "main", Unified(stmts, x))]]
-----------------------------------------------------------------------------
(* A program without fields: the cells whose value is a source wherever it   *)
(* is loaded in main, and the variables that may hold a traced value after   *)
(* a statement of main, when no assignment takes one away.                   *)
VarsOf(s) == {s.x} \cup (IF s.op \in {"lib", "putf"} THEN {s.to} ELSE {})
Sources ==
  UNION {Unified(ToSet(prog.body) \cup {prog.callee}, t.var) :
           t \in {u \in prog.tracers : u.var \in {"p", "q"} /\ \E j \in DOMAIN prog.body : u.var \in VarsOf(prog.body[j])}}

Tainted(T, s) ==
  IF \/ s.op \in {"copy", "cast"} /\ s.x \in T \cup Sources
     \/ s.op = "call" /\ (s.x \in T \cup Sources \/ Plain("a") \in prog.tracers)
  THEN T \cup {s.to} ELSE T

Direct(s) == s.op \in {"read", "write", "lib"}

(* Taint before each statement that is executed, as <<T, index>>.            *)
Visits ==
  LET size == Len(prog.body)
      rounds == [k \in 1..(size * (IF prog.loop THEN 4 ELSE 1)) |-> ((k - 1) % size) + 1]
      before(k) == FoldLeft(LAMBDA T, j : Tainted(T, prog.body[j]),
                            {t.var : t \in prog.tracers} \cap {"p", "q", "g"}, SubSeq(rounds, 1, k - 1))
  IN {<<before(k), rounds[k]>> : k \in DOMAIN rounds}

TaintedDereferences ==
  LET isSink(v) == Direct(prog.body[v[2]]) /\ prog.body[v[2]].x \in v[1] \cup Sources
      isSinkInF(v) == /\ prog.body[v[2]].op = "call"
                      /\ Direct(prog.callee) /\ prog.callee.x = "a"
                      /\ prog.body[v[2]].x \in v[1] \cup Sources \/ Plain("a") \in prog.tracers
      sinkOf(s, b) == N("main", b + IF s.op = "lib" THEN 3 ELSE 2)
  IN {sinkOf(prog.body[v[2]], prog.start[v[2]]) : v \in {w \in Visits : isSink(w)}}
       \cup {N("f", 4) : v \in {w \in Visits : isSinkInF(w)}}

FieldFree ==
  /\ \A t \in prog.tracers : ~t.field
  /\ \A s \in ToSet(prog.body) \cup {prog.callee} : s.op \notin {"getf", "putf"}

(* Without fields the leaks are these dereferences, no more and no fewer, in *)
(* whatever order the solver takes the facts.                                *)
LeaksExact == written /\ FieldFree => leaks = TaintedDereferences
=============================================================================
