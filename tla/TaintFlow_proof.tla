--------------------------- MODULE TaintFlow_proof ---------------------------
(***************************************************************************)
(* Proofs about TaintFlow, for all well-formed programs, tracers and       *)
(* orders of facts: the solver keeps its types, every leak is blamed on a  *)
(* tracer, nothing that a flow function generates is forgotten, and in a   *)
(* program without fields the solver finds the least set of path edges     *)
(* that has the tracers and what may alias them and is closed under the    *)
(* copies of the program, so that its leaks are those that the rounds of   *)
(* NaiveTaint find.                                                        *)
(***************************************************************************)
EXTENDS NaiveTaint, SequenceTheorems, WellFoundedInduction, TLAPS

Point == {n \in {"main", "f"} \X (Nat \ {0}) : n[2] \in DOMAIN prog.code[n[1]]}
PointOf(ops) == {n \in Point : Instr(n).op \in ops}

Task == {t \in [after : BOOLEAN, d1 : Node, n : Point, d2 : Node, d3 : Node] :
           t.after => t.n \in PointOf({"call"})}

(* What the solver has still to do, in whatever order. *)
Items(s) == UNION {s[k] : k \in DOMAIN s}

TypeInv ==
  /\ prog \in Programs
  /\ stack \in Seq(SUBSET Task)
  /\ seen \subseteq Node \X Point \X Node
  /\ incoming \subseteq Node \X PointOf({"call"}) \X Node \X Node
  /\ paths \subseteq Node \X Node
  /\ leaks \subseteq PointOf({"load", "store", "lib"})
  /\ visited \subseteq leaks \X Node
  /\ report \subseteq prog.tracers \X leaks
  /\ written => stack = <<>>

-----------------------------------------------------------------------------
(* The stack of sets is a set of tasks. *)
LEMMA PushItems ==
  ASSUME NEW T, NEW S \in SUBSET T, NEW rest \in Seq(SUBSET T)
  PROVE  Push(S, rest) \in Seq(SUBSET T) /\ Items(Push(S, rest)) = S \cup Items(rest)
<1>1. CASE S = {}
  BY <1>1 DEF Push
<1>2. CASE S # {}
  <2>1. Push(S, rest) = <<S>> \o rest
    BY <1>2 DEF Push
  <2>2. /\ Push(S, rest) \in Seq(SUBSET T)
        /\ Len(Push(S, rest)) = 1 + Len(rest)
        /\ \A i \in 1..1 + Len(rest) : Push(S, rest)[i] = IF i <= 1 THEN <<S>>[i] ELSE rest[i - 1]
    BY <2>1, ConcatProperties
  <2>3. Items(Push(S, rest)) \subseteq S \cup Items(rest)
    BY <2>2 DEF Items
  <2>4. S \subseteq Items(Push(S, rest))
    <3>1. 1 \in DOMAIN Push(S, rest) /\ Push(S, rest)[1] = S
      BY <2>2
    <3> QED
      BY <3>1 DEF Items
  <2>5. Items(rest) \subseteq Items(Push(S, rest))
    <3> SUFFICES ASSUME NEW k \in DOMAIN rest PROVE rest[k] \subseteq Items(Push(S, rest))
      BY DEF Items
    <3>1. k + 1 \in DOMAIN Push(S, rest) /\ Push(S, rest)[k + 1] = rest[k]
      BY <2>2
    <3> QED
      BY <3>1 DEF Items
  <2> QED
    BY <2>2, <2>3, <2>4, <2>5
<1> QED
  BY <1>1, <1>2

LEMMA RestItems ==
  ASSUME NEW T, stack \in Seq(SUBSET T), stack # <<>>, NEW t \in Head(stack)
  PROVE  Rest(t) \in Seq(SUBSET T) /\ t \in T /\ Items(stack) = {t} \cup Items(Rest(t))
<1>1. /\ Head(stack) \in SUBSET T /\ Tail(stack) \in Seq(SUBSET T)
      /\ Len(Tail(stack)) = Len(stack) - 1
      /\ \A i \in 1..Len(Tail(stack)) : Tail(stack)[i] = stack[i + 1]
      /\ Head(stack) = stack[1]
  BY HeadTailProperties
<1>2. Items(stack) = Head(stack) \cup Items(Tail(stack))
  <2>1. Head(stack) \subseteq Items(stack)
    BY <1>1 DEF Items
  <2>2. Items(Tail(stack)) \subseteq Items(stack)
    <3> SUFFICES ASSUME NEW k \in DOMAIN Tail(stack) PROVE Tail(stack)[k] \subseteq Items(stack)
      BY DEF Items
    <3>1. k + 1 \in DOMAIN stack /\ stack[k + 1] = Tail(stack)[k]
      BY <1>1
    <3> QED
      BY <3>1 DEF Items
  <2>3. ASSUME NEW k \in DOMAIN stack PROVE stack[k] \subseteq Head(stack) \cup Items(Tail(stack))
    <3>1. CASE k = 1
      BY <1>1, <3>1
    <3>2. CASE k # 1
      <4>1. k - 1 \in DOMAIN Tail(stack) /\ Tail(stack)[k - 1] = stack[k]
        BY <1>1, <3>2
      <4> QED
        BY <4>1 DEF Items
    <3> QED
      BY <3>1, <3>2
  <2> QED
    BY <2>1, <2>2, <2>3 DEF Items
<1>3. /\ Rest(t) \in Seq(SUBSET T)
      /\ Items(Rest(t)) = (Head(stack) \ {t}) \cup Items(Tail(stack))
  <2> DEFINE S == Head(stack) \ {t}
             rest == Tail(stack)
  <2>1. S \in SUBSET T /\ rest \in Seq(SUBSET T)
    BY <1>1
  <2>2. Rest(t) = Push(S, rest)
    BY DEF Rest
  <2> HIDE DEF S, rest
  <2>3. \A U \in SUBSET T, r \in Seq(SUBSET T) : Push(U, r) \in Seq(SUBSET T) /\ Items(Push(U, r)) = U \cup Items(r)
    BY PushItems
  <2>4. Push(S, rest) \in Seq(SUBSET T) /\ Items(Push(S, rest)) = S \cup Items(rest)
    BY <2>1, <2>3
  <2> QED
    BY <2>2, <2>4 DEF S, rest
<1> QED
  BY <1>1, <1>2, <1>3

-----------------------------------------------------------------------------
(* Instructions, and where the program goes on behind them. *)
LEMMA InstrType ==
  ASSUME prog \in Programs, NEW n \in Point
  PROVE  /\ Instr(n) \in Instruction
         /\ Instr(n).ptr \in Node /\ Instr(n).val \in Node /\ n \in Node
         /\ Zero \notin {Instr(n).ptr, Instr(n).val}
<1>1. WellFormed(prog)
  BY ProgramsWellFormed
<1>2. /\ n[1] \in {"main", "f"} /\ n[2] \in DOMAIN prog.code[n[1]] /\ n = <<n[1], n[2]>>
      /\ n \in Node
  BY DEF Point, Node
<1>3. Instr(n) \in Instruction
  BY <1>1, <1>2 DEF WellFormed, Instr
<1>4. {Instr(n).ptr, Instr(n).val} \subseteq Usable(n[1], n[2])
  BY <1>1, <1>2 DEF WellFormed, Instr
<1>5. Zero \notin Usable(n[1], n[2])
  BY <1>2 DEF Usable, Zero, V, N, Const, Formal, LocalsOf
<1> QED
  BY <1>2, <1>3, <1>4, <1>5 DEF Instruction

(* What well-formed programs say of a single instruction.                    *)
LEMMA InstrRules ==
  ASSUME prog \in Programs, NEW n \in Point
  PROVE  LET i == Instr(n)
         IN /\ i.op \in {"br", "call"} => n[1] = "main"
            /\ i.op = "alloca" => i.ptr \in {V(x) : x \in LocalsOf[n[1]]}
            /\ i.op = "alloca" => i.ptr[1] \in {"p", "q", "a"}
            /\ {i.ptr, i.val} \subseteq Usable(n[1], n[2])
            /\ i.op \notin {"alloca", "load", "store"} => i.ptr[1] \notin Variables
            /\ i.val[1] \notin Variables
            /\ i.op = "store" /\ i.ptr = i.val => i.ptr = Const
            /\ i.op # "alloca" => \A d \in {i.ptr, i.val} : d[2] > 0 => Uses(prog, n[1], d) = {n[2]}
<1>1. WellFormed(prog)
  BY ProgramsWellFormed
<1>2. n[1] \in {"main", "f"} /\ n[2] \in DOMAIN prog.code[n[1]]
  BY DEF Point
<1>3. Instr(n).op = "alloca" => Instr(n).ptr \in {V(x) : x \in LocalsOf[n[1]]}
  BY <1>1, <1>2, Zenon DEF WellFormed, Instr
<1>4. Instr(n).op = "alloca" => Instr(n).ptr[1] \in {"p", "q", "a"}
  <2>1. LocalsOf[n[1]] \subseteq {"p", "q", "a"}
    BY <1>2 DEF LocalsOf
  <2> QED
    BY <1>3, <2>1 DEF V
<1>5. Instr(n).op \in {"br", "call"} => n[1] = "main"
  BY <1>1, <1>2, Zenon DEF WellFormed, Instr
<1>6. {Instr(n).ptr, Instr(n).val} \subseteq Usable(n[1], n[2])
  BY <1>1, <1>2, Zenon DEF WellFormed, Instr
<1>7. /\ Instr(n).op \notin {"alloca", "load", "store"} => Instr(n).ptr[1] \notin Variables
      /\ Instr(n).val[1] \notin Variables
  BY <1>1, <1>2, Zenon DEF WellFormed, Instr
<1>8. Instr(n).op = "store" /\ Instr(n).ptr = Instr(n).val => Instr(n).ptr = Const
  BY <1>1, <1>2, Zenon DEF WellFormed, Instr
<1>9. Instr(n).op # "alloca" =>
        \A d \in {Instr(n).ptr, Instr(n).val} : d[2] > 0 => Uses(prog, n[1], d) = {n[2]}
  BY <1>1, <1>2, Zenon DEF WellFormed, Instr
<1> QED
  BY <1>3, <1>4, <1>5, <1>6, <1>7, <1>8, <1>9, Zenon

(* What may alias the value of a variable are results of instructions. *)
LEMMA AliasType ==
  ASSUME prog \in Programs, NEW x \in {"p", "q", "a"}
  PROVE  AliasesIn(prog, x) \subseteq Node \ {Zero}
<1>1. WellFormed(prog)
  BY ProgramsWellFormed
<1>2. PICK fn \in {"main", "f"} : x \in LocalsOf[fn]
  BY DEF LocalsOf
<1>3. prog.code[fn] \in Seq(Instruction)
  BY <1>1 DEF WellFormed
<1>4. prog.aliases[x] \subseteq Pointers(prog, fn)
  BY <1>1, <1>2, Zenon DEF WellFormed
<1>5. Pointers(prog, fn) \subseteq Node \ {Zero}
  <2>1. DOMAIN prog.code[fn] \subseteq Nat \ {0}
    BY <1>3
  <2>2. \A k \in Nat \ {0} : N(fn, k) \in Node /\ N(fn, k) # Zero
    BY DEF N, Node, Zero
  <2> QED
    BY <2>1, <2>2 DEF Pointers
<1> QED
  BY <1>4, <1>5 DEF AliasesIn

LEMMA SuccType ==
  ASSUME prog \in Programs, NEW n \in Point, Instr(n).op # "ret"
  PROVE  Succ(n) \subseteq Point
<1>1. WellFormed(prog)
  BY ProgramsWellFormed
<1>2. n[1] \in {"main", "f"} /\ n[2] \in DOMAIN prog.code[n[1]] /\ n[2] \in Nat
  BY DEF Point
<1>3. prog.code[n[1]] \in Seq(Instruction) /\ n[2] # Len(prog.code[n[1]])
  BY <1>1, <1>2 DEF WellFormed, Instr
<1>4. n[2] + 1 \in DOMAIN prog.code[n[1]]
  BY <1>2, <1>3
<1>5. N(n[1], n[2] + 1) \in Point
  BY <1>2, <1>4 DEF Point, N
<1>6. ASSUME Instr(n).op = "br" PROVE N("main", 3) \in Point
  <2>1. n[1] = "main" /\ ~(n[2] <= 2)
    BY <1>1, <1>2, <1>6 DEF WellFormed, Instr
  <2>2. 3 \in DOMAIN prog.code["main"]
    BY <1>2, <1>3, <2>1
  <2> QED
    BY <2>2 DEF Point, N
<1> QED
  BY <1>5, <1>6 DEF Succ

(* The end of f and its beginning. *)
LEMMA EndsOfF ==
  ASSUME prog \in Programs
  PROVE  /\ N("main", 1) \in Point /\ N("f", 1) \in Point
         /\ LastOf("f") \in PointOf({"ret"})
         /\ \A n \in PointOf({"ret"}) : n[1] = "f" => n = LastOf("f")
         /\ \A n \in PointOf({"call"}) : n[1] = "main" /\ Succ(n) = {N("main", n[2] + 1)}
<1>1. WellFormed(prog)
  BY ProgramsWellFormed
<1>2. \A fn \in {"main", "f"} : prog.code[fn] \in Seq(Instruction) /\ prog.code[fn] # <<>>
  BY <1>1 DEF WellFormed
<1>3. \A fn \in {"main", "f"} : Len(prog.code[fn]) \in Nat \ {0} /\ DOMAIN prog.code[fn] = 1..Len(prog.code[fn])
  BY <1>2
<1>4. \A fn \in {"main", "f"} : \A k \in DOMAIN prog.code[fn] :
        /\ prog.code[fn][k].op = "ret" <=> k = Len(prog.code[fn])
        /\ prog.code[fn][k].op \in {"br", "call"} => fn = "main"
  BY <1>1 DEF WellFormed
<1>5. N("main", 1) \in Point /\ N("f", 1) \in Point /\ LastOf("f") \in Point
  BY <1>3 DEF Point, N, LastOf
<1>6. LastOf("f") \in PointOf({"ret"})
  BY <1>3, <1>4, <1>5 DEF PointOf, LastOf, N, Instr
<1>7. ASSUME NEW n \in PointOf({"ret"}), n[1] = "f" PROVE n = LastOf("f")
  BY <1>4, <1>7 DEF PointOf, Point, LastOf, N, Instr
<1>8. ASSUME NEW n \in PointOf({"call"}) PROVE n[1] = "main" /\ Succ(n) = {N("main", n[2] + 1)}
  BY <1>4, <1>8 DEF PointOf, Point, Succ, N, Instr
<1> QED
  BY <1>5, <1>6, <1>7, <1>8

-----------------------------------------------------------------------------
(* What the flow functions may do: each fact and each source of a path that  *)
(* they add comes from the fact that they are applied to, from a tracer, or  *)
(* from a field whose taint is known already.                                *)
Sound(e, n, d) ==
  /\ e.to \subseteq Node /\ e.paths \subseteq Node \X Node /\ e.leak \in BOOLEAN
  /\ e.leak => n \in PointOf({"load", "store", "lib"}) /\ <<n, d>> \in e.paths
  /\ \A x \in e.paths :
       \/ d # Zero /\ (x[2] = d \/ <<x[2], d>> \in e.paths)
       \/ \E t \in prog.tracers : x[2] = V(t.var)
       \/ x = <<Field, Field>> /\ \E t \in prog.tracers : t.field
       \/ x[2] = Field /\ \E y \in paths : y[1] = Field
  /\ \A y \in e.to : y = d \/ (\E t \in prog.tracers : y = V(t.var)) \/ (\E x \in e.paths : x[1] = y)

LEMMA KeepSound ==
  ASSUME NEW n, NEW d \in Node
  PROVE  Sound(Keep(d), n, d)
BY DEF Sound, Keep, Effect

LEMMA AllocaSound ==
  ASSUME prog \in Programs, NEW n \in PointOf({"alloca"}), NEW d \in Node
  PROVE  Sound(AllocaFlow(Instr(n), n, d), n, d)
<1> DEFINE i == Instr(n)
           x == i.ptr[1]
           sources == IF Plain(x) \in prog.tracers THEN AliasesIn(prog, x) ELSE {}
           self == {V(x) : t \in prog.tracers \cap {Plain(x)}}
           fields == {<<Field, Field>> : t \in prog.tracers \cap {OfField(x)}}
           steps == {<<y, V(x)>> : y \in sources}
           to == {Zero} \cup self \cup sources
           new == fields \cup steps
<1>1. /\ prog.tracers \subseteq Tracer /\ x \in {"p", "q", "a"}
      /\ V(x) \in Node /\ Field \in Node /\ Zero \in Node
      /\ sources \subseteq Node \ {Zero}
  <2>1. prog.tracers \subseteq Tracer
    BY ProgramsWellFormed DEF WellFormed
  <2>2. x \in {"p", "q", "a"}
    BY InstrRules DEF PointOf
  <2>3. AliasesIn(prog, x) \subseteq Node \ {Zero}
    BY <2>2, AliasType
  <2> QED
    BY <2>1, <2>2, <2>3 DEF V, Field, Zero, Node, Variables
<1>2. CASE d # Zero
  BY <1>2, KeepSound DEF AllocaFlow
<1>3. CASE d = Zero
  <2>1. AllocaFlow(i, n, d) = [to |-> to, paths |-> new, leak |-> FALSE]
    BY <1>3 DEF AllocaFlow, Effect
  <2>2. to \subseteq Node /\ new \subseteq Node \X Node
    BY <1>1
  <2>3. \A y \in fields : y = <<Field, Field>> /\ \E t \in prog.tracers : t.field
    BY DEF OfField
  <2>4. \A y \in steps : \E t \in prog.tracers : y[2] = V(t.var)
    <3>1. sources # {} => Plain(x) \in prog.tracers /\ Plain(x).var = x
      BY DEF Plain
    <3> QED
      BY <3>1
  <2>5. \A y \in to : y = d \/ (\E t \in prog.tracers : y = V(t.var)) \/ (\E z \in new : z[1] = y)
    <3>1. \A y \in self : \E t \in prog.tracers : y = V(t.var)
      BY DEF Plain
    <3>2. \A y \in sources : <<y, V(x)>> \in new /\ <<y, V(x)>>[1] = y
      OBVIOUS
    <3> QED
      BY <1>3, <3>1, <3>2
  <2>6. \A y \in new : \/ y = <<Field, Field>> /\ \E t \in prog.tracers : t.field
                      \/ \E t \in prog.tracers : y[2] = V(t.var)
    BY <2>3, <2>4
  <2> HIDE DEF to, new, i
  <2>7. Sound([to |-> to, paths |-> new, leak |-> FALSE], n, d)
    BY <2>2, <2>5, <2>6 DEF Sound
  <2> QED
    BY <2>1, <2>7 DEF i
<1> QED
  BY <1>2, <1>3

LEMMA SinkSound ==
  ASSUME NEW n \in PointOf({"load", "store"}), NEW d \in Node, d # Zero
  PROVE  Sound(SinkFlow(n, d), n, d)
<1>1. n \in Node
  BY DEF PointOf, Point, Node
<1>2. \A S \in SUBSET {d} : Sound(Effect(S, {<<n, d>>}, TRUE), n, d)
  BY <1>1 DEF Sound, Effect, PointOf
<1> QED
  BY <1>2, KeepSound DEF SinkFlow

LEMMA StoreSound ==
  ASSUME prog \in Programs, NEW n \in PointOf({"store"}), NEW d \in Node
  PROVE  Sound(StoreFlow(Instr(n), n, d), n, d)
<1> DEFINE i == Instr(n)
           new == {<<i.ptr, d>>} \cup (IF IsA("gep", i.ptr) THEN {<<Field, i.ptr>>} ELSE {})
<1>1. n \in Point /\ i.ptr \in Node /\ Zero \notin {i.ptr, i.val}
  BY InstrType DEF PointOf
<1>2. CASE d = i.val
  <2>1. StoreFlow(i, n, d) = [to |-> {d, i.ptr}, paths |-> new, leak |-> FALSE]
    BY <1>2 DEF StoreFlow, Effect
  <2>2. new \subseteq Node \X Node /\ <<i.ptr, d>> \in new
    BY <1>1 DEF Node, Field
  <2>3. \A x \in new : x[2] = d \/ x[2] = i.ptr
    OBVIOUS
  <2> HIDE DEF new
  <2> QED
    BY <1>1, <1>2, <2>1, <2>2, <2>3 DEF Sound
<1>3. CASE d # i.val /\ d = i.ptr
  BY <1>1, <1>3, SinkSound DEF StoreFlow, PointOf
<1>4. CASE d # i.val /\ d # i.ptr
  BY <1>4, KeepSound DEF StoreFlow
<1> QED
  BY <1>2, <1>3, <1>4

LEMMA LoadSound ==
  ASSUME prog \in Programs, NEW n \in PointOf({"load"}), NEW d \in Node
  PROVE  Sound(LoadFlow(Instr(n), n, d), n, d)
<1> DEFINE i == Instr(n)
<1>1. n \in Point /\ n \in Node /\ Zero \notin {i.ptr, i.val}
  BY InstrType DEF PointOf
<1>2. CASE d # i.ptr
  BY <1>2, KeepSound DEF LoadFlow
<1>3. CASE d = i.ptr /\ (IsA("load", d) \/ IsA("gep", d))
  BY <1>1, <1>3, SinkSound DEF LoadFlow, PointOf
<1>4. CASE d = i.ptr /\ ~(IsA("load", d) \/ IsA("gep", d))
  <2>1. LoadFlow(i, n, d) = [to |-> {d, n}, paths |-> {<<n, d>>}, leak |-> FALSE]
    BY <1>4 DEF LoadFlow, Effect
  <2> QED
    BY <1>1, <1>4, <2>1 DEF Sound
<1> QED
  BY <1>2, <1>3, <1>4

LEMMA GetElePtrSound ==
  ASSUME prog \in Programs, NEW n \in PointOf({"gep"}), NEW d \in Node
  PROVE  Sound(GetElePtrFlow(Instr(n), n, d), n, d)
<1> DEFINE i == Instr(n)
           known == \E e \in paths : e[1] = Field
           to == {d} \cup (IF known \/ d = i.ptr THEN {n} ELSE {})
           new == (IF known THEN {<<n, Field>>} ELSE {})
                    \cup (IF d = i.ptr THEN {<<n, d>>, <<Field, n>>} ELSE {})
<1>1. n \in Node /\ Zero \notin {i.ptr, i.val} /\ Field \in Node
  BY InstrType DEF PointOf, Node, Field
<1>2. GetElePtrFlow(i, n, d) = [to |-> to, paths |-> new, leak |-> FALSE]
  BY DEF GetElePtrFlow, Effect
<1>3. to \subseteq Node /\ new \subseteq Node \X Node
  BY <1>1
<1>4. \A y \in to : y = d \/ \E x \in new : x[1] = y
  <2>1. n \in to => <<n, Field>> \in new \/ <<n, d>> \in new \/ n = d
    OBVIOUS
  <2>2. \A y \in to : y = d \/ y = n
    OBVIOUS
  <2>3. <<n, Field>>[1] = n /\ <<n, d>>[1] = n
    OBVIOUS
  <2> HIDE DEF to, new
  <2> QED
    BY <2>1, <2>2, <2>3
<1>5. \A x \in new : \/ d # Zero /\ (x[2] = d \/ <<x[2], d>> \in new)
                     \/ x[2] = Field /\ known
  BY <1>1
<1> HIDE DEF to, new, i
<1>6. Sound([to |-> to, paths |-> new, leak |-> FALSE], n, d)
  BY <1>3, <1>4, <1>5 DEF Sound
<1> QED
  BY <1>2, <1>6 DEF i

LEMMA NormalSound ==
  ASSUME prog \in Programs, NEW n \in Point, NEW d \in Node
  PROVE  Sound(NormalFlow(n, d), n, d)
<1> DEFINE i == Instr(n)
<1>1. n \in PointOf({i.op}) /\ n \in Node /\ Zero \notin {i.ptr, i.val}
  BY InstrType DEF PointOf
<1>2. CASE i.op = "alloca"
  BY <1>1, <1>2, AllocaSound DEF NormalFlow
<1>3. CASE i.op = "store"
  BY <1>1, <1>3, StoreSound DEF NormalFlow
<1>4. CASE i.op = "load"
  BY <1>1, <1>4, LoadSound DEF NormalFlow
<1>5. CASE i.op = "gep"
  BY <1>1, <1>5, GetElePtrSound DEF NormalFlow
<1>6. CASE i.op = "cast"
  <2>1. CASE d = i.ptr
    <3>1. NormalFlow(n, d) = [to |-> {d, n}, paths |-> {<<n, d>>}, leak |-> FALSE]
      BY <1>6, <2>1 DEF NormalFlow, CastFlow, Effect
    <3> QED
      BY <1>1, <2>1, <3>1 DEF Sound
  <2>2. CASE d # i.ptr
    BY <1>6, <2>2, KeepSound DEF NormalFlow, CastFlow
  <2> QED
    BY <2>1, <2>2
<1>7. CASE i.op = "lib"
  <2>1. CASE d = i.ptr
    <3>1. NormalFlow(n, d) = [to |-> {d}, paths |-> {<<n, d>>}, leak |-> TRUE]
      BY <1>7, <2>1 DEF NormalFlow, SummaryFlow, Effect
    <3>2. n \in PointOf({"load", "store", "lib"})
      BY <1>7 DEF PointOf
    <3> QED
      BY <1>1, <2>1, <3>1, <3>2 DEF Sound
  <2>2. CASE d # i.ptr
    BY <1>7, <2>2, KeepSound DEF NormalFlow, SummaryFlow
  <2> QED
    BY <2>1, <2>2
<1>8. CASE i.op \notin {"alloca", "store", "load", "gep", "cast", "lib"}
  BY <1>8, KeepSound DEF NormalFlow
<1> QED
  BY <1>2, <1>3, <1>4, <1>5, <1>6, <1>7, <1>8

LEMMA CallSound ==
  ASSUME prog \in Programs, NEW n \in Point, NEW d \in Node
  PROVE  Sound(CallFlow(Instr(n), d), n, d)
<1>1. Formal \in Node /\ Zero \notin {Instr(n).ptr, Instr(n).val}
  BY InstrType DEF Node, Formal
<1>2. CASE d = Zero
  <2>1. CallFlow(Instr(n), d) = Keep(d)
    BY <1>1, <1>2 DEF CallFlow, Keep
  <2> QED
    BY <2>1, KeepSound
<1>3. CASE d # Zero /\ d = Instr(n).ptr
  <2>1. CallFlow(Instr(n), d) = [to |-> {Formal}, paths |-> {<<Formal, d>>}, leak |-> FALSE]
    BY <1>3 DEF CallFlow, Effect
  <2> QED
    BY <1>1, <1>3, <2>1 DEF Sound
<1>4. CASE d # Zero /\ d # Instr(n).ptr
  BY <1>4 DEF Sound, CallFlow, Effect
<1> QED
  BY <1>2, <1>3, <1>4

LEMMA RetSound ==
  ASSUME prog \in Programs, NEW n \in PointOf({"call"}), NEW d \in Node
  PROVE  Sound(RetFlow(n, d), n, d)
<1> DEFINE target == (IF d = Formal THEN {Instr(n).ptr} ELSE {})
                       \cup (IF d = Instr(LastOf("f")).val THEN {n} ELSE {})
           new == {<<v, d>> : v \in target}
<1>1. target \subseteq Node
  BY InstrType DEF PointOf
<1>2. CASE d = Zero
  BY <1>2, KeepSound DEF RetFlow
<1>3. CASE d # Zero
  <2>1. RetFlow(n, d) = [to |-> target, paths |-> new, leak |-> FALSE]
    BY <1>3 DEF RetFlow, Effect
  <2> HIDE DEF target
  <2>2. new \subseteq Node \X Node
    BY <1>1
  <2>4. ASSUME NEW y \in target PROVE \E x \in new : x[1] = y
    <3>1. <<y, d>> \in new /\ <<y, d>>[1] = y
      OBVIOUS
    <3> QED
      BY <3>1
  <2>3. \A x \in new : x[2] = d
    OBVIOUS
  <2> HIDE DEF target, new
  <2> QED
    BY <1>1, <1>3, <2>1, <2>2, <2>3, <2>4 DEF Sound
<1> QED
  BY <1>2, <1>3

-----------------------------------------------------------------------------
LEMMA PushTasks ==
  \A S \in SUBSET Task, rest \in Seq(SUBSET Task) :
    Push(S, rest) \in Seq(SUBSET Task) /\ Items(Push(S, rest)) = S \cup Items(rest)
BY PushItems

LEMMA RestTasks ==
  ASSUME stack \in Seq(SUBSET Task), stack # <<>>, NEW t \in Head(stack)
  PROVE  Rest(t) \in Seq(SUBSET Task) /\ t \in Task /\ Items(stack) = {t} \cup Items(Rest(t))
BY RestItems

(* The new tasks of each action, and what the stack has then. *)
NormalTasks(t) == {Edge(t.d1, m, d) : m \in Succ(t.n), d \in NormalFlow(t.n, t.d2).to}
CalleeTasks(t) == {Edge(d, N("f", 1), d) : d \in CallFlow(Instr(t.n), t.d2).to}
AfterTasks(t) == {After(t.d1, t.n, t.d2, d) : d \in CallFlow(Instr(t.n), t.d2).to}
SkipTasks(t) == {Edge(t.d1, m, t.d2) : m \in Succ(t.n)}
Exits(d3) == {e[3] : e \in {x \in seen : x[1] = d3 /\ x[2] = LastOf("f")}}
SummaryTasks(t) == {Edge(t.d1, m, d) : m \in Succ(t.n), d \in UNION {RetFlow(t.n, o).to : o \in Exits(t.d3)}}
Callers(t) == {c \in incoming : t.n[1] = "f" /\ c[4] = t.d1}
ExitTasks(t) == UNION {{Edge(c[1], m, d) : m \in Succ(c[2]), d \in RetFlow(c[2], t.d2).to} : c \in Callers(t)}

LEMMA EdgeTask ==
  \A d1 \in Node, n \in Point, d2 \in Node : Edge(d1, n, d2) \in Task
<1>1. Zero \in Node
  BY DEF Node, Zero
<1> QED
  BY <1>1 DEF Task, Edge

LEMMA AfterTask ==
  \A d1 \in Node, n \in PointOf({"call"}), d2 \in Node, d3 \in Node : After(d1, n, d2, d3) \in Task
BY DEF Task, After, PointOf

LEMMA TasksType ==
  ASSUME TypeInv, NEW t \in Task
  PROVE  /\ Instr(t.n).op # "ret" => NormalTasks(t) \in SUBSET Task /\ SkipTasks(t) \in SUBSET Task
         /\ CalleeTasks(t) \in SUBSET Task
         /\ t.n \in PointOf({"call"}) => AfterTasks(t) \in SUBSET Task
         /\ t.after => SummaryTasks(t) \in SUBSET Task
         /\ ExitTasks(t) \in SUBSET Task
<1>1. prog \in Programs /\ t.n \in Point /\ t.d1 \in Node /\ t.d2 \in Node /\ t.d3 \in Node
  BY DEF TypeInv, Task
<1>2. NormalFlow(t.n, t.d2).to \subseteq Node /\ CallFlow(Instr(t.n), t.d2).to \subseteq Node
  BY <1>1, NormalSound, CallSound DEF Sound
<1>3. ASSUME Instr(t.n).op # "ret" PROVE NormalTasks(t) \in SUBSET Task /\ SkipTasks(t) \in SUBSET Task
  <2>1. Succ(t.n) \subseteq Point
    BY <1>1, <1>3, SuccType
  <2> QED
    BY <1>1, <1>2, <2>1, EdgeTask DEF NormalTasks, SkipTasks
<1>4. CalleeTasks(t) \in SUBSET Task
  BY <1>1, <1>2, EdgeTask, EndsOfF DEF CalleeTasks
<1>5. ASSUME t.n \in PointOf({"call"}) PROVE AfterTasks(t) \in SUBSET Task
  BY <1>1, <1>2, <1>5, AfterTask DEF AfterTasks
<1>6. \A n \in PointOf({"call"}), d \in Node : RetFlow(n, d).to \subseteq Node /\ Succ(n) \subseteq Point
  BY <1>1, RetSound, SuccType DEF Sound, PointOf
<1>7. ASSUME t.after PROVE SummaryTasks(t) \in SUBSET Task
  <2>1. t.n \in PointOf({"call"})
    BY <1>7 DEF Task
  <2>2. Exits(t.d3) \subseteq Node
    BY DEF TypeInv, Exits
  <2> QED
    BY <1>1, <1>6, <2>1, <2>2, EdgeTask DEF SummaryTasks
<1>8. ExitTasks(t) \in SUBSET Task
  <2>1. ASSUME NEW c \in Callers(t)
        PROVE  {Edge(c[1], m, d) : m \in Succ(c[2]), d \in RetFlow(c[2], t.d2).to} \subseteq Task
    <3>1. c[1] \in Node /\ c[2] \in PointOf({"call"})
      BY DEF Callers, TypeInv
    <3> QED
      BY <1>1, <1>6, <3>1, EdgeTask
  <2> QED
    BY <2>1 DEF ExitTasks
<1> QED
  BY <1>3, <1>4, <1>5, <1>7, <1>8

(* What each action does to the stack. *)
LEMMA Steps ==
  ASSUME TypeInv, stack # <<>>, NEW t \in Head(stack)
  PROVE  /\ t \in Task /\ Items(stack) = {t} \cup Items(Rest(t)) /\ Rest(t) \in Seq(SUBSET Task)
         /\ Known(t) => stack' = Rest(t)
         /\ ProcessNormal(t) => stack' \in Seq(SUBSET Task) /\ Items(stack') = NormalTasks(t) \cup Items(Rest(t))
         /\ ProcessCall(t) =>
              /\ stack' \in Seq(SUBSET Task)
              /\ Items(stack') = CalleeTasks(t) \cup AfterTasks(t) \cup SkipTasks(t) \cup Items(Rest(t))
         /\ ApplySummaries(t) => stack' \in Seq(SUBSET Task) /\ Items(stack') = SummaryTasks(t) \cup Items(Rest(t))
         /\ ProcessExit(t) => stack' \in Seq(SUBSET Task) /\ Items(stack') = ExitTasks(t) \cup Items(Rest(t))
<1>1. t \in Task /\ Items(stack) = {t} \cup Items(Rest(t)) /\ Rest(t) \in Seq(SUBSET Task)
  BY RestTasks DEF TypeInv
<1>2. Known(t) => stack' = Rest(t)
  BY DEF Known
<1>3. ASSUME ProcessNormal(t)
      PROVE  stack' \in Seq(SUBSET Task) /\ Items(stack') = NormalTasks(t) \cup Items(Rest(t))
  <2>1. stack' = Push(NormalTasks(t), Rest(t)) /\ Instr(t.n).op # "ret"
    BY <1>3 DEF ProcessNormal, NormalTasks
  <2> QED
    BY <1>1, <2>1, TasksType, PushTasks
<1>4. ASSUME ProcessCall(t)
      PROVE  /\ stack' \in Seq(SUBSET Task)
             /\ Items(stack') = CalleeTasks(t) \cup AfterTasks(t) \cup SkipTasks(t) \cup Items(Rest(t))
  <2>1. stack' = Push(CalleeTasks(t), Push(AfterTasks(t), Push(SkipTasks(t), Rest(t)))) /\ Instr(t.n).op = "call"
    BY <1>4 DEF ProcessCall, CalleeTasks, AfterTasks, SkipTasks
  <2>2. t.n \in PointOf({"call"})
    BY <1>1, <2>1 DEF Task, PointOf
  <2>3. CalleeTasks(t) \in SUBSET Task /\ AfterTasks(t) \in SUBSET Task /\ SkipTasks(t) \in SUBSET Task
    BY <1>1, <2>1, <2>2, TasksType
  <2>4. Push(SkipTasks(t), Rest(t)) \in Seq(SUBSET Task)
        /\ Items(Push(SkipTasks(t), Rest(t))) = SkipTasks(t) \cup Items(Rest(t))
    BY <1>1, <2>3, PushTasks
  <2> DEFINE inner == Push(SkipTasks(t), Rest(t))
             middle == Push(AfterTasks(t), inner)
  <2>5. middle \in Seq(SUBSET Task) /\ Items(middle) = AfterTasks(t) \cup Items(inner)
    <3> HIDE DEF inner
    <3> QED
      BY <2>3, <2>4, PushTasks DEF inner
  <2> HIDE DEF inner, middle
  <2>6. Push(CalleeTasks(t), middle) \in Seq(SUBSET Task)
        /\ Items(Push(CalleeTasks(t), middle)) = CalleeTasks(t) \cup Items(middle)
    BY <2>3, <2>5, PushTasks
  <2> QED
    BY <2>1, <2>4, <2>5, <2>6 DEF inner, middle
<1>5. ASSUME ApplySummaries(t)
      PROVE  stack' \in Seq(SUBSET Task) /\ Items(stack') = SummaryTasks(t) \cup Items(Rest(t))
  <2>1. stack' = Push(SummaryTasks(t), Rest(t)) /\ t.after
    BY <1>5 DEF ApplySummaries, SummaryTasks, Exits
  <2> QED
    BY <1>1, <2>1, TasksType, PushTasks
<1>6. ASSUME ProcessExit(t)
      PROVE  stack' \in Seq(SUBSET Task) /\ Items(stack') = ExitTasks(t) \cup Items(Rest(t))
  <2>1. stack' = Push(ExitTasks(t), Rest(t))
    BY <1>6 DEF ProcessExit, ExitTasks, Callers
  <2> QED
    BY <1>1, <2>1, TasksType, PushTasks
<1> QED
  BY <1>1, <1>2, <1>3, <1>4, <1>5, <1>6

(* Nothing changes the program. *)
LEMMA SameProgram ==
  ASSUME [Next]_vars
  PROVE  /\ prog' = prog /\ Point' = Point /\ Task' = Task
         /\ \A n : Instr(n)' = Instr(n)
         /\ PointOf({"call"})' = PointOf({"call"})
         /\ PointOf({"load", "store", "lib"})' = PointOf({"load", "store", "lib"})
<1>1. prog' = prog
  <2>1. \A t : Known(t) \/ ProcessNormal(t) \/ ProcessCall(t) \/ ApplySummaries(t) \/ ProcessExit(t) => prog' = prog
    BY DEF Known, ProcessNormal, ProcessCall, ApplySummaries, ProcessExit
  <2>2. WalkBack \/ WriteOutput \/ UNCHANGED vars => prog' = prog
    BY DEF WalkBack, WriteOutput, vars
  <2> QED
    BY <2>1, <2>2 DEF Next
<1> QED
  BY <1>1 DEF Point, Task, PointOf, Instr

LEMMA TypeInit ==
  ASSUME Init PROVE TypeInv
<1> DEFINE S == {Edge(Zero, N("main", 1), Zero)}
                  \cup {Edge(Zero, N("main", 1), V("g")) : t \in {u \in prog.tracers : u = Plain("g")}}
<1>1. prog \in Programs /\ stack = <<S>>
  BY DEF Init
<1>2. Zero \in Node /\ V("g") \in Node
  BY DEF Node, Zero, V, Variables
<1>3. S \in SUBSET Task
  BY <1>1, <1>2, EdgeTask, EndsOfF
<1> HIDE DEF S
<1>4. stack \in Seq(SUBSET Task)
  BY <1>1, <1>3
<1> QED
  BY <1>1, <1>4 DEF Init, TypeInv

LEMMA TypeStep ==
  ASSUME TypeInv, [Next]_vars PROVE TypeInv'
<1> USE SameProgram
<1>1. CASE UNCHANGED vars
  BY <1>1 DEF TypeInv, vars
<1>2. ASSUME stack # <<>>, NEW t \in Head(stack),
             Known(t) \/ ProcessNormal(t) \/ ProcessCall(t) \/ ApplySummaries(t) \/ ProcessExit(t)
      PROVE  TypeInv'
  <2>1. stack' \in Seq(SUBSET Task)
    BY <1>2, Steps
  <2>2. t \in Task /\ t.n \in Point /\ t.d1 \in Node /\ t.d2 \in Node /\ t.d3 \in Node /\ prog \in Programs
    BY <1>2, Steps DEF Task, TypeInv
  <2>3. EdgeOf(t) \in Node \X Point \X Node
    BY <2>2 DEF EdgeOf
  <2>4. ~written /\ written' = written /\ visited' = visited /\ report' = report
    BY <1>2 DEF TypeInv, Known, ProcessNormal, ProcessCall, ApplySummaries, ProcessExit
  <2>5. CASE Known(t)
    BY <2>1, <2>4, <2>5 DEF TypeInv, Known
  <2>6. CASE ProcessNormal(t)
    <3>1. Sound(NormalFlow(t.n, t.d2), t.n, t.d2)
      BY <2>2, NormalSound
    <3>2. paths' \subseteq Node \X Node /\ leaks \subseteq leaks' /\ leaks' \subseteq PointOf({"load", "store", "lib"})
      BY <2>6, <3>1 DEF TypeInv, ProcessNormal, Apply, Sound
    <3> QED
      BY <2>1, <2>3, <2>4, <2>6, <3>2 DEF TypeInv, ProcessNormal
  <2>7. CASE ProcessCall(t)
    <3>1. Sound(CallFlow(Instr(t.n), t.d2), t.n, t.d2)
      BY <2>2, CallSound
    <3>2. paths' \subseteq Node \X Node /\ leaks \subseteq leaks' /\ leaks' \subseteq PointOf({"load", "store", "lib"})
      BY <2>7, <3>1 DEF TypeInv, ProcessCall, Apply, Sound
    <3> QED
      BY <2>1, <2>3, <2>4, <2>7, <3>2 DEF TypeInv, ProcessCall
  <2>8. CASE ApplySummaries(t)
    <3>1. t.n \in PointOf({"call"})
      BY <2>2, <2>8 DEF Task, ApplySummaries
    <3>2. \A d \in Node : RetFlow(t.n, d).paths \subseteq Node \X Node
      BY <2>2, <3>1, RetSound DEF Sound
    <3>3. Exits(t.d3) \subseteq Node
      BY DEF TypeInv, Exits
    <3>4. paths' = paths \cup UNION {RetFlow(t.n, o).paths : o \in Exits(t.d3)}
      BY <2>8 DEF ApplySummaries, Exits
    <3>5. paths' \subseteq Node \X Node
      BY <3>2, <3>3, <3>4 DEF TypeInv
    <3>6. incoming' \subseteq Node \X PointOf({"call"}) \X Node \X Node
      BY <2>2, <2>8, <3>1 DEF ApplySummaries, TypeInv
    <3> QED
      BY <2>1, <2>4, <2>8, <3>5, <3>6 DEF TypeInv, ApplySummaries
  <2>9. CASE ProcessExit(t)
    <3>1. paths' = paths \cup UNION {RetFlow(c[2], t.d2).paths : c \in Callers(t)}
      BY <2>9 DEF ProcessExit, Callers
    <3>2. \A c \in Callers(t) : c[2] \in PointOf({"call"})
      BY DEF Callers, TypeInv
    <3>3. \A c \in Callers(t) : RetFlow(c[2], t.d2).paths \subseteq Node \X Node
      BY <2>2, <3>2, RetSound DEF Sound
    <3>4. paths' \subseteq Node \X Node
      BY <3>1, <3>3 DEF TypeInv
    <3> QED
      BY <2>1, <2>3, <2>4, <2>9, <3>4 DEF TypeInv, ProcessExit
  <2> QED
    BY <1>2, <2>5, <2>6, <2>7, <2>8, <2>9
<1>3. CASE WalkBack
  <2>1. Before \subseteq leaks \X Node
    BY DEF TypeInv, Before, PointOf, Point, Node
  <2> QED
    BY <1>3, <2>1 DEF TypeInv, WalkBack
<1>4. CASE WriteOutput
  BY <1>4 DEF TypeInv, WriteOutput
<1> QED
  BY <1>1, <1>2, <1>3, <1>4 DEF Next

(* The analysis keeps its types, for all well-formed programs: leaks are     *)
(* dereferences, and nothing is reported before the solver has finished.     *)
THEOREM TypeCorrect == Spec => []TypeOK
<1>1. TypeInv => TypeOK
  <2> SUFFICES ASSUME TypeInv PROVE TypeOK
    OBVIOUS
  <2> DEFINE Entry == [after : BOOLEAN, d1 : Node, n : Node, d2 : Node, d3 : Node]
  <2>1. Point \subseteq Node
    BY DEF Point, Node
  <2>2. SUBSET Task \subseteq SUBSET Entry
    BY <2>1 DEF Task
  <2>3. stack \in Seq(SUBSET Entry)
    <3> HIDE DEF Entry
    <3> QED
      BY <2>2 DEF TypeInv
  <2> QED
    BY <2>1, <2>3 DEF TypeInv, TypeOK, PointOf
<1> QED
  BY <1>1, TypeInit, TypeStep, PTL DEF Spec

-----------------------------------------------------------------------------
(* A node is blamed on a tracer if every way back from it through the paths  *)
(* P leads to one: a set that has the node and all that its members came     *)
(* from has a node of a tracer.                                              *)
BackClosed(T, P) == \A e \in P : e[1] \in T => e[2] \in T
Blamed(d, P) == \A T : d \in T /\ BackClosed(T, P) => \E t \in prog.tracers : Keys(t) \cap T # {}

BlameInv ==
  /\ \A t \in Items(stack) : t.d2 # Zero => Blamed(t.d2, paths)
  /\ \A e \in seen : e[3] # Zero => Blamed(e[3], paths)
  /\ \A e \in paths : Blamed(e[1], paths)
  /\ \A n \in leaks : Blamed(n, paths)

LEMMA BlamedGrows ==
  ASSUME NEW d, NEW P, NEW Q, P \subseteq Q, Blamed(d, P)
  PROVE  Blamed(d, Q)
BY DEF Blamed, BackClosed

LEMMA FlowBlamed ==
  ASSUME NEW e, NEW n, NEW d, NEW Q, Sound(e, n, d), paths \cup e.paths \subseteq Q,
         d # Zero => Blamed(d, paths),
         \A x \in paths : Blamed(x[1], paths)
  PROVE  /\ \A x \in e.paths : Blamed(x[1], Q)
         /\ \A y \in e.to : y # Zero => Blamed(y, Q)
         /\ e.leak => Blamed(n, Q)
<1>1. d # Zero => Blamed(d, Q)
  BY BlamedGrows
<1>2. ASSUME NEW x \in e.paths PROVE Blamed(x[1], Q)
  <2> SUFFICES ASSUME NEW T, x[1] \in T, BackClosed(T, Q)
               PROVE  \E t \in prog.tracers : Keys(t) \cap T # {}
    BY DEF Blamed
  <2>1. x[2] \in T
    BY <1>2 DEF BackClosed
  <2>2. CASE d # Zero /\ (x[2] = d \/ <<x[2], d>> \in e.paths)
    <3>1. d \in T
      BY <2>1, <2>2 DEF BackClosed
    <3> QED
      BY <1>1, <2>2, <3>1 DEF Blamed
  <2>3. CASE x = <<Field, Field>> /\ \E t \in prog.tracers : t.field
    BY <2>1, <2>3 DEF Keys
  <2>4. CASE x[2] = Field /\ \E y \in paths : y[1] = Field
    <3>1. Blamed(Field, Q)
      BY <2>4, BlamedGrows
    <3> QED
      BY <2>1, <2>4, <3>1 DEF Blamed
  <2>5. CASE \E t \in prog.tracers : x[2] = V(t.var)
    BY <2>1, <2>5 DEF Keys
  <2> QED
    BY <1>2, <2>2, <2>3, <2>4, <2>5 DEF Sound
<1>3. ASSUME NEW y \in e.to, y # Zero PROVE Blamed(y, Q)
  <2>1. CASE \E t \in prog.tracers : y = V(t.var)
    BY <2>1 DEF Blamed, Keys
  <2> QED
    BY <1>1, <1>2, <1>3, <2>1 DEF Sound
<1>4. ASSUME e.leak PROVE Blamed(n, Q)
  <2>1. <<n, d>> \in e.paths /\ <<n, d>>[1] = n
    BY <1>4 DEF Sound
  <2> QED
    BY <1>2, <2>1
<1> QED
  BY <1>2, <1>3, <1>4

LEMMA BlameInit ==
  ASSUME Init PROVE BlameInv
<1>1. Items(stack) = stack[1] /\ paths = {} /\ seen = {} /\ leaks = {}
  BY DEF Init, Items
<1>2. \A t \in stack[1] : t.d2 = Zero \/ \E u \in prog.tracers : t.d2 = V(u.var)
  BY DEF Init, Edge, Plain
<1> QED
  BY <1>1, <1>2 DEF BlameInv, Blamed, Keys

LEMMA BlameStep ==
  ASSUME TypeInv, BlameInv, [Next]_vars PROVE BlameInv'
<1>1. \A d, P : Blamed(d, P)' <=> Blamed(d, P)
  BY SameProgram DEF Blamed, BackClosed, Keys
<1>2. CASE UNCHANGED vars
  BY <1>1, <1>2 DEF BlameInv, vars
<1>3. ASSUME stack # <<>>, NEW t \in Head(stack),
             Known(t) \/ ProcessNormal(t) \/ ProcessCall(t) \/ ApplySummaries(t) \/ ProcessExit(t)
      PROVE  BlameInv'
  <2>1. /\ t \in Task /\ t.n \in Point /\ t.d2 \in Node /\ prog \in Programs
        /\ Items(Rest(t)) \subseteq Items(stack) /\ t \in Items(stack) /\ EdgeOf(t)[3] = t.d2
    BY <1>3, Steps DEF Task, TypeInv, EdgeOf
  <2>2. t.d2 # Zero => Blamed(t.d2, paths)
    BY <2>1 DEF BlameInv
  <2>3. /\ paths \subseteq paths' /\ \A x \in paths : Blamed(x[1], paths')
        /\ \A e \in seen : e[3] # Zero => Blamed(e[3], paths')
        /\ \A u \in Items(Rest(t)) : u.d2 # Zero => Blamed(u.d2, paths')
        /\ \A m \in leaks : Blamed(m, paths')
        /\ t.d2 # Zero => Blamed(t.d2, paths')
    <3>1. paths \subseteq paths'
      BY <1>3 DEF Known, ProcessNormal, ProcessCall, ApplySummaries, ProcessExit, Apply
    <3> QED
      BY <2>1, <2>2, <3>1, BlamedGrows DEF BlameInv
  <2>4. CASE Known(t)
    BY <1>1, <1>3, <2>3, <2>4, Steps DEF BlameInv, Known
  <2>5. CASE ProcessNormal(t)
    <3> DEFINE e == NormalFlow(t.n, t.d2)
    <3>1. Sound(e, t.n, t.d2)
      BY <2>1, NormalSound
    <3>2. paths' = paths \cup e.paths /\ leaks' = (IF e.leak THEN leaks \cup {t.n} ELSE leaks)
          /\ seen' = seen \cup {EdgeOf(t)}
      BY <2>5 DEF ProcessNormal, Apply
    <3> HIDE DEF e
    <3>3. /\ \A x \in e.paths : Blamed(x[1], paths')
          /\ \A y \in e.to : y # Zero => Blamed(y, paths')
          /\ e.leak => Blamed(t.n, paths')
      BY <2>2, <3>1, <3>2, FlowBlamed DEF BlameInv
    <3>4. \A u \in NormalTasks(t) : u.d2 \in e.to
      BY DEF NormalTasks, Edge, e
    <3>5. Items(stack') = NormalTasks(t) \cup Items(Rest(t))
      BY <1>3, <2>5, Steps
    <3>6. \A u \in Items(stack') : u.d2 # Zero => Blamed(u.d2, paths')
      BY <2>3, <3>3, <3>4, <3>5
    <3>7. \A x \in seen' : x[3] # Zero => Blamed(x[3], paths')
      BY <2>1, <2>3, <3>2
    <3>8. \A x \in paths' : Blamed(x[1], paths')
      BY <2>3, <3>2, <3>3
    <3>9. \A m \in leaks' : Blamed(m, paths')
      BY <2>3, <3>2, <3>3
    <3> QED
      BY <1>1, <3>6, <3>7, <3>8, <3>9 DEF BlameInv
  <2>6. CASE ProcessCall(t)
    <3> DEFINE e == CallFlow(Instr(t.n), t.d2)
    <3>1. Sound(e, t.n, t.d2)
      BY <2>1, CallSound
    <3>2. paths' = paths \cup e.paths /\ leaks' = (IF e.leak THEN leaks \cup {t.n} ELSE leaks)
          /\ seen' = seen \cup {EdgeOf(t)}
      BY <2>6 DEF ProcessCall, Apply
    <3> HIDE DEF e
    <3>3. /\ \A x \in e.paths : Blamed(x[1], paths')
          /\ \A y \in e.to : y # Zero => Blamed(y, paths')
          /\ e.leak => Blamed(t.n, paths')
      BY <2>2, <3>1, <3>2, FlowBlamed DEF BlameInv
    <3>4. /\ \A u \in CalleeTasks(t) : u.d2 \in e.to
          /\ \A u \in AfterTasks(t) \cup SkipTasks(t) : u.d2 = t.d2
      BY DEF CalleeTasks, AfterTasks, SkipTasks, Edge, After, e
    <3>5. Items(stack') = CalleeTasks(t) \cup AfterTasks(t) \cup SkipTasks(t) \cup Items(Rest(t))
      BY <1>3, <2>6, Steps
    <3>6. \A u \in Items(stack') : u.d2 # Zero => Blamed(u.d2, paths')
      BY <2>3, <3>3, <3>4, <3>5
    <3>7. \A x \in seen' : x[3] # Zero => Blamed(x[3], paths')
      BY <2>1, <2>3, <3>2
    <3>8. \A x \in paths' : Blamed(x[1], paths')
      BY <2>3, <3>2, <3>3
    <3>9. \A m \in leaks' : Blamed(m, paths')
      BY <2>3, <3>2, <3>3
    <3> QED
      BY <1>1, <3>6, <3>7, <3>8, <3>9 DEF BlameInv
  <2>7. CASE ApplySummaries(t)
    <3>1. t.n \in PointOf({"call"})
      BY <2>1, <2>7 DEF Task, ApplySummaries
    <3>2. /\ paths' = paths \cup UNION {RetFlow(t.n, o).paths : o \in Exits(t.d3)}
          /\ leaks' = leaks /\ seen' = seen
      BY <2>7 DEF ApplySummaries, Exits
    <3>3. ASSUME NEW o \in Exits(t.d3)
          PROVE  /\ \A x \in RetFlow(t.n, o).paths : Blamed(x[1], paths')
                 /\ \A y \in RetFlow(t.n, o).to : y # Zero => Blamed(y, paths')
      <4>1. o \in Node /\ (o # Zero => Blamed(o, paths))
        BY DEF Exits, BlameInv, TypeInv
      <4>2. Sound(RetFlow(t.n, o), t.n, o)
        BY <2>1, <3>1, <4>1, RetSound
      <4>3. paths \cup RetFlow(t.n, o).paths \subseteq paths'
        BY <3>2
      <4> QED
        BY <4>1, <4>2, <4>3, FlowBlamed DEF BlameInv
    <3>4. \A u \in SummaryTasks(t) : \E o \in Exits(t.d3) : u.d2 \in RetFlow(t.n, o).to
      BY DEF SummaryTasks, Edge
    <3>5. Items(stack') = SummaryTasks(t) \cup Items(Rest(t))
      BY <1>3, <2>7, Steps
    <3>6. \A x \in paths' : Blamed(x[1], paths')
      BY <2>3, <3>2, <3>3
    <3>7. \A u \in SummaryTasks(t) : u.d2 # Zero => Blamed(u.d2, paths')
      BY <3>3, <3>4
    <3> QED
      BY <1>1, <2>3, <3>2, <3>5, <3>6, <3>7 DEF BlameInv
  <2>8. CASE ProcessExit(t)
    <3>1. \A c \in Callers(t) : c[2] \in PointOf({"call"})
      BY DEF Callers, TypeInv
    <3>2. /\ paths' = paths \cup UNION {RetFlow(c[2], t.d2).paths : c \in Callers(t)}
          /\ leaks' = leaks /\ seen' = seen \cup {EdgeOf(t)}
      BY <2>8 DEF ProcessExit, Callers
    <3>3. ASSUME NEW c \in Callers(t)
          PROVE  /\ \A x \in RetFlow(c[2], t.d2).paths : Blamed(x[1], paths')
                 /\ \A y \in RetFlow(c[2], t.d2).to : y # Zero => Blamed(y, paths')
      <4>1. Sound(RetFlow(c[2], t.d2), c[2], t.d2)
        BY <2>1, <3>1, RetSound
      <4>2. paths \cup RetFlow(c[2], t.d2).paths \subseteq paths'
        BY <3>2
      <4> QED
        BY <2>2, <4>1, <4>2, FlowBlamed DEF BlameInv
    <3>4. \A u \in ExitTasks(t) : \E c \in Callers(t) : u.d2 \in RetFlow(c[2], t.d2).to
      BY DEF ExitTasks, Edge
    <3>5. Items(stack') = ExitTasks(t) \cup Items(Rest(t))
      BY <1>3, <2>8, Steps
    <3>6. \A x \in paths' : Blamed(x[1], paths')
      BY <2>3, <3>2, <3>3
    <3>7. \A u \in ExitTasks(t) : u.d2 # Zero => Blamed(u.d2, paths')
      BY <3>3, <3>4
    <3>8. \A u \in Items(stack') : u.d2 # Zero => Blamed(u.d2, paths')
      BY <2>3, <3>5, <3>7
    <3>9. \A x \in seen' : x[3] # Zero => Blamed(x[3], paths')
      BY <2>1, <2>3, <3>2
    <3> QED
      BY <1>1, <2>3, <3>2, <3>6, <3>8, <3>9 DEF BlameInv
  <2> QED
    BY <1>3, <2>4, <2>5, <2>6, <2>7, <2>8
<1>4. CASE WalkBack \/ WriteOutput
  BY <1>1, <1>4 DEF BlameInv, WalkBack, WriteOutput
<1> QED
  BY <1>2, <1>3, <1>4 DEF Next

(* WriteOutput runs when the walks have come to their ends, and reports what *)
(* they have found.                                                          *)
WalkInv ==
  written =>
    /\ Before \subseteq visited
    /\ report = {r \in prog.tracers \X leaks : \E key \in Keys(r[1]) : <<r[2], key>> \in visited}

LEMMA WalkStep ==
  ASSUME TypeInv, WalkInv, [Next]_vars PROVE WalkInv'
<1>1. CASE WriteOutput
  BY <1>1, SameProgram DEF WalkInv, WriteOutput, Before
<1>2. CASE UNCHANGED vars
  <2>1. /\ prog' = prog /\ leaks' = leaks /\ visited' = visited /\ report' = report /\ written' = written
        /\ Before' = Before
    BY <1>2 DEF vars, Before
  <2> QED
    BY <2>1 DEF WalkInv
<1>3. CASE stack # <<>>
  <2>1. \A t : Known(t) \/ ProcessNormal(t) \/ ProcessCall(t) \/ ApplySummaries(t) \/ ProcessExit(t) =>
          written' = written
    BY DEF Known, ProcessNormal, ProcessCall, ApplySummaries, ProcessExit
  <2>2. ~written
    BY <1>3 DEF TypeInv
  <2> QED
    BY <1>1, <1>2, <1>3, <2>1, <2>2 DEF WalkInv, Next, WalkBack
<1>4. CASE WalkBack
  BY <1>4 DEF WalkInv, WalkBack
<1> QED
  BY <1>1, <1>2, <1>3, <1>4 DEF Next

(* A walk has all that its leak came from. *)
WalkOf(n) == {v \in Node : <<n, v>> \in visited}

LEMMA WalkClosed ==
  ASSUME TypeInv, WalkInv, written, NEW n \in leaks
  PROVE  /\ n \in WalkOf(n) /\ BackClosed(WalkOf(n), paths)
         /\ \A t \in prog.tracers : Keys(t) \cap WalkOf(n) # {} => <<t, n>> \in report
<1>1. /\ <<n, n>> \in visited
      /\ \A v \in visited, x \in paths : x[1] = v[2] => <<v[1], x[2]>> \in visited
  BY DEF WalkInv, Before
<1>2. n \in Node
  BY DEF TypeInv, PointOf, Point, Node
<1>3. ASSUME NEW x \in paths, x[1] \in WalkOf(n) PROVE x[2] \in WalkOf(n)
  <2>1. <<n, x[1]>> \in visited /\ x[2] \in Node
    BY <1>3 DEF TypeInv, WalkOf
  <2>2. <<n, x[2]>> \in visited
    BY <1>1, <2>1
  <2> QED
    BY <2>1, <2>2 DEF WalkOf
<1>4. ASSUME NEW t \in prog.tracers, Keys(t) \cap WalkOf(n) # {} PROVE <<t, n>> \in report
  BY <1>4 DEF WalkInv, WalkOf
<1> QED
  BY <1>1, <1>2, <1>3, <1>4 DEF WalkOf, BackClosed

(* Every leak is reported for a tracer, in all well-formed programs: no flow *)
(* function generates a fact without the step it came by.                    *)
THEOREM Blames == Spec => []LeaksBlamed
<1>1. Init => WalkInv
  BY DEF Init, WalkInv
<1>2. TypeInv /\ BlameInv /\ WalkInv => LeaksBlamed
  <2> SUFFICES ASSUME TypeInv, BlameInv, WalkInv, written, NEW n \in leaks
               PROVE  \E t \in prog.tracers : <<t, n>> \in report
    BY DEF LeaksBlamed
  <2>1. n \in WalkOf(n) /\ BackClosed(WalkOf(n), paths)
    BY WalkClosed
  <2>2. PICK t \in prog.tracers : Keys(t) \cap WalkOf(n) # {}
    BY <2>1 DEF BlameInv, Blamed
  <2> QED
    BY <2>2, WalkClosed
<1> QED
  BY <1>1, <1>2, TypeInit, TypeStep, BlameInit, BlameStep, WalkStep, PTL DEF Spec

-----------------------------------------------------------------------------
(* What a flow function does at least, whatever is known of fields.          *)
Consumed(n, d) == Instr(n).op \in {"load", "store"} /\ d = Instr(n).ptr /\ d[2] > 0
Copies(n, d) ==
  LET i == Instr(n)
  IN CASE i.op = "store" /\ d = i.val -> {i.ptr}
       [] i.op = "load" /\ d = i.ptr /\ d[2] = 0 -> {n}
       [] i.op = "cast" /\ d = i.ptr -> {n}
       [] OTHER -> {}
Generated(n, d) ==
  IF Instr(n).op = "alloca" /\ d = Zero THEN {V(t.var) : t \in {u \in prog.tracers : u = Plain(Instr(n).ptr[1])}} ELSE {}
Must(n, d) == (IF Consumed(n, d) THEN {} ELSE {d}) \cup Copies(n, d) \cup Generated(n, d)

LEMMA MustFlow ==
  ASSUME prog \in Programs, NEW n \in Point, NEW d \in Node, Instr(n).op \notin {"call", "ret"}
  PROVE  /\ Must(n, d) \subseteq NormalFlow(n, d).to
         /\ \A y \in Copies(n, d) : <<y, d>> \in NormalFlow(n, d).paths
         /\ Dereferences(n, d) => NormalFlow(n, d).leak /\ <<n, d>> \in NormalFlow(n, d).paths
<1> DEFINE i == Instr(n)
<1>1. i \in Instruction /\ n[1] \in {"main", "f"} /\ n[2] \in DOMAIN prog.code[n[1]] /\ d[2] \in Nat
      /\ Zero \notin {i.ptr, i.val}
  BY InstrType DEF Point, Node
<1>2. i.op = "store" /\ i.ptr = i.val => i.ptr = Const
  BY InstrRules
<1>3. IsA("load", d) => d[2] > 0
  BY DEF IsA
<1>4. CASE i.op = "alloca"
  <2>1. NormalFlow(n, d) = AllocaFlow(i, n, d) /\ Copies(n, d) = {} /\ ~Dereferences(n, d)
    BY <1>4 DEF NormalFlow, Copies, Dereferences
  <2>2. CASE d # Zero
    BY <1>4, <2>1, <2>2 DEF Must, Consumed, Generated, AllocaFlow, Effect, Keep
  <2>3. CASE d = Zero
    <3>1. /\ Zero \in AllocaFlow(i, n, d).to
          /\ {V(i.ptr[1]) : t \in prog.tracers \cap {Plain(i.ptr[1])}} \subseteq AllocaFlow(i, n, d).to
      BY <2>3 DEF AllocaFlow, Effect
    <3>2. Generated(n, d) \subseteq {V(i.ptr[1]) : t \in prog.tracers \cap {Plain(i.ptr[1])}}
      BY DEF Generated, Plain
    <3> QED
      BY <2>1, <2>3, <3>1, <3>2 DEF Must
  <2> QED
    BY <2>2, <2>3
<1>5. CASE i.op = "store"
  <2>1. NormalFlow(n, d) = StoreFlow(i, n, d)
    BY <1>5 DEF NormalFlow
  <2>2. CASE d = i.val
    <3>1. ~Consumed(n, d)
      BY <1>2, <2>2, <1>5 DEF Consumed, Const
    <3>2. ~Dereferences(n, d)
      BY <1>2, <1>5, <2>2 DEF Dereferences, IsA, Const
    <3>3. StoreFlow(i, n, d).to = {d, i.ptr} /\ <<i.ptr, d>> \in StoreFlow(i, n, d).paths
      BY <2>2 DEF StoreFlow, Effect
    <3>4. Copies(n, d) = {i.ptr} /\ Generated(n, d) = {}
      BY <1>5, <2>2 DEF Copies, Generated
    <3> QED
      BY <2>1, <3>1, <3>2, <3>3, <3>4 DEF Must
  <2>3. CASE d # i.val /\ d = i.ptr
    <3>1. StoreFlow(i, n, d) = SinkFlow(n, d)
      BY <2>3 DEF StoreFlow
    <3>2. Copies(n, d) = {} /\ Generated(n, d) = {}
      BY <1>5, <2>3 DEF Copies, Generated
    <3>3. CASE d[2] > 0
      <4>1. Must(n, d) = {}
        BY <1>5, <2>3, <3>2, <3>3 DEF Must, Consumed
      <4>2. Dereferences(n, d) => SinkFlow(n, d).leak /\ <<n, d>> \in SinkFlow(n, d).paths
        BY <1>5 DEF Dereferences, SinkFlow, Effect, IsA
      <4> QED
        BY <2>1, <3>1, <3>2, <4>1, <4>2
    <3>4. CASE ~(d[2] > 0)
      <4>1. SinkFlow(n, d) = Keep(d) /\ ~Dereferences(n, d)
        BY <1>5, <3>4 DEF Dereferences, SinkFlow, IsA
      <4> QED
        BY <2>1, <3>1, <3>2, <4>1 DEF Must, Keep, Effect
    <3> QED
      BY <3>3, <3>4
  <2>4. CASE d # i.val /\ d # i.ptr
    BY <1>5, <2>1, <2>4 DEF Must, Consumed, Copies, Generated, StoreFlow, Effect, Keep, Dereferences
  <2> QED
    BY <2>2, <2>3, <2>4
<1>6. CASE i.op = "load"
  <2>1. NormalFlow(n, d) = LoadFlow(i, n, d) /\ Generated(n, d) = {}
    BY <1>6 DEF NormalFlow, Generated
  <2>2. CASE d # i.ptr
    BY <1>6, <2>1, <2>2 DEF Must, Consumed, Copies, LoadFlow, Effect, Keep, Dereferences
  <2>3. CASE d = i.ptr /\ d[2] > 0
    <3>1. Must(n, d) = {} /\ Copies(n, d) = {}
      BY <1>6, <2>1, <2>3 DEF Must, Consumed, Copies
    <3>2. Dereferences(n, d) => SinkFlow(n, d).leak /\ <<n, d>> \in SinkFlow(n, d).paths
      BY <1>6 DEF Dereferences, SinkFlow, Effect, IsA
    <3>3. Dereferences(n, d) => LoadFlow(i, n, d) = SinkFlow(n, d)
      BY <1>6, <2>3 DEF LoadFlow, Dereferences
    <3> QED
      BY <2>1, <3>1, <3>2, <3>3
  <2>4. CASE d = i.ptr /\ ~(d[2] > 0)
    <3>1. LoadFlow(i, n, d) = Effect({d, n}, {<<n, d>>}, FALSE) /\ ~Dereferences(n, d)
      BY <1>6, <2>4 DEF LoadFlow, IsA, Dereferences
    <3>2. Copies(n, d) = {n}
      BY <1>1, <1>6, <2>4 DEF Copies
    <3> QED
      BY <2>1, <3>1, <3>2 DEF Must, Effect
  <2> QED
    BY <2>2, <2>3, <2>4
<1>7. CASE i.op = "gep"
  BY <1>7 DEF Must, Consumed, Copies, Generated, NormalFlow, GetElePtrFlow, Effect, Dereferences
<1>8. CASE i.op = "cast"
  BY <1>8 DEF Must, Consumed, Copies, Generated, NormalFlow, CastFlow, Effect, Keep, Dereferences
<1>9. CASE i.op = "lib"
  BY <1>9 DEF Must, Consumed, Copies, Generated, NormalFlow, SummaryFlow, Effect, Keep, Dereferences
<1>10. CASE i.op = "br"
  BY <1>10 DEF Must, Consumed, Copies, Generated, NormalFlow, Effect, Keep, Dereferences
<1> QED
  BY <1>1, <1>4, <1>5, <1>6, <1>7, <1>8, <1>9, <1>10 DEF Instruction, Ops

-----------------------------------------------------------------------------
(* Done or still to do: a path edge, and the registration of a call. *)
Pend(d1, n, d2) == <<d1, n, d2>> \in seen \/ Edge(d1, n, d2) \in Items(stack)
Called(d1, n, d2, d3) == <<d1, n, d2, d3>> \in incoming \/ After(d1, n, d2, d3) \in Items(stack)

NormalDone(e) ==
  /\ \A m \in Succ(e[2]) : \A d \in Must(e[2], e[3]) : Pend(e[1], m, d)
  /\ \A y \in Copies(e[2], e[3]) : <<y, e[3]>> \in paths
  /\ Dereferences(e[2], e[3]) => e[2] \in leaks /\ <<e[2], e[3]>> \in paths
CallDone(e) ==
  /\ \A m \in Succ(e[2]) : Pend(e[1], m, e[3])
  /\ \A d \in CallFlow(Instr(e[2]), e[3]).to : Pend(d, N("f", 1), d) /\ Called(e[1], e[2], e[3], d)
  /\ \A x \in CallFlow(Instr(e[2]), e[3]).paths : x \in paths
Returned(c, e) ==
  c[4] = e[1] /\ e[2] = LastOf("f") =>
    /\ \A m \in Succ(c[2]) : \A d \in RetFlow(c[2], e[3]).to : Pend(c[1], m, d)
    /\ \A x \in RetFlow(c[2], e[3]).paths : x \in paths

(* The solver forgets nothing. *)
SolveInv ==
  /\ Pend(Zero, N("main", 1), Zero)
  /\ Plain("g") \in prog.tracers => Pend(Zero, N("main", 1), V("g"))
  /\ \A e \in seen : Instr(e[2]).op \notin {"call", "ret"} => NormalDone(e)
  /\ \A e \in seen : Instr(e[2]).op = "call" => CallDone(e)
  /\ \A c \in incoming : \A e \in seen : Returned(c, e)

SolveStep(t) == Known(t) \/ ProcessNormal(t) \/ ProcessCall(t) \/ ApplySummaries(t) \/ ProcessExit(t)

LEMMA Progress ==
  ASSUME TypeInv, stack # <<>>, NEW t \in Head(stack), SolveStep(t)
  PROVE  /\ seen \subseteq seen' /\ paths \subseteq paths' /\ leaks \subseteq leaks'
         /\ \A d1, n, d2 : Pend(d1, n, d2) => Pend(d1, n, d2)'
         /\ \A d1, n, d2, d3 : Called(d1, n, d2, d3) => Called(d1, n, d2, d3)'
<1>1. /\ seen \subseteq seen' /\ paths \subseteq paths' /\ leaks \subseteq leaks' /\ incoming \subseteq incoming'
      /\ ~t.after => EdgeOf(t) \in seen'
      /\ t.after => <<t.d1, t.n, t.d2, t.d3>> \in incoming'
  BY DEF SolveStep, Known, ProcessNormal, ProcessCall, ApplySummaries, ProcessExit, Apply
<1>2. Items(stack) \subseteq {t} \cup Items(stack')
  BY Steps DEF SolveStep
<1>3. ASSUME NEW d1, NEW n, NEW d2, Pend(d1, n, d2) PROVE Pend(d1, n, d2)'
  <2>1. CASE Edge(d1, n, d2) = t
    <3>1. ~t.after /\ EdgeOf(t) = <<d1, n, d2>>
      BY <2>1 DEF Edge, EdgeOf
    <3> QED
      BY <1>1, <3>1 DEF Pend
  <2> QED
    BY <1>1, <1>2, <1>3, <2>1 DEF Pend
<1>4. ASSUME NEW d1, NEW n, NEW d2, NEW d3, Called(d1, n, d2, d3) PROVE Called(d1, n, d2, d3)'
  <2>1. CASE After(d1, n, d2, d3) = t
    <3>1. t.after /\ <<t.d1, t.n, t.d2, t.d3>> = <<d1, n, d2, d3>>
      BY <2>1 DEF After
    <3> QED
      BY <1>1, <3>1 DEF Called
  <2> QED
    BY <1>1, <1>2, <1>4, <2>1 DEF Called
<1> QED
  BY <1>1, <1>3, <1>4

LEMMA SameFlows ==
  ASSUME [Next]_vars
  PROVE  /\ \A n : Succ(n)' = Succ(n)
         /\ LastOf("f")' = LastOf("f")
         /\ \A n, d : RetFlow(n, d)' = RetFlow(n, d)
         /\ \A n, d : Must(n, d)' = Must(n, d) /\ Copies(n, d)' = Copies(n, d)
         /\ \A n, d : Dereferences(n, d)' <=> Dereferences(n, d)
<1>1. prog' = prog
  BY SameProgram
<1>2. \A n : Instr(n)' = Instr(n) /\ LastOf("f")' = LastOf("f") /\ Succ(n)' = Succ(n)
  BY <1>1 DEF Instr, LastOf, Succ
<1>3. \A n, d : RetFlow(n, d)' = RetFlow(n, d)
  BY <1>2 DEF RetFlow
<1>4. \A op, n : IsA(op, n)' <=> IsA(op, n)
  BY <1>2 DEF IsA
<1>5. \A n, d : Copies(n, d)' = Copies(n, d)
  BY <1>2 DEF Copies
<1>6. \A n, d : Generated(n, d)' = Generated(n, d) /\ (Consumed(n, d)' <=> Consumed(n, d))
  BY <1>1, <1>2 DEF Generated, Consumed
<1>7. \A n, d : Must(n, d)' = Must(n, d)
  BY <1>5, <1>6 DEF Must
<1> QED
  BY <1>2, <1>3, <1>4, <1>5, <1>7 DEF Dereferences

LEMMA DoneStays ==
  ASSUME TypeInv, stack # <<>>, NEW t \in Head(stack), SolveStep(t), [Next]_vars
  PROVE  /\ \A e : NormalDone(e) => NormalDone(e)'
         /\ \A e : CallDone(e) => CallDone(e)'
         /\ \A c, e : Returned(c, e) => Returned(c, e)'
<1>1. /\ paths \subseteq paths' /\ leaks \subseteq leaks'
      /\ \A d1, n, d2 : Pend(d1, n, d2) => Pend(d1, n, d2)'
      /\ \A d1, n, d2, d3 : Called(d1, n, d2, d3) => Called(d1, n, d2, d3)'
  BY Progress
<1>2. ASSUME NEW e, NormalDone(e) PROVE NormalDone(e)'
  BY <1>1, <1>2, SameFlows DEF NormalDone
<1>3. ASSUME NEW e, CallDone(e) PROVE CallDone(e)'
  <2>1. CallFlow(Instr(e[2]), e[3])' = CallFlow(Instr(e[2]), e[3])
    BY SameProgram
  <2> QED
    BY <1>1, <1>3, <2>1, SameFlows DEF CallDone
<1>4. ASSUME NEW c, NEW e, Returned(c, e) PROVE Returned(c, e)'
  BY <1>1, <1>4, SameFlows DEF Returned
<1> QED
  BY <1>2, <1>3, <1>4

(* The new edge of each action has been dealt with. *)
LEMMA NormalIsDone ==
  ASSUME TypeInv, stack # <<>>, NEW t \in Head(stack), ProcessNormal(t), [Next]_vars
  PROVE  NormalDone(EdgeOf(t))'
<1> DEFINE e == NormalFlow(t.n, t.d2)
<1>1. t.n \in Point /\ t.d2 \in Node /\ prog \in Programs /\ Instr(t.n).op \notin {"call", "ret"}
  BY Steps DEF Task, TypeInv, ProcessNormal
<1>2. /\ Must(t.n, t.d2) \subseteq e.to /\ \A y \in Copies(t.n, t.d2) : <<y, t.d2>> \in e.paths
      /\ Dereferences(t.n, t.d2) => e.leak /\ <<t.n, t.d2>> \in e.paths
  BY <1>1, MustFlow
<1>3. paths' = paths \cup e.paths /\ leaks' = (IF e.leak THEN leaks \cup {t.n} ELSE leaks)
  BY DEF ProcessNormal, Apply
<1>4. \A m \in Succ(t.n) : \A d \in e.to : Edge(t.d1, m, d) \in Items(stack')
  <2>1. NormalTasks(t) \subseteq Items(stack')
    BY Steps
  <2> QED
    BY <2>1 DEF NormalTasks
<1>5. EdgeOf(t)[1] = t.d1 /\ EdgeOf(t)[2] = t.n /\ EdgeOf(t)[3] = t.d2 /\ EdgeOf(t)' = EdgeOf(t)
  BY DEF EdgeOf
<1> HIDE DEF e
<1>6. \A m \in Succ(t.n) : \A d \in Must(t.n, t.d2) : Pend(t.d1, m, d)'
  BY <1>2, <1>4 DEF Pend
<1> QED
  BY <1>2, <1>3, <1>5, <1>6, SameFlows DEF NormalDone

LEMMA CallIsDone ==
  ASSUME TypeInv, stack # <<>>, NEW t \in Head(stack), ProcessCall(t), [Next]_vars
  PROVE  CallDone(EdgeOf(t))'
<1> DEFINE e == CallFlow(Instr(t.n), t.d2)
<1>1. paths' = paths \cup e.paths
  BY DEF ProcessCall, Apply
<1>2. CalleeTasks(t) \cup AfterTasks(t) \cup SkipTasks(t) \subseteq Items(stack')
  BY Steps
<1>3. \A m \in Succ(t.n) : Edge(t.d1, m, t.d2) \in Items(stack')
  BY <1>2 DEF SkipTasks
<1>4. \A d \in e.to : Edge(d, N("f", 1), d) \in Items(stack') /\ After(t.d1, t.n, t.d2, d) \in Items(stack')
  BY <1>2 DEF CalleeTasks, AfterTasks
<1>5. EdgeOf(t)[1] = t.d1 /\ EdgeOf(t)[2] = t.n /\ EdgeOf(t)[3] = t.d2 /\ EdgeOf(t)' = EdgeOf(t)
  BY DEF EdgeOf
<1>6. CallFlow(Instr(t.n), t.d2)' = e
  BY SameProgram
<1> HIDE DEF e
<1>7. \A m \in Succ(t.n) : Pend(t.d1, m, t.d2)'
  BY <1>3 DEF Pend
<1>8. \A d \in e.to : Pend(d, N("f", 1), d)' /\ Called(t.d1, t.n, t.d2, d)'
  BY <1>4 DEF Pend, Called
<1> QED
  BY <1>1, <1>5, <1>6, <1>7, <1>8, SameFlows DEF CallDone

LEMMA SummariesReturned ==
  ASSUME TypeInv, stack # <<>>, NEW t \in Head(stack), ApplySummaries(t), [Next]_vars, NEW e \in seen
  PROVE  Returned(<<t.d1, t.n, t.d2, t.d3>>, e)'
<1> SUFFICES ASSUME e[1] = t.d3, e[2] = LastOf("f")
             PROVE  /\ \A m \in Succ(t.n) : \A d \in RetFlow(t.n, e[3]).to : Pend(t.d1, m, d)'
                    /\ \A x \in RetFlow(t.n, e[3]).paths : x \in paths'
  BY SameFlows DEF Returned
<1>1. e[3] \in Exits(t.d3)
  BY DEF Exits
<1>2. paths' = paths \cup UNION {RetFlow(t.n, o).paths : o \in Exits(t.d3)}
  BY DEF ApplySummaries, Exits
<1>3. SummaryTasks(t) \subseteq Items(stack')
  BY Steps
<1>4. \A m \in Succ(t.n) : \A d \in RetFlow(t.n, e[3]).to : Edge(t.d1, m, d) \in Items(stack')
  BY <1>1, <1>3 DEF SummaryTasks
<1> QED
  BY <1>1, <1>2, <1>4 DEF Pend

LEMMA ExitReturned ==
  ASSUME TypeInv, stack # <<>>, NEW t \in Head(stack), ProcessExit(t), [Next]_vars, NEW c \in incoming
  PROVE  Returned(c, EdgeOf(t))'
<1> SUFFICES ASSUME c[4] = t.d1, t.n = LastOf("f")
             PROVE  /\ \A m \in Succ(c[2]) : \A d \in RetFlow(c[2], t.d2).to : Pend(c[1], m, d)'
                    /\ \A x \in RetFlow(c[2], t.d2).paths : x \in paths'
  BY SameFlows DEF Returned, EdgeOf
<1>1. c \in Callers(t)
  BY DEF Callers, LastOf, N
<1>2. paths' = paths \cup UNION {RetFlow(x[2], t.d2).paths : x \in Callers(t)}
  BY DEF ProcessExit, Callers
<1>3. ExitTasks(t) \subseteq Items(stack')
  BY Steps
<1>4. ASSUME NEW m \in Succ(c[2]), NEW d \in RetFlow(c[2], t.d2).to PROVE Edge(c[1], m, d) \in Items(stack')
  <2> DEFINE Back(x) == {Edge(x[1], k, y) : k \in Succ(x[2]), y \in RetFlow(x[2], t.d2).to}
  <2>1. Edge(c[1], m, d) \in Back(c)
    OBVIOUS
  <2>2. ExitTasks(t) = UNION {Back(x) : x \in Callers(t)}
    BY DEF ExitTasks
  <2> HIDE DEF Back
  <2> QED
    BY <1>1, <1>3, <2>1, <2>2
<1> QED
  BY <1>1, <1>2, <1>4 DEF Pend

LEMMA SolveKept ==
  ASSUME TypeInv, SolveInv, [Next]_vars PROVE SolveInv'
<1>1. CASE UNCHANGED <<prog, stack, seen, incoming, paths, leaks>>
  <2>1. /\ prog' = prog /\ stack' = stack /\ seen' = seen /\ incoming' = incoming /\ paths' = paths /\ leaks' = leaks
    BY <1>1
  <2>2. /\ \A d1, n, d2 : Pend(d1, n, d2)' <=> Pend(d1, n, d2)
        /\ \A d1, n, d2, d3 : Called(d1, n, d2, d3)' <=> Called(d1, n, d2, d3)
    BY <2>1 DEF Pend, Called
  <2>3. \A e : NormalDone(e)' <=> NormalDone(e)
    BY <2>1, <2>2, SameFlows DEF NormalDone
  <2>4. \A e : CallDone(e)' <=> CallDone(e)
    BY <2>1, <2>2, SameFlows, SameProgram DEF CallDone
  <2>5. \A c, e : Returned(c, e)' <=> Returned(c, e)
    BY <2>1, <2>2, SameFlows DEF Returned
  <2> QED
    BY <2>1, <2>2, <2>3, <2>4, <2>5, SameProgram DEF SolveInv
<1>2. ASSUME stack # <<>>, NEW t \in Head(stack), SolveStep(t) PROVE SolveInv'
  <2>1. /\ \A d1, n, d2 : Pend(d1, n, d2) => Pend(d1, n, d2)'
        /\ prog' = prog /\ \A n : Instr(n)' = Instr(n)
    BY <1>2, Progress, SameProgram
  <2>2. /\ seen' \subseteq seen \cup {EdgeOf(t)}
        /\ Known(t) \/ ApplySummaries(t) => seen' = seen
        /\ ~ApplySummaries(t) => incoming' = incoming
        /\ ApplySummaries(t) => incoming' = incoming \cup {<<t.d1, t.n, t.d2, t.d3>>}
    BY <1>2 DEF SolveStep, Known, ProcessNormal, ProcessCall, ApplySummaries, ProcessExit
  <2>3. /\ ProcessNormal(t) => Instr(t.n).op \notin {"call", "ret"}
        /\ ProcessCall(t) => Instr(t.n).op = "call"
        /\ ProcessExit(t) => Instr(t.n).op = "ret"
    BY DEF ProcessNormal, ProcessCall, ProcessExit
  <2>4. EdgeOf(t)[2] = t.n
    BY DEF EdgeOf
  <2>5. ASSUME NEW e \in seen', Instr(e[2])'.op \notin {"call", "ret"} PROVE NormalDone(e)'
    <3>1. CASE e \in seen
      BY <1>2, <2>1, <2>5, <3>1, DoneStays DEF SolveInv
    <3>2. CASE e \notin seen
      <4>1. e = EdgeOf(t) /\ ProcessNormal(t)
        BY <1>2, <2>1, <2>2, <2>3, <2>4, <2>5, <3>2 DEF SolveStep
      <4> QED
        BY <1>2, <4>1, NormalIsDone
    <3> QED
      BY <3>1, <3>2
  <2>6. ASSUME NEW e \in seen', Instr(e[2])'.op = "call" PROVE CallDone(e)'
    <3>1. CASE e \in seen
      BY <1>2, <2>1, <2>6, <3>1, DoneStays DEF SolveInv
    <3>2. CASE e \notin seen
      <4>1. e = EdgeOf(t) /\ ProcessCall(t)
        BY <1>2, <2>1, <2>2, <2>3, <2>4, <2>6, <3>2 DEF SolveStep
      <4> QED
        BY <1>2, <4>1, CallIsDone
    <3> QED
      BY <3>1, <3>2
  <2>7. ASSUME NEW c \in incoming', NEW e \in seen' PROVE Returned(c, e)'
    <3>1. CASE c \in incoming /\ e \in seen
      BY <1>2, <3>1, DoneStays DEF SolveInv
    <3>2. CASE c \notin incoming
      <4>1. ApplySummaries(t) /\ c = <<t.d1, t.n, t.d2, t.d3>> /\ e \in seen
        BY <2>2, <2>7, <3>2
      <4> QED
        BY <1>2, <4>1, SummariesReturned
    <3>3. CASE c \in incoming /\ e \notin seen
      <4>1. e = EdgeOf(t) /\ (ProcessNormal(t) \/ ProcessCall(t) \/ ProcessExit(t))
        BY <1>2, <2>2, <2>7, <3>3 DEF SolveStep
      <4>2. CASE ProcessExit(t)
        BY <1>2, <3>3, <4>1, <4>2, ExitReturned
      <4>3. CASE ProcessNormal(t) \/ ProcessCall(t)
        <5>1. Instr(LastOf("f")).op = "ret"
          BY EndsOfF DEF TypeInv, PointOf
        <5>2. e[2] # LastOf("f")
          BY <2>3, <2>4, <4>1, <4>3, <5>1
        <5> QED
          BY <5>2, SameFlows DEF Returned
      <4> QED
        BY <4>1, <4>2, <4>3
    <3> QED
      BY <3>1, <3>2, <3>3
  <2> QED
    BY <2>1, <2>5, <2>6, <2>7 DEF SolveInv
<1>3. CASE WalkBack \/ WriteOutput \/ UNCHANGED vars
  BY <1>1, <1>3 DEF WalkBack, WriteOutput, vars
<1> QED
  BY <1>2, <1>3 DEF Next, SolveStep

LEMMA SolveInit ==
  ASSUME Init PROVE SolveInv
<1>1. Items(stack) = stack[1] /\ seen = {} /\ incoming = {}
  BY DEF Init, Items
<1>2. Edge(Zero, N("main", 1), Zero) \in stack[1]
      /\ (Plain("g") \in prog.tracers => Edge(Zero, N("main", 1), V("g")) \in stack[1])
  BY DEF Init
<1> QED
  BY <1>1, <1>2 DEF SolveInv, Pend

-----------------------------------------------------------------------------
(* The program as NaiveTaint looks at it. *)
LEMMA SameReading ==
  /\ \A n : InstrOf(prog, n) = Instr(n) /\ SuccOf(prog, n) = Succ(n)
  /\ \A d : LoadedIn(prog, d) <=> IsA("load", d)
  /\ \A n, d : UsedAt(prog, n, d) <=> Dereferences(n, d)
  /\ EndOfF(prog) = LastOf("f")
<1>1. \A n : InstrOf(prog, n) = Instr(n)
  BY DEF InstrOf, Instr
<1>2. \A n : SuccOf(prog, n) = Succ(n)
  BY <1>1 DEF SuccOf, Succ
<1>3. \A d : LoadedIn(prog, d) <=> IsA("load", d)
  BY <1>1 DEF LoadedIn, IsA
<1>4. \A n, d : UsedAt(prog, n, d) <=> Dereferences(n, d)
  BY <1>1, <1>3 DEF UsedAt, Dereferences
<1> QED
  BY <1>1, <1>2, <1>3, <1>4 DEF EndOfF, LastOf

(* Without fields nothing that is used is the address of one. *)
LEMMA NoAddressOfField ==
  ASSUME prog \in Programs, NoFields(prog), NEW n \in Point
  PROVE  /\ Instr(n).op # "gep"
         /\ Instr(n).op # "alloca" => ~IsA("gep", Instr(n).ptr)
<1>1. \A m \in Point : Instr(m).op # "gep"
  BY DEF NoFields, Point, Instr
<1>2. ASSUME Instr(n).op # "alloca", Instr(n).ptr[2] > 0 PROVE Instr(n).ptr \in Point
  <2> DEFINE d == Instr(n).ptr
  <2>1. /\ n[1] \in {"main", "f"} /\ n[2] \in DOMAIN prog.code[n[1]] /\ n[2] \in Nat
        /\ prog.code[n[1]] \in Seq(Instruction)
    BY ProgramsWellFormed DEF Point, WellFormed
  <2>2. d \in Usable(n[1], n[2])
    BY InstrRules
  <2>3. \E j \in 1..n[2] - 1 : d = N(n[1], j)
    BY <1>2, <2>2 DEF Usable, V, Const, Formal
  <2>4. PICK j \in 1..n[2] - 1 : d = N(n[1], j)
    BY <2>3
  <2>5. j \in DOMAIN prog.code[n[1]] /\ j \in Nat \ {0}
    BY <2>1
  <2> QED
    BY <2>1, <2>4, <2>5 DEF Point, N
<1> QED
  BY <1>1, <1>2 DEF IsA

(* The flow functions taint what NaiveTaint says, and leak what is used. *)
LEMMA FlowWithoutFields ==
  ASSUME prog \in Programs, NoFields(prog), NEW n \in Point, NEW d \in Node, Instr(n).op \notin {"call", "ret"}
  PROVE  /\ NormalFlow(n, d).to = TaintedBehind(prog, n, d)
         /\ NormalFlow(n, d).leak <=> UsedAt(prog, n, d)
<1> DEFINE i == Instr(n)
           kept == IF i.op # "lib" /\ Dereferences(n, d) THEN {} ELSE {d}
           toPtr == \/ i.op = "alloca" /\ d = Zero /\ Plain(i.ptr[1]) \in prog.tracers
                    \/ i.op = "store" /\ d = i.val
           toHere == \/ i.op = "load" /\ d = i.ptr /\ ~IsA("load", d)
                     \/ i.op = "cast" /\ d = i.ptr
           sources == IF i.op = "alloca" /\ d = Zero /\ Plain(i.ptr[1]) \in prog.tracers
                      THEN AliasesIn(prog, i.ptr[1]) ELSE {}
<1>1. /\ i \in Instruction /\ i.op # "gep" /\ Zero \notin {i.ptr, i.val}
      /\ i.op # "alloca" => ~IsA("gep", i.ptr)
      /\ i.op = "store" /\ i.ptr = i.val => i.ptr = Const
  BY InstrType, NoAddressOfField, InstrRules
<1>2. /\ TaintedBehind(prog, n, d) =
           kept \cup (IF toPtr THEN {i.ptr} ELSE {}) \cup sources \cup (IF toHere THEN {n} ELSE {})
      /\ UsedAt(prog, n, d) <=> Dereferences(n, d)
  BY SameReading DEF TaintedBehind
<1> HIDE DEF i
<1> SUFFICES /\ NormalFlow(n, d).to =
                  kept \cup (IF toPtr THEN {i.ptr} ELSE {}) \cup sources \cup (IF toHere THEN {n} ELSE {})
             /\ NormalFlow(n, d).leak <=> Dereferences(n, d)
  BY <1>2
<1>3. Dereferences(n, d) <=> d = i.ptr /\ (i.op = "lib" \/ (i.op \in {"load", "store"} /\ IsA("load", d)))
  BY DEF Dereferences, i
<1>4. CASE i.op = "alloca"
  <2>1. NormalFlow(n, d) = AllocaFlow(i, n, d)
    BY <1>4 DEF NormalFlow, i
  <2>2. kept = {d} /\ ~toHere /\ ~Dereferences(n, d)
    BY <1>3, <1>4
  <2>3. CASE d # Zero
    BY <1>4, <2>1, <2>2, <2>3 DEF AllocaFlow, Keep, Effect
  <2>4. CASE d = Zero
    <3> DEFINE T == {V(i.ptr[1]) : t \in prog.tracers \cap {Plain(i.ptr[1])}}
    <3>1. NormalFlow(n, d).to = {Zero} \cup T \cup sources /\ NormalFlow(n, d).leak = FALSE
      BY <1>4, <2>1, <2>4 DEF AllocaFlow, Effect
    <3>2. V(i.ptr[1]) = i.ptr
      <4>1. i.ptr \in {V(x) : x \in LocalsOf[n[1]]}
        BY <1>4, InstrRules DEF i
      <4> QED
        BY <4>1 DEF V
    <3>3. T = IF toPtr THEN {i.ptr} ELSE {}
      BY <1>4, <2>4, <3>2
    <3> QED
      BY <2>2, <2>4, <3>1, <3>3
  <2> QED
    BY <2>3, <2>4
<1>5. CASE i.op = "store"
  <2>1. NormalFlow(n, d) = StoreFlow(i, n, d)
    BY <1>5 DEF NormalFlow, i
  <2>2. ~toHere /\ (toPtr <=> d = i.val)
    BY <1>5
  <2>3. CASE d = i.val
    <3>1. ~Dereferences(n, d)
      BY <1>1, <1>3, <1>5, <2>3 DEF IsA, Const
    <3>2. StoreFlow(i, n, d).to = {d, i.ptr} /\ StoreFlow(i, n, d).leak = FALSE
      BY <2>3 DEF StoreFlow, Effect
    <3> QED
      BY <1>5, <2>1, <2>2, <2>3, <3>1, <3>2
  <2>4. CASE d # i.val /\ d = i.ptr
    <3>1. StoreFlow(i, n, d) = IF IsA("load", d) THEN Effect({}, {<<n, d>>}, TRUE) ELSE Keep(d)
      BY <1>1, <1>5, <2>4 DEF StoreFlow, SinkFlow
    <3> QED
      BY <1>3, <1>5, <2>1, <2>2, <2>4, <3>1 DEF Effect, Keep
  <2>5. CASE d # i.val /\ d # i.ptr
    <3>1. StoreFlow(i, n, d) = Keep(d)
      BY <2>5 DEF StoreFlow
    <3> QED
      BY <1>3, <2>1, <2>2, <2>5, <3>1 DEF Effect, Keep
  <2> QED
    BY <2>3, <2>4, <2>5
<1>6. CASE i.op = "load"
  <2>1. NormalFlow(n, d) = LoadFlow(i, n, d) /\ ~toPtr
    BY <1>6 DEF NormalFlow, i
  <2>2. CASE d # i.ptr
    <3>1. LoadFlow(i, n, d) = Keep(d)
      BY <2>2 DEF LoadFlow
    <3> QED
      BY <1>3, <2>1, <2>2, <3>1 DEF Keep, Effect
  <2>3. CASE d = i.ptr /\ IsA("load", d)
    <3>1. LoadFlow(i, n, d) = Effect({}, {<<n, d>>}, TRUE)
      BY <1>1, <1>6, <2>3 DEF LoadFlow, SinkFlow
    <3> QED
      BY <1>3, <1>6, <2>1, <2>3, <3>1 DEF Effect
  <2>4. CASE d = i.ptr /\ ~IsA("load", d)
    <3>1. LoadFlow(i, n, d) = Effect({d, n}, {<<n, d>>}, FALSE)
      BY <1>1, <1>6, <2>4 DEF LoadFlow
    <3> QED
      BY <1>3, <1>6, <2>1, <2>4, <3>1 DEF Effect
  <2> QED
    BY <2>2, <2>3, <2>4
<1>7. CASE i.op = "cast"
  <2>1. NormalFlow(n, d) = CastFlow(i, n, d) /\ ~toPtr /\ ~Dereferences(n, d)
    BY <1>3, <1>7 DEF NormalFlow, i
  <2> QED
    BY <1>7, <2>1 DEF CastFlow, Effect, Keep
<1>8. CASE i.op = "lib"
  <2>1. NormalFlow(n, d) = SummaryFlow(i, n, d) /\ ~toPtr /\ ~toHere /\ (Dereferences(n, d) <=> d = i.ptr)
    BY <1>3, <1>8 DEF NormalFlow, i
  <2> QED
    BY <1>8, <2>1 DEF SummaryFlow, Effect, Keep
<1>9. CASE i.op = "br"
  <2>1. NormalFlow(n, d) = Keep(d) /\ ~toPtr /\ ~toHere /\ ~Dereferences(n, d)
    BY <1>3, <1>9 DEF NormalFlow, i
  <2> QED
    BY <2>1 DEF Effect, Keep
<1> QED
  BY <1>1, <1>4, <1>5, <1>6, <1>7, <1>8, <1>9 DEF Instruction, Ops, i

-----------------------------------------------------------------------------
(* How a path edge follows from others: at the start, behind an instruction, *)
(* inside of f, or back from f.                                              *)
Starts(p, z) ==
  \/ z = <<Zero, N("main", 1), Zero>>
  \/ Plain("g") \in p.tracers /\ z = <<Zero, N("main", 1), V("g")>>
Behind(p, e, z) ==
  /\ InstrOf(p, e[2]).op # "ret"
  /\ \E m \in SuccOf(p, e[2]), y \in TaintedBehind(p, e[2], e[3]) : z = <<e[1], m, y>>
Inside(p, e, z) ==
  /\ InstrOf(p, e[2]).op = "call"
  /\ \E y \in TaintedInside(p, e[2], e[3]) : z = <<y, N("f", 1), y>>
Back(p, e, x, z) ==
  /\ InstrOf(p, e[2]).op = "call" /\ x[2] = EndOfF(p)
  /\ \E m \in SuccOf(p, e[2]), y \in TaintedByCall(p, e, x) : z = <<e[1], m, y>>

LEMMA InFollows ==
  ASSUME NEW p, NEW S, NEW z
  PROVE  z \in Follows(p, S) <=>
           \/ Starts(p, z)
           \/ \E e \in S : Behind(p, e, z) \/ Inside(p, e, z)
           \/ \E e, x \in S : Back(p, e, x, z)
<1> DEFINE starts == {<<Zero, N("main", 1), d>> : d \in {Zero} \cup (IF Plain("g") \in p.tracers THEN {V("g")} ELSE {})}
           B(e) == {<<e[1], m, y>> : m \in SuccOf(p, e[2]), y \in TaintedBehind(p, e[2], e[3])}
           I(e) == {<<y, N("f", 1), y>> : y \in TaintedInside(p, e[2], e[3])}
           K(e, x) == {<<e[1], m, y>> : m \in SuccOf(p, e[2]), y \in TaintedByCall(p, e, x)}
           straight == {x \in S : InstrOf(p, x[2]).op # "ret"}
           calls == {e \in S : InstrOf(p, e[2]).op = "call"}
           ends == {x \in S : x[2] = EndOfF(p)}
           UB == UNION {B(e) : e \in straight}
           UI == UNION {I(e) : e \in calls}
           UK == UNION {K(e, x) : e \in calls, x \in ends}
<1>1. Follows(p, S) = starts \cup UB \cup UI \cup UK
  BY DEF Follows
<1>2. z \in starts <=> Starts(p, z)
  BY DEF Starts
<1>3. \A e \in S : Behind(p, e, z) <=> e \in straight /\ z \in B(e)
  BY DEF Behind
<1>4. \A e \in S : Inside(p, e, z) <=> e \in calls /\ z \in I(e)
  BY DEF Inside
<1>5. \A e, x \in S : Back(p, e, x, z) <=> e \in calls /\ x \in ends /\ z \in K(e, x)
  BY DEF Back
<1>9. straight \subseteq S /\ calls \subseteq S /\ ends \subseteq S
  OBVIOUS
<1> HIDE DEF starts, B, I, K, straight, calls, ends
<1>6. z \in UB <=> \E e \in S : Behind(p, e, z)
  BY <1>3, <1>9
<1>7. z \in UI <=> \E e \in S : Inside(p, e, z)
  BY <1>4, <1>9
<1>8. z \in UK <=> \E e, x \in S : Back(p, e, x, z)
  BY <1>5, <1>9
<1> HIDE DEF UB, UI, UK
<1> QED
  BY <1>1, <1>2, <1>6, <1>7, <1>8

LEMMA FollowsGrows ==
  ASSUME NEW p, NEW S, NEW T, S \subseteq T
  PROVE  Follows(p, S) \subseteq Follows(p, T)
<1>1. \A z : z \in Follows(p, S) => z \in Follows(p, T)
  BY InFollows
<1> QED
  BY <1>1

LEMMA ClosedHas ==
  ASSUME NEW p, NEW C, Closed(p, C)
  PROVE  /\ <<Zero, N("main", 1), Zero>> \in C
         /\ Plain("g") \in p.tracers => <<Zero, N("main", 1), V("g")>> \in C
         /\ \A e \in C : InstrOf(p, e[2]).op # "ret" =>
              \A m \in SuccOf(p, e[2]), y \in TaintedBehind(p, e[2], e[3]) : <<e[1], m, y>> \in C
         /\ \A e \in C : InstrOf(p, e[2]).op = "call" =>
              \A y \in TaintedInside(p, e[2], e[3]) : <<y, N("f", 1), y>> \in C
         /\ \A e, x \in C : InstrOf(p, e[2]).op = "call" /\ x[2] = EndOfF(p) =>
              \A m \in SuccOf(p, e[2]), y \in TaintedByCall(p, e, x) : <<e[1], m, y>> \in C
<1>1. \A z : z \in Follows(p, C) => z \in C
  BY DEF Closed
<1>2. <<Zero, N("main", 1), Zero>> \in Follows(p, C)
      /\ (Plain("g") \in p.tracers => <<Zero, N("main", 1), V("g")>> \in Follows(p, C))
  BY InFollows DEF Starts
<1>3. ASSUME NEW e \in C, InstrOf(p, e[2]).op # "ret", NEW m \in SuccOf(p, e[2]), NEW y \in TaintedBehind(p, e[2], e[3])
      PROVE  <<e[1], m, y>> \in Follows(p, C)
  BY <1>3, InFollows DEF Behind
<1>4. ASSUME NEW e \in C, InstrOf(p, e[2]).op = "call", NEW y \in TaintedInside(p, e[2], e[3])
      PROVE  <<y, N("f", 1), y>> \in Follows(p, C)
  BY <1>4, InFollows DEF Inside
<1>5. ASSUME NEW e \in C, NEW x \in C, InstrOf(p, e[2]).op = "call", x[2] = EndOfF(p),
             NEW m \in SuccOf(p, e[2]), NEW y \in TaintedByCall(p, e, x)
      PROVE  <<e[1], m, y>> \in Follows(p, C)
  BY <1>5, InFollows DEF Back
<1> QED
  BY <1>1, <1>2, <1>3, <1>4, <1>5

LEMMA RoundsWithin ==
  ASSUME NEW p \in Programs, NoFields(p), NEW C, Closed(p, C)
  PROVE  Rounds[p][Len(Rounds[p])] \subseteq C
<1> DEFINE R == Rounds[p]
           Out == {j \in 1..Len(R) : ~(R[j] \subseteq C)}
<1>1. /\ Len(R) \in Nat \ {0} /\ R[1] = {}
      /\ \A j \in 1..Len(R) - 1 : R[j + 1] \subseteq Follows(p, R[j])
  BY RoundsFollow
<1> HIDE DEF R
<1> SUFFICES ASSUME Out # {} PROVE FALSE
  BY <1>1 DEF R
<1>2. Out \subseteq Nat
  BY <1>1
<1> DEFINE less == OpToRel(<, Nat)
<1>9. \A k, j \in Nat : k < j => <<k, j>> \in less
  BY DEF OpToRel
<1>10. IsWellFoundedOn(less, Nat)
  BY NatLessThanWellFounded
<1> HIDE DEF less, Out
<1>3. PICK j \in Out : \A k \in Out : ~(<<k, j>> \in less)
  BY <1>2, <1>10, WFMin
<1> USE DEF Out
<1>4. j \in Nat /\ j # 1 /\ j \in 1..Len(R) /\ j - 1 \in Nat
  BY <1>1
<1>5. j - 1 \notin Out
  <2>1. <<j - 1, j>> \in less
    BY <1>4, <1>9
  <2> QED
    BY <1>3, <2>1
<1>6. R[j - 1] \subseteq C /\ j - 1 \in 1..Len(R) - 1 /\ (j - 1) + 1 = j
  BY <1>1, <1>4, <1>5
<1>7. R[j] \subseteq Follows(p, R[j - 1])
  BY <1>1, <1>6
<1>8. Follows(p, R[j - 1]) \subseteq Follows(p, C)
  BY <1>6, FollowsGrows
<1> QED
  BY <1>7, <1>8 DEF Closed

-----------------------------------------------------------------------------
(* The solver has only path edges of every closed set; and f is entered with *)
(* the zero fact, or is left without it.                                     *)
Entering(t) == (t.d1 = Zero \/ t.d2 # Zero) /\ ~(t.after /\ t.d3 \notin TaintedInside(prog, t.n, t.d2))

WithinInv ==
  NoFields(prog) =>
    /\ \A C : Closed(prog, C) =>
         /\ seen \subseteq C /\ leaks \subseteq UsesIn(prog, C)
         /\ \A t \in Items(stack) : EdgeOf(t) \in C
         /\ \A c \in incoming : <<c[1], c[2], c[3]>> \in C
    /\ \A e \in seen : e[1] = Zero \/ e[3] # Zero
    /\ \A t \in Items(stack) : Entering(t)
    /\ \A c \in incoming : (c[1] = Zero \/ c[3] # Zero) /\ c[4] \in TaintedInside(prog, c[2], c[3])

(* What a step has to keep: it adds the edge of t, calls like t and new      *)
(* tasks.                                                                    *)
LEMMA WithinKept ==
  ASSUME WithinInv, NoFields(prog), prog' = prog, NEW t \in Items(stack), NEW New,
         Items(stack') \subseteq New \cup Items(stack),
         seen' \subseteq seen \cup {EdgeOf(t)},
         incoming' \subseteq incoming \cup {<<t.d1, t.n, t.d2, t.d3>>}, incoming' = incoming \/ t.after,
         \A C : Closed(prog, C) => leaks' \subseteq UsesIn(prog, C),
         \A C : Closed(prog, C) => \A u \in New : EdgeOf(u) \in C,
         \A u \in New : Entering(u)
  PROVE  WithinInv'
<1>1. \A C : Closed(prog, C) => seen \subseteq C /\ EdgeOf(t) \in C /\ \A c \in incoming : <<c[1], c[2], c[3]>> \in C
  BY DEF WithinInv
<1>2. ASSUME NEW C, Closed(prog, C)
      PROVE  /\ seen' \subseteq C
             /\ \A u \in Items(stack') : EdgeOf(u) \in C
             /\ \A c \in incoming' : <<c[1], c[2], c[3]>> \in C
  <2>1. \A u \in Items(stack') : EdgeOf(u) \in C
    BY <1>2 DEF WithinInv
  <2>2. \A c \in incoming' : <<c[1], c[2], c[3]>> \in C
    <3>1. /\ \A c \in incoming : <<c[1], c[2], c[3]>> \in C
          /\ <<t.d1, t.n, t.d2>> \in C
      BY <1>1, <1>2 DEF EdgeOf
    <3>2. \A c \in incoming' : c \in incoming \/ (c[1] = t.d1 /\ c[2] = t.n /\ c[3] = t.d2)
      OBVIOUS
    <3> QED
      BY <3>1, <3>2
  <2> QED
    BY <1>1, <1>2, <2>1, <2>2
<1>3. Entering(t) /\ (\A u \in Items(stack') : Entering(u)) /\ \A e \in seen : e[1] = Zero \/ e[3] # Zero
  BY DEF WithinInv
<1>4. \A e \in seen' : e[1] = Zero \/ e[3] # Zero
  BY <1>3 DEF Entering, EdgeOf
<1>5. \A c \in incoming' : (c[1] = Zero \/ c[3] # Zero) /\ c[4] \in TaintedInside(prog, c[2], c[3])
  <2>1. \A c \in incoming : (c[1] = Zero \/ c[3] # Zero) /\ c[4] \in TaintedInside(prog, c[2], c[3])
    BY DEF WithinInv
  <2>2. CASE incoming' = incoming
    BY <2>1, <2>2
  <2>3. CASE t.after
    BY <1>3, <2>1, <2>3 DEF Entering
  <2> QED
    BY <2>2, <2>3
<1>6. \A u \in Items(stack') : Entering(u)'
  BY <1>3 DEF Entering
<1> QED
  BY <1>2, <1>4, <1>5, <1>6 DEF WithinInv

LEMMA CallTaints ==
  ASSUME prog \in Programs, NEW n \in PointOf({"call"}), NEW d \in Node
  PROVE  /\ CallFlow(Instr(n), d).to = TaintedInside(prog, n, d)
         /\ ~CallFlow(Instr(n), d).leak
         /\ Zero # Formal /\ (Formal \in TaintedInside(prog, n, d) => d # Zero)
         /\ \A y \in TaintedInside(prog, n, d) : y = Zero <=> d = Zero
<1>1. Zero # Instr(n).ptr /\ InstrOf(prog, n) = Instr(n) /\ Zero # Formal
  BY InstrType, SameReading DEF PointOf, Zero, Formal
<1>2. CASE d = Zero
  BY <1>1, <1>2 DEF CallFlow, TaintedInside, Effect
<1>3. CASE d # Zero
  BY <1>1, <1>3 DEF CallFlow, TaintedInside, Effect
<1> QED
  BY <1>2, <1>3

LEMMA ReturnTaints ==
  ASSUME prog \in Programs, NEW n \in PointOf({"call"}), NEW d \in Node, d # Zero,
         NEW e, NEW x, e[2] = n, x[3] = d, x[1] \in TaintedInside(prog, n, e[3])
  PROVE  /\ RetFlow(n, d).to = TaintedByCall(prog, e, x)
         /\ Zero \notin RetFlow(n, d).to
<1> DEFINE target == (IF d = Formal THEN {Instr(n).ptr} ELSE {})
                       \cup (IF d = Instr(LastOf("f")).val THEN {n} ELSE {})
<1>1. RetFlow(n, d).to = target
  BY DEF RetFlow, Effect
<1>2. TaintedByCall(prog, e, x) = target
  BY SameReading DEF TaintedByCall
<1>3. Zero # Instr(n).ptr /\ Zero # n
  BY InstrType DEF PointOf, Point, Zero
<1> QED
  BY <1>1, <1>2, <1>3

(* What a task adds has the form that the invariant asks for. *)
LEMMA WithinInit ==
  ASSUME Init PROVE WithinInv
<1>1. /\ Items(stack) = stack[1] /\ seen = {} /\ incoming = {} /\ leaks = {} /\ prog \in Programs
  BY DEF Init, Items
<1>2. \A t \in stack[1] :
        /\ \/ EdgeOf(t) = <<Zero, N("main", 1), Zero>>
           \/ Plain("g") \in prog.tracers /\ EdgeOf(t) = <<Zero, N("main", 1), V("g")>>
        /\ t.d1 = Zero /\ ~t.after
  BY DEF Init, Edge, EdgeOf
<1>3. \A C : Closed(prog, C) => \A t \in stack[1] : EdgeOf(t) \in C
  BY <1>2, ClosedHas
<1> QED
  BY <1>1, <1>2, <1>3 DEF WithinInv, Entering

LEMMA WithinStep ==
  ASSUME TypeInv, WithinInv, [Next]_vars PROVE WithinInv'
<1> SUFFICES ASSUME NoFields(prog) PROVE WithinInv'
  BY SameProgram DEF WithinInv
<1> USE DEF EdgeOf
<1>1. CASE UNCHANGED <<prog, stack, seen, incoming, leaks>>
  BY <1>1 DEF WithinInv, Entering
<1>2. ASSUME stack # <<>>, NEW t \in Head(stack), SolveStep(t) PROVE WithinInv'
  <2>1. /\ t \in Task /\ t.n \in Point /\ t.d1 \in Node /\ t.d2 \in Node /\ t.d3 \in Node /\ prog \in Programs
        /\ Items(Rest(t)) \subseteq Items(stack) /\ t \in Items(stack) /\ prog' = prog
        /\ t.after => t.n \in PointOf({"call"})
    BY <1>2, Steps, SameProgram DEF Task, TypeInv
  <2>2. /\ \A C : Closed(prog, C) => EdgeOf(t) \in C
        /\ t.d1 = Zero \/ t.d2 # Zero
        /\ t.after => t.d3 \in TaintedInside(prog, t.n, t.d2)
        /\ \A C : Closed(prog, C) => leaks \subseteq UsesIn(prog, C)
    BY <2>1 DEF WithinInv, Entering
  <2>3. CASE Known(t)
    <3>1. Items(stack') \subseteq {} \cup Items(stack) /\ seen' = seen /\ incoming' = incoming /\ leaks' = leaks
      BY <1>2, <2>1, <2>3, Steps DEF Known
    <3> DEFINE New == {}
    <3>2. /\ Items(stack') \subseteq New \cup Items(stack) /\ \A u \in New : Entering(u)
          /\ \A C : Closed(prog, C) => \A u \in New : EdgeOf(u) \in C
      BY <3>1
    <3>3. \A C : Closed(prog, C) => leaks' \subseteq UsesIn(prog, C)
      BY <2>2, <3>1
    <3> HIDE DEF New
    <3>4. seen' \subseteq seen \cup {EdgeOf(t)} /\ incoming' \subseteq incoming \cup {<<t.d1, t.n, t.d2, t.d3>>}
      BY <3>1
    <3> QED
      BY <2>1, <3>1, <3>2, <3>3, <3>4, WithinKept
  <2>4. CASE ProcessNormal(t)
    <3>1. /\ Instr(t.n).op \notin {"call", "ret"}
          /\ seen' = seen \cup {EdgeOf(t)} /\ incoming' = incoming
          /\ leaks' = IF NormalFlow(t.n, t.d2).leak THEN leaks \cup {t.n} ELSE leaks
      BY <2>4 DEF ProcessNormal, Apply
    <3>2. /\ NormalFlow(t.n, t.d2).to = TaintedBehind(prog, t.n, t.d2)
          /\ NormalFlow(t.n, t.d2).leak <=> UsedAt(prog, t.n, t.d2)
      BY <2>1, <3>1, FlowWithoutFields
    <3>3. Items(stack') = NormalTasks(t) \cup Items(Rest(t))
      BY <1>2, <2>4, Steps
    <3>4. \A u \in NormalTasks(t) : /\ ~u.after /\ u.d1 = t.d1 /\ u.n \in Succ(t.n)
                                    /\ u.d2 \in TaintedBehind(prog, t.n, t.d2)
      BY <3>2 DEF NormalTasks, Edge
    <3>5. Zero \in TaintedBehind(prog, t.n, t.d2) => t.d2 = Zero
      BY <2>1, InstrType, SameReading DEF TaintedBehind, Zero, Point
    <3>6. ASSUME NEW C, Closed(prog, C) PROVE \A u \in NormalTasks(t) : EdgeOf(u) \in C
      <4>1. EdgeOf(t) \in C /\ InstrOf(prog, EdgeOf(t)[2]).op # "ret"
        BY <2>2, <3>1, <3>6, SameReading
      <4>2. \A e \in C : InstrOf(prog, e[2]).op # "ret" =>
              \A m \in SuccOf(prog, e[2]), y \in TaintedBehind(prog, e[2], e[3]) : <<e[1], m, y>> \in C
        BY <3>6, ClosedHas
      <4>3. \A m \in Succ(t.n), y \in TaintedBehind(prog, t.n, t.d2) : <<t.d1, m, y>> \in C
        BY <4>1, <4>2, SameReading
      <4> QED
        BY <3>4, <4>3
    <3>7. ASSUME NEW C, Closed(prog, C) PROVE leaks' \subseteq UsesIn(prog, C)
      BY <2>2, <3>1, <3>2, <3>7 DEF UsesIn, WithinInv
    <3>8. \A u \in NormalTasks(t) : Entering(u)
      BY <2>2, <3>4, <3>5 DEF Entering
    <3>9. Items(stack') \subseteq NormalTasks(t) \cup Items(stack)
      BY <2>1, <3>3
    <3> QED
      BY <2>1, <3>1, <3>6, <3>7, <3>8, <3>9, WithinKept
  <2>5. CASE ProcessCall(t)
    <3>1. /\ t.n \in PointOf({"call"}) /\ seen' = seen \cup {EdgeOf(t)} /\ incoming' = incoming
          /\ Instr(t.n).op = "call"
      BY <2>1, <2>5 DEF ProcessCall, PointOf
    <3>2. /\ CallFlow(Instr(t.n), t.d2).to = TaintedInside(prog, t.n, t.d2)
          /\ \A y \in TaintedInside(prog, t.n, t.d2) : y = Zero <=> t.d2 = Zero
      BY <2>1, <3>1, CallTaints
    <3>3. leaks' = leaks
      BY <2>1, <2>5, <3>1, CallTaints DEF ProcessCall, Apply
    <3>4. Items(stack') = CalleeTasks(t) \cup AfterTasks(t) \cup SkipTasks(t) \cup Items(Rest(t))
      BY <1>2, <2>5, Steps
    <3>5. /\ \A u \in CalleeTasks(t) : ~u.after /\ u.d1 = u.d2 /\ u.n = N("f", 1) /\ u.d2 \in TaintedInside(prog, t.n, t.d2)
          /\ \A u \in AfterTasks(t) : /\ EdgeOf(u) = EdgeOf(t) /\ u.d1 = t.d1 /\ u.n = t.n /\ u.d2 = t.d2
                                      /\ u.d3 \in TaintedInside(prog, t.n, t.d2)
          /\ \A u \in SkipTasks(t) : ~u.after /\ u.d1 = t.d1 /\ u.n \in Succ(t.n) /\ u.d2 = t.d2
      BY <3>2 DEF CalleeTasks, AfterTasks, SkipTasks, Edge, After
    <3>6. t.d2 \in TaintedBehind(prog, t.n, t.d2)
      BY <3>1, SameReading DEF TaintedBehind, UsedAt
    <3>7. ASSUME NEW C, Closed(prog, C)
          PROVE  \A u \in CalleeTasks(t) \cup AfterTasks(t) \cup SkipTasks(t) : EdgeOf(u) \in C
      <4>1. EdgeOf(t) \in C /\ InstrOf(prog, EdgeOf(t)[2]).op = "call"
        BY <2>2, <3>1, <3>7, SameReading
      <4>2. \A u \in CalleeTasks(t) : EdgeOf(u) \in C
        BY <3>5, <3>7, <4>1, ClosedHas
      <4>3. \A u \in SkipTasks(t) : EdgeOf(u) \in C
        BY <3>5, <3>6, <3>7, <4>1, ClosedHas, SameReading
      <4> QED
        BY <3>5, <4>1, <4>2, <4>3
    <3> DEFINE New == CalleeTasks(t) \cup AfterTasks(t) \cup SkipTasks(t)
    <3>8. \A u \in New : Entering(u)
      BY <2>2, <3>2, <3>5 DEF Entering
    <3>9. Items(stack') \subseteq New \cup Items(stack)
      BY <2>1, <3>4
    <3> HIDE DEF New
    <3>10. \A C : Closed(prog, C) => \A u \in New : EdgeOf(u) \in C
      BY <3>7 DEF New
    <3> QED
      BY <2>1, <2>2, <3>1, <3>3, <3>8, <3>9, <3>10, WithinKept
  <2>6. CASE ApplySummaries(t)
    <3>1. /\ t.n \in PointOf({"call"}) /\ seen' = seen /\ leaks' = leaks
          /\ incoming' = incoming \cup {<<t.d1, t.n, t.d2, t.d3>>} /\ t.after
      BY <2>1, <2>6 DEF ApplySummaries
    <3>2. Items(stack') = SummaryTasks(t) \cup Items(Rest(t))
      BY <1>2, <2>6, Steps
    <3>3. ASSUME NEW u \in SummaryTasks(t)
          PROVE  \E x \in seen : /\ x[1] = t.d3 /\ x[2] = LastOf("f") /\ x[3] \in Node
                                 /\ ~u.after /\ u.d1 = t.d1 /\ u.n \in Succ(t.n) /\ u.d2 \in RetFlow(t.n, x[3]).to
      <4>1. \E o \in Exits(t.d3) : ~u.after /\ u.d1 = t.d1 /\ u.n \in Succ(t.n) /\ u.d2 \in RetFlow(t.n, o).to
        BY DEF SummaryTasks, Edge
      <4> QED
        BY <4>1 DEF Exits, TypeInv
    <3>4. ASSUME NEW u \in SummaryTasks(t)
          PROVE  /\ \A C : Closed(prog, C) => EdgeOf(u) \in C
                 /\ u.d1 = Zero \/ u.d2 # Zero
                 /\ ~u.after
      <4>1. PICK x \in seen : /\ x[1] = t.d3 /\ x[2] = LastOf("f") /\ x[3] \in Node
                              /\ ~u.after /\ u.d1 = t.d1 /\ u.n \in Succ(t.n) /\ u.d2 \in RetFlow(t.n, x[3]).to
        BY <3>3
      <4>2. CASE x[3] # Zero
        <5>1. RetFlow(t.n, x[3]).to = TaintedByCall(prog, EdgeOf(t), x) /\ Zero \notin RetFlow(t.n, x[3]).to
          BY <2>1, <2>2, <3>1, <4>1, <4>2, ReturnTaints
        <5>2. ASSUME NEW C, Closed(prog, C) PROVE EdgeOf(u) \in C
          <6>1. /\ EdgeOf(t) \in C /\ x \in C /\ InstrOf(prog, EdgeOf(t)[2]).op = "call" /\ x[2] = EndOfF(prog)
                /\ u.n \in SuccOf(prog, EdgeOf(t)[2]) /\ EdgeOf(u) = <<EdgeOf(t)[1], u.n, u.d2>>
            BY <2>2, <3>1, <4>1, <5>2, SameReading DEF WithinInv, PointOf
          <6> QED
            BY <4>1, <5>1, <5>2, <6>1, ClosedHas
        <5> QED
          BY <4>1, <5>1, <5>2
      <4>3. CASE x[3] = Zero
        <5>1. t.d3 = Zero /\ t.d2 = Zero
          BY <2>1, <2>2, <3>1, <4>1, <4>3, CallTaints DEF WithinInv
        <5>2. u.d2 = Zero /\ t.d1 = Zero
          BY <2>2, <4>1, <4>3, <5>1 DEF RetFlow, Keep, Effect
        <5>3. Zero \in TaintedBehind(prog, t.n, Zero) /\ InstrOf(prog, t.n).op # "ret" /\ u.n \in SuccOf(prog, t.n)
          BY <3>1, <4>1, SameReading DEF TaintedBehind, UsedAt, PointOf
        <5>4. ASSUME NEW C, Closed(prog, C) PROVE EdgeOf(u) \in C
          <6>1. EdgeOf(t) \in C /\ EdgeOf(t) = <<Zero, t.n, Zero>> /\ EdgeOf(u) = <<Zero, u.n, Zero>>
            BY <2>2, <4>1, <5>1, <5>2, <5>4
          <6> QED
            BY <5>3, <5>4, <6>1, ClosedHas
        <5> QED
          BY <4>1, <5>2, <5>4
      <4> QED
        BY <4>2, <4>3
    <3>5. \A u \in SummaryTasks(t) : Entering(u)
      BY <3>4 DEF Entering
    <3>6. Items(stack') \subseteq SummaryTasks(t) \cup Items(stack)
      BY <2>1, <3>2
    <3>7. \A C : Closed(prog, C) => \A u \in SummaryTasks(t) : EdgeOf(u) \in C
      BY <3>4
    <3> QED
      BY <2>1, <2>2, <3>1, <3>5, <3>6, <3>7, WithinKept
  <2>7. CASE ProcessExit(t)
    <3>1. /\ seen' = seen \cup {EdgeOf(t)} /\ leaks' = leaks /\ incoming' = incoming /\ Instr(t.n).op = "ret"
      BY <2>7 DEF ProcessExit
    <3>2. Items(stack') = ExitTasks(t) \cup Items(Rest(t))
      BY <1>2, <2>7, Steps
    <3>3. ASSUME NEW u \in ExitTasks(t)
          PROVE  \E c \in Callers(t) : ~u.after /\ u.d1 = c[1] /\ u.n \in Succ(c[2]) /\ u.d2 \in RetFlow(c[2], t.d2).to
      BY DEF ExitTasks, Edge
    <3>4. ASSUME NEW u \in ExitTasks(t)
          PROVE  /\ \A C : Closed(prog, C) => EdgeOf(u) \in C
                 /\ u.d1 = Zero \/ u.d2 # Zero
                 /\ ~u.after
      <4>1. PICK c \in Callers(t) : ~u.after /\ u.d1 = c[1] /\ u.n \in Succ(c[2]) /\ u.d2 \in RetFlow(c[2], t.d2).to
        BY <3>3
      <4>2. /\ c \in incoming /\ c[4] = t.d1 /\ c[2] \in PointOf({"call"}) /\ c[3] \in Node /\ t.n = LastOf("f")
            /\ c[4] \in TaintedInside(prog, c[2], c[3]) /\ (c[1] = Zero \/ c[3] # Zero)
        <5>1. t.n \in PointOf({"ret"})
          BY <2>1, <3>1 DEF PointOf
        <5> QED
          BY <2>1, <5>1, EndsOfF DEF Callers, WithinInv, TypeInv
      <4> DEFINE e == <<c[1], c[2], c[3]>>
      <4>3. CASE t.d2 # Zero
        <5>1. RetFlow(c[2], t.d2).to = TaintedByCall(prog, e, EdgeOf(t)) /\ Zero \notin RetFlow(c[2], t.d2).to
          BY <2>1, <4>2, <4>3, ReturnTaints
        <5>2. ASSUME NEW C, Closed(prog, C) PROVE EdgeOf(u) \in C
          <6>1. /\ e \in C /\ EdgeOf(t) \in C /\ InstrOf(prog, e[2]).op = "call" /\ EdgeOf(t)[2] = EndOfF(prog)
                /\ u.n \in SuccOf(prog, e[2]) /\ EdgeOf(u) = <<e[1], u.n, u.d2>>
            BY <2>2, <4>1, <4>2, <5>2, SameReading DEF WithinInv, PointOf
          <6> QED
            BY <4>1, <5>1, <5>2, <6>1, ClosedHas
        <5> QED
          BY <4>1, <5>1, <5>2
      <4>4. CASE t.d2 = Zero
        <5>1. c[4] = Zero /\ c[3] = Zero /\ c[1] = Zero
          BY <2>1, <2>2, <4>2, <4>4, CallTaints
        <5>2. u.d2 = Zero
          BY <4>1, <4>4 DEF RetFlow, Keep, Effect
        <5>3. Zero \in TaintedBehind(prog, c[2], Zero) /\ InstrOf(prog, c[2]).op # "ret" /\ u.n \in SuccOf(prog, c[2])
          BY <4>1, <4>2, SameReading DEF TaintedBehind, UsedAt, PointOf
        <5>4. ASSUME NEW C, Closed(prog, C) PROVE EdgeOf(u) \in C
          <6>1. e \in C /\ e = <<Zero, c[2], Zero>> /\ EdgeOf(u) = <<Zero, u.n, Zero>>
            BY <4>1, <4>2, <5>1, <5>2, <5>4 DEF WithinInv
          <6> QED
            BY <5>3, <5>4, <6>1, ClosedHas
        <5> QED
          BY <4>1, <5>1, <5>2, <5>4
      <4> QED
        BY <4>3, <4>4
    <3>5. \A u \in ExitTasks(t) : Entering(u)
      BY <3>4 DEF Entering
    <3>6. Items(stack') \subseteq ExitTasks(t) \cup Items(stack)
      BY <2>1, <3>2
    <3>7. \A C : Closed(prog, C) => \A u \in ExitTasks(t) : EdgeOf(u) \in C
      BY <3>4
    <3> QED
      BY <2>1, <2>2, <3>1, <3>5, <3>6, <3>7, WithinKept
  <2> QED
    BY <1>2, <2>3, <2>4, <2>5, <2>6, <2>7 DEF SolveStep
<1>3. CASE WalkBack \/ WriteOutput \/ UNCHANGED vars
  BY <1>1, <1>3 DEF WalkBack, WriteOutput, vars
<1> QED
  BY <1>2, <1>3 DEF Next, SolveStep

-----------------------------------------------------------------------------
(* What is tainted behind an instruction is not forgotten.                   *)
Followed(e) == \A m \in Succ(e[2]), y \in TaintedBehind(prog, e[2], e[3]) : Pend(e[1], m, y)
FollowedInv == NoFields(prog) => \A e \in seen : Instr(e[2]).op \notin {"call", "ret"} => Followed(e)

LEMMA FollowedStep ==
  ASSUME TypeInv, FollowedInv, [Next]_vars PROVE FollowedInv'
<1>1. /\ prog' = prog /\ \A n : Instr(n)' = Instr(n) /\ Succ(n)' = Succ(n)
      /\ \A n, d : TaintedBehind(prog, n, d)' = TaintedBehind(prog, n, d)
  BY SameProgram, SameFlows
<1>2. CASE UNCHANGED <<prog, stack, seen>>
  <2>1. \A d1, n, d2 : Pend(d1, n, d2)' <=> Pend(d1, n, d2)
    BY <1>2 DEF Pend
  <2> QED
    BY <1>1, <1>2, <2>1 DEF FollowedInv, Followed
<1>3. ASSUME stack # <<>>, NEW t \in Head(stack), SolveStep(t), NoFields(prog),
             NEW e \in seen', Instr(e[2]).op \notin {"call", "ret"}
      PROVE  Followed(e)'
  <2>1. \A d1, n, d2 : Pend(d1, n, d2) => Pend(d1, n, d2)'
    BY <1>3, Progress
  <2>2. CASE e \in seen
    <3>1. Followed(e)
      BY <1>3, <2>2 DEF FollowedInv
    <3> QED
      BY <1>1, <2>1, <3>1 DEF Followed
  <2>3. CASE e \notin seen
    <3>1. e = EdgeOf(t) /\ e[1] = t.d1 /\ e[2] = t.n /\ e[3] = t.d2
      BY <1>3, <2>3 DEF SolveStep, Known, ProcessNormal, ProcessCall, ApplySummaries, ProcessExit, EdgeOf
    <3>2. ProcessNormal(t)
      BY <1>3, <2>3, <3>1 DEF SolveStep, Known, ProcessCall, ApplySummaries, ProcessExit
    <3>3. NormalFlow(t.n, t.d2).to = TaintedBehind(prog, t.n, t.d2)
      <4>1. t.n \in Point /\ t.d2 \in Node /\ prog \in Programs
        BY <1>3, Steps DEF Task, TypeInv
      <4> QED
        BY <1>3, <3>1, <4>1, FlowWithoutFields
    <3>4. NormalTasks(t) \subseteq Items(stack')
      BY <1>3, <3>2, Steps
    <3>5. \A m \in Succ(t.n), y \in TaintedBehind(prog, t.n, t.d2) : Edge(t.d1, m, y) \in Items(stack')
      BY <3>3, <3>4 DEF NormalTasks
    <3>6. \A m \in Succ(t.n), y \in TaintedBehind(prog, t.n, t.d2) : Pend(t.d1, m, y)'
      BY <3>5 DEF Pend
    <3> QED
      BY <1>1, <3>1, <3>6 DEF Followed
  <2> QED
    BY <2>2, <2>3
<1>4. ASSUME stack # <<>>, NEW t \in Head(stack), SolveStep(t) PROVE FollowedInv'
  BY <1>1, <1>3, <1>4 DEF FollowedInv
<1>5. CASE WalkBack \/ WriteOutput \/ UNCHANGED vars
  BY <1>2, <1>5 DEF WalkBack, WriteOutput, vars
<1> QED
  BY <1>4, <1>5 DEF Next, SolveStep

(* With nothing left to do the path edges are a closed set, and what they    *)
(* use has been reported.                                                    *)
LEMMA EndIsClosed ==
  ASSUME TypeInv, SolveInv, FollowedInv, stack = <<>>, NoFields(prog)
  PROVE  Closed(prog, seen) /\ UsesIn(prog, seen) \subseteq leaks
<1>1. /\ \A d1, n, d2 : Pend(d1, n, d2) <=> <<d1, n, d2>> \in seen
      /\ \A d1, n, d2, d3 : Called(d1, n, d2, d3) <=> <<d1, n, d2, d3>> \in incoming
      /\ prog \in Programs
  BY DEF Pend, Called, Items, TypeInv
<1>2. \A e \in seen : e[2] \in Point /\ e[3] \in Node
  BY DEF TypeInv
<1>3. ASSUME NEW e \in seen, InstrOf(prog, e[2]).op # "ret",
             NEW m \in SuccOf(prog, e[2]), NEW y \in TaintedBehind(prog, e[2], e[3])
      PROVE  <<e[1], m, y>> \in seen
  <2>1. InstrOf(prog, e[2]) = Instr(e[2]) /\ m \in Succ(e[2])
    BY SameReading
  <2>2. CASE Instr(e[2]).op = "call"
    <3>1. y = e[3]
      BY <2>1, <2>2 DEF TaintedBehind, UsedAt
    <3>2. CallDone(e)
      BY <2>2 DEF SolveInv
    <3> QED
      BY <1>1, <2>1, <3>1, <3>2 DEF CallDone
  <2>3. CASE Instr(e[2]).op # "call"
    BY <1>1, <1>3, <2>1, <2>3 DEF FollowedInv, Followed
  <2> QED
    BY <2>2, <2>3
<1>4. ASSUME NEW e \in seen, InstrOf(prog, e[2]).op = "call", NEW y \in TaintedInside(prog, e[2], e[3])
      PROVE  <<y, N("f", 1), y>> \in seen /\ <<e[1], e[2], e[3], y>> \in incoming
  <2>1. e[2] \in PointOf({"call"}) /\ Instr(e[2]).op = "call"
    BY <1>2, <1>4, SameReading DEF PointOf
  <2>2. y \in CallFlow(Instr(e[2]), e[3]).to
    BY <1>1, <1>2, <2>1, CallTaints
  <2>3. CallDone(e)
    BY <2>1 DEF SolveInv
  <2> QED
    BY <1>1, <2>2, <2>3 DEF CallDone
<1>5. ASSUME NEW e \in seen, NEW x \in seen, InstrOf(prog, e[2]).op = "call", x[2] = EndOfF(prog),
             NEW m \in SuccOf(prog, e[2]), NEW y \in TaintedByCall(prog, e, x)
      PROVE  <<e[1], m, y>> \in seen
  <2>1. e[2] \in PointOf({"call"}) /\ m \in Succ(e[2]) /\ x[2] = LastOf("f")
    BY <1>2, <1>5, SameReading DEF PointOf
  <2>2. x[1] \in TaintedInside(prog, e[2], e[3])
    BY DEF TaintedByCall
  <2>3. x[3] # Zero
    <3>1. Zero # InstrOf(prog, EndOfF(prog)).val /\ Zero # Formal
      BY <1>1, EndsOfF, InstrType, SameReading DEF PointOf, Zero, Formal
    <3> QED
      BY <3>1 DEF TaintedByCall
  <2>4. y \in RetFlow(e[2], x[3]).to
    BY <1>1, <1>2, <2>1, <2>2, <2>3, ReturnTaints
  <2> DEFINE c == <<e[1], e[2], e[3], x[1]>>
  <2>5. c \in incoming /\ c[1] = e[1] /\ c[2] = e[2] /\ c[4] = x[1]
    BY <1>4, <1>5, <2>2
  <2> HIDE DEF c
  <2>6. Returned(c, x)
    BY <2>5 DEF SolveInv
  <2> QED
    BY <1>1, <2>1, <2>4, <2>5, <2>6 DEF Returned
<1>6. ASSUME NEW z \in Follows(prog, seen) PROVE z \in seen
  <2>1. CASE Starts(prog, z)
    BY <1>1, <2>1 DEF Starts, SolveInv
  <2>2. CASE \E e \in seen : Behind(prog, e, z)
    BY <1>3, <2>2 DEF Behind
  <2>3. CASE \E e \in seen : Inside(prog, e, z)
    BY <1>4, <2>3 DEF Inside
  <2>4. CASE \E e, x \in seen : Back(prog, e, x, z)
    BY <1>5, <2>4 DEF Back
  <2> QED
    BY <2>1, <2>2, <2>3, <2>4, InFollows
<1>7. ASSUME NEW e \in seen, UsedAt(prog, e[2], e[3]) PROVE e[2] \in leaks
  <2>1. Dereferences(e[2], e[3])
    BY <1>7, SameReading
  <2>2. NormalDone(e)
    BY <2>1 DEF Dereferences, SolveInv
  <2> QED
    BY <2>1, <2>2 DEF NormalDone
<1> QED
  BY <1>6, <1>7 DEF Closed, UsesIn

(* What the solver computes.                                                 *)
LeastTaint ==
  stack = <<>> /\ NoFields(prog) =>
    /\ Closed(prog, seen) /\ \A C : Closed(prog, C) => seen \subseteq C
    /\ leaks = UsesIn(prog, seen)

LEMMA SolverIsExact == Spec => [](TypeInv /\ LeastTaint)
<1>1. Init => FollowedInv
  BY DEF Init, FollowedInv
<1>2. TypeInv /\ SolveInv /\ FollowedInv /\ WithinInv => LeastTaint
  BY EndIsClosed DEF WithinInv, LeastTaint
<1> QED
  BY <1>1, <1>2, TypeInit, TypeStep, SolveInit, SolveKept, FollowedStep, WithinInit, WithinStep, PTL DEF Spec

(* Without fields the path edges that are left when the solver has finished  *)
(* are the least set that is closed under the copies of the program and has  *)
(* the tracers at their declarations, with whatever the points-to analysis   *)
(* says may alias them; the leaks are what these use: whichever order the    *)
(* facts of a set are taken in, the result is the same.                      *)
THEOREM LeastSolution == Spec => []LeastTaint
BY SolverIsExact, PTL

(* For every well-formed program without fields the leaks are the uses of    *)
(* what is tainted, no more and no fewer, as rounds over the whole program   *)
(* find it.                                                                  *)
THEOREM Exact == Spec => []LeaksFollow
<1>1. TypeInv /\ LeastTaint => LeaksFollow
  <2> SUFFICES ASSUME TypeInv, LeastTaint, stack = <<>>, NoFields(prog)
               PROVE  leaks = UsesIn(prog, Rounds[prog][Len(Rounds[prog])])
    BY DEF LeaksFollow
  <2> DEFINE last == Rounds[prog][Len(Rounds[prog])]
  <2>1. prog \in Programs /\ Closed(prog, seen) /\ leaks = UsesIn(prog, seen)
    BY DEF TypeInv, LeastTaint
  <2>2. Closed(prog, last)
    BY <2>1, RoundsFollow
  <2>3. last \subseteq seen
    BY <2>1, RoundsWithin
  <2>4. seen \subseteq last
    <3> HIDE DEF last
    <3> QED
      BY <2>2 DEF LeastTaint
  <2>5. last = seen
    <3> HIDE DEF last
    <3> QED
      BY <2>3, <2>4
  <2> QED
    BY <2>1, <2>5, Zenon
<1> QED
  BY <1>1, SolverIsExact, PTL
=============================================================================
