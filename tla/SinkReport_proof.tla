--------------------------- MODULE SinkReport_proof ---------------------------
(***************************************************************************)
(* For all well-formed programs, and whatever order the solver takes the   *)
(* facts in: what an execution of the program dereferences is reported for *)
(* the traced variables it has been copied from (the first part, about     *)
(* TracedRun: the path edges of the solver, as TaintFlow_proof knows them  *)
(* when it has nothing left to do, follow the execution); and, for all     *)
(* guards and layouts of the text, the markings of WriteOutput are what is *)
(* under the guard, and a dereference under the guard marks it.  The steps *)
(* of SinkReport are steps of TracedRun, so that what is proved of the     *)
(* latter holds here, too.                                                 *)
(***************************************************************************)
EXTENDS SinkReport, TaintFlow_proof, FiniteSetTheorems

(* A node that comes from the variable of t, on every way back.              *)
Linked(d, t) == \A T : d \in T /\ BackClosed(T, paths) => V(t.var) \in T

(* The result of an instruction is used once, behind it: it is live between. *)
Live(d, n) == d[2] > 0 => d[2] < n[2] /\ \A k \in Uses(prog, d[1], d) : n[2] <= k
Ready(d1, n, h) == <<d1, n, h[1]>> \in seen /\ Linked(h[1], h[2])

(* What can hold a traced value; the argument that f has been entered with.  *)
Holder(v) == v \in {V(x) : x \in Variables} \cup {Formal} \cup PointOf({"load", "cast", "call"})
Entered(d1) == d1 = Formal => <<Zero, caller, Instr(caller).ptr, Formal>> \in incoming

(* The path edges follow the execution: in main from the zero fact, and in f *)
(* from one of those that it has been entered with, while those of main wait *)
(* at the call.                                                              *)
MainReady(n) == <<Zero, n, Zero>> \in seen /\ \A h \in holds : ~InFrame(h[1]) /\ Live(h[1], n) => Ready(Zero, n, h)
FrameReady ==
  /\ <<Zero, at, Zero>> \in seen
  /\ \A h \in holds : InFrame(h[1]) /\ Live(h[1], at) => \E d1 \in {Zero, Formal} : Entered(d1) /\ Ready(d1, at, h)

FollowInv ==
  /\ at \in Point
  /\ \A h \in holds : h = <<h[1], h[2]>> /\ Holder(h[1]) /\ h[2] \in prog.tracers
  /\ at[1] = "main" => MainReady(at) /\ \A h \in holds : ~InFrame(h[1])
  /\ at[1] = "f" => caller \in PointOf({"call"}) /\ MainReady(caller) /\ FrameReady

(* Until the analysis has finished, the program has not started.             *)
StartInv ==
  ~written => at = N("main", 1) /\ holds = {<<V("g"), t>> : t \in {u \in prog.tracers : u = Plain("g")}}

RunInv == TypeInv /\ WalkInv /\ SolveInv /\ StartInv /\ (written => FollowInv)

LEMMA AllDone ==
  ASSUME TypeInv, written
  PROVE  /\ stack = <<>>
         /\ \A d1, n, d2 : Pend(d1, n, d2) <=> <<d1, n, d2>> \in seen
         /\ \A d1, n, d2, d3 : Called(d1, n, d2, d3) <=> <<d1, n, d2, d3>> \in incoming
<1>1. stack = <<>> /\ Items(stack) = {}
  BY DEF TypeInv, Items
<1> QED
  BY <1>1 DEF Pend, Called

LEMMA LinkedStep ==
  ASSUME NEW y, NEW d, NEW t, Linked(d, t), <<y, d>> \in paths
  PROVE  Linked(y, t)
<1>1. <<y, d>>[1] = y /\ <<y, d>>[2] = d
  OBVIOUS
<1> QED
  BY <1>1 DEF Linked, BackClosed

(* What an instruction uses is live when it comes to be executed, and of its *)
(* own function.                                                             *)
LEMMA UsedIsLive ==
  ASSUME prog \in Programs, NEW n \in Point, Instr(n).op # "alloca", NEW d \in {Instr(n).ptr, Instr(n).val}
  PROVE  /\ Live(d, n)
         /\ d[2] > 0 => d[1] = n[1]
         /\ d[2] = 0 => d \in {V(x) : x \in LocalsOf[n[1]] \cup {"g"}} \cup {Const} \cup (IF n[1] = "f" THEN {Formal} ELSE {})
<1>1. WellFormed(prog) /\ n[1] \in {"main", "f"} /\ n[2] \in DOMAIN prog.code[n[1]] /\ n[2] \in Nat
  BY ProgramsWellFormed DEF Point
<1>2. d \in Usable(n[1], n[2])
  BY InstrRules
<1>3. d[2] > 0 => Uses(prog, n[1], d) = {n[2]}
  BY InstrRules
<1>4. d[2] > 0 => \E j \in 1..n[2] - 1 : d = N(n[1], j)
  BY <1>1, <1>2 DEF Usable, V, Const, Formal
<1>5. d[2] = 0 => d \in {V(x) : x \in LocalsOf[n[1]] \cup {"g"}} \cup {Const} \cup (IF n[1] = "f" THEN {Formal} ELSE {})
  BY <1>1, <1>2 DEF Usable, N
<1>6. d[2] > 0 => d[1] = n[1] /\ d[2] < n[2]
  BY <1>1, <1>4 DEF N
<1> QED
  BY <1>1, <1>3, <1>5, <1>6 DEF Live

(* A value that is live behind an instruction was live before it and is not  *)
(* consumed by it.                                                           *)
LEMMA KeptIsLive ==
  ASSUME prog \in Programs, NEW n \in Point, Instr(n).op # "ret", NEW m \in Succ(n),
         NEW d, Holder(d), d # n, d[2] > 0 => d[1] = n[1], Live(d, m)
  PROVE  Live(d, n) /\ ~Consumed(n, d)
<1>1. WellFormed(prog) /\ n[1] \in {"main", "f"} /\ n[2] \in DOMAIN prog.code[n[1]] /\ n[2] \in Nat
      /\ n = <<n[1], n[2]>>
  BY ProgramsWellFormed DEF Point
<1>2. CASE ~(d[2] > 0)
  BY <1>2 DEF Live, Consumed
<1>3. CASE d[2] > 0
  <2>1. d \in PointOf({"load", "cast", "call"})
    BY <1>3 DEF Holder, V, Formal
  <2>2. d \in Point /\ Instr(d).op # "alloca" /\ d = <<d[1], d[2]>> /\ d[2] \in Nat
    BY <2>1 DEF PointOf, Point
  <2>3. CASE m = N(n[1], n[2] + 1)
    <3>1. m[2] = n[2] + 1
      BY <2>3 DEF N
    <3>2. d[2] < n[2] + 1 /\ \A k \in Uses(prog, d[1], d) : n[2] + 1 <= k
      BY <1>3, <3>1 DEF Live
    <3>3. d[2] < n[2]
      BY <1>1, <1>3, <2>2, <3>2
    <3>4. \A k \in Uses(prog, d[1], d) : k \in Nat
      <4>1. prog.code[d[1]] \in Seq(Instruction)
        BY <1>1, <2>2 DEF WellFormed, Point
      <4> QED
        BY <4>1 DEF Uses
    <3>5. ASSUME Consumed(n, d) PROVE FALSE
      <4>1. n[2] \in Uses(prog, d[1], d)
        BY <1>1, <1>3, <3>5 DEF Consumed, Uses, Instr
      <4> QED
        BY <1>1, <3>2, <4>1
    <3> QED
      BY <1>1, <3>2, <3>3, <3>4, <3>5 DEF Live
  <2>4. CASE m = N("main", 3) /\ Instr(n).op = "br"
    <3>1. d[2] < 3 /\ n[1] = "main"
      <4>1. n[1] = "main"
        BY <2>4, InstrRules
      <4> QED
        BY <1>1, <1>3, <2>4, <4>1 DEF Live, N
    <3>2. d[1] = "main" /\ d[2] \in DOMAIN prog.code["main"] /\ d[2] <= 2
      BY <1>3, <2>2, <3>1 DEF Point
    <3>3. Instr(d).op = "alloca"
      BY <1>1, <3>2 DEF WellFormed, Instr
    <3> QED
      BY <2>2, <3>3
  <2> QED
    BY <2>3, <2>4 DEF Succ
<1> QED
  BY <1>2, <1>3

(* What a value or variable holds after an instruction was there before, has *)
(* been copied by it, or is the variable's own tracer.                       *)
Straight(i) == Declare(i) \/ Assign(i) \/ Load(i) \/ Convert(i) \/ AddressOfField(i) \/ Pass(i)

LEMMA Transfer ==
  ASSUME prog \in Programs, FollowInv, Straight(Instr(at))
  PROVE  /\ at' \in Succ(at) /\ caller' = caller /\ Instr(at).op \notin {"call", "ret"}
         /\ \A h \in holds' :
              /\ h = <<h[1], h[2]>> /\ Holder(h[1])
              /\ \/ h \in holds /\ h[1] # at
                 \/ /\ Instr(at).op # "alloca" /\ ~GlobalOfF(h[1]) /\ h[1] \in {at, Instr(at).ptr}
                    /\ \E x \in holds : /\ h[2] = x[2] /\ h[1] \in Copies(at, x[1]) /\ ~GlobalOfF(x[1])
                                        /\ x[1] \in {Instr(at).ptr, Instr(at).val}
                 \/ /\ Instr(at).op = "alloca" /\ h[1] = Instr(at).ptr /\ h[2] = Plain(h[1][1]) /\ h[2] \in prog.tracers
<1> DEFINE i == Instr(at)
<1>1. /\ at \in Point /\ i.ptr \in Node /\ i.val \in Node /\ at[2] > 0
      /\ \A h \in holds : h = <<h[1], h[2]>> /\ Holder(h[1])
  BY InstrType DEF FollowInv, Point
<1>2. i.op # "alloca" => i.val[1] \notin Variables
  BY <1>1, InstrRules
<1>3. \A h \in holds : h[1] = at => i.op \in {"load", "cast", "call"}
  BY <1>1 DEF Holder, PointOf, V, Formal
<1>4. \A v, w : \A h \in Into(v, w) : h = <<h[1], h[2]>> /\ h[1] = v /\ \E x \in holds : x[1] = w /\ h[2] = x[2]
  BY DEF Into
<1>5. ~GlobalOfF(at) /\ (i.op \in {"load", "cast", "call"} => Holder(at))
  BY <1>1 DEF GlobalOfF, V, Holder, PointOf
<1>12. i.ptr[1] \in Variables => i.ptr[2] = 0 /\ Holder(i.ptr)
  BY <1>1 DEF Node, Variables, Holder, V
<1>6. CASE Declare(i)
  <2>1. i.op = "alloca" => i.ptr[1] \in Variables
    <3>1. i.op = "alloca" => i.ptr[1] \in {"p", "q", "a"}
      BY <1>1, InstrRules
    <3> QED
      BY <3>1 DEF Variables
  <2> QED
    BY <1>1, <1>3, <1>6, <1>12, <2>1 DEF Declare, Go, Without
<1>7. CASE Assign(i)
  <2>1. i.op = "store" /\ at' \in Succ(at) /\ caller' = caller
    BY <1>7 DEF Assign, Go
  <2>2. Copies(at, i.val) = {i.ptr} /\ ~GlobalOfF(i.val)
    BY <1>2, <2>1 DEF Copies, GlobalOfF, V, Variables
  <2>3. ASSUME NEW h \in holds', h \notin holds
        PROVE  h \in Into(i.ptr, i.val) /\ ~GlobalOfF(i.ptr) /\ i.ptr[1] \in Variables
    BY <1>7, <2>3 DEF Assign
  <2>4. ASSUME NEW h \in holds', h \notin holds
        PROVE  /\ h = <<h[1], h[2]>> /\ h[1] = i.ptr /\ ~GlobalOfF(h[1]) /\ Holder(h[1])
               /\ \E x \in holds : h[2] = x[2] /\ x[1] = i.val
    BY <1>4, <1>12, <2>3, <2>4
  <2>5. \A h \in holds : h[1] # at
    BY <1>3, <2>1
  <2> QED
    BY <1>1, <2>1, <2>2, <2>4, <2>5
<1>8. CASE Load(i)
  <2>1. i.op = "load" /\ at' \in Succ(at) /\ caller' = caller
    BY <1>8 DEF Load, Go
  <2>2. ASSUME NEW h \in holds', ~(h \in holds /\ h[1] # at)
        PROVE  h \in Into(at, i.ptr) /\ i.ptr[1] \in Variables /\ ~GlobalOfF(i.ptr)
    BY <1>8, <2>2 DEF Load, Without
  <2>4. i.ptr[2] = 0 => Copies(at, i.ptr) = {at}
    BY <2>1 DEF Copies
  <2> QED
    BY <1>1, <1>4, <1>5, <1>12, <2>1, <2>2, <2>4
<1>9. CASE Convert(i)
  <2>1. i.op = "cast" /\ at' \in Succ(at) /\ caller' = caller
    BY <1>9 DEF Convert, Go
  <2>2. ASSUME NEW h \in holds', ~(h \in holds /\ h[1] # at) PROVE h \in Into(at, i.ptr)
    BY <1>9, <2>2 DEF Convert, Without
  <2>3. Copies(at, i.ptr) = {at}
    BY <2>1 DEF Copies
  <2>4. ~GlobalOfF(i.ptr)
    <3>1. i.ptr[1] \notin Variables
      BY <1>1, <2>1, InstrRules
    <3> QED
      BY <3>1 DEF GlobalOfF, V, Variables
  <2> QED
    BY <1>1, <1>4, <1>5, <2>1, <2>2, <2>3, <2>4
<1>10. CASE AddressOfField(i)
  BY <1>1, <1>10 DEF AddressOfField, Go, Without
<1>11. CASE Pass(i)
  BY <1>1, <1>3, <1>11 DEF Pass, Go
<1> QED
  BY <1>6, <1>7, <1>8, <1>9, <1>10, <1>11 DEF Straight

(* The path edges keep up with a straight instruction. *)
LEMMA EdgesFollow ==
  ASSUME TypeInv, SolveInv, written, NEW n \in Point, Instr(n).op \notin {"call", "ret"}, NEW m \in Succ(n),
         NEW d1, NEW d, <<d1, n, d>> \in seen
  PROVE  /\ ~Consumed(n, d) => <<d1, m, d>> \in seen
         /\ \A y \in Copies(n, d) : <<d1, m, y>> \in seen /\ <<y, d>> \in paths
         /\ \A y \in Generated(n, d) : <<d1, m, y>> \in seen
<1>1. NormalDone(<<d1, n, d>>)
  BY DEF SolveInv
<1>2. \A y \in Must(n, d) : <<d1, m, y>> \in seen
  BY <1>1, AllDone DEF NormalDone
<1>3. \A y \in Copies(n, d) : <<y, d>> \in paths
  BY <1>1 DEF NormalDone
<1> QED
  BY <1>2, <1>3 DEF Must

(* What an instruction uses belongs to its function. *)
LEMMA FrameOfUse ==
  ASSUME prog \in Programs, at \in Point, NEW d, Holder(d), ~GlobalOfF(d),
         \/ d = at
         \/ Instr(at).op # "alloca" /\ d \in {Instr(at).ptr, Instr(at).val}
         \/ Instr(at).op = "alloca" /\ d = Instr(at).ptr
  PROVE  InFrame(d) <=> at[1] = "f"
<1>1. WellFormed(prog) /\ at[1] \in {"main", "f"} /\ at[2] \in DOMAIN prog.code[at[1]]
  BY ProgramsWellFormed DEF Point
<1>2. d \in {V(x) : x \in Variables} \cup {Formal} \/ (d \in Point /\ d[2] > 0)
  BY DEF Holder, PointOf, Point
<1>6. LocalsOf["main"] = {"p", "q"} /\ LocalsOf["f"] = {"a"}
  BY DEF LocalsOf
<1>7. \A x : V(x)[1] = x
  BY DEF V
<1>3. CASE d = at
  BY <1>1, <1>3 DEF InFrame, LocalsOf
<1>4. CASE Instr(at).op # "alloca" /\ d \in {Instr(at).ptr, Instr(at).val}
  <2>1. CASE d[2] > 0
    BY <1>1, <1>4, <2>1, UsedIsLive DEF InFrame, LocalsOf
  <2>2. CASE ~(d[2] > 0)
    <3>1. d[2] = 0 /\ d # Const
      BY <1>2, <2>2 DEF V, Formal, Const, Variables
    <3>2. d \in {V(x) : x \in LocalsOf[at[1]] \cup {"g"}} \cup (IF at[1] = "f" THEN {Formal} ELSE {})
      BY <1>4, <3>1, UsedIsLive
    <3>3. CASE at[1] = "main"
      BY <1>6, <1>7, <3>2, <3>3 DEF InFrame
    <3>4. CASE at[1] = "f"
      BY <1>6, <1>7, <3>2, <3>4 DEF InFrame, GlobalOfF, Formal
    <3> QED
      BY <1>1, <3>3, <3>4
  <2> QED
    BY <2>1, <2>2
<1>5. CASE Instr(at).op = "alloca" /\ d = Instr(at).ptr
  <2>1. d \in {V(x) : x \in LocalsOf[at[1]]}
    BY <1>1, <1>5, InstrRules
  <2>2. CASE at[1] = "main"
    BY <1>6, <1>7, <2>1, <2>2 DEF InFrame
  <2>3. CASE at[1] = "f"
    BY <1>6, <1>7, <2>1, <2>3 DEF InFrame
  <2> QED
    BY <1>1, <2>2, <2>3
<1> QED
  BY <1>3, <1>4, <1>5

LEMMA FrameOfResult ==
  ASSUME NEW d, Holder(d), d[2] > 0
  PROVE  d[1] = (IF InFrame(d) THEN "f" ELSE "main")
BY DEF Holder, PointOf, Point, InFrame, LocalsOf, V, Formal

LEMMA SameInRun ==
  ASSUME UNCHANGED vars
  PROVE  /\ Point' = Point /\ PointOf({"call"})' = PointOf({"call"})
         /\ \A d, n : Live(d, n)' <=> Live(d, n)
         /\ \A d, t : Linked(d, t)' <=> Linked(d, t)
         /\ \A d1, n, h : Ready(d1, n, h)' <=> Ready(d1, n, h)
         /\ \A v : Holder(v)' <=> Holder(v)
         /\ prog' = prog /\ seen' = seen /\ incoming' = incoming /\ written' = written /\ paths' = paths
         /\ \A n : Instr(n)' = Instr(n)
<1>1. prog' = prog /\ seen' = seen /\ incoming' = incoming /\ written' = written /\ paths' = paths
  BY DEF vars
<1>2. \A n : Instr(n)' = Instr(n) /\ Point' = Point
  BY <1>1 DEF Instr, Point
<1>3. \A ops : PointOf(ops)' = PointOf(ops)
  BY <1>2 DEF PointOf
<1>4. \A d, t : Linked(d, t)' <=> Linked(d, t)
  BY <1>1 DEF Linked
<1> QED
  BY <1>1, <1>2, <1>3, <1>4 DEF Live, Ready, Holder

LEMMA StraightFollows ==
  ASSUME TypeInv, SolveInv, written, FollowInv, Straight(Instr(at)), UNCHANGED vars
  PROVE  FollowInv'
<1> DEFINE i == Instr(at)
<1>1. /\ prog \in Programs /\ at \in Point /\ at' \in Succ(at) /\ caller' = caller
      /\ i.op \notin {"call", "ret"} /\ WellFormed(prog)
  BY Transfer, ProgramsWellFormed DEF TypeInv, FollowInv
<1>2. at' \in Point /\ at'[1] = at[1]
  <2>1. at' \in Point
    BY <1>1, SuccType
  <2>2. Instr(at).op = "br" => at[1] = "main"
    BY <1>1, InstrRules
  <2> QED
    BY <1>1, <2>1, <2>2 DEF Succ, N
<1>3. ASSUME NEW h \in holds' PROVE h = <<h[1], h[2]>> /\ Holder(h[1]) /\ h[2] \in prog.tracers
  BY <1>1, <1>3, Transfer DEF FollowInv
<1>4. ASSUME NEW h \in holds', ~(h \in holds /\ h[1] # at) PROVE InFrame(h[1]) <=> at[1] = "f"
  <2>1. ~GlobalOfF(h[1]) /\ (h[1] = at \/ h[1] = i.ptr)
    <3>1. i.op = "alloca" /\ h[1] = i.ptr => ~GlobalOfF(h[1])
      <4>1. i.op = "alloca" => i.ptr[1] \in {"p", "q", "a"}
        BY <1>1, InstrRules
      <4> QED
        BY <4>1 DEF GlobalOfF, V
    <3> QED
      BY <1>1, <1>4, <3>1, Transfer
  <2> QED
    BY <1>1, <1>3, <2>1, FrameOfUse
(* An edge for what is live before gives one for what is live behind.        *)
<1>5. ASSUME NEW d1, NEW h \in holds, h[1] # at, h[1][2] > 0 => h[1][1] = at[1], Live(h[1], at'),
             Ready(d1, at, h)
      PROVE  Ready(d1, at', h)
  <2>1. Live(h[1], at) /\ ~Consumed(at, h[1])
    BY <1>1, <1>5, KeptIsLive DEF FollowInv
  <2> QED
    BY <1>1, <1>5, <2>1, EdgesFollow DEF Ready
<1>6. ASSUME NEW d1, NEW h \in holds', NEW x \in holds, h[2] = x[2], h[1] \in Copies(at, x[1]), Ready(d1, at, x)
      PROVE  Ready(d1, at', h)
  <2>1. <<d1, at', h[1]>> \in seen /\ <<h[1], x[1]>> \in paths
    BY <1>1, <1>6, EdgesFollow DEF Ready
  <2> QED
    BY <1>6, <2>1, LinkedStep DEF Ready
<1>7. ASSUME NEW h \in holds', i.op = "alloca", h[1] = i.ptr, h[2] = Plain(h[1][1]), h[2] \in prog.tracers,
             <<Zero, at, Zero>> \in seen
      PROVE  Ready(Zero, at', h)
  <2>1. h[1] = V(h[2].var)
    <3>1. i.ptr \in {V(x) : x \in LocalsOf[at[1]]}
      BY <1>1, <1>7, InstrRules
    <3>2. i.ptr = V(i.ptr[1])
      BY <3>1 DEF V
    <3> QED
      BY <1>7, <3>2 DEF Plain
  <2>2. h[1] \in Generated(at, Zero)
    BY <1>7, <2>1 DEF Generated
  <2>3. <<Zero, at', h[1]>> \in seen
    BY <1>1, <1>7, <2>2, EdgesFollow
  <2> QED
    BY <2>1, <2>3 DEF Ready, Linked
<1>8. <<Zero, at, Zero>> \in seen => <<Zero, at', Zero>> \in seen
  <2>1. ~Consumed(at, Zero)
    BY DEF Consumed, Zero
  <2> QED
    BY <1>1, <2>1, EdgesFollow
<1>9. CASE at[1] = "main"
  <2>1. MainReady(at) /\ \A h \in holds : ~InFrame(h[1])
    BY <1>9 DEF FollowInv
  <2>2. \A h \in holds' : ~InFrame(h[1])
    BY <1>4, <1>9, <2>1
  <2>3. ASSUME NEW h \in holds', Live(h[1], at') PROVE Ready(Zero, at', h)
    <3>1. CASE h \in holds /\ h[1] # at
      <4>1. h[1][2] > 0 => h[1][1] = "main" /\ Live(h[1], at)
        BY <1>1, <1>3, <1>9, <2>1, <2>3, <3>1, FrameOfResult, KeptIsLive
      <4>2. Live(h[1], at)
        BY <4>1 DEF Live
      <4> QED
        BY <1>5, <1>9, <2>1, <2>3, <3>1, <4>1, <4>2 DEF MainReady
    <3>2. CASE \E x \in holds : h[2] = x[2] /\ h[1] \in Copies(at, x[1]) /\ x[1] \in {i.ptr, i.val} /\ i.op # "alloca"
      BY <1>1, <1>6, <2>1, <3>2, UsedIsLive DEF MainReady
    <3>3. CASE i.op = "alloca" /\ h[1] = i.ptr /\ h[2] = Plain(h[1][1]) /\ h[2] \in prog.tracers
      BY <1>7, <2>1, <3>3 DEF MainReady
    <3> QED
      BY <1>1, <3>1, <3>2, <3>3, Transfer
  <2>4. MainReady(at)'
    BY <1>8, <2>1, <2>3, SameInRun DEF MainReady
  <2> QED
    BY <1>2, <1>3, <1>9, <2>2, <2>4, SameInRun DEF FollowInv
<1>10. CASE at[1] = "f"
  <2>1. caller \in PointOf({"call"}) /\ MainReady(caller) /\ FrameReady
    BY <1>10 DEF FollowInv
  <2>2. MainReady(caller)'
    BY <1>1, <1>4, <1>10, <2>1, SameInRun DEF MainReady
  <2>3. ASSUME NEW h \in holds', InFrame(h[1]), Live(h[1], at')
        PROVE  \E d1 \in {Zero, Formal} : Entered(d1) /\ Ready(d1, at', h)
    <3>1. CASE h \in holds /\ h[1] # at
      <4>1. h[1][2] > 0 => h[1][1] = "f" /\ Live(h[1], at)
        BY <1>1, <1>3, <1>10, <2>3, <3>1, FrameOfResult, KeptIsLive
      <4>2. Live(h[1], at)
        BY <4>1 DEF Live
      <4> QED
        BY <1>5, <1>10, <2>1, <2>3, <3>1, <4>1, <4>2 DEF FrameReady
    <3>2. CASE \E x \in holds : /\ h[2] = x[2] /\ h[1] \in Copies(at, x[1]) /\ ~GlobalOfF(x[1])
                               /\ x[1] \in {i.ptr, i.val} /\ i.op # "alloca"
      <4>1. PICK x \in holds : /\ h[2] = x[2] /\ h[1] \in Copies(at, x[1]) /\ ~GlobalOfF(x[1])
                              /\ x[1] \in {i.ptr, i.val} /\ i.op # "alloca"
        BY <3>2
      <4>2. InFrame(x[1]) /\ Live(x[1], at)
        BY <1>1, <1>10, <4>1, FrameOfUse, UsedIsLive DEF FollowInv
      <4> QED
        BY <1>6, <2>1, <4>1, <4>2 DEF FrameReady
    <3>3. CASE i.op = "alloca" /\ h[1] = i.ptr /\ h[2] = Plain(h[1][1]) /\ h[2] \in prog.tracers
      BY <1>7, <2>1, <3>3 DEF FrameReady, Entered, Zero, Formal
    <3> QED
      BY <1>1, <3>1, <3>2, <3>3, Transfer
  <2>4. \A d1 : Entered(d1)' <=> Entered(d1)
    BY <1>1, SameInRun DEF Entered
  <2>5. FrameReady'
    BY <1>8, <2>1, <2>3, <2>4, SameInRun DEF FrameReady
  <2> QED
    BY <1>1, <1>2, <1>3, <1>10, <2>1, <2>2, <2>5, SameInRun DEF FollowInv
<1> QED
  BY <1>1, <1>9, <1>10 DEF Point

(* The callee is entered with what its argument holds. *)
LEMMA EnterFollows ==
  ASSUME TypeInv, SolveInv, written, FollowInv, Enter(Instr(at)), UNCHANGED vars
  PROVE  FollowInv'
<1> DEFINE i == Instr(at)
<1>1. /\ prog \in Programs /\ at \in PointOf({"call"}) /\ at \in Point /\ at[1] = "main" /\ i.op = "call"
      /\ i.ptr # Zero /\ i.ptr \in Node
  <2>1. prog \in Programs /\ at \in PointOf({"call"}) /\ at \in Point /\ i.op = "call"
    BY DEF TypeInv, FollowInv, Enter, PointOf
  <2> QED
    BY <2>1, EndsOfF, InstrType
<1>2. MainReady(at) /\ (\A h \in holds : ~InFrame(h[1])) /\ (\A h \in holds : h = <<h[1], h[2]>> /\ Holder(h[1]) /\ h[2] \in prog.tracers)
  BY <1>1 DEF FollowInv
<1>3. at' = N("f", 1) /\ at' \in Point /\ at'[1] = "f" /\ caller' = at
  BY <1>1, EndsOfF DEF Enter, N
<1>4. \A h \in holds' : h \in holds \/ (h = <<h[1], h[2]>> /\ h[1] = Formal /\ \E x \in holds : x[1] = i.ptr /\ h[2] = x[2])
  BY DEF Enter, Into
<1>5. ~InFrame(i.ptr) \/ \A x \in holds : x[1] # i.ptr
  BY <1>2
<1>6. <<Zero, N("f", 1), Zero>> \in seen
  <2>1. CallDone(<<Zero, at, Zero>>)
    BY <1>1, <1>2 DEF SolveInv, MainReady
  <2>2. Zero \in CallFlow(i, Zero).to
    BY <1>1 DEF CallFlow, Effect
  <2> QED
    BY <2>1, <2>2, AllDone DEF CallDone
<1>7. ASSUME NEW x \in holds, x[1] = i.ptr
      PROVE  /\ <<Formal, N("f", 1), Formal>> \in seen /\ <<Zero, at, i.ptr, Formal>> \in incoming
             /\ Linked(Formal, x[2])
  <2>1. Live(i.ptr, at)
    BY <1>1, UsedIsLive
  <2>2. <<Zero, at, i.ptr>> \in seen /\ Linked(i.ptr, x[2])
    BY <1>2, <1>7, <2>1 DEF MainReady, Ready
  <2>3. CallDone(<<Zero, at, i.ptr>>)
    BY <1>1, <2>2 DEF SolveInv
  <2>4. CallFlow(i, i.ptr).to = {Formal} /\ CallFlow(i, i.ptr).paths = {<<Formal, i.ptr>>}
    BY <1>1 DEF CallFlow, Effect
  <2>5. Pend(Formal, N("f", 1), Formal) /\ Called(Zero, at, i.ptr, Formal) /\ <<Formal, i.ptr>> \in paths
    BY <2>3, <2>4 DEF CallDone
  <2> QED
    BY <2>2, <2>5, AllDone, LinkedStep
<1>8. InFrame(Formal) /\ Holder(Formal)
  BY DEF InFrame, Holder, Formal
<1>9. MainReady(caller)'
  <2>1. \A h \in holds' : ~InFrame(h[1]) => h \in holds
    BY <1>4, <1>8
  <2>2. <<Zero, caller', Zero>> \in seen'
    BY <1>2, <1>3, SameInRun DEF MainReady
  <2>3. \A h \in holds' : ~InFrame(h[1]) /\ Live(h[1], caller') => Ready(Zero, caller', h)
    BY <1>2, <1>3, <2>1 DEF MainReady
  <2> QED
    BY <2>2, <2>3, SameInRun DEF MainReady
<1>10. FrameReady'
  <2>1. ASSUME NEW h \in holds', InFrame(h[1])
        PROVE  <<Zero, at, i.ptr, Formal>> \in incoming /\ Ready(Formal, at', h)
    <3>1. h[1] = Formal /\ \E x \in holds : x[1] = i.ptr /\ h[2] = x[2]
      BY <1>2, <1>4, <2>1
    <3> QED
      BY <1>3, <1>7, <3>1 DEF Ready
  <2>2. <<Zero, at, i.ptr, Formal>> \in incoming => Entered(Formal)'
    BY <1>3, SameInRun DEF Entered, Instr
  <2> QED
    BY <1>3, <1>6, <2>1, <2>2, SameInRun DEF FrameReady
<1>11. \A h \in holds' : h = <<h[1], h[2]>> /\ Holder(h[1]) /\ h[2] \in prog.tracers
  BY <1>2, <1>4, <1>8
<1>12. caller' \in PointOf({"call"})'
  BY <1>1, <1>3, SameInRun
<1> QED
  BY <1>3, <1>9, <1>10, <1>11, <1>12, SameInRun DEF FollowInv

(* What f returns goes to the call that it was entered by. *)
LEMMA ReturnFollows ==
  ASSUME TypeInv, SolveInv, written, FollowInv, Return(Instr(at)), UNCHANGED vars
  PROVE  FollowInv'
<1> DEFINE i == Instr(at)
<1>1. /\ prog \in Programs /\ at \in Point /\ at[1] = "f" /\ i.op = "ret" /\ at = LastOf("f")
      /\ caller \in PointOf({"call"}) /\ MainReady(caller) /\ FrameReady
      /\ \A h \in holds : h = <<h[1], h[2]>> /\ Holder(h[1]) /\ h[2] \in prog.tracers
  <2>1. prog \in Programs /\ at \in PointOf({"ret"}) /\ at[1] = "f" /\ i.op = "ret"
    BY DEF TypeInv, FollowInv, Return, PointOf
  <2> QED
    BY <2>1, EndsOfF DEF FollowInv
<1>2. /\ caller \in Point /\ caller[1] = "main" /\ Instr(caller).op = "call"
      /\ caller # Zero /\ caller[2] > 0 /\ Instr(caller).ptr # Zero
  <2>1. caller[1] = "main"
    BY <1>1, EndsOfF
  <2> QED
    BY <1>1, <2>1, InstrType DEF PointOf, Point, Zero
<1>3. at' \in Succ(caller) /\ at' \in Point /\ at'[1] = "main"
  <2>1. at' \in Succ(caller)
    BY DEF Return
  <2> QED
    BY <1>1, <1>2, <2>1, SuccType, EndsOfF DEF N
<1>4. \A h \in holds' : \/ h \in holds /\ h[1] # caller /\ ~InFrame(h[1])
                        \/ h = <<h[1], h[2]>> /\ h[1] = caller /\ \E x \in holds : x[1] = i.val /\ h[2] = x[2]
  BY DEF Return, Into, Without
<1>5. Holder(caller) /\ ~InFrame(caller)
  BY <1>1, <1>2 DEF Holder, PointOf, InFrame, LocalsOf
<1>6. \A d : <<Zero, caller, d>> \in seen => <<Zero, at', d>> \in seen
  BY <1>2, <1>3, AllDone DEF SolveInv, CallDone
<1>7. ASSUME NEW h \in holds, h[1] # caller, ~InFrame(h[1]), Live(h[1], at')
      PROVE  Ready(Zero, at', h)
  <2>1. h[1][2] > 0 => h[1][1] = "main"
    BY <1>1, <1>7, FrameOfResult
  <2>2. Live(h[1], caller)
    BY <1>1, <1>2, <1>3, <1>7, <2>1, KeptIsLive
  <2> QED
    BY <1>1, <1>6, <1>7, <2>2 DEF MainReady, Ready
<1>8. ASSUME NEW x \in holds, x[1] = i.val
      PROVE  <<Zero, at', caller>> \in seen /\ Linked(caller, x[2])
  <2>1. i.val # Zero /\ Live(i.val, at) /\ InFrame(i.val)
    <3>1. ~GlobalOfF(i.val)
      <4>1. i.val[1] \notin Variables
        BY <1>1, InstrRules
      <4> QED
        BY <4>1 DEF GlobalOfF, V, Variables
    <3> QED
      BY <1>1, <1>8, <3>1, FrameOfUse, UsedIsLive, InstrType
  <2>2. PICK d1 \in {Zero, Formal} : Entered(d1) /\ <<d1, at, i.val>> \in seen /\ Linked(i.val, x[2])
    BY <1>1, <1>8, <2>1 DEF FrameReady, Ready
  <2>3. \E d : <<Zero, caller, d, d1>> \in incoming
    <3>1. CASE d1 = Zero
      <4>1. CallDone(<<Zero, caller, Zero>>)
        BY <1>1, <1>2 DEF SolveInv, MainReady
      <4>2. Zero \in CallFlow(Instr(caller), Zero).to
        BY <1>2 DEF CallFlow, Effect
      <4> QED
        BY <3>1, <4>1, <4>2, AllDone DEF CallDone
    <3>2. CASE d1 = Formal
      BY <2>2, <3>2 DEF Entered
    <3> QED
      BY <3>1, <3>2
  <2>4. PICK d : <<Zero, caller, d, d1>> \in incoming
    BY <2>3
  <2>5. Returned(<<Zero, caller, d, d1>>, <<d1, at, i.val>>)
    BY <2>2, <2>4 DEF SolveInv
  <2>6. /\ \A y \in RetFlow(caller, i.val).to : Pend(Zero, at', y)
        /\ \A y \in RetFlow(caller, i.val).paths : y \in paths
    BY <1>1, <1>3, <2>5 DEF Returned
  <2>7. caller \in RetFlow(caller, i.val).to /\ <<caller, i.val>> \in RetFlow(caller, i.val).paths
    BY <1>1, <2>1 DEF RetFlow, Effect
  <2> QED
    BY <2>2, <2>6, <2>7, AllDone, LinkedStep
<1>9. MainReady(at)'
  <2>1. <<Zero, at', Zero>> \in seen
    BY <1>1, <1>6 DEF MainReady
  <2>2. ASSUME NEW h \in holds', Live(h[1], at') PROVE Ready(Zero, at', h)
    <3>1. CASE h \in holds /\ h[1] # caller /\ ~InFrame(h[1])
      BY <1>7, <2>2, <3>1
    <3>2. CASE h[1] = caller /\ \E x \in holds : x[1] = i.val /\ h[2] = x[2]
      BY <1>8, <3>2 DEF Ready
    <3> QED
      BY <1>4, <3>1, <3>2
  <2> QED
    BY <2>1, <2>2, SameInRun DEF MainReady
<1>10. \A h \in holds' : ~InFrame(h[1]) /\ h = <<h[1], h[2]>> /\ Holder(h[1]) /\ h[2] \in prog.tracers
  BY <1>1, <1>4, <1>5
<1> QED
  BY <1>3, <1>9, <1>10, SameInRun DEF FollowInv

(* The execution starts when the solver has finished. *)
LEMMA StartFollows ==
  ASSUME TypeInv, SolveInv, StartInv, WriteOutput, UNCHANGED run
  PROVE  FollowInv'
<1>1. /\ prog \in Programs /\ stack = <<>> /\ ~written /\ prog' = prog /\ seen' = seen /\ paths' = paths
      /\ at' = at /\ caller' = caller /\ holds' = holds
  BY DEF TypeInv, WriteOutput, run
<1>2. \A d1, n, d2 : Pend(d1, n, d2) => <<d1, n, d2>> \in seen
  BY <1>1 DEF Pend, Items
<1>3. /\ at = N("main", 1) /\ at \in Point /\ at[1] = "main"
      /\ \A h \in holds : h = <<V("g"), Plain("g")>> /\ Plain("g") \in prog.tracers
  BY <1>1, EndsOfF DEF StartInv, N
<1>4. <<Zero, at, Zero>> \in seen /\ (Plain("g") \in prog.tracers => <<Zero, at, V("g")>> \in seen)
  BY <1>2, <1>3 DEF SolveInv
<1>5. Linked(V("g"), Plain("g")) /\ Holder(V("g")) /\ ~InFrame(V("g"))
  BY DEF Linked, Plain, Holder, Variables, InFrame, LocalsOf, V
<1>6. /\ Point' = Point /\ \A n : Instr(n)' = Instr(n)
  BY <1>1 DEF Point, Instr
<1>7. \A d, t : Linked(d, t)' <=> Linked(d, t)
  BY <1>1 DEF Linked
<1>8. \A v : Holder(v)' <=> Holder(v)
  BY <1>6 DEF Holder, PointOf
<1>9. MainReady(at)'
  <2>1. \A h \in holds : Ready(Zero, at, h)
    BY <1>3, <1>4, <1>5 DEF Ready
  <2>2. \A d1, n, h : Ready(d1, n, h)' <=> Ready(d1, n, h)
    BY <1>1, <1>7 DEF Ready
  <2> QED
    BY <1>1, <1>4, <2>1, <2>2 DEF MainReady
<1>10. \A h \in holds' : ~InFrame(h[1]) /\ h = <<h[1], h[2]>> /\ Holder(h[1])' /\ h[2] \in prog'.tracers
  BY <1>1, <1>3, <1>5, <1>8
<1>11. at' \in Point' /\ at'[1] = "main"
  BY <1>1, <1>3, <1>6
<1> QED
  BY <1>9, <1>10, <1>11 DEF FollowInv

LEMMA RunStep ==
  ASSUME RunInv, [RunNext]_<<vars, run>>
  PROVE  RunInv'
<1>1. [Next]_vars
  BY DEF RunNext, Execute
<1>2. TypeInv' /\ WalkInv' /\ SolveInv'
  BY <1>1, TypeStep, WalkStep, SolveKept DEF RunInv
<1>3. CASE written
  <2>1. ~Next
    <3>1. stack = <<>> /\ Before \subseteq visited
      BY <1>3 DEF RunInv, TypeInv, WalkInv
    <3> QED
      BY <1>3, <3>1 DEF Next, WalkBack, WriteOutput
  <2>2. UNCHANGED vars /\ (Execute \/ UNCHANGED run)
    BY <1>1, <2>1 DEF RunNext, Execute, run, vars
  <2>3. written' = written
    BY <2>2 DEF vars
  <2>4. CASE Execute
    <3>1. Straight(Instr(at)) \/ Enter(Instr(at)) \/ Return(Instr(at))
      BY <2>4 DEF Execute, Straight
    <3>2. FollowInv'
      BY <1>3, <2>2, <3>1, StraightFollows, EnterFollows, ReturnFollows DEF RunInv
    <3> QED
      BY <1>2, <1>3, <2>3, <3>2 DEF RunInv, StartInv
  <2>5. CASE UNCHANGED run
    <3>1. at' = at /\ caller' = caller /\ holds' = holds
      BY <2>5 DEF run
    <3>2. FollowInv'
      <4>1. \A n : MainReady(n)' <=> MainReady(n)
        BY <2>2, <3>1, SameInRun DEF MainReady
      <4>2. \A d1 : Entered(d1)' <=> Entered(d1)
        BY <2>2, <3>1, SameInRun DEF Entered
      <4>3. FrameReady' <=> FrameReady
        BY <2>2, <3>1, <4>2, SameInRun DEF FrameReady
      <4>4. FollowInv
        BY <1>3 DEF RunInv
      <4> QED
        BY <2>2, <3>1, <4>1, <4>3, <4>4, SameInRun DEF FollowInv
    <3> QED
      BY <1>2, <1>3, <2>3, <3>2 DEF RunInv, StartInv
  <2> QED
    BY <2>2, <2>4, <2>5
<1>4. CASE ~written
  <2>1. UNCHANGED run
    BY <1>4 DEF RunNext, Execute, run
  <2>2. at' = at /\ caller' = caller /\ holds' = holds /\ prog' = prog
    BY <1>1, <2>1, SameProgram DEF run
  <2>3. StartInv'
    BY <1>4, <2>2 DEF RunInv, StartInv
  <2>4. written' => WriteOutput
    <3>1. \A t : SolveStep(t) => written' = written
      BY DEF SolveStep, Known, ProcessNormal, ProcessCall, ApplySummaries, ProcessExit
    <3>2. Next => (\E t : SolveStep(t)) \/ WalkBack \/ WriteOutput
      BY DEF Next, SolveStep
    <3>3. WalkBack \/ UNCHANGED vars => written' = written
      BY DEF WalkBack, vars
    <3> QED
      BY <1>1, <1>4, <3>1, <3>2, <3>3
  <2>5. written' => FollowInv'
    BY <1>4, <2>1, <2>4, StartFollows DEF RunInv
  <2> QED
    BY <1>2, <2>3, <2>5 DEF RunInv
<1> QED
  BY <1>3, <1>4

LEMMA RunStart ==
  ASSUME RunInit PROVE RunInv
<1>1. Init /\ ~written
  BY DEF RunInit, Init
<1> QED
  BY <1>1, TypeInit, SolveInit DEF RunInit, RunInv, WalkInv, StartInv

(* The path edge that the execution has come to makes the dereference a leak *)
(* and links it with the fact, which is linked with the tracer.              *)
LEMMA RunFinds ==
  ASSUME RunInv PROVE DereferencesFound
<1> SUFFICES ASSUME written, NEW h \in holds, Dereferences(at, h[1])
             PROVE  <<h[2], at>> \in report
  BY DEF DereferencesFound
<1> DEFINE d == h[1]
           i == Instr(at)
<1>1. /\ TypeInv /\ SolveInv /\ WalkInv /\ FollowInv /\ prog \in Programs /\ at \in Point
      /\ Holder(d) /\ h[2] \in prog.tracers
  BY DEF RunInv, TypeInv, FollowInv
<1>2. i.op \in {"lib", "load", "store"} /\ d = i.ptr
  BY DEF Dereferences
<1>3. Live(d, at) /\ ~GlobalOfF(d)
  <2>1. Live(d, at)
    BY <1>1, <1>2, UsedIsLive
  <2>2. i.op = "lib" => d[1] \notin Variables
    BY <1>1, <1>2, InstrRules
  <2>3. i.op \in {"load", "store"} => d[2] > 0
    BY <1>2 DEF Dereferences, IsA
  <2> QED
    BY <2>1, <2>2, <2>3, <1>2 DEF GlobalOfF, V, Variables
<1>4. InFrame(d) <=> at[1] = "f"
  BY <1>1, <1>2, <1>3, FrameOfUse
<1>5. \E d1 : Ready(d1, at, h)
  <2>1. CASE at[1] = "main"
    BY <1>1, <1>3, <1>4, <2>1 DEF FollowInv, MainReady
  <2>2. CASE at[1] = "f"
    BY <1>1, <1>3, <1>4, <2>2 DEF FollowInv, FrameReady
  <2> QED
    BY <1>1, <2>1, <2>2 DEF Point
<1>6. PICK d1 : <<d1, at, d>> \in seen /\ Linked(d, h[2])
  BY <1>5 DEF Ready
<1>7. NormalDone(<<d1, at, d>>)
  BY <1>1, <1>2, <1>6 DEF SolveInv
<1>8. at \in leaks /\ <<at, d>> \in paths
  BY <1>7 DEF NormalDone
<1>9. Linked(at, h[2])
  BY <1>6, <1>8, LinkedStep
<1>10. at \in WalkOf(at) /\ BackClosed(WalkOf(at), paths)
  BY <1>1, <1>8, WalkClosed
<1>11. V(h[2].var) \in WalkOf(at)
  BY <1>9, <1>10 DEF Linked
<1>12. Keys(h[2]) \cap WalkOf(at) # {}
  BY <1>11 DEF Keys
<1> QED
  BY <1>1, <1>8, <1>12, WalkClosed

(* For every well-formed program: a dereference of a pointer that has been   *)
(* copied from traced variables, on the way through variables, casts,        *)
(* arguments and results, is reported for each of them, whatever else the    *)
(* program does and in whatever order the solver has taken the facts.        *)
THEOREM Finds == RunSpec => []DereferencesFound
BY RunStart, RunStep, RunFinds, PTL DEF RunSpec
-----------------------------------------------------------------------------
(* The programs of the sink report are runs of the analysed program, and     *)
(* those are runs of the analysis.                                           *)
LEMMA SinkStepRuns == [SinkNext]_<<vars, run, sink>> => [RunNext]_<<vars, run>>
<1>1. Analyse => Next
  BY DEF Analyse, EnterCallee, Propagate, MarkTracers, Next
<1> QED
  BY <1>1 DEF SinkNext, RunNext

(* Marking what a guard has under it does not disturb the analysis nor the   *)
(* run: every behaviour of SinkReport is one of TracedRun.                   *)
THEOREM SinkImplementsRun == SinkSpec => RunSpec
<1>1. SinkInit => RunInit
  BY DEF SinkInit
<1> QED
  BY <1>1, SinkStepRuns, PTL DEF SinkSpec, RunSpec

(* And every behaviour of TracedRun is one of the analysis. *)
THEOREM RunImplementsAnalysis == RunSpec => Spec
<1>1. RunInit => Init
  BY DEF RunInit
<1>2. [RunNext]_<<vars, run>> => [Next]_vars
  BY DEF RunNext, Execute
<1> QED
  BY <1>1, <1>2, PTL DEF RunSpec, Spec

-----------------------------------------------------------------------------
(* Lines of the text. *)
LEMMA StatementType ==
  ASSUME prog \in Programs, NEW fn \in {"main", "f"}
  PROVE  /\ IsFiniteSet(Statements(fn))
         /\ Statements(fn) \subseteq Nat \ {0}
         /\ \A n \in Instructions(fn) : n \in Point /\ n[1] = fn /\ StatementOf(n) \in Statements(fn)
         /\ \A n \in Point : n[1] = fn /\ StatementOf(n) # 0 => n \in Instructions(fn)
         /\ \A n \in Point : StatementOf(n) \in Nat
<1>1. prog.code[fn] \in Seq(Instruction)
  BY ProgramsWellFormed DEF WellFormed
<1>2. DOMAIN prog.code[fn] \subseteq Nat \ {0} /\ IsFiniteSet(DOMAIN prog.code[fn])
  <2>1. DOMAIN prog.code[fn] = 1..Len(prog.code[fn]) /\ Len(prog.code[fn]) \in Int
    BY <1>1
  <2>2. IsFiniteSet(1..Len(prog.code[fn]))
    BY <2>1, FS_Interval
  <2> QED
    BY <2>1, <2>2
<1>3. \A n \in Point : StatementOf(n) \in Nat
  BY InstrType DEF StatementOf, Instruction
<1>4. ASSUME NEW n \in Instructions(fn) PROVE n \in Point /\ n[1] = fn /\ StatementOf(n) # 0
  <2>1. PICK k \in DOMAIN prog.code[fn] : n = <<fn, k>> /\ StatementOf(n) # 0
    BY <1>4 DEF Instructions, N
  <2> QED
    BY <1>2, <2>1 DEF Point
<1>5. ASSUME NEW n \in Point, n[1] = fn, StatementOf(n) # 0 PROVE n \in Instructions(fn)
  BY <1>5 DEF Instructions, Point, N
<1>6. IsFiniteSet(Statements(fn))
  <2> DEFINE K == {i \in DOMAIN prog.code[fn] : StatementOf(N(fn, i)) # 0}
             f == [i \in K |-> StatementOf(N(fn, i))]
  <2>1. IsFiniteSet(K)
    BY <1>2, FS_Subset
  <2>2. Statements(fn) = {StatementOf(N(fn, i)) : i \in K}
    BY DEF Statements, Instructions
  <2>3. f \in Surjection(K, Statements(fn))
    <3> HIDE DEF K
    <3> QED
      BY <2>2 DEF Surjection
  <2> HIDE DEF K, f
  <2> QED
    BY <2>1, <2>3, FS_Surjection
<1> QED
  BY <1>3, <1>4, <1>5, <1>6 DEF Statements

LEMMA GuardType ==
  ASSUME prog \in Programs, NEW g \in Guards
  PROVE  /\ g.fn \in {"main", "f"} /\ g.first \in Statements(g.fn) /\ g.last \in Statements(g.fn)
         /\ g.first \in Nat \ {0} /\ g.last \in Nat \ {0}
         /\ g.breaks \subseteq Statements("main") /\ IsFiniteSet(g.breaks)
<1>1. /\ g.fn \in {"main", "f"} /\ g.first \in Statements(g.fn) /\ g.last \in Statements(g.fn)
      /\ g.breaks \subseteq Statements("main")
  <2>1. PICK fn \in {"main", "f"} : \E i, j \in Statements(fn), B \in SUBSET Statements("main") :
               g = [fn |-> fn, first |-> i, last |-> j, breaks |-> B]
    BY DEF Guards
  <2> QED
    BY <2>1
<1> QED
  BY <1>1, StatementType, FS_Subset

(* A later statement is not on an earlier line. *)
LEMMA LinesAscend ==
  ASSUME prog \in Programs, NEW g \in Guards, NEW fn \in {"main", "f"}
  PROVE  /\ \A j \in Nat : LineOf(g, fn, j) \in Nat
         /\ \A i, j \in Nat : i <= j => LineOf(g, fn, i) <= LineOf(g, fn, j)
<1> DEFINE Upto(j) == {k \in g.breaks : k < j}
<1>1. IsFiniteSet(g.breaks) /\ g.breaks \subseteq Nat
  BY GuardType, StatementType
<1>2. \A j : IsFiniteSet(Upto(j)) /\ Cardinality(Upto(j)) \in Nat
  BY <1>1, FS_Subset, FS_CardinalityType
<1>3. ASSUME NEW i \in Nat, NEW j \in Nat, i <= j PROVE Cardinality(Upto(i)) <= Cardinality(Upto(j))
  <2>1. Upto(i) \subseteq Upto(j)
    BY <1>1, <1>3
  <2> HIDE DEF Upto
  <2> QED
    BY <1>2, <2>1, FS_Subset
<1> HIDE DEF Upto
<1>4. \A j : LineOf(g, fn, j) = IF fn = "f" THEN 0 ELSE 1 + Cardinality(Upto(j))
  BY DEF LineOf, Upto
<1> QED
  BY <1>2, <1>3, <1>4

(* The test of matchSourceCode takes the body, and nothing else unless the   *)
(* body shares its line.                                                     *)
LEMMA RangeIsBody ==
  ASSUME prog \in Programs, NEW g \in Guards, g.first <= g.last, NEW n \in Instructions(g.fn)
  PROVE  /\ StatementOf(n) \in g.first..g.last => InRange(g, n)
         /\ ~SharesLine(g) /\ InRange(g, n) => StatementOf(n) \in g.first..g.last
<1> DEFINE s == StatementOf(n)
           L(j) == LineOf(g, g.fn, j)
<1>1. g.fn \in {"main", "f"} /\ g.first \in Nat /\ g.last \in Nat
  BY GuardType
<1>2. n[1] = g.fn /\ s \in Statements(g.fn) /\ s \in Nat
  BY <1>1, StatementType
<1>3. \A j \in Nat : L(j) \in Nat
  BY <1>1, LinesAscend
<1>4. \A i, j \in Nat : i <= j => L(i) <= L(j)
  BY <1>1, LinesAscend
<1>5. InRange(g, n) <=> \/ L(s) > L(g.first) /\ L(s) < L(g.last)
                        \/ L(s) = L(g.first) /\ s >= g.first
                        \/ L(s) = L(g.last) /\ s <= g.last
  BY <1>2 DEF InRange
<1>6. SharesLine(g) <=> L(g.first) = L(g.last) /\ \E j \in Statements(g.fn) \ (g.first..g.last) : L(j) = L(g.first)
  BY DEF SharesLine
<1> HIDE DEF s, L
<1>7. /\ L(s) \in Nat /\ L(g.first) \in Nat /\ L(g.last) \in Nat
      /\ s <= g.first => L(s) <= L(g.first)
      /\ g.first <= s => L(g.first) <= L(s)
      /\ s <= g.last => L(s) <= L(g.last)
      /\ g.last <= s => L(g.last) <= L(s)
      /\ L(g.first) <= L(g.last)
  BY <1>1, <1>2, <1>3, <1>4
<1>8. ASSUME s \in g.first..g.last PROVE InRange(g, n)
  BY <1>1, <1>2, <1>5, <1>7, <1>8
<1>9. ASSUME ~SharesLine(g), InRange(g, n) PROVE s \in g.first..g.last
  <2>1. CASE L(g.first) = L(g.last)
    <3>1. L(s) = L(g.first)
      BY <1>5, <1>7, <1>9, <2>1
    <3> QED
      BY <1>2, <1>6, <1>9, <2>1, <3>1
  <2>2. CASE L(g.first) # L(g.last)
    BY <1>1, <1>2, <1>5, <1>7, <1>9, <2>2
  <2> QED
    BY <2>1, <2>2
<1> QED
  BY <1>8, <1>9 DEF s

-----------------------------------------------------------------------------
(* What the functions of the guard's range are; f comes behind main.         *)
MatchedOk == matched \in {<<"main">>, <<"main", "f">>}

LEMMA AppendF == Append(<<"main">>, "f") = <<"main", "f">>
<1> DEFINE a == Append(<<"main">>, "f")
           b == <<"main", "f">>
<1>1. <<"main">> \in Seq({"main", "f"}) /\ Len(<<"main">>) = 1 /\ <<"main">>[1] = "main"
  OBVIOUS
<1>2. b \in Seq({"main", "f"}) /\ Len(b) = 2 /\ b[1] = "main" /\ b[2] = "f"
  OBVIOUS
<1>3. a \in Seq({"main", "f"}) /\ Len(a) = 2 /\ a[1] = "main" /\ a[2] = "f"
  BY <1>1, AppendProperties
<1> HIDE DEF a, b
<1>4. \A i \in 1..Len(a) : a[i] = b[i]
  BY <1>2, <1>3
<1>5. a = b
  BY <1>2, <1>3, <1>4, SeqEqual
<1> QED
  BY <1>5 DEF a, b

LEMMA MatchedRange ==
  ASSUME MatchedOk, NEW t, NEW fn \in {"main", "f"}, RangeFunc(t) = fn
  PROVE  /\ \E k \in MatchedIn(t) : matched[k] = fn
         /\ fn = "main" => \A k \in MatchedIn(t) : matched[k] = "main"
<1>1. /\ DOMAIN matched \in {{1}, {1, 2}} /\ matched[1] = "main"
      /\ 2 \in DOMAIN matched => matched[2] = "f"
  <2>1. Len(<<"main">>) = 1 /\ Len(<<"main", "f">>) = 2
    OBVIOUS
  <2> QED
    BY <2>1 DEF MatchedOk
<1>2. MatchedIn(t) # {} /\ MatchedIn(t) \subseteq DOMAIN matched
  BY DEF RangeFunc, MatchedIn
<1> DEFINE IsLast(k) == k \in MatchedIn(t) /\ \A j \in MatchedIn(t) : j <= k
<1>3. \E k \in MatchedIn(t) : \A j \in MatchedIn(t) : j <= k
  <2>1. CASE 2 \in MatchedIn(t)
    BY <1>1, <1>2, <2>1
  <2>2. CASE 2 \notin MatchedIn(t)
    BY <1>1, <1>2, <2>2
  <2> QED
    BY <2>1, <2>2
<1>4. PICK k \in MatchedIn(t) : (\A j \in MatchedIn(t) : j <= k) /\ matched[k] = fn
  BY <1>2, <1>3 DEF RangeFunc
<1>5. fn = "main" => k = 1
  BY <1>1, <1>2, <1>4
<1>6. k = 1 => MatchedIn(t) \subseteq {1}
  BY <1>1, <1>2, <1>4
<1> QED
  BY <1>1, <1>4, <1>5, <1>6

(* In the call graph nothing calls main, and f is called by main alone.      *)
LEMMA CallGraph ==
  ASSUME prog \in Programs, NEW F \in SUBSET {"f", "library"}
  PROVE  /\ "main" \notin ReachableInCG(F)
         /\ "f" \in ReachableInCG(F) <=> "f" \in F
<1>1. \A n : Calls(n) \subseteq {"f", "library"}
  BY DEF Calls
<1>2. ClosedInCG({"f", "library"}) /\ ClosedInCG({"library"})
  BY <1>1 DEF ClosedInCG
<1>3. "main" \notin ReachableInCG(F)
  BY <1>2 DEF ReachableInCG
<1>4. "f" \notin F => F \subseteq {"library"}
  OBVIOUS
<1>5. "f" \notin F => "f" \notin ReachableInCG(F)
  BY <1>2, <1>4 DEF ReachableInCG
<1>6. "f" \in F => "f" \in ReachableInCG(F)
  BY DEF ReachableInCG
<1> QED
  BY <1>3, <1>5, <1>6

(* A leak that is under the guard is found, and unless the body shares its   *)
(* line only such a leak is.                                                 *)
LEMMA SinkIsUnder ==
  ASSUME prog \in Programs, MatchedOk, NEW g \in Guards, g.first <= g.last,
         NEW t \in Tracers(g), RangeFunc(t) = g.fn, NEW n \in Point
  PROVE  /\ Under(g, n) => SinkInRange(g, t, n)
         /\ ~SharesLine(g) /\ SinkInRange(g, t, n) => Under(g, n)
<1>1. g.fn \in {"main", "f"} /\ g.first \in Nat \ {0} /\ g.last \in Nat \ {0} /\ n[1] \in {"main", "f"}
  BY GuardType DEF Point
<1>2. /\ \E k \in MatchedIn(t) : matched[k] = g.fn
      /\ g.fn = "main" => \A k \in MatchedIn(t) : matched[k] = "main"
  BY <1>1, MatchedRange
<1>3. \A m \in InstsInRange(g, t) : \E k \in MatchedIn(t) : m \in Instructions(matched[k]) /\ InRange(g, m)
  BY DEF InstsInRange
<1>4. \A m \in Instructions(g.fn) : InRange(g, m) => m \in InstsInRange(g, t)
  BY <1>2 DEF InstsInRange
<1>5. \A m \in Point : m[1] = g.fn /\ StatementOf(m) \in g.first..g.last => m \in Instructions(g.fn)
  BY <1>1, StatementType
<1>6. CASE n[1] = g.fn
  <2>1. SinkInRange(g, t, n) <=> n \in InstsInRange(g, t)
    BY <1>6 DEF SinkInRange
  <2>2. Under(g, n) <=> StatementOf(n) \in g.first..g.last
    BY <1>6 DEF Under
  <2>3. Under(g, n) => SinkInRange(g, t, n)
    BY <1>4, <1>5, <1>6, <2>1, <2>2, RangeIsBody
  <2>4. ASSUME ~SharesLine(g), SinkInRange(g, t, n) PROVE Under(g, n)
    <3>1. InRange(g, n) /\ StatementOf(n) # 0
      <4>1. PICK k \in MatchedIn(t) : n \in Instructions(matched[k]) /\ InRange(g, n)
        BY <1>3, <2>1, <2>4
      <4> QED
        BY <4>1 DEF Instructions
    <3>2. n \in Instructions(g.fn)
      BY <1>1, <1>6, <3>1, StatementType
    <3> QED
      BY <2>2, <2>4, <3>1, <3>2, RangeIsBody
  <2> QED
    BY <2>3, <2>4
<1>7. CASE n[1] # g.fn
  <2> DEFINE F == UNION {Calls(m) : m \in InstsInRange(g, t)}
  <2>1. SinkInRange(g, t, n) <=> n[1] \in ReachableInCG(F)
    BY <1>2, <1>7 DEF SinkInRange
  <2>2. F \in SUBSET {"f", "library"} /\ ("f" \in F <=> \E m \in InstsInRange(g, t) : IsA("call", m))
    <3>1. \A m : Calls(m) \subseteq {"f", "library"} /\ ("f" \in Calls(m) <=> IsA("call", m))
      BY DEF Calls, IsA
    <3> QED
      BY <3>1
  <2> HIDE DEF F
  <2>3. "main" \notin ReachableInCG(F) /\ ("f" \in ReachableInCG(F) <=> "f" \in F)
    BY <2>2, CallGraph
  <2>4. CASE n[1] = "main"
    BY <1>7, <2>1, <2>3, <2>4 DEF Under
  <2>5. CASE n[1] = "f"
    <3>1. g.fn = "main"
      BY <1>1, <1>7, <2>5
    <3>2. SinkInRange(g, t, n) <=> \E m \in InstsInRange(g, t) : IsA("call", m)
      BY <2>1, <2>2, <2>3, <2>5
    <3>3. Under(g, n) <=> \E m \in Instructions("main") : IsA("call", m) /\ StatementOf(m) \in g.first..g.last
      BY <1>7, <2>5, <3>1 DEF Under
    <3>4. \A m \in InstsInRange(g, t) : m \in Instructions("main") /\ InRange(g, m)
      BY <1>2, <1>3, <3>1
    <3> QED
      BY <1>4, <3>1, <3>2, <3>3, <3>4, RangeIsBody
  <2> QED
    BY <1>1, <2>4, <2>5
<1> QED
  BY <1>6, <1>7

-----------------------------------------------------------------------------
(* WriteOutput marks what is in the range, and nothing moves afterwards.     *)
SinkInv ==
  /\ MatchedOk
  /\ written =>
       /\ guard \in Guards /\ guard.first <= guard.last
       /\ marked = {t \in Tracers(guard) : \E n \in leaks : <<t, n>> \in report /\ SinkInRange(guard, t, n)}

LEMMA SameSink ==
  ASSUME prog' = prog, matched' = matched
  PROVE  /\ Guards' = Guards
         /\ \A g : Tracers(g)' = Tracers(g)
         /\ \A g, t, n : SinkInRange(g, t, n)' <=> SinkInRange(g, t, n)
<1>1. \A n : Instr(n)' = Instr(n)
  BY DEF Instr
<1>2. \A n : StatementOf(n)' = StatementOf(n)
  BY <1>1 DEF StatementOf
<1>3. \A fn : Instructions(fn)' = Instructions(fn)
  BY <1>2 DEF Instructions
<1>4. \A fn : Statements(fn)' = Statements(fn)
  BY <1>2, <1>3 DEF Statements
<1>5. \A g, n : InRange(g, n)' <=> InRange(g, n)
  BY <1>2 DEF InRange
<1>6. \A t : MatchedIn(t)' = MatchedIn(t)
  BY DEF MatchedIn
<1>7. \A t : RangeFunc(t)' = RangeFunc(t)
  BY DEF RangeFunc, MatchedIn
<1>8. \A g, t : InstsInRange(g, t)' = InstsInRange(g, t)
  BY <1>3, <1>5, <1>6 DEF InstsInRange
<1>9. \A n : Calls(n)' = Calls(n)
  BY <1>1 DEF Calls, IsA
<1>10. \A G : ClosedInCG(G)' <=> ClosedInCG(G)
  BY <1>3, <1>9 DEF ClosedInCG
<1>11. \A F : ReachableInCG(F)' = ReachableInCG(F)
  BY <1>10 DEF ReachableInCG
<1>12. \A g, t, n : SinkInRange(g, t, n)' <=> SinkInRange(g, t, n)
  BY <1>7, <1>8, <1>9, <1>11 DEF SinkInRange
<1>13. Guards' = Guards
  BY <1>4 DEF Guards
<1>14. \A g : Tracers(g)' = Tracers(g)
  BY DEF Tracers
<1> QED
  BY <1>12, <1>13, <1>14

LEMMA SinkStart ==
  ASSUME SinkInit PROVE SinkInv
BY DEF SinkInit, SinkInv, MatchedOk, RunInit, Init

LEMMA SinkStep ==
  ASSUME RunInv, SinkInv, [SinkNext]_<<vars, run, sink>>
  PROVE  SinkInv'
<1>1. CASE UNCHANGED <<vars, sink>>
  <2>1. /\ prog' = prog /\ leaks' = leaks /\ report' = report /\ written' = written
        /\ matched' = matched /\ guard' = guard /\ marked' = marked
    BY <1>1 DEF vars, sink
  <2> QED
    BY <2>1, SameSink DEF SinkInv, MatchedOk
<1>2. CASE MarkTracers
  <2>1. prog' = prog /\ leaks' = leaks /\ matched' = matched
    BY <1>2 DEF MarkTracers, WriteOutput
  <2>2. guard' \in Guards /\ guard'.first <= guard'.last
    BY <1>2 DEF MarkTracers
  <2>3. marked' = {t \in Tracers(guard') : \E n \in leaks : <<t, n>> \in report' /\ SinkInRange(guard', t, n)}
    BY <1>2 DEF MarkTracers
  <2>4. /\ Guards' = Guards
        /\ \A g : Tracers(g)' = Tracers(g)
        /\ \A g, t, n : SinkInRange(g, t, n)' <=> SinkInRange(g, t, n)
    BY <2>1, SameSink
  <2>5. Tracers(guard)' = Tracers(guard')
    BY <2>1 DEF Tracers
  <2>6. \A t, n : SinkInRange(guard, t, n)' <=> SinkInRange(guard', t, n)
    BY <2>4
  <2> QED
    BY <2>1, <2>2, <2>3, <2>4, <2>5, <2>6 DEF SinkInv, MatchedOk
<1>3. CASE stack # <<>> /\ \E t \in Head(stack) : EnterCallee(t) \/ Propagate(t)
  <2>1. PICK t \in Head(stack) : EnterCallee(t) \/ Propagate(t)
    BY <1>3
  <2>2. ~written /\ written' = written
    <3>1. ~written
      BY <1>3 DEF RunInv, TypeInv
    <3>2. written' = written
      BY <2>1 DEF EnterCallee, Propagate, Known, ProcessNormal, ProcessCall, ApplySummaries, ProcessExit
    <3> QED
      BY <3>1, <3>2
  <2>3. MatchedOk'
    <3>1. CASE EnterCallee(t)
      <4>1. CASE matched = <<"main">>
        BY <3>1, <4>1, AppendF DEF EnterCallee, MatchedOk
      <4>2. CASE matched = <<"main", "f">>
        <5>1. <<"main", "f">>[2] = "f" /\ Len(<<"main", "f">>) = 2
          OBVIOUS
        <5> QED
          BY <3>1, <4>2, <5>1 DEF EnterCallee, MatchedOk
      <4> QED
        BY <4>1, <4>2 DEF SinkInv, MatchedOk
    <3>2. CASE Propagate(t)
      BY <3>2 DEF Propagate, sink, SinkInv, MatchedOk
    <3> QED
      BY <2>1, <3>1, <3>2
  <2> QED
    BY <2>2, <2>3 DEF SinkInv
<1>4. CASE WalkBack /\ UNCHANGED sink
  <2>1. ~written /\ written' = written
    BY <1>4 DEF WalkBack, RunInv, WalkInv
  <2>2. MatchedOk'
    BY <1>4 DEF sink, SinkInv, MatchedOk
  <2> QED
    BY <2>1, <2>2 DEF SinkInv
<1>5. CASE Execute /\ UNCHANGED sink
  BY <1>1, <1>5 DEF Execute, vars, sink
<1> QED
  BY <1>1, <1>2, <1>3, <1>4, <1>5 DEF SinkNext, Analyse, vars, run, sink

LEMMA SinkRunInv == SinkSpec => [](RunInv /\ SinkInv)
<1>1. SinkInit => RunInv /\ SinkInv
  BY RunStart, SinkStart DEF SinkInit
<1>2. RunInv /\ SinkInv /\ [SinkNext]_<<vars, run, sink>> => (RunInv /\ SinkInv)'
  BY SinkStepRuns, RunStep, SinkStep
<1> QED
  BY <1>1, <1>2, PTL DEF SinkSpec

(* A traced variable of a guard is marked exactly if a leak blamed on it is  *)
(* under the guard, however the text is laid out, but for a body that shares *)
(* its line and a global variable of which the range is in another function. *)
THEOREM Marks == SinkSpec => []MarkedIffSinkUnder
<1>1. RunInv /\ SinkInv => MarkedIffSinkUnder
  <2> SUFFICES ASSUME RunInv, SinkInv, written, ~SharesLine(guard),
                      NEW t \in Tracers(guard), RangeFunc(t) = guard.fn
               PROVE  t \in marked <=> \E n \in leaks : <<t, n>> \in report /\ Under(guard, n)
    BY DEF MarkedIffSinkUnder
  <2>1. prog \in Programs /\ leaks \subseteq Point
    BY DEF RunInv, TypeInv, PointOf
  <2>2. \A n \in leaks : Under(guard, n) <=> SinkInRange(guard, t, n)
    BY <2>1, SinkIsUnder DEF SinkInv
  <2> QED
    BY <2>2 DEF SinkInv
<1> QED
  BY <1>1, SinkRunInv, PTL

(* A guard whose body dereferences, itself or in a function it calls, what   *)
(* was copied from a traced variable of the guard, is reported: for all      *)
(* programs, layouts and orders in which the solver takes the facts.         *)
THEOREM GuardedFinds == SinkSpec => []GuardedDereferencesFound
<1>1. RunInv /\ SinkInv => GuardedDereferencesFound
  <2> SUFFICES ASSUME RunInv, SinkInv, written, NEW h \in holds, Dereferences(at, h[1]), Under(guard, at),
                      h[2] \in Tracers(guard), RangeFunc(h[2]) = guard.fn
               PROVE  h[2] \in marked
    BY DEF GuardedDereferencesFound
  <2>1. <<h[2], at>> \in report
    BY RunFinds DEF DereferencesFound
  <2>2. prog \in Programs /\ at \in Point /\ at \in leaks
    BY <2>1 DEF RunInv, TypeInv, FollowInv
  <2>3. SinkInRange(guard, h[2], at)
    BY <2>2, SinkIsUnder DEF SinkInv
  <2> QED
    BY <2>1, <2>2, <2>3 DEF SinkInv
<1> QED
  BY <1>1, SinkRunInv, PTL
=============================================================================
