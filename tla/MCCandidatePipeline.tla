------------------------ MODULE MCCandidatePipeline ------------------------
(* Instances of CandidatePipeline for TLC: files with one statement for the  *)
(* conditions, and files with nested statements for the text.                *)
EXTENDS CandidatePipeline, MatchGrammar

File(root, layout, copies) == [root |-> root, layout |-> layout, copies |-> copies]
Leaf(kinds) == [op |-> "leaf", toks |-> [i \in DOMAIN kinds |-> [t |-> kinds[i], val |-> i]]]
Lit(type, v) == [op |-> "lit", type |-> type, val |-> v]
Op(op, a, b) == [op |-> op, l |-> a, r |-> b]

Simple(kind) == Statement(kind, NoExpr, <<>>, <<>>)
Block(body) == Statement("block", NoExpr, body, <<>>)
Control(kind, e, body) == Statement(kind, e, <<body>>, <<>>)
IfElse(e, then, else) == Statement("if", e, <<then>>, <<else>>)
Function(body) == File(Block(body), "lines", 1)

Num == Leaf(<<"t_num">>)
Ptr == Leaf(<<"t_ptrVar">>)
NumField == Leaf(<<"t_ptrVar", "t_derefFieldAcc", "t_num">>)
PtrField == Leaf(<<"t_var", "t_fieldAcc", "t_ptrVar">>)
CallNum == Leaf(<<"t_function", "t_parenL", "t_num", "t_parenR">>)
Const == Leaf(<<"t_const">>)

(* One comparison, with at most one arithmetic operator on one side.         *)
Leaves == {Num, Ptr, NumField, PtrField, CallNum, Lit("int", 0), Lit("int", 1)}
Simples == {Op(op, a, b) : op \in {"<", "==", "!="}, a \in Leaves \cup {Const}, b \in Leaves}
Sums == {Op("+", a, b) : a \in Leaves, b \in Leaves}
Summed == {Op("<", a, b) : a \in {Num, PtrField}, b \in Sums} \cup
          {Op("!=", a, b) : a \in Sums, b \in {Ptr, NumField}} \cup
          {Op("+", Op("<", a, b), c) : a \in {Num, Ptr}, b \in {Num, Ptr}, c \in {Num, Lit("int", 1)}}

(* Chains of clauses with no, one and two variables that can be traced.      *)
Pieces == {Op("!=", PtrField, Lit("int", 0)), Op("<", Ptr, Op("+", Ptr, Num)), Op("<", Num, Lit("int", 1)),
           Op("==", CallNum, Lit("int", 1)), Op("==", Lit("int", 0), Ptr), Op("<", NumField, Num)}
Pairs(op) == {Op(op, a, b) : a \in Pieces, b \in Pieces}
Chains == UNION {Pairs(op) \cup {Op(op, a, b) : a \in Pairs(op), b \in {Op("<", NumField, Num), Op("==", Ptr, Lit("int", 0))}}
                   : op \in Logical}
          \cup {Op("&&", Op("!=", Ptr, Lit("int", 0)), b) : b \in Pairs("&&")}

Assigned == {Statement("assign", e, <<>>, <<>>) : e \in {Num, PtrField, Const}}
Long == Block(<<Simple("call"), Simple("call"), Simple("call"), Simple("return")>>)
Single ==
  {Control("if", e, body) : e \in Simples \cup Summed, body \in Assigned \cup {Simple("return")}} \cup
  {Control("if", e, body) : e \in Chains,
                            body \in Assigned \cup {Block(<<Simple("call"), Simple("return")>>), Block(<<Simple("call")>>)}} \cup
  {Control(kind, Op("&&", a, Op("<", Num, Num)), body) :
     kind \in {"if", "while", "for"}, a \in Pieces, body \in {Simple("skip"), Simple("call"), Long}} \cup
  {Control("if", Op("&&", a, Op("<", Num, Num)), body) : a \in Simples, body \in {Simple("skip"), Simple("call")}}

(* Literals at the ends of the types, alone and in arithmetic.               *)
Literals == {Lit(t, v) : t \in Types, v \in {0, 1, 3, 7, 32, 63}} \cap {[op |-> "lit"] @@ e : e \in Values}
LiteralConditions ==
  {Op(op, Num, e) : op \in {"<", ">=", "=="}, e \in Literals} \cup
  {Op("<", Num, Op(arith, a, b)) : arith \in Arithmetics, a \in Literals, b \in Literals}

(* Statements in statements.                                                 *)
Both == Op("&&", Op("!=", Ptr, Lit("int", 0)), Op("<", Num, Num))
Bodies == {Simple("return"), Simple("call"), Block(<<Simple("call")>>), Block(<<Simple("return")>>)}
Inner ==
  {Control("if", e, body) : e \in {Both, Op("<", Num, Num)}, body \in Bodies \cup Assigned} \cup
  {Control("while", Both, body) : body \in Bodies} \cup
  {IfElse(Both, then, else) : then \in {Simple("call"), Block(<<Simple("call")>>)},
                              else \in {Simple("call"), Block(<<Simple("call")>>)}}
Outer ==
  {Control(kind, Both, Block(<<s, Simple("call")>>)) : kind \in {"if", "while", "for"}, s \in Inner} \cup
  {Control("if", Both, s) : s \in Inner} \cup
  {IfElse(Both, Block(<<s>>), Block(<<Simple("call")>>)) : s \in Inner} \cup
  {IfElse(Op("<", Num, Num), Block(<<Simple("call")>>), s) : s \in Inner}

MCSources ==
  {Function(<<s>>) : s \in Single} \cup
  {Function(<<Control("if", e, Simple("return"))>>) : e \in LiteralConditions} \cup
  {Function(<<s, Simple("call")>>) : s \in Outer} \cup
  {File(Block(<<s, t>>), layout, copies) :
     s \in Inner, t \in {Control("if", Both, Simple("call"))}, layout \in {"lines", "oneline"}, copies \in {1, 2}}

NestedSources == {Function(<<s, Simple("call")>>) : s \in Outer}
=============================================================================
