---------------------------- MODULE ConditionText ----------------------------
(***************************************************************************)
(* Expressions on their way through the tools.  Clang parses the condition *)
(* of a statement into a tree (an expression); the tokenizer of the AST    *)
(* matcher turns it into tokens, which keep of an integer literal one      *)
(* decimal number without its type and of parentheses nothing; and the     *)
(* compiler of the instrumented program reads the tokens as C again.       *)
(*                                                                         *)
(* An expression is a literal [op, type, val], an access or a call         *)
(* [op, toks], or a binary operation [op, l, r].  A token is [t, val];     *)
(* val is the number of a literal and tells variables of a kind apart.     *)
(***************************************************************************)
EXTENDS Numbers, Sequences
-----------------------------------------------------------------------------
(* The binary operators of the grammar: their tokens, and how tightly they   *)
(* bind in C.                                                                *)
TokenOf ==
  [op \in {"||", "&&", "==", "!=", "<", ">=", "+", "-", "*", "/"} |->
     CASE op = "||" -> "t_or"   [] op = "&&" -> "t_and"
       [] op = "==" -> "t_eqEq" [] op = "!=" -> "t_nEq"
       [] op = "<" -> "t_les"   [] op = ">=" -> "t_gtrEq"
       [] op = "+" -> "t_plus"  [] op = "-" -> "t_minus"
       [] op = "*" -> "t_mult"  [] op = "/" -> "t_div"]
Operators == DOMAIN TokenOf
OperatorTokens == {TokenOf[op] : op \in Operators}
Logical == {"||", "&&"}
Arithmetics == {"+", "-", "*", "/"}
Comparisons == Operators \ (Logical \cup Arithmetics)

Binding ==
  [op \in Operators |->
     CASE op = "||" -> 1 [] op = "&&" -> 2 [] op \in {"==", "!="} -> 3
       [] op \in {"<", ">="} -> 4 [] op \in {"+", "-"} -> 5 [] op \in {"*", "/"} -> 6]
OperatorOf == [t \in OperatorTokens |-> CHOOSE op \in Operators : TokenOf[op] = t]

Literal(v) == [t |-> IF v = 0 THEN "t_null" ELSE "t_litNum", val |-> v]

(* The visitors of expressions, in a valid context.                          *)
RECURSIVE TokensOf(_)
TokensOf(e) ==
  CASE e.op = "lit" -> <<Literal(SExtValue(e))>>
    [] e.op = "leaf" -> e.toks
    [] OTHER -> TokensOf(e.l) \o <<[t |-> TokenOf[e.op], val |-> 0]>> \o TokensOf(e.r)
-----------------------------------------------------------------------------
(* C: split at the last of the operators that bind least.                    *)
RECURSIVE ReadText(_)
ReadText(toks) ==
  LET at == {i \in DOMAIN toks : toks[i].t \in OperatorTokens}
      BindingAt(i) == Binding[OperatorOf[toks[i].t]]
      split == CHOOSE i \in at : \A j \in at : /\ BindingAt(i) <= BindingAt(j)
                                               /\ j > i => BindingAt(i) < BindingAt(j)
  IN IF at # {}
     THEN [op |-> OperatorOf[toks[split].t], l |-> ReadText(SubSeq(toks, 1, split - 1)),
           r |-> ReadText(SubSeq(toks, split + 1, Len(toks)))]
     ELSE IF Len(toks) = 1 /\ toks[1].t \in {"t_null", "t_litNum"}
     THEN ReadNumber(toks[1].val)
     ELSE [op |-> "leaf", toks |-> toks]

(* An expression with its literals as they are read back.                    *)
RECURSIVE Reread(_)
Reread(e) ==
  CASE e.op = "lit" -> ReadNumber(SExtValue(e))
    [] e.op = "leaf" -> e
    [] OTHER -> [op |-> e.op, l |-> Reread(e.l), r |-> Reread(e.r)]
-----------------------------------------------------------------------------
(* What an expression can evaluate to when its variables have the value x.   *)
RECURSIVE Results(_, _)
Results(e, x) ==
  CASE e.op = "lit" -> {[type |-> e.type, val |-> e.val]}
    [] e.op = "leaf" -> {x}
    [] OTHER -> UNION {Operation(e.op, a, b) : a \in Results(e.l, x), b \in Results(e.r, x)}
=============================================================================
