-------------------------- MODULE CandidatePipeline --------------------------
(***************************************************************************)
(* A source file on its way through the tools: its statements are parsed   *)
(* by the AST matcher (tokenizer.cpp), the candidates become a list and    *)
(* are prepared (CandidateList), the mutant locator makes text operations  *)
(* of them (nullCheckML.cpp), and the rewriter applies these (inject.py,   *)
(* rewriter.cpp).                                                          *)
(*                                                                         *)
(* A file is [root, layout, copies]: the body of a function, how its text  *)
(* is laid out and how often it is compiled.                               *)
(***************************************************************************)
EXTENDS SourceText, PatternGrammar, Rewriter, FiniteSetsExt

(* The values of Statements and of Words.                                    *)
StatementsOf(file) == Range(Nodes(file.root, 1, file.layout))
WordsOf(file) == Text(file.root, 1, file.layout)
-----------------------------------------------------------------------------
(* What one process of the matcher prints for a file: the value of Lines.    *)
Line(node, toks, parses) ==
  LET parse == CHOOSE p \in parses : TRUE
  IN IF parses = {} THEN <<>>
     ELSE <<[pattern |-> parse.pattern, node |-> node, orders |-> 0..Len(toks) - 1,
             ids |-> {[tag |-> g.tag, order |-> g.order, crash |-> FALSE] : g \in parse.tags}]>>

LinesOf(file) ==
  LET nodes == Nodes(file.root, 1, file.layout)
      toks == [k \in DOMAIN nodes |-> Stream(nodes[k].stmt)]
  IN FlattenSeq([k \in DOMAIN nodes |-> Line(nodes[k], toks[k], Parses(toks[k]))])
-----------------------------------------------------------------------------
(* getConds: the text of the clauses of a type.                              *)
Conds(c, type) ==
  LET chosen == {clause \in Clauses(c) : type = "ALL" \/ HasTrace(c, clause) = (type = "TRACE")}
      from == Min({clause[1] : clause \in chosen})
      orders == UNION {clause[1]..clause[2] - 1 : clause \in chosen}
                \ (IF from > 1 THEN {from} ELSE {})
      toks == Stream(c.node.stmt)
      numbers == SelectSeq([k \in DOMAIN toks |-> k], LAMBDA k : k - 1 \in orders \cap c.orders)
  IN IF chosen = {} THEN <<>> ELSE [k \in DOMAIN numbers |-> toks[numbers[k]]]
-----------------------------------------------------------------------------
(* The text that the rewriter writes.                                        *)
Written ==
  FoldLeft(LAMBDA text, k : text \o buffer.inserted[Before(k)]
                            \o (IF k \in buffer.removed THEN <<>> ELSE <<FileText[k]>>)
                            \o buffer.inserted[After(k)],
           <<>>, [k \in DOMAIN FileText |-> k])
-----------------------------------------------------------------------------
(* What the properties are about.                                            *)

(* The clauses of a condition as they stand in the source, and where the     *)
(* tokens of each begin.                                                     *)
RECURSIVE Chain(_)
Chain(e) == IF e.op \in Logical THEN Chain(e.l) \o Chain(e.r) ELSE <<e>>
ClauseBegin(chain, n) ==
  1 + FoldLeft(LAMBDA sum, e : sum + Len(TokensOf(e)) + 1, 0, SubSeq(chain, 1, n - 1))
ClauseDropped(c, n) ==
  LET chain == Chain(c.node.stmt.expr)
      begin == ClauseBegin(chain, n)
  IN \E order \in Crashed(c) : order >= begin /\ order < begin + Len(TokensOf(chain[n]))
ClausesWhere(c, dropped) ==
  LET chain == Chain(c.node.stmt.expr)
      numbers == SelectSeq([n \in DOMAIN chain |-> n], LAMBDA n : ClauseDropped(c, n) \in dropped)
  IN [k \in DOMAIN numbers |-> Reread(chain[numbers[k]])]

(* Parentheses around a comparison are lost.                                 *)
RECURSIVE NeedsParentheses(_)
NeedsParentheses(e) ==
  e.op \in Operators /\
    \/ \E f \in {e.l, e.r} : f.op \in Operators /\ Binding[f.op] < Binding[e.op]
    \/ NeedsParentheses(e.l) \/ NeedsParentheses(e.r)

ReadConds(c, type) == LET toks == Conds(c, type) IN IF toks = <<>> THEN <<>> ELSE Chain(ReadText(toks))

(* The statement s at a position, as it should read after the injection of   *)
(* the candidates, when the triage or the fuzzing build is compiled.         *)
CandidatesAt(at) == {k \in DOMAIN candidates : candidates[k].node.start = at}

RECURSIVE Injected(_, _, _), InjectedAll(_, _, _)
Injected(s, at, triage) ==
  LET here == CandidatesAt(at)
      k == CHOOSE x \in here : TRUE
      then == Injected(s.body[1], at + 4, triage)
      check == here # {} /\ triage /\ HasCheck(candidates[k])
      body == CASE check /\ IsCompound(s.body[1]) -> <<Head(then), <<"check", k>>>> \o Tail(then)
                [] check /\ ~IsCompound(s.body[1]) -> <<<<"{", 0>>, <<"check", k>>>> \o then \o Word1("}")
                [] OTHER -> then
      cond == IF here = {} THEN <<"cond", at>> ELSE IF triage THEN <<"triage", k>> ELSE <<"fuzz", k>>
      whole == <<<<s.kind, 0>>, <<"(", 0>>, cond, <<")", 0>>>> \o body
               \o (IF s.else = <<>> THEN <<>>
                   ELSE Word1("else") \o
                        Injected(s.else[1], at + 5 + Len(Text(s.body[1], at + 4, source.layout)), triage))
  IN CASE IsControl(s) ->
            IF here # {} /\ triage THEN <<<<"{", 0>>, <<"note", k>>>> \o whole \o Word1("}") ELSE whole
       [] IsCompound(s) ->
            Word1("{") \o InjectedAll(s.body, at + 1 + Len(EndOfLine(source.layout)), triage) \o Word1("}")
       [] OTHER -> Unbroken(Text(s, at, source.layout))
InjectedAll(body, at, triage) ==
  IF body = <<>> THEN <<>>
  ELSE Injected(Head(body), at, triage)
       \o InjectedAll(Tail(body), at + Len(Text(Head(body), at, source.layout)), triage)

ReadsAs(triage) ==
  ~buffer.garbled /\ Preprocess(Written, triage) = Injected(source.root, 1, triage)

(* What the rewriting is not up to: a candidate with single statement and    *)
(* an else; text behind a candidate on its last line; a candidate that       *)
(* begins where the body of another one does.                                *)
ElseBehindCheck(c) ==
  HasCheck(c) /\ ~IsCompound(c.node.stmt.body[1]) /\ c.node.stmt.else # <<>>
TextBehind(c) == c.node.end < Len(FileText) /\ FileText[c.node.end + 1] # NewLine
-----------------------------------------------------------------------------
(***************************************************************************)
(* The parser with its states and follow sets reports for a statement the  *)
(* pattern whose language its tokens are in, and none if there is none.    *)
(***************************************************************************)
MatchedIffDerivable ==
  pc = "postprocess" =>
    \A node \in Statements(source) :
      {c.pattern : c \in {d \in Range(candidates) : d.node = node}} = Derivable(Stream(node.stmt))

(***************************************************************************)
(* All ways to parse a statement agree on its pattern and on the tagged    *)
(* tokens: which of the branches getPattern and getJsons report, is        *)
(* without consequence.                                                    *)
(***************************************************************************)
OneParse ==
  pc = "postprocess" =>
    \A node \in Statements(source) : \A p, q \in Parses(Stream(node.stmt)) : p = q

(***************************************************************************)
(* The texts that getConds cuts out of the tokens, by positions counted    *)
(* from both ends, are the clauses of the condition in the source: TRACE   *)
(* those with a crash variable, UNTRACE the others and ALL all of them.    *)
(* It needs that no parentheses are lost (tokenizer.cpp, line 510).        *)
(***************************************************************************)
TextsOfClauses ==
  pc = "locate" =>
    \A c \in Range(candidates) :
      ~NeedsParentheses(c.node.stmt.expr) =>
        /\ ReadConds(c, "TRACE") = ClausesWhere(c, {TRUE})
        /\ ReadConds(c, "UNTRACE") = ClausesWhere(c, {FALSE})
        /\ ReadConds(c, "ALL") = ClausesWhere(c, BOOLEAN)

(* Comparisons of a variable with a literal, or with an operation on two.    *)
Comparison(e) == e.op \in Comparisons /\ e.l.op = "leaf" /\ Len(e.l.toks) = 1 /\ e.l.toks[1].t = "t_num"
IsLiteral(e) == e.op = "lit"
ValueOf(e) == IF IsLiteral(e) THEN e.val ELSE Exact(e.op, e.l.val, e.r.val)

(***************************************************************************)
(* A comparison of an integer variable of any type and value with signed   *)
(* literal of any width is the same condition when it has been written     *)
(* back without the type of the literal.                                   *)
(***************************************************************************)
SignedLiteralKept ==
  pc = "locate" =>
    \A c \in Range(candidates) :
      LET e == c.node.stmt.expr
          read == ReadText(Conds(c, "ALL"))
      IN Comparison(e) /\ IsLiteral(e.r) /\ Signed(e.r.type) =>
           \A v \in Values : Results(read, v) = Results(e, v)

(***************************************************************************)
(* For unsigned literals and for operations on two literals, too, as long  *)
(* as the variable is not negative and neither a literal nor the exact     *)
(* result of the operation needs more than an int.                         *)
(***************************************************************************)
SmallNumbersKept ==
  pc = "locate" =>
    \A c \in Range(candidates) :
      LET e == c.node.stmt.expr
          read == ReadText(Conds(c, "ALL"))
          small == 0..Largest("int")
      IN /\ Comparison(e)
         /\ IsLiteral(e.r) \/ (e.r.op \in Arithmetics /\ \A f \in {e.r.l, e.r.r} : IsLiteral(f) /\ f.val \in small)
         /\ ValueOf(e.r) \in small
         => \A v \in Values : v.val >= 0 => Results(read, v) = Results(e, v)

(***************************************************************************)
(* In whichever order the operations at one position are applied, both     *)
(* builds of the rewritten file read as the source with its conditions     *)
(* replaced, and in the triage build with the notes, the checks and the    *)
(* braces around them.  Three cases are excluded that go wrong.            *)
(***************************************************************************)
BuildsRead ==
  pc = "done" /\ (\A c \in Range(candidates) : ~ElseBehindCheck(c) /\ ~TextBehind(c))
              /\ (\A c, d \in Range(candidates) : ~BeginsBody(c, d))
    => ReadsAs(TRUE) /\ ReadsAs(FALSE)

(***************************************************************************)
(* "we don't have else branch in matched if statements" (nullCheckML.cpp,  *)
(* line 186): the braces that are closed behind the statement close what   *)
(* has been opened in it, and the triage build reads as it should.         *)
(***************************************************************************)
TriageReads ==
  pc = "done" /\ (\A c \in Range(candidates) : ~TextBehind(c))
              /\ (\A c, d \in Range(candidates) : ~BeginsBody(c, d)) => ReadsAs(TRUE)

(***************************************************************************)
(* "When multiple injection candidates are syntactically nested, we inject *)
(* the innermost candidate" (paper, section 3.4), and not the others.      *)
(***************************************************************************)
InnermostOnly ==
  pc = "done" =>
    \A c, d \in Range(candidates) : ~(c.node.start >= d.node.bodyStart /\ c.node.end <= d.node.bodyEnd)
=============================================================================
