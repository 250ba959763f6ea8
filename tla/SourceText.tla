----------------------------- MODULE SourceText -----------------------------
(***************************************************************************)
(* A C file as the tools see it: the tree of statements that clang parses, *)
(* the tokens that the AST matcher makes of a statement (tokenizer.cpp),   *)
(* and the text, in which positions are counted.                           *)
(***************************************************************************)
EXTENDS ConditionText, StatementForms, FiniteSets, SequencesExt
-----------------------------------------------------------------------------
(* Traversal in a valid context: what a statement hands to the parser of the *)
(* control statement around it.  A control statement has its own parser.     *)
Token(t) == <<[t |-> t, val |-> 0]>>
LastStatement(s) == s.body[Len(s.body)]

EmitBlock(s) ==
  CASE s.body = <<>> -> <<>>
    [] s.body # <<>> /\ IsEscape(LastStatement(s)) ->
         IF Len(s.body) <= 3 THEN Token("t_less3") ELSE <<>>
    [] OTHER -> Token("t_noJump")

Emit(s) ==
  CASE IsControl(s) \/ s.kind = "skip" -> <<>>
    [] IsCompound(s) -> EmitBlock(s)
    [] IsEscape(s) -> Token("t_" \o s.kind)
    [] s.kind = "assign" -> TokensOf(s.expr) \o Token("t_assign") \o Token("t_num")
    [] s.kind = "call" -> Token("t_function") \o Token("t_parenL") \o Token("t_parenR")

(* TraverseIfStmt, TraverseWhileStmt, TraverseForStmt: the tokens of one     *)
(* control statement.                                                        *)
Plain(s) == ~IsCompound(s) /\ ~IsEscape(s)

IfBody(s) ==
  CASE s.kind = "assign" -> TokensOf(s.expr) \o Token("t_asnStmt")
    [] s.kind # "assign" /\ Plain(s) -> Token("t_noJump")
    [] OTHER -> Emit(s)

LoopBody(s) == (IF Plain(s) THEN Token("t_noJump") ELSE <<>>) \o Emit(s)

Stream(s) ==
  LET body == s.body[1]
  IN CASE s.kind = "if" ->
            Token("t_if") \o TokensOf(s.expr) \o IfBody(body)
            \o (IF s.else = <<>> THEN <<>> ELSE Token("t_else") \o Emit(s.else[1])) \o Token("t_fi")
       [] s.kind = "while" -> Token("t_while") \o TokensOf(s.expr) \o LoopBody(body) \o Token("t_elihw")
       [] s.kind = "for" -> Token("t_for") \o TokensOf(s.expr) \o LoopBody(body) \o Token("t_rof")
-----------------------------------------------------------------------------
(* The text.  With the layout "lines" a line ends behind every brace and     *)
(* semicolon, with "oneline" it does not.                                    *)
EndOfLine(layout) == IF layout = "lines" THEN <<NewLine>> ELSE <<>>

RECURSIVE Text(_, _, _), TextOfAll(_, _, _)
Text(s, at, layout) ==
  CASE IsControl(s) ->
         LET then == Text(s.body[1], at + 4, layout)
         IN <<<<s.kind, 0>>, <<"(", 0>>, <<"cond", at>>, <<")", 0>>>> \o then
            \o (IF s.else = <<>> THEN <<>>
                ELSE Word1("else") \o Text(s.else[1], at + 5 + Len(then), layout))
    [] IsCompound(s) ->
         Word1("{") \o EndOfLine(layout)
         \o TextOfAll(s.body, at + 1 + Len(EndOfLine(layout)), layout)
         \o Word1("}") \o EndOfLine(layout)
    [] s.kind = "skip" -> Word1(";") \o EndOfLine(layout)
    [] OTHER -> <<<<s.kind, at>>, <<";", 0>>>> \o EndOfLine(layout)
TextOfAll(body, at, layout) ==
  IF body = <<>> THEN <<>>
  ELSE LET first == Text(Head(body), at, layout)
       IN first \o TextOfAll(Tail(body), at + Len(first), layout)

(* The position of the last word of a statement that is not a line's end.    *)
EndOf(s, at, layout) ==
  LET words == Text(s, at, layout)
  IN at + (IF words[Len(words)] = NewLine THEN Len(words) - 2 ELSE Len(words) - 1)

(* The control statements in the order in which they are left by the         *)
(* traversal, with their positions.                                          *)
Node(s, at, layout) ==
  [stmt |-> s, start |-> at, bodyStart |-> at + 4,
   bodyEnd |-> EndOf(s.body[1], at + 4, layout), end |-> EndOf(s, at, layout)]

RECURSIVE Nodes(_, _, _), NodesOfAll(_, _, _)
Nodes(s, at, layout) ==
  CASE IsControl(s) ->
         LET behind == at + 5 + Len(Text(s.body[1], at + 4, layout))
         IN Nodes(s.body[1], at + 4, layout)
            \o (IF s.else = <<>> THEN <<>> ELSE Nodes(s.else[1], behind, layout))
            \o <<Node(s, at, layout)>>
    [] IsCompound(s) -> NodesOfAll(s.body, at + 1 + Len(EndOfLine(layout)), layout)
    [] OTHER -> <<>>
NodesOfAll(body, at, layout) ==
  IF body = <<>> THEN <<>>
  ELSE Nodes(Head(body), at, layout)
       \o NodesOfAll(Tail(body), at + Len(Text(Head(body), at, layout)), layout)
-----------------------------------------------------------------------------
(* The preprocessor: a directive stands at the start of a line, and the rest *)
(* of its line is not read.                                                  *)
Directives == {"#ifdef", "#else", "#endif"}

Read(state, word, defined) ==
  CASE word = NewLine -> [state EXCEPT !.fresh = TRUE, !.directive = FALSE]
    [] word # NewLine /\ state.directive -> state
    [] word[1] \in Directives /\ state.fresh /\ ~state.directive ->
         [state EXCEPT !.directive = TRUE,
                       !.skip = CASE word[1] = "#ifdef" -> ~defined
                                  [] word[1] = "#else" -> ~@
                                  [] word[1] = "#endif" -> FALSE]
    [] OTHER -> [state EXCEPT !.fresh = FALSE,
                              !.out = IF state.skip THEN @ ELSE Append(@, word)]

Preprocess(words, defined) ==
  FoldLeft(LAMBDA state, word : Read(state, word, defined),
           [fresh |-> TRUE, directive |-> FALSE, skip |-> FALSE, out |-> <<>>], words).out

Unbroken(words) == SelectSeq(words, LAMBDA word : word # NewLine)
=============================================================================
