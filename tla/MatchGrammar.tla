----------------------------- MODULE MatchGrammar -----------------------------
(***************************************************************************)
(* The rules of test.grammar, the grammar of the AST matcher.              *)
(***************************************************************************)
EXTENDS Sequences

Rule(head, bodies) == [i \in DOMAIN bodies |-> [head |-> head, body |-> bodies[i]]]
Tokens1(head, action, terminals) ==
  Rule(head, [i \in DOMAIN terminals |->
                IF action = "" THEN <<terminals[i]>> ELSE <<terminals[i], action>>])

(* A mistake to detect: a variable is listed once more without its tag.      *)
AccessUntagged(last, tag) ==
  << <<last, tag>>, <<last>>,
     <<"t_var", tag \o "Base", "t_fieldAcc", last, tag \o "Field">>,
     <<"t_ptrVar", tag \o "Base", "t_derefFieldAcc", last, tag \o "Field">> >>

(* A variable or a field, by value or through a pointer, that is traced.     *)
Access(last, tag) ==
  << <<last, tag>>,
     <<"t_var", tag \o "Base", "t_fieldAcc", last, tag \o "Field">>,
     <<"t_ptrVar", tag \o "Base", "t_derefFieldAcc", last, tag \o "Field">> >>

Call(arguments) ==
  [i \in DOMAIN arguments |-> <<"SINGLECALLER">> \o arguments[i] \o <<"t_parenR">>]

TestGrammar ==
  Rule("COND_ASSIGN", << <<"t_if", "ASSIGN_COND", "ASSIGN_LEFT", "t_asnStmt", "t_fi">> >>) \o
  Tokens1("ASSIGN_COND", "", <<"PTR_RANGE", "NUM_CMP", "NOT_EQ_NULL_CHECK",
                               "EQ_NULL_CHECK", "EXPANDED_PTR_RANGE">>) \o
  Rule("EXPANDED_PTR_RANGE", << <<"PTR_OP", "RELOP", "PTR_OP">> >>) \o
  Tokens1("ASSIGN_LEFT", "", <<"ASSIGN_NULL_VALUE", "ASSIGN_NUM_VALUE">>) \o
  Rule("ASSIGN_NULL_VALUE", Access("t_ptrVar", "traceVarAssignNull")) \o
  Rule("ASSIGN_NUM_VALUE", Access("t_num", "traceVarAssignNum")) \o
  Rule("COND_EXEC",
       << <<"t_if", "COND_EXEC_INNER", "t_noJump", "t_fi">>,
          <<"t_if", "COND_EXEC_INNER", "t_noJump", "t_else", "t_noJump", "t_fi">>,
          <<"t_if", "COND_EXEC_INNER", "ASSIGN_LEFT", "t_asnStmt", "t_fi">>,
          <<"t_while", "COND_EXEC_INNER", "t_noJump", "t_elihw">>,
          <<"t_for", "COND_EXEC_INNER", "t_noJump", "t_rof">> >>) \o
  Tokens1("COND_EXEC_INNER", "", <<"COND_EXEC_CONDS">>) \o
  Tokens1("COND_EXEC_COND", "", <<"PTR_RANGE", "NUM_CMP", "NOT_EQ_NULL_CHECK">>) \o
  Rule("COND_EXEC_CONDS", << <<"COND_EXEC_COND", "t_and", "logic", "COND_EXEC_COND">>,
                             <<"COND_EXEC_COND", "t_and", "logic", "COND_EXEC_CONDS">> >>) \o
  Rule("COND_ABORT", << <<"t_if", "COND_ABORT_INNER", "COND_ABORT_BODY", "t_fi">> >>) \o
  Tokens1("COND_ABORT_INNER", "", <<"COND_ABORT_COND", "COND_ABORT_CONDS">>) \o
  Tokens1("COND_ABORT_COND", "", <<"PTR_RANGE", "NUM_CMP", "EQ_NULL_CHECK">>) \o
  Rule("COND_ABORT_CONDS", << <<"COND_ABORT_COND", "t_or", "logic", "COND_ABORT_COND">>,
                              <<"COND_ABORT_COND", "t_or", "logic", "COND_ABORT_CONDS">> >>) \o
  Tokens1("COND_ABORT_BODY", "", <<"JUMP", "JUMP_LESS_THREE">>) \o
  Tokens1("JUMP_LESS_THREE", "endSpot", <<"t_less3">>) \o
  Tokens1("JUMP", "endSpot", <<"t_break", "t_goto", "t_return", "t_continue">>) \o
  Rule("NOT_EQ_NULL_CHECK", << <<"NULL_CHECK_VAL", "t_nEq", "relOp", "NULL_PTR">>,
                               <<"NULL_PTR", "t_nEq", "relOp", "NULL_CHECK_VAL">> >>) \o
  Rule("EQ_NULL_CHECK", << <<"NULL_CHECK_VAL", "t_eqEq", "relOp", "NULL_PTR">>,
                           <<"NULL_PTR", "t_eqEq", "relOp", "NULL_CHECK_VAL">> >>) \o
  Rule("NULL_CHECK_VAL", Access("t_ptrVar", "traceVarNullCheck")) \o
  Rule("NUM_CMP", << <<"NUM_OP", "CMP", "NUM_OP">>, <<"NUM_OP", "RELOP", "NUM_OP">>,
                     <<"t_null", "CMP", "NUM_OP">>, <<"t_null", "RELOP", "NUM_OP">>,
                     <<"NUM_OP", "CMP", "t_null">>, <<"NUM_OP", "RELOP", "t_null">> >>) \o
  Rule("NUM_OP", << <<"NUM_CMP_VAL">>, <<"NUM_CMP_VAL", "ARITH", "NUM_CMP_VAL">>,
                    <<"NUM_CMP_VAL", "ARITH", "t_null">>, <<"t_null", "ARITH", "NUM_CMP_VAL">> >>) \o
  Rule("NUM_CMP_VAL", << <<"NUM_TRACELESS">> >> \o Access("t_num", "traceVarNumCmp")) \o
  Rule("PTR_RANGE", << <<"PTR_OP", "CMP", "PTR_OP">> >>) \o
  Rule("PTR_OP", << <<"PTR_RANGE_VAL">>,
                    <<"PTR_RANGE_VAL", "ARITH", "NUM_TRACELESS">>,
                    <<"NUM_TRACELESS", "ARITH", "PTR_RANGE_VAL">>,
                    <<"PTR_RANGE_VAL", "ARITH", "t_num">>,
                    <<"t_num", "ARITH", "PTR_RANGE_VAL">> >>) \o
  Rule("PTR_RANGE_VAL", Access("t_ptrVar", "traceVarPtrRange")) \o
  Rule("NULL_PTR", << <<"t_null">>, <<"t_cast", "t_null">> >>) \o
  Rule("NUM_TRACELESS",
       << <<"t_litNum">> >> \o
       Call(<< <<"t_ptrVar">>, <<"t_ptrVar", "t_brackL", "t_litNum", "t_brackR">>,
               <<"t_ptrVar", "t_brackL", "t_null", "t_brackR">>, <<"t_var">>, <<"t_num">>,
               <<"t_litNum">>, <<"t_null">>, <<"t_cast", "t_null">> >>)) \o
  Rule("SINGLECALLER", << <<"FUNCSTART", "t_parenL">> >>) \o
  Tokens1("FUNCSTART", "", <<"t_sizeof", "t_function">>) \o
  Tokens1("ARITH", "arith", <<"t_plus", "t_minus", "t_mult", "t_div">>) \o
  Tokens1("CMP", "cmp", <<"t_les", "t_gtr", "t_lesEq", "t_gtrEq">>) \o
  Tokens1("LOGICOP", "logic", <<"t_or", "t_and">>) \o
  Tokens1("RELOP", "relOp", <<"t_eqEq", "t_nEq">>)
=============================================================================
