------------------------------ MODULE MatchTags ------------------------------
(***************************************************************************)
(* The patterns of test.grammar that are injected, and the tags that its   *)
(* rules give to tokens.  A variable is tagged with its kind; of an access *)
(* path, the base and the field are tagged.  The drivers tell the tags     *)
(* apart by the words in them ('traceVar', 'traceVarAssign', 'Base',       *)
(* 'Field').                                                               *)
(***************************************************************************)
Patterns == {"COND_ABORT", "COND_ASSIGN", "COND_EXEC"}

BaseTags ==
  {"traceVarAssignNullBase", "traceVarAssignNumBase", "traceVarNullCheckBase",
   "traceVarNumCmpBase", "traceVarPtrRangeBase"}
FieldTags ==
  {"traceVarAssignNullField", "traceVarAssignNumField", "traceVarNullCheckField",
   "traceVarNumCmpField", "traceVarPtrRangeField"}
Traced ==
  {"traceVarAssignNull", "traceVarAssignNum", "traceVarNullCheck", "traceVarNumCmp",
   "traceVarPtrRange"} \cup BaseTags \cup FieldTags
AssignTags ==
  {"traceVarAssignNull", "traceVarAssignNullBase", "traceVarAssignNullField",
   "traceVarAssignNum", "traceVarAssignNumBase", "traceVarAssignNumField"}

Actions == Traced \cup {"logic", "endSpot", "relOp", "arith", "cmp"}
=============================================================================
