--------------------------- MODULE StatementForms ---------------------------
(***************************************************************************)
(* The statements of a C file, and the words of its text.                  *)
(*                                                                         *)
(* A statement is [kind, expr, body, else].  A control statement has the   *)
(* condition expr and one statement as its body; an if may have one as its *)
(* else.  A block has the statements of its body, an assignment has its    *)
(* left side as expr.  A text is a sequence of words <<word, number>> with *)
(* blanks between them; the head of a for statement stands for all three   *)
(* of its expressions.                                                     *)
(***************************************************************************)
Statement(kind, expr, body, else) == [kind |-> kind, expr |-> expr, body |-> body, else |-> else]
NoExpr == [op |-> "leaf", toks |-> <<>>]
Escapes == {"return", "break", "goto", "continue"}

IsControl(s) == s.kind \in {"if", "while", "for"}
IsEscape(s) == s.kind \in Escapes
IsCompound(s) == s.kind = "block"

Word1(w) == << <<w, 0>> >>
NewLine == <<"newline", 0>>
=============================================================================
