------------------------------ MODULE Numbers ------------------------------
(***************************************************************************)
(* The integers of C, and what becomes of a literal: the tokenizer of the  *)
(* AST matcher keeps one decimal number without the type (tokenizer.cpp),  *)
(* and the compiler of the instrumented program reads it as a literal      *)
(* again.  Integers are in two's complement, with two widths.              *)
(***************************************************************************)
EXTENDS Integers

CONSTANTS
  Ints,   \* the number of values of an int (2^32)
  Longs   \* the number of values of a long (2^64)

ASSUME TwoWidths ==
  /\ Ints \in Nat /\ Ints % 2 = 0 /\ Ints >= 4
  /\ Longs \in Nat /\ Longs % 2 = 0 /\ Longs >= 2 * Ints

(* In the order of the usual arithmetic conversions.                         *)
Rank == [int |-> 1, uint |-> 2, long |-> 3, ulong |-> 4]
Types == {"int", "uint", "long", "ulong"}

Size(t) == IF t \in {"int", "uint"} THEN Ints ELSE Longs
Signed(t) == t \in {"int", "long"}
Largest(t) == IF Signed(t) THEN Size(t) \div 2 - 1 ELSE Size(t) - 1
Smallest(t) == IF Signed(t) THEN -(Size(t) \div 2) ELSE 0

(* The value of type t that is congruent to v.                               *)
Wrap(v, t) == LET m == v % Size(t) IN IF m > Largest(t) THEN m - Size(t) ELSE m

Values == {e \in [type : Types, val : -Longs..Longs] : e.val \in Smallest(e.type)..Largest(e.type)}

Common(s, t) == IF Rank[s] < Rank[t] THEN t ELSE s
-----------------------------------------------------------------------------
(* C's division truncates towards zero.                                      *)
Quotient(a, b) ==
  LET q == (IF a < 0 THEN -a ELSE a) \div (IF b < 0 THEN -b ELSE b)
  IN IF (a < 0) = (b < 0) THEN q ELSE -q

Exact(op, a, b) ==
  CASE op = "+" -> a + b
    [] op = "-" -> a - b
    [] op = "*" -> a * b
    [] op = "/" -> IF b = 0 THEN 0 ELSE Quotient(a, b)

Truth(holds) == [type |-> "int", val |-> IF holds THEN 1 ELSE 0]

(* The results of e op f: none where C leaves the operation undefined.       *)
Operation(op, e, f) ==
  LET t == Common(e.type, f.type)
      a == Wrap(e.val, t)
      b == Wrap(f.val, t)
      exact == Exact(op, a, b)
  IN CASE op = "<" -> {Truth(a < b)}   [] op = ">=" -> {Truth(a >= b)}
       [] op = "==" -> {Truth(a = b)}  [] op = "!=" -> {Truth(a # b)}
       [] OTHER -> IF (op = "/" /\ b = 0) \/ (Signed(t) /\ Wrap(exact, t) # exact)
                   THEN {} ELSE {[type |-> t, val |-> Wrap(exact, t)]}
-----------------------------------------------------------------------------
(* Mistakes to detect: the number is cut to an int, as the length of an      *)
(* array is (tokenizer.cpp, line 69), or a bit too few are taken.            *)
SExtValueToInt(lit) == Wrap(lit.val, "int")
SExtValueShort(lit) ==
  LET h == Ints \div 2
      m == lit.val % h
  IN IF m > h \div 2 - 1 THEN m - h ELSE m

(* APInt::getSExtValue: the bits of the literal, read as a signed number.    *)
SExtValue(lit) == Wrap(lit.val, IF Size(lit.type) = Ints THEN "int" ELSE "long")

(* A decimal constant without suffix, after a minus sign if v is negative.   *)
ReadNumber(v) ==
  LET size == IF v < 0 THEN -v ELSE v
      type == CASE size <= Largest("int") -> "int"
                [] Largest("int") < size /\ size <= Largest("long") -> "long"
                [] OTHER -> "ulong"
  IN [op |-> "lit", type |-> type, val |-> Wrap(v, type)]
=============================================================================
