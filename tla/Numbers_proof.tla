--------------------------- MODULE Numbers_proof ---------------------------
(***************************************************************************)
(* What becomes of a literal that the tokenizer writes down as a number    *)
(* and a compiler reads again, for integers of all widths: which           *)
(* comparisons keep their meaning.                                         *)
(***************************************************************************)
EXTENDS Numbers, TLAPS

Comparing == {"<", ">=", "==", "!="}
Calculating == {"+", "-", "*", "/"}
Between(t) == Smallest(t)..Largest(t)

(* How a literal comes back.                                                 *)
Back(lit) == ReadNumber(SExtValue(lit))

LEMMA Widths ==
  /\ Ints \in Nat /\ Longs \in Nat
  /\ Ints \div 2 \in Nat /\ Longs \div 2 \in Nat
  /\ 2 * (Ints \div 2) = Ints /\ 2 * (Longs \div 2) = Longs
  /\ Ints \div 2 >= 2 /\ Longs \div 2 >= Ints
<1>1. Ints \in Nat /\ Longs \in Nat /\ Ints % 2 = 0 /\ Longs % 2 = 0 /\ Ints >= 4 /\ Longs >= 2 * Ints
  BY TwoWidths
<1>2. \A m \in Nat : m % 2 = 0 => m \div 2 \in Nat /\ 2 * (m \div 2) = m
  OBVIOUS
<1>3. /\ Ints \div 2 \in Nat /\ Longs \div 2 \in Nat
      /\ 2 * (Ints \div 2) = Ints /\ 2 * (Longs \div 2) = Longs
  BY <1>1, <1>2
<1> QED
  BY <1>1, <1>3

(* The ranges of the types, by name.                                         *)
LEMMA Ranges ==
  /\ Smallest("int") = -(Ints \div 2) /\ Largest("int") = Ints \div 2 - 1 /\ Size("int") = Ints
  /\ Smallest("uint") = 0 /\ Largest("uint") = Ints - 1 /\ Size("uint") = Ints
  /\ Smallest("long") = -(Longs \div 2) /\ Largest("long") = Longs \div 2 - 1 /\ Size("long") = Longs
  /\ Smallest("ulong") = 0 /\ Largest("ulong") = Longs - 1 /\ Size("ulong") = Longs
BY DEF Smallest, Largest, Size, Signed

(* A number that a type can hold is its own conversion to it.                *)
LEMMA WrapKeeps ==
  ASSUME NEW t \in Types, NEW v \in Between(t)
  PROVE  Wrap(v, t) = v
<1>1. \A x \in Int, m \in Nat : 0 <= x /\ x < m => x % m = x
  OBVIOUS
<1>2. \A x \in Int, m \in Nat : -m <= x /\ x < 0 => x % m = x + m
  OBVIOUS
<1>3. /\ Size(t) \in Nat /\ Largest(t) \in Int /\ Smallest(t) \in Int
      /\ Largest(t) < Size(t) /\ -Size(t) <= Smallest(t)
      /\ Smallest(t) < 0 => Largest(t) - Smallest(t) = Size(t) - 1
  <2>1. t = "int" \/ t = "uint" \/ t = "long" \/ t = "ulong"
    BY DEF Types
  <2> QED
    BY <2>1, Widths, Ranges
<1>4. v \in Int /\ Smallest(t) <= v /\ v <= Largest(t)
  BY <1>3 DEF Between
<1>5. CASE 0 <= v
  <2>1. v % Size(t) = v
    BY <1>1, <1>3, <1>4, <1>5
  <2> QED
    BY <2>1, <1>3, <1>4 DEF Wrap
<1>6. CASE v < 0
  <2>1. v % Size(t) = v + Size(t)
    BY <1>2, <1>3, <1>4, <1>6
  <2>2. v + Size(t) > Largest(t)
    BY <1>3, <1>4, <1>6
  <2> QED
    BY <2>1, <2>2, <1>3, <1>4 DEF Wrap
<1> QED
  BY <1>4, <1>5, <1>6

(* The usual arithmetic conversions keep a number that is not negative, and  *)
(* any number if both types are signed.                                      *)
LEMMA ConversionKeeps ==
  ASSUME NEW s \in Types, NEW t \in Types, NEW v \in Between(s), v >= 0 \/ (Signed(s) /\ Signed(t))
  PROVE  /\ Common(s, t) \in Types /\ v \in Between(Common(s, t)) /\ Wrap(v, Common(s, t)) = v
         /\ Common(t, s) \in Types /\ v \in Between(Common(t, s)) /\ Wrap(v, Common(t, s)) = v
<1>1. s = "int" \/ s = "uint" \/ s = "long" \/ s = "ulong"
  BY DEF Types
<1>2. t = "int" \/ t = "uint" \/ t = "long" \/ t = "ulong"
  BY DEF Types
<1>3. Common(s, t) \in {s, t} /\ Common(t, s) = Common(s, t) /\ Rank[s] <= Rank[Common(s, t)]
  BY <1>1, <1>2 DEF Common, Rank
<1>4. v \in Int /\ Smallest(s) <= v /\ v <= Largest(s)
  BY <1>1, Widths, Ranges DEF Between
<1>5. v \in Between(Common(s, t))
  <2> DEFINE c == Common(s, t)
  <2>1. c = "int" \/ c = "uint" \/ c = "long" \/ c = "ulong"
    BY <1>1, <1>2, <1>3
  <2>2. Rank["int"] = 1 /\ Rank["uint"] = 2 /\ Rank["long"] = 3 /\ Rank["ulong"] = 4
    BY DEF Rank
  <2>3. Largest(s) <= Largest(c)
    BY <2>1, <2>2, <1>1, <1>3, Widths, Ranges
  <2>4. Signed(s) /\ Signed(t) => Smallest(c) <= Smallest(s)
    BY <2>1, <2>2, <1>1, <1>2, <1>3, Widths, Ranges DEF Signed
  <2>5. Smallest(c) \in Int /\ Largest(c) \in Int /\ Smallest(c) <= 0 /\ Smallest(s) \in Int /\ Largest(s) \in Int
    BY <2>1, <1>1, Widths, Ranges
  <2> QED
    BY <2>3, <2>4, <2>5, <1>4 DEF Between
<1>6. Common(s, t) \in Types
  BY <1>3
<1>7. Wrap(v, Common(s, t)) = v
  BY <1>5, <1>6, WrapKeeps
<1> QED
  BY <1>3, <1>5, <1>6, <1>7

LEMMA ValueType ==
  ASSUME NEW e \in Values
  PROVE  e.type \in Types /\ e.val \in Between(e.type) /\ e.val \in Int
<1>1. e.type \in Types /\ e.val \in -Longs..Longs /\ e.val \in Between(e.type)
  BY DEF Values, Between
<1> QED
  BY <1>1, Widths

Compared(op, a, b) ==
  CASE op = "<" -> a < b [] op = ">=" -> a >= b [] op = "==" -> a = b [] op = "!=" -> a # b

(***************************************************************************)
(* A comparison of two integers compares their numbers, if none is         *)
(* negative or both types are signed: the only comparisons that C gets     *)
(* wrong are those of a negative number with an unsigned one.              *)
(***************************************************************************)
LEMMA ComparisonExact ==
  ASSUME NEW e, NEW f, NEW op \in Comparing,
         e.type \in Types, f.type \in Types, e.val \in Between(e.type), f.val \in Between(f.type),
         (e.val >= 0 /\ f.val >= 0) \/ (Signed(e.type) /\ Signed(f.type))
  PROVE  Operation(op, e, f) = {Truth(Compared(op, e.val, f.val))}
<1>1. Wrap(e.val, Common(e.type, f.type)) = e.val
  BY ConversionKeeps
<1>2. Wrap(f.val, Common(e.type, f.type)) = f.val
  BY ConversionKeeps
<1>3. CASE op = "<"
  BY <1>1, <1>2, <1>3 DEF Operation, Compared
<1>4. CASE op = ">="
  BY <1>1, <1>2, <1>4 DEF Operation, Compared
<1>5. CASE op = "=="
  BY <1>1, <1>2, <1>5 DEF Operation, Compared
<1>6. CASE op = "!="
  BY <1>1, <1>2, <1>6 DEF Operation, Compared
<1> QED
  BY <1>3, <1>4, <1>5, <1>6 DEF Comparing
-----------------------------------------------------------------------------
(* A literal that is not negative when its bits are read as a signed number  *)
(* comes back with its number, and as a signed one: as an int if it fits.    *)
LEMMA BackKeeps ==
  ASSUME NEW lit, lit.type \in Types, lit.val \in Between(lit.type), lit.val >= 0,
         Signed(lit.type) \/ lit.val <= Largest("int")
  PROVE  /\ Back(lit).val = lit.val
         /\ Back(lit).type \in {"int", "long"} /\ lit.val \in Between(Back(lit).type)
         /\ lit.val <= Largest("int") => Back(lit).type = "int"
<1>1. lit.type = "int" \/ lit.type = "uint" \/ lit.type = "long" \/ lit.type = "ulong"
  BY DEF Types
<1>2. lit.val \in Int /\ lit.val <= Largest(lit.type)
  BY <1>1, Widths, Ranges DEF Between
<1> DEFINE own == IF Size(lit.type) = Ints THEN "int" ELSE "long"
<1>3. own \in Types /\ lit.val \in Between(own) /\ lit.val <= Largest("long")
  BY <1>1, <1>2, Widths, Ranges DEF Types, Between, Signed
<1>4. SExtValue(lit) = lit.val
  <2> HIDE DEF own
  <2>1. Wrap(lit.val, own) = lit.val
    BY <1>3, WrapKeeps
  <2> QED
    BY <2>1 DEF SExtValue, own
<1> DEFINE type == IF lit.val <= Largest("int") THEN "int" ELSE "long"
<1>5. type \in Types /\ lit.val \in Between(type)
  BY <1>2, <1>3, Widths, Ranges DEF Types, Between
<1>6. Wrap(lit.val, type) = lit.val
  <2> HIDE DEF type
  <2> QED
    BY <1>5, WrapKeeps
<1>7. ReadNumber(lit.val) = [op |-> "lit", type |-> type, val |-> Wrap(lit.val, type)]
  BY <1>2, <1>3, Widths, Ranges DEF ReadNumber
<1> QED
  BY <1>4, <1>5, <1>6, <1>7 DEF Back

(***************************************************************************)
(* tokenizer.cpp:510 keeps of a literal its number and not its type.  A    *)
(* comparison with a signed literal is the same after that: of a variable  *)
(* of any type, with any value.  The type of the literal may become        *)
(* smaller, which a comparison does not see.                               *)
(***************************************************************************)
THEOREM SignedKept ==
  ASSUME NEW x \in Values, NEW op \in Comparing,
         NEW lit, lit.type \in Types, Signed(lit.type), lit.val \in Between(lit.type), lit.val >= 0
  PROVE  Operation(op, x, Back(lit)) = Operation(op, x, lit)
<1>1. x.type \in Types /\ x.val \in Between(x.type) /\ x.val \in Int
  BY ValueType
<1>2. /\ Back(lit).val = lit.val
      /\ Back(lit).type \in {"int", "long"} /\ lit.val \in Between(Back(lit).type)
  BY BackKeeps
<1>3. x.val >= 0 \/ Signed(x.type)
  <2>1. x.type = "int" \/ x.type = "uint" \/ x.type = "long" \/ x.type = "ulong"
    BY <1>1 DEF Types
  <2> QED
    BY <2>1, <1>1, Widths, Ranges DEF Between, Signed
<1>4. Operation(op, x, lit) = {Truth(Compared(op, x.val, lit.val))}
  BY <1>1, <1>3, ComparisonExact
<1>5. Back(lit).type \in Types /\ Signed(Back(lit).type)
  BY <1>2 DEF Types, Signed
<1>6. Operation(op, x, Back(lit)) = {Truth(Compared(op, x.val, Back(lit).val))}
  BY <1>1, <1>2, <1>3, <1>5, ComparisonExact
<1> QED
  BY <1>2, <1>4, <1>6

(***************************************************************************)
(* With an unsigned literal, too, if an int can hold it and the variable   *)
(* is not negative.                                                        *)
(***************************************************************************)
THEOREM SmallKept ==
  ASSUME NEW x \in Values, x.val >= 0, NEW op \in Comparing,
         NEW lit, lit.type \in Types, lit.val \in 0..Largest("int")
  PROVE  Operation(op, x, Back(lit)) = Operation(op, x, lit)
<1>1. x.type \in Types /\ x.val \in Between(x.type) /\ x.val \in Int
  BY ValueType
<1>2. lit.val \in Int /\ lit.val >= 0 /\ lit.val <= Largest("int") /\ lit.val \in Between(lit.type)
  <2>1. lit.type = "int" \/ lit.type = "uint" \/ lit.type = "long" \/ lit.type = "ulong"
    BY DEF Types
  <2> QED
    BY <2>1, Widths, Ranges DEF Between
<1>3. Back(lit).val = lit.val /\ Back(lit).type \in Types /\ lit.val \in Between(Back(lit).type)
  BY <1>2, BackKeeps DEF Types
<1>4. Operation(op, x, lit) = {Truth(Compared(op, x.val, lit.val))}
  BY <1>1, <1>2, ComparisonExact
<1>5. Operation(op, x, Back(lit)) = {Truth(Compared(op, x.val, Back(lit).val))}
  BY <1>1, <1>2, <1>3, ComparisonExact
<1> QED
  BY <1>3, <1>4, <1>5
-----------------------------------------------------------------------------
(* An operation on two numbers that its type can hold, and whose result it   *)
(* can hold, is exact; a division by zero has no result.                     *)
LEMMA OperationExact ==
  ASSUME NEW e, NEW f, NEW op \in Calculating,
         e.type \in Types, f.type \in Types, e.val \in Between(e.type), f.val \in Between(f.type),
         e.val >= 0, f.val >= 0, Exact(op, e.val, f.val) \in Between(Common(e.type, f.type))
  PROVE  Operation(op, e, f) =
           IF op = "/" /\ f.val = 0 THEN {} ELSE {[type |-> Common(e.type, f.type), val |-> Exact(op, e.val, f.val)]}
<1> DEFINE t == Common(e.type, f.type)
<1>1. Wrap(e.val, t) = e.val /\ t \in Types
  BY ConversionKeeps
<1>2. Wrap(f.val, t) = f.val
  BY ConversionKeeps
<1>3. Wrap(Exact(op, e.val, f.val), t) = Exact(op, e.val, f.val)
  <2> HIDE DEF t
  <2> DEFINE x == Exact(op, e.val, f.val)
  <2>1. x \in Between(t)
    BY DEF t
  <2> HIDE DEF x
  <2>2. Wrap(x, t) = x
    BY <1>1, <2>1, WrapKeeps
  <2> QED
    BY <2>2 DEF x
<1>4. op \notin {"<", ">=", "==", "!="}
  BY DEF Calculating
<1> QED
  BY <1>1, <1>2, <1>3, <1>4 DEF Operation

(***************************************************************************)
(* And with an operation on two literals that an int can hold, if it can   *)
(* hold the exact result, too.  That is needed: the product of two of      *)
(* them can be too large for an int and, unsigned, a small number again.   *)
(***************************************************************************)
THEOREM SmallArithmeticKept ==
  ASSUME NEW x \in Values, x.val >= 0, NEW op \in Comparing, NEW calc \in Calculating,
         NEW e, e.type \in Types, e.val \in 0..Largest("int"),
         NEW f, f.type \in Types, f.val \in 0..Largest("int"),
         Exact(calc, e.val, f.val) \in 0..Largest("int")
  PROVE  UNION {Operation(op, x, r) : r \in Operation(calc, Back(e), Back(f))}
           = UNION {Operation(op, x, r) : r \in Operation(calc, e, f)}
<1> DEFINE small == 0..Largest("int")
<1>1. \A t \in Types : small \subseteq Between(t)
  <2> TAKE t \in Types
  <2>1. t = "int" \/ t = "uint" \/ t = "long" \/ t = "ulong"
    BY DEF Types
  <2> QED
    BY <2>1, Widths, Ranges DEF Between
<1>2. \A n \in small : n \in Int /\ n >= 0 /\ n <= Largest("int")
  BY Widths, Ranges
<1>3. \A s, t \in Types : Common(s, t) \in Types
  BY DEF Common
<1> HIDE DEF small
<1> DEFINE n == Exact(calc, e.val, f.val)
<1>4. e.val \in small /\ f.val \in small /\ n \in small
  BY DEF small
<1>5. Back(e).val = e.val /\ Back(e).type = "int"
  <2>1. e.val \in Between(e.type) /\ e.val >= 0 /\ e.val <= Largest("int")
    BY <1>1, <1>2, <1>4
  <2> QED
    BY <2>1, BackKeeps
<1>6. Back(f).val = f.val /\ Back(f).type = "int"
  <2>1. f.val \in Between(f.type) /\ f.val >= 0 /\ f.val <= Largest("int")
    BY <1>1, <1>2, <1>4
  <2> QED
    BY <2>1, BackKeeps
<1> DEFINE t == Common(e.type, f.type)
           results(s) == IF calc = "/" /\ f.val = 0 THEN {} ELSE {[type |-> s, val |-> n]}
<1>7. Operation(calc, e, f) = results(t) /\ t \in Types
  <2>1. e.val >= 0 /\ f.val >= 0 /\ e.val \in Between(e.type) /\ f.val \in Between(f.type) /\ t \in Types
    BY <1>1, <1>2, <1>3, <1>4
  <2>2. n \in Between(t)
    BY <1>1, <1>4, <2>1
  <2> QED
    BY <2>1, <2>2, OperationExact
<1>8. Operation(calc, Back(e), Back(f)) = results("int")
  <2>1. Common(Back(e).type, Back(f).type) = "int" /\ "int" \in Types
    BY <1>5, <1>6 DEF Common, Types
  <2>2. Back(e).type \in Types /\ Back(e).val \in Between(Back(e).type) /\ Back(e).val >= 0
    BY <1>1, <1>2, <1>4, <1>5, <2>1
  <2>3. Back(f).type \in Types /\ Back(f).val \in Between(Back(f).type) /\ Back(f).val >= 0
    BY <1>1, <1>2, <1>4, <1>6, <2>1
  <2>4. Exact(calc, Back(e).val, Back(f).val) = n
    BY <1>5, <1>6
  <2>5. n \in Between("int")
    BY <1>1, <1>4, <2>1
  <2>6. Operation(calc, Back(e), Back(f)) =
          IF calc = "/" /\ Back(f).val = 0 THEN {}
          ELSE {[type |-> Common(Back(e).type, Back(f).type), val |-> Exact(calc, Back(e).val, Back(f).val)]}
    <3>1. Exact(calc, Back(e).val, Back(f).val) \in Between(Common(Back(e).type, Back(f).type))
      BY <2>1, <2>4, <2>5
    <3> HIDE DEF n
    <3> QED
      BY <2>2, <2>3, <3>1, OperationExact
  <2> QED
    BY <1>6, <2>1, <2>4, <2>6
<1>9. \A s \in Types : Operation(op, x, [type |-> s, val |-> n]) = {Truth(Compared(op, x.val, n))}
  <2> HIDE DEF n
  <2> TAKE s \in Types
  <2> DEFINE r == [type |-> s, val |-> n]
  <2>1. x.type \in Types /\ x.val \in Between(x.type)
    BY ValueType
  <2>2. r.type \in Types /\ r.val \in Between(r.type) /\ r.val >= 0 /\ r.val = n
    BY <1>1, <1>2, <1>4
  <2> HIDE DEF r
  <2>3. Operation(op, x, r) = {Truth(Compared(op, x.val, r.val))}
    BY <2>1, <2>2, ComparisonExact
  <2> QED
    BY <2>2, <2>3 DEF r
<1>10. "int" \in Types
  BY DEF Types
<1> HIDE DEF n, t
<1>11. CASE calc = "/" /\ f.val = 0
  BY <1>7, <1>8, <1>11
<1>12. CASE ~(calc = "/" /\ f.val = 0)
  <2>1. Operation(calc, e, f) = {[type |-> t, val |-> n]} /\ Operation(calc, Back(e), Back(f)) = {[type |-> "int", val |-> n]}
    BY <1>7, <1>8, <1>12
  <2>2. Operation(op, x, [type |-> t, val |-> n]) = Operation(op, x, [type |-> "int", val |-> n])
    BY <1>7, <1>9, <1>10
  <2> QED
    BY <2>1, <2>2
<1> QED
  BY <1>11, <1>12
=============================================================================
