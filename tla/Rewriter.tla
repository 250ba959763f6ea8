------------------------------ MODULE Rewriter ------------------------------
(***************************************************************************)
(* From the list of candidates to the rewritten text: the mutant locator   *)
(* makes operations on the text of a file of them (nullCheckML.cpp), and   *)
(* the rewriter applies these to its buffer (inject.py, rewriter.cpp).     *)
(***************************************************************************)
EXTENDS CandidateList, StatementForms

CONSTANT
  Words(_)  \* the text of a file, a sequence of words

VARIABLES operations, buffer

vars == <<list, operations, buffer>>

FileText == Words(source)

(* Where the parser sees a statement: behind the four words of its head      *)
(* there is its body, and two statements lie apart or one of them in the     *)
(* body or the else of the other.                                            *)
ASSUME NodesInText ==
  \A file \in Sources :
    LET length == Len(Words(file))
    IN /\ length \in Nat /\ DOMAIN Words(file) = 1..length
       /\ \A node \in Statements(file) :
            /\ node.start \in Nat \ {0} /\ node.bodyStart = node.start + 4
            /\ node.end \in node.bodyStart..length
       /\ \A outer, inner \in Statements(file) :
            outer.start < inner.start =>
              /\ inner.start >= outer.bodyStart
              /\ inner.start = outer.bodyStart => ~IsCompound(outer.stmt.body[1])
              /\ inner.end <= outer.end \/ outer.end < inner.start

Init ==
  /\ ListInit
  /\ operations = {}
  /\ buffer = [inserted |-> [p \in 2..2 * Len(FileText) + 1 |-> <<>>], removed |-> {}, garbled |-> FALSE]
-----------------------------------------------------------------------------
(* The operations of the mutant locator.  Word k of the text begins at       *)
(* position 2 k, and 2 k + 1 is the position behind it.                      *)
Before(k) == 2 * k
After(k) == 2 * k + 1

OnlyIf(words) == <<NewLine, <<"#ifdef", 0>>, NewLine>> \o words \o <<NewLine, <<"#endif", 0>>>>
Insert(k, p, words) == [index |-> k, at |-> p, to |-> 0, words |-> words]
Replace(k, p, q, words) == [index |-> k, at |-> p, to |-> q, words |-> words]

HasCheck(c) == c.pattern = "COND_EXEC"

(* A mistake to detect: one brace is closed where two are opened.            *)
ClosingOne(c) == Word1("}")
Closing(c) == IF HasCheck(c) /\ ~IsCompound(c.node.stmt.body[1]) THEN Word1("}") \o Word1("}") ELSE Word1("}")

EndOperation(k, c) == Insert(k, After(c.node.end), OnlyIf(Closing(c)))

Check(k, c) ==
  IF IsCompound(c.node.stmt.body[1])
  THEN Insert(k, After(c.node.bodyStart), OnlyIf(<<<<"check", k>>>>) \o <<NewLine>>)
  ELSE Insert(k, Before(c.node.bodyStart), OnlyIf(<<<<"{", 0>>, <<"check", k>>>>) \o <<NewLine>>)

Opening(c, word) == <<<<c.node.stmt.kind, 0>>, <<"(", 0>>, word>>
(* A mistake to detect: a number of a word where a position is expected.     *)
CondOperationByWord(k, c) ==
  Replace(k, Before(c.node.start), Before(c.node.start + 2), Opening(c, <<"fuzz", k>>))
CondOperation(k, c) ==
  Replace(k, Before(c.node.start), c.node.start + 2,
          <<NewLine, <<"#ifdef", 0>>, NewLine, <<"{", 0>>, <<"note", k>>>> \o Opening(c, <<"triage", k>>)
          \o <<NewLine, <<"#else", 0>>, NewLine>> \o Opening(c, <<"fuzz", k>>)
          \o <<NewLine, <<"#endif", 0>>, NewLine>>)

OperationsOf(k, c) ==
  {EndOperation(k, c), CondOperation(k, c)} \cup (IF HasCheck(c) THEN {Check(k, c)} ELSE {})

Locate ==
  /\ pc = "locate" /\ Inject
  /\ operations' = UNION {OperationsOf(k, candidates[k]) : k \in DOMAIN candidates}
  /\ UNCHANGED buffer
-----------------------------------------------------------------------------
(* The rewriter, from the last position to the first and at one position in  *)
(* any order.  What is inserted goes behind what has been inserted there.    *)
(* Text removed where something has been inserted is measured with the       *)
(* insertion but removed behind it, which erases what follows.               *)
Apply(op) ==
  [buffer EXCEPT
     !.inserted[op.at] = @ \o op.words,
     !.removed = @ \cup {k \in DOMAIN FileText : Before(k) >= op.at /\ k <= op.to},
     !.garbled = @ \/ (op.to # 0 /\ buffer.inserted[op.at] # <<>>)]

Rewrite ==
  /\ pc = "rewrite" /\ Inject
  /\ \E op \in operations :
       /\ \A other \in operations : other.at <= op.at
       /\ buffer' = Apply(op)
       /\ operations' = operations \ {op}
  /\ pc' = IF operations' = {} THEN "done" ELSE "rewrite"

Next == (Prepare /\ UNCHANGED <<operations, buffer>>) \/ Locate \/ Rewrite

Spec == Init /\ [][Next]_vars
-----------------------------------------------------------------------------
(* The operations and what they have removed lie in the text of the file.    *)
PositionsOK ==
  /\ \A op \in operations : op.at \in DOMAIN buffer.inserted /\ op.to <= Len(FileText)
  /\ buffer.removed \subseteq DOMAIN FileText

(***************************************************************************)
(* Unless a candidate begins where the body of another one does, what is   *)
(* to be replaced is clear of the positions of all other operations: the   *)
(* order in which the rewriter applies them does not matter, and no text   *)
(* is removed where something has been inserted.                           *)
(***************************************************************************)
BeginsBody(c, d) == HasCheck(d) /\ c.node.start = d.node.bodyStart

EditsApart ==
  (\A c, d \in {candidates[k] : k \in DOMAIN candidates} : ~BeginsBody(c, d)) =>
    /\ \A op \in operations : \A other \in operations \ {op} :
         op.to # 0 => other.at < op.at \/ other.at >= After(op.to)
    /\ ~buffer.garbled
=============================================================================
