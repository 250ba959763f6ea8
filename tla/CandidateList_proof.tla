------------------------- MODULE CandidateList_proof -------------------------
(***************************************************************************)
(* For all files whose statements have been parsed by the rules and lie in *)
(* the text as clang finds them, in any number of compilations and         *)
(* whatever the taint analysis reports: every candidate is a line with     *)
(* marks that are known at each step (Derived), and with them the clauses  *)
(* of its condition that are dropped and the operations on the text.       *)
(***************************************************************************)
EXTENDS Rewriter, FiniteSetTheorems, SequenceTheorems, TLAPS

Printed == {lines[j] : j \in DOMAIN lines}

(* What can be marked of a line, and what is left of it by chooseCondExe.    *)
Marks(line) == {M \in SUBSET Traceable(line) : M # {}}
ChosenMarks(line) == {M \in Marks(line) : line.pattern = "COND_EXEC" => \A o, p \in M : o = p}

(* What a candidate has become, at each step.                                *)
Derived(place, c) ==
  /\ place \in {"match", "postprocess", "report"} => c \in Printed
  /\ place = "choose" => \E line \in Printed : \E M \in Marks(line) : c = Marked(line, M)
  /\ place \in {"nested", "process"} =>
       \E line \in Printed : \E M \in ChosenMarks(line) : c = Marked(line, M)
  /\ place \in {"locate", "rewrite", "done"} =>
       \E line \in Printed : \E M \in ChosenMarks(line) : c = Processed(Marked(line, M))

Places ==
  {"match", "postprocess", "report", "choose", "nested", "process", "locate", "rewrite", "done"}

ListInv ==
  /\ source \in Sources /\ lines = Lines(source)
  /\ pc \in Places
  /\ parsed \in 0..source.copies
  /\ pc = "match" => parsed < source.copies
  /\ pc \in {"match", "postprocess"} => candidates \in Seq(Printed)
  /\ DOMAIN candidates \subseteq Nat
  /\ \A k \in DOMAIN candidates : Derived(pc, candidates[k])
  /\ OneInjectionPerStatement
-----------------------------------------------------------------------------
(* What the rules say, in the form that is used below.                       *)
LEMMA PrintedByTheRules ==
  ASSUME source \in Sources, lines = Lines(source), NEW line \in Printed
  PROVE  ByTheRules(line)
<1>1. \A j \in DOMAIN Lines(source) : ByTheRules(Lines(source)[j])
  BY LinesByTheRules, Zenon
<1> QED
  BY <1>1 DEF Printed

LEMMA OnePerStart ==
  ASSUME source \in Sources, lines = Lines(source), NEW c \in Printed, NEW d \in Printed,
         c.node.start = d.node.start
  PROVE  c = d
<1>1. \A i, j \in DOMAIN Lines(source) :
        Lines(source)[i].node.start = Lines(source)[j].node.start => i = j
  BY LinesByTheRules, Zenon
<1> QED
  BY <1>1 DEF Printed

(* A set of numbers with a bound has a last and a first one.                 *)
LEMMA LastExists ==
  ASSUME NEW m \in Nat, NEW S \in SUBSET (1..m), S # {}
  PROVE  \E i \in S : \A j \in S : j <= i
<1> DEFINE Above(i) == {j \in S : i < j}
           T == {Above(i) : i \in S}
<1> HIDE DEF Above, T
<1>1. IsFiniteSet(S)
  <2>1. IsFiniteSet(1..m)
    BY FS_Interval
  <2> QED
    BY <2>1, FS_Subset
<1>2. T \subseteq SUBSET S /\ T # {}
  BY DEF Above, T
<1>3. PICK x \in T : \A y \in T : ~(<<y, x>> \in StrictSubsetOrdering(S))
  <2>1. IsWellFoundedOn(StrictSubsetOrdering(S), SUBSET S)
    BY <1>1, FS_StrictSubsetOrderingWellFounded, FS_FiniteSubsetsOfFinite
  <2> QED
    BY <1>2, <2>1, WFMin
<1>4. PICK i \in S : x = Above(i)
  BY DEF T
<1>5. ASSUME NEW j \in S, ~(j <= i)
      PROVE  FALSE
  <2>1. i \in Nat /\ j \in Nat /\ i < j
    BY <1>5
  <2>2. Above(j) \subseteq Above(i) /\ j \in Above(i) /\ j \notin Above(j)
    <3>1. \A k \in S : j < k => i < k
      BY <2>1
    <3>2. ~(j < j)
      BY <2>1
    <3> QED
      BY <2>1, <3>1, <3>2, Zenon DEF Above
  <2>3. Above(j) \in T
    BY DEF T
  <2> QED
    BY <1>2, <1>3, <1>4, <2>2, <2>3 DEF StrictSubsetOrdering
<1> QED
  BY <1>5

LEMMA FirstExists ==
  ASSUME NEW m \in Nat, NEW S \in SUBSET (1..m), S # {}
  PROVE  \E i \in S : \A j \in S : i <= j
<1> DEFINE T == {m + 1 - i : i \in S}
<1>1. T \in SUBSET (1..m) /\ T # {}
  <2>1. \A i \in S : i \in Int /\ 1 <= i /\ i <= m
    OBVIOUS
  <2>2. \A i \in S : m + 1 - i \in 1..m
    BY <2>1
  <2> QED
    BY <2>2
<1>2. PICK t \in T : \A u \in T : u <= t
  <2> HIDE DEF T
  <2> QED
    BY <1>1, LastExists
<1>3. PICK i \in S : t = m + 1 - i
  BY <1>2
<1>4. ASSUME NEW j \in S PROVE i <= j
  <2>1. m + 1 - j <= m + 1 - i
    BY <1>2, <1>3
  <2> QED
    BY <2>1
<1> QED
  BY <1>4
-----------------------------------------------------------------------------
(* What the operations on a candidate leave, field by field.                 *)
IsCandidate(c) ==
  /\ c = [pattern |-> c.pattern, ids |-> c.ids, orders |-> c.orders, node |-> c.node]
  /\ c.ids \subseteq [tag : Actions, order : Nat, crash : BOOLEAN]

LEMMA RulesShape ==
  ASSUME NEW line, ByTheRules(line)
  PROVE  IsCandidate(line) /\ line.orders \subseteq Nat
<1>1. line.orders \subseteq Nat
  BY DEF ByTheRules
<1>2. line.ids \subseteq [tag : Actions, order : line.orders, crash : {FALSE}]
  BY DEF ByTheRules
<1>3. line.ids \subseteq [tag : Actions, order : Nat, crash : BOOLEAN]
  BY <1>1, <1>2
<1> QED
  BY <1>1, <1>3 DEF ByTheRules, IsCandidate

LEMMA MarkedFields ==
  ASSUME NEW c, IsCandidate(c), NEW M
  PROVE  LET d == Marked(c, M)
         IN /\ IsCandidate(d)
            /\ d.pattern = c.pattern /\ d.orders = c.orders /\ d.node = c.node
            /\ d.ids = {[tag |-> id.tag, order |-> id.order, crash |-> (id.order \in M)] : id \in c.ids}
<1> DEFINE d == Marked(c, M)
           I == {[id EXCEPT !.crash = id.order \in M] : id \in c.ids}
           J == {[tag |-> id.tag, order |-> id.order, crash |-> (id.order \in M)] : id \in c.ids}
<1>1. I = J
  BY DEF IsCandidate
<1>2. \A id \in c.ids : [tag |-> id.tag, order |-> id.order, crash |-> (id.order \in M)]
                          \in [tag : Actions, order : Nat, crash : BOOLEAN]
  <2> TAKE id \in c.ids
  <2>1. id.tag \in Actions /\ id.order \in Nat
    BY DEF IsCandidate
  <2>2. (id.order \in M) \in BOOLEAN
    OBVIOUS
  <2> QED
    BY <2>1, <2>2
<1>3. d = [c EXCEPT !.ids = I]
  BY DEF Marked
<1>4. d = [pattern |-> c.pattern, ids |-> I, orders |-> c.orders, node |-> c.node]
  <2> HIDE DEF I, d
  <2> QED
    BY <1>3 DEF IsCandidate
<1>5. d.pattern = c.pattern /\ d.orders = c.orders /\ d.node = c.node /\ d.ids = I
  <2> HIDE DEF I, d
  <2> QED
    BY <1>4
<1>6. IsCandidate(d)
  <2>1. \A j \in J : j \in [tag : Actions, order : Nat, crash : BOOLEAN]
    BY <1>2, Zenon
  <2> HIDE DEF I, J, d
  <2> QED
    BY <1>1, <2>1, <1>4, <1>5 DEF IsCandidate
<1> QED
  <2> HIDE DEF I, d
  <2> QED
    BY <1>1, <1>5, <1>6 DEF d, J
(* The tokens of a candidate with marks, one by one.                         *)
LEMMA MarkedTokens ==
  ASSUME NEW c, IsCandidate(c), NEW M
  PROVE  /\ \A id \in c.ids : \E i \in Marked(c, M).ids :
              i.tag = id.tag /\ i.order = id.order /\ (i.crash <=> id.order \in M)
         /\ \A i \in Marked(c, M).ids : \E id \in c.ids :
              i.tag = id.tag /\ i.order = id.order /\ (i.crash <=> id.order \in M)
<1> DEFINE of(id) == [tag |-> id.tag, order |-> id.order, crash |-> (id.order \in M)]
           I == Marked(c, M).ids
<1>1. I = {of(id) : id \in c.ids}
  BY MarkedFields
<1>2. \A id \in c.ids :
        of(id).tag = id.tag /\ of(id).order = id.order /\ (of(id).crash <=> id.order \in M)
  OBVIOUS
<1> HIDE DEF of, I
<1>3. /\ \A id \in c.ids : of(id) \in I
      /\ \A i \in I : \E id \in c.ids : i = of(id)
  BY <1>1
<1>4. /\ \A id \in c.ids : \E i \in I :
           i.tag = id.tag /\ i.order = id.order /\ (i.crash <=> id.order \in M)
      /\ \A i \in I : \E id \in c.ids :
           i.tag = id.tag /\ i.order = id.order /\ (i.crash <=> id.order \in M)
  BY <1>2, <1>3
<1> QED
  BY <1>4 DEF I

LEMMA SameTokens ==
  ASSUME NEW c, IsCandidate(c), NEW d, IsCandidate(d),
         \A i \in c.ids : \E j \in d.ids : i.tag = j.tag /\ i.order = j.order /\ (i.crash <=> j.crash)
  PROVE  c.ids \subseteq d.ids
<1> SUFFICES ASSUME NEW i \in c.ids PROVE i \in d.ids
  OBVIOUS
<1>1. PICK j \in d.ids : i.tag = j.tag /\ i.order = j.order /\ (i.crash <=> j.crash)
  OBVIOUS
<1>2. /\ i \in [tag : Actions, order : Nat, crash : BOOLEAN]
      /\ j \in [tag : Actions, order : Nat, crash : BOOLEAN]
  BY DEF IsCandidate
<1>3. i.crash \in BOOLEAN /\ j.crash \in BOOLEAN
  BY <1>2
<1>4. i.crash = j.crash
  BY <1>1, <1>3, Zenon
<1>5. i = j
  BY <1>1, <1>2, <1>4
<1> QED
  BY <1>5

(* Marks replace marks, and of a line they are what is crashed.              *)
LEMMA MarkedAgain ==
  ASSUME NEW c, IsCandidate(c), NEW M, NEW N
  PROVE  Marked(Marked(c, M), N) = Marked(c, N)
<1> DEFINE d == Marked(c, M)
           e == Marked(d, N)
           f == Marked(c, N)
<1>1. /\ IsCandidate(d)
      /\ d.pattern = c.pattern /\ d.orders = c.orders /\ d.node = c.node
      /\ \A id \in c.ids : \E i \in d.ids : i.tag = id.tag /\ i.order = id.order
      /\ \A i \in d.ids : \E id \in c.ids : i.tag = id.tag /\ i.order = id.order
  BY MarkedFields, MarkedTokens
<1>2. /\ IsCandidate(e)
      /\ e.pattern = d.pattern /\ e.orders = d.orders /\ e.node = d.node
      /\ \A id \in d.ids : \E i \in e.ids :
           i.tag = id.tag /\ i.order = id.order /\ (i.crash <=> id.order \in N)
      /\ \A i \in e.ids : \E id \in d.ids :
           i.tag = id.tag /\ i.order = id.order /\ (i.crash <=> id.order \in N)
  <2> HIDE DEF d
  <2> QED
    BY <1>1, MarkedFields, MarkedTokens
<1>3. /\ IsCandidate(f)
      /\ f.pattern = c.pattern /\ f.orders = c.orders /\ f.node = c.node
      /\ \A id \in c.ids : \E i \in f.ids :
           i.tag = id.tag /\ i.order = id.order /\ (i.crash <=> id.order \in N)
      /\ \A i \in f.ids : \E id \in c.ids :
           i.tag = id.tag /\ i.order = id.order /\ (i.crash <=> id.order \in N)
  BY MarkedFields, MarkedTokens
<1> HIDE DEF d, e, f
<1>4. e.ids \subseteq f.ids
  <2>1. ASSUME NEW i \in e.ids
        PROVE  \E j \in f.ids : i.tag = j.tag /\ i.order = j.order /\ (i.crash <=> j.crash)
    <3>1. PICK id \in d.ids : i.tag = id.tag /\ i.order = id.order /\ (i.crash <=> id.order \in N)
      BY <1>2
    <3>2. PICK x \in c.ids : id.tag = x.tag /\ id.order = x.order
      BY <1>1
    <3>3. PICK j \in f.ids : j.tag = x.tag /\ j.order = x.order /\ (j.crash <=> x.order \in N)
      BY <1>3
    <3> QED
      BY <3>1, <3>2, <3>3
  <2> QED
    BY <1>2, <1>3, <2>1, SameTokens
<1>5. f.ids \subseteq e.ids
  <2>1. ASSUME NEW i \in f.ids
        PROVE  \E j \in e.ids : i.tag = j.tag /\ i.order = j.order /\ (i.crash <=> j.crash)
    <3>1. PICK x \in c.ids : i.tag = x.tag /\ i.order = x.order /\ (i.crash <=> x.order \in N)
      BY <1>3
    <3>2. PICK id \in d.ids : id.tag = x.tag /\ id.order = x.order
      BY <1>1
    <3>3. PICK j \in e.ids : j.tag = id.tag /\ j.order = id.order /\ (j.crash <=> id.order \in N)
      BY <1>2
    <3> QED
      BY <3>1, <3>2, <3>3
  <2> QED
    BY <1>2, <1>3, <2>1, SameTokens
<1>6. e.ids = f.ids
  BY <1>4, <1>5
<1>7. e = f
  BY <1>1, <1>2, <1>3, <1>6 DEF IsCandidate
<1> QED
  BY <1>7 DEF d, e, f

(* The tags of traced variables, of fields and of what is assigned.          *)
LEMMA TagFacts ==
  /\ AssignTags \subseteq Traced /\ "logic" \notin Traced
  /\ BaseTags \subseteq Traced /\ FieldTags \subseteq Traced
  /\ BaseTags \cap FieldTags = {}
BY DEF AssignTags, Traced, BaseTags, FieldTags

LEMMA TraceableIsTraced ==
  ASSUME NEW c, NEW o \in Traceable(c)
  PROVE  \E id \in c.ids :
           /\ id.order = o /\ id.tag \in Traced /\ id.tag \notin FieldTags
           /\ c.pattern = "COND_ASSIGN" => id.tag \in AssignTags
           /\ c.pattern = "COND_EXEC" => id.tag \notin AssignTags
<1>1. CASE c.pattern = "COND_ASSIGN"
  BY <1>1, TagFacts DEF Traceable, OrdersWith
<1>2. CASE c.pattern = "COND_EXEC"
  BY <1>2, TagFacts DEF Traceable, OrdersWith
<1>3. CASE c.pattern # "COND_ASSIGN" /\ c.pattern # "COND_EXEC"
  BY <1>3, TagFacts DEF Traceable, OrdersWith
<1> QED
  BY <1>1, <1>2, <1>3

LEMMA CrashedMarks ==
  ASSUME NEW c, IsCandidate(c), NEW M \in SUBSET Traceable(c)
  PROVE  Crashed(Marked(c, M)) = M
<1> DEFINE d == Marked(c, M)
<1>1. /\ \A id \in c.ids : \E i \in d.ids :
           i.tag = id.tag /\ i.order = id.order /\ (i.crash <=> id.order \in M)
      /\ \A i \in d.ids : \E id \in c.ids :
           i.tag = id.tag /\ i.order = id.order /\ (i.crash <=> id.order \in M)
  BY MarkedTokens
<1> HIDE DEF d
<1>2. \A o \in M : \E id \in c.ids : id.order = o /\ id.tag \in Traced
  BY TraceableIsTraced
<1>3. \A i \in d.ids : i.crash => i.order \in M
  BY <1>1, Zenon
<1>4. \A o \in M : \E i \in d.ids : i.order = o /\ i.tag \in Traced /\ i.crash
  <2> TAKE o \in M
  <2>1. PICK id \in c.ids : id.order = o /\ id.tag \in Traced
    BY <1>2
  <2>2. PICK i \in d.ids : i.tag = id.tag /\ i.order = id.order /\ (i.crash <=> id.order \in M)
    BY <1>1
  <2> QED
    BY <2>1, <2>2
<1>5. Crashed(d) = M
  BY <1>3, <1>4 DEF Crashed, IsTraced
<1> QED
  BY <1>5 DEF d
-----------------------------------------------------------------------------
(* The orders of the tokens of a line: what is marked lies in its condition. *)
LEMMA MarksInCondition ==
  ASSUME NEW line, ByTheRules(line)
  PROVE  \E m \in Nat :
           /\ ConditionEnds(line, m)
           /\ OrdersWith(line, Traced \ AssignTags) \subseteq 1..m
           /\ OrdersWith(line, {"logic"}) \subseteq 2..m
           /\ \A o \in OrdersWith(line, AssignTags) : o > m
<1>1. PICK m \in line.orders :
        /\ ConditionEnds(line, m)
        /\ OrdersWith(line, Traced \ AssignTags) \subseteq 1..m
        /\ OrdersWith(line, {"logic"}) \subseteq 2..m
  BY DEF ByTheRules
<1>2. m \in Nat
  BY RulesShape
<1>3. \A o \in OrdersWith(line, AssignTags) : o > m
  BY <1>1, <1>2 DEF ConditionEnds
<1> QED
  BY <1>1, <1>2, <1>3

(* chooseCondExe leaves one mark of a COND_EXEC.                             *)
LEMMA ChosenMarked ==
  ASSUME NEW line, ByTheRules(line), NEW M \in Marks(line)
  PROVE  \E N \in ChosenMarks(line) : Chosen(Marked(line, M)) = Marked(line, N)
<1>1. IsCandidate(line)
  BY RulesShape
<1>2. M \in SUBSET Traceable(line) /\ M # {}
  BY DEF Marks
<1> DEFINE c == Marked(line, M)
           N == {order \in M : \A other \in M : other <= order}
<1>3. c.pattern = line.pattern /\ Crashed(c) = M
  BY <1>1, <1>2, MarkedFields, CrashedMarks
<1>4. CASE line.pattern # "COND_EXEC"
  <2>1. M \in ChosenMarks(line)
    BY <1>4 DEF ChosenMarks
  <2>2. Chosen(c) = c
    BY <1>3, <1>4 DEF Chosen
  <2> QED
    BY <2>1, <2>2
<1>5. CASE line.pattern = "COND_EXEC"
  <2>1. PICK m \in Nat : OrdersWith(line, Traced \ AssignTags) \subseteq 1..m
    BY MarksInCondition
  <2>2. M \subseteq 1..m
    BY <1>2, <1>5, <2>1, TraceableIsTraced DEF OrdersWith
  <2>3. PICK x \in M : \A y \in M : y <= x
    BY <1>2, <2>1, <2>2, LastExists
  <2>4. N = {x}
    <3>1. \A y \in M : x <= y => y = x
      BY <2>1, <2>2, <2>3
    <3> QED
      BY <2>3, <3>1
  <2>5. N \in ChosenMarks(line)
    BY <1>2, <2>3, <2>4 DEF ChosenMarks, Marks
  <2>6. Chosen(c) = Marked(c, N)
    BY <1>3, <1>5 DEF Chosen
  <2>7. Marked(c, N) = Marked(line, N)
    BY <1>1, MarkedAgain
  <2> QED
    BY <2>5, <2>6, <2>7
<1> QED
  BY <1>4, <1>5

(* What is forgotten of a line is what it assigns.                           *)
LEMMA GoneOfMarked ==
  ASSUME NEW line, ByTheRules(line), NEW M
  PROVE  Gone(Marked(line, M)) = OrdersWith(line, AssignTags)
<1> DEFINE c == Marked(line, M)
<1>1. IsCandidate(line)
  BY RulesShape
<1>2. c.pattern = line.pattern
  BY <1>1, MarkedFields
<1>3. /\ \A id \in line.ids : \E i \in c.ids : i.tag = id.tag /\ i.order = id.order
      /\ \A i \in c.ids : \E id \in line.ids : i.tag = id.tag /\ i.order = id.order
  BY <1>1, MarkedTokens
<1>4. line.pattern = "COND_ABORT" => OrdersWith(line, AssignTags) = {}
  BY DEF ByTheRules
<1> HIDE DEF c
<1>5. OrdersWith(c, AssignTags) = OrdersWith(line, AssignTags)
  BY <1>3 DEF OrdersWith
<1>6. Gone(c) = OrdersWith(line, AssignTags)
  BY <1>2, <1>4, <1>5 DEF Gone
<1> QED
  BY <1>6 DEF c

(* What processTraceVars leaves of a candidate.                              *)
LEMMA ProcessedFields ==
  ASSUME NEW c, IsCandidate(c)
  PROVE  LET d == Processed(c)
         IN /\ IsCandidate(d)
            /\ d.pattern = c.pattern /\ d.node = c.node /\ d.orders = c.orders \ Gone(c)
            /\ \A id \in c.ids : id.order \notin Gone(c) => \E i \in d.ids :
                 i.tag = id.tag /\ i.order = id.order /\ (i.crash <=> Crashes(c, id))
            /\ \A i \in d.ids : \E id \in c.ids :
                 /\ id.order \notin Gone(c)
                 /\ i.tag = id.tag /\ i.order = id.order /\ (i.crash <=> Crashes(c, id))
<1> DEFINE d == Processed(c)
           of(id) == [id EXCEPT !.crash = Crashes(c, id)]
           I == {of(id) : id \in {i \in c.ids : i.order \notin Gone(c)}}
<1>1. \A id \in c.ids : id \in [tag : Actions, order : Nat, crash : BOOLEAN]
  BY DEF IsCandidate
<1>2. \A id \in c.ids : Crashes(c, id) \in BOOLEAN
  <2> TAKE id \in c.ids
  <2>1. id.crash \in BOOLEAN
    BY <1>1
  <2>2. IsTraced(id) \in BOOLEAN /\ BaseCrashes(c, id) \in BOOLEAN
    BY DEF IsTraced, BaseCrashes
  <2> QED
    BY <2>1, <2>2, Zenon DEF Crashes
<1>3. \A id \in c.ids :
        /\ of(id) \in [tag : Actions, order : Nat, crash : BOOLEAN]
        /\ of(id).tag = id.tag /\ of(id).order = id.order /\ (of(id).crash <=> Crashes(c, id))
  <2> TAKE id \in c.ids
  <2> HIDE DEF d, I
  <2> DEFINE b == Crashes(c, id)
  <2>1. b \in BOOLEAN /\ id \in [tag : Actions, order : Nat, crash : BOOLEAN]
    BY <1>1, <1>2
  <2>2. of(id) = [id EXCEPT !.crash = b]
    OBVIOUS
  <2> HIDE DEF b, of
  <2>3. /\ of(id) \in [tag : Actions, order : Nat, crash : BOOLEAN]
        /\ of(id).tag = id.tag /\ of(id).order = id.order /\ (of(id).crash <=> b)
    BY <2>1, <2>2
  <2> QED
    BY <2>3 DEF b
<1>4. d = [c EXCEPT !.orders = c.orders \ Gone(c), !.ids = I]
  BY DEF Processed
<1>5. d = [pattern |-> c.pattern, ids |-> I, orders |-> c.orders \ Gone(c), node |-> c.node]
  <2> HIDE DEF I, d
  <2> QED
    BY <1>4 DEF IsCandidate
<1>6. d.pattern = c.pattern /\ d.orders = c.orders \ Gone(c) /\ d.node = c.node /\ d.ids = I
  <2> HIDE DEF I, d
  <2> QED
    BY <1>5
<1>7. /\ \A id \in c.ids : id.order \notin Gone(c) => of(id) \in I
      /\ \A i \in I : \E id \in c.ids : id.order \notin Gone(c) /\ i = of(id)
  <2> HIDE DEF of, d
  <2> QED
    OBVIOUS
<1> HIDE DEF d, of, I
<1>8. IsCandidate(d)
  <2>1. I \subseteq [tag : Actions, order : Nat, crash : BOOLEAN]
    BY <1>3, <1>7
  <2> QED
    BY <1>5, <1>6, <2>1 DEF IsCandidate
<1>9. /\ \A id \in c.ids : id.order \notin Gone(c) => \E i \in d.ids :
           i.tag = id.tag /\ i.order = id.order /\ (i.crash <=> Crashes(c, id))
      /\ \A i \in d.ids : \E id \in c.ids :
           /\ id.order \notin Gone(c)
           /\ i.tag = id.tag /\ i.order = id.order /\ (i.crash <=> Crashes(c, id))
  BY <1>3, <1>6, <1>7
<1> QED
  BY <1>6, <1>8, <1>9 DEF d
-----------------------------------------------------------------------------
(* A field is crashed only if the base before it is marked.                  *)
LEMMA FieldFollowsBase ==
  ASSUME NEW line, ByTheRules(line), NEW M, NEW i \in Marked(line, M).ids,
         i.tag \in FieldTags, BaseCrashes(Marked(line, M), i)
  PROVE  /\ i.order \in Nat /\ i.order - 2 \in M
         /\ \A id \in line.ids : id.order # i.order - 1
<1> DEFINE c == Marked(line, M)
<1>1. IsCandidate(line)
  BY RulesShape
<1>2. /\ \A id \in line.ids : \E j \in c.ids :
           j.tag = id.tag /\ j.order = id.order /\ (j.crash <=> id.order \in M)
      /\ \A j \in c.ids : \E id \in line.ids :
           j.tag = id.tag /\ j.order = id.order /\ (j.crash <=> id.order \in M)
  BY <1>1, MarkedTokens
<1> HIDE DEF c
<1>3. i \in c.ids /\ BaseCrashes(c, i)
  BY DEF c
<1>4. PICK field \in line.ids : i.tag = field.tag /\ i.order = field.order
  BY <1>2, <1>3
<1>5. /\ \E base \in line.ids : base.tag \in BaseTags /\ base.order = field.order - 2
      /\ \A id \in line.ids : id.order # field.order - 1
  BY <1>4 DEF ByTheRules
<1>6. PICK first \in line.ids : first.tag \in BaseTags /\ first.order = field.order - 2
  BY <1>5
<1>7. PICK b \in c.ids : b.tag = first.tag /\ b.order = first.order
  BY <1>2
<1>8. PICK base \in c.ids :
        /\ base.tag \in BaseTags /\ base.order < i.order /\ base.crash
        /\ \A x \in c.ids : x.tag \in BaseTags /\ x.order < i.order => x.order <= base.order
  BY <1>3 DEF BaseCrashes
<1>9. PICK last \in line.ids : base.tag = last.tag /\ base.order = last.order /\ last.order \in M
  BY <1>2, <1>8
<1>10. first.order \in Nat /\ field.order \in Nat /\ last.order \in Nat
  BY <1>1 DEF IsCandidate
<1>11. b.order <= base.order
  <2>1. b.order < i.order
    BY <1>4, <1>6, <1>7, <1>10
  <2> QED
    BY <1>6, <1>7, <1>8, <2>1
<1>12. last.order = field.order - 2
  <2>1. field.order - 2 <= last.order /\ last.order < field.order
    BY <1>4, <1>6, <1>7, <1>8, <1>9, <1>11
  <2>2. last.order # field.order - 1
    BY <1>5
  <2> QED
    BY <1>10, <2>1, <2>2
<1> QED
  BY <1>4, <1>5, <1>9, <1>10, <1>12

(* The crashed tokens of a prepared candidate.                               *)
LEMMA CrashedProcessed ==
  ASSUME NEW line, ByTheRules(line), NEW M \in SUBSET Traceable(line), NEW d,
         d = Processed(Marked(line, M))
  PROVE  /\ \A i \in d.ids : \E id \in line.ids : i.tag = id.tag /\ i.order = id.order
         /\ \A i \in d.ids : i.order \notin OrdersWith(line, AssignTags)
         /\ line.pattern = "COND_ASSIGN" =>
              \A i \in d.ids : IsTraced(i) => i.order \in Crashed(d)
         /\ line.pattern # "COND_ASSIGN" =>
              /\ \A o \in M : o \notin OrdersWith(line, AssignTags) => o \in Crashed(d)
              /\ \A o \in Crashed(d) : o \in M \/ 
                   /\ o \in Nat /\ o - 2 \in M
                   /\ \E id \in line.ids : id.order = o /\ id.tag \in FieldTags
                   /\ \A id \in line.ids : id.order # o - 1
<1> DEFINE c == Marked(line, M)
<1>1. IsCandidate(line)
  BY RulesShape
<1>2. /\ IsCandidate(c) /\ c.pattern = line.pattern
      /\ \A id \in line.ids : \E j \in c.ids :
           j.tag = id.tag /\ j.order = id.order /\ (j.crash <=> id.order \in M)
      /\ \A j \in c.ids : \E id \in line.ids :
           j.tag = id.tag /\ j.order = id.order /\ (j.crash <=> id.order \in M)
  BY <1>1, MarkedFields, MarkedTokens
<1>3. Gone(c) = OrdersWith(line, AssignTags)
  BY GoneOfMarked
<1>4. \A i \in c.ids : i.tag \in FieldTags /\ BaseCrashes(c, i) =>
        /\ i.order \in Nat /\ i.order - 2 \in M
        /\ \A id \in line.ids : id.order # i.order - 1
  BY FieldFollowsBase
<1> HIDE DEF c
<1>5. /\ \A id \in c.ids : id.order \notin Gone(c) => \E i \in d.ids :
           i.tag = id.tag /\ i.order = id.order /\ (i.crash <=> Crashes(c, id))
      /\ \A i \in d.ids : \E id \in c.ids :
           /\ id.order \notin Gone(c)
           /\ i.tag = id.tag /\ i.order = id.order /\ (i.crash <=> Crashes(c, id))
  <2>1. d = Processed(c)
    BY DEF c
  <2> QED
    BY <1>2, <2>1, ProcessedFields
<1>6. /\ \A i \in d.ids : \E id \in line.ids : i.tag = id.tag /\ i.order = id.order
      /\ \A i \in d.ids : i.order \notin OrdersWith(line, AssignTags)
  <2> SUFFICES ASSUME NEW i \in d.ids
               PROVE  /\ \E id \in line.ids : i.tag = id.tag /\ i.order = id.order
                      /\ i.order \notin OrdersWith(line, AssignTags)
    OBVIOUS
  <2>1. PICK j \in c.ids : j.order \notin Gone(c) /\ i.tag = j.tag /\ i.order = j.order
    BY <1>5
  <2>2. PICK id \in line.ids : j.tag = id.tag /\ j.order = id.order
    BY <1>2
  <2> QED
    BY <1>3, <2>1, <2>2
<1>7. ASSUME line.pattern = "COND_ASSIGN", NEW i \in d.ids, IsTraced(i)
      PROVE  i.order \in Crashed(d)
  <2>1. PICK j \in c.ids : i.tag = j.tag /\ i.order = j.order /\ (i.crash <=> Crashes(c, j))
    BY <1>5
  <2>2. Crashes(c, j)
    BY <1>2, <1>7, <2>1 DEF Crashes, IsTraced
  <2> QED
    BY <1>7, <2>1, <2>2 DEF Crashed
<1>8. ASSUME line.pattern # "COND_ASSIGN", NEW o \in M, o \notin OrdersWith(line, AssignTags)
      PROVE  o \in Crashed(d)
  <2>1. PICK id \in line.ids : id.order = o /\ id.tag \in Traced /\ id.tag \notin FieldTags
    BY TraceableIsTraced
  <2>2. PICK j \in c.ids : j.tag = id.tag /\ j.order = id.order /\ (j.crash <=> id.order \in M)
    BY <1>2
  <2>3. Crashes(c, j)
    BY <1>2, <1>8, <2>1, <2>2 DEF Crashes
  <2>4. PICK i \in d.ids : i.tag = j.tag /\ i.order = j.order /\ (i.crash <=> Crashes(c, j))
    BY <1>3, <1>5, <1>8, <2>1, <2>2
  <2> QED
    BY <2>1, <2>2, <2>3, <2>4 DEF Crashed, IsTraced
<1>9. ASSUME line.pattern # "COND_ASSIGN", NEW o \in Crashed(d), o \notin M
      PROVE  /\ o \in Nat /\ o - 2 \in M
             /\ \E id \in line.ids : id.order = o /\ id.tag \in FieldTags
             /\ \A id \in line.ids : id.order # o - 1
  <2>1. PICK i \in d.ids : i.order = o /\ i.crash
    BY DEF Crashed
  <2>2. PICK j \in c.ids : i.tag = j.tag /\ i.order = j.order /\ (i.crash <=> Crashes(c, j))
    BY <1>5
  <2>3. PICK id \in line.ids : j.tag = id.tag /\ j.order = id.order /\ (j.crash <=> id.order \in M)
    BY <1>2
  <2>4. j.tag \in FieldTags /\ BaseCrashes(c, j)
    BY <1>2, <1>9, <2>1, <2>2, <2>3 DEF Crashes
  <2> QED
    BY <1>4, <2>1, <2>2, <2>3, <2>4
<1> QED
  BY <1>6, <1>7, <1>8, <1>9
-----------------------------------------------------------------------------
(* The condition ends behind its last clause, whatever stands behind it.     *)
LEMMA EndOfCondition ==
  ASSUME NEW line, NEW m \in Nat, ConditionEnds(line, m), NEW d,
         d.orders = line.orders \ OrdersWith(line, AssignTags), d.node = line.node
  PROVE  /\ Cardinality(d.orders) - TokEndOffset(d) \in {m + 1, m + 2}
         /\ m + 1 \in d.orders => Cardinality(d.orders) - TokEndOffset(d) = m + 1
         /\ 1..m \subseteq d.orders
<1> DEFINE A == OrdersWith(line, AssignTags)
           else == line.node.stmt.else
<1>1. \A n \in Nat : IsFiniteSet(0..n) /\ Cardinality(0..n) = n + 1
  <2> TAKE n \in Nat
  <2> QED
    BY FS_Interval
<1>2. \A T, x : IsFiniteSet(T) /\ x \in T => Cardinality(T \ {x}) = Cardinality(T) - 1
  BY FS_RemoveElement
<1>3. \A T, x : IsFiniteSet(T) => IsFiniteSet(T \ {x})
  BY FS_RemoveElement
<1>4. TokEndOffset(d) = IF else # <<>> THEN 4 ELSE 2
  BY DEF TokEndOffset
<1>5. d.orders = line.orders \ A
  OBVIOUS
<1>6. \/ A = {} /\ line.orders = 0..m + (IF else = <<>> THEN 2 ELSE 4)
      \/ A = {m + 1} /\ line.orders = 0..m + 3 /\ else = <<>>
      \/ A = {m + 1, m + 3} /\ line.orders = 0..m + 5 /\ else = <<>>
  BY DEF ConditionEnds
<1> HIDE DEF A, else
<1>7. CASE A = {} /\ line.orders = 0..m + (IF else = <<>> THEN 2 ELSE 4)
  <2>1. CASE else = <<>>
    <3>1. d.orders = 0..m + 2
      BY <1>5, <1>7, <2>1
    <3>2. m + 2 \in Nat /\ Cardinality(0..m + 2) = m + 2 + 1
      <4>1. m + 2 \in Nat
        OBVIOUS
      <4> QED
        BY <1>1, <4>1, Zenon
    <3>3. Cardinality(d.orders) = m + 2 + 1
      BY <3>1, <3>2, Zenon
    <3> QED
      BY <1>4, <2>1, <3>1, <3>3
  <2>2. CASE else # <<>>
    <3>1. d.orders = 0..m + 4
      BY <1>5, <1>7, <2>2
    <3>2. m + 4 \in Nat /\ Cardinality(0..m + 4) = m + 4 + 1
      <4>1. m + 4 \in Nat
        OBVIOUS
      <4> QED
        BY <1>1, <4>1, Zenon
    <3>3. Cardinality(d.orders) = m + 4 + 1
      BY <3>1, <3>2, Zenon
    <3> QED
      BY <1>4, <2>2, <3>1, <3>3
  <2> QED
    BY <2>1, <2>2
<1>8. CASE A = {m + 1} /\ line.orders = 0..m + 3 /\ else = <<>>
  <2>1. IsFiniteSet(0..m + 3) /\ Cardinality(0..m + 3) = m + 3 + 1
    BY <1>1
  <2>2. Cardinality((0..m + 3) \ {m + 1}) = m + 3
    <3>1. m + 1 \in 0..m + 3
      OBVIOUS
    <3>2. Cardinality((0..m + 3) \ {m + 1}) = Cardinality(0..m + 3) - 1
      BY <1>2, <2>1, <3>1, Zenon
    <3> QED
      BY <2>1, <3>2
  <2>3. d.orders = (0..m + 3) \ {m + 1}
    BY <1>5, <1>8
  <2>4. Cardinality(d.orders) = m + 3 /\ TokEndOffset(d) = 2
    BY <1>4, <1>8, <2>2, <2>3
  <2> QED
    BY <2>3, <2>4
<1>9. CASE A = {m + 1, m + 3} /\ line.orders = 0..m + 5 /\ else = <<>>
  <2> DEFINE T == (0..m + 5) \ {m + 1}
  <2>1. IsFiniteSet(0..m + 5) /\ Cardinality(0..m + 5) = m + 5 + 1
    BY <1>1
  <2>2. IsFiniteSet(T) /\ Cardinality(T) = m + 5
    <3>1. m + 1 \in 0..m + 5
      OBVIOUS
    <3>2. IsFiniteSet(T) /\ Cardinality(T) = Cardinality(0..m + 5) - 1
      BY <1>2, <1>3, <2>1, <3>1, Zenon
    <3> QED
      BY <2>1, <3>2
  <2>3. m + 3 \in T
    OBVIOUS
  <2>4. d.orders = T \ {m + 3}
    BY <1>5, <1>9
  <2> HIDE DEF T
  <2>5. Cardinality(T \ {m + 3}) = m + 4
    <3>1. Cardinality(T \ {m + 3}) = Cardinality(T) - 1
      BY <1>2, <2>2, <2>3, Zenon
    <3> QED
      BY <2>2, <3>1
  <2>6. Cardinality(d.orders) = m + 4 /\ TokEndOffset(d) = 2
    BY <1>4, <1>9, <2>4, <2>5
  <2>7. 1..m \subseteq d.orders /\ m + 1 \notin d.orders
    BY <1>5, <1>9
  <2> QED
    BY <2>6, <2>7
<1> QED
  BY <1>6, <1>7, <1>8, <1>9

(* The clauses of a condition whose operators are in 2..m: every token of    *)
(* the condition is in one of them.                                          *)
LEMMA ClauseShape ==
  ASSUME NEW c, NEW p \in Clauses(c)
  PROVE  /\ p = <<p[1], p[2]>> /\ p[1] \in {1} \cup Stops(c) /\ p[2] \in Stops(c)
         /\ p[1] < p[2] /\ \A other \in Stops(c) : ~(p[1] < other /\ other < p[2])
BY DEF Clauses

LEMMA ClauseExists ==
  ASSUME NEW c, NEW m \in Nat, NEW e \in Nat, m < e, NEW x \in 1..m,
         Stops(c) = OrdersWith(c, {"logic"}) \cup {e}, OrdersWith(c, {"logic"}) \subseteq 2..m
  PROVE  \E p \in Clauses(c) : p[1] <= x /\ x < p[2]
<1> DEFINE S == Stops(c)
           Up == {s \in S : x < s}
           Down == {s \in {1} \cup S : s <= x}
<1>1. S \subseteq 2..e /\ e \in S
  BY DEF S
<1> HIDE DEF S
<1>2. Up \in SUBSET (1..e) /\ Up # {}
  <2>1. e \in Up
    BY <1>1
  <2>2. \A s \in Up : s \in 1..e
    BY <1>1
  <2> QED
    BY <2>1, <2>2
<1>3. PICK b \in Up : \A s \in Up : b <= s
  <2> HIDE DEF Up
  <2> QED
    BY <1>2, FirstExists
<1>4. Down \in SUBSET (1..e) /\ Down # {}
  <2>1. 1 \in Down
    OBVIOUS
  <2>2. \A s \in Down : s \in 1..e
    BY <1>1
  <2> QED
    BY <2>1, <2>2
<1>5. PICK a \in Down : \A s \in Down : s <= a
  <2> HIDE DEF Down
  <2> QED
    BY <1>4, LastExists
<1>6. a \in {1} \cup S /\ b \in S /\ a <= x /\ x < b
  BY <1>3, <1>5
<1>7. a < b
  BY <1>1, <1>6
<1>8. ASSUME NEW other \in S, a < other, other < b
      PROVE  FALSE
  <2>1. CASE other <= x
    BY <1>1, <1>5, <1>6, <1>8, <2>1
  <2>2. CASE x < other
    BY <1>1, <1>3, <1>6, <1>8, <2>2
  <2> QED
    BY <1>1, <2>1, <2>2
<1>9. <<a, b>> \in Clauses(c)
  BY <1>6, <1>7, <1>8 DEF Clauses, S
<1> QED
  BY <1>6, <1>9

LEMMA ClauseUnique ==
  ASSUME NEW c, NEW e \in Nat, Stops(c) \subseteq 2..e, NEW x \in Nat,
         NEW p \in Clauses(c), p[1] <= x, x < p[2],
         NEW q \in Clauses(c), q[1] <= x, x < q[2]
  PROVE  p = q
<1>1. /\ p = <<p[1], p[2]>> /\ p[1] \in {1} \cup Stops(c) /\ p[2] \in Stops(c)
      /\ p[1] < p[2] /\ \A other \in Stops(c) : ~(p[1] < other /\ other < p[2])
  BY ClauseShape
<1>2. /\ q = <<q[1], q[2]>> /\ q[1] \in {1} \cup Stops(c) /\ q[2] \in Stops(c)
      /\ q[1] < q[2] /\ \A other \in Stops(c) : ~(q[1] < other /\ other < q[2])
  BY ClauseShape
<1> DEFINE a == p[1]
           b == p[2]
           f == q[1]
           g == q[2]
<1>3. a \in 1..e /\ b \in 2..e /\ f \in 1..e /\ g \in 2..e
  BY <1>1, <1>2
<1>4. ~(f < b /\ b < g) /\ ~(a < g /\ g < b)
  BY <1>1, <1>2
<1>5. (a < f => ~(a < f /\ f < b)) /\ (f < a => ~(f < a /\ a < g))
  BY <1>1, <1>2, <1>3
<1>6. a <= x /\ x < b /\ f <= x /\ x < g
  OBVIOUS
<1>7. p = <<a, b>> /\ q = <<f, g>>
  BY <1>1, <1>2
<1> HIDE DEF a, b, f, g
<1>8. a = f /\ b = g
  BY <1>3, <1>4, <1>5, <1>6
<1> QED
  BY <1>7, <1>8

LEMMA ClausesFinite ==
  ASSUME NEW c, NEW e \in Nat, Stops(c) \subseteq 2..e
  PROVE  IsFiniteSet(Clauses(c))
<1>1. IsFiniteSet(1..e)
  BY FS_Interval
<1>2. IsFiniteSet((1..e) \X (1..e))
  BY <1>1, FS_Product
<1>3. \A p \in Clauses(c) : p \in (1..e) \X (1..e)
  <2> TAKE p \in Clauses(c)
  <2>1. p = <<p[1], p[2]>> /\ p[1] \in {1} \cup Stops(c) /\ p[2] \in Stops(c)
    BY ClauseShape
  <2>2. p[2] \in 1..e /\ p[1] \in 1..e
    BY <2>1
  <2> QED
    BY <2>1, <2>2
<1>4. Clauses(c) \in SUBSET ((1..e) \X (1..e))
  BY <1>3
<1> QED
  BY <1>2, <1>4, FS_Subset
-----------------------------------------------------------------------------
(* The condition of a prepared candidate, with all that is known of it.      *)
LEMMA PreparedCondition ==
  ASSUME NEW line, ByTheRules(line), NEW M \in SUBSET Traceable(line), NEW d,
         d = Processed(Marked(line, M))
  PROVE  \E m \in Nat, e \in Nat :
           /\ m < e
           /\ OrdersWith(d, {"logic"}) \subseteq 2..m
           /\ OrdersWith(d, {"logic"}) = OrdersWith(line, {"logic"})
           /\ Stops(d) = OrdersWith(d, {"logic"}) \cup {e}
           /\ \A id \in line.ids :
                id.tag \in Traced /\ id.order \notin OrdersWith(line, AssignTags) => id.order \in 1..m
           /\ ConditionEnds(line, m) /\ 1..m \subseteq d.orders
           /\ \A order \in d.orders : order < e => order <= m
<1> DEFINE c == Marked(line, M)
           A == OrdersWith(line, AssignTags)
<1>1. IsCandidate(line)
  BY RulesShape
<1>2. IsCandidate(c) /\ c.orders = line.orders /\ c.node = line.node
  BY <1>1, MarkedFields
<1>3. Gone(c) = A
  BY GoneOfMarked
<1>4. d.orders = line.orders \ A /\ d.node = line.node
  <2> HIDE DEF c, A
  <2>1. d = Processed(c)
    BY DEF c
  <2> QED
    BY <1>2, <1>3, <2>1, ProcessedFields
<1>5. PICK m \in Nat :
        /\ ConditionEnds(line, m)
        /\ OrdersWith(line, Traced \ AssignTags) \subseteq 1..m
        /\ OrdersWith(line, {"logic"}) \subseteq 2..m
        /\ \A o \in OrdersWith(line, AssignTags) : o > m
  BY MarksInCondition
<1> DEFINE e == Cardinality(d.orders) - TokEndOffset(d)
<1>6. e \in {m + 1, m + 2} /\ (m + 1 \in d.orders => e = m + 1) /\ 1..m \subseteq d.orders
  <2>1. /\ ConditionEnds(line, m) /\ d.node = line.node
        /\ d.orders = line.orders \ OrdersWith(line, AssignTags)
    BY <1>4, <1>5
  <2>2. \A n \in Nat : ConditionEnds(line, n) =>
          /\ Cardinality(d.orders) - TokEndOffset(d) \in {n + 1, n + 2}
          /\ n + 1 \in d.orders => Cardinality(d.orders) - TokEndOffset(d) = n + 1
          /\ 1..n \subseteq d.orders
    BY <2>1, EndOfCondition
  <2> HIDE DEF e
  <2>3. e = Cardinality(d.orders) - TokEndOffset(d)
    BY DEF e
  <2> QED
    BY <2>1, <2>2, <2>3, Zenon
<1>7. OrdersWith(d, {"logic"}) = OrdersWith(line, {"logic"})
  <2>1. ASSUME NEW i \in d.ids, i.tag = "logic"
        PROVE  \E id \in line.ids : id.tag = "logic" /\ id.order = i.order
    <3>1. PICK id \in line.ids : i.tag = id.tag /\ i.order = id.order
      BY CrashedProcessed
    <3> QED
      BY <2>1, <3>1
  <2>2. ASSUME NEW id \in line.ids, id.tag = "logic"
        PROVE  \E i \in d.ids : i.tag = "logic" /\ i.order = id.order
    <3>1. id.order \in OrdersWith(line, {"logic"})
      BY <2>2 DEF OrdersWith
    <3>2. id.order \notin A
      BY <1>5, <3>1
    <3>3. PICK j \in c.ids : j.tag = id.tag /\ j.order = id.order
      BY <1>1, MarkedTokens
    <3>4. j.order \notin Gone(c)
      BY <1>3, <3>2, <3>3
    <3>5. \E i \in d.ids : i.tag = j.tag /\ i.order = j.order
      <4> HIDE DEF c, A
      <4>1. d = Processed(c)
        BY DEF c
      <4> QED
        BY <1>2, <3>3, <3>4, <4>1, ProcessedFields
    <3> QED
      BY <2>2, <3>3, <3>5
  <2> QED
    BY <2>1, <2>2 DEF OrdersWith
<1>8. OrdersWith(d, {"logic"}) \subseteq 2..m
  BY <1>5, <1>7
<1>9. Stops(d) = OrdersWith(d, {"logic"}) \cup {e}
  BY DEF Stops
<1>10. ASSUME NEW id \in line.ids, id.tag \in Traced, id.order \notin A
       PROVE  id.order \in 1..m
  <2>1. id.tag \notin AssignTags
    BY <1>10 DEF OrdersWith
  <2>2. id.order \in OrdersWith(line, Traced \ AssignTags)
    BY <1>10, <2>1 DEF OrdersWith
  <2> QED
    BY <1>5, <2>2
<1>11. e \in Nat /\ m < e
  BY <1>6
<1>12. d.orders \subseteq Nat
  BY <1>4, RulesShape
<1> HIDE DEF e
<1>13. \A order \in d.orders : order < e => order <= m
  BY <1>6, <1>12
<1> QED
  BY <1>5, <1>6, <1>7, <1>8, <1>9, <1>10, <1>11, <1>13
-----------------------------------------------------------------------------
(* A mark that is not of what is assigned.                                   *)
LEMMA MarkNotGone ==
  ASSUME NEW line, ByTheRules(line), NEW x \in Traceable(line), line.pattern # "COND_ASSIGN"
  PROVE  x \notin OrdersWith(line, AssignTags) /\ \E id \in line.ids : id.order = x /\ id.tag \in Traced
<1>1. PICK id \in line.ids :
        id.order = x /\ id.tag \in Traced /\ (line.pattern = "COND_EXEC" => id.tag \notin AssignTags)
  BY TraceableIsTraced
<1>2. /\ line.pattern \in Patterns
      /\ line.pattern = "COND_ABORT" => OrdersWith(line, AssignTags) = {}
      /\ \A i, j \in line.ids : i.order = j.order => i = j
  BY DEF ByTheRules
<1>3. CASE line.pattern = "COND_ABORT"
  BY <1>1, <1>2, <1>3
<1>4. CASE line.pattern = "COND_EXEC"
  <2>1. ASSUME x \in OrdersWith(line, AssignTags) PROVE FALSE
    <3>1. PICK j \in line.ids : j.tag \in AssignTags /\ j.order = x
      BY <2>1 DEF OrdersWith
    <3> QED
      BY <1>1, <1>2, <1>4, <3>1
  <2> QED
    BY <1>1, <2>1
<1> QED
  BY <1>2, <1>3, <1>4 DEF Patterns

(* What is dropped of a prepared candidate.                                  *)
LEMMA PreparedDrops ==
  ASSUME NEW line, ByTheRules(line), NEW M \in ChosenMarks(line), NEW d,
         d = Processed(Marked(line, M))
  PROVE  LET dropped == {clause \in Clauses(d) : HasTrace(d, clause)}
         IN /\ line.pattern = "COND_EXEC" => Cardinality(dropped) = 1 /\ Cardinality(Clauses(d)) > 1
            /\ line.pattern = "COND_ASSIGN" =>
                 dropped = Clauses(d) \/ \A id \in d.ids : ~IsTraced(id)
            /\ line.pattern = "COND_ABORT" => dropped # {}
<1> DEFINE dropped == {clause \in Clauses(d) : HasTrace(d, clause)}
           A == OrdersWith(line, AssignTags)
           L == OrdersWith(d, {"logic"})
<1>1. /\ M \in SUBSET Traceable(line) /\ M # {}
      /\ line.pattern = "COND_EXEC" => \A o, p \in M : o = p
  BY DEF ChosenMarks, Marks
<1>2. PICK m \in Nat, e \in Nat :
        /\ m < e /\ L \subseteq 2..m /\ L = OrdersWith(line, {"logic"})
        /\ Stops(d) = L \cup {e}
        /\ \A id \in line.ids : id.tag \in Traced /\ id.order \notin A => id.order \in 1..m
  BY <1>1, PreparedCondition
<1>3. /\ \A i \in d.ids : \E id \in line.ids : i.tag = id.tag /\ i.order = id.order
      /\ \A i \in d.ids : i.order \notin A
      /\ line.pattern = "COND_ASSIGN" => \A i \in d.ids : IsTraced(i) => i.order \in Crashed(d)
      /\ line.pattern # "COND_ASSIGN" =>
           /\ \A o \in M : o \notin A => o \in Crashed(d)
           /\ \A o \in Crashed(d) : o \in M \/ 
                /\ o \in Nat /\ o - 2 \in M
                /\ \E id \in line.ids : id.order = o /\ id.tag \in FieldTags
                /\ \A id \in line.ids : id.order # o - 1
  BY <1>1, CrashedProcessed
<1>4. ASSUME line.pattern # "COND_ASSIGN", NEW x \in M
      PROVE  x \in 1..m /\ x \in Crashed(d)
  <2>1. x \notin A /\ \E id \in line.ids : id.order = x /\ id.tag \in Traced
    BY <1>1, <1>4, MarkNotGone
  <2> QED
    BY <1>2, <1>3, <1>4, <2>1
<1>5. ASSUME m > 0 PROVE Stops(d) \subseteq 2..e
  BY <1>2, <1>5
<1>6. ASSUME line.pattern # "COND_ASSIGN", NEW x \in M
      PROVE  \E p \in dropped : p[1] <= x /\ x < p[2]
  <2>1. x \in 1..m /\ x \in Crashed(d)
    BY <1>4, <1>6
  <2>2. PICK p \in Clauses(d) : p[1] <= x /\ x < p[2]
    BY <1>2, <2>1, ClauseExists
  <2>3. p[1] \in {1} \cup Stops(d) /\ p[2] \in Stops(d)
    BY ClauseShape
  <2>4. p[1] \in Int /\ p[2] \in Int
    BY <1>2, <2>3
  <2>5. x \in p[1]..p[2] - 1
    BY <2>1, <2>2, <2>4
  <2>6. HasTrace(d, p)
    BY <2>1, <2>5 DEF HasTrace
  <2> QED
    BY <2>2, <2>6
<1>7. ASSUME line.pattern = "COND_EXEC"
      PROVE  Cardinality(dropped) = 1 /\ Cardinality(Clauses(d)) > 1
  <2>1. PICK x \in M : \A o \in M : o = x
    BY <1>1, <1>7
  <2>2. x \in 1..m /\ m > 0
    BY <1>4, <1>7
  <2>3. Stops(d) \subseteq 2..e
    BY <1>5, <2>2
  <2>4. PICK p \in dropped : p[1] <= x /\ x < p[2]
    BY <1>6, <1>7
  <2>5. ASSUME NEW q \in dropped PROVE q = p
    <3>1. q \in Clauses(d) /\ HasTrace(d, q)
      OBVIOUS
    <3>2. PICK o \in Crashed(d) : o \in q[1]..q[2] - 1
      BY <3>1 DEF HasTrace
    <3>3. q[1] \in {1} \cup Stops(d) /\ q[2] \in Stops(d)
      BY <3>1, ClauseShape
    <3>4. q[1] \in 1..e /\ q[2] \in 1..e
      BY <2>2, <2>3, <3>3
    <3>5. o \in Int /\ q[1] <= o /\ o < q[2]
      BY <3>2, <3>4
    <3>6. CASE o \in M
      BY <2>1, <2>2, <2>3, <2>4, <3>1, <3>5, <3>6, ClauseUnique
    <3>7. CASE o \notin M
      <4>1. /\ o - 2 \in M
            /\ \E id \in line.ids : id.order = o /\ id.tag \in FieldTags
            /\ \A id \in line.ids : id.order # o - 1
        BY <1>3, <1>7, <3>7
      <4>2. o = x + 2
        BY <2>1, <2>2, <3>5, <4>1
      <4>3. o \notin L /\ o - 1 \notin L
        <5>1. PICK field \in line.ids : field.order = o /\ field.tag \in FieldTags
          BY <4>1
        <5>2. \A i, j \in line.ids : i.order = j.order => i = j
          BY DEF ByTheRules
        <5>3. \A id \in line.ids : id.tag = "logic" => id.order # o
          BY <5>1, <5>2, TagFacts
        <5>4. \A l \in L : \E id \in line.ids : id.tag = "logic" /\ id.order = l
          BY <1>2 DEF OrdersWith
        <5> QED
          BY <4>1, <5>3, <5>4
      <4>4. o \in 1..m
        <5>1. PICK i \in d.ids : i.order = o /\ i.tag \in Traced
          BY DEF Crashed, IsTraced
        <5>2. PICK id \in line.ids : i.tag = id.tag /\ i.order = id.order
          BY <1>3
        <5> QED
          BY <1>2, <1>3, <5>1, <5>2
      <4>5. q[1] # e
        BY <1>2, <3>5, <4>4
      <4>6. q[1] <= x /\ x < q[2]
        <5>1. q[1] = 1 \/ q[1] \in L
          BY <1>2, <3>3, <4>5
        <5>2. (q[1] # o /\ q[1] # o - 1) \/ q[1] = 1
          BY <4>3, <5>1
        <5> QED
          BY <2>2, <3>4, <3>5, <4>2, <5>2
      <4> QED
        BY <2>2, <2>3, <2>4, <3>1, <4>6, ClauseUnique
    <3> QED
      BY <3>6, <3>7
  <2>6. dropped = {p}
    BY <2>4, <2>5
  <2>7. Cardinality(dropped) = 1
    BY <2>6, FS_Singleton
  <2>8. PICK l \in L : l \in 2..m
    BY <1>2, <1>7 DEF ByTheRules
  <2>9. PICK first \in Clauses(d) : first[1] <= 1 /\ 1 < first[2]
    BY <1>2, <2>2, ClauseExists
  <2>10. PICK last \in Clauses(d) : last[1] <= m /\ m < last[2]
    <3>1. m \in 1..m
      BY <2>2
    <3> QED
      BY <1>2, <3>1, ClauseExists
  <2>11. first # last
    <3>1. ~(first[1] < l /\ l < first[2]) /\ first[1] \in {1} \cup Stops(d) /\ first[2] \in Stops(d)
      BY <1>2, ClauseShape
    <3>2. first[1] \in Int /\ first[2] \in Int
      BY <1>2, <3>1
    <3> QED
      BY <2>8, <2>9, <2>10, <3>1, <3>2
  <2>12. IsFiniteSet(Clauses(d))
    BY <2>3, ClausesFinite
  <2>13. /\ Cardinality({first}) = 1
         /\ Cardinality({first}) <= Cardinality(Clauses(d))
         /\ Cardinality(Clauses(d)) = Cardinality({first}) => Clauses(d) = {first}
    <3>1. \A S, T : IsFiniteSet(S) /\ T \in SUBSET S =>
            Cardinality(T) <= Cardinality(S) /\ (Cardinality(S) = Cardinality(T) => S = T)
      BY FS_Subset
    <3>2. {first} \in SUBSET Clauses(d)
      OBVIOUS
    <3> QED
      BY <2>12, <3>1, <3>2, FS_Singleton, Zenon
  <2>14. Clauses(d) # {first}
    BY <2>11
  <2>15. Cardinality(Clauses(d)) \in Nat
    BY <2>12, FS_CardinalityType
  <2>16. Cardinality(Clauses(d)) > 1
    BY <2>13, <2>14, <2>15
  <2> QED
    BY <2>7, <2>16
<1>8. ASSUME line.pattern = "COND_ASSIGN", NEW i \in d.ids, IsTraced(i)
      PROVE  dropped = Clauses(d)
  <2>1. L = {}
    BY <1>2, <1>8 DEF ByTheRules
  <2>2. i.order \in Crashed(d)
    BY <1>3, <1>8
  <2>3. PICK id \in line.ids : i.tag = id.tag /\ i.order = id.order
    BY <1>3
  <2>4. i.order \in 1..m
    BY <1>2, <1>3, <1>8, <2>3 DEF IsTraced
  <2>5. ASSUME NEW p \in Clauses(d) PROVE HasTrace(d, p)
    <3>1. p[1] \in {1} \cup Stops(d) /\ p[2] \in Stops(d) /\ p[1] < p[2]
      BY ClauseShape
    <3>2. p[2] = e
      BY <1>2, <2>1, <3>1
    <3>3. p[1] = 1
      BY <1>2, <2>1, <3>1, <3>2
    <3>4. i.order \in p[1]..p[2] - 1
      BY <1>2, <2>4, <3>2, <3>3
    <3> QED
      BY <2>2, <3>4 DEF HasTrace
  <2> QED
    BY <2>5
<1>9. ASSUME line.pattern = "COND_ABORT" PROVE dropped # {}
  BY <1>1, <1>6, <1>9
<1> QED
  BY <1>7, <1>8, <1>9
-----------------------------------------------------------------------------
(* A derived candidate is a line without the tokens that it has lost.        *)
LEMMA DerivedIsLine ==
  ASSUME source \in Sources, lines = Lines(source), NEW place \in Places, NEW c, Derived(place, c)
  PROVE  /\ IsCandidate(c)
         /\ \E line \in Printed :
              c.pattern = line.pattern /\ c.node = line.node /\ c.orders \subseteq line.orders
         /\ c.ids \subseteq [tag : Actions, order : c.orders, crash : BOOLEAN]
<1>1. \A line \in Printed : ByTheRules(line)
  BY PrintedByTheRules
<1>2. ASSUME NEW line \in Printed
      PROVE  IsCandidate(line) /\ \A id \in line.ids : id.order \in line.orders /\ id.tag \in Actions
  <2>1. line.ids \subseteq [tag : Actions, order : line.orders, crash : {FALSE}]
    BY <1>1 DEF ByTheRules
  <2> QED
    BY <1>1, <2>1, RulesShape
<1>3. ASSUME NEW d, IsCandidate(d), \A i \in d.ids : i.order \in d.orders
      PROVE  d.ids \subseteq [tag : Actions, order : d.orders, crash : BOOLEAN]
  <2> SUFFICES ASSUME NEW i \in d.ids PROVE i \in [tag : Actions, order : d.orders, crash : BOOLEAN]
    OBVIOUS
  <2>1. i \in [tag : Actions, order : Nat, crash : BOOLEAN] /\ i.order \in d.orders
    BY <1>3 DEF IsCandidate
  <2> QED
    BY <2>1
<1>4. ASSUME NEW line \in Printed, NEW M, NEW d, d = Marked(line, M)
      PROVE  /\ IsCandidate(d)
             /\ d.pattern = line.pattern /\ d.node = line.node /\ d.orders = line.orders
             /\ \A i \in d.ids : i.order \in d.orders
  <2>1. /\ IsCandidate(d)
        /\ d.pattern = line.pattern /\ d.node = line.node /\ d.orders = line.orders
    BY <1>2, <1>4, MarkedFields
  <2>2. \A i \in d.ids : \E id \in line.ids : i.order = id.order
    BY <1>2, <1>4, MarkedTokens
  <2> QED
    BY <1>2, <2>1, <2>2
<1>5. ASSUME NEW line \in Printed, NEW M, NEW d, d = Processed(Marked(line, M))
      PROVE  /\ IsCandidate(d)
             /\ d.pattern = line.pattern /\ d.node = line.node /\ d.orders \subseteq line.orders
             /\ \A i \in d.ids : i.order \in d.orders
  <2> DEFINE e == Marked(line, M)
  <2>1. /\ IsCandidate(e)
        /\ e.pattern = line.pattern /\ e.node = line.node /\ e.orders = line.orders
        /\ \A i \in e.ids : i.order \in e.orders
    BY <1>4
  <2> HIDE DEF e
  <2>2. /\ IsCandidate(d)
        /\ d.pattern = e.pattern /\ d.node = e.node /\ d.orders = e.orders \ Gone(e)
        /\ \A i \in d.ids : \E id \in e.ids : id.order \notin Gone(e) /\ i.order = id.order
    <3>1. d = Processed(e)
      BY <1>5 DEF e
    <3> QED
      BY <2>1, <3>1, ProcessedFields
  <2> QED
    BY <2>1, <2>2
<1>6. \/ c \in Printed
      \/ \E line \in Printed : \E M : c = Marked(line, M)
      \/ \E line \in Printed : \E M : c = Processed(Marked(line, M))
  BY DEF Derived, Places
<1>7. \E line \in Printed :
        /\ IsCandidate(c)
        /\ c.pattern = line.pattern /\ c.node = line.node /\ c.orders \subseteq line.orders
        /\ \A i \in c.ids : i.order \in c.orders
  BY <1>2, <1>4, <1>5, <1>6
<1> QED
  BY <1>3, <1>7

(* What follows from the invariant.                                          *)
LEMMA InvImpliesType == ListInv => TypeOK
<1> SUFFICES ASSUME ListInv PROVE TypeOK
  OBVIOUS
<1>1. /\ source \in Sources /\ lines = Lines(source) /\ pc \in Places /\ parsed \in 0..source.copies
      /\ \A k \in DOMAIN candidates : Derived(pc, candidates[k])
  BY DEF ListInv
<1>2. ASSUME NEW k \in DOMAIN candidates
      PROVE  LET c == candidates[k]
             IN /\ \E j \in DOMAIN lines :
                     LET line == lines[j]
                     IN c.pattern = line.pattern /\ c.node = line.node /\ c.orders \subseteq line.orders
                /\ c.ids \subseteq [tag : Actions, order : c.orders, crash : BOOLEAN]
  <2> DEFINE c == candidates[k]
  <2>1. Derived(pc, c)
    BY <1>1
  <2> HIDE DEF c
  <2>2. /\ \E line \in Printed :
             c.pattern = line.pattern /\ c.node = line.node /\ c.orders \subseteq line.orders
        /\ c.ids \subseteq [tag : Actions, order : c.orders, crash : BOOLEAN]
    BY <1>1, <2>1, DerivedIsLine
  <2>3. \E j \in DOMAIN lines :
          c.pattern = lines[j].pattern /\ c.node = lines[j].node /\ c.orders \subseteq lines[j].orders
    BY <2>2 DEF Printed
  <2> QED
    BY <2>2, <2>3 DEF c
<1> QED
  BY <1>1, <1>2 DEF TypeOK, Places

LEMMA InvImpliesDrops == ListInv => EveryInjectionDrops
<1> SUFFICES ASSUME ListInv, pc = "locate", NEW k \in DOMAIN candidates
             PROVE  LET c == candidates[k]
                        dropped == {clause \in Clauses(c) : HasTrace(c, clause)}
                    IN CASE c.pattern = "COND_EXEC" ->
                              Cardinality(dropped) = 1 /\ Cardinality(Clauses(c)) > 1
                         [] c.pattern = "COND_ASSIGN" ->
                              dropped = Clauses(c) \/ \A id \in c.ids : ~IsTraced(id)
                         [] c.pattern = "COND_ABORT" -> dropped # {}
  BY DEF EveryInjectionDrops
<1>1. /\ source \in Sources /\ lines = Lines(source) /\ pc \in Places
      /\ Derived(pc, candidates[k])
  BY DEF ListInv
<1> DEFINE c == candidates[k]
<1>2. Derived(pc, c)
  BY <1>1
<1> HIDE DEF c
<1>3. PICK line \in Printed : \E M \in ChosenMarks(line) : c = Processed(Marked(line, M))
  BY <1>2 DEF Derived
<1>4. PICK M \in ChosenMarks(line) : c = Processed(Marked(line, M))
  BY <1>3
<1>5. ByTheRules(line)
  BY <1>1, PrintedByTheRules
<1>6. c.pattern = line.pattern /\ line.pattern \in Patterns
  <2>1. IsCandidate(line)
    BY <1>5, RulesShape
  <2> DEFINE e == Marked(line, M)
  <2>2. IsCandidate(e) /\ e.pattern = line.pattern
    BY <2>1, MarkedFields
  <2> HIDE DEF e
  <2>3. c = Processed(e)
    BY <1>4 DEF e
  <2>4. c.pattern = e.pattern
    BY <2>2, <2>3, ProcessedFields
  <2>5. line.pattern \in Patterns
    BY <1>5 DEF ByTheRules
  <2> QED
    BY <2>2, <2>4, <2>5
<1> DEFINE dropped == {clause \in Clauses(c) : HasTrace(c, clause)}
<1>7. /\ line.pattern = "COND_EXEC" => Cardinality(dropped) = 1 /\ Cardinality(Clauses(c)) > 1
      /\ line.pattern = "COND_ASSIGN" => dropped = Clauses(c) \/ \A id \in c.ids : ~IsTraced(id)
      /\ line.pattern = "COND_ABORT" => dropped # {}
  BY <1>4, <1>5, PreparedDrops
<1> HIDE DEF dropped
<1>8. (CASE c.pattern = "COND_EXEC" -> Cardinality(dropped) = 1 /\ Cardinality(Clauses(c)) > 1
        [] c.pattern = "COND_ASSIGN" -> dropped = Clauses(c) \/ \A id \in c.ids : ~IsTraced(id)
        [] c.pattern = "COND_ABORT" -> dropped # {})
  BY <1>6, <1>7 DEF Patterns
<1> QED
  BY <1>8 DEF c, dropped
-----------------------------------------------------------------------------
(* The steps.                                                                *)
LEMMA InitInv == ListInit => ListInv
<1> SUFFICES ASSUME ListInit PROVE ListInv
  OBVIOUS
<1>1. /\ source \in Sources /\ lines = Lines(source) /\ pc = "match" /\ parsed = 0
      /\ candidates = <<>>
  BY DEF ListInit
<1>2. source.copies \in Nat \ {0}
  BY <1>1, LinesByTheRules, Zenon
<1>3. DOMAIN candidates = {} /\ candidates \in Seq(Printed)
  BY <1>1
<1>4. OneInjectionPerStatement
  BY <1>3 DEF OneInjectionPerStatement
<1> QED
  BY <1>1, <1>2, <1>3, <1>4 DEF ListInv, Places

(* Of the invariant only what a step of the list can break.                  *)
LEMMA StepInv ==
  ASSUME ListInv, UNCHANGED <<source, lines>>, pc' \in Places, parsed' \in 0..source.copies,
         pc' = "match" => parsed' < source.copies,
         pc' \in {"match", "postprocess"} => candidates' \in Seq(Printed),
         DOMAIN candidates' \subseteq Nat,
         \A k \in DOMAIN candidates' : Derived(pc', candidates'[k]),
         pc' \notin {"match", "postprocess"} =>
           \A k, n \in DOMAIN candidates' :
             candidates'[k].node.start = candidates'[n].node.start => k = n
  PROVE  ListInv'
<1>1. Printed' = Printed
  BY DEF Printed
<1>2. \A k \in DOMAIN candidates' : Derived(pc, candidates[k])'
  <2> SUFFICES ASSUME NEW k \in DOMAIN candidates' PROVE Derived(pc, candidates[k])'
    OBVIOUS
  <2>1. Derived(pc', candidates'[k])
    OBVIOUS
  <2> QED
    BY <1>1, <2>1 DEF Derived
<1>3. OneInjectionPerStatement'
  BY DEF OneInjectionPerStatement
<1>4. /\ source' \in Sources /\ lines' = Lines(source')
      /\ source'.copies = source.copies
  BY DEF ListInv
<1> QED
  BY <1>1, <1>2, <1>3, <1>4 DEF ListInv

(* Before the statements are unique, each candidate is a line.               *)
LEMMA MatchStep == ListInv /\ Match => ListInv'
<1> SUFFICES ASSUME ListInv, Match PROVE ListInv'
  OBVIOUS
<1>1. /\ source \in Sources /\ lines = Lines(source) /\ pc = "match"
      /\ parsed \in 0..source.copies /\ parsed < source.copies /\ candidates \in Seq(Printed)
  BY DEF ListInv, Match
<1>2. /\ parsed' = parsed + 1 /\ candidates' = candidates \o lines
      /\ pc' = (IF parsed' = source.copies THEN "postprocess" ELSE "match")
      /\ UNCHANGED <<source, lines>>
  BY DEF Match
<1>3. source.copies \in Nat
  BY <1>1, LinesByTheRules, Zenon
<1>4. lines \in Seq(Printed)
  <2>1. Lines(source) \in Seq({Lines(source)[j] : j \in DOMAIN Lines(source)})
    BY <1>1, LinesByTheRules, Zenon
  <2> QED
    BY <1>1, <2>1 DEF Printed
<1>5. candidates' \in Seq(Printed)
  BY <1>1, <1>2, <1>4, ConcatProperties
<1>6. DOMAIN candidates' \subseteq Nat /\ \A k \in DOMAIN candidates' : candidates'[k] \in Printed
  BY <1>5
<1>7. pc' \in {"match", "postprocess"}
  BY <1>2
<1>8. \A k \in DOMAIN candidates' : Derived(pc', candidates'[k])
  BY <1>6, <1>7 DEF Derived
<1>9. pc' \in Places /\ parsed' \in 0..source.copies /\ (pc' = "match" => parsed' < source.copies)
  BY <1>1, <1>2, <1>3 DEF Places
<1> QED
  BY <1>2, <1>5, <1>6, <1>7, <1>8, <1>9, StepInv

(* Of the lines of a statement, which are equal, the first one is kept.      *)
LEMMA PostprocessStep == ListInv /\ Postprocess => ListInv'
<1> SUFFICES ASSUME ListInv, Postprocess PROVE ListInv'
  OBVIOUS
<1>1. /\ source \in Sources /\ lines = Lines(source) /\ pc = "postprocess"
      /\ parsed \in 0..source.copies /\ DOMAIN candidates \subseteq Nat
      /\ \A k \in DOMAIN candidates : candidates[k] \in Printed
  BY DEF ListInv, Postprocess, Derived
<1> DEFINE kept == {n \in DOMAIN candidates : Keeps(n)}
<1>2. /\ candidates' = [k \in kept |-> candidates[k]] /\ pc' = "report"
      /\ UNCHANGED <<source, lines, parsed>>
  BY DEF Postprocess
<1>3. kept \subseteq DOMAIN candidates /\ \A k \in kept : Keeps(k)
  OBVIOUS
<1> HIDE DEF kept
<1>4. DOMAIN candidates' = kept /\ \A k \in kept : candidates'[k] = candidates[k]
  BY <1>2
<1>5. \A k, n \in kept : n < k => candidates[k].node.start # candidates[n].node.start
  <2> SUFFICES ASSUME NEW k \in kept, NEW n \in kept, n < k,
                      candidates[k].node.start = candidates[n].node.start
               PROVE  FALSE
    OBVIOUS
  <2>1. candidates[k] = candidates[n]
    BY <1>1, <1>3, OnePerStart
  <2>2. Keeps(k) /\ Keeps(n) /\ n \in DOMAIN candidates
    BY <1>3
  <2>3. HasTraced(candidates[n])
    BY <2>2 DEF Keeps
  <2>4. ~Same(candidates[k], candidates[n])
    BY <2>2, <2>3 DEF Keeps
  <2> QED
    BY <2>1, <2>4 DEF Same
<1>6. \A k, n \in DOMAIN candidates' :
        candidates'[k].node.start = candidates'[n].node.start => k = n
  <2> SUFFICES ASSUME NEW k \in kept, NEW n \in kept,
                      candidates[k].node.start = candidates[n].node.start
               PROVE  k = n
    BY <1>4
  <2>1. ~(n < k) /\ ~(k < n)
    BY <1>5
  <2>2. k \in Nat /\ n \in Nat
    BY <1>1, <1>3
  <2> QED
    BY <2>1, <2>2
<1>7. \A k \in DOMAIN candidates' : Derived(pc', candidates'[k])
  BY <1>1, <1>2, <1>3, <1>4 DEF Derived
<1>8. DOMAIN candidates' \subseteq Nat
  BY <1>1, <1>3, <1>4
<1>9. /\ pc' \in Places /\ pc' \notin {"match", "postprocess"}
      /\ parsed' \in 0..source.copies
  BY <1>1, <1>2 DEF Places
<1> QED
  BY <1>2, <1>6, <1>7, <1>8, <1>9, StepInv

(* A step that keeps some of the candidates, each in its place.              *)
LEMMA ListStep ==
  ASSUME ListInv, pc \notin {"match", "postprocess"},
         UNCHANGED <<source, lines, parsed>>, pc' \in Places \ {"match", "postprocess"},
         DOMAIN candidates' \subseteq DOMAIN candidates,
         \A k \in DOMAIN candidates' : candidates'[k].node = candidates[k].node,
         \A k \in DOMAIN candidates' : Derived(pc', candidates'[k])
  PROVE  ListInv'
<1>1. /\ DOMAIN candidates \subseteq Nat /\ parsed \in 0..source.copies
      /\ \A k, n \in DOMAIN candidates :
           candidates[k].node.start = candidates[n].node.start => k = n
  BY DEF ListInv, OneInjectionPerStatement
<1>2. \A k, n \in DOMAIN candidates' :
        candidates'[k].node.start = candidates'[n].node.start => k = n
  BY <1>1
<1>3. parsed' \in 0..source.copies /\ DOMAIN candidates' \subseteq Nat
  BY <1>1
<1> QED
  BY <1>2, <1>3, StepInv
-----------------------------------------------------------------------------
(* Whatever is reported, a candidate that stays has a mark.                  *)
LEMMA ReportStep == ListInv /\ Report => ListInv'
<1> SUFFICES ASSUME ListInv, Report PROVE ListInv'
  OBVIOUS
<1>1. /\ source \in Sources /\ lines = Lines(source) /\ pc = "report"
      /\ \A k \in DOMAIN candidates : candidates[k] \in Printed
  BY DEF ListInv, Report, Derived
<1>2. PICK found \in SUBSET Variables :
        /\ candidates' = [k \in {v[1] : v \in found} |->
                            Marked(candidates[k], {v[2] : v \in {w \in found : w[1] = k}})]
        /\ pc' = IF found = {} THEN "done" ELSE "choose"
  BY DEF Report
<1> DEFINE marks(k) == {v[2] : v \in {w \in found : w[1] = k}}
           D == {v[1] : v \in found}
<1>3. \A v \in found : v[1] \in DOMAIN candidates /\ v[2] \in Traceable(candidates[v[1]])
  BY DEF Variables
<1>4. \A k \in D : k \in DOMAIN candidates /\ marks(k) \in SUBSET Traceable(candidates[k]) /\ marks(k) # {}
  BY <1>3
<1>5. candidates' = [k \in D |-> Marked(candidates[k], marks(k))]
  BY <1>2
<1>6. found = {} => D = {}
  OBVIOUS
<1> HIDE DEF marks, D
<1>7. DOMAIN candidates' = D /\ \A k \in D : candidates'[k] = Marked(candidates[k], marks(k))
  BY <1>5
<1>8. \A k \in D : candidates'[k].node = candidates[k].node
  <2> TAKE k \in D
  <2>1. IsCandidate(candidates[k])
    BY <1>1, <1>4, PrintedByTheRules, RulesShape
  <2> QED
    BY <1>7, <2>1, MarkedFields
<1>9. \A k \in DOMAIN candidates' : Derived(pc', candidates'[k])
  <2> SUFFICES ASSUME NEW k \in D PROVE Derived(pc', candidates'[k])
    BY <1>7
  <2>1. pc' = "choose"
    BY <1>2, <1>6
  <2>2. candidates[k] \in Printed /\ marks(k) \in Marks(candidates[k])
    BY <1>1, <1>4 DEF Marks
  <2>3. candidates'[k] = Marked(candidates[k], marks(k))
    BY <1>7
  <2> QED
    BY <2>1, <2>2, <2>3 DEF Derived
<1>10. DOMAIN candidates' \subseteq DOMAIN candidates
  BY <1>4, <1>7
<1>11. pc' \in Places \ {"match", "postprocess"} /\ UNCHANGED <<source, lines, parsed>>
  BY <1>2 DEF Report, Places
<1> QED
  BY <1>1, <1>7, <1>8, <1>9, <1>10, <1>11, ListStep

LEMMA ChooseStep == ListInv /\ ChooseCondExe => ListInv'
<1> SUFFICES ASSUME ListInv, ChooseCondExe PROVE ListInv'
  OBVIOUS
<1>1. /\ source \in Sources /\ lines = Lines(source) /\ pc = "choose"
      /\ \A k \in DOMAIN candidates :
           \E line \in Printed : \E M \in Marks(line) : candidates[k] = Marked(line, M)
  BY DEF ListInv, ChooseCondExe, Derived
<1>2. /\ candidates' = [k \in DOMAIN candidates |-> Chosen(candidates[k])]
      /\ pc' = "nested" /\ UNCHANGED <<source, lines, parsed>>
  BY DEF ChooseCondExe
<1>3. ASSUME NEW k \in DOMAIN candidates
      PROVE  candidates'[k].node = candidates[k].node /\ Derived(pc', candidates'[k])
  <2>1. PICK line \in Printed : \E M \in Marks(line) : candidates[k] = Marked(line, M)
    BY <1>1
  <2>2. PICK M \in Marks(line) : candidates[k] = Marked(line, M)
    BY <2>1
  <2>3. ByTheRules(line)
    BY <1>1, PrintedByTheRules
  <2>4. PICK N \in ChosenMarks(line) : Chosen(Marked(line, M)) = Marked(line, N)
    BY <2>3, ChosenMarked
  <2>5. candidates'[k] = Marked(line, N)
    BY <1>2, <2>2, <2>4
  <2>6. candidates[k].node = line.node /\ candidates'[k].node = line.node
    BY <2>2, <2>3, <2>5, RulesShape, MarkedFields
  <2>7. Derived(pc', candidates'[k])
    BY <1>2, <2>5 DEF Derived
  <2> QED
    BY <2>6, <2>7
<1>4. DOMAIN candidates' = DOMAIN candidates
  BY <1>2
<1>5. pc' \in Places \ {"match", "postprocess"}
  BY <1>2 DEF Places
<1> QED
  BY <1>1, <1>2, <1>3, <1>4, <1>5, ListStep

LEMMA NestedStep == ListInv /\ ResolveNested => ListInv'
<1> SUFFICES ASSUME ListInv, ResolveNested PROVE ListInv'
  OBVIOUS
<1>1. pc = "nested" /\ \A k \in DOMAIN candidates : Derived(pc, candidates[k])
  BY DEF ListInv, ResolveNested
<1> DEFINE kept == {n \in DOMAIN candidates : \A root \in Roots : n \notin Dropped(root)}
<1>2. /\ candidates' = [k \in kept |-> candidates[k]]
      /\ pc' = "process" /\ UNCHANGED <<source, lines, parsed>>
  BY DEF ResolveNested
<1>3. kept \subseteq DOMAIN candidates
  OBVIOUS
<1> HIDE DEF kept
<1>4. DOMAIN candidates' = kept /\ \A k \in kept : candidates'[k] = candidates[k]
  BY <1>2
<1>5. \A k \in DOMAIN candidates' : Derived(pc', candidates'[k])
  <2> SUFFICES ASSUME NEW k \in kept PROVE Derived(pc', candidates'[k])
    BY <1>4
  <2>1. Derived("nested", candidates[k])
    BY <1>1, <1>3
  <2> QED
    BY <1>2, <1>4, <2>1 DEF Derived
<1>6. pc' \in Places \ {"match", "postprocess"}
  BY <1>2 DEF Places
<1> QED
  BY <1>1, <1>2, <1>3, <1>4, <1>5, <1>6, ListStep

LEMMA ProcessStep == ListInv /\ ProcessTraceVars => ListInv'
<1> SUFFICES ASSUME ListInv, ProcessTraceVars PROVE ListInv'
  OBVIOUS
<1>1. /\ source \in Sources /\ lines = Lines(source) /\ pc = "process"
      /\ \A k \in DOMAIN candidates :
           \E line \in Printed : \E M \in ChosenMarks(line) : candidates[k] = Marked(line, M)
  BY DEF ListInv, ProcessTraceVars, Derived
<1>2. /\ candidates' = [k \in DOMAIN candidates |-> Processed(candidates[k])]
      /\ pc' = "locate" /\ UNCHANGED <<source, lines, parsed>>
  BY DEF ProcessTraceVars
<1>3. ASSUME NEW k \in DOMAIN candidates
      PROVE  candidates'[k].node = candidates[k].node /\ Derived(pc', candidates'[k])
  <2>1. PICK line \in Printed : \E M \in ChosenMarks(line) : candidates[k] = Marked(line, M)
    BY <1>1
  <2>2. PICK M \in ChosenMarks(line) : candidates[k] = Marked(line, M)
    BY <2>1
  <2>3. IsCandidate(candidates[k])
    BY <1>1, <2>2, PrintedByTheRules, RulesShape, MarkedFields
  <2>4. candidates'[k] = Processed(candidates[k])
    BY <1>2
  <2>5. candidates'[k].node = candidates[k].node
    BY <2>3, <2>4, ProcessedFields
  <2>6. Derived(pc', candidates'[k])
    BY <1>2, <2>2, <2>4 DEF Derived
  <2> QED
    BY <2>5, <2>6
<1>4. DOMAIN candidates' = DOMAIN candidates
  BY <1>2
<1>5. pc' \in Places \ {"match", "postprocess"}
  BY <1>2 DEF Places
<1> QED
  BY <1>1, <1>2, <1>3, <1>4, <1>5, ListStep

LEMMA InjectStep == ListInv /\ Inject => ListInv'
<1> SUFFICES ASSUME ListInv, Inject PROVE ListInv'
  OBVIOUS
<1>1. /\ pc \in {"locate", "rewrite"} /\ pc' \in {"rewrite", "done"}
      /\ UNCHANGED <<source, lines, parsed, candidates>>
      /\ \A k \in DOMAIN candidates : Derived(pc, candidates[k])
  BY DEF ListInv, Inject
<1>2. \A k \in DOMAIN candidates' : Derived(pc', candidates'[k])
  BY <1>1 DEF Derived
<1>3. pc' \in Places \ {"match", "postprocess"}
  BY <1>1 DEF Places
<1> QED
  BY <1>1, <1>2, <1>3, ListStep

LEMMA StutterStep == ListInv /\ UNCHANGED list => ListInv'
<1> SUFFICES ASSUME ListInv, UNCHANGED list PROVE ListInv'
  OBVIOUS
<1>1. UNCHANGED <<source, lines, pc, parsed, candidates>>
  BY DEF list
<1> QED
  BY <1>1, StepInv DEF ListInv, OneInjectionPerStatement

THEOREM ListInvariant == ListSpec => []ListInv
<1>1. ListInv /\ [Prepare \/ Inject]_list => ListInv'
  BY MatchStep, PostprocessStep, ReportStep, ChooseStep, NestedStep, ProcessStep, InjectStep,
     StutterStep DEF Prepare
<1> QED
  BY <1>1, InitInv, PTL DEF ListSpec
-----------------------------------------------------------------------------
(* Type correctness: every candidate is one of the lines, without the tokens *)
(* that it has lost, and its tokens are tagged and have orders that are left.*)
THEOREM TypeCorrect == ListSpec => []TypeOK
  BY ListInvariant, InvImpliesType, PTL

(* However often a file is compiled and whatever is reported, a statement is *)
(* injected once (postprocessapm in runapm.py).                              *)
THEOREM InjectsOnce == ListSpec => []OneInjectionPerStatement
<1>1. ListInv => OneInjectionPerStatement
  BY DEF ListInv
<1> QED
  BY <1>1, ListInvariant, PTL

(* Of every condition that is injected a clause is dropped, of a COND_EXEC   *)
(* exactly one and never the only one, whatever the taint analysis reports.  *)
THEOREM Drops == ListSpec => []EveryInjectionDrops
  BY ListInvariant, InvImpliesDrops, PTL
-----------------------------------------------------------------------------
(* The tokens of a condition that ends with token m, and the clauses.        *)
ClausesTile(c, m) ==
  /\ 1..m \subseteq c.orders
  /\ \A order \in c.orders :
       LET with == {clause \in Clauses(c) : order \in clause[1]..clause[2] - 1}
       IN IF order \in 1..m THEN \E clause : with = {clause} ELSE with = {}

ConditionsTiled ==
  pc = "locate" =>
    \A k \in DOMAIN candidates :
      \E line \in Printed : \E m \in Nat :
        line.node = candidates[k].node /\ ConditionEnds(line, m) /\ ClausesTile(candidates[k], m)

LEMMA PreparedTile ==
  ASSUME NEW line, ByTheRules(line), NEW M \in SUBSET Traceable(line), NEW d,
         d = Processed(Marked(line, M))
  PROVE  \E m \in Nat : ConditionEnds(line, m) /\ ClausesTile(d, m)
<1>1. PICK m \in Nat, e \in Nat :
        /\ m < e
        /\ OrdersWith(d, {"logic"}) \subseteq 2..m
        /\ OrdersWith(d, {"logic"}) = OrdersWith(line, {"logic"})
        /\ Stops(d) = OrdersWith(d, {"logic"}) \cup {e}
        /\ \A id \in line.ids :
             id.tag \in Traced /\ id.order \notin OrdersWith(line, AssignTags) => id.order \in 1..m
        /\ ConditionEnds(line, m) /\ 1..m \subseteq d.orders
        /\ \A order \in d.orders : order < e => order <= m
  BY PreparedCondition
<1>2. Stops(d) \subseteq 1..e /\ \A stop \in Stops(d) : stop <= e
  BY <1>1
<1>3. \A clause \in Clauses(d) :
        clause[1] \in Nat /\ clause[2] \in Nat /\ 1 <= clause[1] /\ clause[2] <= e
  BY <1>2, ClauseShape
<1> DEFINE with(order) == {clause \in Clauses(d) : order \in clause[1]..clause[2] - 1}
<1>4. ASSUME NEW order \in 1..m PROVE \E clause : with(order) = {clause}
  <2>1. PICK p \in Clauses(d) : p[1] <= order /\ order < p[2]
    BY <1>1, ClauseExists
  <2>2. Stops(d) \subseteq 2..e
    BY <1>1
  <2>3. \A q \in Clauses(d) : q[1] <= order /\ order < q[2] => q = p
    BY <2>1, <2>2, ClauseUnique
  <2>4. \A q \in Clauses(d) : order \in q[1]..q[2] - 1 <=> q[1] <= order /\ order < q[2]
    BY <1>3
  <2> QED
    BY <2>1, <2>3, <2>4, Zenon
<1>5. ASSUME NEW order \in d.orders, order \notin 1..m PROVE with(order) = {}
  BY <1>1, <1>3, <1>5
<1> QED
  BY <1>1, <1>4, <1>5 DEF ClausesTile

LEMMA InvImpliesTiled == ListInv => ConditionsTiled
<1> SUFFICES ASSUME ListInv, pc = "locate", NEW k \in DOMAIN candidates
             PROVE  \E line \in Printed : \E m \in Nat :
                      /\ line.node = candidates[k].node /\ ConditionEnds(line, m)
                      /\ ClausesTile(candidates[k], m)
  BY DEF ConditionsTiled
<1> DEFINE c == candidates[k]
<1>1. source \in Sources /\ lines = Lines(source) /\ Derived("locate", c)
  BY DEF ListInv
<1> HIDE DEF c
<1>2. PICK line \in Printed : \E M \in ChosenMarks(line) : c = Processed(Marked(line, M))
  BY <1>1 DEF Derived
<1>3. PICK M \in ChosenMarks(line) : c = Processed(Marked(line, M))
  BY <1>2
<1>4. ByTheRules(line)
  BY <1>1, PrintedByTheRules
<1>5. M \in SUBSET Traceable(line)
  BY DEF ChosenMarks, Marks
<1>6. \E m \in Nat : ConditionEnds(line, m) /\ ClausesTile(c, m)
  BY <1>3, <1>4, <1>5, PreparedTile
<1>7. c.node = line.node
  <2> DEFINE e == Marked(line, M)
  <2>1. IsCandidate(e) /\ e.node = line.node
    BY <1>4, RulesShape, MarkedFields
  <2> HIDE DEF e
  <2>2. c = Processed(e)
    BY <1>3 DEF e
  <2> QED
    BY <2>1, <2>2, ProcessedFields
<1> QED
  BY <1>6, <1>7 DEF c

(* Of every condition that is injected, of any length and whatever stands    *)
(* behind it, each token is in exactly one of the clauses that getConds cuts *)
(* out, and no token of the body is in one.                                  *)
THEOREM ClausesExact == ListSpec => []ConditionsTiled
  BY ListInvariant, InvImpliesTiled, PTL
-----------------------------------------------------------------------------
(* The rewriting (Rewriter).  It only reads the list, so that what has been  *)
(* proved of the list is true of the rewriting.                              *)
THEOREM PreparesList == Spec => ListSpec
<1>1. Init => ListInit
  BY DEF Init
<1>2. [Next]_vars => [Prepare \/ Inject]_list
  BY DEF Next, Locate, Rewrite, vars
<1> QED
  BY <1>1, <1>2, PTL DEF Spec, ListSpec

(* All operations that there are on a file, and where they lie.              *)
AllOperations == UNION {OperationsOf(k, candidates[k]) : k \in DOMAIN candidates}
NoneBeginsBody == \A c, d \in {candidates[k] : k \in DOMAIN candidates} : ~BeginsBody(c, d)

(* The positions of a candidate, and of two of them.                         *)
LEMMA CandidatesInText ==
  ASSUME ListInv
  PROVE  /\ Len(FileText) \in Nat /\ DOMAIN FileText = 1..Len(FileText)
         /\ \A k \in DOMAIN candidates :
              LET node == candidates[k].node
              IN /\ node.start \in Nat \ {0} /\ node.bodyStart = node.start + 4
                 /\ node.end \in node.bodyStart..Len(FileText)
         /\ \A k, n \in DOMAIN candidates :
              LET outer == candidates[k].node
                  inner == candidates[n].node
              IN outer.start < inner.start =>
                   /\ inner.start >= outer.bodyStart
                   /\ inner.start = outer.bodyStart => ~IsCompound(outer.stmt.body[1])
                   /\ inner.end <= outer.end \/ outer.end < inner.start
<1>1. source \in Sources /\ lines = Lines(source)
  BY DEF ListInv
<1>2. /\ Len(FileText) \in Nat /\ DOMAIN FileText = 1..Len(FileText)
      /\ \A node \in Statements(source) :
           /\ node.start \in Nat \ {0} /\ node.bodyStart = node.start + 4
           /\ node.end \in node.bodyStart..Len(FileText)
      /\ \A outer, inner \in Statements(source) :
           outer.start < inner.start =>
             /\ inner.start >= outer.bodyStart
             /\ inner.start = outer.bodyStart => ~IsCompound(outer.stmt.body[1])
             /\ inner.end <= outer.end \/ outer.end < inner.start
  BY <1>1, NodesInText, Zenon DEF FileText
<1>3. \A k \in DOMAIN candidates : candidates[k].node \in Statements(source)
  <2> SUFFICES ASSUME NEW k \in DOMAIN candidates
               PROVE  candidates[k].node \in Statements(source)
    OBVIOUS
  <2>1. pc \in Places /\ Derived(pc, candidates[k])
    BY DEF ListInv
  <2>2. PICK line \in Printed : candidates[k].node = line.node
    BY <1>1, <2>1, DerivedIsLine
  <2>3. \A j \in DOMAIN Lines(source) : Lines(source)[j].node \in Statements(source)
    BY <1>1, LinesByTheRules, Zenon
  <2> QED
    BY <1>1, <2>2, <2>3 DEF Printed
<1> QED
  BY <1>2, <1>3

(* What the operations of a candidate are, by the place of each.             *)
LEMMA OperationPlaces ==
  ASSUME NEW k, NEW c, NEW op \in OperationsOf(k, c)
  PROVE  \/ op.at = 2 * c.node.end + 1 /\ op.to = 0
         \/ op = CondOperation(k, c) /\ op.at = 2 * c.node.start /\ op.to = c.node.start + 2
         \/ op.at = 2 * c.node.bodyStart + 1 /\ op.to = 0 /\ IsCompound(c.node.stmt.body[1])
         \/ op.at = 2 * c.node.bodyStart /\ op.to = 0 /\ HasCheck(c)
<1>1. \A p, w : Insert(k, p, w).at = p /\ Insert(k, p, w).to = 0
  BY DEF Insert
<1>2. \A p, q, w : Replace(k, p, q, w).at = p /\ Replace(k, p, q, w).to = q
  BY DEF Replace
<1>3. EndOperation(k, c).at = 2 * c.node.end + 1 /\ EndOperation(k, c).to = 0
  <2>1. \E w : EndOperation(k, c) = Insert(k, 2 * c.node.end + 1, w)
    BY Zenon DEF EndOperation, After
  <2> QED
    BY <1>1, <2>1
<1>4. CondOperation(k, c).at = 2 * c.node.start /\ CondOperation(k, c).to = c.node.start + 2
  <2>1. \E w : CondOperation(k, c) = Replace(k, 2 * c.node.start, c.node.start + 2, w)
    BY Zenon DEF CondOperation, Before
  <2> QED
    BY <1>2, <2>1
<1>5. /\ Check(k, c).to = 0
      /\ Check(k, c).at = IF IsCompound(c.node.stmt.body[1]) THEN 2 * c.node.bodyStart + 1
                                                            ELSE 2 * c.node.bodyStart
  BY <1>1, Zenon DEF Check, Before, After
<1>6. \/ op = EndOperation(k, c) \/ op = CondOperation(k, c)
      \/ op = Check(k, c) /\ HasCheck(c)
  BY Zenon DEF OperationsOf
<1> QED
  BY <1>3, <1>4, <1>5, <1>6

LEMMA OperationsInText ==
  ASSUME ListInv, NEW op \in AllOperations
  PROVE  /\ op.at \in 2..2 * Len(FileText) + 1 /\ op.to \in 0..Len(FileText)
         /\ op.to # 0 => op.at < After(op.to)
<1>1. PICK k \in DOMAIN candidates : op \in OperationsOf(k, candidates[k])
  BY DEF AllOperations
<1> DEFINE node == candidates[k].node
<1>2. /\ Len(FileText) \in Nat
      /\ node.start \in Nat \ {0} /\ node.bodyStart = node.start + 4
      /\ node.end \in node.bodyStart..Len(FileText)
  BY CandidatesInText
<1>3. \/ op.at = 2 * node.end + 1 /\ op.to = 0
      \/ op.at = 2 * node.start /\ op.to = node.start + 2
      \/ op.at \in {2 * node.bodyStart, 2 * node.bodyStart + 1} /\ op.to = 0
  BY <1>1, OperationPlaces
<1> DEFINE length == Len(FileText)
           first == node.start
           last == node.end
<1>4. /\ length \in Nat /\ first \in Nat /\ last \in Nat
      /\ 1 <= first /\ first + 4 <= last /\ last <= length /\ node.bodyStart = first + 4
  BY <1>2
<1>5. \/ op.at = 2 * last + 1 /\ op.to = 0
      \/ op.at = 2 * first /\ op.to = first + 2
      \/ op.at \in {2 * (first + 4), 2 * (first + 4) + 1} /\ op.to = 0
  BY <1>3, <1>4
<1> HIDE DEF length, first, last
<1>6. op.at \in 2..2 * length + 1 /\ op.to \in 0..length /\ (op.to # 0 => op.at < After(op.to))
  <2>1. CASE op.at = 2 * last + 1 /\ op.to = 0
    BY <1>4, <2>1
  <2>2. CASE op.at = 2 * first /\ op.to = first + 2
    BY <1>4, <2>2 DEF After
  <2>3. CASE op.at \in {2 * (first + 4), 2 * (first + 4) + 1} /\ op.to = 0
    BY <1>4, <2>3
  <2> QED
    BY <1>5, <2>1, <2>2, <2>3
<1> QED
  BY <1>6 DEF length

(* The operations of two candidates: what one of them replaces ends before   *)
(* the body, and no operation of the other is in front of that.              *)
LEMMA OperationsApart ==
  ASSUME ListInv, pc \notin {"match", "postprocess"}, NoneBeginsBody,
         NEW op \in AllOperations, NEW other \in AllOperations, other # op, op.to # 0
  PROVE  other.at < op.at \/ other.at >= After(op.to)
<1>1. PICK k \in DOMAIN candidates : op \in OperationsOf(k, candidates[k])
  BY DEF AllOperations
<1>2. PICK n \in DOMAIN candidates : other \in OperationsOf(n, candidates[n])
  BY DEF AllOperations
<1> DEFINE c == candidates[k]
           d == candidates[n]
           s == c.node.start
           t == d.node.start
<1>3. op = CondOperation(k, c) /\ op.at = 2 * s /\ op.to = s + 2
  BY <1>1, OperationPlaces
<1>4. After(op.to) = 2 * (s + 2) + 1
  BY <1>3 DEF After
<1>5. \/ other.at = 2 * d.node.end + 1
      \/ other = CondOperation(n, d) /\ other.at = 2 * t
      \/ other.at = 2 * d.node.bodyStart + 1 /\ IsCompound(d.node.stmt.body[1])
      \/ other.at = 2 * d.node.bodyStart /\ HasCheck(d)
  BY <1>2, OperationPlaces
<1>6. /\ s \in Nat \ {0} /\ c.node.bodyStart = s + 4 /\ c.node.end \in Int /\ c.node.end >= s + 4
      /\ t \in Nat \ {0} /\ d.node.bodyStart = t + 4 /\ d.node.end \in Int /\ d.node.end >= t + 4
  BY CandidatesInText
<1>7. s < t => t >= s + 4
  BY <1>6, CandidatesInText
<1>8. t < s => /\ s >= t + 4
               /\ s = t + 4 => ~IsCompound(d.node.stmt.body[1])
               /\ c.node.end <= d.node.end \/ d.node.end < s
  BY <1>6, CandidatesInText
<1>9. s = t => k = n
  BY DEF ListInv, OneInjectionPerStatement
<1>10. HasCheck(d) => s # t + 4
  BY <1>6 DEF NoneBeginsBody, BeginsBody
<1> HIDE DEF s, t, c, d
<1>11. CASE s = t
  <2>1. op = CondOperation(n, d)
    BY <1>3, <1>9, <1>11 DEF c, d, s, t
  <2> QED
    BY <1>3, <1>4, <1>5, <1>6, <1>11, <2>1
<1>12. CASE s < t
  BY <1>3, <1>4, <1>5, <1>6, <1>7, <1>12
<1>13. CASE t < s
  BY <1>3, <1>4, <1>5, <1>6, <1>8, <1>10, <1>13
<1> QED
  BY <1>6, <1>11, <1>12, <1>13
-----------------------------------------------------------------------------
(* What the operations of a set remove.                                      *)
RemovedBy(ops) == {k \in DOMAIN FileText : \E op \in ops : Before(k) >= op.at /\ k <= op.to}

(* The invariant: what has been inserted and removed is by the operations    *)
(* that are not left.                                                        *)
RewriteInv ==
  /\ ListInv
  /\ buffer = [inserted |-> buffer.inserted, removed |-> buffer.removed, garbled |-> buffer.garbled]
  /\ DOMAIN buffer.inserted = 2..2 * Len(FileText) + 1
  /\ pc = "done" => operations = {}
  /\ pc \notin {"rewrite", "done"} =>
       /\ operations = {} /\ ~buffer.garbled /\ buffer.removed = {}
       /\ \A p \in DOMAIN buffer.inserted : buffer.inserted[p] = <<>>
  /\ pc \in {"rewrite", "done"} =>
       /\ operations \subseteq AllOperations
       /\ \A p \in DOMAIN buffer.inserted :
            buffer.inserted[p] # <<>> => \E op \in AllOperations \ operations : op.at = p
       /\ buffer.removed = RemovedBy(AllOperations \ operations)
       /\ NoneBeginsBody => ~buffer.garbled

LEMMA RewriteInit == Init => RewriteInv
<1> SUFFICES ASSUME Init PROVE RewriteInv
  OBVIOUS
<1>1. ListInv /\ pc = "match"
  BY InitInv DEF Init, ListInit
<1>2. buffer = [inserted |-> [p \in 2..2 * Len(FileText) + 1 |-> <<>>], removed |-> {}, garbled |-> FALSE]
  BY DEF Init
<1>3. operations = {}
  BY DEF Init
<1> QED
  BY <1>1, <1>2, <1>3 DEF RewriteInv

LEMMA PrepareKeeps == RewriteInv /\ Prepare /\ UNCHANGED <<operations, buffer>> => RewriteInv'
<1> SUFFICES ASSUME RewriteInv, Prepare, UNCHANGED <<operations, buffer>> PROVE RewriteInv'
  OBVIOUS
<1>1. ListInv'
  BY MatchStep, PostprocessStep, ReportStep, ChooseStep, NestedStep, ProcessStep DEF RewriteInv, Prepare
<1>2. pc \notin {"rewrite", "done"} /\ source' = source
  BY DEF Prepare, Match, Postprocess, Report, ChooseCondExe, ResolveNested, ProcessTraceVars
<1>3. FileText' = FileText
  BY <1>2 DEF FileText
<1>4. /\ operations' = {} /\ buffer' = buffer /\ ~buffer.garbled /\ buffer.removed = {}
      /\ \A p \in DOMAIN buffer.inserted : buffer.inserted[p] = <<>>
  BY <1>2 DEF RewriteInv
<1>5. pc' \in {"rewrite", "done"} => AllOperations' = {}
  <2>1. pc' \in {"rewrite", "done"} => candidates' = [k \in {} |-> Marked(candidates[k], {})]
    BY DEF Prepare, Match, Postprocess, Report, ChooseCondExe, ResolveNested, ProcessTraceVars
  <2> QED
    BY <2>1 DEF AllOperations
<1>6. pc' \in {"rewrite", "done"} => buffer'.removed = RemovedBy(AllOperations \ operations)'
  BY <1>4, <1>5 DEF RemovedBy
<1> QED
  BY <1>1, <1>3, <1>4, <1>6 DEF RewriteInv

LEMMA LocateKeeps == RewriteInv /\ Locate => RewriteInv'
<1> SUFFICES ASSUME RewriteInv, Locate PROVE RewriteInv'
  OBVIOUS
<1>1. ListInv'
  BY InjectStep DEF RewriteInv, Locate
<1>2. /\ pc = "locate" /\ pc' = "rewrite" /\ source' = source /\ candidates' = candidates
      /\ buffer' = buffer /\ operations' = AllOperations
  BY DEF Locate, Inject, AllOperations
<1>3. FileText' = FileText /\ AllOperations' = AllOperations
  BY <1>2 DEF FileText, AllOperations
<1>4. /\ ~buffer.garbled /\ buffer.removed = {}
      /\ \A p \in DOMAIN buffer.inserted : buffer.inserted[p] = <<>>
  BY <1>2 DEF RewriteInv
<1>5. buffer'.removed = RemovedBy(AllOperations \ operations)'
  BY <1>2, <1>3, <1>4 DEF RemovedBy
<1> QED
  BY <1>1, <1>2, <1>3, <1>4, <1>5 DEF RewriteInv

LEMMA RewriteKeeps == RewriteInv /\ Rewrite => RewriteInv'
<1> SUFFICES ASSUME RewriteInv, Rewrite PROVE RewriteInv'
  OBVIOUS
<1>1. ListInv'
  BY InjectStep DEF RewriteInv, Rewrite
<1>2. PICK op \in operations : buffer' = Apply(op) /\ operations' = operations \ {op}
  BY DEF Rewrite
<1>3. pc = "rewrite" /\ pc' \in {"rewrite", "done"} /\ source' = source /\ candidates' = candidates
  BY DEF Rewrite, Inject
<1>4. /\ FileText' = FileText /\ AllOperations' = AllOperations
      /\ NoneBeginsBody' = NoneBeginsBody
  BY <1>3 DEF FileText, AllOperations, NoneBeginsBody
<1>5. /\ ListInv /\ operations \subseteq AllOperations
      /\ buffer = [inserted |-> buffer.inserted, removed |-> buffer.removed, garbled |-> buffer.garbled]
      /\ DOMAIN buffer.inserted = 2..2 * Len(FileText) + 1
      /\ buffer.removed = RemovedBy(AllOperations \ operations)
      /\ \A p \in DOMAIN buffer.inserted :
           buffer.inserted[p] # <<>> => \E o \in AllOperations \ operations : o.at = p
      /\ NoneBeginsBody => ~buffer.garbled
  BY <1>3 DEF RewriteInv
<1>6. op \in AllOperations /\ op.at \in DOMAIN buffer.inserted
  BY <1>5, OperationsInText
<1> DEFINE words == buffer.inserted[op.at] \o op.words
           behind == {k \in DOMAIN FileText : Before(k) >= op.at /\ k <= op.to}
           hit == op.to # 0 /\ buffer.inserted[op.at] # <<>>
<1>7. /\ buffer'.inserted = [buffer.inserted EXCEPT ![op.at] = words]
      /\ buffer'.removed = buffer.removed \cup behind
      /\ buffer'.garbled = (buffer.garbled \/ hit)
      /\ buffer' = [inserted |-> buffer'.inserted, removed |-> buffer'.removed, garbled |-> buffer'.garbled]
  <2> HIDE DEF words, behind, hit
  <2>1. buffer' = [buffer EXCEPT !.inserted[op.at] = words, !.removed = @ \cup behind,
                                 !.garbled = @ \/ hit]
    BY <1>2 DEF Apply, words, behind, hit
  <2> QED
    BY <1>5, <2>1
<1>8. buffer'.removed = RemovedBy(AllOperations \ operations)'
  <2> HIDE DEF words, hit
  <2>1. (AllOperations \ operations)' = (AllOperations \ operations) \cup {op}
    BY <1>2, <1>4, <1>6
  <2>2. RemovedBy((AllOperations \ operations) \cup {op}) = RemovedBy(AllOperations \ operations) \cup behind
    BY DEF RemovedBy
  <2>3. RemovedBy(AllOperations \ operations)' = RemovedBy((AllOperations \ operations) \cup {op})
    BY <1>4, <2>1 DEF RemovedBy
  <2> QED
    BY <1>5, <1>7, <2>2, <2>3
<1> HIDE DEF words, behind
<1>9. DOMAIN buffer'.inserted = DOMAIN buffer.inserted
      /\ \A p \in DOMAIN buffer.inserted : p # op.at => buffer'.inserted[p] = buffer.inserted[p]
  BY <1>7
<1>10. \A p \in DOMAIN buffer.inserted :
         buffer'.inserted[p] # <<>> => \E o \in AllOperations \ operations' : o.at = p
  <2> SUFFICES ASSUME NEW p \in DOMAIN buffer.inserted, buffer'.inserted[p] # <<>>
               PROVE  \E o \in AllOperations \ operations' : o.at = p
    OBVIOUS
  <2>1. CASE p = op.at
    BY <1>2, <1>6, <2>1
  <2>2. CASE p # op.at
    BY <1>2, <1>5, <1>9, <2>2
  <2> QED
    BY <2>1, <2>2
<1>11. NoneBeginsBody => ~hit
  <2> SUFFICES ASSUME NoneBeginsBody, op.to # 0, buffer.inserted[op.at] # <<>> PROVE FALSE
    OBVIOUS
  <2>1. PICK other \in AllOperations \ operations : other.at = op.at
    BY <1>5, <1>6
  <2>2. other.at < op.at \/ other.at >= After(op.to)
    BY <1>2, <1>3, <1>5, <1>6, <2>1, OperationsApart
  <2>3. op.at \in Int /\ op.to \in Int /\ op.at < After(op.to)
    BY <1>5, <1>6, OperationsInText
  <2> QED
    BY <2>1, <2>2, <2>3 DEF After
<1>12. pc' = "done" => operations' = {}
  BY DEF Rewrite
<1> HIDE DEF hit
<1> QED
  BY <1>1, <1>2, <1>3, <1>4, <1>5, <1>7, <1>8, <1>9, <1>10, <1>11, <1>12 DEF RewriteInv
-----------------------------------------------------------------------------
THEOREM RewriteInvariant == Spec => []RewriteInv
<1>1. RewriteInv /\ UNCHANGED vars => RewriteInv'
  <2> SUFFICES ASSUME RewriteInv, UNCHANGED vars PROVE RewriteInv'
    OBVIOUS
  <2>1. UNCHANGED <<list, operations, buffer>> /\ UNCHANGED <<source, lines, pc, parsed, candidates>>
    BY DEF vars, list
  <2>2. ListInv'
    BY <2>1, StutterStep DEF RewriteInv
  <2> QED
    BY <2>1, <2>2 DEF RewriteInv, FileText, AllOperations, NoneBeginsBody, RemovedBy
<1>2. RewriteInv /\ [Next]_vars => RewriteInv'
  BY <1>1, PrepareKeeps, LocateKeeps, RewriteKeeps DEF Next
<1> QED
  BY <1>2, RewriteInit, PTL DEF Spec

LEMMA InvImpliesPositions == RewriteInv => PositionsOK
<1> SUFFICES ASSUME RewriteInv PROVE PositionsOK
  OBVIOUS
<1>1. ListInv /\ operations \subseteq AllOperations
  BY DEF RewriteInv
<1>2. \A op \in operations : op.at \in DOMAIN buffer.inserted /\ op.to <= Len(FileText)
  BY <1>1, OperationsInText, CandidatesInText DEF RewriteInv
<1>3. buffer.removed \subseteq DOMAIN FileText
  BY DEF RewriteInv, RemovedBy, ListInv
<1> QED
  BY <1>2, <1>3 DEF PositionsOK

LEMMA InvImpliesApart == RewriteInv => EditsApart
<1> SUFFICES ASSUME RewriteInv, NoneBeginsBody
             PROVE  /\ \A op \in operations : \A other \in operations \ {op} :
                         op.to # 0 => other.at < op.at \/ other.at >= After(op.to)
                    /\ ~buffer.garbled
  BY DEF EditsApart, NoneBeginsBody
<1>1. ListInv /\ operations \subseteq AllOperations
      /\ (pc \notin {"rewrite", "done"} => operations = {}) /\ ~buffer.garbled
  BY DEF RewriteInv
<1>2. \A op \in operations : \A other \in operations \ {op} :
        op.to # 0 => other.at < op.at \/ other.at >= After(op.to)
  BY <1>1, OperationsApart
<1> QED
  BY <1>1, <1>2

(* What a finished file has lost are the heads of its candidates.            *)
HeadsReplaced ==
  pc = "done" =>
    buffer.removed =
      UNION {candidates[k].node.start..candidates[k].node.start + 2 : k \in DOMAIN candidates}

LEMMA InvImpliesHeads == RewriteInv => HeadsReplaced
<1> SUFFICES ASSUME RewriteInv, pc = "done"
             PROVE  buffer.removed =
                      UNION {candidates[k].node.start..candidates[k].node.start + 2 : k \in DOMAIN candidates}
  BY DEF HeadsReplaced
<1>1. ListInv /\ buffer.removed = RemovedBy(AllOperations)
  BY DEF RewriteInv
<1>2. /\ Len(FileText) \in Nat /\ DOMAIN FileText = 1..Len(FileText)
      /\ \A k \in DOMAIN candidates :
           LET node == candidates[k].node
           IN /\ node.start \in Nat \ {0} /\ node.bodyStart = node.start + 4
              /\ node.end \in node.bodyStart..Len(FileText)
  BY <1>1, CandidatesInText
<1>3. ASSUME NEW word \in buffer.removed
      PROVE  \E k \in DOMAIN candidates :
               word \in candidates[k].node.start..candidates[k].node.start + 2
  <2>1. PICK op \in AllOperations : Before(word) >= op.at /\ word <= op.to
    BY <1>1, <1>3 DEF RemovedBy
  <2>2. word \in Nat /\ 1 <= word
    BY <1>1, <1>2, <1>3 DEF RemovedBy
  <2>3. PICK k \in DOMAIN candidates : op \in OperationsOf(k, candidates[k])
    BY DEF AllOperations
  <2>4. \/ op.to = 0
        \/ op.at = 2 * candidates[k].node.start /\ op.to = candidates[k].node.start + 2
    BY <2>3, OperationPlaces
  <2>5. candidates[k].node.start \in Nat
    BY <1>2
  <2>6. word \in candidates[k].node.start..candidates[k].node.start + 2
    BY <2>1, <2>2, <2>4, <2>5 DEF Before
  <2> QED
    BY <2>6
<1>4. ASSUME NEW k \in DOMAIN candidates,
             NEW word \in candidates[k].node.start..candidates[k].node.start + 2
      PROVE  word \in buffer.removed
  <2> DEFINE op == CondOperation(k, candidates[k])
  <2>1. op \in AllOperations /\ op \in OperationsOf(k, candidates[k])
    BY DEF AllOperations, OperationsOf
  <2>2. op.at = 2 * candidates[k].node.start /\ op.to = candidates[k].node.start + 2
    BY DEF CondOperation, Replace, Before
  <2> HIDE DEF op
  <2> DEFINE first == candidates[k].node.start
             length == Len(FileText)
  <2>3. first \in Nat /\ 1 <= first /\ length \in Nat /\ first + 4 <= length
    BY <1>2
  <2>4. word \in first..first + 2 /\ op.at = 2 * first /\ op.to = first + 2
    BY <1>4, <2>2
  <2>5. DOMAIN FileText = 1..length
    BY <1>2
  <2> HIDE DEF first, length
  <2>6. word \in DOMAIN FileText /\ Before(word) >= op.at /\ word <= op.to
    BY <2>3, <2>4, <2>5 DEF Before
  <2> QED
    BY <1>1, <2>1, <2>6 DEF RemovedBy
<1> QED
  BY <1>3, <1>4

(* The operations lie in the text of the file, and nothing outside of it is  *)
(* removed (VisitIfStmt in nullCheckML.cpp, runRewriter in inject.py).       *)
THEOREM EditsInText == Spec => []PositionsOK
  BY RewriteInvariant, InvImpliesPositions, PTL

(* Unless a candidate begins where the body of another one does, what one    *)
(* operation replaces no other one touches, and nothing is removed where     *)
(* something has been inserted: the order in which operations at one place   *)
(* are applied (inject.py, line 101) cannot garble the text.                 *)
THEOREM NoEditMeetsAnother == Spec => []EditsApart
  BY RewriteInvariant, InvImpliesApart, PTL

(* In whichever order the operations are applied: of a finished file exactly *)
(* the heads of the candidates have been replaced, every other word of the   *)
(* source is still there (VisitIfStmt, VisitWhileStmt and VisitForStmt in    *)
(* nullCheckML.cpp, HandleTranslationUnit in rewriter.cpp).                  *)
THEOREM OnlyHeadsReplaced == Spec => []HeadsReplaced
  BY RewriteInvariant, InvImpliesHeads, PTL
=============================================================================
