---------------------------- MODULE CandidateList ----------------------------
(***************************************************************************)
(* The list of candidates of a source file, from the lines that the AST    *)
(* matcher prints to the list that is injected: post-processed (runapm.py),*)
(* reported by the taint analysis (external), prepared by preinject.py,    *)
(* and cut into clauses by the mutant locator (nullCheckML.cpp).           *)
(*                                                                         *)
(* A candidate is [pattern, ids, orders, node]: the tagged tokens [tag,    *)
(* order, crash], the orders of the tokens that it still has, and the      *)
(* statement with its positions.  It keeps its number when others are      *)
(* dropped.                                                                *)
(***************************************************************************)
EXTENDS MatchTags, Integers, Sequences, FiniteSets

CONSTANTS
  Sources,       \* the files, records with the field copies: how often each is compiled
  Statements(_), \* the statements of a file, with their positions
  Lines(_)       \* the candidates that a process of the matcher prints for a file

VARIABLES
  source, lines,  \* the file, and its lines
  pc,
  parsed,         \* how many entries of the compilation database are done
  candidates

list == <<source, lines, pc, parsed, candidates>>

IsTraced(id) == id.tag \in Traced
OrdersWith(c, tags) == {id.order : id \in {i \in c.ids : i.tag \in tags}}
-----------------------------------------------------------------------------
(* What the rules of test.grammar make of a statement.  The tokens of its    *)
(* condition have the orders 1 to m; behind them there is the body, with or  *)
(* without an else, or the left side of an assignment, which is a variable   *)
(* or a base with its field.                                                 *)
ConditionEnds(c, m) ==
  LET assigned == OrdersWith(c, AssignTags)
  IN \/ assigned = {} /\ c.orders = 0..m + (IF c.node.stmt.else = <<>> THEN 2 ELSE 4)
     \/ assigned = {m + 1} /\ c.orders = 0..m + 3 /\ c.node.stmt.else = <<>>
     \/ assigned = {m + 1, m + 3} /\ c.orders = 0..m + 5 /\ c.node.stmt.else = <<>>

ByTheRules(c) ==
  /\ c = [pattern |-> c.pattern, ids |-> c.ids, orders |-> c.orders, node |-> c.node]
  /\ c.pattern \in Patterns /\ c.orders \subseteq Nat
  /\ c.ids \subseteq [tag : Actions, order : c.orders, crash : {FALSE}]
  /\ \A i, j \in c.ids : i.order = j.order => i = j
  /\ \E m \in c.orders :
       /\ ConditionEnds(c, m)
       /\ OrdersWith(c, Traced \ AssignTags) \subseteq 1..m
       /\ OrdersWith(c, {"logic"}) \subseteq 2..m
  /\ \A field \in c.ids :
       field.tag \in FieldTags =>
         /\ \E base \in c.ids : base.tag \in BaseTags /\ base.order = field.order - 2
         /\ \A id \in c.ids : id.order # field.order - 1
  /\ c.pattern = "COND_EXEC" => OrdersWith(c, {"logic"}) # {}
  /\ c.pattern = "COND_ASSIGN" => OrdersWith(c, {"logic"}) = {}
  /\ c.pattern = "COND_ABORT" => OrdersWith(c, AssignTags) = {}

(* The matcher visits a statement once.                                      *)
ASSUME LinesByTheRules ==
  \A file \in Sources :
    /\ file.copies \in Nat \ {0}
    /\ LET printed == Lines(file)
       IN /\ printed \in Seq({printed[j] : j \in DOMAIN printed})
          /\ \A j \in DOMAIN printed : ByTheRules(printed[j]) /\ printed[j].node \in Statements(file)
          /\ \A i, j \in DOMAIN printed : printed[i].node.start = printed[j].node.start => i = j
-----------------------------------------------------------------------------
ListInit ==
  /\ source \in Sources
  /\ lines = Lines(source)
  /\ pc = "match"
  /\ parsed = 0
  /\ candidates = <<>>

(* One entry of the compilation database.                                    *)
Match ==
  /\ pc = "match"
  /\ parsed' = parsed + 1
  /\ candidates' = candidates \o lines
  /\ pc' = IF parsed' = source.copies THEN "postprocess" ELSE "match"
  /\ UNCHANGED <<source, lines>>
-----------------------------------------------------------------------------
(* postprocessapm: a line is kept if a variable is traced and no such line   *)
(* before is of the same pattern and place.                                  *)
HasTraced(c) == \E id \in c.ids : IsTraced(id)
Same(c, d) == c.node.start = d.node.start /\ c.pattern = d.pattern

(* A mistake to detect: duplicates are kept.                                 *)
KeepsAll(k) == HasTraced(candidates[k])
Keeps(k) ==
  /\ HasTraced(candidates[k])
  /\ \A n \in DOMAIN candidates :
       n < k /\ HasTraced(candidates[n]) => ~Same(candidates[k], candidates[n])

Postprocess ==
  /\ pc = "postprocess"
  /\ candidates' = [k \in {n \in DOMAIN candidates : Keeps(n)} |-> candidates[k]]
  /\ pc' = "report"
  /\ UNCHANGED <<source, lines, parsed>>

(* The taint analysis marks some of the variables that it looks for, and     *)
(* drops the candidates in which it has marked none.                         *)
Traceable(c) ==
  OrdersWith(c, CASE c.pattern = "COND_ASSIGN" -> AssignTags \ FieldTags
                  [] c.pattern = "COND_EXEC" -> (Traced \ AssignTags) \ FieldTags
                  [] OTHER -> Traced \ FieldTags)
Marked(c, orders) == [c EXCEPT !.ids = {[id EXCEPT !.crash = id.order \in orders] : id \in @}]

Variables == UNION {{k} \X Traceable(candidates[k]) : k \in DOMAIN candidates}

Report ==
  /\ pc = "report"
  /\ \E found \in SUBSET Variables :
       /\ candidates' = [k \in {v[1] : v \in found} |->
                           Marked(candidates[k], {v[2] : v \in {w \in found : w[1] = k}})]
       /\ pc' = IF found = {} THEN "done" ELSE "choose"
  /\ UNCHANGED <<source, lines, parsed>>
-----------------------------------------------------------------------------
(* preinject: chooseCondExe keeps the last marked variable of a COND_EXEC.   *)
Crashed(c) == {id.order : id \in {i \in c.ids : IsTraced(i) /\ i.crash}}

(* A mistake to detect: a COND_EXEC keeps all of its marks.                  *)
ChosenAll(c) == c
Chosen(c) ==
  IF c.pattern = "COND_EXEC"
  THEN Marked(c, {order \in Crashed(c) : \A other \in Crashed(c) : other <= order})
  ELSE c

ChooseCondExe ==
  /\ pc = "choose"
  /\ candidates' = [k \in DOMAIN candidates |-> Chosen(candidates[k])]
  /\ pc' = "nested"
  /\ UNCHANGED <<source, lines, parsed>>

(* isInside, and resolveNested, which passes the positions of fst and of the *)
(* body of snd in another order than isInside has its parameters.            *)
IsInside(fstBegin, sndBegin, fstEnd, sndEnd) == fstBegin > sndBegin /\ fstEnd < sndEnd

Around(k) ==
  {n \in DOMAIN candidates \ {k} :
     LET fst == candidates[k].node
         snd == candidates[n].node
     IN IsInside(fst.start, fst.end, snd.bodyStart, snd.bodyEnd)}
Within(k) == {n \in DOMAIN candidates : k \in Around(n)}
Roots == {k \in DOMAIN candidates : Around(k) = {} /\ Within(k) # {}}

(* Of a tree only its last level is kept.                                    *)
Dropped(root) ==
  LET tree == {root} \cup Within(root)
  IN {k \in tree : \E n \in tree : Cardinality(Around(n)) > Cardinality(Around(k))}

ResolveNested ==
  /\ pc = "nested"
  /\ candidates' = [k \in {n \in DOMAIN candidates : \A root \in Roots : n \notin Dropped(root)} |->
                      candidates[k]]
  /\ pc' = "process"
  /\ UNCHANGED <<source, lines, parsed>>

(* processTraceVars: what is assigned is forgotten, a COND_ASSIGN drops all  *)
(* of its condition, and a field is marked as its base is, which is the last *)
(* one before it.                                                            *)
Gone(c) == IF c.pattern = "COND_ABORT" THEN {} ELSE OrdersWith(c, AssignTags)

BaseCrashes(c, id) ==
  \E base \in c.ids :
    /\ base.tag \in BaseTags /\ base.order < id.order /\ base.crash
    /\ \A b \in c.ids : b.tag \in BaseTags /\ b.order < id.order => b.order <= base.order
Crashes(c, id) ==
  IF c.pattern = "COND_ASSIGN" THEN IsTraced(id)
  ELSE IF id.tag \in FieldTags THEN BaseCrashes(c, id) ELSE id.crash

(* A mistake to detect: of what is assigned only the tokens are dropped.     *)
ProcessedTokens(c) == [c EXCEPT !.orders = @ \ Gone(c)]
Processed(c) ==
  [c EXCEPT !.orders = @ \ Gone(c),
            !.ids = {[id EXCEPT !.crash = Crashes(c, id)] : id \in {i \in @ : i.order \notin Gone(c)}}]

ProcessTraceVars ==
  /\ pc = "process"
  /\ candidates' = [k \in DOMAIN candidates |-> Processed(candidates[k])]
  /\ pc' = "locate"
  /\ UNCHANGED <<source, lines, parsed>>

(* The mutant locator and the rewriter only read the list.                   *)
Inject ==
  /\ \/ pc = "locate" /\ pc' = "rewrite"
     \/ pc = "rewrite" /\ pc' \in {"rewrite", "done"}
  /\ UNCHANGED <<source, lines, parsed, candidates>>

Prepare == Match \/ Postprocess \/ Report \/ ChooseCondExe \/ ResolveNested \/ ProcessTraceVars

ListSpec == ListInit /\ [][Prepare \/ Inject]_list
-----------------------------------------------------------------------------
(* A mistake to detect: the else is not counted.                             *)
TokEndOffsetTwo(c) == 2

(* getConds: a clause ends where the next operator or the body begins, which *)
(* is counted from the end; a clause that a crash variable is in is traced.  *)
TokEndOffset(c) == IF c.node.stmt.else # <<>> THEN 4 ELSE 2

Stops(c) == OrdersWith(c, {"logic"}) \cup {Cardinality(c.orders) - TokEndOffset(c)}
Clauses(c) ==
  {clause \in ({1} \cup Stops(c)) \X Stops(c) :
     /\ clause[1] < clause[2]
     /\ \A other \in Stops(c) : ~(clause[1] < other /\ other < clause[2])}

HasTrace(c, clause) == \E order \in Crashed(c) : order \in clause[1]..clause[2] - 1
-----------------------------------------------------------------------------
(* Type correctness: every candidate is one of the lines, without the tokens *)
(* that it has lost.                                                         *)
TypeOK ==
  /\ pc \in {"match", "postprocess", "report", "choose", "nested", "process", "locate", "rewrite", "done"}
  /\ parsed \in 0..source.copies
  /\ \A k \in DOMAIN candidates :
       LET c == candidates[k]
       IN /\ \E j \in DOMAIN lines :
               LET line == lines[j]
               IN c.pattern = line.pattern /\ c.node = line.node /\ c.orders \subseteq line.orders
          /\ c.ids \subseteq [tag : Actions, order : c.orders, crash : BOOLEAN]

(***************************************************************************)
(* However often a file is compiled and whatever is reported, a statement  *)
(* is injected once.                                                       *)
(***************************************************************************)
OneInjectionPerStatement ==
  pc \notin {"match", "postprocess"} =>
    \A k, n \in DOMAIN candidates :
      candidates[k].node.start = candidates[n].node.start => k = n

(***************************************************************************)
(* Of a COND_EXEC exactly one clause is dropped, so that one check in the  *)
(* body can tell whether the injection has been triggered, and of the      *)
(* other patterns at least one; unless a COND_ASSIGN has no variable in    *)
(* its condition that could be traced, and its injection does nothing.     *)
(***************************************************************************)
EveryInjectionDrops ==
  pc = "locate" =>
    \A k \in DOMAIN candidates :
      LET c == candidates[k]
          dropped == {clause \in Clauses(c) : HasTrace(c, clause)}
      IN CASE c.pattern = "COND_EXEC" -> Cardinality(dropped) = 1 /\ Cardinality(Clauses(c)) > 1
           [] c.pattern = "COND_ASSIGN" -> dropped = Clauses(c) \/ \A id \in c.ids : ~IsTraced(id)
           [] c.pattern = "COND_ABORT" -> dropped # {}
=============================================================================
