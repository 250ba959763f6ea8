---------------------------- MODULE PatternGrammar ----------------------------
(***************************************************************************)
(* The parser of the AST matcher: the states and follow sets that the      *)
(* grammar library builds from a grammar (Grammar.cpp, NonTerminal.cpp,    *)
(* State.cpp), and the parse that follows all reductions at once           *)
(* (Validator.cpp).  A body holds, as in the code, an action behind the    *)
(* symbol that it tags.  A token is a record [t, val] of its kind and its  *)
(* value.                                                                  *)
(***************************************************************************)
EXTENDS MatchTags, Integers, Sequences, FiniteSets, SequencesExt

CONSTANT Rules   \* [head, body] each, in the order of the grammar file

NonTerminals == {Rules[k].head : k \in DOMAIN Rules}
RulesOf == [x \in NonTerminals |-> {k \in DOMAIN Rules : Rules[k].head = x}]

(* The library reads the first symbol of each body.                          *)
ASSUME RulesBeginWithSymbols ==
  \A k \in DOMAIN Rules : Rules[k].body # <<>> /\ Rules[k].body[1] \notin Actions

Word == [k \in DOMAIN Rules |-> SelectSeq(Rules[k].body, LAMBDA x : x \notin Actions)]

(* Of each rule, the tagged symbols, by their number in the word, with tags. *)
TagsOf ==
  [k \in DOMAIN Rules |->
     LET body == Rules[k].body
     IN {<<Cardinality({j \in 1..i : body[j] \notin Actions}), body[i]>> :
           i \in {j \in DOMAIN body : body[j] \in Actions}}]
-----------------------------------------------------------------------------
(* Grammar.cpp, NonTerminal.cpp: what a symbol begins with, and what the     *)
(* tokens are that may stand behind a non-terminal.                          *)
RECURSIVE BeginSet(_)
BeginSet(x) ==
  IF x \notin NonTerminals THEN {x} ELSE UNION {BeginSet(Word[k][1]) : k \in RulesOf[x]}
Begins == [x \in UNION {Range(Word[k]) : k \in DOMAIN Rules} |-> BeginSet(x)]

Behind ==
  [x \in NonTerminals |->
     UNION {UNION {Begins[Word[k][i + 1]] : i \in {j \in 1..Len(Word[k]) - 1 : Word[k][j] = x}} :
              k \in DOMAIN Rules}]

(* The follow set of a rule's head goes into that of a non-terminal which    *)
(* ends the rule, along the update lists.                                    *)
RECURSIVE Updating(_)
Updating(X) ==
  LET Y == X \cup {Rules[k].head : k \in {j \in DOMAIN Rules : Last(Word[j]) \in X}}
  IN IF Y = X THEN X ELSE Updating(Y)

(* A mistake to detect: follow sets are not passed on.                       *)
FollowSetDirect == Behind
FollowSet == [x \in NonTerminals |-> UNION {Behind[y] : y \in Updating({x})}]
-----------------------------------------------------------------------------
(* State.cpp.  A rule and the number of its symbols that have been read are  *)
(* an item, a set of items is a state.                                       *)
IsComplete(item) == item[2] = Len(Word[item[1]])
NextToken(item) == Word[item[1]][item[2] + 1]

RECURSIVE LeftCorners(_)
LeftCorners(X) ==
  LET Y == X \cup {Word[k][1] : k \in UNION {RulesOf[x] : x \in X \cap NonTerminals}}
  IN IF Y = X THEN X ELSE LeftCorners(Y)

Expansion ==
  [x \in NonTerminals |->
     UNION {{<<k, 0>> : k \in RulesOf[y]} : y \in LeftCorners({x}) \cap NonTerminals}]

NextTokens(state) == {NextToken(item) : item \in {i \in state : ~IsComplete(i)}}
NextSet(state, x) ==
  LET shifting == {item \in state : ~IsComplete(item) /\ NextToken(item) = x}
      kernel == {<<item[1], item[2] + 1>> : item \in shifting}
  IN kernel \cup UNION {Expansion[y] : y \in NextTokens(kernel) \cap NonTerminals}

RECURSIVE Reached(_, _), Numbered(_)
Reached(found, new) ==
  LET next == UNION {{NextSet(state, x) : x \in NextTokens(state)} : state \in new} \ found
  IN IF next = {} THEN found ELSE Reached(found \cup next, next)
Numbered(S) ==
  IF S = {} THEN <<>> ELSE LET state == CHOOSE x \in S : TRUE IN <<state>> \o Numbered(S \ {state})

(* The code numbers the states in the order in which it follows the paths.   *)
Root == {<<k, 0>> : k \in DOMAIN Rules}
States == <<Root>> \o Numbered(Reached({Root}, {Root}) \ {Root})
Paths(states) ==
  [path \in UNION {{<<n, x>> : x \in NextTokens(states[n])} : n \in DOMAIN states} |->
     LET next == NextSet(states[path[1]], path[2])
     IN CHOOSE m \in DOMAIN states : states[m] = next]
Complete(state) == {item[1] : item \in {i \in state : IsComplete(i)}}

(* The grammar object that a validator is given.                             *)
GrammarOf(states, follow) ==
  [shifts |-> [n \in DOMAIN states |-> NextTokens(states[n])], paths |-> Paths(states),
   complete |-> [n \in DOMAIN states |-> Complete(states[n])], follow |-> follow]
Grammar == GrammarOf(States, FollowSet)

Reductions(g, n, x) == {k \in g.complete[n] : x \in g.follow[Rules[k].head]}

(* isEndState, getPattern: nothing can be shifted and nothing may follow.    *)
FinalRules(g, n) ==
  IF g.shifts[n] # {} THEN {} ELSE {k \in g.complete[n] : g.follow[Rules[k].head] = {}}
-----------------------------------------------------------------------------
(* Validator.cpp.  A branch of the parse is a stack of states, each with the *)
(* order of its token (NoOrder for a non-terminal), and the orders tagged so *)
(* far.  Equal branches stay equal, so they are kept in a set.               *)
NoOrder == -1
Start == [stack |-> <<>>, tags |-> {}]
Top(branch) == IF branch.stack = <<>> THEN 1 ELSE branch.stack[Len(branch.stack)][1]

Shifted(g, branch, x, order) ==
  IF x \in g.shifts[Top(branch)]
  THEN {[branch EXCEPT !.stack = Append(@, <<g.paths[Top(branch), x], order>>)]}
  ELSE {}

(* The tags of a body are recorded while it is popped; only tokens have an   *)
(* order and are reported.                                                   *)
Popped(branch, k) ==
  LET keep == Len(branch.stack) - Len(Word[k])
      tagged == {[tag |-> a[2], order |-> branch.stack[keep + a[1]][2]] : a \in TagsOf[k]}
  IN [stack |-> SubSeq(branch.stack, 1, keep),
      tags |-> branch.tags \cup {tag \in tagged : tag.order # NoOrder}]

(* processTokenRecursive: reduce in every way that the token allows, each in *)
(* a branch of its own, and shift.                                           *)
RECURSIVE ProcessToken(_, _, _, _)
ProcessToken(g, x, order, branch) ==
  LET reductions == {k \in Reductions(g, Top(branch), x) : Len(branch.stack) >= Len(Word[k])}
      reduced == UNION {Shifted(g, Popped(branch, k), Rules[k].head, NoOrder) : k \in reductions}
  IN Shifted(g, branch, x, order) \cup UNION {ProcessToken(g, x, order, b) : b \in reduced}

RECURSIVE Branches(_, _, _)
Branches(g, toks, n) ==
  IF n = 0 THEN {Start}
  ELSE UNION {ProcessToken(g, toks[n].t, n - 1, branch) : branch \in Branches(g, toks, n - 1)}

(* getPattern, getJsons: the pattern and the tags of a valid parse.          *)
ParsesWith(g, toks) ==
  UNION {{[pattern |-> Rules[k].head, tags |-> branch.tags] : k \in FinalRules(g, Top(branch))} :
           branch \in Branches(g, toks, Len(toks))}
Parses(toks) == ParsesWith(Grammar, toks)
-----------------------------------------------------------------------------
(* The language of the grammar, for comparison, with neither states nor      *)
(* follow sets: where a text can end that x derives and that begins at i.    *)
RECURSIVE Ends(_, _, _), EndsOfWord(_, _, _)
Ends(toks, x, i) ==
  IF x \in NonTerminals
  THEN UNION {EndsOfWord(toks, Word[k], {i}) :
                k \in {r \in RulesOf[x] : i <= Len(toks) /\ toks[i].t \in Begins[Word[r][1]]}}
  ELSE IF i <= Len(toks) /\ toks[i].t = x THEN {i + 1} ELSE {}
EndsOfWord(toks, word, starts) ==
  IF word = <<>> \/ starts = {} THEN starts
  ELSE EndsOfWord(toks, Tail(word), UNION {Ends(toks, Head(word), i) : i \in starts})

Derivable(toks) == {x \in Patterns : Len(toks) + 1 \in Ends(toks, x, 1)}
=============================================================================
