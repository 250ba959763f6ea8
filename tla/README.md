# FixReverter in TLA+

FixReverter injects bugs into C programs, so that fuzzers can be compared by the
bugs they find. It looks for code that resembles what a fix would have left
behind (a check in front of a dangerous use), reverts the check, and builds a
program in which every injection can be switched on and off. These modules
specify the parts of it in which order, state or arithmetic decide whether the
result is right; TLC checks them on small instances and TLAPS proves the main
properties for all values of the constants. All paths below are relative to the
repository; `drivers`, `clangTools` and `phasar_plugin` lie in `src/FixReverter`.

## The system

A program passes through these parts, in this order.

| Part | Code | State | Operations |
|---|---|---|---|
| AST tokenizer and matcher | `clangTools/astPatternMatcher` | token list, contexts, matched candidates | one visitor per kind of node; per statement one parse |
| pattern parser | `clangTools/astPatternMatcher/GrammarLib` | LR states, stacks of a generalised parse | closure, goto, shift, reduce |
| pattern pool | `drivers/inject/runapm.py` | pool of processes, `apm.json` | run, post-process the lines |
| taint analysis (Phasar plugin) | `phasar_plugin` | `TaintPaths`, `Leaks`, `DecToTraceMap`, path edges of the solver | flow functions, `initialSeeds`, `WriteOutput` |
| sink reports | `phasar_plugin/CodeMatcher`, `OutputWriter/SinkTracer.cpp` | ranges of instructions | `matchSourceCode`, `sinkInRange` |
| candidate preparation | `drivers/inject/preinject.py` | `dda.json`, `inject.json` | `chooseCondExe`, `resolveNested`, `processTraceVars` |
| mutant locator | `clangTools/mutantLocator` | text operations | one visitor per kind of statement |
| rewriter | `clangTools/rewriter` | rewrite buffer | insert, replace |
| driver | `drivers/inject/driver.py`, `preinject.py`, `inject.py`, `clean.py`, `pre_snd_inject.py` | source tree, two backups, `inject.json`, executable | job `-i`, job `-r` |
| flag runtime | `drivers/inject/codes/setFixReverterFlags` | `FIXREVERTER[]`, the environment, strtok's pointer | one call of the entry function |
| naive bug filter | `drivers/inject/remove.py`, `drivers/utils/runtarget.py` | `muteIndices`, `crashsets` | `removeSeedTriggers`, `runWithOff`, `runTarget` |

**How they interact.** Everything passes through files: the matcher writes
`apm.json`, the plugin reads it and writes `dda.json` (the candidates with a
variable that reaches a dereference, which is marked `crash`), `-i` turns
`dda.json` into `inject.json` and an injected program, the operator builds it,
and `-r` runs the executable on the seeds, removes from `inject.json` what makes
a seed fail, restores the program from the backups that `-i` made and injects
what is left. The injected program talks to the driver through the environment
variable `FIXREVERTER` ("on i j ..." or "off i j ..."), its exit code and the
lines "triggered bug index i" on stderr.

**What is hard.** The jobs delete and restore the only copy of a program and can
be killed at any point. Runs of the target are killed after one second and then
look like failures. `strtok` changes the environment that the next call of the
entry function reads. A statement becomes tokens, the tokens a pattern, the
pattern positions in the tokens, and these the text of two builds: each step
counts from the one before, and operations at one position are applied in an
order that a hash seed decides. The conditions of an injection are evaluated up
to three times, outside of the short circuits of the source. The flow functions
of the plugin have side effects on data that other flow functions read, in a
solver that visits every edge once, in an order that depends on addresses. What
each of these can break is listed with its line under `hazards` in
`PROJECT.json`.

## Modules

| Module | Models | State and actions |
|---|---|---|
| `Target` | the injected program seen from outside: a decision tree over its injections, `FlagsOn`, `FlagsOff` | operators only; `Guard` tells that it changes the course, `SilentGuard` faults and does not; `Reproducible`: a failure stays one with only the injections on that it printed |
| `SeedFilter` | **abstract**: what the naive bug filter promises | `Take`, `Drop` (a minimal failure cause), `Pass`, `Finish`, `GiveUp` |
| `SeedRemoval` | `remove.py` with `runtarget.py` | `mute` = `muteIndices`, `triggers`, `untried` = the combinations `itertools` has still to yield, `crashsets`; one action per run of the target and per way it can end |
| `FlagRuntime` | `setFixReverterFlags`, several calls in one process | `seen` = what `getenv` still shows, `rest` = behind strtok's pointer, `flags`; one action per token |
| `InjectedProcess` | `FlagRuntime` composed with `Target`: a process in which every call reads its flags and then runs the program | adds `program`, `ended`, `printed`; `ReadFlags`, `RunBody` |
| `GuardInjection` | the text that `nullCheckML.cpp` generates, executed | `vals` = what each clause evaluates to, `at`, `log`, history `diverged`; `Enter`, `Check`, `CheckFaults`, `Condition`, `Body`, `Again` |
| `Numbers` | C's integer types of two widths, a literal as the tokenizer writes it and as a compiler reads it again | operators: `SExtValue`, `ReadNumber`, `Operation` |
| `ConditionText` | expressions, the tokens they leave, and how a C compiler reads the tokens again | operators: `TokensOf`, `ReadText`, `Results` |
| `MatchGrammar` | the rules of `test.grammar`, with their tags | `TestGrammar` |
| `PatternGrammar` | the grammar library, for any `Rules` | operators: `FollowSet`, `States`, `Paths`, `Grammar`, `ProcessToken`, `Parses`; `Derivable` is the language, for comparison |
| `StatementForms` | statements and the words of a text | operators |
| `SourceText` | a file as the tools see it: statements, the tokens of the control statements among them, and the text in which positions count | operators: `Stream`, `Text`, `Nodes`, `Preprocess` |
| `MatchTags` | the patterns that are injected and the tags of their tokens | `Traced`, `AssignTags`, `BaseTags`, `FieldTags` |
| `CandidateList` | the list of candidates, from the lines that the matcher prints to the list that is injected and its clauses | `lines`, `parsed`, `candidates`; `Match`, `Postprocess`, `Report`, `ChooseCondExe`, `ResolveNested`, `ProcessTraceVars`; `Clauses` |
| `Rewriter` | the mutant locator and the rewriter: from the list to the text, for any `Statements` and `Words` of a file | adds `operations`, `buffer`; `Locate`, `Rewrite` |
| `CandidatePipeline` | one file from the matcher to the rewritten text: what the matcher prints for it, its text, the clauses in it and what is written | values for `Statements`, `Lines` and `Words`; `Conds`, `Written`; `Injected` is what should be read |
| `Toolchain` | the jobs `-i` and `-r` as file operations, with `Kill` anywhere and the operator's `Build`, `Recover` and `StartOver` | `src`, `backup`, `entryBak`, `json`, `exe`, `pc`; history: `removed`, and `slips` = what the operator did that no code prevents |
| `TaintFlow` | the flow functions of the plugin, run by Phasar's solver, and `WriteOutput` | `stack`, `seen`, `incoming` = the solver; `paths` = `TaintPaths`, `leaks` = `Leaks`, `report` |
| `TracedRun` | `TaintFlow`, and then an execution of the program that was analysed | adds `at`, `caller`, `holds` = which value is a copy of which tracer; `Execute` |
| `NaiveTaint` | what `TaintFlow` has to find in a program without fields, points-to aliases of the tracers included, in rounds over the whole program instead of a solver | operators: `Follows`, `Closed`, `UsesIn` |
| `TaintPrograms` | C programs for `TaintFlow`, and which of their dereferences are to be leaks | operators: `Compile`, `Unified` (the points-to sets), `TaintedDereferences` |
| `SinkReport` | `TracedRun` with the matching of the bodies of COND_EXEC and `sinkInRange` | adds `matched` = the functions in `MethodData`, `guard`, `marked`; `EnterCallee`, `Propagate`, `MarkTracers` |
| `*_proof` | theorems about the module they are named after; `InjectedProcess_proof` also about `FlagRuntime`, `CandidateList_proof` also about `Rewriter`, `SinkReport_proof` also about `TracedRun`, `TaintFlow_proof` also about `NaiveTaint` | |
| `MC*` | instances for TLC | |

How they are put together: `SeedRemoval` and `FlagRuntime` extend `Target`. The
first uses `FlagsOn` and `FlagsOff` as what a run of the target is given,
the second shows (`FirstCallObeys`) that the token loop computes them, and
`InjectedProcess` shows (`ShowsCalls`) what of a process with several calls the
filter sees. `SeedRemoval` instantiates `SeedFilter`, with `pc` mapped to its phase.
`Rewriter` extends `CandidateList`: its steps are those of the list, or leave the list alone (`PreparesList`). `CandidatePipeline`
composes it with `ConditionText`, `PatternGrammar` and `SourceText`,
and gives the constants `Statements`, `Lines` and `Words` their values: `StatementsOf`, where the statements of a file stand,
`LinesOf`, their parses, and `WordsOf`, the text. The property `EveryInjectionDrops` of the list is what `Init` of `GuardInjection`
assumes of the clauses. `TracedRun` extends `TaintFlow`, and `SinkReport` extends `TracedRun` and interleaves with the solver.

Every definition that stands for code has its lines in `map` of `PROJECT.json`.
Definitions whose comment says "a mistake to detect" are variants of the definition
behind them; they are used by no specification, and each makes one property
fail when it takes that definition's place.

### Choices worth knowing

* **Target.** A run depends on the flags only through the guards whose outcome
  they change, so a deterministic program on one seed is a decision tree. The
  trees contain programs in which one injection hides, enables or needs another, and
  guards of which one form faults before "triggered" is printed (the check of a COND_ABORT, the injected condition of
  a COND_EXEC), so that a run can fail without telling why, or tell of an injection that does no harm.
  A late kill (`MaxLate`) makes a run look failed, with any part of its lines.
* **GuardInjection.** Clauses are true, false or fault ("X"); conditions are chains of
  `||` (COND_ABORT) or `&&` (COND_EXEC). The values of the clauses are chosen anew
  at every visit and do not change during one: clauses have no side effects.
* **PatternGrammar.** The rules are a constant; the runs take those of `test.grammar`
  (`MatchGrammar`). The tables of the parser are computed once and handed to the parse, as the
  code hands its `Grammar` to every validator. States are sets of items, as in `State.cpp`, numbered in another order. `Validator.cpp`
  copies its stack for every reduction; equal copies stay equal, so the branches
  are a set. `Derivable` follows the rules alone, without states or follow sets.
* **CandidateList.** What the matcher prints is a constant, of which only the form is known that the rules of
  `test.grammar` give it (`ByTheRules`); whoever extends the module has to show that its lines have it, and TLC
  evaluates that for every file of `pipeline` (`LinesByTheRules`). Candidates keep their number when others are dropped.
  Which traced variables the taint analysis reports is chosen freely (`Report`), at least one per candidate that is kept.
* **Numbers.** The widths are constants (`Ints`, `Longs`: how many values an int and a long have), so that TLC takes
  small ones and the theorems speak of all.
* **Rewriter and CandidatePipeline.** A file is one function with a tree of statements. Its text
  is a sequence of words and line breaks, and a position is the number of a word,
  so the columns of the code are counted in words. The operations are applied as the rewriter does, and so are the semantics
  of clang's buffer that matter: an insertion goes behind earlier ones at its
  position, and text that is removed where something has been inserted is measured
  with the insertion. `Injected` says what the two builds should read.
* **Toolchain.** Every file operation is a step, directories are copied and removed
  file by file; a directory without files counts as none. `-i` starts on any program, as `driver.py:95` does: one that is injected, or that a killed
  job has left half injected. In a file that is not as distributed the locator finds any part of the candidates at their old
  positions (`Rewrite`). The operator answers as he likes. What then costs a copy is recorded in `slips`: "entry", `-i` on an injected entry file
  (`preinject.py:251` overwrites its copy); "overwritten", the backup is made from a tree that is not as distributed (`preinject.py:15`); "half",
  an incomplete backup is kept, or `-r` started on it (`preinject.py:17`, `clean.py:22`). The properties say what each of them costs, and
  that nothing else does. `StartOver` takes the program from its distributor again; the executable stays.
* **TaintFlow, TracedRun and SinkReport.** A program is the code of two functions that only has to be well-formed
  (`ProgramsWellFormed`: the shape of what a compiler emits for locals, arguments and calls, and points-to sets within a function); those of the runs are sequences of C statements,
  compiled as `clang -O0` does (`TaintPrograms`). What the analysis should find is said by executing the program:
  `TracedRun` keeps for every value the tracers it is a copy of, and takes every branch or not. The solver is Phasar's: depth-first, an edge is handled once, callees
  are solved when they are entered and their summaries applied afterwards. It is
  external, like the compiler and C. The order of the facts in a `std::set` of
  pointers is arbitrary, so a step takes any edge of the innermost set. The three
  flow functions for sign extension, zero extension and binary operations do what
  `CastFlow` does. A guard stands around any run of statements, and a line ends behind
  any of them. What Phasar's points-to analysis says of a local variable is a part of the program (`aliases`): the theorems take any set of
  results in its function, the runs what an analysis finds that unifies whatever is assigned, in any order (`Unified`). All of these become
  sources where a tracer is declared (`AliasesIn`), so that `*q; q = p` with tracer p has a leak at `*q`; that is no execution's, and
  `LeaksExact` and `LeaksFollow` count it. A library function takes two arguments, of which one stands at an index that
  `DependenceAnalyzer.cpp:176-201` lists and the other does not. Left out: variadic functions, several struct types.

## Runs

| Run | Shows | Bounds |
|---|---|---|
| `seeds` | only members of minimal failure causes are muted; a seed is left only when it passes; the script follows `SeedFilter` until a run is killed late; if failures can be reproduced with what they printed, every round of the while loop finds a crash set, the exit without triggers blames the program, and the script ends; a round that finds none is repeated for ever | three injections on one seed and two on two seeds, in both orders; all decision trees of telling guards up to renaming, those of two injections with silent guards, also behind a third one; one late kill |
| `seed_mask` (violation) | a seed that passed fails with the injections that remain at the end | two seeds, two injections |
| `flags` | the first call gets the flags that were asked for; "on" never adds flags in later calls; a process prints what its calls print, the first with the flags asked for and later ones as if nothing had been listed | every list of up to three of two indices, with repetitions; two calls, every pair of programs |
| `flags_off` (violation) | an injection that is listed after "off" is on again in the second call | three indices, three calls |
| `guard` | "triggered" is logged exactly if the branch changed; with the flag off the program is the original one; the checks of a COND_EXEC add no fault | up to four clauses, every marking, loops |
| `guard_fault` (violation) | the check of a COND_ABORT faults where the condition would not, and nothing is logged | same |
| `pipeline` | the parser accepts the language of its grammar, in one way; a statement is injected once, however often its file is compiled; the positions of the operations lie in the text, and no operation touches what another one replaces; the texts of TRACE, UNTRACE and ALL are clauses of the source; every injection drops what `GuardInjection` needs; literals keep their meaning where they can; in every order of the operations both builds read as they should | 4547 files: conditions of up to three clauses, all combinations of literals at the ends of their types, statements nested two deep, two layouts, one and two compilations; ints of three bits, longs of six |
| `nested_only` (violation) | a candidate around another one is injected, too | the nested files of `pipeline` |
| `else_branch` (violation) | a single statement with an else behind it: the brace that is opened in front of it is closed behind the else | same |
| `jobs` | the pristine program survives every kill, and every repetition of `-i`, until the operator makes a slip that no code prevents; a finished `-r` leaves exactly `inject.json`; what was removed stays out; the flag array covers every guard | two files with three candidates, the entry file inside or outside of the tree; any number of jobs, `-i` on files that were written at most twice (`MaxWritten`); followed until the copy of the tree is lost (`SoundCopy`), as no property says anything from then on until `StartOver` |
| `taint` | what an execution dereferences of what was copied from a tracer is reported, in every order of facts; every leak is blamed; without fields the leaks are exactly the dereferences of what was copied from a tracer or from what may alias one, counted by statements (`LeaksExact`) and by instructions (`LeaksFollow`); a traced variable of a guard is marked exactly if a leak blamed on it is under the guard, and if an execution dereferences it there | bodies of two statements from ten, once and (with one kind of call less) in a loop, and some of three, one of them with two calls of which one has a traced argument, two callees, three sets of tracers; points-to sets by unification; every guard around them and every layout of their lines; every execution |
| `taint_global` (violation) | a traced global variable that a callee reads and dereferences is missed | bodies that end in a call |

**Why the bounds are enough.** Three injections are the fewest with two
crash sets that overlap and a third combination to skip, and two seeds are the fewest
for "muted later than passed". A second call is the first that reads a variable that
`strtok` has cut, and a third reads what the second left, which is the same. Four
clauses are the fewest with two traced and two untraced ones in any interleaving;
three are the fewest with one in the middle, whose text `getConds` cuts out on both sides.
Integers of three and six bits have all the cases of the
conversions: negative, largest, one beyond, the same for twice the width, and a product of two ints
that is a small number again when it is taken modulo their width (3 * 3 = 1).
Two levels of statements contain every way in which one candidate can lie in another
(in the body, as the body, in the else). The three candidates of `jobs` have a gap
in their indices (1, 3, 4), one file with two and one with one. `MaxWritten` of two is what a finished `-i` or `-r` leaves in a file
(guards and declaration), so `-i` is repeated on every kind of tree that a job leaves, finished or killed. A body of two
statements in a loop has chains through both in either order and calls a function
twice, so that its summaries are used; three statements put one before, in and
behind a guard that shares its line.

**What `pipeline` and `taint` leave out on purpose.** Their properties name the cases in
which they do not hold; without these words the runs fail.

* `TextsOfClauses` excludes clauses that need parentheses (`NeedsParentheses`): they are lost
  (`tokenizer.cpp:510`), and `a + (b < c)` comes back as `(a + b) < c`.
* `SignedLiteralKept` is about signed literals, `SmallNumbersKept` about values that an int can hold, and of an operation on two literals also
  about its exact result: `3u * 3u` can be the number 1, where `3 * 3` overflows.
  An unsigned literal comes back signed (`tokenizer.cpp:514`), so that a comparison with a negative variable is
  another one: `x < 1u` holds for no negative x, `x < 1` for all of them.
* `EveryInjectionDrops` lets a COND_ASSIGN drop nothing whose condition has no variable that can be traced;
  its injection is without effect.
* `BuildsRead` excludes a single statement with an else (`else_branch`), text behind a candidate on
  its last line, which would belong to the `#endif` in front of it (`nullCheckML.cpp:208`), and a candidate that is the
  body of another one, where the order of an insertion and a replacement at one position matters (`inject.py:101`); `EditsApart` excludes the last of these.
* `MarkedIffSinkUnder` excludes a body that shares its only line with other statements (`CodeMatcher.cpp:123`: every column of
  the line passes the test) and a global variable once another function has been matched
  (`CodeMatcher.cpp:117`: the function of the guard is overwritten).

**The violations** are the disagreements between the code and what its comments or the paper
(`src/FixReverter_paper.pdf`) say; `findings` in `PROJECT.json` quotes both sides. In short: seeds are not run again when later seeds mute more
(`remove.py:22`); `strtok` edits the environment (`setFixReverterFlags:2`); the check before a
COND_ABORT evaluates unguarded clauses (`nullCheckML.cpp:251`); `isInside` is called with its arguments in another order than its
parameters, so nothing is ever nested (`preinject.py:90`); "we don't have else branch in matched if statements", but the grammar
has one and injected programs of the repository do, too, although all of these have braces (`nullCheckML.cpp:186`); a call collects the traced
globals and does not return them (`CallFlowFunction.h:114`).

**Fairness.** Only `seeds` has a liveness property. `WF_vars(Next)` says that a
single sequential script goes on; each of its steps contains at most one run of
the target, which `runTarget` ends after a second. The deadlock check is off where the system
really stops: scripts and solvers end, a file is finished, the calls of an entry function are
bounded, and a fault ends the program. `jobs` keeps it on.

## Proofs

| Theorem | For all | Says |
|---|---|---|
| `SeedRemoval_proof!TypeCorrect` | seeds, finite sets of injections, programs with telling and silent guards, numbers of late kills | the type invariant |
| `SeedRemoval_proof!Justified` | same | `MuteJustified` |
| `SeedRemoval_proof!Explained` | same | `CrashExplained` |
| `SeedRemoval_proof!ExitJustified` | same | `ExitBlamesProgram` |
| `SeedRemoval_proof!MonotoneFilter` | same | `MonotonePassSeeds` |
| `SeedRemoval_proof!NeverLeft` | same | `FruitlessForEver` |
| `SeedRemoval_proof!LeftSeedPasses` | same | `LastSeedPasses` |
| `SeedRemoval_proof!Refinement` | same | `SeedRemoval` implements `SeedFilter` (`ImplementsFilter`) |
| `InjectedProcess_proof!FlagTypes`, `FirstCall`, `OnAddsNothing` | indices, lengths of the list, numbers of calls | the type invariant of `FlagRuntime`, `FirstCallObeys`, `OnNeverAddsFlags` |
| `InjectedProcess_proof!ProcessReadsFlags` | same, and programs | a process reads its flags as `FlagRuntime` says (a refinement: the run of the program is its step `Leave`) |
| `InjectedProcess_proof!ProcessShows` | same | `ShowsCalls` |
| `GuardInjection_proof!TypeCorrect`, `TriggerExact`, `OffIsOriginal`, `ExecChecksSafe` | conditions of any length | the four properties of `guard` |
| `Toolchain_proof!SurvivesKills` | files, candidates, numbers of repetitions, answers of the operator | `PristineSurvives` |
| `Toolchain_proof!TypeCorrect`, `RemovesExactly`, `StaysOut`, `FlagsSuffice` | same | the other four properties of `jobs` |
| `CandidateList_proof!TypeCorrect` | lines of the form that the rules give them, numbers of compilations, reports of the analysis | the type invariant of `CandidateList` |
| `CandidateList_proof!InjectsOnce` | same | `OneInjectionPerStatement` |
| `CandidateList_proof!Drops` | same; conditions of any length | `EveryInjectionDrops` |
| `CandidateList_proof!ClausesExact` | same | each token of a condition is in exactly one clause, and none of the body is in one |
| `CandidateList_proof!PreparesList` | same | `Rewriter` implements `CandidateList` |
| `CandidateList_proof!EditsInText`, `NoEditMeetsAnother` | same, and statements that lie in their text as a parser sees them, orders of the operations | `PositionsOK`, `EditsApart` |
| `CandidateList_proof!OnlyHeadsReplaced` | same | what a finished file has lost are exactly the heads of its candidates |
| `Numbers_proof!SignedKept` | integers of all widths, variables of any type and value | what `SignedLiteralKept` says of a comparison |
| `Numbers_proof!SmallKept`, `SmallArithmeticKept` | same, variables that are not negative | what `SmallNumbersKept` says, with a literal and with an operation on two |
| `TaintFlow_proof!TypeCorrect` | well-formed programs, points-to sets, tracers, orders of facts | the type invariant of `TaintFlow` |
| `TaintFlow_proof!Blames` | same | `LeaksBlamed` |
| `TaintFlow_proof!LeastSolution` | same, without fields | when the solver has finished, its path edges are the least set that has the tracers and what may alias them and is closed under the copies of the program, and the leaks are what they use: the same in every order |
| `TaintFlow_proof!Exact` | same | `LeaksFollow` |
| `SinkReport_proof!Finds` | same, and executions | `DereferencesFound` |
| `SinkReport_proof!SinkImplementsRun`, `RunImplementsAnalysis` | same, and guards, layouts, orders of matching | `SinkReport` implements `TracedRun`, and that implements `TaintFlow` |
| `SinkReport_proof!Marks` | same | `MarkedIffSinkUnder` |
| `SinkReport_proof!GuardedFinds` | same | `GuardedDereferencesFound` |

*SeedRemoval.* What the enumeration of the combinations has done so far is not
in any of its properties; the inductive invariant adds it. `TriggersTold`: as long as the round has muted nothing, the
triggers are those of a failure with the unmuted injections on. `TriedCovered`: of every combination
that was enumerated and fails, a crash set is a part. `CrashsetsMinimal`: crash sets are minimal causes. The step that
counts is `TrySet`: the proper parts of a next smallest combination have been
enumerated (`SmallerTried`, by cardinality), so if one of them failed, a crash set would
cover it, and the combination would have been skipped. Where a round finds nothing, no combination of the triggers fails the seed; that
and the triggers depend on the muted injections only, which the round has left alone, so the next round is the same (`Hopeless`,
`NextHopeless`). All but the types and `LastSeedPasses` hold
only while no run was killed late, which the statements say. The refinement uses the same
invariant: that what `TrySet` mutes is a `Cause`.

*FlagRuntime and InjectedProcess.* The invariant says what the flags are in the middle of the token loop: those of the
indices read so far, and the tokens read and the ones behind the pointer are the list. From the second call on
the list is empty. `ProcessShows` adds that `ended` follows `calls` and that a run that crashed was the last one.

*GuardInjection.* The invariant says for each place `at` what the outcomes of the three
chains (all, traced, untraced clauses) and the log have to do with each other
(`CheckInv`, `CondInv`, `BodyInv`, `AgainInv`). The lemmas `Disjunction` and
`Conjunction` relate the outcome of a chain to those of its two parts, `LastExists` and
`OneTraced` say that a COND_EXEC drops exactly one clause and keeps another;
without that the check in its body would not be equivalent to a diverging branch.

*Toolchain.* The invariant (`FullInv`) says for each step of both jobs what is where. `TreeInv`: as long as the copy of the tree is sound, it is
replaced only while the tree in place is as it was distributed, and the tree is touched only when the copy is complete; `EntryInv` says the same of
the entry file, which needs that there was no slip at all. `ProgramInv` is what the tree holds at each step of `-r` (missing or pristine files while it is restored, then for each planned file its
`Stage`): it does not depend on what `-i` has done to the tree before, because `-r` throws that away. `PlanInv` says that `inject.json` is the plan once files are written and has nothing of what was removed, and `RoomInv` that
an entry file with a definition has room for every guard in the tree, also while a later job deletes it file by file.
The properties of `jobs` speak of finished jobs and compiling programs only, which a kill between any two steps does not preserve
by itself; these parts do.

*CandidateList.* Every candidate is followed back to the line it came from. The invariant (`ListInv`) says for each `pc` what has
become of that line: nothing, some marks on variables that the analysis looks for (`Marked`), the last of these marks (`Chosen`), the assigned
tokens gone and the fields marked like their bases (`Processed`). It has no property that is about clauses; these follow from the last form, and need two
things that the code never states. The clauses that `getConds` finds begin at token 1 and at the operators, and `TokEndOffset`, counted from
the end of what is *left* of the tokens, is exactly where the condition ends, for each of the ways in which a statement can go on
(`ConditionEnds`); and a mark always survives in the condition, also where the marked variable was an assigned one or a field. From the same two facts the clauses are a partition of the condition (`ConditionsTiled`). For COND_EXEC, where one clause must
drop, the base of the last marked variable and its field are shown to lie in one clause. `OneInjectionPerStatement` is inductive from
`Postprocess` on: a start determines its line, hence its pattern, and `Keeps` leaves one line per pattern and start.

*Rewriter.* The invariant (`RewriteInv`) says that what is left to do are some of all operations of the list (`AllOperations`), that where
something has been inserted an operation is done, and that what has been removed is what the operations done remove (`RemovedBy`). So nothing is garbled if no two of all operations meet (`OperationsApart`): an operation stands at the start of a
statement, around the start of its body or behind its end, and replaces no more than the head. One of another statement would have to be inside of
the head, or at the same start, which `OneInjectionPerStatement` excludes; or it is the check that goes in front of the body, where the other statement begins
(`BeginsBody`). A body with braces cannot be that statement.

*Numbers.* A number that a type can hold is its own conversion (`WrapKeeps`), the usual arithmetic conversions go up in an order in which
the ranges of numbers that are not negative grow (`ConversionKeeps`), so that a comparison compares numbers unless a negative one meets an unsigned type
(`ComparisonExact`); and a literal comes back with its number, as an int if that fits (`BackKeeps`).

*TaintFlow.* `LeaksBlamed` is about the walk from a leak through `TaintPaths`, which any flow function may have extended on the way. The
invariant (`BlameInv`) says that every fact that the solver has seen or still has on its stack, other than the zero fact, is `Blamed`: a set of nodes that has it and is closed
backwards under the pairs recorded so far has a node of a tracer. `WalkInv` says that the walks of `WriteOutput` end in such a set, and that the report is
what they have found.

Without fields the result of the solver is known exactly. `WithinInv` has one direction: what it has seen, has on its stack or has registered of a call is in
every closed set. For this a callee that is entered with the zero fact and one that is entered with its argument have to be kept apart on
the way back, which is why the invariant follows what each call was entered with. `FollowedInv` and `SolveInv` have the other: with nothing left to do the path edges
themselves are closed (`EndIsClosed`). Between the two, the order of the facts has no room (`LeastTaint`). With fields it has: the flow functions then read what
others have recorded so far.

*TracedRun.* That the execution is followed by the analysis has two parts. `SolveInv` (in `TaintFlow_proof`): the solver forgets nothing. Whatever a path edge that was
seen has to lead to is seen, or is still on the stack: the successors of an instruction, the entries of a callee, and for every call and
every exit of the callee the facts behind the call, in whichever order the two were found. When the stack is empty, the
path edges are closed. `FollowInv`: then whatever an execution holds of a tracer at an instruction is a fact of a path edge there, from the entry by which the execution has
come. It needs for each kind of instruction that the flow function does at least what the instruction does (`MustFlow`).

*SinkReport.* The two refinements come first, so that all of the above holds with a guard, too. `SinkInv` then says which functions have been matched, and that what is
marked are the traced variables with a reported leak in the range. As statements and lines ascend together (`LinesAscend`), the instructions in the range are those of the body
(`RangeIsBody`), and `sinkInRange` finds what is in functions that are called from there and nothing else (`CallGraph`).

*Assumptions.* `ProgramsRun`: a run prints "triggered" only for injections that are on (`OffPreserves` of `guard`). `IndexFinite`, `MaxLateNat`, `BoundsNat`, `MaxClausesNat` and `TypeOfConstants` say what the constants are,
`RulesBeginWithSymbols` that no rule of a grammar is empty or begins with an action. `LinesByTheRules` says of the lines of the
matcher what `test.grammar` makes of a statement, and that the matcher visits it once;
`NodesInText` that statements lie in each other or apart and behind the four words of a head there is a body; `ProgramsWellFormed` of the analysed programs what a
compiler emits, and of points-to sets that they are results in the function; `RoundsFollow` that each round of `NaiveTaint` follows from the one before, and nothing new from the last; `TwoWidths` that widths are even and a long is at least twice as wide as an int can count. TLC evaluates each of them on
all files, programs and widths of the runs.

**Only model-checked:** the termination of the filter (liveness is not in the prover's reach), and what is said with recursive
definitions, about which it cannot reason: `MatchedIffDerivable` and `OneParse` (the parser against the language of
the rules), `TextsOfClauses` and `BuildsRead` (statements are trees, and so is their text; proved is that the clauses divide the condition, `ClausesExact`, and that
no operation meets another one), and `LeaksExact`, whose reference
is a fold over the statements of a program (`LeaksFollow`, which is proved, has one over instructions; that they agree is checked). `SignedLiteralKept` and `SmallNumbersKept` read the text of a whole condition, which is a tree
again; the theorems about `Numbers` are their arithmetic. That the lines of the matcher obey `LinesByTheRules` and `NodesInText` is checked for the files
of `pipeline`, and assumed by the theorems about `CandidateList` and `Rewriter`.

## Not modelled

* *Tokenizer:* how the type of a variable decides its token, subscripts, casts, parameters of functions, locations in macros.
* *Mutant locator:* the search for semicolons and macro expansions on source locations, the three parts of a for head
  (one word here; `nullCheckML.cpp:377` doubles a semicolon of a declaration there), and the visitors for two patterns that
  are never injected (ARRAY_ENLARGE, MEMCPY_MOVE).
* *Pattern pool:* names of files. A header that two translation units spell differently is matched twice and stays
  twice (`runapm.py:120`); the model spells alike.
* *Grammar library:* the reading of `test.grammar`. `State.cpp:58` reads `body[pos]` of a complete item past the end of its vector; the model takes the
  two items for different, as an empty string there would.
* *Taint analysis:* how Phasar finds its points-to sets, variadic functions, several struct types and fields, statistics.
  Dereferences through field addresses are modelled but not promised: whether
  they are found depends on the order of the facts (`StoreFlowFunction.h:60-79`, see `hazards`).
* *GuardInjection:* clauses with side effects. *Toolchain:* what the compiler says of
  the generated text beyond declarations and definitions; `pipeline` looks at the text itself.
* The main function locator (two positions, no state), the plugin's reader of patterns (field by field),
  the driver's configuration, the scripts that count fuzzing results, the vendored
  libraries, the second copy of the plugin for another Phasar, and the programs under test with their
  recorded results. These are by far the largest part of the repository by lines.

## Order of the work and what is left

Written in this order: the filter with its abstract specification and proofs; the flags and the process; the guards with
proofs; the jobs with proofs; expressions and literals; the grammar; the text of a file and the pipeline over it; the flow functions and the
sink reports; the proofs about the analysis, the list of candidates and the numbers, for which these were put into modules
without recursive definitions.

What could be proved next: that the parser accepts nothing but the language of its rules, once the parse is a state machine
with one step per shift and reduction.

What could follow: a run of `TaintFlow` for field addresses, on the order of the facts; clauses with side effects in
`GuardInjection`, with the log of a check that differs from the branch; the filter on processes with several calls
(`InjectedProcess` instead of one tree), where a muted injection is on again from the second call and the while loop
need not end; the token of a variable from its type.
