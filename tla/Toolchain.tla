------------------------------ MODULE Toolchain ------------------------------
(***************************************************************************)
(* The driver's jobs on disk: -i (preinject.py, inject.py) writes all the  *)
(* candidates into the program, -r (remove.py, clean.py,                   *)
(* pre_snd_inject.py, inject.py) restores the program from the backup that *)
(* -i made and writes those that are left.  A job may be killed between    *)
(* any two of its file operations; its memory is lost and the disk stays.  *)
(*                                                                         *)
(* prog_before_remove and entry_before_remove are written but never read,  *)
(* and are left out.  What removeSeedTriggers computes is SeedFilter.      *)
(***************************************************************************)
EXTENDS Naturals, Sequences, FiniteSets

CONSTANTS
  Files,        \* files of the program source, without the entry file
  Indices,      \* the candidates of dda.json
  FileOf,       \* the file of a candidate
  MaxWritten    \* bound: -i is started on files written at most so often

ASSUME TypeOfConstants ==
  /\ Indices \subseteq Nat /\ IsFiniteSet(Indices) /\ Indices # {}
  /\ FileOf \in [Indices -> Files]
  /\ "entry" \notin Files
  /\ MaxWritten \in Nat

Nodes == Files \cup {"entry"}

VARIABLES
  inside,   \* the entry file lies in the program source directory
  src,      \* the program, with the entry file
  backup,   \* tmp/backup/prog_before_inject
  entryBak, \* tmp/backup/entry_before_inject
  json,     \* tmp/inject.json: "none", "cut" or "full" with its indices
  exe,      \* the triage executable: "none" or "built" with its injections
  job,      \* the job that runs, then whether it has ended normally
  pc,       \* its next step
  rm,       \* rmIndices
  plan,     \* filesDict: the indices to be injected
  todo,     \* the files that the step has still to write
  removed,  \* history: what -r has taken out of inject.json since -i
  slips     \* history: what the operator did that no code prevents

disk == <<src, backup, entryBak, json>>
vars == <<inside, disk, exe, job, pc, rm, plan, todo, removed, slips>>

(***************************************************************************)
(* A file is the sequence of what has been written into it: the guards of  *)
(* some injections, the declaration of the flags, or their definition with *)
(* the indices it has room for.                                            *)
(***************************************************************************)
Guards(S) == [kind |-> "guards", set |-> S]
Declaration == [kind |-> "declaration", set |-> {}]
Pristine == <<>>
Missing == <<[kind |-> "missing", set |-> {}]>>

TreeNodes == IF inside THEN Nodes ELSE Files
Here(tree) == {f \in TreeNodes : tree[f] # Missing}
Of(f) == {k \in plan : FileOf[k] = f}
Planned == {FileOf[k] : k \in plan}
-----------------------------------------------------------------------------
(* Mistakes to detect: room for the count of the injections, for too many    *)
(* indices; an existing backup is taken as it is; the entry file is not      *)
(* restored; the indices are those of dda.json again.                        *)
DefinitionCount(S) == [kind |-> "definition", set |-> {k \in Indices : k < Cardinality(S) + 1}]
DefinitionMore(S) == [kind |-> "definition", set |-> UNION {0..(j + 1) : j \in S}]
AskBackupNever ==
  /\ pc = "askBackup"
  /\ pc' = IF Here(backup) = {} THEN "copyBackup" ELSE "copyEntry"
  /\ UNCHANGED <<inside, disk, exe, job, rm, plan, todo, removed, slips>>
RestoreEntryForgets ==
  /\ pc = "restoreEntry"
  /\ pc' = "readJson"
  /\ UNCHANGED <<inside, disk, exe, job, rm, plan, todo, removed, slips>>
LeftOfAll(S) == Indices \ rm

(* FIXREVERTER[indices + 1], where indices is the last index in the file.    *)
Definition(S) == [kind |-> "definition", set |-> {k \in Indices : \E j \in S : k <= j}]

(* removeAPM *)
Left(S) == S \ rm
-----------------------------------------------------------------------------
Init ==
  /\ inside \in BOOLEAN
  /\ src = [f \in Nodes |-> Pristine]
  /\ backup = [f \in Nodes |-> Missing]
  /\ entryBak = Missing
  /\ json = [state |-> "none", set |-> {}]
  /\ exe = [state |-> "none", set |-> {}]
  /\ job = "none"
  /\ pc = "idle"
  /\ rm = {} /\ plan = {} /\ todo = {} /\ removed = {} /\ slips = {}

(* The driver starts only if its paths exist. *)
PathsExist == Here(src) # {} /\ src["entry"] # Missing

BackupComplete == Here(backup) = TreeNodes
TreePristine == \A f \in TreeNodes : src[f] = Pristine

(***************************************************************************)
(* What the operator may do, and the code lets him: start -i on an injected *)
(* entry file, which overwrites entry_before_inject with it; answer that    *)
(* the backup be overwritten with a tree that is not as distributed; keep   *)
(* an incomplete backup, or start -r on incomplete ones.                    *)
(***************************************************************************)
Slip(what, when) == slips' = slips \cup {s \in {what} : when}

(* The process ends and forgets. *)
End(result) ==
  /\ pc' = "idle" /\ job' = result
  /\ rm' = {} /\ plan' = {} /\ todo' = {}
  /\ UNCHANGED <<inside, exe>>

-----------------------------------------------------------------------------
(* -i, which starts on any program, also on one that is injected already.    *)
StartInject ==
  /\ pc = "idle" /\ PathsExist
  /\ \A f \in Nodes : Len(src[f]) <= MaxWritten
  /\ job' = "inject" /\ pc' = "askBackup"
  /\ Slip("entry", src["entry"] # Pristine)
  /\ UNCHANGED <<inside, disk, exe, rm, plan, todo, removed>>

(* copySrcCode: whether to overwrite a directory that exists is a question.  *)
AskBackup ==
  /\ pc = "askBackup"
  /\ \/ Here(backup) = {} /\ pc' = "copyBackup" /\ Slip("overwritten", ~TreePristine)
     \/ Here(backup) # {} /\ pc' = "dropBackup" /\ Slip("overwritten", ~TreePristine)
     \/ Here(backup) # {} /\ pc' = "copyEntry" /\ Slip("half", ~BackupComplete)
  /\ UNCHANGED <<inside, disk, exe, job, rm, plan, todo, removed>>

DropBackup(f) ==
  /\ pc = "dropBackup" /\ f \in Here(backup)
  /\ backup' = [backup EXCEPT ![f] = Missing]
  /\ pc' = IF Here(backup) = {f} THEN "copyBackup" ELSE pc
  /\ UNCHANGED <<inside, src, entryBak, json, exe, job, rm, plan, todo, removed, slips>>

CopyBackup(f) ==
  /\ pc = "copyBackup" /\ f \in Here(src) \ Here(backup)
  /\ backup' = [backup EXCEPT ![f] = src[f]]
  /\ pc' = IF Here(src) \ Here(backup) = {f} THEN "copyEntry" ELSE pc
  /\ UNCHANGED <<inside, src, entryBak, json, exe, job, rm, plan, todo, removed, slips>>

CopyEntry ==
  /\ pc = "copyEntry"
  /\ entryBak' = src["entry"]
  /\ plan' = Indices
  /\ pc' = "truncate"
  /\ UNCHANGED <<inside, src, backup, json, exe, job, rm, todo, removed, slips>>

-----------------------------------------------------------------------------
(* -r; the seeds show which of the injections in the executable to remove.   *)
StartRemove ==
  /\ pc = "idle" /\ PathsExist /\ exe.state = "built"
  /\ rm' \in SUBSET exe.set
  /\ job' = "remove" /\ pc' = "dropSource"
  /\ Slip("half", ~BackupComplete \/ entryBak = Missing)
  /\ UNCHANGED <<inside, disk, exe, plan, todo, removed>>

(* clean: the program and the entry file are restored. *)
DropSource(f) ==
  /\ pc = "dropSource" /\ f \in Here(src)
  /\ src' = [src EXCEPT ![f] = Missing]
  /\ pc' = IF Here(src) = {f} THEN "restoreSource" ELSE pc
  /\ UNCHANGED <<inside, backup, entryBak, json, exe, job, rm, plan, todo, removed, slips>>

RestoreSource(f) ==
  /\ pc = "restoreSource" /\ f \in Here(backup) \ Here(src)
  /\ src' = [src EXCEPT ![f] = backup[f]]
  /\ pc' = IF Here(backup) \ Here(src) = {f} THEN "moveEntry" ELSE pc
  /\ UNCHANGED <<inside, backup, entryBak, json, exe, job, rm, plan, todo, removed, slips>>

MoveEntry ==
  /\ pc = "moveEntry" /\ src["entry"] # Missing
  /\ src' = [src EXCEPT !["entry"] = Missing]
  /\ pc' = "restoreEntry"
  /\ UNCHANGED <<inside, backup, entryBak, json, exe, job, rm, plan, todo, removed, slips>>

RestoreEntry ==
  /\ pc = "restoreEntry" /\ entryBak # Missing
  /\ src' = [src EXCEPT !["entry"] = entryBak]
  /\ pc' = "readJson"
  /\ UNCHANGED <<inside, backup, entryBak, json, exe, job, rm, plan, todo, removed, slips>>

ReadJson ==
  /\ pc = "readJson" /\ json.state = "full"
  /\ plan' = Left(json.set)
  /\ pc' = "truncate"
  /\ UNCHANGED <<inside, disk, exe, job, rm, todo, removed, slips>>

-----------------------------------------------------------------------------
(* open(apmPath, 'w+'), then json.dump *)
TruncateJson ==
  /\ pc = "truncate"
  /\ json' = [state |-> "cut", set |-> {}]
  /\ pc' = "dump"
  /\ UNCHANGED <<inside, src, backup, entryBak, exe, job, rm, plan, todo, removed, slips>>

DumpJson ==
  /\ pc = "dump"
  /\ json' = [state |-> "full", set |-> plan]
  /\ removed' = IF job = "inject" THEN {} ELSE removed \cup rm
  /\ pc' = IF plan = {} THEN "fail" ELSE "rewrite"
  /\ todo' = Planned
  /\ UNCHANGED <<inside, src, backup, entryBak, exe, job, rm, plan, slips>>

(***************************************************************************)
(* The rewriters of a pool write their files in any order.  The positions   *)
(* in dda.json are those of the file as it was distributed; in another one  *)
(* the locator finds any of them, and a file without commands is skipped.   *)
(***************************************************************************)
Rewrite(f) ==
  /\ pc = "rewrite" /\ f \in todo
  /\ \E S \in SUBSET Of(f) :
       /\ src[f] = Pristine => S = Of(f)
       /\ src' = [src EXCEPT ![f] =
                    IF @ = Missing \/ S = {} THEN @ ELSE Append(@, Guards(S))]
  /\ IF todo = {f} THEN pc' = "declare" /\ todo' = Planned
                   ELSE UNCHANGED pc /\ todo' = todo \ {f}
  /\ UNCHANGED <<inside, backup, entryBak, json, exe, job, rm, plan, removed, slips>>

(* injectFlagsDec *)
Declare(f) ==
  /\ pc = "declare" /\ f \in todo /\ src[f] # Missing
  /\ src' = [src EXCEPT ![f] = Append(@, Declaration)]
  /\ todo' = todo \ {f}
  /\ pc' = IF todo = {f} THEN "entry" ELSE pc
  /\ UNCHANGED <<inside, backup, entryBak, json, exe, job, rm, plan, removed, slips>>

InjectEntryFile ==
  /\ pc = "entry"
  /\ src' = [src EXCEPT !["entry"] = Append(@, Definition(plan))]
  /\ End(IF job = "inject" THEN "inject done" ELSE "remove done")
  /\ UNCHANGED <<backup, entryBak, json, removed, slips>>

(***************************************************************************)
(* An exception: a backup or a file is not there, inject.json is not there *)
(* or cut off, or there is no index left for jData[-1].                    *)
(***************************************************************************)
Fail ==
  /\ \/ pc = "restoreSource" /\ Here(backup) = {}
     \/ pc = "moveEntry" /\ src["entry"] = Missing
     \/ pc = "restoreEntry" /\ entryBak = Missing
     \/ pc = "readJson" /\ json.state # "full"
     \/ pc = "declare" /\ \E f \in todo : src[f] = Missing
     \/ pc = "fail"
  /\ End("failed")
  /\ UNCHANGED <<disk, removed, slips>>

Kill ==
  /\ pc # "idle"
  /\ End("killed")
  /\ UNCHANGED <<disk, removed, slips>>

-----------------------------------------------------------------------------
(***************************************************************************)
(* The triage build compiles: a file with guards declares the flags; the    *)
(* entry file defines them if there are any, and if more than once then     *)
(* with one size, which C allows.                                           *)
(***************************************************************************)
Parts(f) == {src[f][i] : i \in DOMAIN src[f]}
Injected == UNION {UNION {p.set : p \in Parts(f)} : f \in Files}
Room == UNION {p.set : p \in Parts("entry")}
Compiles ==
  /\ \A f \in Nodes : src[f] # Missing
  /\ \A f \in Files : src[f] # Pristine => Declaration \in Parts(f)
  /\ \A p, q \in Parts("entry") : p = q
  /\ Injected # {} => src["entry"] # Pristine

(* Between the jobs the operator builds, or takes the program from the       *)
(* backup again.                                                             *)
Build ==
  /\ pc = "idle" /\ Compiles
  /\ exe' = [state |-> "built", set |-> Injected]
  /\ UNCHANGED <<inside, disk, job, pc, rm, plan, todo, removed, slips>>

Recover ==
  /\ pc = "idle" /\ src # [f \in Nodes |-> Pristine]
  /\ BackupComplete /\ entryBak # Missing
  /\ src' = [f \in Nodes |-> IF f = "entry" THEN entryBak ELSE backup[f]]
  /\ job' = "none"
  /\ UNCHANGED <<inside, backup, entryBak, json, exe, pc, rm, plan, todo, removed, slips>>

(* The operator takes the program from its distributor again, and a new tmp  *)
(* directory; an executable stays.                                           *)
StartOver ==
  /\ pc = "idle" /\ slips # {}
  /\ src' = [f \in Nodes |-> Pristine]
  /\ backup' = [f \in Nodes |-> Missing] /\ entryBak' = Missing
  /\ json' = [state |-> "none", set |-> {}]
  /\ job' = "none" /\ removed' = {} /\ slips' = {}
  /\ UNCHANGED <<inside, exe, pc, rm, plan, todo>>

Next ==
  \/ StartInject \/ AskBackup \/ CopyEntry
  \/ StartRemove \/ MoveEntry \/ RestoreEntry \/ ReadJson
  \/ TruncateJson \/ DumpJson \/ InjectEntryFile \/ Fail \/ Kill
  \/ \E f \in Nodes : \/ DropBackup(f) \/ CopyBackup(f) \/ DropSource(f)
                      \/ RestoreSource(f) \/ Rewrite(f) \/ Declare(f)
  \/ Build \/ Recover \/ StartOver

Spec == Init /\ [][Next]_vars
-----------------------------------------------------------------------------
Written ==
  {Guards(S) : S \in SUBSET Indices} \cup {Declaration}
    \cup {[kind |-> "definition", set |-> S] : S \in SUBSET Indices}
Contents == Seq(Written) \cup {Missing}

(* Type correctness of the disk, the executable and the jobs. *)
TypeOK ==
  /\ inside \in BOOLEAN
  /\ \A f \in Nodes : src[f] \in Contents /\ backup[f] \in Contents
  /\ entryBak \in Contents
  /\ json \in [state : {"none", "cut", "full"}, set : SUBSET Indices]
  /\ exe \in [state : {"none", "built"}, set : SUBSET Indices]
  /\ rm \subseteq Indices /\ plan \subseteq Indices /\ removed \subseteq Indices
  /\ todo \subseteq Files
  /\ slips \subseteq {"entry", "overwritten", "half"}

(* No answer of the operator has cost the copy of the source tree. *)
TreeSafe == slips \subseteq {"entry"}

(***************************************************************************)
(* Wherever a job is killed and on whatever program -i is started, the     *)
(* source tree as it was distributed is in place or in its backup, unless  *)
(* the operator had the backup overwritten with an injected tree or relied *)
(* on half a backup.  The entry file is as safe, unless -i was started     *)
(* when it was injected.                                                   *)
(***************************************************************************)
PristineSurvives ==
  /\ TreeSafe => TreePristine \/ \A f \in TreeNodes : backup[f] = Pristine
  /\ slips = {} =>
       \/ src = [f \in Nodes |-> Pristine]
       \/ entryBak = Pristine /\ \A f \in TreeNodes : backup[f] = Pristine

(***************************************************************************)
(* However often jobs were killed before, -i on an injected tree included: *)
(* when -r has ended, the tree has each injection of inject.json once and  *)
(* no other, declared in its files, and the entry file defines the flags   *)
(* once; with the same exceptions.                                         *)
(***************************************************************************)
RemoveExact ==
  job = "remove done" /\ TreeSafe =>
    /\ json.state = "full"
    /\ \A f \in Files :
         LET S == {k \in json.set : FileOf[k] = f}
         IN src[f] = IF S = {} THEN Pristine ELSE <<Guards(S), Declaration>>
    /\ slips = {} => src["entry"] = <<Definition(json.set)>>

(***************************************************************************)
(* An injection that -r has removed, now or earlier, is not in a program   *)
(* that -r leaves, until -i is run again, while the copy of the tree is    *)
(* sound.                                                                  *)
(***************************************************************************)
RemovedStayOut == job = "remove done" /\ TreeSafe => Injected \cap removed = {}

(***************************************************************************)
(* In every program that can be built, whatever jobs were killed and on    *)
(* whatever tree -i was repeated, the array of the flags has room for      *)
(* every guard, unless the operator made one of the slips.                 *)
(***************************************************************************)
FlagsCoverGuards == Compiles /\ slips = {} => Injected \subseteq Room

=============================================================================
