--------------------------- MODULE Toolchain_proof ---------------------------
(***************************************************************************)
(* For any files and candidates, on whatever program -i is started and     *)
(* wherever jobs are killed: what the operator's answers can cost, and     *)
(* that nothing else costs a copy of the program; -r leaves the injections *)
(* of inject.json, each once, and what it removed stays out; the flags of  *)
(* every program that compiles have room for its guards.                   *)
(***************************************************************************)
EXTENDS Toolchain, SequenceTheorems, TLAPS

SrcPristine == src = [f \in Nodes |-> Pristine]

(* The source tree, and the whole program, is in the backup. *)
TreeBacked == \A f \in TreeNodes : backup[f] = Pristine
Backed == TreeBacked /\ entryBak = Pristine

(* The steps of -i before it has the backups, of -r until the program is     *)
(* restored, of both until inject.json is written, and those that write.     *)
Early == {"askBackup", "dropBackup", "copyBackup", "copyEntry"}
Restoring == {"dropSource", "restoreSource", "moveEntry", "restoreEntry"}
Planning == {"readJson", "truncate", "dump", "fail"}
Writing == {"rewrite", "declare", "entry"}

TypeInv == TypeOK /\ src \in [Nodes -> Contents] /\ backup \in [Nodes -> Contents]

(* Which job runs, and what is known of its plan and of inject.json.         *)
JobInv ==
  /\ pc \in Early => job = "inject"
  /\ pc \in Restoring \cup {"readJson"} => job = "remove"
  /\ pc # "idle" => job \in {"inject", "remove"}
  /\ pc \in Early \cup Planning \cup Writing => src["entry"] # Missing

PlanInv ==
  /\ pc \in {"truncate", "dump"} /\ job = "inject" => plan = Indices
  /\ pc \in {"truncate", "dump"} /\ job = "remove" => plan \cap (removed \cup rm) = {}
  /\ pc \in Writing => /\ json.state = "full" /\ json.set = plan /\ todo \subseteq Planned
                       /\ job = "inject" => plan = Indices
  /\ pc = "entry" => todo = {}
  /\ json.state = "full" => json.set \cap removed = {}

(***************************************************************************)
(* As long as the copy of the tree is sound: it is only replaced while the *)
(* tree in place is as it was distributed, and the tree is only touched    *)
(* when the copy is complete.                                              *)
(***************************************************************************)
TreeInv ==
  TreeSafe =>
    /\ \A f \in Nodes : backup[f] \in {Missing, Pristine}
    /\ pc \in {"dropBackup", "copyBackup"} => TreePristine
    /\ pc \in {"idle", "askBackup"} => TreePristine \/ TreeBacked
    /\ pc \in {"copyEntry"} \cup Restoring \cup Planning \cup Writing => TreeBacked

(* Without a slip, the same of the entry file. *)
EntryInv ==
  slips = {} =>
    /\ entryBak \in {Missing, Pristine}
    /\ pc \in Early \cup Planning \cup Writing => src["entry"] = Pristine
    /\ pc \in Early \cup {"idle"} => SrcPristine \/ Backed
    /\ pc \in Restoring \cup Planning \cup Writing => entryBak = Pristine

Pcs == pc \in {"idle"} \cup Early \cup Restoring \cup Planning \cup Writing

(* What -r has made of the file f so far. *)
Stage(f) ==
  IF f \notin Planned THEN Pristine
  ELSE IF pc = "rewrite" THEN IF f \in todo THEN Pristine ELSE <<Guards(Of(f))>>
  ELSE IF f \in todo THEN <<Guards(Of(f))>> ELSE <<Guards(Of(f)), Declaration>>

(* What the tree holds at each step of -r. *)
ProgramInv ==
  TreeSafe =>
    /\ pc = "restoreSource" => \A f \in Files : src[f] \in {Missing, Pristine}
    /\ pc \in {"moveEntry", "restoreEntry"} => \A f \in Files : src[f] = Pristine
    /\ pc \in Planning /\ job = "remove" => \A f \in Files : src[f] = Pristine
    /\ pc \in Writing /\ job = "remove" => \A f \in Files : src[f] = Stage(f)

Defined(D) == <<[kind |-> "definition", set |-> D]>>

(* The entry file defines the flags of every guard in the program.           *)
Covered(D) == \A f \in Files : \A p \in Parts(f) : p.set \subseteq D
RoomInv ==
  slips = {} =>
    \/ src["entry"] \in {Missing, Pristine}
    \/ \E D \in SUBSET Indices : src["entry"] = Defined(D) /\ Covered(D)

FullInv ==
  /\ TypeInv /\ Pcs /\ JobInv /\ PlanInv
  /\ TreeInv /\ EntryInv /\ ProgramInv /\ RoomInv /\ RemoveExact
-----------------------------------------------------------------------------
(* Appending a first part to a file, and a second one. *)
LEMMA AppendOne ==
  ASSUME NEW x
  PROVE  Append(<<>>, x) = <<x>>
<1>1. <<>> \in Seq({x}) /\ x \in {x} /\ <<x>> \in Seq({x})
  OBVIOUS
<1>2. Append(<<>>, x) \in Seq({x}) /\ Len(Append(<<>>, x)) = 1 /\ Append(<<>>, x)[1] = x
  BY <1>1, AppendProperties
<1> QED
  BY <1>1, <1>2, SeqEqual

LEMMA AppendTwo ==
  ASSUME NEW x, NEW y
  PROVE  Append(<<x>>, y) = <<x, y>>
<1>1. <<x>> \in Seq({x, y}) /\ y \in {x, y} /\ <<x, y>> \in Seq({x, y})
  OBVIOUS
<1>2. /\ Append(<<x>>, y) \in Seq({x, y})
      /\ Len(Append(<<x>>, y)) = 2
      /\ Append(<<x>>, y)[1] = x
      /\ Append(<<x>>, y)[2] = y
  BY <1>1, AppendProperties
<1>3. \A i \in 1..2 : Append(<<x>>, y)[i] = <<x, y>>[i]
  BY <1>2
<1> QED
  BY <1>1, <1>2, <1>3, SeqEqual

(* What appending to the contents of a file gives, and what differs.         *)
LEMMA ContentFacts ==
  ASSUME NEW S
  PROVE  /\ Pristine # Missing
         /\ Append(Pristine, Guards(S)) = <<Guards(S)>>
         /\ Append(<<Guards(S)>>, Declaration) = <<Guards(S), Declaration>>
         /\ <<Guards(S)>> \notin {Pristine, Missing}
         /\ <<Guards(S), Declaration>> \notin {Pristine, Missing}
         /\ Append(Pristine, Definition(S)) = Defined(Definition(S).set)
         /\ Defined(S) \notin {Pristine, Missing}
<1>1. Pristine # Missing
  BY DEF Pristine, Missing
<1>2. \A x, y : Append(<<>>, x) = <<x>> /\ Append(<<x>>, y) = <<x, y>>
  BY AppendOne, AppendTwo
<1>3. /\ <<Guards(S)>> \notin {Pristine, Missing}
      /\ <<Guards(S), Declaration>> \notin {Pristine, Missing}
      /\ Defined(S) \notin {Pristine, Missing}
  BY DEF Pristine, Missing, Guards, Declaration, Defined
<1>4. Append(Pristine, Definition(S)) = Defined(Definition(S).set)
  <2>1. Definition(S) = [kind |-> "definition", set |-> Definition(S).set]
    BY DEF Definition
  <2> QED
    BY <1>2, <2>1 DEF Pristine, Defined
<1> QED
  BY <1>1, <1>2, <1>3, <1>4 DEF Pristine

(* What may be written into a file, and that a file stays one.               *)
LEMMA WrittenFacts ==
  ASSUME NEW S \in SUBSET Indices
  PROVE  /\ Guards(S) \in Written /\ Declaration \in Written /\ Definition(S) \in Written
         /\ Pristine \in Contents /\ Missing \in Contents
<1>1. /\ Guards(S) \in {Guards(D) : D \in SUBSET Indices}
      /\ Definition(S) \in {[kind |-> "definition", set |-> D] : D \in SUBSET Indices}
  BY DEF Definition
<1>2. Pristine \in Seq(Written)
  BY DEF Pristine
<1> QED
  BY <1>1, <1>2 DEF Written, Contents

LEMMA AppendWritten ==
  ASSUME NEW c \in Contents, c # Missing, NEW p \in Written
  PROVE  Append(c, p) \in Contents
BY AppendProperties DEF Contents

(* Nothing but candidates is ever injected. *)
LEMMA PartsWithin ==
  ASSUME NEW f \in Nodes, src[f] \in Contents
  PROVE  \A p \in Parts(f) : p.set \subseteq Indices
<1>1. CASE src[f] = Missing
  BY <1>1 DEF Parts, Missing
<1>2. CASE src[f] \in Seq(Written)
  <2>1. \A p \in Written : p.set \subseteq Indices
    BY DEF Written, Guards, Declaration
  <2>2. \A i \in DOMAIN src[f] : src[f][i] \in Written
    BY <1>2
  <2> QED
    BY <2>1, <2>2 DEF Parts
<1> QED
  BY <1>1, <1>2 DEF Contents

LEMMA WrittenParts ==
  ASSUME NEW c, NEW S, c \in {Pristine, <<Guards(S), Declaration>>}
  PROVE  \A i \in DOMAIN c : c[i].set \subseteq S
BY DEF Pristine, Guards, Declaration

LEMMA InjectedWithin ==
  ASSUME NEW D, Covered(D)
  PROVE  Injected \subseteq D
BY DEF Injected, Covered

LEMMA InjectedIn ==
  ASSUME NEW D,
         \A f \in Files : \E S \in SUBSET D :
           src[f] \in {Pristine, <<Guards(S), Declaration>>}
  PROVE  Injected \subseteq D
<1>1. ASSUME NEW f \in Files
      PROVE  \A i \in DOMAIN src[f] : src[f][i].set \subseteq D
  <2>1. PICK S \in SUBSET D : src[f] \in {Pristine, <<Guards(S), Declaration>>}
    BY <1>1
  <2>2. CASE src[f] = Pristine
    BY <2>2 DEF Pristine
  <2>3. CASE src[f] = <<Guards(S), Declaration>>
    <3>1. \A i \in DOMAIN src[f] : src[f][i].set \subseteq S
      BY <2>3 DEF Guards, Declaration
    <3> QED
      BY <3>1
  <2> QED
    BY <2>1, <2>2, <2>3
<1> QED
  BY <1>1, InjectedWithin DEF Covered, Parts

(* A slip is only ever added. *)
LEMMA SlipsGrow ==
  ASSUME Next, ~StartOver
  PROVE  slips \subseteq slips'
<1>1. CASE StartInject \/ AskBackup \/ StartRemove
  <2>1. \E what, when : Slip(what, when)
    BY <1>1 DEF StartInject, AskBackup, StartRemove
  <2> QED
    BY <2>1 DEF Slip
<1>2. CASE ~(StartInject \/ AskBackup \/ StartRemove)
  BY <1>2 DEF Next, CopyEntry, MoveEntry, RestoreEntry, ReadJson, TruncateJson, DumpJson,
     InjectEntryFile, Fail, Kill, DropBackup, CopyBackup, DropSource, RestoreSource, Rewrite,
     Declare, Build, Recover
<1> QED
  BY <1>1, <1>2
-----------------------------------------------------------------------------
(* The invariant holds initially, and when the operator starts over.         *)
LEMMA Fresh ==
  ASSUME pc = "idle", src = [f \in Nodes |-> Pristine],
         \A f \in Nodes : backup[f] = Missing, entryBak = Missing, json.state = "none", job = "none", TypeInv
  PROVE  FullInv
<1>1. TreePristine /\ SrcPristine /\ src["entry"] = Pristine
  BY DEF TreePristine, SrcPristine, TreeNodes, Nodes
<1>2. Pcs /\ JobInv /\ PlanInv /\ RemoveExact
  BY DEF Pcs, JobInv, PlanInv, RemoveExact, Early, Restoring, Planning, Writing
<1>3. TreeInv /\ EntryInv /\ ProgramInv
  BY <1>1 DEF TreeInv, EntryInv, ProgramInv, Early, Restoring, Planning, Writing
<1>4. RoomInv
  BY <1>1 DEF RoomInv
<1> QED
  BY <1>2, <1>3, <1>4 DEF FullInv

LEMMA InitFull == Init => FullInv
<1> SUFFICES ASSUME Init PROVE FullInv
  OBVIOUS
<1>1. /\ pc = "idle" /\ job = "none" /\ json = [state |-> "none", set |-> {}]
      /\ src = [f \in Nodes |-> Pristine] /\ backup = [f \in Nodes |-> Missing]
      /\ entryBak = Missing /\ exe = [state |-> "none", set |-> {}]
  BY DEF Init
<1>2. Pristine \in Contents /\ Missing \in Contents
  BY WrittenFacts
<1>3. TypeInv
  BY <1>1, <1>2 DEF Init, TypeInv, TypeOK
<1> QED
  BY <1>1, <1>3, Fresh

(* The type of every variable. *)
LEMMA TypeStep ==
  ASSUME FullInv, Next
  PROVE  TypeInv'
<1>1. TypeOK /\ src \in [Nodes -> Contents] /\ backup \in [Nodes -> Contents]
  BY DEF FullInv, TypeInv
<1>2. /\ Pristine \in Contents /\ Missing \in Contents /\ entryBak \in Contents
      /\ "entry" \in Nodes /\ Files \subseteq Nodes
  BY <1>1, WrittenFacts DEF TypeOK, Nodes
<1>3. src' \in [Nodes -> Contents]
  <2>1. CASE UNCHANGED src
    BY <1>1, <2>1
  <2>2. CASE MoveEntry \/ RestoreEntry \/ StartOver
    BY <1>1, <1>2, <2>2 DEF MoveEntry, RestoreEntry, StartOver
  <2>3. CASE Recover
    BY <1>1, <1>2, <2>3 DEF Recover
  <2>4. ASSUME NEW f \in Nodes, DropSource(f) \/ RestoreSource(f)
        PROVE  src' \in [Nodes -> Contents]
    BY <1>1, <1>2, <2>4 DEF DropSource, RestoreSource
  <2>5. ASSUME NEW f \in Nodes, Rewrite(f)
        PROVE  src' \in [Nodes -> Contents]
    <3>1. PICK S \in SUBSET Of(f) :
            src' = [src EXCEPT ![f] = IF @ = Missing \/ S = {} THEN @ ELSE Append(@, Guards(S))]
      BY <2>5 DEF Rewrite
    <3>2. Guards(S) \in Written
      BY <1>1, WrittenFacts DEF Of, TypeOK
    <3>3. src[f] # Missing => Append(src[f], Guards(S)) \in Contents
      BY <1>1, <3>2, AppendWritten
    <3> QED
      BY <1>1, <3>1, <3>3
  <2>6. ASSUME NEW f \in Nodes, Declare(f)
        PROVE  src' \in [Nodes -> Contents]
    <3>1. src' = [src EXCEPT ![f] = Append(@, Declaration)] /\ src[f] # Missing
      BY <2>6 DEF Declare
    <3>2. Declaration \in Written
      BY DEF Written
    <3>3. Append(src[f], Declaration) \in Contents
      BY <1>1, <3>1, <3>2, AppendWritten
    <3> QED
      BY <1>1, <3>1, <3>3
  <2>7. CASE InjectEntryFile
    <3>1. src' = [src EXCEPT !["entry"] = Append(@, Definition(plan))] /\ pc = "entry"
      BY <2>7 DEF InjectEntryFile
    <3>2. Definition(plan) \in Written /\ src["entry"] # Missing
      BY <1>1, <3>1, WrittenFacts DEF TypeOK, FullInv, JobInv, Writing
    <3>3. Append(src["entry"], Definition(plan)) \in Contents
      BY <1>1, <1>2, <3>2, AppendWritten
    <3> QED
      BY <1>1, <3>1, <3>3
  <2> QED
    BY <2>1, <2>2, <2>3, <2>4, <2>5, <2>6, <2>7
    DEF Next, StartInject, AskBackup, CopyEntry, StartRemove, ReadJson, TruncateJson, DumpJson,
        Fail, Kill, DropBackup, CopyBackup, Build, disk
<1>4. backup' \in [Nodes -> Contents] /\ entryBak' \in Contents
  <2>1. CASE UNCHANGED <<backup, entryBak>>
    BY <1>1, <1>2, <2>1
  <2>2. CASE CopyEntry \/ StartOver
    BY <1>1, <1>2, <2>2 DEF CopyEntry, StartOver
  <2>3. ASSUME NEW f \in Nodes, DropBackup(f) \/ CopyBackup(f)
        PROVE  backup' \in [Nodes -> Contents] /\ entryBak' \in Contents
    BY <1>1, <1>2, <2>3 DEF DropBackup, CopyBackup
  <2> QED
    BY <2>1, <2>2, <2>3
    DEF Next, StartInject, AskBackup, StartRemove, ReadJson, TruncateJson, DumpJson, MoveEntry,
        RestoreEntry, DropSource, RestoreSource, Rewrite, Declare, InjectEntryFile, Recover,
        Fail, Kill, Build, disk
<1>5. /\ inside' = inside
      /\ rm' \subseteq Indices /\ plan' \subseteq Indices /\ removed' \subseteq Indices
      /\ todo' \subseteq Files
  <2>1. Planned \subseteq Files
    BY <1>1, TypeOfConstants DEF Planned, TypeOK
  <2> QED
    BY <1>1, <2>1
    DEF Next, StartInject, AskBackup, CopyEntry, StartRemove, ReadJson, TruncateJson, DumpJson,
        DropBackup, CopyBackup, MoveEntry, RestoreEntry, DropSource, RestoreSource, Rewrite,
        Declare, InjectEntryFile, Recover, StartOver, Fail, Kill, Build, disk, End, Left, TypeOK
<1>6. json' \in [state : {"none", "cut", "full"}, set : SUBSET Indices]
  <2>1. CASE TruncateJson \/ DumpJson \/ StartOver
    BY <1>1, <2>1 DEF TruncateJson, DumpJson, StartOver, TypeOK
  <2>2. CASE UNCHANGED json
    BY <1>1, <2>2 DEF TypeOK
  <2> QED
    BY <2>1, <2>2
    DEF Next, StartInject, AskBackup, CopyEntry, StartRemove, ReadJson, DropBackup, CopyBackup,
        MoveEntry, RestoreEntry, DropSource, RestoreSource, Rewrite, Declare, InjectEntryFile,
        Recover, Fail, Kill, Build, disk
<1>7. exe' \in [state : {"none", "built"}, set : SUBSET Indices]
  <2>1. Injected \subseteq Indices
    BY <1>1, <1>2, PartsWithin, InjectedWithin DEF Covered
  <2>2. CASE Build
    BY <2>1, <2>2 DEF Build
  <2>3. CASE UNCHANGED exe
    BY <1>1, <2>3 DEF TypeOK
  <2> QED
    BY <2>2, <2>3
    DEF Next, StartInject, AskBackup, CopyEntry, StartRemove, ReadJson, TruncateJson, DumpJson,
        DropBackup, CopyBackup, MoveEntry, RestoreEntry, DropSource, RestoreSource, Rewrite,
        Declare, InjectEntryFile, Recover, StartOver, Fail, Kill, disk, End
<1>8. slips' \subseteq {"entry", "overwritten", "half"}
  BY <1>1
  DEF Next, StartInject, AskBackup, CopyEntry, StartRemove, ReadJson, TruncateJson, DumpJson,
      DropBackup, CopyBackup, MoveEntry, RestoreEntry, DropSource, RestoreSource, Rewrite,
      Declare, InjectEntryFile, Recover, StartOver, Fail, Kill, Build, Slip, disk, End, TypeOK
<1> QED
  BY <1>1, <1>2, <1>3, <1>4, <1>5, <1>6, <1>7, <1>8 DEF TypeInv, TypeOK

(* Which job runs; the steps of the jobs. *)
LEMMA JobStep ==
  ASSUME FullInv, Next
  PROVE  Pcs' /\ JobInv'
<1>1. Pcs /\ JobInv /\ src \in [Nodes -> Contents] /\ "entry" \in Nodes
  BY DEF FullInv, TypeInv, Nodes
<1>2. CASE \/ StartInject \/ AskBackup \/ CopyEntry
           \/ \E f \in Nodes : DropBackup(f) \/ CopyBackup(f)
  <2>1. /\ src' = src /\ src["entry"] # Missing /\ job' = "inject"
        /\ pc' \in Early \cup {"truncate"}
    BY <1>1, <1>2 DEF StartInject, AskBackup, CopyEntry, DropBackup, CopyBackup, PathsExist,
                      JobInv, Early, disk
  <2> QED
    BY <2>1 DEF Pcs, JobInv, Early, Restoring, Planning, Writing
<1>3. CASE \/ StartRemove \/ MoveEntry
           \/ \E f \in Nodes : DropSource(f) \/ RestoreSource(f)
  <2>1. job' = "remove" /\ pc' \in Restoring
    BY <1>1, <1>3 DEF StartRemove, MoveEntry, DropSource, RestoreSource, JobInv, Restoring
  <2> QED
    BY <2>1 DEF Pcs, JobInv, Early, Restoring, Planning, Writing
<1>4. CASE RestoreEntry
  <2>1. job' = "remove" /\ pc' = "readJson" /\ src'["entry"] # Missing
    BY <1>1, <1>4 DEF RestoreEntry, JobInv, Restoring
  <2> QED
    BY <2>1 DEF Pcs, JobInv, Early, Restoring, Planning, Writing
<1>5. CASE ReadJson \/ TruncateJson \/ DumpJson
  <2>1. /\ src' = src /\ src["entry"] # Missing /\ job' = job /\ job \in {"inject", "remove"}
        /\ pc' \in {"truncate", "dump", "fail", "rewrite"}
    BY <1>1, <1>5 DEF ReadJson, TruncateJson, DumpJson, JobInv, Planning, disk
  <2> QED
    BY <2>1 DEF Pcs, JobInv, Early, Restoring, Planning, Writing
<1>6. ASSUME NEW f \in Nodes, Rewrite(f) \/ Declare(f)
      PROVE  Pcs' /\ JobInv'
  <2>1. /\ pc \in Writing /\ pc' \in Writing /\ job' = job
        /\ todo \subseteq Files /\ f \in todo
        /\ \A g \in Nodes : g # f => src'[g] = src[g]
    BY <1>1, <1>6 DEF Rewrite, Declare, Writing, FullInv, TypeInv, TypeOK
  <2>2. src'["entry"] = src["entry"]
    BY <1>1, <2>1, TypeOfConstants
  <2> QED
    BY <1>1, <2>1, <2>2 DEF Pcs, JobInv, Early, Restoring, Planning, Writing
<1>7. CASE InjectEntryFile \/ Fail \/ Kill \/ Recover \/ StartOver
  <2>1. pc' = "idle"
    BY <1>7 DEF InjectEntryFile, Fail, Kill, End, Recover, StartOver
  <2> QED
    BY <2>1 DEF Pcs, JobInv, Early, Restoring, Planning, Writing
<1>8. CASE Build
  BY <1>8 DEF Build, Pcs, JobInv, Early, Restoring, Planning, Writing
<1> QED
  BY <1>2, <1>3, <1>4, <1>5, <1>6, <1>7, <1>8 DEF Next

(* The plan, what is still to write, and inject.json. *)
LEMMA PlanStep ==
  ASSUME FullInv, Next
  PROVE  PlanInv'
<1>1. PlanInv /\ JobInv
  BY DEF FullInv
<1>2. CASE CopyEntry
  <2>1. /\ pc' = "truncate" /\ job' = "inject" /\ plan' = Indices
        /\ json' = json /\ removed' = removed
    BY <1>1, <1>2 DEF CopyEntry, JobInv, Early
  <2> QED
    BY <1>1, <2>1 DEF PlanInv, Writing
<1>3. CASE ReadJson
  <2>1. /\ pc' = "truncate" /\ job' = "remove" /\ json.state = "full"
        /\ plan' = json.set \ rm /\ UNCHANGED <<json, rm, removed>>
    BY <1>1, <1>3 DEF ReadJson, JobInv, Left, disk
  <2>2. plan' \cap (removed \cup rm) = {}
    BY <1>1, <2>1 DEF PlanInv
  <2> QED
    BY <1>1, <2>1, <2>2 DEF PlanInv, Writing
<1>4. CASE TruncateJson
  <2>1. /\ pc = "truncate" /\ pc' = "dump" /\ UNCHANGED <<job, plan, removed, rm>>
        /\ json' = [state |-> "cut", set |-> {}]
    BY <1>4 DEF TruncateJson
  <2> QED
    BY <1>1, <2>1 DEF PlanInv, Writing
<1>5. CASE DumpJson
  <2>1. /\ pc = "dump" /\ pc' \in {"fail", "rewrite"} /\ UNCHANGED <<job, plan>>
        /\ json' = [state |-> "full", set |-> plan] /\ todo' = Planned /\ Planned' = Planned
        /\ removed' = IF job = "inject" THEN {} ELSE removed \cup rm
    BY <1>5 DEF DumpJson, Planned
  <2>2. job \in {"inject", "remove"}
    BY <1>1, <2>1 DEF JobInv
  <2>3. plan \cap removed' = {}
    BY <1>1, <2>1, <2>2 DEF PlanInv
  <2> QED
    BY <1>1, <2>1, <2>2, <2>3 DEF PlanInv, Writing
<1>6. ASSUME NEW f \in Nodes, Rewrite(f) \/ Declare(f)
      PROVE  PlanInv'
  <2>1. /\ pc \in Writing /\ UNCHANGED <<job, plan, json, removed>>
        /\ pc' \in Writing /\ todo' \in {Planned, todo \ {f}} /\ Planned' = Planned
        /\ pc' = "entry" => todo' = {}
    BY <1>6 DEF Rewrite, Declare, Writing, Planned
  <2> QED
    BY <1>1, <2>1 DEF PlanInv, Writing
<1>7. CASE \/ InjectEntryFile \/ Fail \/ Kill \/ Recover \/ Build
           \/ StartInject \/ AskBackup \/ StartRemove \/ MoveEntry \/ RestoreEntry
           \/ \E f \in Nodes : \/ DropBackup(f) \/ CopyBackup(f)
                              \/ DropSource(f) \/ RestoreSource(f)
  <2>1. /\ UNCHANGED <<json, removed>>
        /\ pc' \in {"idle", "readJson"} \cup Early \cup Restoring
    BY <1>7 DEF InjectEntryFile, Fail, Kill, End, Recover, Build, StartInject, AskBackup,
                StartRemove, MoveEntry, RestoreEntry, DropBackup, CopyBackup, DropSource,
                RestoreSource, Early, Restoring, disk
  <2> QED
    BY <1>1, <2>1 DEF PlanInv, Early, Restoring, Writing
<1>8. CASE StartOver
  BY <1>8 DEF StartOver, PlanInv, Writing
<1> QED
  BY <1>2, <1>3, <1>4, <1>5, <1>6, <1>7, <1>8 DEF Next

(* A sound backup that is complete is the tree as it was distributed.        *)
LEMMA CompleteIsBacked ==
  ASSUME \A f \in Nodes : backup[f] \in {Missing, Pristine}, BackupComplete
  PROVE  TreeBacked
BY DEF BackupComplete, TreeBacked, Here, TreeNodes, Nodes

(* A step of a job that has the backup, or that begins when it is there.     *)
LEMMA BackedStep ==
  ASSUME TreeSafe, TreeInv, TreeBacked, UNCHANGED <<inside, backup>>,
         pc' \notin {"dropBackup", "copyBackup"}
  PROVE  TreeInv'
<1>1. TreeBacked' /\ \A f \in Nodes : backup'[f] \in {Missing, Pristine}
  BY DEF TreeInv, TreeBacked, TreeNodes, Nodes
<1> QED
  BY <1>1 DEF TreeInv

(* The copy of the tree. *)
LEMMA TreeStep ==
  ASSUME FullInv, Next, ~StartOver
  PROVE  TreeInv'
<1> SUFFICES ASSUME TreeSafe' PROVE TreeInv'
  BY DEF TreeInv
<1>1. /\ TreeSafe /\ TreeInv /\ Pcs /\ src \in [Nodes -> Contents]
      /\ backup \in [Nodes -> Contents]
      /\ \A f \in Nodes : backup[f] \in {Missing, Pristine}
  BY SlipsGrow DEF TreeSafe, FullInv, TypeInv, TreeInv
<1>2. CASE StartInject
  <2>1. UNCHANGED <<inside, src, backup>> /\ pc = "idle" /\ pc' = "askBackup"
    BY <1>2 DEF StartInject, disk
  <2>2. TreePristine' \/ TreeBacked'
    BY <1>1, <2>1 DEF TreeInv, TreePristine, TreeBacked, TreeNodes, Nodes
  <2> QED
    BY <1>1, <2>1, <2>2 DEF TreeInv, Restoring, Planning, Writing
<1>3. CASE AskBackup
  <2>1. UNCHANGED <<inside, src, backup>>
    BY <1>3 DEF AskBackup, disk
  <2>2. CASE pc' \in {"copyBackup", "dropBackup"}
    <3>1. Slip("overwritten", ~TreePristine)
      BY <1>3, <2>2 DEF AskBackup
    <3>2. TreePristine
      BY <3>1 DEF Slip, TreeSafe
    <3>3. TreePristine'
      BY <2>1, <3>2 DEF TreePristine, TreeNodes, Nodes
    <3> QED
      BY <1>1, <2>1, <2>2, <3>3 DEF TreeInv, Restoring, Planning, Writing
  <2>3. CASE pc' = "copyEntry" /\ Slip("half", ~BackupComplete)
    <3>1. BackupComplete
      BY <2>3 DEF Slip, TreeSafe
    <3> QED
      BY <1>1, <2>1, <2>3, <3>1, CompleteIsBacked, BackedStep
  <2> QED
    BY <1>3, <2>2, <2>3 DEF AskBackup
<1>4. ASSUME NEW f \in Nodes, DropBackup(f)
      PROVE  TreeInv'
  <2>1. /\ UNCHANGED <<inside, src>> /\ pc = "dropBackup" /\ pc' \in {"dropBackup", "copyBackup"}
        /\ backup' = [backup EXCEPT ![f] = Missing]
    BY <1>4 DEF DropBackup
  <2>2. TreePristine'
    BY <1>1, <2>1 DEF TreeInv, TreePristine, TreeNodes, Nodes
  <2> QED
    BY <1>1, <2>1, <2>2 DEF TreeInv, Restoring, Planning, Writing
<1>5. ASSUME NEW f \in Nodes, CopyBackup(f)
      PROVE  TreeInv'
  <2>1. /\ UNCHANGED <<inside, src>> /\ pc = "copyBackup" /\ pc' \in {"copyBackup", "copyEntry"}
        /\ backup' = [backup EXCEPT ![f] = src[f]]
        /\ f \in Here(src) /\ (pc' = "copyEntry" => Here(src) \ Here(backup) = {f})
    BY <1>5 DEF CopyBackup
  <2>2. TreePristine /\ TreePristine'
    BY <1>1, <2>1 DEF TreeInv, TreePristine, TreeNodes, Nodes
  <2>3. src[f] = Pristine
    BY <2>1, <2>2 DEF TreePristine, Here
  <2>4. \A g \in Nodes : backup'[g] \in {Missing, Pristine}
    BY <1>1, <2>1, <2>3
  <2>5. pc' = "copyEntry" => TreeBacked'
    <3> SUFFICES ASSUME pc' = "copyEntry", NEW g \in TreeNodes
                 PROVE  backup'[g] = Pristine
      BY <2>1 DEF TreeBacked, TreeNodes, Nodes
    <3>1. g \in Here(src)
      BY <2>2, ContentFacts DEF Here, TreePristine
    <3>2. g \in Here(backup) \/ g = f
      BY <2>1, <3>1
    <3>3. g \in Nodes
      BY DEF TreeNodes, Nodes
    <3> QED
      BY <1>1, <2>1, <2>3, <3>2, <3>3 DEF Here
  <2> QED
    BY <2>1, <2>2, <2>4, <2>5 DEF TreeInv, Restoring, Planning, Writing
<1>6. CASE StartRemove
  <2>1. /\ UNCHANGED <<inside, backup>> /\ pc' = "dropSource"
        /\ Slip("half", ~BackupComplete \/ entryBak = Missing)
    BY <1>6 DEF StartRemove, disk
  <2>2. BackupComplete
    BY <2>1 DEF Slip, TreeSafe
  <2> QED
    BY <1>1, <2>1, <2>2, CompleteIsBacked, BackedStep
<1>7. CASE \/ CopyEntry \/ MoveEntry \/ RestoreEntry \/ ReadJson \/ TruncateJson \/ DumpJson
           \/ InjectEntryFile
           \/ \E f \in Nodes : \/ DropSource(f) \/ RestoreSource(f)
                              \/ Rewrite(f) \/ Declare(f)
  <2>1. /\ pc \in {"copyEntry"} \cup Restoring \cup Planning \cup Writing
        /\ pc' \notin {"dropBackup", "copyBackup"}
        /\ UNCHANGED <<inside, backup>>
    BY <1>7 DEF CopyEntry, MoveEntry, RestoreEntry, ReadJson, TruncateJson, DumpJson,
                InjectEntryFile, End, DropSource, RestoreSource, Rewrite, Declare, Restoring,
                Planning, Writing, disk
  <2> QED
    BY <1>1, <2>1, BackedStep DEF TreeInv
<1>8. CASE Fail \/ Kill \/ Build
  <2>1. UNCHANGED <<inside, src, backup>> /\ pc' = "idle"
    BY <1>8 DEF Fail, Kill, End, Build, disk
  <2>2. TreePristine \/ TreeBacked
    BY <1>1 DEF TreeInv, Pcs, Early
  <2>3. TreePristine' \/ TreeBacked'
    BY <2>1, <2>2 DEF TreePristine, TreeBacked, TreeNodes, Nodes
  <2> QED
    BY <1>1, <2>1, <2>3 DEF TreeInv, Restoring, Planning, Writing
<1>9. CASE Recover
  <2>1. UNCHANGED <<inside, backup>> /\ pc' = "idle" /\ BackupComplete
    BY <1>9 DEF Recover
  <2> QED
    BY <1>1, <2>1, CompleteIsBacked, BackedStep
<1> QED
  BY <1>2, <1>3, <1>4, <1>5, <1>6, <1>7, <1>8, <1>9 DEF Next

(* The copy of the entry file. *)
LEMMA EntryStep ==
  ASSUME FullInv, Next, ~StartOver
  PROVE  EntryInv'
<1> SUFFICES ASSUME slips' = {} PROVE EntryInv'
  BY DEF EntryInv
<1>1. /\ slips = {} /\ TreeSafe /\ TreeInv /\ EntryInv /\ Pcs
      /\ src \in [Nodes -> Contents] /\ "entry" \in Nodes
      /\ entryBak \in {Missing, Pristine}
      /\ \A f \in Nodes : backup[f] \in {Missing, Pristine}
  BY SlipsGrow DEF TreeSafe, FullInv, TypeInv, TreeInv, EntryInv, Nodes
<1>2. (pc \in Early \cup {"idle"} => SrcPristine \/ Backed)
      /\ (pc \in Restoring \cup Planning \cup Writing => Backed)
  BY <1>1 DEF EntryInv, TreeInv, Backed
<1>3. ASSUME UNCHANGED <<inside, src, backup, entryBak>>, SrcPristine \/ Backed
      PROVE  SrcPristine' \/ Backed'
  BY <1>3 DEF SrcPristine, Backed, TreeBacked, TreeNodes, Nodes
<1>4. CASE StartInject
  <2>1. /\ UNCHANGED <<inside, src, backup, entryBak>> /\ pc = "idle" /\ pc' = "askBackup"
        /\ Slip("entry", src["entry"] # Pristine)
    BY <1>4 DEF StartInject, disk
  <2>2. src["entry"] = Pristine
    BY <2>1 DEF Slip
  <2> QED
    BY <1>1, <1>2, <1>3, <2>1, <2>2 DEF EntryInv, Early, Restoring, Planning, Writing
<1>5. CASE AskBackup
  <2>1. UNCHANGED <<inside, src, backup, entryBak>> /\ pc \in Early /\ pc' \in Early
    BY <1>5 DEF AskBackup, Early, disk
  <2> QED
    BY <1>1, <1>2, <1>3, <2>1 DEF EntryInv, Early, Restoring, Planning, Writing
<1>6. ASSUME NEW f \in Nodes, DropBackup(f) \/ CopyBackup(f)
      PROVE  EntryInv'
  <2>1. /\ UNCHANGED <<src, entryBak>> /\ pc \in {"dropBackup", "copyBackup"} /\ pc' \in Early
    BY <1>6 DEF DropBackup, CopyBackup, Early
  <2>2. src["entry"] = Pristine /\ TreePristine
    BY <1>1, <2>1 DEF EntryInv, TreeInv, Early
  <2>3. \A g \in Nodes : src[g] = Pristine
    BY <2>2 DEF TreePristine, TreeNodes, Nodes
  <2>4. SrcPristine'
    BY <1>1, <2>1, <2>3 DEF SrcPristine
  <2> QED
    BY <1>1, <2>1, <2>2, <2>4 DEF EntryInv, Early, Restoring, Planning, Writing
<1>7. CASE CopyEntry
  <2>1. /\ src' = src /\ pc = "copyEntry" /\ pc' = "truncate" /\ entryBak' = src["entry"]
    BY <1>7 DEF CopyEntry
  <2>2. src["entry"] = Pristine
    BY <1>1, <2>1 DEF EntryInv, Early
  <2> QED
    BY <2>1, <2>2 DEF EntryInv, Early, Restoring, Planning, Writing
<1>8. CASE StartRemove
  <2>1. /\ entryBak' = entryBak /\ pc' = "dropSource"
        /\ Slip("half", ~BackupComplete \/ entryBak = Missing)
    BY <1>8 DEF StartRemove, disk
  <2>2. entryBak = Pristine
    BY <1>1, <2>1 DEF Slip
  <2> QED
    BY <2>1, <2>2 DEF EntryInv, Early, Restoring, Planning, Writing
<1>9. CASE MoveEntry \/ \E f \in Nodes : DropSource(f) \/ RestoreSource(f)
  <2>1. entryBak' = entryBak /\ pc \in Restoring /\ pc' \in Restoring
    BY <1>9 DEF MoveEntry, DropSource, RestoreSource, Restoring
  <2> QED
    BY <1>1, <2>1 DEF EntryInv, Early, Restoring, Planning, Writing
<1>10. CASE RestoreEntry
  <2>1. /\ entryBak' = entryBak /\ pc = "restoreEntry" /\ pc' = "readJson"
        /\ src' = [src EXCEPT !["entry"] = entryBak]
    BY <1>10 DEF RestoreEntry
  <2>2. entryBak = Pristine
    BY <1>1, <2>1 DEF EntryInv, Restoring
  <2>3. src'["entry"] = Pristine
    BY <1>1, <2>1, <2>2
  <2> QED
    BY <2>1, <2>2, <2>3 DEF EntryInv, Early, Restoring, Planning, Writing
<1>11. CASE \/ ReadJson \/ TruncateJson \/ DumpJson
            \/ \E f \in Nodes : Rewrite(f) \/ Declare(f)
  <2>1. /\ entryBak' = entryBak /\ pc \in Planning \cup Writing /\ pc' \in Planning \cup Writing
    BY <1>11 DEF ReadJson, TruncateJson, DumpJson, Rewrite, Declare, Planning, Writing, disk
  <2>2. src'["entry"] = src["entry"]
    <3>1. CASE ReadJson \/ TruncateJson \/ DumpJson
      BY <3>1 DEF ReadJson, TruncateJson, DumpJson, disk
    <3>2. ASSUME NEW f \in Nodes, Rewrite(f) \/ Declare(f)
          PROVE  src'["entry"] = src["entry"]
      <4>1. f \in Files /\ \A g \in Nodes : g # f => src'[g] = src[g]
        BY <1>1, <3>2 DEF Rewrite, Declare, FullInv, TypeInv, TypeOK
      <4> QED
        BY <1>1, <4>1, TypeOfConstants
    <3> QED
      BY <1>11, <3>1, <3>2
  <2> QED
    BY <1>1, <2>1, <2>2 DEF EntryInv, Early, Restoring, Planning, Writing
<1>12. CASE InjectEntryFile
  <2>1. UNCHANGED <<inside, backup, entryBak>> /\ pc = "entry" /\ pc' = "idle"
    BY <1>12 DEF InjectEntryFile, End
  <2>2. Backed'
    BY <1>2, <2>1 DEF Writing, Backed, TreeBacked, TreeNodes, Nodes
  <2> QED
    BY <1>1, <2>1, <2>2 DEF EntryInv, Early, Restoring, Planning, Writing
<1>13. CASE Fail \/ Kill \/ Build
  <2>1. UNCHANGED <<inside, src, backup, entryBak>> /\ pc' = "idle"
    BY <1>13 DEF Fail, Kill, End, Build, disk
  <2>2. SrcPristine \/ Backed
    BY <1>1, <1>2 DEF Pcs
  <2> QED
    BY <1>1, <1>3, <2>1, <2>2 DEF EntryInv, Early, Restoring, Planning, Writing
<1>14. CASE Recover
  <2>1. UNCHANGED <<inside, backup, entryBak>> /\ pc = "idle" /\ pc' = "idle" /\ ~SrcPristine
    BY <1>14 DEF Recover, SrcPristine
  <2>2. Backed'
    BY <1>2, <2>1 DEF Backed, TreeBacked, TreeNodes, Nodes
  <2> QED
    BY <1>1, <2>1, <2>2 DEF EntryInv, Early, Restoring, Planning, Writing
<1> QED
  BY <1>4, <1>5, <1>6, <1>7, <1>8, <1>9, <1>10, <1>11, <1>12, <1>13, <1>14 DEF Next

(* What the tree holds while -r restores and writes it. *)
LEMMA ProgramStep ==
  ASSUME FullInv, Next, ~StartOver
  PROVE  ProgramInv'
<1> SUFFICES ASSUME TreeSafe' PROVE ProgramInv'
  BY DEF ProgramInv
<1>1. /\ TreeSafe /\ TreeInv /\ ProgramInv /\ JobInv /\ PlanInv
      /\ src \in [Nodes -> Contents] /\ Files \subseteq TreeNodes /\ Files \subseteq Nodes
      /\ "entry" \in Nodes /\ "entry" \notin Files
  BY SlipsGrow, TypeOfConstants DEF TreeSafe, FullInv, TypeInv, TreeNodes, Nodes
<1>2. CASE \/ StartInject \/ AskBackup \/ CopyEntry \/ StartRemove
           \/ \E f \in Nodes : DropBackup(f) \/ CopyBackup(f)
  <2>1. pc' \in Early \cup {"dropSource"} \/ (pc' = "truncate" /\ job' = "inject")
    BY <1>1, <1>2 DEF StartInject, AskBackup, CopyEntry, StartRemove, DropBackup, CopyBackup,
                      Early, JobInv
  <2> QED
    BY <2>1 DEF ProgramInv, Early, Planning, Writing
<1>3. CASE InjectEntryFile \/ Fail \/ Kill \/ Recover \/ Build
  <2>1. pc' = "idle"
    BY <1>3 DEF InjectEntryFile, Fail, Kill, End, Recover, Build
  <2> QED
    BY <2>1 DEF ProgramInv, Planning, Writing
<1>4. ASSUME NEW f \in Nodes, DropSource(f)
      PROVE  ProgramInv'
  <2>1. /\ src' = [src EXCEPT ![f] = Missing] /\ pc' \in {"dropSource", "restoreSource"}
        /\ pc' = "restoreSource" => Here(src) = {f}
    BY <1>4 DEF DropSource
  <2>2. pc' = "restoreSource" => \A g \in Files : src'[g] = Missing
    BY <1>1, <2>1 DEF Here
  <2> QED
    BY <2>1, <2>2 DEF ProgramInv, Planning, Writing
<1>5. ASSUME NEW f \in Nodes, RestoreSource(f)
      PROVE  ProgramInv'
  <2>1. /\ src' = [src EXCEPT ![f] = backup[f]] /\ pc' \in {"restoreSource", "moveEntry"}
        /\ pc = "restoreSource" /\ f \in TreeNodes
        /\ pc' = "moveEntry" => Here(backup) \ Here(src) = {f}
    BY <1>5 DEF RestoreSource, Here
  <2>2. TreeBacked /\ backup[f] = Pristine
    BY <1>1, <2>1 DEF TreeInv, Restoring, TreeBacked
  <2>3. \A g \in Files : src[g] \in {Missing, Pristine}
    BY <1>1, <2>1 DEF ProgramInv
  <2>4. \A g \in Files : src'[g] \in {Missing, Pristine}
    BY <1>1, <2>1, <2>2, <2>3
  <2>5. pc' = "moveEntry" => \A g \in Files : src'[g] = Pristine
    <3> SUFFICES ASSUME pc' = "moveEntry", NEW g \in Files PROVE src'[g] = Pristine
      OBVIOUS
    <3>1. g \in Here(backup)
      BY <1>1, <2>2, ContentFacts DEF TreeBacked, Here
    <3>2. g = f \/ src[g] # Missing
      BY <1>1, <2>1, <3>1 DEF Here
    <3> QED
      BY <1>1, <2>1, <2>2, <2>3, <3>2
  <2> QED
    BY <2>1, <2>4, <2>5 DEF ProgramInv, Planning, Writing
<1>6. CASE MoveEntry \/ RestoreEntry
  <2>1. /\ pc \in {"moveEntry", "restoreEntry"} /\ pc' \in {"restoreEntry", "readJson"}
        /\ \A g \in Files : src'[g] = src[g]
    BY <1>1, <1>6 DEF MoveEntry, RestoreEntry
  <2> QED
    BY <1>1, <2>1 DEF ProgramInv, Writing
<1>7. CASE ReadJson \/ TruncateJson
  <2>1. /\ src' = src /\ job' = job /\ pc \in Planning /\ pc' \in Planning \ {"readJson"}
    BY <1>7 DEF ReadJson, TruncateJson, Planning, disk
  <2> QED
    BY <1>1, <2>1 DEF ProgramInv, Planning, Writing
<1>8. CASE DumpJson
  <2>1. /\ src' = src /\ job' = job /\ pc \in Planning /\ pc' \in {"fail", "rewrite"}
        /\ todo' = Planned /\ Planned' = Planned
    BY <1>8 DEF DumpJson, Planning, Planned
  <2>2. pc' = "rewrite" => \A f \in Files : Stage(f)' = Pristine
    BY <2>1 DEF Stage
  <2> QED
    BY <1>1, <2>1, <2>2 DEF ProgramInv, Planning, Writing
<1>9. ASSUME NEW f \in Nodes, Rewrite(f)
      PROVE  ProgramInv'
  <2> SUFFICES ASSUME job' = "remove" PROVE \A g \in Files : src'[g] = Stage(g)'
    BY <1>9 DEF Rewrite, ProgramInv, Planning, Writing
  <2>1. PICK S \in SUBSET Of(f) :
          /\ src[f] = Pristine => S = Of(f)
          /\ src' = [src EXCEPT ![f] = IF @ = Missing \/ S = {} THEN @ ELSE Append(@, Guards(S))]
    BY <1>9 DEF Rewrite
  <2>2. /\ pc = "rewrite" /\ f \in todo /\ job = "remove" /\ todo \subseteq Planned
        /\ Planned' = Planned /\ \A g : Of(g)' = Of(g)
        /\ \/ todo = {f} /\ pc' = "declare" /\ todo' = Planned
           \/ todo # {f} /\ pc' = "rewrite" /\ todo' = todo \ {f}
    BY <1>1, <1>9 DEF Rewrite, PlanInv, Writing, Planned, Of
  <2>3. \A g \in Files : src[g] = Stage(g)
    BY <1>1, <2>2 DEF ProgramInv, Writing
  <2>4. f \in Files /\ src[f] = Pristine /\ Of(f) # {}
    <3>1. f \in Files
      BY <1>1, <2>2, TypeOfConstants DEF Planned, FullInv, TypeInv, TypeOK
    <3> QED
      BY <2>2, <2>3, <3>1 DEF Stage, Planned, Of
  <2>5. src'[f] = <<Guards(Of(f))>>
    BY <1>1, <2>1, <2>4, ContentFacts
  <2>6. Stage(f)' = <<Guards(Of(f))>>
    BY <2>2 DEF Stage
  <2>7. \A g \in Files : g # f => src'[g] = src[g] /\ Stage(g)' = Stage(g)
    BY <1>1, <2>1, <2>2 DEF Stage
  <2> QED
    BY <2>3, <2>5, <2>6, <2>7
<1>10. ASSUME NEW f \in Nodes, Declare(f)
       PROVE  ProgramInv'
  <2> SUFFICES ASSUME job' = "remove" PROVE \A g \in Files : src'[g] = Stage(g)'
    BY <1>10 DEF Declare, ProgramInv, Planning, Writing
  <2>1. /\ pc = "declare" /\ f \in todo /\ job = "remove" /\ todo \subseteq Planned
        /\ Planned' = Planned /\ \A g : Of(g)' = Of(g)
        /\ src' = [src EXCEPT ![f] = Append(@, Declaration)]
        /\ todo' = todo \ {f} /\ pc' = IF todo = {f} THEN "entry" ELSE "declare"
    BY <1>1, <1>10 DEF Declare, PlanInv, Writing, Planned, Of
  <2>2. \A g \in Files : src[g] = Stage(g)
    BY <1>1, <2>1 DEF ProgramInv, Writing
  <2>3. f \in Files /\ src[f] = <<Guards(Of(f))>>
    <3>1. f \in Files
      BY <1>1, <2>1, TypeOfConstants DEF Planned, FullInv, TypeInv, TypeOK
    <3> QED
      BY <2>1, <2>2, <3>1 DEF Stage
  <2>4. src'[f] = <<Guards(Of(f)), Declaration>>
    BY <1>1, <2>1, <2>3, ContentFacts
  <2>5. Stage(f)' = <<Guards(Of(f)), Declaration>>
    BY <2>1 DEF Stage
  <2>6. \A g \in Files : g # f => src'[g] = src[g] /\ Stage(g)' = Stage(g)
    BY <1>1, <2>1 DEF Stage
  <2> QED
    BY <2>2, <2>4, <2>5, <2>6
<1> QED
  BY <1>2, <1>3, <1>4, <1>5, <1>6, <1>7, <1>8, <1>9, <1>10 DEF Next

(* When -r has written everything, the tree has exactly the plan. *)
LEMMA AllWritten ==
  ASSUME FullInv, TreeSafe, pc = "entry", job = "remove"
  PROVE  \A f \in Files :
           src[f] = IF Of(f) = {} THEN Pristine ELSE <<Guards(Of(f)), Declaration>>
<1>1. todo = {} /\ \A f \in Files : src[f] = Stage(f)
  BY DEF FullInv, PlanInv, ProgramInv, Writing
<1>2. \A f : f \in Planned <=> Of(f) # {}
  BY DEF Planned, Of
<1> QED
  BY <1>1, <1>2 DEF Stage

(* What -r leaves when it ends. *)
LEMMA ExactStep ==
  ASSUME FullInv, Next, ~StartOver
  PROVE  RemoveExact'
<1> SUFFICES ASSUME job' = "remove done", TreeSafe' PROVE RemoveExact'
  BY DEF RemoveExact
<1>1. /\ TreeSafe /\ slips \subseteq slips' /\ JobInv /\ PlanInv /\ RemoveExact
      /\ src \in [Nodes -> Contents] /\ EntryInv
      /\ "entry" \in Nodes /\ "entry" \notin Files /\ Files \subseteq Nodes
  BY SlipsGrow, TypeOfConstants DEF TreeSafe, FullInv, TypeInv, Nodes
<1>2. CASE InjectEntryFile
  <2>1. /\ pc = "entry" /\ job = "remove" /\ json' = json /\ slips' = slips
        /\ src' = [src EXCEPT !["entry"] = Append(@, Definition(plan))]
    BY <1>1, <1>2 DEF InjectEntryFile, End, JobInv
  <2>2. json.state = "full" /\ json.set = plan
    BY <1>1, <2>1 DEF PlanInv, Writing
  <2>3. \A f \in Files :
          src'[f] = IF Of(f) = {} THEN Pristine ELSE <<Guards(Of(f)), Declaration>>
    BY <1>1, <2>1, AllWritten
  <2>4. slips = {} => src'["entry"] = <<Definition(plan)>>
    <3> SUFFICES ASSUME slips = {} PROVE src'["entry"] = <<Definition(plan)>>
      OBVIOUS
    <3>1. src["entry"] = Pristine
      BY <1>1, <2>1 DEF EntryInv, Writing
    <3> QED
      BY <1>1, <2>1, <3>1, AppendOne DEF Pristine
  <2>5. Definition(json.set)' = Definition(plan)
    BY <2>1, <2>2 DEF Definition
  <2> QED
    BY <2>1, <2>2, <2>3, <2>4, <2>5 DEF RemoveExact, Of
<1>3. CASE Build
  <2>1. UNCHANGED <<src, json, job, slips>>
    BY <1>3 DEF Build, disk
  <2> QED
    BY <1>1, <2>1 DEF RemoveExact, Definition
<1>4. CASE ~(InjectEntryFile \/ Build)
  <2>1. (job' = job /\ pc # "idle") \/ job' \in {"inject", "remove", "failed", "killed", "none"}
    BY <1>4 DEF Next, StartInject, AskBackup, CopyEntry, StartRemove, MoveEntry, RestoreEntry,
       ReadJson, TruncateJson, DumpJson, Fail, Kill, End, DropBackup, CopyBackup, DropSource,
       RestoreSource, Rewrite, Declare, Recover
  <2> QED
    BY <1>1, <2>1 DEF JobInv
<1> QED
  BY <1>2, <1>3, <1>4

(* The room for the flags. *)
LEMMA RoomStep ==
  ASSUME FullInv, Next, ~StartOver
  PROVE  RoomInv'
<1> SUFFICES ASSUME slips' = {} PROVE RoomInv'
  BY DEF RoomInv
<1>1. /\ slips = {} /\ TreeSafe /\ RoomInv /\ EntryInv /\ TypeOK
      /\ src \in [Nodes -> Contents] /\ "entry" \in Nodes /\ Files \subseteq Nodes
      /\ "entry" \notin Files
  BY SlipsGrow, TypeOfConstants DEF TreeSafe, FullInv, TypeInv, Nodes
<1>2. CASE src' = src
  BY <1>1, <1>2 DEF RoomInv, Covered, Parts
<1>3. CASE \/ MoveEntry \/ RestoreEntry
           \/ \E f \in Nodes : DropSource(f) \/ RestoreSource(f)
  <2>1. PICK f \in Nodes, c \in {Missing, Pristine} : src' = [src EXCEPT ![f] = c]
    <3>1. pc \in Restoring
      BY <1>3 DEF MoveEntry, RestoreEntry, DropSource, RestoreSource, Restoring
    <3>2. entryBak = Pristine /\ \A f \in Nodes : backup[f] \in {Missing, Pristine}
      BY <1>1, <3>1 DEF EntryInv, FullInv, TreeInv
    <3> QED
      BY <1>1, <1>3, <3>2 DEF MoveEntry, RestoreEntry, DropSource, RestoreSource
  <2>2. CASE src'["entry"] \in {Missing, Pristine}
    BY <2>2 DEF RoomInv
  <2>3. CASE src'["entry"] \notin {Missing, Pristine}
    <3>1. src'["entry"] = src["entry"]
      BY <1>1, <2>1, <2>3
    <3>2. PICK D \in SUBSET Indices : src["entry"] = Defined(D) /\ Covered(D)
      BY <1>1, <2>3, <3>1 DEF RoomInv
    <3>3. ASSUME NEW g \in Files, NEW p \in Parts(g)'
          PROVE  p.set \subseteq D
      <4>1. src'[g] = src[g] \/ src'[g] \in {Missing, Pristine}
        BY <1>1, <2>1
      <4>2. CASE src'[g] = src[g]
        BY <3>2, <3>3, <4>2 DEF Covered, Parts
      <4>3. CASE src'[g] = Missing
        BY <3>3, <4>3 DEF Parts, Missing
      <4>4. CASE src'[g] = Pristine
        BY <3>3, <4>4 DEF Parts, Pristine
      <4> QED
        BY <4>1, <4>2, <4>3, <4>4
    <3> QED
      BY <3>1, <3>2, <3>3 DEF RoomInv, Covered
  <2> QED
    BY <2>2, <2>3
<1>4. CASE \E f \in Nodes : Rewrite(f) \/ Declare(f)
  <2>1. PICK f \in Nodes : Rewrite(f) \/ Declare(f)
    BY <1>4
  <2>2. pc \in Writing /\ f \in Files /\ \A g \in Nodes : g # f => src'[g] = src[g]
    BY <1>1, <2>1 DEF Rewrite, Declare, Writing, TypeOK
  <2>3. src'["entry"] = Pristine
    BY <1>1, <2>2 DEF EntryInv
  <2> QED
    BY <2>3 DEF RoomInv
<1>5. CASE InjectEntryFile
  <2> DEFINE D == Definition(plan).set
  <2>1. /\ pc = "entry" /\ src' = [src EXCEPT !["entry"] = Append(@, Definition(plan))]
    BY <1>5 DEF InjectEntryFile
  <2>2. src["entry"] = Pristine /\ job \in {"inject", "remove"}
    BY <1>1, <2>1 DEF EntryInv, Writing, FullInv, JobInv
  <2>3. src'["entry"] = Defined(D) /\ \A f \in Files : src'[f] = src[f]
    BY <1>1, <2>1, <2>2, ContentFacts
  <2>4. plan \subseteq D /\ D \in SUBSET Indices
    BY <1>1, TypeOfConstants DEF TypeOK, Definition
  <2> HIDE DEF D
  <2>5. ASSUME NEW f \in Files, NEW p \in Parts(f)
        PROVE  p.set \subseteq D
    <3>1. CASE job = "inject"
      <4>1. D = Indices
        BY <2>1, <2>4, <3>1 DEF FullInv, PlanInv, Writing
      <4> QED
        BY <1>1, <2>5, <4>1, PartsWithin
    <3>2. CASE job = "remove"
      <4>1. src[f] \in {Pristine, <<Guards(Of(f)), Declaration>>}
        BY <1>1, <2>1, <3>2, AllWritten
      <4>2. \A i \in DOMAIN src[f] : src[f][i].set \subseteq Of(f)
        BY <4>1, WrittenParts
      <4>3. Of(f) \subseteq plan
        BY DEF Of
      <4> QED
        BY <2>4, <2>5, <4>2, <4>3 DEF Parts
    <3> QED
      BY <2>2, <3>1, <3>2
  <2>6. ASSUME NEW f \in Files
        PROVE  Parts(f)' = Parts(f)
    BY <2>3 DEF Parts
  <2> QED
    BY <2>3, <2>4, <2>5, <2>6 DEF RoomInv, Covered
<1>6. CASE Recover
  <2>1. src'["entry"] = entryBak
    BY <1>1, <1>6 DEF Recover
  <2> QED
    BY <1>1, <2>1 DEF EntryInv, RoomInv
<1> QED
  BY <1>2, <1>3, <1>4, <1>5, <1>6
  DEF Next, StartInject, AskBackup, CopyEntry, StartRemove, ReadJson, TruncateJson, DumpJson, Fail,
      Kill, DropBackup, CopyBackup, Build, disk

(* The invariant is inductive. *)
LEMMA NextFull == FullInv /\ [Next]_vars => FullInv'
<1> SUFFICES ASSUME FullInv, [Next]_vars PROVE FullInv'
  OBVIOUS
<1>1. CASE Next /\ ~StartOver
  BY <1>1, TypeStep, JobStep, PlanStep, TreeStep, EntryStep, ProgramStep, RoomStep, ExactStep
  DEF FullInv
<1>2. CASE StartOver
  <2>1. /\ pc' = "idle" /\ src' = [f \in Nodes |-> Pristine] /\ job' = "none"
        /\ backup' = [f \in Nodes |-> Missing] /\ entryBak' = Missing
        /\ json' = [state |-> "none", set |-> {}]
    BY <1>2 DEF StartOver
  <2>2. TypeInv'
    BY <1>2, TypeStep DEF Next
  <2>3. TreePristine' /\ SrcPristine' /\ src'["entry"] = Pristine
    BY <2>1 DEF TreePristine, SrcPristine, TreeNodes, Nodes
  <2>4. Pcs' /\ JobInv' /\ PlanInv' /\ RemoveExact'
    BY <2>1 DEF Pcs, JobInv, PlanInv, RemoveExact, Early, Restoring, Planning, Writing
  <2>5. TreeInv' /\ EntryInv' /\ ProgramInv' /\ RoomInv'
    BY <2>1, <2>3
    DEF TreeInv, EntryInv, ProgramInv, RoomInv, Early, Restoring, Planning, Writing, Nodes
  <2> QED
    BY <2>2, <2>4, <2>5 DEF FullInv
<1>3. CASE UNCHANGED vars
  <2>1. UNCHANGED <<inside, src, backup, entryBak, json, exe, job, pc, rm, plan, todo, removed,
                    slips>>
    BY <1>3 DEF vars, disk
  <2>2. TypeInv'
    BY <2>1 DEF FullInv, TypeInv, TypeOK
  <2>5. Pcs' /\ JobInv' /\ PlanInv'
    BY <2>1 DEF FullInv, Pcs, JobInv, PlanInv, Planned
  <2>6. RemoveExact'
    BY <2>1 DEF FullInv, RemoveExact, TreeSafe, Definition
  <2>3. TreeInv' /\ EntryInv' /\ RoomInv'
    BY <2>1 DEF FullInv, TreeInv, EntryInv, RoomInv, TreeSafe, TreePristine, TreeBacked, Backed,
                SrcPristine, TreeNodes, Nodes, Covered, Parts
  <2>4. ProgramInv'
    BY <2>1 DEF FullInv, ProgramInv, TreeSafe, Stage, Planned, Of
  <2> QED
    BY <2>2, <2>3, <2>4, <2>5, <2>6 DEF FullInv
<1> QED
  BY <1>1, <1>2, <1>3

(* The invariant holds in every reachable state. *)
LEMMA FullHolds == Spec => []FullInv
BY InitFull, NextFull, PTL DEF Spec

(* Every state has its type. *)
THEOREM TypeCorrect == Spec => []TypeOK
<1>1. FullInv => TypeOK
  BY DEF FullInv, TypeInv
<1> QED
  BY <1>1, FullHolds, PTL

(***************************************************************************)
(* On whatever program -i is started and wherever a job is killed: the     *)
(* source tree as it was distributed is in place or in its backup, unless  *)
(* the operator had the backup overwritten with an injected tree or relied *)
(* on half a backup; and so is the whole program, unless -i was started    *)
(* with the entry file injected.                                           *)
(***************************************************************************)
THEOREM SurvivesKills == Spec => []PristineSurvives
<1>1. FullInv => PristineSurvives
  <2> SUFFICES ASSUME FullInv PROVE PristineSurvives
    OBVIOUS
  <2>1. TreeSafe => TreePristine \/ TreeBacked
    BY DEF FullInv, TreeInv, Pcs, Early
  <2>2. slips = {} => SrcPristine \/ Backed
    <3>1. slips = {} => TreeSafe
      BY DEF TreeSafe
    <3> QED
      BY <3>1 DEF FullInv, TreeInv, EntryInv, Pcs, Backed
  <2> QED
    BY <2>1, <2>2 DEF PristineSurvives, SrcPristine, Backed, TreeBacked
<1> QED
  BY <1>1, FullHolds, PTL

(* When -r has ended, the program has the injections of inject.json and no   *)
(* other, whatever was killed before and however often -i was repeated on an *)
(* injected tree, while the copy of the tree is sound.                       *)
THEOREM RemovesExactly == Spec => []RemoveExact
<1>1. FullInv => RemoveExact
  BY DEF FullInv
<1> QED
  BY <1>1, FullHolds, PTL

(* What -r has once removed does not come back with a later -r, while the    *)
(* copy of the tree is sound.                                                *)
THEOREM StaysOut == Spec => []RemovedStayOut
<1>1. FullInv => RemovedStayOut
  <2> SUFFICES ASSUME FullInv, job = "remove done", TreeSafe PROVE Injected \cap removed = {}
    BY DEF RemovedStayOut
  <2>1. /\ json.state = "full" /\ json.set \cap removed = {}
        /\ \A f \in Files :
             LET S == {k \in json.set : FileOf[k] = f}
             IN src[f] = IF S = {} THEN Pristine ELSE <<Guards(S), Declaration>>
    BY DEF FullInv, RemoveExact, PlanInv
  <2>2. \A f \in Files : \E S \in SUBSET json.set :
          src[f] \in {Pristine, <<Guards(S), Declaration>>}
    BY <2>1
  <2>3. Injected \subseteq json.set
    BY <2>2, InjectedIn
  <2> QED
    BY <2>1, <2>3
<1> QED
  BY <1>1, FullHolds, PTL

(* The flags defined in the entry file suffice for every guard, in every     *)
(* program that compiles, also one on which -i was repeated after a kill.    *)
THEOREM FlagsSuffice == Spec => []FlagsCoverGuards
<1>1. FullInv => FlagsCoverGuards
  <2> SUFFICES ASSUME FullInv, Compiles, slips = {} PROVE Injected \subseteq Room
    BY DEF FlagsCoverGuards
  <2>1. CASE src["entry"] \in {Missing, Pristine}
    <3>1. src["entry"] # Missing
      BY DEF Compiles, Nodes
    <3>2. Injected = {}
      BY <2>1, <3>1 DEF Compiles
    <3> QED
      BY <3>2
  <2>2. ASSUME NEW D \in SUBSET Indices, src["entry"] = Defined(D), Covered(D)
        PROVE  Injected \subseteq Room
    <3>1. Injected \subseteq D
      BY <2>2, InjectedWithin
    <3>2. [kind |-> "definition", set |-> D] \in Parts("entry")
      BY <2>2 DEF Parts, Defined
    <3>3. D \subseteq Room
      BY <3>2 DEF Room
    <3> QED
      BY <3>1, <3>3
  <2> QED
    BY <2>1, <2>2 DEF FullInv, RoomInv
<1> QED
  BY <1>1, FullHolds, PTL
=============================================================================
