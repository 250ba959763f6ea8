------------------------------ MODULE TracedRun ------------------------------
(***************************************************************************)
(* What the analysis is for: after it has run, the program that it has     *)
(* analysed is executed, one instruction at a time and with every branch   *)
(* taken or not, and for each value it is kept which traced variables the  *)
(* value has been copied from.  What goes through a field, or through the  *)
(* global variable while f runs, is not followed.                          *)
(***************************************************************************)
EXTENDS TaintFlow

VARIABLES
  at,      \* the instruction to execute next
  caller,  \* the call in main that f was entered by
  holds    \* <<value, tracer>>: the value, or what a variable has, is a copy

run == <<at, caller, holds>>

RunInit ==
  /\ Init
  /\ at = N("main", 1)
  /\ caller = Zero
  /\ holds = {<<V("g"), t>> : t \in {u \in prog.tracers : u = Plain("g")}}

(* What w holds is held by v; v holds nothing.                               *)
Into(v, w) == {<<v, h[2]>> : h \in {x \in holds : x[1] = w}}
Without(v) == {h \in holds : h[1] # v}

GlobalOfF(v) == at[1] = "f" /\ v = V("g")
InFrame(v) == v[1] \in LocalsOf["f"] \cup {"formal", "f"}
Go == at' \in Succ(at) /\ UNCHANGED caller

Declare(i) ==
  /\ i.op = "alloca"
  /\ holds' = Without(i.ptr) \cup {<<i.ptr, t>> : t \in {u \in prog.tracers : u = Plain(i.ptr[1])}}
  /\ Go

(* A variable keeps its own tracer.                                          *)
Assign(i) ==
  /\ i.op = "store"
  /\ holds' = IF i.ptr[1] \in Variables
              THEN {h \in holds : h[1] = i.ptr => h[2] = Plain(i.ptr[1])}
                     \cup (IF GlobalOfF(i.ptr) THEN {} ELSE Into(i.ptr, i.val))
              ELSE holds
  /\ Go

Load(i) ==
  /\ i.op = "load"
  /\ holds' = Without(at) \cup (IF i.ptr[1] \in Variables /\ ~GlobalOfF(i.ptr) THEN Into(at, i.ptr) ELSE {})
  /\ Go

Convert(i) == i.op = "cast" /\ holds' = Without(at) \cup Into(at, i.ptr) /\ Go
AddressOfField(i) == i.op = "gep" /\ holds' = Without(at) /\ Go
Pass(i) == i.op \in {"lib", "br"} /\ UNCHANGED holds /\ Go

Enter(i) ==
  /\ i.op = "call"
  /\ holds' = holds \cup Into(Formal, i.ptr)
  /\ caller' = at
  /\ at' = N("f", 1)

Return(i) ==
  /\ i.op = "ret" /\ at[1] = "f"
  /\ holds' = {h \in Without(caller) : ~InFrame(h[1])} \cup Into(caller, i.val)
  /\ at' \in Succ(caller)
  /\ caller' = Zero

Execute ==
  /\ written
  /\ LET i == Instr(at)
     IN \/ Declare(i) \/ Assign(i) \/ Load(i) \/ Convert(i) \/ AddressOfField(i) \/ Pass(i)
        \/ Enter(i) \/ Return(i)
  /\ UNCHANGED vars

RunNext == (Next /\ UNCHANGED run) \/ Execute

RunSpec == RunInit /\ [][RunNext]_<<vars, run>>
-----------------------------------------------------------------------------
(* The instruction at n uses the object that d points to, d being the value  *)
(* of a pointer variable or an argument of a library function.               *)
Dereferences(n, d) ==
  LET i == Instr(n)
  IN d = i.ptr /\ (i.op = "lib" \/ (i.op \in {"load", "store"} /\ IsA("load", d)))

(* A dereference of a pointer that has been copied from traced variables, on *)
(* the way through variables, casts, arguments and results, is reported for  *)
(* each of them, whatever else the program does and in whatever order the    *)
(* solver has taken the facts.                                               *)
DereferencesFound ==
  written => \A h \in holds : Dereferences(at, h[1]) => <<h[2], at>> \in report

(* What f reads from a traced global variable and dereferences is reported:  *)
(* a call is to "generate zerovalue and all global variables".               *)
GlobalDereferencesFound ==
  written /\ Plain("g") \in prog.tracers =>
    \A d \in {Instr(at).ptr} :
      at[1] = "f" /\ Dereferences(at, d) /\ IsA("load", d) /\ Instr(d).ptr = V("g") => <<Plain("g"), at>> \in report
=============================================================================
