---------------------------- MODULE MCSinkReport ----------------------------
(* Instances of SinkReport for TLC: every body of two statements, and a few  *)
(* of three.                                                                *)
EXTENDS SinkReport, TaintPrograms

Copy(to, x) == [op |-> "copy", to |-> to, x |-> x]
Cast(to, x) == [op |-> "cast", to |-> to, x |-> x]
Get(to, x)  == [op |-> "getf", to |-> to, x |-> x]
Put(x, from) == [op |-> "putf", to |-> from, x |-> x]
CallTo(to, x) == [op |-> "call", to |-> to, x |-> x]
Use(op, x)  == [op |-> op, to |-> x, x |-> x]
Lib(arg, x) == [op |-> "lib", to |-> arg, x |-> x]

MCStatements ==
  {Cast("q", "p"), Copy("g", "p"), Get("q", "p"), Put("p", "q"), CallTo("q", "p"),
   CallTo("p", "q"), Use("write", "p"), Use("read", "q"), Lib("p", "q"), Use("read", "g")}
MCBodies == {<<a, b>> : a \in MCStatements, b \in MCStatements}
MCLongBodies ==
  {<<a, CallTo("q", "p"), b>> : a \in {Use("write", "p"), Lib("p", "q")}, b \in {Use("read", "q"), Put("p", "q")}} \cup
  {<<CallTo("p", "g"), CallTo("q", "q"), Use("read", "q")>>}
MCTracers == {{Plain("p")}, {Plain("a"), OfField("q")}, {Plain("g")}}
MCOnce ==
  {Program(body, Use("read", "a"), tracers, FALSE) : body \in MCBodies, tracers \in MCTracers}
MCReadingGlobal ==
  {Program(body, Copy("a", "g"), tracers, FALSE) :
     body \in MCBodies, tracers \in MCTracers \ {{Plain("p")}}}
MCLooping ==
  {Program(body, Use("read", "a"), tracers, TRUE) :
     body \in {b \in MCBodies : CallTo("p", "q") \notin ToSet(b)}, tracers \in MCTracers}
MCLonger ==
  {Program(body, Use("read", "a"), tracers, FALSE) : body \in MCLongBodies, tracers \in MCTracers}
MCPrograms == MCOnce \cup MCReadingGlobal \cup MCLooping \cup MCLonger

MCGlobalPrograms ==
  {Program(<<a, CallTo("q", "p")>>, Use("read", "g"), {Plain("g")}, FALSE) : a \in MCStatements}

(* The rounds until nothing new follows.                                     *)
RECURSIVE RoundsAfter(_, _)
RoundsAfter(p, S) == IF Closed(p, S) THEN <<S>> ELSE <<S>> \o RoundsAfter(p, Follows(p, S))
MCRounds == [p \in {x \in MCPrograms \cup MCGlobalPrograms : NoFields(x)} |-> RoundsAfter(p, {})]
=============================================================================
