----------------------------- MODULE MCToolchain -----------------------------
(* Checks Toolchain with three candidates in two files.                      *)
EXTENDS Toolchain

TwoFiles == {"a.c", "b.c"}
ThreeIndices == {1, 3, 4}
TwoHosts == [k \in ThreeIndices |-> IF k = 3 THEN "b.c" ELSE "a.c"]

(* Once the copy of the tree is spoilt no property says anything until the   *)
(* operator starts over, so the runs end there.                              *)
SoundCopy == TreeSafe
=============================================================================
