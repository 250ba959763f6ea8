--------------------------- MODULE MCSeedRemoval ----------------------------
(* An instance of SeedRemoval for TLC: two seeds and three injections. *)
EXTENDS SeedRemoval, TLC

CONSTANTS s1, s2

(* The programs of which every guard tells. *)
Telling[U \in SUBSET Index] ==
  {Ends(TRUE), Ends(FALSE)} \cup
  UNION {{Guard(i, on, off) : on, off \in Telling[U \ {i}]} : i \in U}

(* Up to renaming of the injections: injection 1 decides first, and if it    *)
(* matters any further with 1 on, injection 2 decides next.  Or some guards  *)
(* are silent, and 1 matters no further when it is off.                      *)
Three ==
  {Guard(1, on, off) :
     on \in {Ends(TRUE), Ends(FALSE)} \cup {Guard(2, on2, off2) : on2, off2 \in Telling[{3}]},
     off \in Telling[{2, 3}]}
ThreeSilent ==
  {Guard(1, on, off) : on \in Trees[{2, 3}], off \in {Ends(TRUE), Ends(FALSE)}}
Two == {Guard(1, on, off) : on, off \in Telling[{2}]}

TwoSilent == Trees[{1, 2}]
OneSilent == Trees[{1}]

AllPrograms == UNION {Three, ThreeSilent, Two, TwoSilent}
MCPrograms == AllPrograms

(* Three injections on the first seed, and a second seed that tells nothing; *)
(* two telling injections on both seeds; or two injections on the first and  *)
(* one of them on the second, silent ones among them.                        *)
MCInit ==
  /\ \/ \E run \in Three : prog = s1 :> run @@ s2 :> Ends(FALSE)
     \/ \E run \in ThreeSilent : prog = s1 :> run @@ s2 :> Ends(FALSE)
     \/ prog \in [Seeds -> Two]
     \/ \E run \in TwoSilent, other \in OneSilent : prog = s1 :> run @@ s2 :> other
  /\ Init

MCSpec == MCInit /\ [][Next]_vars /\ WF_vars(Next)
=============================================================================
