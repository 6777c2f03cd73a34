----------------------------- MODULE MCFieldSet -----------------------------
(***************************************************************************)
(* Two sets, two names and three nodes: one set can hold both names while  *)
(* the other is copied or moved over it.                                   *)
(***************************************************************************)
EXTENDS FieldSet, TLC

TwoNames     == {"", "eta", "depth"}
Spellings    == [l \in {"cell", "Cell", "face"} |-> IF l = "face" THEN "face" ELSE "cell"]
OneMesh      == {[cell |-> 1, face |-> 2]}
AlikeSets    == Permutations(Sets)
ThreeNodes   == 1..3
OwnFields    == {[name |-> "eta", spelling |-> "Cell", size |-> 2],
                 [name |-> "eta", spelling |-> "", size |-> 2]}
=============================================================================
