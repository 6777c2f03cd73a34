--------------------------- MODULE MCCellGradient ---------------------------
(***************************************************************************)
(* Rectangular meshes, as the fifth example makes them, and distortions of *)
(* them.  Squared distances between centres are powers of two up to 16, so *)
(* inverse squares are whole numbers of 1/64 in two units of length.       *)
(***************************************************************************)
EXTENDS CellGradient, RectangularFixture

Square == MakeRectangularFixtureMesh(2, 2, 1, 1)
Line   == MakeRectangularFixtureMesh(3, 1, 1, 1)            \* neighbours on one line
Block  == MakeRectangularFixtureMesh(3, 3, 1, 1)            \* one cell inside
Skewed == [Square EXCEPT !.cells[4].x = 5]
Doubled    == [Square EXCEPT !.faces = @ \o SubSeq(@, 2, 2)]   \* a face given twice
Coincident == [Square EXCEPT !.cells[2].x = 1]
Flat       == [Square EXCEPT !.cells[1].area = 0]           \* made by the host itself
\* What ReadBootstrapMesh accepts: ids that are no positions, owners no cell has.
Permuted   == [Square EXCEPT !.cells[2].id = 2, !.cells[3].id = 1]
Orphaned   == [Square EXCEPT !.faces[2].owner = 7]

SoundMeshes     == {Square, Line, Block, Skewed, Doubled, Coincident, Flat, Orphaned}
BootstrapMeshes == {Square, Permuted}

WholeWeight     == 64
HostPolicy(d)   == IF d = 4 THEN -1 ELSE 3
AllWeightings   == {"uniform", "inverse_distance", "inverse_distance_squared", "host"}
OneWeighting    == {"inverse_distance_squared"}
SomeTolerances  == {0, 16384}   \* 16384 refuses some cells under every policy but one
NoTolerance     == {0}

OnCells(values) == [location |-> "cell", values |-> values]
Fields(m) ==
  {OnCells(LinearValues(m, s[1], s[2], 5)) : s \in {<<0, 0>>, <<2, -3>>, <<1, 0>>, <<0, 1>>}}
  \cup {OnCells([i \in DOMAIN m.cells |-> IF i = 1 THEN 1 ELSE 0]),
        [location |-> "face", values |-> LinearValues(m, 0, 0, 5)]}

\* The theorems about these meshes are not empty.
ASSUME ConditionsHold == InversesAreWhole /\ (Meshes = SoundMeshes => NumberedCells)
=============================================================================
