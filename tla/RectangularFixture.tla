------------------------- MODULE RectangularFixture -------------------------
(***************************************************************************)
(* The rectangular mesh that the fifth example makes for itself            *)
(* (MakeRectangularFixtureMesh in examples/Ex05_RectangularDomainGradient).*)
(* dx and dy are half a cell, so that centres are whole numbers.           *)
(***************************************************************************)
EXTENDS Integers, Sequences, SequencesExt

\* Mutant: cells are numbered by columns, which only a square forgives.
CellIdByColumn(i, j, nx) == i * nx + j
CellId(i, j, nx)         == j * nx + i

Outside == -1

\* Across x: the face left of cell (i, j), or at i = nx the right boundary.
UprightFace(i, j, nx, dx, dy) ==
  [id        |-> j * (nx + 1) + i,
   owner     |-> CellId(IF i = 0 THEN 0 ELSE i - 1, j, nx),
   neighbour |-> IF i \in {0, nx} THEN Outside ELSE CellId(i, j, nx),
   x |-> 2 * i * dx, y |-> (2 * j + 1) * dy,
   nx |-> IF i = 0 THEN -1 ELSE 1, ny |-> 0, length |-> 2 * dy,
   patch_id |-> CASE i = 0 -> 0 [] i = nx -> 1 [] OTHER -> -1]

\* Across y: the face below cell (i, j), or at j = ny the top boundary.  These are
\* numbered after the others.
LevelFace(i, j, nx, ny, dx, dy) ==
  [id        |-> (nx + 1) * ny + j * nx + i,
   owner     |-> CellId(i, IF j = 0 THEN 0 ELSE j - 1, nx),
   neighbour |-> IF j \in {0, ny} THEN Outside ELSE CellId(i, j, nx),
   x |-> (2 * i + 1) * dx, y |-> 2 * j * dy,
   nx |-> 0, ny |-> IF j = 0 THEN -1 ELSE 1, length |-> 2 * dx,
   patch_id |-> CASE j = 0 -> 2 [] j = ny -> 3 [] OTHER -> -1]

\* for j < rows, for i < columns: element(i, j).
ByRows(columns, rows, element(_, _)) ==
  FlattenSeq([j \in 1..rows |-> [i \in 1..columns |-> element(i - 1, j - 1)]])

Wall(id, name) == [id |-> id, name |-> name, type |-> "wall"]

MakeRectangularFixtureMesh(nx, ny, dx, dy) ==
  [dimension |-> 2,
   nodes |-> ByRows(nx + 1, ny + 1, LAMBDA i, j :
               [id |-> j * (nx + 1) + i, x |-> 2 * i * dx, y |-> 2 * j * dy]),
   cells |-> ByRows(nx, ny, LAMBDA i, j :
               [id |-> CellId(i, j, nx), area |-> 4 * dx * dy,
                x |-> (2 * i + 1) * dx, y |-> (2 * j + 1) * dy]),
   faces |-> ByRows(nx + 1, ny, LAMBDA i, j : UprightFace(i, j, nx, dx, dy))
             \o ByRows(nx, ny + 1, LAMBDA i, j : LevelFace(i, j, nx, ny, dx, dy)),
   patches |-> <<Wall(0, "left"), Wall(1, "right"), Wall(2, "bottom"), Wall(3, "top")>>]
=============================================================================
