-------------------------- MODULE MCBootstrapReader --------------------------
(***************************************************************************)
(* The examples on texts of up to three sections out of eleven, and on     *)
(* whole texts cut off, with another token in the place of one, or with    *)
(* one left out; and the fifth example on grids of up to three by three.   *)
(***************************************************************************)
EXTENDS Examples

MCNode    == [id |-> 0, x |-> 3, y |-> 4]
MCCell(i) == [id |-> i, x |-> 3, y |-> 4, area |-> 2]
MCFace(o) == [id |-> 0, owner |-> o, neighbour |-> -1, x |-> 3, y |-> 4,
              nx |-> 1, ny |-> 0, length |-> 2, patch_id |-> 5]
MCPatch   == [id |-> 5, name |-> "south", type |-> "wall"]

Listed(s, elements) == [section |-> s, elements |-> elements]
Nodes   == Listed("NODES", <<MCNode>>)
Cells   == Listed("CELLS", <<MCCell(0), MCCell(1)>>)
Swapped == Listed("CELLS", <<MCCell(1), MCCell(0)>>)
Faces   == Listed("FACES", <<MCFace(0)>>)
Patches == Listed("PATCHES", <<MCPatch>>)
Dim(n)  == [section |-> "DIM", value |-> n]
Other(w) == [section |-> w]

MCWords ==
  {"MNGMESH1", "DIM", "NODES", "CELLS", "FACES", "PATCHES", "END", "LAYERS", "south", "wall", "nan"}

SomeSections ==
  {Nodes, Cells, Swapped, Listed("CELLS", <<MCCell(7)>>), Listed("CELLS", <<>>),
   Faces, Listed("FACES", <<MCFace(7), MCFace(-1)>>), Patches, Dim(3), Other("END"), Other("LAYERS")}

\* The 2 x 2 grid as a text, also with its middle cells numbered the other way round.
Grid     == MakeRectangularFixtureMesh(2, 2, 1, 1)
Permuted == [Grid EXCEPT !.cells[2].id = 2, !.cells[3].id = 1]
GridPlan(m) == <<Listed("CELLS", m.cells), Listed("FACES", m.faces)>>

MCPlans == UNION {[1..n -> SomeSections] : n \in 0..3} \cup {GridPlan(Grid), GridPlan(Permuted)}

Complete == Tokens(<<Dim(2), Nodes, Cells, Faces, Patches, Other("END")>>)
Twice == Tokens(<<Cells, Nodes, Cells, Faces>>)
Cut(t, i)        == SubSeq(t, 1, i)
Misspelt(t, i, w) == [t EXCEPT ![i] = w]

\* Thirty is beyond each type but that of a count, where there is no memory for it;
\* -63 is, as a count, one.
OtherTokens == {Word("nan")} \cup {Number(n) : n \in {-1, 1, 30, 99, -63, -99}}
DamagedFrom(t) ==
  {Cut(t, i) : i \in 0..Len(t)}
  \cup {Misspelt(t, i, w) : i \in DOMAIN t, w \in OtherTokens}
  \cup {RemoveAt(t, i) : i \in DOMAIN t}
MCDamaged == DamagedFrom(Complete) \cup DamagedFrom(Twice) \cup DamagedFrom(Tokens(GridPlan(Grid)))

\* Squared distances in these meshes are 4, 8, 16 and 20.
WholeWeight == 80
NoPolicy(d) == 0

Case(nx, ny, d, linear, method, weighting) ==
  [complete |-> TRUE, type |-> "rectangle", location |-> "cell", nx |-> nx, ny |-> ny,
   dx |-> d[1], dy |-> d[2], linear |-> linear, method |-> method, weighting |-> weighting]
L(x, y, c) == [x |-> x, y |-> y, constant |-> c]
Delivered == Case(3, 2, <<1, 1>>, L(2, -3, 5), WLS, "inverse_distance_squared")
MCCases ==
  {Case(nx, ny, d, l, method, weighting) :
     nx \in {0, 1, 2, 3, 1000}, ny \in {0, 1, 2, 3, 1000}, d \in {<<1, 1>>, <<1, 2>>, <<0, 1>>, <<1, -1>>},
     l \in {L(2, -3, 5), L(0, 1, 0), L(0, 0, 5), L(NaN, 0, 0), L(NaN, 1, 0), L(1, 0, NaN)},
     method \in {WLS, GG, "unregistered"}, weighting \in WeightingNames}
  \cup {[Delivered EXCEPT !.complete = FALSE], [Delivered EXCEPT !.type = "disc"],
        [Delivered EXCEPT !.location = "face"], [Delivered EXCEPT !.location = ""],
        [Delivered EXCEPT !.weighting = "cubic"]}
=============================================================================
