-------------------------------- MODULE Mesh --------------------------------
(***************************************************************************)
(* The read-only mesh that readers produce and numerical methods consume   *)
(* (src/Mesh/MeshView.cc).  A mesh is a record of sequences; the index of  *)
(* an element counts from one here and from zero in the code, so the cell  *)
(* with id i is found at position i + 1.                                   *)
(***************************************************************************)
EXTENDS Loops, SequencesExt

\* IsValid of CellIndex, FaceIndex and NodeIndex.
IsValidIndex(i) == i >= 0

\* Real cells are looked up by position: MeshView::Cell never compares ids.
InRange(m, id) == IsValidIndex(id) /\ id < Len(m.cells)
CellAt(m, id)  == m.cells[id + 1]

\* The two branches of MeshView::CellNeighbours, for one face.
OwnedBy(face, id)  == face.owner = id /\ IsValidIndex(face.neighbour)
Touching(face, id) == ~OwnedBy(face, id) /\ face.neighbour = id /\ IsValidIndex(face.owner)

\* What the loop of CellNeighbours finds, from the position of a face to the id of
\* the cell behind it.  Mutant: only the faces that the cell owns are visited.
OwnedNeighbours(m, id) ==
  [i \in {i \in DOMAIN m.faces : OwnedBy(m.faces[i], id)} |-> m.faces[i].neighbour]
NeighbourAcross(m, id) ==
  [i \in {i \in DOMAIN m.faces : OwnedBy(m.faces[i], id) \/ Touching(m.faces[i], id)} |->
     IF OwnedBy(m.faces[i], id) THEN m.faces[i].neighbour ELSE m.faces[i].owner]

\* The vector it returns: the same ids in the order of the faces.
CellNeighbours(m, id) ==
  LET across == NeighbourAcross(m, id)
      shared == Collected(DOMAIN across, Len(m.faces))
  IN  [k \in DOMAIN shared |-> across[shared[k]]]

IsBoundaryFace(face) == ~IsValidIndex(face.neighbour)

\* MeshView::IsValid.  Mutant: areas and lengths are not looked at.
IsValidTopology(m) ==
  /\ m.dimension = 2
  /\ \A i \in DOMAIN m.cells : IsValidIndex(m.cells[i].id)
  /\ \A i \in DOMAIN m.faces : IsValidIndex(m.faces[i].id) /\ IsValidIndex(m.faces[i].owner)
IsValidMesh(m) ==
  /\ m.dimension = 2
  /\ \A i \in DOMAIN m.cells : IsValidIndex(m.cells[i].id) /\ m.cells[i].area > 0
  /\ \A i \in DOMAIN m.faces :
       /\ IsValidIndex(m.faces[i].id) /\ IsValidIndex(m.faces[i].owner)
       /\ m.faces[i].length > 0
=============================================================================
