---------------------------- MODULE MeshPackage ----------------------------
(***************************************************************************)
(* The contents of a mesh package, the MeshView that they become (64-bit   *)
(* ids are narrowed to IndexValue), and the rules by which it is accepted  *)
(* or rejected (ValidatePackageMesh in src/IO/VoronoiMeshPackageReader.cc).*)
(***************************************************************************)
EXTENDS Mesh

CONSTANT IndexLimit   \* 2^(w-1) for an IndexValue (PetscInt) of w bits

ASSUME WidthAssumption == IndexLimit \in Nat \ {0}

\* What a file whose datasets could be read and agree in size can hold.
NodeRecord == [id : Int, finite : BOOLEAN]
CellRecord == [id : Int, finite : BOOLEAN, area : Int]
FaceRecord == [id : Int, owner : Int, neighbour : Int, patch : Int,
               finite : BOOLEAN, length : Int, unit : BOOLEAN]

NoMesh == [schema |-> "none", producer |-> "none", dimension |-> 0,
           nodes |-> <<>>, cells |-> <<>>, faces |-> <<>>, patches |-> <<>>]

-----------------------------------------------------------------------------

\* ReadIndexDataset: {raw.begin(), raw.end()} converts int64 to IndexValue.
Narrow(v) == ((v + IndexLimit) % (2 * IndexLimit)) - IndexLimit

NarrowId(x)   == [x EXCEPT !.id = Narrow(@)]
NarrowFace(f) == [f EXCEPT !.id = Narrow(@), !.owner = Narrow(@), !.neighbour = Narrow(@)]

\* Attributes in misread came out as something else than the file holds.
MeshOf(p, misread) ==
  [schema    |-> IF "schema_version" \in misread THEN "other" ELSE p.schema,
   producer  |-> IF "producer" \in misread THEN "other" ELSE p.producer,
   dimension |-> p.dimension,
   nodes     |-> [i \in DOMAIN p.nodes |-> NarrowId(p.nodes[i])],
   cells     |-> [i \in DOMAIN p.cells |-> NarrowId(p.cells[i])],
   faces     |-> [i \in DOMAIN p.faces |-> NarrowFace(p.faces[i])],
   patches   |-> p.patches]

-----------------------------------------------------------------------------
(* ValidatePackageMesh *)

HeaderIsSupported(m) == m.schema = "supported" /\ m.producer = "VoronoiMeshMaker" /\ m.dimension = 2

NothingIsEmpty(m) == m.cells # <<>> /\ m.faces # <<>> /\ m.nodes # <<>>

CellsAreSound(m) ==
  \A i \in DOMAIN m.cells : m.cells[i].id = Narrow(i - 1) /\ m.cells[i].finite /\ m.cells[i].area > 0

NodesAreSound(m) ==
  \A i \in DOMAIN m.nodes : m.nodes[i].id = Narrow(i - 1) /\ m.nodes[i].finite

\* Mutants: owners are only checked for their sign; the id of a patch is taken for
\* its position.
OwnerIsSigned(m, f)   == f.owner >= 0
PatchAtPosition(m, f) == f.patch >= 0 /\ f.patch < Len(m.patches)

OwnerIsInRange(m, f) == f.owner >= 0 /\ f.owner < Narrow(Len(m.cells))
InteriorIsSound(m, f) == f.neighbour < Narrow(Len(m.cells)) /\ f.patch < 0
BoundaryIsSound(m, f) == f.patch >= 0 /\ \E k \in DOMAIN m.patches : m.patches[k] = f.patch

FaceIsSound(m, f) ==
  /\ f.id >= 0
  /\ OwnerIsInRange(m, f)
  /\ IF IsBoundaryFace(f) THEN BoundaryIsSound(m, f) ELSE InteriorIsSound(m, f)
  /\ f.finite /\ f.length > 0
  /\ f.unit

FacesAreSound(m) == \A i \in DOMAIN m.faces : FaceIsSound(m, m.faces[i])

ValidatePackageMesh(m) ==
  IF ~HeaderIsSupported(m) THEN "mesh.parse_error"
  ELSE IF /\ NothingIsEmpty(m) /\ CellsAreSound(m) /\ NodesAreSound(m)
          /\ FacesAreSound(m) /\ IsValidMesh(m)
       THEN "valid" ELSE "mesh.invalid_connectivity"

-----------------------------------------------------------------------------
(* The rules of docs/en-gb/file_formats/mesh_package.md, over the file's own ids *)

ContiguousIds(s)      == \A i \in DOMAIN s : s[i].id = i - 1
IsCellOf(p, id)       == id \in 0..(Len(p.cells) - 1)
OwnersInRange(p)      == \A i \in DOMAIN p.faces : IsCellOf(p, p.faces[i].owner)
NeighboursInRange(p)  ==
  \A i \in DOMAIN p.faces : p.faces[i].neighbour = -1 \/ IsCellOf(p, p.faces[i].neighbour)
PatchesExist(p) ==
  \A i \in DOMAIN p.faces :
    LET f == p.faces[i]
    IN  IF f.neighbour = -1 THEN f.patch >= 0 /\ \E k \in DOMAIN p.patches : p.patches[k] = f.patch
                            ELSE f.patch < 0

PositiveSizes(p) ==
  /\ \A i \in DOMAIN p.cells : p.cells[i].area > 0
  /\ \A i \in DOMAIN p.faces : p.faces[i].length > 0
UnitNormals(p) == \A i \in DOMAIN p.faces : p.faces[i].unit

FollowsTheRules(p) ==
  /\ HeaderIsSupported(p)
  /\ ContiguousIds(p.nodes) /\ ContiguousIds(p.cells)
  /\ OwnersInRange(p) /\ NeighboursInRange(p) /\ PatchesExist(p)
  /\ PositiveSizes(p) /\ UnitNormals(p)

(* What the reader asks for and the rules do not mention *)

FiniteCoordinates(p) ==
  /\ \A i \in DOMAIN p.nodes : p.nodes[i].finite
  /\ \A i \in DOMAIN p.cells : p.cells[i].finite
  /\ \A i \in DOMAIN p.faces : p.faces[i].finite
FaceIdsAreIds(p) == \A i \in DOMAIN p.faces : p.faces[i].id >= 0

\* The ids that are narrowed keep their values.
FitsIndexValue(p) ==
  /\ Len(p.cells) < IndexLimit /\ Len(p.nodes) <= IndexLimit
  /\ \A i \in DOMAIN p.faces : p.faces[i].id < IndexLimit

MeetsUnstatedConditions(p) ==
  NothingIsEmpty(p) /\ FiniteCoordinates(p) /\ FaceIdsAreIds(p) /\ FitsIndexValue(p)
=============================================================================
