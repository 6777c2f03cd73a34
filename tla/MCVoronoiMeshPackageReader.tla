--------------------- MODULE MCVoronoiMeshPackageReader ---------------------
(***************************************************************************)
(* The layout of a Voronoi mesh package, and contents around a valid one   *)
(* of two cells and two faces.  With three-bit ids, 8 is congruent to 0    *)
(* and 9 to 1, so a narrowed id can look right.                            *)
(***************************************************************************)
EXTENDS VoronoiMeshPackageReader

PackageAttributes ==
  <<"dimension", "schema_version", "producer", "coordinate_reference_system", "note">>

\* nodes (id, xy); cells (id, centre, area); faces (id, owner, neighbour, centre,
\* unit_normal, length, patch_id); boundary_patches (id, name, type).
PackageGroups ==
  <<<<"index", "numbers">>, <<"index", "numbers", "numbers">>,
    <<"index", "index", "index", "numbers", "numbers", "numbers", "numbers">>,
    <<"numbers", "string", "string">>>>

MCCell(i)    == [id |-> i, finite |-> TRUE, area |-> 1]
MCNode(i)    == [id |-> i, finite |-> TRUE]
MCFace(o, n, p) == [id |-> 0, owner |-> o, neighbour |-> n, patch |-> p,
                  finite |-> TRUE, length |-> 1, unit |-> TRUE]

Good == [schema |-> "supported", producer |-> "VoronoiMeshMaker", dimension |-> 2,
         nodes |-> <<MCNode(0)>>, cells |-> <<MCCell(0), MCCell(1)>>,
         faces |-> <<MCFace(0, 1, -1), MCFace(1, -1, 4)>>, patches |-> <<4>>]

\* Any connectivity of two faces, over ids in range, out of range and congruent.
Connections(owners, neighbours, patches) ==
  {MCFace(o, n, p) : o \in owners, n \in neighbours, p \in patches}
Connected ==
  {[Good EXCEPT !.faces = <<f, g>>] :
     f \in Connections({-1, 0, 1, 2, 8}, {-3, -1, 0, 1, 2, 9}, {-1, 3, 4}),
     g \in Connections({-1, 0, 1}, {-1, 0, 1, 9}, {-1, 4})}

\* One defect in the header, the ids or the geometry.
Defective ==
  {[Good EXCEPT !.schema = "other"], [Good EXCEPT !.producer = "other"], [Good EXCEPT !.dimension = 3],
   [Good EXCEPT !.cells = <<>>], [Good EXCEPT !.faces = <<>>], [Good EXCEPT !.nodes = <<>>],
   [Good EXCEPT !.nodes[1].id = 1], [Good EXCEPT !.nodes[1].finite = FALSE],
   [Good EXCEPT !.cells[2].finite = FALSE], [Good EXCEPT !.cells[2].area = 0],
   [Good EXCEPT !.faces[1].id = -1], [Good EXCEPT !.faces[1].finite = FALSE],
   [Good EXCEPT !.faces[2].length = 0], [Good EXCEPT !.faces[2].unit = FALSE]}
  \cup {[Good EXCEPT !.cells = <<MCCell(i), MCCell(j)>>] : i, j \in {-1, 0, 1, 2, 8, 9}}

AllPackages == Connected \cup Defective \cup {Good}
=============================================================================
