---------------------------- MODULE CellGradient ----------------------------
(***************************************************************************)
(* A host that computes cell-centred gradients through                     *)
(* src/Numerics/Gradient/Gradient.cc.  It may keep a workspace and apply   *)
(* it after it has turned to another mesh.                                 *)
(***************************************************************************)
EXTENDS GradientStencils

CONSTANTS
  Meshes,      \* the meshes the host works with
  Weightings,  \* the names of its weighting policies
  Tolerances,  \* values of GradientOptions::singular_tolerance, in 1/Unit^2
  FieldsOn(_)  \* the cell fields the host has on a mesh

\* Lattice meshes.  The index types are signed, but no reader makes a cell whose id
\* is not valid.
LatticeCell == [id : Nat, area : Int, x : Int, y : Int]
LatticeFace == [id : Int, owner : Int, neighbour : Int, x : Int, y : Int,
                nx : Int, ny : Int, length : Int, patch_id : Int]
IsMesh(m) ==
  /\ {"cells", "faces"} \subseteq DOMAIN m
  /\ m.cells \in Seq(LatticeCell) /\ m.faces \in Seq(LatticeFace)

\* The squared distances between neighbours, which weights are taken of.
Distances(m) ==
  LET behind(i) == {id \in ToSet(CellNeighbours(m, m.cells[i].id)) : InRange(m, id)}
  IN  UNION {{DistanceSquared(Delta(m, m.cells[i], id)) : id \in behind(i)} : i \in DOMAIN m.cells}

\* Unit is so fine that an inverse is never rounded to zero.
ASSUME MeshesAssumption ==
  \A m \in Meshes :
    IsMesh(m) /\ \A d \in Distances(m) : HostWeight(d) \in Int /\ d <= Unit

VARIABLES
  mesh,        \* the mesh in use
  workspace,   \* the workspace the host keeps
  outcome      \* what the last call returned or raised

vars == <<mesh, workspace, outcome>>

Options == [method : {WLS, GG, "unregistered"}, weighting : Weightings, tolerance : Tolerances]

-----------------------------------------------------------------------------

Init ==
  /\ mesh \in Meshes
  /\ workspace = NoWorkspace
  /\ outcome = Raised(Succeeds)

Idle == outcome = Raised(Succeeds)

\* The host has used the result, or handled the error.
Return ==
  /\ ~Idle
  /\ outcome' = Raised(Succeeds)
  /\ UNCHANGED <<mesh, workspace>>

\* The host turns to another mesh and keeps its workspace.
UseMesh(m) ==
  /\ Idle
  /\ m # mesh
  /\ mesh' = m
  /\ UNCHANGED <<workspace, outcome>>

BuildCellGradientWorkspace(o) ==
  /\ Idle
  /\ outcome' = Raised(BuildError(mesh, o))
  /\ workspace' = IF BuildError(mesh, o) = Succeeds THEN Workspace(mesh, o) ELSE workspace
  /\ UNCHANGED mesh

ComputeWithWorkspace(field) ==
  /\ Idle
  /\ outcome' = Applied(workspace, field)
  /\ UNCHANGED <<mesh, workspace>>

\* The overload that builds a workspace for one use.
ComputeWithMesh(field, o) ==
  /\ Idle
  /\ outcome' = IF FieldError(field, Len(mesh.cells)) # Succeeds
                THEN Raised(FieldError(field, Len(mesh.cells)))
                ELSE IF BuildError(mesh, o) # Succeeds THEN Raised(BuildError(mesh, o))
                ELSE Applied(Workspace(mesh, o), field)
  /\ UNCHANGED <<mesh, workspace>>

Next ==
  \/ Return
  \/ \E m \in Meshes : UseMesh(m)
  \/ \E o \in Options : BuildCellGradientWorkspace(o)
  \/ \E field \in FieldsOn(mesh) :
       ComputeWithWorkspace(field) \/ \E o \in Options : ComputeWithMesh(field, o)

Spec == Init /\ [][Next]_vars

-----------------------------------------------------------------------------
(* What some properties rest on *)

\* Cells are numbered by position, which MeshView::Cell takes for granted and no
\* reader of bootstrap meshes looks at.
NumberedCells == \A m \in Meshes : \A i \in DOMAIN m.cells : m.cells[i].id = i - 1

\* Inverse squares are whole numbers of 1/Unit, in two units of length: what is
\* left out of the model, rounding, then plays no part in it.
InversesAreWhole == \A m \in Meshes : \A d \in Distances(m) : d > 0 => Unit % (4 * d) = 0

-----------------------------------------------------------------------------
(* Properties *)

Computed == outcome.gradients # NoGradients

\* The values of a x + b y + c at the cells of m, stored under their ids.
LinearValues(m, a, b, c) ==
  [i \in DOMAIN m.cells |->
     IF \E k \in DOMAIN m.cells : m.cells[k].id = i - 1
     THEN LET cell == m.cells[CHOOSE k \in DOMAIN m.cells : m.cells[k].id = i - 1]
          IN  a * cell.x + b * cell.y + c
     ELSE c]

Is(gradient, a, b) == gradient.x = a * gradient.over /\ gradient.y = b * gradient.over

\* docs/en-gb/theory/gradient_reconstruction.md: "linear fields must be exact on
\* suitable stencils".  Least squares returns (a, b) in every cell whenever it
\* returns at all, for any weights, any number of neighbours and repeated faces.
LinearIsExact ==
  Computed /\ outcome.workspace.method = WLS =>
    \A a, b \in -3..3 :
      outcome.field.values = LinearValues(outcome.workspace.mesh, a, b, 5)
        => \A i \in DOMAIN outcome.gradients : Is(outcome.gradients[i], a, b)

\* Cells are numbered by position, and faces name cells that exist.
IsNavigable(m) ==
  /\ \A i \in DOMAIN m.cells : m.cells[i].id = i - 1
  /\ \A i \in DOMAIN m.faces : /\ m.faces[i].owner < Len(m.cells)
                               /\ m.faces[i].neighbour < Len(m.cells)

\* "diagnostics must expose failed or ill-conditioned cells", and nothing else may
\* fail: whatever mesh the kept workspace was built for, a cell field of the right
\* size gives gradients exactly when Diagnostics counts no ill-conditioned stencil,
\* and no index leaves the field, unless the workspace's own mesh names cells that
\* it does not have.
DiagnosticsPredictFailure ==
  "workspace" \in DOMAIN outcome /\ FieldError(outcome.field, Len(outcome.workspace.stencils)) = Succeeds
    => LET ill == Diagnostics(outcome.workspace).ill_conditioned_count
       IN  /\ outcome.error = "numerics.singular_least_squares" => ill > 0
           /\ outcome.error = Succeeds => ill = 0
           /\ outcome.error = OutOfRange => ~IsNavigable(outcome.workspace.mesh)

HasPlane(m, i) ==
  LET ids == CellNeighbours(m, m.cells[i].id)
  IN  \E j, k \in DOMAIN ids :
        LET d == Delta(m, m.cells[i], ids[j])
            e == Delta(m, m.cells[i], ids[k])
        IN  d.x * e.y # d.y * e.x

BuiltIn == {"uniform", "inverse_distance", "inverse_distance_squared"}

\* With positive weights and no tolerance a least-squares stencil is refused
\* exactly where the neighbours lie on one line through the cell, so that no
\* gradient is determined; weights and mesh topology make no difference.
IllConditionedMeansCollinear ==
  workspace.method = WLS /\ workspace.options.tolerance = 0 /\ workspace.options.weighting \in BuiltIn
    => \A i \in DOMAIN workspace.stencils :
         workspace.stencils[i].well_conditioned <=> HasPlane(workspace.mesh, i)

\* The same mesh in other units of length.
Scaled(m, by) ==
  LET scaled(cell) == [cell EXCEPT !.x = by * @, !.y = by * @]
  IN  [m EXCEPT !.cells = [i \in DOMAIN m.cells |-> scaled(m.cells[i])]]

\* The tolerance is absolute, but under the default policy, inverse distance
\* squared, the determinant has no unit: which cells are refused, whatever the
\* tolerance, does not depend on the unit of length.
ConditioningIgnoresUnits ==
  workspace.method = WLS /\ workspace.options.weighting = "inverse_distance_squared"
    => LET other == Scaled(workspace.mesh, 2)
       IN  \A i \in DOMAIN workspace.stencils :
             workspace.stencils[i].well_conditioned
               = WLSStencil(other, other.cells[i], workspace.options).well_conditioned

\* What stencil s takes from the cell with an id, over all faces between the two.
Towards(s, id) ==
  LET c == s.coefficients
  IN  [x |-> SumOf([k \in DOMAIN c |-> IF c[k].neighbour = id THEN c[k].x ELSE 0]),
       y |-> SumOf([k \in DOMAIN c |-> IF c[k].neighbour = id THEN c[k].y ELSE 0])]

\* What Green-Gauss lets out of one cell through a face it lets into the other:
\* area times coefficient is antisymmetric between any two cells.
GreenGaussIsConservative ==
  workspace.method = GG =>
    \A i, j \in DOMAIN workspace.stencils :
      LET s == workspace.stencils[i]
          r == workspace.stencils[j]
      IN  s.cell # r.cell /\ s.well_conditioned /\ r.well_conditioned =>
            /\ Towards(s, r.cell).x = -Towards(r, s.cell).x
            /\ Towards(s, r.cell).y = -Towards(r, s.cell).y

\* A square whose four sides it shares with equal squares.
IsInnerSquare(m, i) ==
  LET cell     == m.cells[i]
      touching == {f \in DOMAIN m.faces : cell.id \in {m.faces[f].owner, m.faces[f].neighbour}}
      Faces(f, x, y) == /\ IsShared(m.faces[f], cell)
                        /\ OutwardNormalLengthForCell(m.faces[f], cell) = [x |-> x, y |-> y]
                        /\ Delta(m, cell, OtherSide(m.faces[f], cell)) = [x |-> x, y |-> y]
  IN  \E east, west, north, south \in touching :
        LET side == m.faces[east].length
        IN  /\ touching = {east, west, north, south} /\ cell.area = side * side
            /\ Faces(east, side, 0)  /\ Faces(west, -side, 0)
            /\ Faces(north, 0, side) /\ Faces(south, 0, -side)

\* On square cells away from the boundary Green-Gauss is exact on linear fields.
GreenGaussExactInside ==
  Computed /\ outcome.workspace.method = GG =>
    \A a, b \in -3..3 :
      outcome.field.values = LinearValues(outcome.workspace.mesh, a, b, 5) =>
        \A i \in DOMAIN outcome.gradients :
          IsInnerSquare(outcome.workspace.mesh, i) => Is(outcome.gradients[i], a, b)
=============================================================================
