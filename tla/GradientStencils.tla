-------------------------- MODULE GradientStencils --------------------------
(***************************************************************************)
(* The two built-in gradient methods as operators: from a mesh to a        *)
(* workspace of stencils (src/Numerics/Gradient/WeightedLeastSquares.cc,   *)
(* ClassicalGreenGauss.cc), and from a workspace and a scalar field to     *)
(* gradients (ComputeCellGradient in Gradient.cc).                         *)
(*                                                                         *)
(* Geometry is on an integer lattice and arithmetic is exact: a stencil    *)
(* holds the numerators of its coefficients and the one denominator over   *)
(* which they stand, so the divisions of the code are never carried out.   *)
(* Weights are whole numbers of 1/Unit.  kEpsilon and rounding are left    *)
(* out, except that the root of a distance is rounded down.                *)
(***************************************************************************)
EXTENDS Mesh

CONSTANTS
  Unit,          \* the weight 1.0
  HostWeight(_)  \* a weighting policy of the host, from squared distances

ASSUME UnitAssumption == Unit \in Nat \ {0}

WLS == "weighted_least_squares_normal_equations"
GG  == "classical_green_gauss"

NoWorkspace == [stencils |-> <<>>, method |-> "", mesh |-> <<>>, options |-> <<>>]
NoGradients == <<>>

Succeeds == "none"
OutOfRange == "std::out_of_range"   \* std::vector::at, not a registered error

Absolute(n) == IF n < 0 THEN -n ELSE n

\* What is thrown first, where errors are the outcomes of successive checks.
FirstError(errors) ==
  LET raised == {k \in DOMAIN errors : errors[k] # Succeeds}
  IN  IF raised = {} THEN Succeeds ELSE errors[Min(raised)]

-----------------------------------------------------------------------------
(* Weighting policies *)

Root(d) == CHOOSE r \in 0..d : r * r <= d /\ (r + 1) * (r + 1) > d

\* Mutant: the distance is not squared.
InverseDistance(d)        == Unit \div Root(d)
InverseDistanceSquared(d) == Unit \div d

Weight(policy, d) ==
  CASE policy = "uniform"                  -> Unit
    [] policy = "inverse_distance"         -> InverseDistance(d)
    [] policy = "inverse_distance_squared" -> InverseDistanceSquared(d)
    [] OTHER                               -> HostWeight(d)

-----------------------------------------------------------------------------
(* Weighted least squares *)

Delta(m, cell, id) == [x |-> CellAt(m, id).x - cell.x, y |-> CellAt(m, id).y - cell.y]
DistanceSquared(d) == d.x * d.x + d.y * d.y

\* What stops the loop over the neighbours, at each of them.
NeighbourError(m, cell, id) ==
  IF ~InRange(m, id) THEN "mesh.invalid_connectivity"
  ELSE IF DistanceSquared(Delta(m, cell, id)) = 0 THEN "numerics.degenerate_geometry"
  ELSE Succeeds

WLSError(m, cell) ==
  LET ids == CellNeighbours(m, cell.id)
  IN  FirstError([k \in DOMAIN ids |-> NeighbourError(m, cell, ids[k])])

NeighbourGeometry(m, cell, weighting) ==
  LET ids == CellNeighbours(m, cell.id)
  IN  [k \in DOMAIN ids |->
         LET d == Delta(m, cell, ids[k])
         IN  [neighbour |-> ids[k], dx |-> d.x, dy |-> d.y,
              weight |-> Weight(weighting, DistanceSquared(d))]]

NormalEquation(g) == [a00 |-> SumOf([k \in DOMAIN g |-> g[k].weight * g[k].dx * g[k].dx]),
                      a01 |-> SumOf([k \in DOMAIN g |-> g[k].weight * g[k].dx * g[k].dy]),
                      a11 |-> SumOf([k \in DOMAIN g |-> g[k].weight * g[k].dy * g[k].dy])]

\* Mutant: a determinant of exactly the tolerance passes.
IsSingularStrictly(g, determinant, tolerance) ==
  Len(g) < 2 \/ Absolute(determinant) < tolerance
IsSingular(g, determinant, tolerance) ==
  Len(g) < 2 \/ Absolute(determinant) <= tolerance

\* Mutant: the off-diagonal element of the inverse keeps its sign.
InverseUnsigned(a) == [i00 |-> a.a11, i01 |-> a.a01, i11 |-> a.a00]
InverseTimesDeterminant(a) == [i00 |-> a.a11, i01 |-> -a.a01, i11 |-> a.a00]

WLSStencil(m, cell, o) ==
  LET g   == NeighbourGeometry(m, cell, o.weighting)
      a   == NormalEquation(g)
      inv == InverseTimesDeterminant(a)
      determinant == a.a00 * a.a11 - a.a01 * a.a01
      singular    == IsSingular(g, determinant, o.tolerance)
  IN  [cell |-> cell.id, well_conditioned |-> ~singular, over |-> determinant,
       coefficients |->
         IF singular THEN <<>>
         ELSE [k \in DOMAIN g |->
                 [neighbour |-> g[k].neighbour,
                  x |-> g[k].weight * (inv.i00 * g[k].dx + inv.i01 * g[k].dy),
                  y |-> g[k].weight * (inv.i01 * g[k].dx + inv.i11 * g[k].dy)]]]

-----------------------------------------------------------------------------
(* Classical Green-Gauss *)

SameCell(left, right) == left = right

\* Mutant: the normal is taken as it is stored, pointing out of the owner.
NormalOfOwner(face, cell) == [x |-> face.nx * face.length, y |-> face.ny * face.length]
OutwardNormalLengthForCell(face, cell) ==
  LET sign == IF SameCell(face.owner, cell.id) THEN 1 ELSE -1
  IN  [x |-> sign * face.nx * face.length, y |-> sign * face.ny * face.length]

OtherSide(face, cell) == IF SameCell(face.owner, cell.id) THEN face.neighbour ELSE face.owner

IsShared(face, cell) ==
  /\ SameCell(face.owner, cell.id) \/ SameCell(face.neighbour, cell.id)
  /\ IsValidIndex(OtherSide(face, cell))
SharedFaces(m, cell) ==
  LET shared == Collected({i \in DOMAIN m.faces : IsShared(m.faces[i], cell)}, Len(m.faces))
  IN  [k \in DOMAIN shared |-> m.faces[shared[k]]]

\* Mutant: the face value is the neighbour's, not the mean of both sides.
WholeJump(area) == area
HalfJump(area)  == 2 * area

GGStencil(m, cell) ==
  LET shared == SharedFaces(m, cell)
  IN  [cell |-> cell.id, well_conditioned |-> cell.area > 0, over |-> HalfJump(cell.area),
       coefficients |->
         IF cell.area <= 0 THEN <<>>
         ELSE [k \in DOMAIN shared |->
                 [neighbour |-> OtherSide(shared[k], cell),
                  x |-> OutwardNormalLengthForCell(shared[k], cell).x,
                  y |-> OutwardNormalLengthForCell(shared[k], cell).y]]]

-----------------------------------------------------------------------------
(* BuildCellGradientWorkspace *)

BuildError(m, o) ==
  IF o.method = "unregistered" THEN "numerics.unsupported_gradient_method"
  ELSE IF o.method = GG THEN Succeeds
  ELSE FirstError([i \in DOMAIN m.cells |-> WLSError(m, m.cells[i])])

Workspace(m, o) ==
  [stencils |-> [i \in DOMAIN m.cells |-> IF o.method = WLS THEN WLSStencil(m, m.cells[i], o)
                                                            ELSE GGStencil(m, m.cells[i])],
   method |-> o.method, mesh |-> m, options |-> o]

\* CellGradientWorkspace::Diagnostics.
Diagnostics(w) ==
  [cell_count             |-> Len(w.stencils),
   well_conditioned_count |-> Cardinality({i \in DOMAIN w.stencils : w.stencils[i].well_conditioned}),
   ill_conditioned_count  |-> Cardinality({i \in DOMAIN w.stencils : ~w.stencils[i].well_conditioned}),
   coefficient_count      |-> SumOf([i \in DOMAIN w.stencils |-> Len(w.stencils[i].coefficients)])]

-----------------------------------------------------------------------------
(* ComputeCellGradient *)

Holds(values, id) == id \in 0..(Len(values) - 1)

\* What stops the loop over the stencils, at each of them.  Mutant: the state of
\* a stencil is not looked at.
StencilErrorOfIndices(s, values) ==
  IF Holds(values, s.cell) /\ \A k \in DOMAIN s.coefficients : Holds(values, s.coefficients[k].neighbour)
  THEN Succeeds ELSE OutOfRange
StencilError(s, values) ==
  IF ~s.well_conditioned THEN "numerics.singular_least_squares"
  ELSE IF Holds(values, s.cell) /\ \A k \in DOMAIN s.coefficients : Holds(values, s.coefficients[k].neighbour)
  THEN Succeeds ELSE OutOfRange

Difference(s, c, values) == values[c.neighbour + 1] - values[s.cell + 1]

GradientOf(s, values) ==
  LET c == s.coefficients
  IN  [x |-> SumOf([k \in DOMAIN c |-> c[k].x * Difference(s, c[k], values)]),
       y |-> SumOf([k \in DOMAIN c |-> c[k].y * Difference(s, c[k], values)]),
       over |-> s.over]

Zero == [x |-> 0, y |-> 0, over |-> 1]

\* Vector2Field starts at zero and is written at the id of each stencil's cell, of
\* two stencils for one id by the later.
Gradients(w, values) ==
  [i \in DOMAIN values |->
     LET written == {k \in DOMAIN w.stencils : w.stencils[k].cell = i - 1}
     IN  IF written = {} THEN Zero ELSE GradientOf(w.stencils[Max(written)], values)]

FieldError(field, size) ==
  IF field.location # "cell" THEN "numerics.gradient_requires_cell_field"
  ELSE IF Len(field.values) # size THEN "field.invalid_size"
  ELSE Succeeds

ComputeError(w, field) ==
  IF FieldError(field, Len(w.stencils)) # Succeeds THEN FieldError(field, Len(w.stencils))
  ELSE FirstError([i \in DOMAIN w.stencils |-> StencilError(w.stencils[i], field.values)])

Raised(error) == [error |-> error, gradients |-> NoGradients]

\* What ComputeCellGradient(workspace, scalar) gives.
Applied(w, field) ==
  LET error == ComputeError(w, field)
  IN  [error |-> error, workspace |-> w, field |-> field,
       gradients |-> IF error = Succeeds THEN Gradients(w, field.values) ELSE NoGradients]
=============================================================================
