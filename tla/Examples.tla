------------------------------ MODULE Examples ------------------------------
(***************************************************************************)
(* The example programs Ex01, Ex02, Ex03 and Ex05 as whole processes: the  *)
(* first three read a bootstrap mesh (BootstrapReader), the fifth makes a  *)
(* mesh from a case file (RectangularFixture); the third and the fifth     *)
(* reconstruct the gradient of a linear field (GradientStencils) and check *)
(* it.  Each main catches the registered errors and nothing else, so any   *)
(* other exception ends the process in std::terminate.                     *)
(***************************************************************************)
EXTENDS BootstrapReader, GradientStencils, RectangularFixture

CONSTANTS
  Cases,     \* the case files of the fifth example, as records
  NaN        \* a coefficient that is not a number, which YAML can write

VARIABLES
  program,   \* which example runs
  config,    \* the case file of the fifth, or NoCase
  stage,     \* where its main is
  field,     \* the values of the scalar field it fills, by id
  workspace, \* the workspace it builds
  gradients, \* the gradients it computes
  exit       \* how the process ended

locals  == <<field, workspace, gradients>>
example == <<program, config, stage, locals, exit>>
allVars == <<vars, example>>

MeshPrograms == {"read_mesh", "cell_field", "gradient_reconstruction"}
Rectangular  == "rectangular_domain_gradient"
NoCase       == <<>>
NoValues     == <<>>

Registered == {"mesh.file_not_found", "mesh.parse_error", "mesh.invalid_connectivity"}

-----------------------------------------------------------------------------

InitExample ==
  /\ \/ program \in MeshPrograms /\ config = NoCase /\ Init
     \/ program = Rectangular /\ config \in Cases /\ plan = NoPlan /\ text = <<>> /\ NothingRead
  /\ stage = "arguments"
  /\ field = NoValues /\ workspace = NoWorkspace /\ gradients = NoGradients
  /\ exit = "none"

Enter(next)  == stage' = next /\ UNCHANGED <<program, config, exit>>
Finish(code) == stage' = "ended" /\ exit' = code /\ UNCHANGED <<program, config>>

\* Require(argc == 2, ...).
RequireArguments ==
  /\ stage = "arguments"
  /\ Enter("input") \/ Finish("1")
  /\ UNCHANGED <<vars, locals>>

\* ReadBootstrapMesh runs, ...
ReadMesh ==
  /\ stage = "input" /\ program \in MeshPrograms
  /\ Next
  /\ UNCHANGED example

\* ... and returns a mesh or throws.
MeshIsRead ==
  /\ stage = "input" /\ outcome # "none"
  /\ IF outcome = "mesh" THEN IF program = "read_mesh" THEN Finish("0") ELSE Enter("fill")
     ELSE Finish(IF outcome \in Registered THEN "1" ELSE "std::terminate")
  /\ UNCHANGED <<vars, locals>>

WeightingNames == {"uniform", "inverse_distance", "inverse_distance_squared"}

\* What ReadCaseConfig raises, or YAML throws and main wraps.
Refused(c) ==
  \/ ~c.complete   \* no file, no YAML, a key missing, or a word for a number
  \/ c.type # "rectangle" \/ c.location # "cell" \/ c.weighting \notin WeightingNames
  \/ c.nx = 0 \/ c.ny = 0 \/ c.dx <= 0 \/ c.dy <= 0

ReadCaseConfig ==
  /\ stage = "input" /\ program = Rectangular
  /\ IF Refused(config) THEN Finish("1") ELSE Enter("mesh")
  /\ UNCHANGED <<vars, locals>>

\* Of nodes, cells and faces the most; std::bad_alloc and std::length_error escape.
Fits(c) ==
  /\ (c.nx + 1) * (c.ny + 1) <= Memory
  /\ (c.nx + 1) * c.ny + c.nx * (c.ny + 1) <= Memory

MakeMesh ==
  /\ stage = "mesh"
  /\ IF Fits(config)
     THEN /\ mesh' = MakeRectangularFixtureMesh(config.nx, config.ny, config.dx, config.dy)
          /\ Enter("fill")
     ELSE Finish("std::terminate") /\ UNCHANGED mesh
  /\ UNCHANGED <<plan, text, good, at, section, element, history, outcome, locals>>

\* The coefficients of the linear field, x + 2 y in the examples that read a mesh.
Linear == IF program = Rectangular THEN config.linear ELSE [x |-> 1, y |-> 2, constant |-> 0]
LinearIsNumber == NaN \notin {Linear.x, Linear.y, Linear.constant}
AnalyticField(x, y) == IF LinearIsNumber THEN Linear.x * x + Linear.y * y + Linear.constant ELSE NaN

\* Values are stored by id, of two cells with one id the last; the field is zero
\* before.  An id that is no position leaves through std::vector::at.
IdsAreHeld(m) == \A i \in DOMAIN m.cells : m.cells[i].id < Len(m.cells)
ValueAt(id) ==
  LET named == SelectSeq(mesh.cells, LAMBDA c : c.id = id)
  IN  IF named = <<>> THEN 0 ELSE AnalyticField(Last(named).x, Last(named).y)
FillField ==
  /\ stage = "fill"
  /\ IF IdsAreHeld(mesh)
     THEN field' = <<>> \o [i \in DOMAIN mesh.cells |-> ValueAt(i - 1)] /\ Enter("use")
     ELSE Finish("std::terminate") /\ UNCHANGED field
  /\ UNCHANGED <<vars, workspace, gradients>>

\* The least and the greatest value are printed; without cells, two iterators that
\* point nowhere are read.
PrintRange ==
  /\ stage = "use" /\ program = "cell_field"
  /\ IF field = <<>> THEN Finish("0") \/ Finish("crash") ELSE Finish("0")
  /\ UNCHANGED <<vars, locals>>

\* The default tolerance, 1e-14, is far below any determinant on the lattice.
OptionsOfProgram ==
  IF program = Rectangular THEN [method |-> config.method, weighting |-> config.weighting, tolerance |-> 0]
  ELSE [method |-> WLS, weighting |-> "inverse_distance_squared", tolerance |-> 0]

BuildWorkspace ==
  /\ stage = "use" /\ program \in {"gradient_reconstruction", Rectangular}
  /\ IF BuildError(mesh, OptionsOfProgram) = Succeeds
     THEN workspace' = Workspace(mesh, OptionsOfProgram) /\ Enter("compute")
     ELSE Finish("1") /\ UNCHANGED workspace
  /\ UNCHANGED <<vars, field, gradients>>

\* From values that are no numbers, a gradient is none where there is a neighbour.
NaNGradients ==
  [i \in DOMAIN field |-> IF workspace.stencils[i].coefficients = <<>> THEN Zero
                          ELSE [x |-> NaN, y |-> NaN, over |-> 1]]

ComputeGradient ==
  /\ stage = "compute"
  /\ LET error == ComputeError(workspace, [location |-> "cell", values |-> field])
     IN  IF error = Succeeds
         THEN /\ gradients' = IF LinearIsNumber THEN Gradients(workspace, field) ELSE NaNGradients
              /\ Enter("check")
         ELSE /\ Finish(IF error = OutOfRange THEN "std::terminate" ELSE "1")
              /\ UNCHANGED gradients
  /\ UNCHANGED <<vars, field, workspace>>

\* A comparison with NaN is false.
IsOff(got, expected, over) == got # NaN /\ expected # NaN /\ got # expected * over

CheckGradient ==
  /\ stage = "check"
  /\ IF \E i \in DOMAIN gradients :
          LET g == gradients[i]
          IN  IsOff(g.x, Linear.x, g.over) \/ IsOff(g.y, Linear.y, g.over)
     THEN Finish("2") ELSE Finish("0")
  /\ UNCHANGED <<vars, locals>>

ReadInput   == RequireArguments \/ ReadMesh \/ MeshIsRead \/ ReadCaseConfig
NextExample ==
  \/ ReadInput \/ MakeMesh \/ FillField \/ PrintRange
  \/ BuildWorkspace \/ ComputeGradient \/ CheckGradient

\* One thread, which waits for nothing but its input file.
ExampleSpec == InitExample /\ [][NextExample]_allVars /\ WF_allVars(ReadInput)

-----------------------------------------------------------------------------
(* Properties *)

Ended == stage = "ended"

\* However the text is damaged and wherever an extraction fails, main gets a mesh or
\* an error; what follows is one pass over the mesh.
InputIsLeft == <>(stage \notin {"arguments", "input"})

HasNoRoom == outcome \in {"std::length_error", "std::bad_alloc"}
IdsArePositions(m) == \A i \in DOMAIN m.cells : m.cells[i].id = i - 1

\* "Public functions shall raise registered errors whenever possible" (docs/en-gb/
\* developer/error_exception_logging.md).  Exactly three inputs end in an exception
\* that no main catches: a count that is negative or larger than a vector can be, an
\* id beyond the cells and a case too large for the memory.  Only the second example
\* reads what is not there, without cells; and the third finds its gradient wrong only
\* where ids are no positions.
EndsAsExplained ==
  Ended =>
    /\ exit = "std::terminate"
         <=> \/ HasNoRoom
             \/ /\ program \in {"cell_field", "gradient_reconstruction"}
                /\ outcome = "mesh" /\ ~IdsAreHeld(mesh)
             \/ program = Rectangular /\ exit # "1" /\ ~Fits(config)
    /\ exit = "crash" => program = "cell_field" /\ mesh.cells = <<>>
    /\ exit = "2" /\ program # Rectangular => ~IdsArePositions(mesh)

\* "It exits with success when both errors remain below the example tolerance"
\* (the fifth example).  Least squares succeeds on every grid of at least two rows
\* and two columns and refuses the others; Green-Gauss, which leaves out boundary
\* faces, only on a constant field.  A field that is not a number passes as well,
\* because std::max keeps the other operand.
FixtureIsReconstructed ==
  Ended /\ program = Rectangular /\ mesh.cells # <<>> =>
    exit = IF config.method = "unregistered" THEN "1"
           ELSE IF config.method = WLS THEN IF config.nx < 2 \/ config.ny < 2 THEN "1" ELSE "0"
           ELSE IF ~LinearIsNumber /\ config.nx * config.ny > 1 THEN "0"
           ELSE IF Linear.x \in {0, NaN} /\ Linear.y \in {0, NaN} THEN "0" ELSE "2"
=============================================================================
