# A TLA+ model of Mohid-NG

This directory specifies the core library of Mohid-NG in TLA+: the execution
trace and the errors it is attached to, the catalogue of error messages, the
registry of gradient methods, the mesh and its two readers, sets of fields, the two
cell-gradient methods, the timing of benchmarks, and the example programs that put
reader, mesh, fields and gradients together. TLC checks the modules on small instances,
and TLAPS proves theorems about every component with state of its own, for every
instance. Paths such as `src/Core/Logger.cc` are relative to the repository.

1. [The system](#1-the-system) – components, their state, how they interact
2. [The modules](#2-the-modules) – how each corresponds to the code
3. [The runs](#3-the-runs) – what each checks and shows, its bounds, fairness
4. [Where code and documentation disagree](#4-where-code-and-documentation-disagree)
5. [The proofs](#5-the-proofs)
6. [What is left out](#6-what-is-left-out)
7. [The plan](#7-the-plan)

## 1. The system

Mohid-NG is at an early stage: a C++20 library for the numerical core of a water
model, with benchmarks and examples that call it. The library has no event loop
and starts no threads. It is *called*, possibly by several threads of a host
program, so its behaviour is what its functions do to process-wide and
thread-local state, to files, and to the objects the host keeps.

| Component | Sources | State | Operations |
|---|---|---|---|
| Execution trace | `src/Core/Logger.cc`, `include/MohidNG/Core/Logger.h` | per thread: `trace_stack`; shared by all: `trace_logging_enabled`, `trace_output` | `TraceScope` constructor and destructor, `CurrentTrace`, `ClearTrace`, `SetTraceLoggingEnabled`, `SetTraceOutput` |
| Error catalogue | `src/Core/Error.cc`, `include/MohidNG/Core/Error.h` | behind one mutex: the registry, the `registered` flag; the selected language, written under the mutex and read also without it | `RegisterError`, `SetMessageLanguage`, `GetMessageLanguage`, `ErrorMessage`, `Error::Message` |
| Exceptions | the same | the trace an exception copied when it was made | `MohidNgException`, `Raise`, `Require`, `what` |
| Gradient method registry | `src/Numerics/Gradient/Gradient.cc` | an `unordered_map` from names to builders, not locked | `RegisterCellGradientMethod`, `RegisteredCellGradientMethods`, the lookup in `BuildCellGradientWorkspace` |
| Cell gradients | `Gradient.cc`, `WeightedLeastSquares.cc`, `ClassicalGreenGauss.cc` | a `CellGradientWorkspace` kept by the host | `BuildCellGradientWorkspace`, `ComputeCellGradient` (two overloads), `Diagnostics` |
| Mesh view | `src/Mesh/MeshView.cc` | immutable once built | `Cell`, `CellNeighbours`, `IsBoundaryFace`, `IsValid` |
| Voronoi mesh package reader | `src/IO/VoronoiMeshPackageReader.cc` | open HDF5 handles while it runs | `ReadVoronoiMeshPackage` |
| Bootstrap mesh reader | `src/IO/MeshReader.cc` | a position in a text stream | `ReadBootstrapMesh` |
| Fields | `include/MohidNG/Fields/Field.h`, `src/Fields/FieldSet.cc` | values; named fields in an `unordered_map`, and the references handed out into it | `Field::operator[]`, `FieldSet::AddScalar`, `Add…Scalar`, `Scalar`, `RequireScalar`, copies and moves |
| Benchmark timing | `benchmarks/common/` | block size, samples, result of one measurement | `MeasureBenchmark` |
| Gradient benchmark | `benchmarks/gradient/` | results of one run | error norms, timing, output |
| Examples | `examples/` | a mesh, a field, a workspace, gradients, an exit code | `main` of five programs |
| Build files, tools | `cmake/`, `tools/` | none at run time | – |

How they interact. Readers produce a `MeshView`; a method's builder turns it into
a workspace of stencils, which `ComputeCellGradient` applies to a `Field`. The
builder is found through the registry and may be the host's, which may call the
registry again. Every layer reports failure through `Require`/`Raise`, which copy
the trace of the calling thread and later render a message from the catalogue in
the selected language. `MOHIDNG_TRACE_SCOPE` in all of them feeds the trace.

What is hard about it, and what makes each component correct:

* **Trace.** A throw copies the stack while destructors still have to pop it;
  `ClearTrace` erases entries of scopes that are alive and will pop later; the
  log stream is shared without a lock, may be reset between its test and its use,
  and may throw in a constructor or in a `noexcept` destructor. Correct: a
  thread's trace is its active path; an exception holds the path of its throw
  site; a handler finds the path of its own `try`.
* **Catalogue.** The built-in definitions are inserted lazily by whichever call
  comes first, after the flag that says so was set, and insertion may run out of
  memory; the language is handed out by reference. Correct: callers see all of
  the built-in definitions, never overwriting their own; a message is in a
  language that was selected.
* **Registry.** Builders are called in place and may register and build again;
  the defaults are put back by every call. Correct: a name runs the builder last
  registered under it, and no running builder is overwritten behind its back.
* **Package reader.** Some forty handles are opened and about a hundred calls
  made, any of which may fail; some handles are used before they are checked, two
  answers are not looked at, and strings are allocated by HDF5; ids are narrowed
  before they are validated. Correct: no handle leaks or is closed twice; a mesh comes
  out only if nothing failed that the reader looks at; an accepted mesh can be walked.
* **Bootstrap reader.** Sections come in any order, again, or not at all; counts and
  numbers may be larger than their types; no extraction is tested, and one that fails
  disables all that follow. Correct: a whole text is read as written, and no cell or
  face is made up of what a failed extraction leaves.
* **Field sets.** References into a hash table outlive insertions, copies and moves;
  a field may be refused after it was moved away. Correct: a set is a map from names
  to fields, a failed call changes none, and what was accepted stays valid.
* **Examples.** They are handed damaged texts and odd cases and catch registered
  errors only. Correct: each way in which a process can end has its reason, and
  success means that the gradient was right.
* **Benchmark timing.** Limits of zero or one, a minimum above the maximum, a
  clock that stands still. Correct: the statistics are of all samples, and a
  result that says "converged" has converged.
* **Gradients.** Singular stencils, indices of other meshes, ids against
  positions. Correct: exact on linear fields where promised, conservative, and
  failing cells are reported by the diagnostics.

`PROJECT.json` lists every hazard at the line where it bites, with the properties
that cover it or the reason none does yet.

## 2. The modules

```
Trace ── MCTrace       Loops ── Mesh ─┬─ MeshPackage ── VoronoiMeshPackageReader ── MC…
                                      ├─ BootstrapReader ──┐
Messages ─┬─ Catalogue                └─ GradientStencils ─┼─ Examples ── MCBootstrapReader
          └─ ErrorCatalogue ── MC…            │            │
             (implements Catalogue)           │    RectangularFixture
                                              │            │
FieldMap                                      └────────────┴─ CellGradient ── MCCellGradient
FieldSet ── MCFieldSet
(implements FieldMap)           GradientRegistry ── MCGradientRegistry
                                Loops ── BenchmarkTiming ── MCBenchmarkTiming
```

The proofs about `M` are in `MProofs`, which extends `M`: there is one for `Trace`,
`ErrorCatalogue`, `GradientRegistry`, `VoronoiMeshPackageReader`, `BootstrapReader`,
`FieldSet`, `BenchmarkTiming` and `CellGradient`. `BootstrapReaderProofs` extends
`Examples`, because it proves the same of the reader inside the example programs.

**Loops.** The two loops that the code writes out again and again, adding up (`SumOf`)
and `push_back` under a condition (`Collected`), as functions of the iterations done.

**Trace** (`Logger.cc`, and the part of `Error.cc` that copies the trace). `live`
is the stack of `TraceScope` objects of a thread, which in the code is the call
stack; `trace_stack` is the vector. A constructor is `EnterScope` (push), then
`TestLogging`, then `WriteLine`; a destructor is `LeaveScope`, `TestLogging`,
`WriteLine`, `PopEntry`: the test of the two globals and the use of the pointer
are steps of their own because another thread may run `SetTraceOutput` between
them. `OpenTry`, `CloseTry` and `Catch` are the host's C++ blocks; `Raise` copies
the trace. While a thread is unwinding only destructors and finally `Catch` run.
`ConstructorWriteThrows` is a stream with an exception mask: the object never
comes to life, so nothing will pop its entry. `DestructorWriteThrows` is the same
in a destructor, which is `noexcept`, and ends the process.

**Messages, Catalogue, ErrorCatalogue** (`Error.cc`). `Messages` has the pure
parts: which text a definition yields for a language and what is said of an
unknown code. A text is a pair of author and language. `ErrorCatalogue` has the
mutex and a program counter per thread: `Lock`, `TestBuiltins` (sets the flag),
`InsertBuiltin` one at a time, `InsertFails` (`bad_alloc` through the
`lock_guard`), then the body of the call. `Error::Message()` takes the lock twice:
`FetchLanguage` in `GetMessageLanguage`, which returns a reference, and `LookUp`
in `ErrorMessage`; `AppendDetail` reads the language without the lock, and while
`BeginAssign`/`EndAssign` are under way may find the old, the new or a torn
string. `Catalogue` is the promise: no mutex, no flag, every definition there from
the start, every call taking effect once at one instant. `ErrorCatalogue` is shown to implement it under the
mapping `known <- Known` (the registry over the built-in definitions), the call of each
thread as a definition, a selection or a question, and its text as the answer.

**GradientRegistry** (`Gradient.cc`). `frames` are the calls of
`BuildCellGradientWorkspace` in progress, each with the builder it runs. Host code
runs outside of builds, in its own builders, and in the weighting policy called by
the least-squares builder (`HostRuns`). `replaced` records that the
`std::function` a frame is running has been assigned to. Exceptions leave frame by
frame (`Propagate`), and any host builder may catch them.

**Mesh** (`MeshView.cc`, `Index.h`). Operators over a record of sequences.
`InRange` looks cells up by position and never compares ids, as the code does.

**MeshPackage, VoronoiMeshPackageReader** (`VoronoiMeshPackageReader.cc`).
`MeshPackage` narrows a package into a mesh of ids below `IndexLimit`
(`MeshOf`, two's complement) and transcribes `ValidatePackageMesh` rule by rule.
`FollowsTheRules` states the rules of `docs/en-gb/file_formats/mesh_package.md`, and no
others, over the file's own 64-bit ids; what the reader asks for besides is in
`MeetsUnstatedConditions`. `VoronoiMeshPackageReader` executes `Program`, the
sequence of steps of the reader with its helpers inlined: a handle is opened into
an `Hdf5Object`, checked (or not, as in `ReadIntAttribute`), used for calls that
succeed, fail or answer the unexpected, moved, and closed. `error` unwinds the
objects youngest first. What the datasets hold matters only after the last of them
has been read, so `Assemble` chooses the package there and `Validate` judges it.
A call on an invalid handle fails; a call on a valid one may.

`ReadStringAttribute` has steps of its own. `AskIfVariable` takes a failed
`H5Tis_variable_str` for a fixed width and `AskWidth` a failed `H5Tget_size` for zero, as
the code does (`Unheeded`); `doubt` remembers them until `ReadFixed`, which may then read
the address of a string for its characters or more than its buffer holds. So the
attribute may come out as something the file does not hold (`garbled`), the string of
HDF5 may stay allocated (`raw`), and the process may not survive it (`Overrun`).
`CopyString` may run out of memory while only a plain pointer holds the string.
`ReadTexts` is the read of a string dataset, whose strings may be of variable length
although the code never asks. Every vector a file's sizes make is an `Allocate`, which may
throw `std::bad_alloc` or `std::length_error`.

**BootstrapReader** (`MeshReader.cc`). A text is a sequence of tokens, words and
whole numbers. `BeginSection` reads a count and resizes the vector, keeping the
elements it had, or leaves in `std::length_error` or `std::bad_alloc` where the count
is beyond `MaxSize` or `Memory`; `ReadElement` is one turn of a section's loop.
`Extracted` is a chain of `>>`: it says how many values are read and what the first that
fails stores: zero where a word stands for a number, the largest or least value of the
type where the number is beyond it (`Least`, `Most`), nothing where the text has ended.
The stream has then failed, every later extraction does nothing and the loop over sections
ends. A negative count is not a failure but wraps (`StoredCount`). A text is given either by its sections (`plan`), from which `MeaningOf` says what it should
mean, or as tokens (`Damaged`). `TextsAssumption` says that a damaged text is a sequence
of tokens and a plan a sequence of sections (`Section`), each of which lists whole
elements of values that fit their types, no more than there is memory for; a section
that the reader does not know is just its word.

**BenchmarkTiming** (`BenchmarkTiming.h`, `.cpp`). `ChooseTimingBlockSize` is one turn
of the calibration, `Measure` one of the sampling loop with its test, and the time
of every block is any of `Elapsed`. Times stay per block and roots are squared
away, so `Precise` decides `ci95_relative <= target_ci95_relative` in integers, with
Student's t rounded to tenths. `Sorted(samples, k)` says which sample comes to lie at
place `k` when they are sorted, and `Quartile` interpolates between two of them. `tried`
records the blocks of the calibration and their times. A kernel may throw (`Fail`).

**GradientStencils, CellGradient** (`Gradient.cc`, the two methods,
`Field::operator[]`). `GradientStencils` has the pure part: stencils, workspaces,
diagnostics and their application to a field. Geometry is on an integer lattice; a
stencil keeps integer numerators and the denominator `over`, and weights are whole
numbers of `1/Unit`, so all results are exact for the weights as they are (the root
in the inverse distance is rounded down). `CellGradient` is a host that calls it. The
host may turn to another mesh and keep its workspace (`UseMesh`), so that a workspace
and a field of different meshes meet. `MeshesAssumption` says that meshes are typed and
`Unit` so fine that no weight is rounded to zero. Two more conditions are hypotheses of
the theorems that need them: `NumberedCells`, that ids are positions, which of the
readers only that of packages enforces, and `InversesAreWhole`, that no inverse square is
rounded. `MCCellGradient` evaluates both on its meshes.

**FieldMap, FieldSet** (`FieldSet.cc`, `Field.h`). `scalars` of a set maps names to
addresses in `heap`, where the nodes of the `unordered_map` lie; addresses of dead
nodes are used again. `reference` is the one reference the host keeps, through which
it may replace (`Assign`) or move out (`Take`) a field; `CopySet` and `MoveSet` are
the implicit assignments. Any insertion may run out of memory, and `AddScalar`, which
takes its field by value, may have emptied the host's before it refuses the name.
`FieldMap` is the promise, without addresses: maps from names to fields, and a
reference that is a name in a set. The mapping looks each address up and turns the
reference into the name whose node it is.

**RectangularFixture, Examples** (`examples/Ex01` to `Ex03`, `Ex05`).
`RectangularFixture` is the mesh the fifth example makes, in units of half a cell.
`Examples` composes `BootstrapReader` and `GradientStencils` into processes, from the
command line to the exit code: `ReadMesh` lets the reader take a step, `MeshIsRead`
takes what it returned or threw, `ReadCaseConfig` reads a case file (a record; all
that YAML or `Require` can object to is in `Refused`), `FillField` writes a value at
each cell's id, `BuildWorkspace`, `ComputeGradient` and `CheckGradient` follow the
lines of `main`. An exception that is no registered error ends in `std::terminate`. A
coefficient may be `NaN`, which YAML can write.

Operators introduced by a comment "mutant" are not part of the model: each is a
plausible mistake in one definition, with which a property must fail.

## 3. The runs

Passing runs (two workers, sizes as found):

| Run | Bounds | States | Shows |
|---|---|---|---|
| `trace` | 2 threads, 2 scopes, depth 2, 2 nested tries, thread symmetry | 9.0 M | `TypeOK`, `TraceIsActivePath`, `UnwindingKeepsThrowPath`, `HandlerRestoresTrace`: through throws, unwinding and `ClearTrace` with live scopes, the trace stays the active path |
| `trace_throws` | 2 threads, 1 scope, depth 2, 1 try, 1 stale entry; stream throws | 0.8 M | `NoLiveScopeMissing`, `TryPathSurvives`: a failing stream adds entries but hides none, and unwinding never reaches below an open `try` |
| `catalogue` | 2 threads, 2 built-in codes, 1 host code, 2 definitions | 1.2 M | `BuiltinsAllOrNone` and the refinement `ImplementsCatalogue` |
| `language` | 2 threads, 2 built-in codes, a supported and an unsupported requested language, allocation may fail; fair | 1.6 M | `PartsFollowTheLanguage`, `NeverEmpty`, `SectionIsLeft` |
| `field_set` | 2 sets (symmetric), 2 names and the empty one, 3 nodes at a time, 1 reference | 1.0 M | `AcceptedStaysValid` and the refinement `ImplementsFieldMap` |
| `gradient_registry` | 2 host names, 2 host builders, nesting 2 | 0.1 M | `NamesRunTheirBuilder`, `OnlyTheHostReplacesRunning` |
| `package_reader` | the whole layout (283 steps), 2209 packages, 3-bit ids | 1.2 M | handles and strings (`HandlesAreOwned`, `FileOutlivesItsParts`, `MeshMeansNothingFailed`, `StringsAreFreed`), accepted meshes (`AcceptedMeshIsNavigable`, `NeighboursAreMutual`) and refused packages (`RefusalsAreExplained`) |
| `bootstrap_reader` | three programs on 1466 texts by their sections and 1737 damaged ones, the fifth on 5405 case files with grids up to 3 × 3; fair | 0.2 M | `TextIsReadAsWritten`, `NothingIsMadeUp`, `EndsAsExplained`, `FixtureIsReconstructed`, `InputIsLeft` |
| `benchmark_timing` | 432 settings, up to 4 samples, 3 times | 0.3 M | `BlockIsJustified`, `ResultIsOfAllSamples`, `ConvergedIsJustified` |
| `cell_gradient` | 8 meshes up to 3 × 3 cells, 4 weightings, 2 tolerances, 6 fields | 71 k | `LinearIsExact`, `DiagnosticsPredictFailure`, `IllConditionedMeansCollinear`, `ConditioningIgnoresUnits`, `GreenGaussIsConservative`, `GreenGaussExactInside` |

Why the bounds are enough. *Trace*: the state a thread shares with others is one
switch and one pointer, so two threads show every race; depth 2 is the least at
which a stack has an inner and an outer scope, and with `ClearTrace` in between a
scope that is erased below one that is not; two tries let a handler find an outer
`try`. The proofs of section 5 remove the bounds of every run for all
invariants but two.
*Catalogue*: the mutex makes calls sequential except for the language, for which
one writer and one reader suffice; two built-in codes can be half inserted.
*Registry*: nesting 2 is a builder called in a builder. *Reader*: nothing is
bounded but the contents; the two faces range over combinations of owners,
neighbours and patches in range, out of range, negative or congruent to one in range,
and every other rule is broken alone. *Gradients*: the meshes have cells with one to four neighbours,
collinear neighbours, coincident centres, repeated faces, a flat cell, a cell inside
and an owner that no cell has. *Field sets*: with two sets one is copied or moved
over the other while a reference points into either; three nodes let both sets hold
fields and memory run out. *Bootstrap reader and examples*: three sections let one be
repeated, longer and shorter, with another before, between or after; the whole texts,
among them a grid of four cells, are damaged at each token in turn: cut off, left out,
or replaced by a word, a negative number, one that wraps to a small count, one beyond an
index and a real but not a count (30), or one beyond each type (99). The limits keep
their order, `Memory` below `MaxSize` below `MaxCount`, with counts between each two; grids are empty,
single, a row, a column, square, or oblong in both directions. *Timing*: every comparison of the procedure is
met from below, at, and above: block limits 0, 1, 10 and 25, maxima 0, 1 and 4,
minima 0, 2 and 5, and a target no block reaches. Limits stay below a tenth of what
a `Size` holds (`SizeValues`), beyond which the product by ten would wrap.

`MCTrace.cfg` excludes throwing streams (`StreamMayThrow`), which `trace_throws`
includes. In both the stream may be exchanged at any time, also between the test and the
use of the pointer; a scope then writes through a null pointer (`WriteThroughNull`) and
the program ends. No document says that it may not, so no property does either.
`CHECK_DEADLOCK FALSE` appears where the program may end:
`terminated` in the trace, the return of the readers and of the measurement.

Fairness. `FairSpec` of `ErrorCatalogue` has weak fairness of the steps
of the thread that owns the mutex; nothing is assumed of the order in which
`std::mutex` admits those that wait, so no property says that a caller gets in.
`ExampleSpec` has weak fairness of the steps up to the mesh: a process has one thread
and waits for nothing but its input file; what follows is one pass per stage.

## 4. Where code and documentation disagree

Two runs look for a documented statement that the code does not keep; TLC finds
the counterexample.

* `package_reader_rules`: *"face neighbours in range or `-1` for boundary"*,
  *"contiguous zero-based … ids"*, *"face owners in range"*. Every negative
  neighbour is a boundary, and rules hold of ids after narrowing (with a 32-bit
  `PetscInt`), not of the file's.
* `cell_gradient_ids`: *"linear fields must be exact on suitable stencils"*. Cells
  are looked up by position and fields by id; the bootstrap reader accepts meshes
  in which the two differ.

Others have no run of their own.

* *"Messages are emitted in the selected language"*: text and detail label are looked
  up at different instants (`Error.cc:199-201`), so a selection in between puts them
  in two languages. `PartsFollowTheLanguage` says what does hold.
* A log stream that throws in the constructor of a `TraceScope` leaves its entry
  behind (`Logger.cc:28`), so with throwing streams `TraceIsActivePath` fails although
  *"`TraceScope` records the active execution path by RAII"*.
* *"Mohid-NG currently validates"* (`mesh_package.md`) is a list of rules, to which
  `ValidatePackageMesh` adds four: at least one cell, face and node, finite coordinates,
  face ids that are not negative, and, since they are narrowed first, ids and counts that
  fit `IndexValue`. `RefusalsAreExplained` has them as `MeetsUnstatedConditions`.
* A failed `H5Tis_variable_str` or `H5Tget_size` goes unnoticed
  (`VoronoiMeshPackageReader.cc:159`, `169`): the note or the coordinate system of a mesh
  may come out as other characters, and the process may be damaged (`Overrun`), although
  the document asks for *"clear diagnostics"*. `MeshMeansNothingFailed` leaves out just
  these two calls.
* Names and types of patches are *"fixed string"* (`mesh_package.md`), which
  `ReadStringDataset` does not check (lines 121-150): of strings of variable length it
  reads the addresses as characters and frees nothing. `ReadTexts` models it; nothing is
  claimed about it.
* A builder registered under a default name is replaced before it is looked up, as
  `NamesRunTheirBuilder` says, although *"the caller selects that name"*.
* *"Public functions shall raise registered errors whenever possible"*: a
  count in a bootstrap text that is negative or too large leaves `ReadBootstrapMesh` as
  `std::length_error` or `std::bad_alloc`, and an
  id beyond the cells leaves `Field::operator[]` as `std::out_of_range`; no `main`
  catches either. `EndsAsExplained` lists these ends. The same property shows that the
  second example dereferences past the end on a mesh without cells, which
  `MeshView::IsValid` accepts.
* An area or length beyond what a `Real` holds, as in `1e999`, becomes the largest one and
  fails the stream (`MeshReader.cc:55`, `67`). Where it is the last that is read, the mesh
  is accepted with it; `NothingIsMadeUp` has this one exception.
* The fifth example *"exits with success when both errors remain below the example
  tolerance"*, but also when they are not numbers: `std::max(m, NaN)` is `m`
  (lines 261-262), as `FixtureIsReconstructed` says.

## 5. The proofs

Each module of proofs has one inductive invariant, usually called `IInv`, a conjunction
of named parts: the properties are seldom inductive as they stand. It is shown to hold
initially, to be preserved by each action in a step of its own, and to imply the
properties. The invariants were also checked with TLC on the instances of section 3.

**`TraceProofs`**, for any threads, scopes and bounds:

* `TypeCorrect`, also when the stream throws. `TypeOK`
  alone is not inductive: `PopEntry` and `ConstructorWriteThrows` drop the last element
  of `live[t]`, which is typed only if there is one. `Typed` adds that a thread whose
  `pc` is inside a constructor or destructor has a live scope.
* `TraceFollowsScopes`: if `~StreamMayThrow`, then `Spec => []TraceIsActivePath`. Pushing
  appends to both sequences, popping drops the last of both or, when everything was
  erased, lowers `cleared`, and `ClearTrace` moves `cleared` up to the depth. The
  hypothesis is needed: `ConstructorWriteThrows` leaves an entry with no scope.
* `NoLiveScopeIsEverMissing`, for throwing streams too: stale entries lie between those
  of live scopes, so the invariant (`Embedded`) is that there are places, in order, where
  the live scopes lie. A push adds a place on top. A pop may take away an entry that is
  stale; then the places of the scopes that stay lie below it all the same, because the
  scope that is popped had a place above theirs.
* `TryPathAlwaysSurvives`, `HandlersAlwaysRestoreTraces` (if `~StreamMayThrow`),
  `UnwindingAlwaysKeepsThrowPath`. `HandlerInv` counts: since a try block was opened, the
  stack has gained at least an entry for every scope it gained, and exactly one if the
  stream never throws (`HeldBlock`); try blocks and scopes are nested, and a scope under
  construction or destruction is inside every open block (`Nested`). Every step is one of
  seven that a thread can take (`StepsOfAThread`), and each keeps the count: a pop never
  reaches the path of an open block, and as `Catch` runs when the scopes are back to the
  depth of the block, an exact count brings the stack back too.

**`ErrorCatalogueProofs`**, for any threads, list of codes and definitions. Mutual
exclusion (`Mutex`) comes with what it protects (`Prefix`, `Begun`) and with what a thread
knows between the steps of its call (`Calls`, `Selecting`, `Answers`, `Parts`).

* `BuiltinsAreAllOrNone`: while memory lasts, a set flag with definitions missing means
  that some thread is inserting them, and it holds the mutex.
* `MessagesAreNeverEmpty`: a text that was looked up is one, also after an insertion that
  failed half-way.
* `PartsAlwaysFollowTheLanguage`: every language a thread can read, by either of its two
  reads, has been selected during its call; while the string is being assigned, the old
  and the new are both among those.
* `ErrorCatalogueImplementsCatalogue`: if `AllocMayFail = FALSE`, then
  `Spec => ImplementsCatalogue`. The call of a thread begins at `Call`, takes effect at
  `StoreDefinition`, `EndAssign` or `LookUp`, and finishes at `Return`; all other steps are
  stutters, the lazy insertion among them, because the mapping knows the built-in
  definitions from the start. The hypothesis is needed: after a failed insertion codes
  stay unknown, which `Catalogue` does not promise.

**`GradientRegistryProofs`**, for any names, builders and nesting:

* `NamesAlwaysRunTheirBuilder`. A call takes its builder from the table, so the table must
  hold the host's last choice under every custom name it has (`TableIsChosen`).
  `NamesAssumption`, that the host's names are not the defaults', is what keeps
  `WithDefaults` away from them.
* `OnlyTheHostEverReplacesRunning`, an action property: a running host builder was found
  under a custom name, by the invariant, and `EnsureDefaultMethodsRegistered` assigns to
  no such name.

**`VoronoiMeshPackageReaderProofs`**, for any layout, any contents of the file and any
width of an index. What the proofs use of the program is `ProgramAssumption`: the file is
opened first, checked next and closed last; each opening is followed by a step that
finds out if it failed, or by another opening; a skip passes over no opening or closing;
a variable string is copied and freed at once; the last steps assemble the mesh,
validate it, and close. TLC evaluates it on the 283 steps of the code's own layout.

* `HandlesAreAlwaysOwned`, `FileAlwaysOutlivesItsParts`: the open handles are those of the
  objects, which hold different ids (`Handles`), on a stack whose depth the program
  counter determines (`Position`) and whose first object is the file (`FileFirst`).
* `AMeshMeansNothingElseFailed`: a failed opening leaves an invalid object on top, which
  the next step, checked or not, stumbles over, so the only failures that are behind a
  reader without an error are the unheeded ones (`FailureShows`). A header attribute that
  was misread is none that `ValidatePackageMesh` supports.
* `StringsAreAlwaysFreed`: between the call that allocates and the one that frees there
  is one step, which throws nothing but `std::bad_alloc` (`StringPending`), and a variable
  string is read as a fixed one only after the question was answered by a failure
  (`Doubted`).
* `AcceptedMeshIsAlwaysNavigable` and `NeighboursAreAlwaysMutual`: an accepted mesh is
  `MeshOf` its package and `ValidatePackageMesh` found nothing (`Contents`).
  `NeighboursAreMutual` compares how often two cells list each other, so its proof gives a
  set of faces that counts both.
* `RefusalsAreAlwaysExplained`: narrowing changes no id of a package that follows the
  rules and fits the index type, so whatever the checks then find was there in the file.
  The four conditions that the document leaves out are named in the property.

**`BootstrapReaderProofs`**, for any texts and any limits of the types and of the memory
in the order of `LimitsAssumption`.

* `NothingIsEverMadeUp`: only sections that were begun have elements (`FirstReading`), so
  behind the element that is being read lie, on the first reading, those the vector made
  (`Untouched`), with an area or a length of zero. An extraction that stops before that
  field leaves the zero; one that fails at it leaves zero, the least or the largest
  number. From then on the stream has failed and no step changes such a field
  (`GuessesAreRefused`). The largest number alone passes `MeshView::IsValid` (`Verdict`),
  but then an element behind it still has the zero, unless it is the last (`Saturated`):
  the exception the property makes. A section that is given twice may leave an old value,
  hence the premise `~Repeated`.
* `TextsAreAlwaysReadAsWritten`, for texts given by their sections. The invariant
  (`Written`) says how far reading has come: between two sections (`Between`) what is left
  of the text is the rest of the sections, joined (`Rest`), and the mesh is what the
  beginning of the plan means; in a section (`Within`) the vector holds the elements up to
  the one that was read; at the end everything is `Understood`. An extraction at the
  beginning of such a rest reads all of its fields (`AllIsRead`), one more section changes
  the meaning by that section only (`MeaningGrows`), and what lies behind `END` has none
  (`EffectiveProperties`). That `FlattenSeq` joins its parts one by one (`FlattenIsLast`)
  is shown by induction over the number of parts. That a plan is of values that fit
  (`Section`) is needed: a larger one fails the stream, and what follows is not read.
* `ExamplesReadAsWritten`: both results hold of the reader inside the examples. A stage of `main`
  either lets the reader take a step or leaves it alone, and the fifth example, which
  writes the mesh itself, never has a text (`ReaderInside`).

**`FieldSetProofs`**, for any sets, names, meshes and nodes. The invariant is that of the
heap: every name has a node that is alive (`Stored`), no two names of all sets share one
(`Apart`), and the host's reference points into a set (`Referenced`).

* `AcceptedAlwaysStaysValid`: the accepted field is looked up by its name, and by `Apart`
  an assignment through the reference reaches one name only.
* `FieldSetImplementsFieldMap`: `Spec => ImplementsFieldMap`, action by action. A new node
  is nobody's, copying and moving give each name a node of its own or the one it had, and
  since nodes are `Apart` the name that the reference stands for is unique.

**`BenchmarkTimingProofs`**, for any settings and clock, and any number of samples.

* `BlockIsAlwaysJustified`: while the block is chosen, every block tried is smaller than
  the next and was too short (`Growing`). The hypothesis `TenTimesIsASize` is that ten
  times a block below its limit is a `Size`. The code does not look; with 64 bits it holds
  for every limit up to 10^18, and without it the next block may be smaller.
* `ResultIsAlwaysOfAllSamples`, without that hypothesis. The invariant (`RInv`) counts the
  runs of the kernel (`Counted`) and says that nothing is decided while sampling goes on
  (`Pending`). The rest is about the statistics: the sum lies between `n` times the least
  and the greatest sample (`SumIsBetween`), order statistics ascend (`SortedAscends`), at
  most half of the samples lie on either side of the median (`MedianHalves`), and
  `n * sum of squares - square of the sum`, which the code's formula for the variance comes
  down to, is the sum of the squares of all differences (`SpreadIs`).
* `ConvergedIsAlwaysJustified`: every sample from the minimum on has been tested, and in
  vain (`Sampling`), so the one that stops the loop is the first that passes.

**`CellGradientProofs`**, for any meshes, weighting policies, tolerances and fields. The
invariant is short: the workspace is one that a build returned, whatever mesh is in use
by now, and what a call returned is such a workspace applied to a field
(`InvAlwaysHolds`). The rest is about the sums over neighbours and faces, loops of any
length.

* `DiagnosticsAlwaysPredict`: applying a workspace stops at the first stencil that is
  ill-conditioned or reaches outside the field, and the diagnostics count the former;
  in a mesh whose faces name existing cells the latter do not occur.
* `LinearFieldsAlwaysExact`, for every slope and offset, of which the run has a few
  (`ExactOnLinear`): on a linear field the right-hand side is the matrix applied to the
  slope, sum by sum, so that Cramer's rule returns the slope times the determinant.
* `RefusedAlwaysMeansCollinear`: with neighbours on one line all sums are multiples of
  each other and the determinant vanishes (`LineIsSingular`). If it vanishes, the quadratic
  form of the matrix is zero at some vector, hence, its terms being squares with positive
  weights, at each neighbour (`FormIsDefinite`), and they lie on one line (`PlaneIsRegular`).
* `UnitsAlwaysIgnored`: the weight of the other mesh is a quarter and each product of two
  distances four times as large. Hypothesis `InversesAreWhole`: exact arithmetic.
* `GreenGaussAlwaysConservative`: what a cell takes from its neighbours is a sum over the
  faces with the others masked out, and a face gives one cell what it takes from the other.
* `GreenGaussAlwaysExactInside`, for every slope and offset too (`ExactInside`): in the sum
  of a square that shares its sides with equal squares four terms are not zero, and they
  give the slope.

Both theorems about exactness have the hypothesis `NumberedCells`, since the code takes a
cell's values by its id and its neighbours by their position. The run `cell_gradient_ids`
is the counterexample to the first without it.

The assumptions are those of the modules, which TLC evaluates in every run: bounds are
naturals, the limits of types and memory ascend, switches Booleans, the list of built-in codes has no repetition, the names of
host and program differ, texts consist of tokens and plans of sections, packages and
meshes are typed, and the program of the reader has its shape.

Loops and sequences of any length are met with induction over a *set* of numbers
(`SetInduction`, from the well-foundedness of `<`): the library's induction theorems take
a predicate as a parameter, which the installed provers cannot instantiate. That is why
the modules write their loops as recursive functions.

Only model-checked, and why:

* liveness under fairness (`SectionIsLeft`, `InputIsLeft`), which the prover
  does not support;
* `EndsAsExplained` and `FixtureIsReconstructed`. They follow an example from its arguments
  to its exit code, and so rest on what the reader accepts, on the geometry of the fixture
  and on the gradients. The theorems about the last are of the workspaces that a host of
  `CellGradient` keeps; the examples build and apply their own.

## 6. What is left out

* Release builds, in which tracing is compiled away.
* The wording of messages, the layout of `what()`, contexts of an error, and what
  is written to the log (lines of two threads may interleave).
* Two threads in the gradient registry: every build writes to an unlocked map, so
  concurrent builds are a data race with no outcomes to enumerate.
* Rounding, `kEpsilon` and infinities in geometry; irrational distances are rounded
  down in the inverse-distance weights.
* The values of fields in `FieldSet`, of which only the number is kept.
* What the examples print; the fourth, which is the first with the other reader; and
  products of counts of cells beyond what a `std::size_t` holds.
* Overflow in the product of dataset dimensions.
* Memory running out while the text of an error is put together in the reader.
  Other allocations of the reader may fail.
* HDF5 itself: an open handle stays usable until it is closed.
* How characters become numbers: a token of the bootstrap reader is a word or a
  whole number, which may be beyond the type it is read into. Fractions, and what follows
  the digits in one token, are not looked at.
* Derived figures of a measurement (deviation, coefficient of variation).
* The driver of the gradient benchmark: floating-point norms and tables around
  operations that are modelled.
* Build system and tools, which have no behaviour of their own.

## 7. The plan

Modelled so far are all components with state of their own. What is left, in this
order:

1. A composition of registry, gradients and trace: an error raised in a nested build
   leaves with the trace of where it was raised, and the host finds its own.
2. The driver of the gradient benchmark around `BenchmarkTiming` and
   `GradientStencils`, as far as it has control of its own.

Proofs to come:

1. `EndsAsExplained` and `FixtureIsReconstructed`: state the lemmas of `CellGradientProofs` of
   any workspace that `GradientStencils` builds, and show that the fixture is a mesh of
   squares whose cells are numbered.
2. The composition above, from the invariants of its parts.
