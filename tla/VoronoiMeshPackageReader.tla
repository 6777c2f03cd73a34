---------------------- MODULE VoronoiMeshPackageReader ----------------------
(***************************************************************************)
(* ReadVoronoiMeshPackage (src/IO/VoronoiMeshPackageReader.cc): which HDF5 *)
(* handles it opens on its way through a file, which answers it checks,    *)
(* what is closed and freed when any of the calls fails, and, when all of  *)
(* it could be read, whether the mesh is accepted.                         *)
(*                                                                         *)
(* Each helper of the reader is the sequence of its steps, and Program is  *)
(* their order in the reader.  A step opens a handle into an Hdf5Object,   *)
(* checks handles, asks the library, allocates, hands an object over, or   *)
(* ends the life of one.  What the datasets hold matters only at the end,  *)
(* so the package is chosen there.                                         *)
(***************************************************************************)
EXTENDS MeshPackage, FiniteSets

CONSTANTS
  Packages,      \* the contents a file can have
  Attributes,    \* the names of the attributes read, in order
  Groups         \* the groups read: sequences of datasets, by what they hold

ASSUME LayoutAssumption ==
  /\ Attributes \in Seq({"dimension", "schema_version", "producer",
                         "coordinate_reference_system", "note"})
  /\ Groups \in Seq(Seq({"index", "numbers", "string"}))

ASSUME PackagesAssumption == \A p \in Packages :
  /\ {"schema", "producer", "dimension"} \subseteq DOMAIN p
  /\ p.nodes \in Seq(NodeRecord) /\ p.cells \in Seq(CellRecord) /\ p.faces \in Seq(FaceRecord)
  /\ p.dimension \in Int /\ p.patches \in Seq(Int)

VARIABLES
  at,        \* the next step of Program
  objects,   \* the ids held by the Hdf5Object instances alive, oldest first
  open,      \* the ids the HDF5 library has open
  issued,    \* how many ids it has issued: it never issues one twice
  raw,       \* the reads whose strings HDF5 allocated and nobody has freed
  doubt,     \* the calls that failed unheeded on the attribute being read
  garbled,   \* the attributes that came out as something the file does not hold
  error,     \* the exception that is unwinding the reader
  failed,    \* history: the operations that failed or gave an unexpected answer
  package,   \* the contents of the file, once it has been read
  mesh,      \* the MeshView assembled from it
  outcome    \* "none", "mesh", "fault", or the exception that left the reader

handles  == <<objects, open, issued>>
strings  == <<raw, doubt, garbled>>
contents == <<package, mesh>>
vars == <<at, handles, strings, error, failed, contents, outcome>>

Invalid == -1
None    == "none"

-----------------------------------------------------------------------------
(* The helpers *)

\* A query is made on the youngest object: the file, an attribute, a dataspace.
Step(op)    == [op |-> op, arg |-> 1]
Open        == Step("open")
Query       == Step("query")
Close       == Step("close")
Check(n)    == [op |-> "check", arg |-> n]    \* n handles
Skip(op, n) == [op |-> op, arg |-> n]         \* n steps further on

\* H5Aexists, H5Aopen, H5Aread; the handle is not checked before it is used.
ReadIntAttribute == <<Query, Open, Query, Close>>

\* H5Aopen and H5Aget_type are checked together.  A variable-length string comes
\* in memory of the library, which is freed after it has been copied; a fixed one is
\* read into a buffer of its width.  The answers about the type are not checked.
ReadStringAttribute(i) ==
  <<Query, Open, Open, Check(2),
    Skip("isVariable", 4), Step("readVariable"), Step("copy"), Skip("free", 5),
    Step("width"), Step("allocate"), [op |-> "readFixed", arg |-> i], Step("allocate"),
    Close, Close>>

OpenDataset == <<Open, Check(1), Step("handOver")>>

\* H5Dget_space, its rank, the vector of dimensions, the dimensions.
DatasetDims == <<Open, Check(1), Query, Step("allocate"), Query, Close>>

\* ReadRealDataset and ReadIntDataset: the rank (and number of columns), the vector
\* of values, H5Dread.
ReadNumbers == OpenDataset \o DatasetDims \o <<Query, Step("allocate"), Query, Close>>

\* ... and the copy into the vector of narrowed values.
ReadIndexDataset ==
  OpenDataset \o DatasetDims \o <<Query, Step("allocate"), Query, Step("allocate"), Close>>

\* The rank, the type and its width, the buffer, H5Dread, the vector of strings.
ReadStringDataset ==
  OpenDataset \o DatasetDims
    \o <<Query, Open, Check(1), Query, Step("allocate"), Step("readTexts"), Step("allocate"),
         Close, Close>>

ReadDataset(kind) ==
  CASE kind = "index"   -> ReadIndexDataset
    [] kind = "numbers" -> ReadNumbers
    [] kind = "string"  -> ReadStringDataset

ReadAttributes == FlattenSeq([i \in DOMAIN Attributes |->
  IF Attributes[i] = "dimension" THEN ReadIntAttribute ELSE ReadStringAttribute(i)])

\* The sizes of the datasets of a group are compared once all have been read.
ReadGroup(g) ==
  FlattenSeq([i \in DOMAIN g |-> ReadDataset(g[i])]) \o <<Query, Step("allocate")>>

\* The file is opened first, and still open while the mesh is validated.
Program == <<Open, Check(1)>> \o ReadAttributes
             \o FlattenSeq([i \in DOMAIN Groups |-> ReadGroup(Groups[i])]) \o <<Step("assemble"), Step("validate"), Close>>

\* How many handles are alive before step n, when nothing has failed.
StepsBefore(n, op) == {k \in 1..(n - 1) : Program[k].op = op}
Depth(n) == Cardinality(StepsBefore(n, "open")) - Cardinality(StepsBefore(n, "close"))

Operations == {"open", "query", "check", "isVariable", "readVariable", "copy", "free", "width",
               "readFixed", "readTexts", "allocate", "handOver", "assemble", "validate", "close"}

\* The calls whose failure ReadStringAttribute does not look at.
Unheeded == {"isVariable", "width"}

\* The order of the steps, as far as it matters to what holds after a failure: the
\* file is opened first and checked at once, and closed last; whatever is opened is
\* used by the step that follows; a skip passes over no open or close; a variable
\* string is copied and freed as soon as it has been read; the mesh is assembled and
\* validated once, at the end.
ASSUME ProgramAssumption ==
  LET last == Len(Program)
  IN  /\ Program \in Seq([op : Operations, arg : Nat])
      /\ last > 4 /\ Program[1] = Open /\ Program[2] = Check(1)
      /\ \A n \in 2..last : Depth(n) >= 1
      /\ \A n \in 1..last :
           /\ Program[n].op = "open" =>
                /\ n < last /\ Program[n + 1].op \in {"open", "query", "check"}
           /\ Program[n].op = "check" => Program[n].arg >= 1
           /\ Program[n].op \in {"isVariable", "free"} =>
                LET next == n + Program[n].arg
                IN  n < next /\ next < last - 2 /\ Depth(next) = Depth(n)
           /\ Program[n].op = "readVariable" =>
                n + 1 < last /\ Program[n + 1].op = "copy" /\ Program[n + 2].op = "free"
           /\ Program[n].op = "assemble" <=> n = last - 2
           /\ Program[n].op = "validate" <=> n = last - 1
      /\ Program[last].op = "close"

-----------------------------------------------------------------------------

Runs(op)   == outcome = None /\ error = None /\ Program[at].op = op
IsOpen(id) == id \in open

\* Hdf5Object::Close, which ignores an invalid id.
Closed(id) == IF id # Invalid THEN open \ {id} ELSE open

Failed   == failed' = failed \cup {Program[at].op}
Throw(e) == error' = e /\ Failed /\ UNCHANGED at
Continue == at' = at + 1 /\ UNCHANGED <<error, failed>>
SkipOn   == at' = at + Program[at].arg

Init ==
  /\ at = 1
  /\ objects = <<>>
  /\ open = {}
  /\ issued = 0
  /\ raw = {} /\ doubt = {} /\ garbled = {}
  /\ error = None
  /\ failed = {}
  /\ package = NoMesh
  /\ mesh = NoMesh
  /\ outcome = None

\* Hdf5Object(H5...open(...), H5...close)
OpenSucceeds ==
  /\ Runs("open")
  /\ objects # <<>> => IsOpen(Last(objects))
  /\ issued' = issued + 1
  /\ objects' = Append(objects, issued')
  /\ open' = open \cup {issued'}
  /\ Continue
  /\ UNCHANGED <<strings, contents, outcome>>

\* The object is made all the same, around an invalid id.
OpenFails ==
  /\ Runs("open")
  /\ objects' = Append(objects, Invalid)
  /\ Failed
  /\ at' = at + 1
  /\ UNCHANGED <<open, issued, strings, error, contents, outcome>>

AreValid(n) == \A k \in 0..(n - 1) : objects[Len(objects) - k] # Invalid

OpenError == IF Len(objects) = 1 THEN "mesh.file_not_found" ELSE "mesh.parse_error"

CheckHandles ==
  /\ Runs("check")
  /\ IF AreValid(Program[at].arg) THEN Continue ELSE Throw(OpenError)
  /\ UNCHANGED <<handles, strings, contents, outcome>>

\* mutant: the answer of a call on an invalid handle is taken for a good one.
UncheckedAnswers == BOOLEAN
\* The library answers on open handles, and fails on any other.
Answers == IF IsOpen(Last(objects)) THEN BOOLEAN ELSE {FALSE}

\* H5Aexists, H5Sget_simple_extent_*, H5Dread, ... and the Require that follows.
AskLibrary ==
  /\ Runs("query")
  /\ \E good \in Answers : IF good THEN Continue ELSE Throw("mesh.parse_error")
  /\ UNCHANGED <<handles, strings, contents, outcome>>

\* H5Tis_variable_str(...) > 0: a failed call goes the way of a fixed width, which
\* may or may not be what the string has.
AskIfVariable ==
  /\ Runs("isVariable")
  /\ \/ Continue /\ UNCHANGED doubt
     \/ SkipOn /\ UNCHANGED <<error, failed, doubt>>
     \/ SkipOn /\ Failed /\ doubt' \in {{}, {"isVariable"}} /\ UNCHANGED error
  /\ UNCHANGED <<handles, raw, garbled, contents, outcome>>

\* H5Aread into char*; both attribute and type are needed.
ReadVariable ==
  /\ Runs("readVariable")
  /\ \/ AreValid(2) /\ Continue /\ raw' = raw \cup {"readVariable"}
     \/ Throw("mesh.parse_error") /\ UNCHANGED raw
  /\ UNCHANGED <<handles, doubt, garbled, contents, outcome>>

\* std::string value(raw), while only a plain pointer holds the library's memory.
CopyString ==
  /\ Runs("copy")
  /\ Continue \/ Throw("std::bad_alloc")
  /\ UNCHANGED <<handles, strings, contents, outcome>>

\* mutant: the memory is not freed.
StillRaw == raw
Freed    == raw \ {"readVariable"}

FreeString ==
  /\ Runs("free")
  /\ raw' = Freed
  /\ SkipOn
  /\ UNCHANGED <<handles, doubt, garbled, error, failed, contents, outcome>>

\* H5Tget_size, of which nothing is required here: the width is zero if it failed.
AskWidth ==
  /\ Runs("width")
  /\ at' = at + 1
  /\ \/ UNCHANGED <<failed, doubt>>
     \/ Failed /\ doubt' = doubt \cup {"width"}
  /\ UNCHANGED <<handles, raw, garbled, error, contents, outcome>>

\* What the buffer may then hold: the address of a variable string in place of its
\* characters, or more than it has room for.
Garbled(name) ==
  IF "isVariable" \in doubt THEN {garbled \cup {name}}
  ELSE IF "width" \in doubt THEN {garbled, garbled \cup {name}}
  ELSE {garbled}

\* H5Aread into the buffer.
ReadFixed ==
  /\ Runs("readFixed")
  /\ \/ /\ AreValid(2)
        /\ raw' = IF "isVariable" \in doubt THEN raw \cup {"readFixed"} ELSE raw
        /\ garbled' \in Garbled(Attributes[Program[at].arg])
        /\ doubt' = {}
        /\ Continue
     \/ Throw("mesh.parse_error") /\ UNCHANGED strings
  /\ UNCHANGED <<handles, contents, outcome>>

\* A buffer of width zero is overrun, which the program may not survive.
Overrun ==
  /\ Runs("readFixed")
  /\ "width" \in doubt
  /\ outcome' = "fault"
  /\ UNCHANGED <<at, handles, strings, error, failed, contents>>

\* H5Dread of strings: those of variable length are allocated one by one, and what
\* the buffer holds is taken for their characters.
ReadTexts ==
  /\ Runs("readTexts")
  /\ \E good \in Answers :
       IF good THEN Continue /\ raw' \in {raw, raw \cup {"readTexts"}}
               ELSE Throw("mesh.parse_error") /\ UNCHANGED raw
  /\ UNCHANGED <<handles, doubt, garbled, contents, outcome>>

\* The sizes of vectors are what the file says they are.
Allocate ==
  /\ Runs("allocate")
  /\ Continue \/ Throw("std::bad_alloc") \/ Throw("std::length_error")
  /\ UNCHANGED <<handles, strings, contents, outcome>>

\* The source of a move.  mutant: it keeps its id.
KeepsId(id)   == id
MovedFrom(id) == Invalid

\* return dataset: the compiler builds it in place, or moves it and destroys the source.
HandOver ==
  /\ Runs("handOver")
  /\ open' \in {open, Closed(MovedFrom(Last(objects)))}
  /\ Continue
  /\ UNCHANGED <<objects, issued, strings, contents, outcome>>

\* MeshView mesh(...), from what the datasets turned out to hold.
Assemble ==
  /\ Runs("assemble")
  /\ package' \in Packages
  /\ mesh' = MeshOf(package', garbled)
  /\ Continue
  /\ UNCHANGED <<handles, strings, outcome>>

Validate ==
  /\ Runs("validate")
  /\ LET verdict == ValidatePackageMesh(mesh)
     IN  IF verdict = "valid" THEN Continue ELSE Throw(verdict)
  /\ UNCHANGED <<handles, strings, contents, outcome>>

\* The end of a helper: its objects die youngest first.
EndOfLife ==
  /\ Runs("close")
  /\ open' = Closed(Last(objects))
  /\ objects' = Front(objects)
  /\ Continue
  /\ outcome' = IF at = Len(Program) THEN "mesh" ELSE None
  /\ UNCHANGED <<issued, strings, contents>>

\* mutant: the oldest object dies first.
UnwindOldest ==
  /\ error # None /\ outcome = None /\ objects # <<>>
  /\ open' = Closed(Head(objects))
  /\ objects' = Tail(objects)
  /\ UNCHANGED <<at, issued, strings, error, failed, contents, outcome>>
Unwind ==
  /\ error # None /\ outcome = None /\ objects # <<>>
  /\ open' = Closed(Last(objects))
  /\ objects' = Front(objects)
  /\ UNCHANGED <<at, issued, strings, error, failed, contents, outcome>>

Escape ==
  /\ error # None /\ outcome = None /\ objects = <<>>
  /\ outcome' = error
  /\ UNCHANGED <<at, handles, strings, error, failed, contents>>

Next ==
  \/ OpenSucceeds \/ OpenFails \/ CheckHandles \/ AskLibrary
  \/ AskIfVariable \/ ReadVariable \/ CopyString \/ FreeString
  \/ AskWidth \/ ReadFixed \/ Overrun \/ ReadTexts
  \/ Allocate \/ HandOver \/ Assemble \/ Validate \/ EndOfLife \/ Unwind \/ Escape

Spec == Init /\ [][Next]_vars

-----------------------------------------------------------------------------
(* Properties *)

Owned == {objects[i] : i \in DOMAIN objects} \ {Invalid}

\* Every open handle has exactly one owner, at every step of every failure:
\* nothing is left open when the reader ends and nothing is closed twice.
HandlesAreOwned ==
  /\ open = Owned
  /\ \A i, j \in DOMAIN objects : objects[i] = objects[j] /\ i # j => objects[i] = Invalid

\* The file is open for as long as anything in it is: it is closed last, also
\* when the reader is unwound.
FileOutlivesItsParts == open # {} => 1 \in open

\* A mesh is returned only if every call succeeded and every answer was the
\* expected one, although some handles are used unchecked, but for the two calls
\* about the type of a string attribute.  Where these failed, the mesh is still of a
\* file whose header is supported: a header that was misread has been refused.
MeshMeansNothingFailed ==
  outcome = "mesh" => failed \subseteq Unheeded /\ HeaderIsSupported(package)

\* The memory HDF5 allocated for a string attribute is freed unless copying the
\* string itself ran out of memory, or the attribute was not recognised as one of
\* variable length because that call failed.  (Strings of variable length in a dataset
\* are never freed: "readTexts" stays in raw.)
StringsAreFreed ==
  outcome # None =>
    /\ "readVariable" \in raw => outcome = "std::bad_alloc" /\ Program[at].op = "copy"
    /\ "readFixed" \in raw => "isVariable" \in failed

Accepted == outcome = "mesh"
CellIds  == 0..(Len(mesh.cells) - 1)

\* A consumer that walks an accepted mesh from cell to cell never leaves it:
\* MeshView::Cell raises for no id that CellNeighbours returns.
AcceptedMeshIsNavigable ==
  Accepted =>
    \A c \in CellIds :
      /\ CellAt(mesh, c).id = c
      /\ \A i \in DOMAIN NeighbourAcross(mesh, c) : InRange(mesh, NeighbourAcross(mesh, c)[i])

Times(id, across) == Cardinality({i \in DOMAIN across : across[i] = id})

\* Neighbourhood in an accepted mesh is mutual, also where faces are duplicated
\* or join a cell to itself: each cell lists the other equally often.
NeighboursAreMutual ==
  Accepted =>
    \A c, d \in CellIds : Times(d, NeighbourAcross(mesh, c)) = Times(c, NeighbourAcross(mesh, d))

\* A package that could be read is refused only because it breaks a documented rule,
\* does not meet one of the four conditions that the documents leave out, or had an
\* attribute misread: the checks, made on narrowed ids, refuse nothing besides.
RefusalsAreExplained ==
  package # NoMesh /\ error # None =>
    ~FollowsTheRules(package) \/ ~MeetsUnstatedConditions(package) \/ garbled # {}

\* mesh_package.md: Mohid-NG validates "contiguous zero-based node and cell ids",
\* "face owners in range" and "face neighbours in range or -1 for boundary".  They
\* would have to hold of the int64 values in the file.
AcceptedFollowsTheRules == Accepted => FollowsTheRules(package)
=============================================================================
