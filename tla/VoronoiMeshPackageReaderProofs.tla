------------------- MODULE VoronoiMeshPackageReaderProofs -------------------
(***************************************************************************)
(* Proofs about the package reader for any layout whose program has the    *)
(* shape of ProgramAssumption, any contents of the file and any width of   *)
(* the indices.  The invariant follows the handles (Handles), the place in *)
(* the program (Position), what a failure leaves for the next step to find *)
(* (FailureShows), where a string waits to be freed (StringPending), which *)
(* failures went unheeded (Doubted) and what is known of the mesh at each  *)
(* step (Contents).                                                        *)
(***************************************************************************)
EXTENDS VoronoiMeshPackageReader, SequenceTheorems, FiniteSetTheorems, TLAPS

Errors == {"mesh.file_not_found", "mesh.parse_error", "mesh.invalid_connectivity",
           "std::bad_alloc", "std::length_error"}
Ids    == Nat \cup {Invalid}
last   == Len(Program)

Types ==
  /\ at \in 1..(last + 1)
  /\ objects \in Seq(Ids)
  /\ issued \in Nat
  /\ error \in Errors \cup {None}
  /\ outcome \in Errors \cup {None, "mesh", "fault"}

\* The owners of the open handles hold different ids, which the library has issued.
Handles ==
  /\ \A i \in DOMAIN objects : objects[i] = Invalid \/ objects[i] \in 1..issued
  /\ open = Owned
  /\ \A i, j \in DOMAIN objects : objects[i] = objects[j] /\ i # j => objects[i] = Invalid

\* Without an error, every open so far that was not closed has its object.
Position ==
  /\ error # None => outcome \in {None, error}
  /\ error = None =>
       /\ outcome = None => at <= last /\ Len(objects) = Depth(at)
       /\ outcome # None => \/ outcome = "mesh" /\ at = last + 1
                            \/ outcome = "fault" /\ at <= last /\ Program[at].op = "readFixed"

\* The first object is the file, and the first id is the file's.
FileFirst ==
  /\ at = 1 => issued = 0
  /\ objects # <<>> =>
       \/ objects[1] = 1
       \/ Len(objects) = 1 /\ objects[1] = Invalid /\ (error # None \/ at = 2)

\* A failed open is found out by the next step, unless that one opens as well.
FailureShows ==
  ~(failed \subseteq Unheeded) /\ error = None =>
    /\ objects # <<>> /\ objects[Len(objects)] = Invalid
    /\ at <= last /\ Program[at].op \in {"open", "query", "check"}

StringPending ==
  "readVariable" \in raw =>
    \/ error = "std::bad_alloc" /\ Program[at].op = "copy"
    \/ error = None /\ \E n \in 1..last : Program[n].op = "readVariable" /\ at \in {n + 1, n + 2}

\* A string is only taken for a fixed one where H5Tis_variable_str has failed.
Doubted ==
  /\ doubt \subseteq failed
  /\ "readFixed" \in raw => "isVariable" \in failed

IsRead == package \in Packages /\ mesh = MeshOf(package, garbled)

Contents ==
  /\ package # NoMesh => IsRead /\ at >= last - 1
  /\ package # NoMesh /\ error # None => ValidatePackageMesh(mesh) # "valid"
  /\ error = None /\ at >= last - 1 => IsRead
  /\ error = None /\ at >= last => ValidatePackageMesh(mesh) = "valid"

IInv == Types /\ Handles /\ Position /\ FileFirst /\ FailureShows /\ StringPending /\ Doubted /\ Contents

-----------------------------------------------------------------------------
(* The program and the objects *)

\* The shape of the program, with each of its parts to cite.
LEMMA Shape ==
  /\ last \in Nat /\ last > 4 /\ Program \in Seq([op : Operations, arg : Nat])
  /\ Program[1].op = "open" /\ Program[2].op = "check"
  /\ \A n \in 2..last : Depth(n) >= 1
  /\ \A n \in 1..last :
       /\ Program[n].op \in Operations
       /\ Program[n].op = "open" => n < last /\ Program[n + 1].op \in {"open", "query", "check"}
       /\ Program[n].op = "check" => Program[n].arg \in Nat /\ Program[n].arg >= 1
       /\ Program[n].op = "readVariable" =>
            n + 1 < last /\ Program[n + 1].op = "copy" /\ Program[n + 2].op = "free"
       /\ Program[n].op = "assemble" <=> n = last - 2
       /\ Program[n].op = "validate" <=> n = last - 1
  /\ Program[last].op = "close"
<1>1. Program \in Seq([op : Operations, arg : Nat]) /\ last \in Nat
  BY ProgramAssumption, LenProperties DEF last
<1>2. \A n \in 1..last : Program[n] \in [op : Operations, arg : Nat]
  BY <1>1, ElementOfSeq DEF last
<1>3. Program[1].op = "open" /\ Program[2].op = "check"
  BY ProgramAssumption DEF Open, Check, Step
<1> QED
  BY <1>1, <1>2, <1>3, ProgramAssumption DEF last

\* A string is copied and freed by the two steps that follow its reading.
LEMMA StringShape ==
  ASSUME NEW n \in 1..last, Program[n].op = "readVariable"
  PROVE  /\ n \in Nat /\ n + 1 < last
         /\ Program[n + 1].op = "copy" /\ Program[n + 2].op = "free"
<1>1. last \in Nat
  BY Shape
<1>2. n + 1 < last /\ Program[n + 1].op = "copy" /\ Program[n + 2].op = "free"
  BY Shape
<1> QED
  BY <1>1, <1>2

\* A skip ends further on, before the mesh is assembled, and as deep.
LEMMA SkipShape ==
  ASSUME NEW n \in 1..last, Program[n].op \in {"isVariable", "free"}
  PROVE  LET next == n + Program[n].arg
         IN  next \in Nat /\ n < next /\ next < last - 2 /\ Depth(next) = Depth(n)
<1>1. Program \in Seq([op : Operations, arg : Nat]) /\ last \in Nat
  BY Shape
<1>2. Program[n] \in [op : Operations, arg : Nat]
  BY <1>1, ElementOfSeq DEF last
<1>3. n \in Nat /\ Program[n].arg \in Nat
  BY <1>1, <1>2
<1> DEFINE next == n + Program[n].arg
<1>4. n < next /\ next < last - 2 /\ Depth(next) = Depth(n)
  BY ProgramAssumption, Zenon DEF last
<1> QED
  BY <1>3, <1>4

\* One step further, one handle more, one less, or as many.
LEMMA DepthAfter ==
  ASSUME NEW n \in 1..last
  PROVE  /\ Program[n].op = "open" => Depth(n + 1) = Depth(n) + 1
         /\ Program[n].op = "close" => Depth(n + 1) = Depth(n) - 1
         /\ Program[n].op \notin {"open", "close"} => Depth(n + 1) = Depth(n)
<1>1. n \in Int /\ n - 1 \in Int /\ (n + 1) - 1 = n
  BY Shape
<1>2. ASSUME NEW op
      PROVE  /\ Cardinality(StepsBefore(n, op)) \in Nat
             /\ Cardinality(StepsBefore(n + 1, op)) =
                  Cardinality(StepsBefore(n, op)) + (IF Program[n].op = op THEN 1 ELSE 0)
  <2>1. IsFiniteSet(1..(n - 1))
    BY <1>1, FS_Interval
  <2>2. IsFiniteSet(StepsBefore(n, op))
    BY <2>1, FS_Subset DEF StepsBefore
  <2>3. n \notin StepsBefore(n, op)
    BY <1>1 DEF StepsBefore
  <2>4. 1..n = 1..(n - 1) \cup {n}
    BY <1>1
  <2>5. CASE Program[n].op = op
    <3>1. StepsBefore(n + 1, op) = StepsBefore(n, op) \cup {n}
      BY <1>1, <2>4, <2>5 DEF StepsBefore
    <3> QED
      BY <2>2, <2>3, <2>5, <3>1, FS_AddElement, FS_CardinalityType
  <2>6. CASE Program[n].op # op
    <3>1. StepsBefore(n + 1, op) = StepsBefore(n, op)
      BY <1>1, <2>4, <2>6 DEF StepsBefore
    <3> QED
      BY <2>2, <2>6, <3>1, FS_CardinalityType
  <2> QED
    BY <2>5, <2>6
<1>3. /\ Cardinality(StepsBefore(n, "open")) \in Nat
      /\ Cardinality(StepsBefore(n, "close")) \in Nat
  BY <1>2
<1> QED
  BY <1>2, <1>3 DEF Depth

\* Nothing is alive before the first step.
LEMMA DepthAtStart == Depth(1) = 0
<1>1. \A op : StepsBefore(1, op) = {}
  BY DEF StepsBefore
<1> QED
  BY <1>1, FS_EmptySet DEF Depth

\* What the end of the youngest object leaves.
LEMMA Popped ==
  ASSUME NEW s \in Seq(Ids), s # <<>>
  PROVE  /\ Front(s) \in Seq(Ids)
         /\ Len(s) \in Nat /\ Len(s) >= 1
         /\ Len(Front(s)) = Len(s) - 1
         /\ DOMAIN s = 1..Len(s) /\ DOMAIN Front(s) = 1..(Len(s) - 1)
         /\ \A i \in 1..(Len(s) - 1) : Front(s)[i] = s[i]
         /\ Last(s) = s[Len(s)] /\ Last(s) \in Ids
<1>1. Len(s) \in Nat /\ Len(s) >= 1 /\ DOMAIN s = 1..Len(s)
  BY EmptySeq, LenProperties
<1> DEFINE rest == Len(s) - 1
<1>2. rest \in Int /\ s[Len(s)] \in Ids /\ \A i \in 1..rest : s[i] \in Ids
  BY <1>1, ElementOfSeq
<1>3. /\ Front(s) \in Seq(Ids)
      /\ Len(Front(s)) = IF 1 <= rest THEN rest - 1 + 1 ELSE 0
      /\ \A i \in 1..(rest - 1 + 1) : Front(s)[i] = s[1 + i - 1]
  BY <1>2, SubSeqProperties DEF Front
<1>4. (IF 1 <= rest THEN rest - 1 + 1 ELSE 0) = rest
  BY <1>1
<1>5. Len(Front(s)) = rest /\ DOMAIN Front(s) = 1..rest
  BY <1>3, <1>4, LenProperties
<1>6. \A i \in 1..rest : i \in 1..(rest - 1 + 1) /\ 1 + i - 1 = i
  BY <1>1
<1> QED
  BY <1>1, <1>2, <1>3, <1>5, <1>6 DEF Last

\* What a new object adds.
LEMMA Pushed ==
  ASSUME NEW s \in Seq(Ids), NEW id \in Ids
  PROVE  /\ Append(s, id) \in Seq(Ids) /\ Append(s, id) # <<>>
         /\ Len(s) \in Nat /\ Len(Append(s, id)) = Len(s) + 1
         /\ DOMAIN s = 1..Len(s) /\ DOMAIN Append(s, id) = 1..(Len(s) + 1)
         /\ \A i \in 1..Len(s) : Append(s, id)[i] = s[i]
         /\ Append(s, id)[Len(s) + 1] = id
<1>1. Append(s, id) \in Seq(Ids) /\ Len(Append(s, id)) = Len(s) + 1
  BY AppendProperties
<1> QED
  BY <1>1, AppendProperties, LenProperties

-----------------------------------------------------------------------------
(* The kinds of step *)

Forward ==
  /\ error = None /\ outcome = None
  /\ at' \in (at + 1)..last /\ Depth(at') = Depth(at)
  /\ failed' \subseteq failed \cup Unheeded
  /\ UNCHANGED <<objects, open, issued, error, outcome>>
Thrown ==
  /\ error = None /\ outcome = None /\ error' \in Errors
  /\ UNCHANGED <<at, objects, open, issued, outcome>>

\* Before a step on the way the reader has not ended, and the next is as deep.
LEMMA OnTheWay ==
  ASSUME IInv, error = None, outcome = None
  PROVE  /\ at \in 1..last
         /\ Program[at].op \notin {"open", "close"} =>
              at + 1 \in (at + 1)..last /\ Depth(at + 1) = Depth(at)
         /\ Program[at].op \in {"isVariable", "free"} =>
              LET next == at + Program[at].arg IN next \in (at + 1)..last /\ Depth(next) = Depth(at)
<1>1. at \in 1..last
  BY Shape DEF IInv, Types, Position
<1>2. ASSUME Program[at].op \notin {"open", "close"}
      PROVE  at + 1 \in (at + 1)..last /\ Depth(at + 1) = Depth(at)
  <2>1. at # last
    BY <1>2, Shape
  <2> QED
    BY <1>1, <1>2, <2>1, Shape, DepthAfter
<1>3. ASSUME Program[at].op \in {"isVariable", "free"}, NEW next, next = at + Program[at].arg
      PROVE  next \in (at + 1)..last /\ Depth(next) = Depth(at)
  <2>1. next \in Nat /\ at < next /\ next < last - 2 /\ Depth(next) = Depth(at)
    BY <1>1, <1>3, SkipShape
  <2>2. at \in Nat /\ last \in Nat
    BY <1>1, Shape
  <2> QED
    BY <2>1, <2>2
<1> QED
  BY <1>1, <1>2, <1>3

\* Apart from opening, closing and unwinding a step goes forward and leaves the
\* handles alone, or throws and leaves everything alone; a failed open is thrown
\* over by the query or the check that follows.
LEMMA StepKinds ==
  ASSUME IInv, Next
  PROVE  \/ OpenSucceeds \/ OpenFails \/ Overrun \/ EndOfLife \/ Unwind \/ Escape
         \/ /\ Forward
            /\ at \in 1..last /\ Program[at].op \notin {"open", "close"}
            /\ objects # <<>> /\ ~(failed \subseteq Unheeded) => objects[Len(objects)] # Invalid
         \/ Thrown
<1>1. IsOpen(Invalid) = FALSE
  BY DEF IInv, Handles, Owned, IsOpen
<1>2. ASSUME error = None, outcome = None, Program[at].op \notin {"open", "close"}, Continue
      PROVE  at' \in (at + 1)..last /\ Depth(at') = Depth(at) /\ error' = error /\ failed' = failed
  BY <1>2, OnTheWay DEF Continue
<1>3. CASE CheckHandles
  <2>1. /\ error = None /\ outcome = None /\ Program[at].op = "check" /\ at \in 1..last
        /\ UNCHANGED <<objects, open, issued, outcome>>
    BY <1>3, OnTheWay DEF CheckHandles, Runs, handles
  <2>2. Program[at].arg \in Nat /\ Program[at].arg >= 1
    BY <2>1, Shape
  <2>3. AreValid(Program[at].arg) => objects[Len(objects)] # Invalid
    <3>1. 0 \in 0..(Program[at].arg - 1)
      BY <2>2
    <3>2. Len(objects) - 0 = Len(objects)
      BY LenProperties DEF IInv, Types
    <3> QED
      BY <3>1, <3>2 DEF AreValid
  <2>4. OpenError \in Errors
    BY DEF OpenError, Errors
  <2>5. CASE AreValid(Program[at].arg)
    BY <1>2, <1>3, <2>1, <2>3, <2>5 DEF CheckHandles, Forward
  <2>6. CASE ~AreValid(Program[at].arg)
    BY <1>3, <2>1, <2>4, <2>6 DEF CheckHandles, Thrown, Throw
  <2> QED
    BY <2>5, <2>6
<1>4. CASE AskLibrary
  <2>1. /\ error = None /\ outcome = None /\ Program[at].op = "query" /\ at \in 1..last
        /\ UNCHANGED <<objects, open, issued, outcome>>
    BY <1>4, OnTheWay DEF AskLibrary, Runs, handles
  <2>2. PICK good \in Answers : IF good THEN Continue ELSE Throw("mesh.parse_error")
    BY <1>4 DEF AskLibrary
  <2>3. CASE good = FALSE
    BY <2>1, <2>2, <2>3 DEF Thrown, Throw, Errors
  <2>4. CASE good # FALSE
    <3>1. Last(objects) # Invalid /\ good = TRUE
      BY <1>1, <2>4 DEF Answers, IsOpen
    <3> QED
      BY <1>2, <2>1, <2>2, <3>1 DEF Forward, Last
  <2> QED
    BY <2>3, <2>4
<1>5. CASE \/ AskIfVariable \/ ReadVariable \/ CopyString \/ FreeString \/ AskWidth \/ ReadFixed
           \/ ReadTexts \/ Allocate \/ HandOver \/ Assemble \/ Validate
  <2>1. /\ error = None /\ outcome = None
        /\ Program[at].op \in {"isVariable", "readVariable", "copy", "free", "width", "readFixed",
                               "readTexts", "allocate", "handOver", "assemble", "validate"}
    BY <1>5 DEF AskIfVariable, ReadVariable, CopyString, FreeString, AskWidth, ReadFixed, ReadTexts,
                Allocate, HandOver, Assemble, Validate, Runs
  <2>2. failed \subseteq Unheeded /\ at \in 1..last
    BY <2>1, OnTheWay DEF IInv, FailureShows
  <2>3. UNCHANGED <<objects, open, issued, outcome>>
    <3>1. CASE HandOver
      BY <3>1 DEF HandOver, Closed, MovedFrom
    <3>2. CASE ~HandOver
      BY <1>5, <3>2 DEF AskIfVariable, ReadVariable, CopyString, FreeString, AskWidth, ReadFixed, ReadTexts,
                        Allocate, Assemble, Validate, handles
    <3> QED
      BY <3>1, <3>2
  <2>4. CASE Continue
    BY <1>2, <2>1, <2>2, <2>3, <2>4 DEF Forward
  <2>5. CASE \E e \in Errors : Throw(e)
    BY <2>1, <2>3, <2>5 DEF Thrown, Throw
  <2>6. CASE AskIfVariable
    <3>1. Program[at].op = "isVariable" /\ (Continue \/ SkipOn)
      BY <2>6 DEF AskIfVariable, Runs
    <3>2. CASE SkipOn
      <4>1. error' = error /\ failed' \subseteq failed \cup Unheeded
        BY <2>6, <3>1 DEF AskIfVariable, Continue, Failed, Unheeded
      <4> QED
        BY <2>1, <2>2, <2>3, <3>1, <3>2, <4>1, OnTheWay DEF SkipOn, Forward
    <3> QED
      BY <2>4, <3>1, <3>2
  <2>7. CASE FreeString
    <3>1. Program[at].op = "free" /\ SkipOn /\ error' = error /\ failed' = failed
      BY <2>7 DEF FreeString, Runs
    <3> QED
      BY <2>1, <2>2, <2>3, <3>1, OnTheWay DEF SkipOn, Forward
  <2>8. CASE AskWidth
    <3>1. at' = at + 1 /\ error' = error /\ failed' \subseteq failed \cup Unheeded
      BY <2>8 DEF AskWidth, Runs, Failed, Unheeded
    <3> QED
      BY <2>1, <2>2, <2>3, <3>1, OnTheWay DEF Forward
  <2>9. CASE ReadVariable \/ CopyString \/ ReadFixed \/ ReadTexts \/ Allocate
    BY <2>4, <2>5, <2>9 DEF ReadVariable, CopyString, ReadFixed, ReadTexts, Allocate, Errors
  <2>10. CASE HandOver \/ Assemble
    BY <2>4, <2>10 DEF HandOver, Assemble
  <2>11. CASE Validate
    <3>1. ValidatePackageMesh(mesh) # "valid" => ValidatePackageMesh(mesh) \in Errors
      BY DEF ValidatePackageMesh, Errors
    <3> QED
      BY <2>4, <2>5, <2>11, <3>1 DEF Validate
  <2> QED
    BY <1>5, <2>6, <2>7, <2>8, <2>9, <2>10, <2>11
<1> QED
  BY <1>3, <1>4, <1>5 DEF Next

-----------------------------------------------------------------------------
(* Every step keeps the invariant *)

\* Before the first step nothing is open and nothing has failed.
LEMMA InitIsInv == Init => IInv
<1> SUFFICES ASSUME Init PROVE IInv
  OBVIOUS
<1>1. last \in Nat /\ last > 4
  BY Shape
<1>2. objects \in Seq(Ids) /\ Len(objects) = 0 /\ DOMAIN objects = {}
  BY EmptySeq, LenProperties DEF Init
<1>3. Types
  <2>1. at \in 1..(last + 1) /\ issued \in Nat
    BY <1>1 DEF Init
  <2> QED
    BY <1>2, <2>1 DEF Init, Types
<1>4. Handles
  BY <1>2 DEF Init, Handles, Owned
<1>5. Position
  BY <1>1, <1>2, DepthAtStart DEF Init, Position, None
<1>6. FileFirst /\ FailureShows /\ StringPending /\ Doubted
  BY DEF Init, FileFirst, FailureShows, StringPending, Doubted
<1>7. Contents
  BY <1>1 DEF Init, Contents
<1> QED
  BY <1>3, <1>4, <1>5, <1>6, <1>7 DEF IInv

\* A step taken without an error is one of the program's, and the file is open
\* unless it is the first.
LEMMA Running ==
  ASSUME IInv, error = None, outcome = None
  PROVE  /\ at \in 1..last /\ at + 1 \in 1..(last + 1)
         /\ Len(objects) = Depth(at)
         /\ at # 1 => objects # <<>>
<1>1. at \in 1..last /\ Len(objects) = Depth(at)
  BY Shape DEF IInv, Types, Position
<1>2. ASSUME at # 1
      PROVE  objects # <<>>
  <2>1. at \in 2..last
    BY <1>1, <1>2, Shape
  <2>2. Len(objects) >= 1
    BY <1>1, <2>1, Shape
  <2> QED
    BY <2>2, EmptySeq
<1> QED
  BY <1>1, <1>2, Shape

\* Types, in every step.
LEMMA TypesStep ==
  ASSUME IInv, Next
  PROVE  Types'
<1>1. Types
  BY DEF IInv
<1>2. CASE OpenSucceeds
  <2>1. error = None /\ outcome = None
    BY <1>2 DEF OpenSucceeds, Runs
  <2>2. issued' \in Nat /\ objects' \in Seq(Ids)
    BY <1>1, <1>2, Pushed DEF OpenSucceeds, Types, Ids
  <2> QED
    BY <1>1, <1>2, <2>1, <2>2, Running DEF OpenSucceeds, Types, Continue
<1>3. CASE OpenFails
  <2>1. error = None /\ outcome = None
    BY <1>3 DEF OpenFails, Runs
  <2>2. objects' \in Seq(Ids)
    BY <1>1, <1>3, Pushed DEF OpenFails, Types, Ids
  <2> QED
    BY <1>1, <1>3, <2>1, <2>2, Running DEF OpenFails, Types
<1>4. CASE EndOfLife
  <2>1. error = None /\ outcome = None /\ Program[at].op = "close"
    BY <1>4 DEF EndOfLife, Runs
  <2>2. objects # <<>>
    BY <2>1, Running, Shape
  <2>3. objects' \in Seq(Ids)
    BY <1>1, <1>4, <2>2, Popped DEF EndOfLife, Types
  <2> QED
    BY <1>1, <1>4, <2>1, <2>3, Running DEF EndOfLife, Types, Continue
<1>5. CASE Unwind
  <2>1. objects' \in Seq(Ids)
    BY <1>1, <1>5, Popped DEF Unwind, Types
  <2> QED
    BY <1>1, <1>5, <2>1 DEF Unwind, Types
<1>6. CASE Escape
  BY <1>1, <1>6 DEF Escape, Types, handles
<1>7. CASE Forward
  <2>1. at' \in 1..(last + 1)
    BY <1>7, Running, Shape DEF Forward
  <2> QED
    BY <1>1, <1>7, <2>1 DEF Forward, Types
<1>8. CASE Thrown \/ Overrun
  BY <1>1, <1>8 DEF Thrown, Overrun, Types, handles
<1> QED
  BY <1>2, <1>3, <1>4, <1>5, <1>6, <1>7, <1>8, StepKinds

\* An object that is added holds a new id or none; one that is removed takes its id
\* along, and no other object holds it.
LEMMA HandlesStep ==
  ASSUME IInv, Next
  PROVE  Handles'
<1> DEFINE n == Len(objects)
<1>1. Types /\ Handles /\ n \in Nat /\ DOMAIN objects = 1..n
  BY LenProperties DEF IInv, Types
<1>2. CASE OpenSucceeds
  <2>1. /\ issued' = issued + 1 /\ objects' = Append(objects, issued') /\ open' = open \cup {issued'}
        /\ issued' \in Ids
    BY <1>1, <1>2 DEF OpenSucceeds, Types, Ids
  <2>2. /\ DOMAIN objects' = 1..(n + 1) /\ objects'[n + 1] = issued'
        /\ \A i \in 1..n : objects'[i] = objects[i]
    BY <1>1, <2>1, Pushed DEF Types
  <2> HIDE DEF n
  <2>3. \A i \in 1..(n + 1) : i \in 1..n \/ i = n + 1
    BY <1>1
  <2>4. 1..(n + 1) = 1..n \cup {n + 1}
    BY <1>1
  <2>5. \A i \in 1..n : objects[i] = Invalid \/ (objects[i] \in 1..issued' /\ objects[i] # issued')
    BY <1>1, <2>1 DEF Types, Handles
  <2>6. issued' \in 1..issued' /\ issued' # Invalid
    BY <1>1, <2>1 DEF Types, Invalid
  <2>7. open' = Owned'
    BY <1>1, <2>1, <2>2, <2>4, <2>6 DEF Handles, Owned
  <2>8. \A i, j \in 1..(n + 1) : objects'[i] = objects'[j] /\ i # j => objects'[i] = Invalid
    BY <1>1, <2>2, <2>3, <2>5 DEF Handles
  <2> QED
    BY <2>2, <2>3, <2>5, <2>6, <2>7, <2>8 DEF Handles
<1>3. CASE OpenFails
  <2>1. objects' = Append(objects, Invalid) /\ UNCHANGED <<open, issued>>
    BY <1>3 DEF OpenFails
  <2>2. /\ DOMAIN objects' = 1..(n + 1) /\ objects'[n + 1] = Invalid
        /\ \A i \in 1..n : objects'[i] = objects[i]
    BY <1>1, <2>1, Pushed DEF Types, Ids
  <2> HIDE DEF n
  <2>3. 1..(n + 1) = 1..n \cup {n + 1}
    BY <1>1
  <2>4. open' = Owned'
    BY <1>1, <2>1, <2>2, <2>3 DEF Handles, Owned
  <2> QED
    BY <1>1, <2>1, <2>2, <2>3, <2>4 DEF Handles
<1>4. CASE EndOfLife \/ Unwind
  <2>1. objects # <<>> /\ open' = Closed(Last(objects)) /\ objects' = Front(objects) /\ issued' = issued
    BY <1>4, Running, Shape DEF EndOfLife, Unwind, Runs
  <2>2. /\ n >= 1 /\ DOMAIN objects' = 1..(n - 1) /\ Last(objects) = objects[n]
        /\ \A i \in 1..(n - 1) : objects'[i] = objects[i]
    BY <1>1, <2>1, Popped DEF Types
  <2> HIDE DEF n
  <2>3. 1..n = 1..(n - 1) \cup {n} /\ n \notin 1..(n - 1)
    BY <1>1, <2>2
  <2>4. \A i \in 1..(n - 1) : objects[i] = objects[n] => objects[n] = Invalid
    BY <1>1, <2>3 DEF Handles
  <2>5. Owned' = Owned \ {objects[n]}
    BY <1>1, <2>2, <2>3, <2>4 DEF Owned
  <2>6. open' = Owned'
    BY <1>1, <2>1, <2>2, <2>5 DEF Handles, Closed, Owned
  <2> QED
    BY <1>1, <2>1, <2>2, <2>3, <2>6 DEF Handles
<1>5. CASE Overrun \/ Escape \/ Forward \/ Thrown
  BY <1>1, <1>5 DEF Overrun, Escape, Forward, Thrown, Handles, Owned, handles
<1> QED
  BY <1>2, <1>3, <1>4, <1>5, StepKinds

\* Every step keeps count of the handles that are alive.
LEMMA PositionStep ==
  ASSUME IInv, Next
  PROVE  Position'
<1>1. Types /\ Position
  BY DEF IInv
<1>2. CASE OpenSucceeds \/ OpenFails
  <2>1. /\ error = None /\ outcome = None /\ Program[at].op = "open"
        /\ at' = at + 1 /\ error' = None /\ outcome' = None
    BY <1>1, <1>2 DEF OpenSucceeds, OpenFails, Runs, Continue
  <2>2. Len(objects') = Len(objects) + 1
    BY <1>1, <1>2, Pushed DEF OpenSucceeds, OpenFails, Types, Ids
  <2>3. at' <= last
    BY <2>1, Running, Shape
  <2> QED
    BY <2>1, <2>2, <2>3, Running, DepthAfter DEF Position
<1>3. CASE EndOfLife
  <2>1. /\ error = None /\ outcome = None /\ Program[at].op = "close" /\ error' = None
        /\ at' = at + 1 /\ objects' = Front(objects)
        /\ outcome' = IF at = last THEN "mesh" ELSE None
    BY <1>3 DEF EndOfLife, Runs, Continue, last
  <2>2. objects # <<>> /\ at \in 1..last /\ Len(objects) = Depth(at)
    BY <2>1, Running, Shape
  <2>3. Len(objects') = Len(objects) - 1
    BY <1>1, <2>1, <2>2, Popped DEF Types
  <2>4. Len(objects') = Depth(at')
    BY <2>1, <2>2, <2>3, DepthAfter
  <2>5. at = last => at' = last + 1
    BY <2>1
  <2>6. at # last => at' <= last
    BY <2>1, <2>2, Shape
  <2> QED
    BY <2>1, <2>4, <2>5, <2>6 DEF Position, None
<1>4. CASE Forward
  <2>1. at' <= last /\ Len(objects') = Depth(at')
    BY <1>4, Running, Shape DEF Forward
  <2> QED
    BY <1>4, <2>1 DEF Forward, Position
<1>5. CASE Overrun
  <2>1. error = None /\ outcome = None /\ Program[at].op = "readFixed"
    BY <1>5 DEF Overrun, Runs
  <2>2. at <= last
    BY <2>1, Running, Shape
  <2> QED
    BY <1>5, <2>1, <2>2 DEF Overrun, Position, None
<1>6. CASE Thrown \/ Unwind \/ Escape
  BY <1>1, <1>6 DEF Thrown, Unwind, Escape, Position, Errors, None, handles
<1> QED
  BY <1>2, <1>3, <1>4, <1>5, <1>6, StepKinds

\* The first step opens the file, and no other step begins without it.
LEMMA FileFirstStep ==
  ASSUME IInv, Next
  PROVE  FileFirst'
<1>1. Types /\ FileFirst /\ Len(objects) \in Nat
  BY LenProperties DEF IInv, Types
<1>2. CASE OpenSucceeds
  <2>1. /\ error = None /\ outcome = None /\ Program[at].op = "open" /\ at' = at + 1
        /\ issued' = issued + 1 /\ objects' = Append(objects, issued')
    BY <1>2 DEF OpenSucceeds, Runs, Continue
  <2>2. at # 2
    BY <2>1, Shape
  <2>3. CASE objects = <<>>
    <3>1. issued' = 1 /\ Len(objects) = 0
      BY <1>1, <2>1, <2>3, Running, EmptySeq DEF FileFirst
    <3>2. objects'[1] = 1
      BY <1>1, <2>1, <3>1, Pushed DEF Types, Ids
    <3> QED
      BY <1>1, <2>1, <3>2 DEF FileFirst, Types
  <2>4. CASE objects # <<>>
    <3>1. objects[1] = 1 /\ 1 \in 1..Len(objects)
      BY <1>1, <2>1, <2>2, <2>4, EmptySeq DEF FileFirst, Types
    <3>2. objects'[1] = objects[1]
      BY <1>1, <2>1, <3>1, Pushed DEF Types, Ids
    <3> QED
      BY <1>1, <2>1, <3>1, <3>2 DEF FileFirst, Types
  <2> QED
    BY <2>3, <2>4
<1>3. CASE OpenFails
  <2>1. /\ error = None /\ outcome = None /\ Program[at].op = "open" /\ at' = at + 1
        /\ issued' = issued /\ objects' = Append(objects, Invalid)
    BY <1>3 DEF OpenFails, Runs
  <2>2. at # 2
    BY <2>1, Shape
  <2>3. CASE objects = <<>>
    <3>1. at' = 2 /\ Len(objects) = 0
      BY <1>1, <2>1, <2>3, Running, EmptySeq
    <3>2. objects'[1] = Invalid /\ Len(objects') = 1
      BY <1>1, <2>1, <3>1, Pushed DEF Types, Ids
    <3> QED
      BY <3>1, <3>2 DEF FileFirst
  <2>4. CASE objects # <<>>
    <3>1. objects[1] = 1 /\ 1 \in 1..Len(objects)
      BY <1>1, <2>1, <2>2, <2>4, EmptySeq DEF FileFirst, Types
    <3>2. objects'[1] = objects[1]
      BY <1>1, <2>1, <3>1, Pushed DEF Types, Ids
    <3> QED
      BY <1>1, <2>1, <3>1, <3>2 DEF FileFirst, Types
  <2> QED
    BY <2>3, <2>4
<1>4. CASE EndOfLife \/ Unwind
  <2>1. /\ objects # <<>> /\ objects' = Front(objects) /\ issued' = issued
        /\ at' = at + 1 \/ (at' = at /\ error' = error /\ error # None)
    BY <1>4, Running, Shape DEF EndOfLife, Unwind, Runs, Continue
  <2>2. /\ objects' \in Seq(Ids) /\ Len(objects') = Len(objects) - 1
        /\ \A i \in 1..(Len(objects) - 1) : objects'[i] = objects[i]
    BY <1>1, <2>1, Popped DEF Types
  <2>3. objects' # <<>> => Len(objects) # 1 /\ objects'[1] = objects[1]
    BY <1>1, <2>2, EmptySeq
  <2>4. at' = 1 => issued' = 0
    BY <1>1, <2>1 DEF FileFirst, Types
  <2>5. ASSUME objects' # <<>>
        PROVE  objects'[1] = 1
    <3>1. Len(objects) # 1 /\ objects'[1] = objects[1]
      BY <2>3, <2>5
    <3>2. objects # <<>>
      BY <2>1
    <3> QED
      BY <1>1, <3>1, <3>2 DEF FileFirst
  <2> QED
    BY <2>4, <2>5 DEF FileFirst
<1>5. CASE Forward /\ at \in 1..last
  <2>1. at' \in (at + 1)..last /\ objects' = objects /\ issued' = issued /\ error = None /\ outcome = None
    BY <1>5 DEF Forward
  <2>2. ~(Len(objects) = 1 /\ objects[1] = Invalid /\ at = 2)
    <3> SUFFICES ASSUME Len(objects) = 1, objects[1] = Invalid, at = 2 PROVE FALSE
      OBVIOUS
    <3>0. at = 2
      OBVIOUS
    <3>1. CheckHandles
      <4>1. error = None /\ Program[at].op = "check"
        BY <1>5, <3>0, Shape DEF Forward
      <4> QED
        BY <4>1 DEF Next, OpenSucceeds, OpenFails, AskLibrary, AskIfVariable, ReadVariable, CopyString,
             FreeString, AskWidth, ReadFixed, Overrun, ReadTexts, Allocate, HandOver, Assemble, Validate,
             EndOfLife, Unwind, Escape, Runs
    <3>2. Program[at].arg \in Nat /\ Program[at].arg >= 1
      <4>1. at \in 1..last /\ Program[at].op = "check"
        BY <1>5, Shape
      <4> QED
        BY <4>1, Shape
    <3>3. 0 \in 0..(Program[at].arg - 1) /\ Len(objects) - 0 = 1
      BY <3>2
    <3>4. ~AreValid(Program[at].arg)
      BY <3>3 DEF AreValid
    <3> QED
      BY <1>1, <3>1, <3>4, <2>1 DEF CheckHandles, Throw, Types
  <2>3. objects # <<>> => objects[1] = 1
    BY <1>1, <2>1, <2>2 DEF FileFirst
  <2> QED
    BY <1>1, <2>1, <2>3 DEF FileFirst, Types
<1>6. CASE Overrun \/ Thrown \/ Escape
  BY <1>1, <1>6 DEF Overrun, Thrown, Escape, FileFirst, Errors, None, handles
<1> QED
  BY <1>2, <1>3, <1>4, <1>5, <1>6, StepKinds

\* What has failed is found out one step later, or thrown over at once.
LEMMA FailureShowsStep ==
  ASSUME IInv, Next
  PROVE  FailureShows'
<1>1. Types /\ FailureShows
  BY DEF IInv
<1>2. ASSUME error = None, outcome = None, Program[at].op = "open", at' = at + 1,
             NEW id \in Ids, objects' = Append(objects, id)
      PROVE  /\ objects' # <<>> /\ objects'[Len(objects')] = id
             /\ at' <= last /\ Program[at'].op \in {"open", "query", "check"}
  <2>1. Append(objects, id) # <<>> /\ Append(objects, id)[Len(Append(objects, id))] = id
    BY <1>1, Pushed DEF Types
  <2>2. at \in 1..last /\ at < last /\ Program[at + 1].op \in {"open", "query", "check"}
    BY <1>2, Running, Shape
  <2>3. at + 1 <= last
    BY <2>2, Shape
  <2> QED
    BY <1>2, <2>1, <2>2, <2>3
<1>3. CASE OpenSucceeds
  <2>1. /\ error = None /\ outcome = None /\ Program[at].op = "open"
        /\ failed' = failed
        /\ objects # <<>> => Last(objects) \in open
    BY <1>3 DEF OpenSucceeds, Runs, Continue, IsOpen
  <2>2. Invalid \notin open
    BY DEF IInv, Handles, Owned
  <2>3. failed' \subseteq Unheeded
    BY <1>1, <2>1, <2>2 DEF FailureShows, Last
  <2> QED
    BY <2>3 DEF FailureShows
<1>4. CASE OpenFails
  BY <1>2, <1>4 DEF OpenFails, FailureShows, Runs, Ids
<1>5. CASE EndOfLife \/ Overrun
  BY <1>1, <1>5 DEF EndOfLife, Overrun, Runs, Continue, FailureShows
<1>6. CASE Forward /\ (objects # <<>> /\ ~(failed \subseteq Unheeded) => objects[Len(objects)] # Invalid)
  BY <1>1, <1>6 DEF Forward, FailureShows
<1>7. CASE Thrown \/ Unwind \/ Escape
  BY <1>7 DEF Thrown, Unwind, Escape, FailureShows, Errors, None
<1> QED
  BY <1>3, <1>4, <1>5, <1>6, <1>7, StepKinds

\* A string waits to be freed for two steps, of which one may run out of memory.
LEMMA StringPendingStep ==
  ASSUME IInv, Next
  PROVE  StringPending'
<1>1. StringPending
  BY DEF IInv
<1>2. ASSUME error = None, "readVariable" \in raw
      PROVE  \E n \in 1..last :
               /\ Program[n].op = "readVariable" /\ n \in Nat
               /\ \/ at = n + 1 /\ Program[at].op = "copy"
                  \/ at = n + 2 /\ Program[at].op = "free"
  <2>1. PICK n \in 1..last : Program[n].op = "readVariable" /\ at \in {n + 1, n + 2}
    BY <1>1, <1>2 DEF StringPending, None
  <2> QED
    BY <2>1, StringShape
<1>3. CASE ReadVariable
  <2>1. error = None /\ outcome = None /\ Program[at].op = "readVariable"
    BY <1>3 DEF ReadVariable, Runs
  <2>2. at \in 1..last /\ "readVariable" \notin raw
    BY <1>2, <2>1, Running
  <2>3. CASE Continue
    BY <2>1, <2>2, <2>3 DEF StringPending, Continue
  <2>4. CASE raw' = raw
    BY <2>2, <2>4 DEF StringPending
  <2> QED
    BY <1>3, <2>3, <2>4 DEF ReadVariable
<1>4. CASE CopyString
  <2>1. error = None /\ raw' = raw /\ Program[at].op = "copy"
    BY <1>4 DEF CopyString, Runs, strings
  <2>2. CASE Continue /\ "readVariable" \in raw
    <3>1. PICK n \in 1..last : Program[n].op = "readVariable" /\ n \in Nat /\ at = n + 1
      BY <1>2, <2>1, <2>2
    <3>2. error' = None /\ at' = n + 2
      BY <2>1, <2>2, <3>1 DEF Continue
    <3> QED
      BY <3>1, <3>2 DEF StringPending
  <2>3. CASE Throw("std::bad_alloc")
    BY <2>1, <2>3 DEF StringPending, Throw
  <2>4. CASE "readVariable" \notin raw
    BY <2>1, <2>4 DEF StringPending
  <2> QED
    BY <1>4, <2>2, <2>3, <2>4 DEF CopyString
<1>5. CASE FreeString
  BY <1>5 DEF FreeString, Freed, StringPending
<1>6. CASE error = None /\ Program[at].op \notin {"copy", "free"} /\ ("readVariable" \in raw' => "readVariable" \in raw)
  BY <1>2, <1>6 DEF StringPending
<1>7. CASE Unwind \/ Escape
  BY <1>1, <1>7 DEF Unwind, Escape, StringPending, strings
<1>8. CASE \/ OpenSucceeds \/ OpenFails \/ CheckHandles \/ AskLibrary \/ AskIfVariable \/ AskWidth \/ ReadFixed
           \/ Overrun \/ ReadTexts \/ Allocate \/ HandOver \/ Assemble \/ Validate \/ EndOfLife
  <2>1. error = None /\ Program[at].op \notin {"copy", "free"}
    BY <1>8 DEF OpenSucceeds, OpenFails, CheckHandles, AskLibrary, AskIfVariable, AskWidth, ReadFixed, Overrun,
                ReadTexts, Allocate, HandOver, Assemble, Validate, EndOfLife, Runs
  <2>2. "readVariable" \in raw' => "readVariable" \in raw
    BY <1>8 DEF OpenSucceeds, OpenFails, CheckHandles, AskLibrary, AskIfVariable, AskWidth, ReadFixed, Overrun,
                ReadTexts, Allocate, HandOver, Assemble, Validate, EndOfLife, strings
  <2> QED
    BY <1>6, <2>1, <2>2
<1> QED
  BY <1>3, <1>4, <1>5, <1>7, <1>8 DEF Next

\* What is doubted has failed, and no failure is forgotten.
LEMMA DoubtedStep ==
  ASSUME IInv, Next
  PROVE  Doubted'
<1>1. Doubted
  BY DEF IInv
<1>2. failed \subseteq failed'
  BY DEF Next, OpenSucceeds, OpenFails, CheckHandles, AskLibrary, AskIfVariable, ReadVariable, CopyString, FreeString,
         AskWidth, ReadFixed, Overrun, ReadTexts, Allocate, HandOver, Assemble, Validate, EndOfLife, Unwind, Escape,
         Continue, Throw, Failed
<1>3. CASE AskIfVariable
  <2>1. doubt' \subseteq failed' /\ raw' = raw
    BY <1>1, <1>2, <1>3 DEF AskIfVariable, Runs, Failed, Doubted
  <2> QED
    BY <1>1, <1>2, <2>1 DEF Doubted
<1>4. CASE AskWidth
  <2>1. doubt' \subseteq failed' /\ raw' = raw
    BY <1>1, <1>2, <1>4 DEF AskWidth, Runs, Failed, Doubted
  <2> QED
    BY <1>1, <1>2, <2>1 DEF Doubted
<1>5. CASE ReadFixed
  <2>1. doubt' \subseteq doubt /\ ("readFixed" \in raw' => "readFixed" \in raw \/ "isVariable" \in doubt)
    BY <1>5 DEF ReadFixed, strings
  <2> QED
    BY <1>1, <1>2, <2>1 DEF Doubted
<1>6. CASE ~(AskIfVariable \/ AskWidth \/ ReadFixed)
  <2>1. doubt' = doubt /\ ("readFixed" \in raw' => "readFixed" \in raw)
    BY <1>6 DEF Next, OpenSucceeds, OpenFails, CheckHandles, AskLibrary, ReadVariable, CopyString, FreeString, Freed,
                Overrun, ReadTexts, Allocate, HandOver, Assemble, Validate, EndOfLife, Unwind, Escape, strings
  <2> QED
    BY <1>1, <1>2, <2>1 DEF Doubted
<1> QED
  BY <1>3, <1>4, <1>5, <1>6

\* Only the last steps know a mesh, and only a valid one reaches the very last.
LEMMA ContentsStep ==
  ASSUME IInv, Next
  PROVE  Contents'
<1>1. Types /\ Contents /\ last \in Nat /\ at \in Nat
  BY Shape DEF IInv, Types
<1>2. CASE Assemble
  <2>1. error = None /\ outcome = None /\ Program[at].op = "assemble" /\ at' = at + 1 /\ error' = None
    BY <1>2 DEF Assemble, Runs, Continue
  <2>2. at = last - 2
    BY <2>1, Running, Shape
  <2>3. IsRead'
    BY <1>2 DEF Assemble, IsRead, strings
  <2> QED
    BY <1>1, <2>1, <2>2, <2>3 DEF Contents
<1>3. CASE Validate
  <2>1. error = None /\ outcome = None /\ Program[at].op = "validate" /\ UNCHANGED <<contents, garbled>>
    BY <1>3 DEF Validate, Runs, strings
  <2>2. at = last - 1
    BY <2>1, Running, Shape
  <2>3. UNCHANGED <<IsRead, ValidatePackageMesh(mesh)>> /\ IsRead
    BY <1>1, <2>1, <2>2 DEF contents, IsRead, Contents
  <2>4. CASE ValidatePackageMesh(mesh) = "valid"
    <3>1. at' = last /\ error' = None
      BY <1>1, <1>3, <2>1, <2>2, <2>4 DEF Validate, Continue
    <3> QED
      BY <1>1, <2>3, <2>4, <3>1 DEF Contents
  <2>5. CASE ValidatePackageMesh(mesh) # "valid"
    <3>1. at' = at /\ error' = ValidatePackageMesh(mesh)
      BY <1>3, <2>5 DEF Validate, Throw
    <3>2. error' # None
      BY <3>1 DEF ValidatePackageMesh, None
    <3> QED
      BY <1>1, <2>2, <2>3, <2>5, <3>1, <3>2 DEF Contents
  <2> QED
    BY <2>4, <2>5
<1>4. CASE EndOfLife
  <2>1. error = None /\ at' = at + 1 /\ error' = None /\ UNCHANGED <<contents, garbled>>
        /\ outcome = None /\ Program[at].op = "close"
    BY <1>4 DEF EndOfLife, Runs, Continue, strings
  <2>2. UNCHANGED <<package, IsRead, ValidatePackageMesh(mesh)>>
    BY <2>1 DEF contents, IsRead
  <2>3. at \in 1..last /\ at # last - 2 /\ at # last - 1
    BY <2>1, Running, Shape
  <2> QED
    BY <1>1, <2>1, <2>2, <2>3 DEF Contents
<1>5. ASSUME error = None, outcome = None, UNCHANGED contents,
             Program[at].op \notin {"assemble", "validate", "close"},
             at' <= at + 1 \/ at' < last - 2, at' \in Nat
      PROVE  Contents'
  <2>1. at \in 1..last /\ at # last - 2 /\ at # last - 1 /\ at # last
    BY <1>5, Running, Shape
  <2>2. at < last - 2 /\ at' < last - 1
    BY <1>1, <1>5, <2>1
  <2> QED
    BY <1>1, <1>5, <2>2 DEF Contents, contents
<1>6. CASE AskIfVariable \/ FreeString
  <2>1. error = None /\ outcome = None /\ Program[at].op \in {"isVariable", "free"} /\ UNCHANGED contents
    BY <1>6 DEF AskIfVariable, FreeString, Runs
  <2>2. at' = at + 1 \/ at' = at + Program[at].arg
    BY <1>6 DEF AskIfVariable, FreeString, Continue, SkipOn
  <2>3. at \in 1..last
    BY <2>1, Running
  <2>4. at' \in Nat /\ (at' <= at + 1 \/ at' < last - 2)
    BY <1>1, <2>1, <2>2, <2>3, SkipShape
  <2> QED
    BY <1>5, <2>1, <2>4
<1>7. CASE \/ OpenSucceeds \/ OpenFails \/ CheckHandles \/ AskLibrary \/ ReadVariable \/ CopyString \/ AskWidth
           \/ ReadFixed \/ Overrun \/ ReadTexts \/ Allocate \/ HandOver
  <2>1. /\ error = None /\ outcome = None /\ UNCHANGED contents
        /\ Program[at].op \notin {"assemble", "validate", "close"}
    BY <1>7 DEF OpenSucceeds, OpenFails, CheckHandles, AskLibrary, ReadVariable, CopyString, AskWidth, ReadFixed,
                Overrun, ReadTexts, Allocate, HandOver, Runs
  <2>2. at' = at + 1 \/ at' = at
    BY <1>7 DEF OpenSucceeds, OpenFails, CheckHandles, AskLibrary, ReadVariable, CopyString, AskWidth, ReadFixed,
                Overrun, ReadTexts, Allocate, HandOver, Continue, Throw
  <2>3. at' \in Nat /\ at' <= at + 1
    BY <1>1, <2>2
  <2> QED
    BY <1>5, <2>1, <2>3
<1>8. CASE Unwind \/ Escape
  BY <1>1, <1>8 DEF Unwind, Escape, Contents, IsRead, contents, strings
<1> QED
  BY <1>2, <1>3, <1>4, <1>6, <1>7, <1>8 DEF Next

\* The invariant holds in every reachable state.
LEMMA AlwaysInv == Spec => []IInv
<1>1. ASSUME IInv, Next
      PROVE  IInv'
  BY <1>1, TypesStep, HandlesStep, PositionStep, FileFirstStep, FailureShowsStep, StringPendingStep,
     DoubtedStep, ContentsStep DEF IInv
<1>2. ASSUME IInv, UNCHANGED vars
      PROVE  IInv'
  BY <1>2 DEF vars, handles, strings, contents, IInv, Types, Handles, Owned, Position, FileFirst, FailureShows,
              StringPending, Doubted, Contents, IsRead
<1>3. IInv /\ [Next]_vars => IInv'
  BY <1>1, <1>2
<1> QED
  BY InitIsInv, <1>3, PTL DEF Spec

-----------------------------------------------------------------------------
(* What the reader leaves behind *)

\* Whatever fails, and wherever, every handle that is open is owned by exactly one
\* Hdf5Object: none leaks and none is closed twice (class Hdf5Object).
THEOREM HandlesAreAlwaysOwned == Spec => []HandlesAreOwned
<1>1. IInv => HandlesAreOwned
  BY DEF IInv, Handles, HandlesAreOwned
<1> QED
  BY <1>1, AlwaysInv, PTL

\* The file is closed after everything that was opened in it, on every path through
\* ReadVoronoiMeshPackage and out of it.
THEOREM FileAlwaysOutlivesItsParts == Spec => []FileOutlivesItsParts
<1>1. ASSUME IInv
      PROVE  FileOutlivesItsParts
  <2> SUFFICES ASSUME open # {} PROVE 1 \in open
    BY DEF FileOutlivesItsParts
  <2>1. DOMAIN objects = 1..Len(objects) /\ Len(objects) \in Nat
    BY <1>1, LenProperties DEF IInv, Types
  <2>2. PICK i \in 1..Len(objects) : objects[i] # Invalid
    BY <1>1, <2>1 DEF IInv, Handles, Owned
  <2>3. objects # <<>> /\ 1 \in DOMAIN objects
    BY <2>1, <2>2, EmptySeq
  <2>4. objects[1] = 1
    BY <1>1, <2>2, <2>3 DEF IInv, FileFirst
  <2> QED
    BY <1>1, <2>3, <2>4 DEF IInv, Handles, Owned, Invalid
<1> QED
  BY <1>1, AlwaysInv, PTL

\* Wherever the reader ends, the string that H5Aread has allocated has been freed,
\* unless the copy of it found no memory or H5Tis_variable_str failed on it
\* (ReadStringAttribute).
THEOREM StringsAreAlwaysFreed == Spec => []StringsAreFreed
<1>1. ASSUME IInv
      PROVE  StringsAreFreed
  <2>1. ASSUME outcome # None, "readVariable" \in raw
        PROVE  outcome = "std::bad_alloc" /\ Program[at].op = "copy"
    <3>1. CASE error = None
      <4>1. PICK n \in 1..last : Program[n].op = "readVariable" /\ at \in {n + 1, n + 2}
        BY <1>1, <2>1, <3>1 DEF IInv, StringPending, None
      <4>2. n \in Nat /\ n + 1 < last /\ Program[n + 1].op = "copy" /\ Program[n + 2].op = "free"
        BY <4>1, StringShape
      <4>3. last \in Nat
        BY Shape
      <4>4. at # last + 1
        BY <4>1, <4>2, <4>3
      <4>5. Program[at].op \in {"copy", "free"}
        BY <4>1, <4>2
      <4>6. Program[at].op # "readFixed"
        BY <4>5
      <4> QED
        BY <1>1, <2>1, <3>1, <4>4, <4>6 DEF IInv, Position
    <3>2. CASE error # None
      BY <1>1, <2>1, <3>2 DEF IInv, Position, StringPending
    <3> QED
      BY <3>1, <3>2
  <2>2. "readFixed" \in raw => "isVariable" \in failed
    BY <1>1 DEF IInv, Doubted
  <2> QED
    BY <2>1, <2>2 DEF StringsAreFreed
<1> QED
  BY <1>1, AlwaysInv, PTL

-----------------------------------------------------------------------------
(* What an accepted mesh is like *)

\* Narrowing keeps the ids that an IndexValue can hold, and no id is too large for
\* it: the first that does not fit becomes negative.
LEMMA Narrowing ==
  /\ \A v \in Int : Narrow(v) \in (-IndexLimit)..(IndexLimit - 1)
  /\ \A v \in Int : -IndexLimit <= v /\ v < IndexLimit => Narrow(v) = v
  /\ Narrow(IndexLimit) < 0
<1>1. IndexLimit \in Nat /\ IndexLimit > 0
  BY WidthAssumption
<1> QED
  BY <1>1 DEF Narrow

\* The elements and the length of a sequence, for SMT.
LEMMA Elements ==
  ASSUME NEW S, NEW s \in Seq(S)
  PROVE  Len(s) \in Nat /\ DOMAIN s = 1..Len(s) /\ \A i \in DOMAIN s : s[i] \in S
BY LenProperties, ElementOfSeq

\* A sequence of records stays one, of the same length, when their ids are narrowed.
LEMMA NarrowedTypes ==
  /\ \A s \in Seq(CellRecord) : LET t == [i \in DOMAIN s |-> NarrowId(s[i])]
                                IN  t \in Seq(CellRecord) /\ Len(t) = Len(s)
  /\ \A s \in Seq(NodeRecord) : LET t == [i \in DOMAIN s |-> NarrowId(s[i])]
                                IN  t \in Seq(NodeRecord) /\ Len(t) = Len(s)
  /\ \A s \in Seq(FaceRecord) : LET t == [i \in DOMAIN s |-> NarrowFace(s[i])]
                                IN  t \in Seq(FaceRecord) /\ Len(t) = Len(s)
<1>1. \A v \in Int : Narrow(v) \in Int
  BY Narrowing
<1>2. ASSUME NEW s \in Seq(CellRecord)
      PROVE  LET t == [i \in DOMAIN s |-> NarrowId(s[i])] IN t \in Seq(CellRecord) /\ Len(t) = Len(s)
  <2>1. \A x \in CellRecord : NarrowId(x) \in CellRecord
    BY <1>1 DEF NarrowId, CellRecord
  <2> QED
    BY <2>1, Elements
<1>3. ASSUME NEW s \in Seq(NodeRecord)
      PROVE  LET t == [i \in DOMAIN s |-> NarrowId(s[i])] IN t \in Seq(NodeRecord) /\ Len(t) = Len(s)
  <2>1. \A x \in NodeRecord : NarrowId(x) \in NodeRecord
    BY <1>1 DEF NarrowId, NodeRecord
  <2> QED
    BY <2>1, Elements
<1>4. ASSUME NEW s \in Seq(FaceRecord)
      PROVE  LET t == [i \in DOMAIN s |-> NarrowFace(s[i])] IN t \in Seq(FaceRecord) /\ Len(t) = Len(s)
  <2>1. \A x \in FaceRecord : NarrowFace(x) \in FaceRecord
    BY <1>1 DEF NarrowFace, FaceRecord
  <2> QED
    BY <2>1, Elements
<1> QED
  BY <1>2, <1>3, <1>4

\* The mesh has the sequences of its package, with the ids narrowed.
LEMMA MeshTypes ==
  ASSUME NEW p \in Packages, NEW misread, NEW m, m = MeshOf(p, misread)
  PROVE  /\ m.cells \in Seq(CellRecord) /\ Len(m.cells) = Len(p.cells)
         /\ m.nodes \in Seq(NodeRecord) /\ Len(m.nodes) = Len(p.nodes)
         /\ m.faces \in Seq(FaceRecord) /\ Len(m.faces) = Len(p.faces)
<1>1. p.nodes \in Seq(NodeRecord) /\ p.cells \in Seq(CellRecord) /\ p.faces \in Seq(FaceRecord)
  BY PackagesAssumption
<1>2. /\ m.cells = [i \in DOMAIN p.cells |-> NarrowId(p.cells[i])]
      /\ m.nodes = [i \in DOMAIN p.nodes |-> NarrowId(p.nodes[i])]
      /\ m.faces = [i \in DOMAIN p.faces |-> NarrowFace(p.faces[i])]
  BY DEF MeshOf
<1> QED
  BY <1>1, <1>2, NarrowedTypes, Zenon

\* A mesh that passed the validation has no more cells than there are ids for, its
\* cells are numbered by position, and its faces lie between them.
LEMMA ValidMesh ==
  ASSUME NEW m, m.cells \in Seq(CellRecord), m.faces \in Seq(FaceRecord), ValidatePackageMesh(m) = "valid"
  PROVE  /\ Narrow(Len(m.cells)) = Len(m.cells)
         /\ \A c \in 0..(Len(m.cells) - 1) : m.cells[c + 1].id = c
         /\ \A i \in DOMAIN m.faces :
              /\ m.faces[i].owner \in 0..(Len(m.cells) - 1)
              /\ IF m.faces[i].neighbour < 0 THEN BoundaryIsSound(m, m.faces[i])
                 ELSE m.faces[i].neighbour \in 0..(Len(m.cells) - 1) /\ m.faces[i].patch < 0
<1> DEFINE n == Len(m.cells)
<1>1. /\ n \in Nat /\ DOMAIN m.cells = 1..n /\ IndexLimit \in Nat
      /\ m.faces \in Seq(FaceRecord) /\ Len(m.faces) \in Nat /\ DOMAIN m.faces = 1..Len(m.faces)
  BY Elements, WidthAssumption
<1>2. NothingIsEmpty(m) /\ CellsAreSound(m) /\ FacesAreSound(m) /\ IsValidMesh(m)
  BY DEF ValidatePackageMesh
<1>3. ASSUME NEW i \in DOMAIN m.faces
      PROVE  m.faces[i].owner \in Int /\ m.faces[i].neighbour \in Int /\ m.faces[i].patch \in Int
  <2>1. m.faces[i] \in FaceRecord
    BY <1>1, Elements
  <2> QED
    BY <2>1 DEF FaceRecord
<1>4. \A i \in 1..n : m.cells[i].id = Narrow(i - 1) /\ m.cells[i].id >= 0
  BY <1>1, <1>2 DEF CellsAreSound, IsValidMesh, IsValidIndex
<1>5. n <= IndexLimit
  <2> SUFFICES ASSUME n > IndexLimit PROVE FALSE
    BY <1>1
  <2> HIDE DEF n
  <2>1. IndexLimit + 1 \in 1..n /\ (IndexLimit + 1) - 1 = IndexLimit
    BY <1>1
  <2>2. Narrow(IndexLimit) >= 0
    BY <1>4, <2>1
  <2>3. IndexLimit \in Int /\ Narrow(IndexLimit) \in Int
    BY <1>1, Narrowing
  <2> QED
    BY <2>2, <2>3, Narrowing
<1>6. \A i \in DOMAIN m.faces : m.faces[i].owner >= 0 /\ m.faces[i].owner < Narrow(n)
  BY <1>2 DEF FacesAreSound, FaceIsSound, OwnerIsInRange
<1>7. n # IndexLimit
  <2> SUFFICES ASSUME n = IndexLimit PROVE FALSE
    OBVIOUS
  <2>1. m.faces # <<>>
    BY <1>2 DEF NothingIsEmpty
  <2>2. 1 \in DOMAIN m.faces
    BY <1>1, <2>1, EmptySeq
  <2>3. m.faces[1].owner >= 0 /\ m.faces[1].owner < Narrow(IndexLimit) /\ m.faces[1].owner \in Int
    BY <1>3, <1>6, <2>2
  <2>4. Narrow(IndexLimit) \in Int
    BY <1>1, Narrowing
  <2>5. \A o \in Int : ~(o >= 0 /\ o < Narrow(IndexLimit))
    BY <2>4, Narrowing
  <2> QED
    BY <2>3, <2>5
<1> HIDE DEF n
<1>8. Narrow(n) = n
  <2>1. n \in Int /\ -IndexLimit <= n /\ n < IndexLimit
    BY <1>1, <1>5, <1>7
  <2> QED
    BY <2>1, Narrowing
<1>9. \A c \in 0..(n - 1) : m.cells[c + 1].id = c
  <2> TAKE c \in 0..(n - 1)
  <2>1. c + 1 \in 1..n /\ (c + 1) - 1 = c /\ c \in Int /\ -IndexLimit <= c /\ c < IndexLimit
    BY <1>1, <1>5
  <2>2. m.cells[c + 1].id = Narrow(c)
    BY <1>4, <2>1
  <2> QED
    BY <2>1, <2>2, Narrowing
<1>10. ASSUME NEW i \in DOMAIN m.faces
       PROVE  /\ m.faces[i].owner \in 0..(n - 1)
              /\ IF m.faces[i].neighbour < 0 THEN BoundaryIsSound(m, m.faces[i])
                 ELSE m.faces[i].neighbour \in 0..(n - 1) /\ m.faces[i].patch < 0
  <2>1. m.faces[i].owner \in 0..(n - 1)
    BY <1>1, <1>3, <1>6, <1>8
  <2>2. FaceIsSound(m, m.faces[i])
    BY <1>2 DEF FacesAreSound
  <2>3. CASE m.faces[i].neighbour < 0
    BY <1>3, <2>1, <2>2, <2>3 DEF FaceIsSound, IsBoundaryFace, IsValidIndex
  <2>4. CASE ~(m.faces[i].neighbour < 0)
    <3>1. m.faces[i].neighbour >= 0
      BY <1>3, <2>4
    <3>2. m.faces[i].neighbour < Narrow(n) /\ m.faces[i].patch < 0
      BY <2>2, <3>1 DEF FaceIsSound, IsBoundaryFace, IsValidIndex, InteriorIsSound, n
    <3> QED
      BY <1>1, <1>3, <1>8, <2>1, <2>4, <3>1, <3>2
  <2> QED
    BY <2>3, <2>4
<1> QED
  BY <1>8, <1>9, <1>10 DEF n

\* What is returned is the mesh of a package, and it was validated.
LEMMA AcceptedIsValid ==
  ASSUME IInv, Accepted
  PROVE  package \in Packages /\ mesh = MeshOf(package, garbled) /\ ValidatePackageMesh(mesh) = "valid"
<1>1. error = None
  BY DEF IInv, Types, Position, Accepted, Errors, None
<1>2. at = last + 1
  BY <1>1 DEF IInv, Position, Accepted, None
<1>3. at >= last - 1 /\ at >= last
  BY <1>2, Shape
<1> QED
  BY <1>1, <1>3 DEF IInv, Contents, IsRead

\* No failure is overlooked but those of the calls about the type of a string:
\* although ReadIntAttribute and others use a handle without having looked at it, a
\* mesh is never returned after any other call has failed, and no header that was
\* misread passes for a supported one.
THEOREM AMeshMeansNothingElseFailed == Spec => []MeshMeansNothingFailed
<1>1. ASSUME IInv
      PROVE  MeshMeansNothingFailed
  <2> SUFFICES ASSUME outcome = "mesh" PROVE failed \subseteq Unheeded /\ HeaderIsSupported(package)
    BY DEF MeshMeansNothingFailed
  <2>1. error = None /\ at = last + 1
    BY <1>1 DEF IInv, Types, Position, Errors, None
  <2>2. failed \subseteq Unheeded
    BY <1>1, <2>1, Shape DEF IInv, FailureShows
  <2>3. mesh = MeshOf(package, garbled) /\ HeaderIsSupported(mesh)
    BY <1>1, AcceptedIsValid DEF Accepted, ValidatePackageMesh
  <2>4. HeaderIsSupported(package)
    BY <2>3 DEF HeaderIsSupported, MeshOf
  <2> QED
    BY <2>2, <2>4
<1> QED
  BY <1>1, AlwaysInv, PTL

\* Walking from cell to cell over the faces of an accepted mesh never leaves it: every
\* id that MeshView::CellNeighbours returns is one that MeshView::Cell accepts, and
\* the cell found there bears that id, however long the file and narrow the index.
THEOREM AcceptedMeshIsAlwaysNavigable == Spec => []AcceptedMeshIsNavigable
<1>1. ASSUME IInv
      PROVE  AcceptedMeshIsNavigable
  <2> SUFFICES ASSUME Accepted, NEW c \in CellIds
               PROVE  /\ CellAt(mesh, c).id = c
                      /\ \A i \in DOMAIN NeighbourAcross(mesh, c) : InRange(mesh, NeighbourAcross(mesh, c)[i])
    BY DEF AcceptedMeshIsNavigable
  <2>1. package \in Packages /\ mesh = MeshOf(package, garbled) /\ ValidatePackageMesh(mesh) = "valid"
    BY <1>1, AcceptedIsValid
  <2>2. /\ \A k \in CellIds : mesh.cells[k + 1].id = k
        /\ \A i \in DOMAIN mesh.faces :
             /\ mesh.faces[i].owner \in CellIds
             /\ mesh.faces[i].neighbour < 0 \/ mesh.faces[i].neighbour \in CellIds
    <3>1. mesh.cells \in Seq(CellRecord) /\ mesh.faces \in Seq(FaceRecord)
      BY <2>1, MeshTypes
    <3> QED
      BY <2>1, <3>1, ValidMesh DEF CellIds
  <2>3. \A id \in CellIds : InRange(mesh, id)
    <3>1. Len(mesh.cells) \in Nat
      BY <2>1, MeshTypes, Elements
    <3> QED
      BY <3>1 DEF CellIds, InRange, IsValidIndex
  <2>4. ASSUME NEW i \in DOMAIN NeighbourAcross(mesh, c)
        PROVE  NeighbourAcross(mesh, c)[i] \in CellIds
    <3>1. /\ i \in DOMAIN mesh.faces
          /\ \/ mesh.faces[i].neighbour >= 0 /\ NeighbourAcross(mesh, c)[i] = mesh.faces[i].neighbour
             \/ NeighbourAcross(mesh, c)[i] = mesh.faces[i].owner
      BY <2>4 DEF NeighbourAcross, OwnedBy, Touching, IsValidIndex
    <3>2. ~(mesh.faces[i].neighbour >= 0 /\ mesh.faces[i].neighbour < 0)
      <4>1. mesh.faces[i] \in FaceRecord
        BY <2>1, <3>1, MeshTypes, Elements
      <4>2. mesh.faces[i].neighbour \in Int
        BY <4>1 DEF FaceRecord
      <4> QED
        BY <4>2
    <3> QED
      BY <2>2, <3>1, <3>2
  <2> QED
    BY <2>2, <2>3, <2>4 DEF CellAt
<1> QED
  BY <1>1, AlwaysInv, PTL

\* In an accepted mesh each of two cells lists the other as often as it is listed,
\* also over duplicated faces and faces that join a cell to itself.
THEOREM NeighboursAreAlwaysMutual == Spec => []NeighboursAreMutual
<1> DEFINE Between(c, d) == {i \in DOMAIN mesh.faces :
              \/ mesh.faces[i].owner = c /\ mesh.faces[i].neighbour = d
              \/ mesh.faces[i].owner = d /\ mesh.faces[i].neighbour = c}
<1>1. ASSUME NEW c \in CellIds, NEW d \in CellIds
      PROVE  {i \in DOMAIN NeighbourAcross(mesh, c) : NeighbourAcross(mesh, c)[i] = d} = Between(c, d)
  <2>1. c >= 0 /\ d >= 0
    BY DEF CellIds
  <2> QED
    BY <2>1 DEF NeighbourAcross, OwnedBy, Touching, IsValidIndex
<1>2. \A c, d : Between(c, d) = Between(d, c)
  OBVIOUS
<1> HIDE DEF Between
<1>3. ASSUME NEW c \in CellIds, NEW d \in CellIds
      PROVE  Times(d, NeighbourAcross(mesh, c)) = Times(c, NeighbourAcross(mesh, d))
  <2>1. Times(d, NeighbourAcross(mesh, c)) = Cardinality(Between(c, d))
    BY <1>1 DEF Times
  <2>2. Times(c, NeighbourAcross(mesh, d)) = Cardinality(Between(d, c))
    BY <1>1 DEF Times
  <2> QED
    BY <1>2, <2>1, <2>2
<1>4. NeighboursAreMutual
  BY <1>3 DEF NeighboursAreMutual
<1> QED
  BY <1>4, PTL

\* The validation accepts what follows the rules and meets the unstated conditions.
LEMMA DocumentedIsValid ==
  ASSUME NEW p \in Packages, FollowsTheRules(p), MeetsUnstatedConditions(p)
  PROVE  ValidatePackageMesh(MeshOf(p, {})) = "valid"
<1> DEFINE m == MeshOf(p, {})
<1>1. /\ p.nodes \in Seq(NodeRecord) /\ Len(p.nodes) \in Nat /\ DOMAIN p.nodes = 1..Len(p.nodes)
      /\ p.cells \in Seq(CellRecord) /\ Len(p.cells) \in Nat /\ DOMAIN p.cells = 1..Len(p.cells)
      /\ p.faces \in Seq(FaceRecord) /\ Len(p.faces) \in Nat /\ DOMAIN p.faces = 1..Len(p.faces)
  BY PackagesAssumption, Elements
<1>2. /\ HeaderIsSupported(m) /\ m.dimension = 2
      /\ Len(p.cells) < IndexLimit /\ Len(p.nodes) <= IndexLimit /\ IndexLimit \in Nat /\ IndexLimit > 0
  BY WidthAssumption DEF FollowsTheRules, MeetsUnstatedConditions, FitsIndexValue, HeaderIsSupported, MeshOf
<1>3. NothingIsEmpty(m)
  <2>1. p.cells # <<>> /\ p.faces # <<>> /\ p.nodes # <<>>
    BY DEF MeetsUnstatedConditions, NothingIsEmpty
  <2>2. Len(m.cells) # 0 /\ Len(m.faces) # 0 /\ Len(m.nodes) # 0
    BY <1>1, <2>1, MeshTypes, EmptySeq
  <2> QED
    BY <2>2, EmptySeq DEF NothingIsEmpty
<1>4. ASSUME NEW i \in DOMAIN m.cells
      PROVE  m.cells[i].id = Narrow(i - 1) /\ m.cells[i].id >= 0 /\ m.cells[i].finite /\ m.cells[i].area > 0
  <2>1. i \in DOMAIN p.cells /\ m.cells[i] = NarrowId(p.cells[i])
    BY <1>4 DEF MeshOf
  <2>2. p.cells[i] \in CellRecord
    BY <1>1, <2>1, Elements
  <2>3. p.cells[i].id = i - 1 /\ p.cells[i].finite /\ p.cells[i].area > 0
    BY <2>1 DEF FollowsTheRules, ContiguousIds, PositiveSizes, MeetsUnstatedConditions, FiniteCoordinates
  <2>4. i \in 1..Len(p.cells)
    BY <1>1, <2>1
  <2>5. i - 1 \in Int /\ -IndexLimit <= i - 1 /\ i - 1 < IndexLimit /\ i - 1 >= 0
    BY <1>1, <1>2, <2>4
  <2>6. Narrow(i - 1) = i - 1
    BY <2>5, Narrowing
  <2> QED
    BY <2>1, <2>2, <2>3, <2>5, <2>6 DEF NarrowId, CellRecord
<1>5. ASSUME NEW i \in DOMAIN m.nodes
      PROVE  m.nodes[i].id = Narrow(i - 1) /\ m.nodes[i].finite
  <2>1. i \in DOMAIN p.nodes /\ m.nodes[i] = NarrowId(p.nodes[i])
    BY <1>5 DEF MeshOf
  <2>2. p.nodes[i] \in NodeRecord
    BY <1>1, <2>1, Elements
  <2>3. p.nodes[i].id = i - 1 /\ p.nodes[i].finite
    BY <2>1 DEF FollowsTheRules, ContiguousIds, PositiveSizes, MeetsUnstatedConditions, FiniteCoordinates
  <2> QED
    BY <2>1, <2>2, <2>3 DEF NarrowId, NodeRecord
<1>6. ASSUME NEW i \in DOMAIN m.faces
      PROVE  FaceIsSound(m, m.faces[i]) /\ m.faces[i].id >= 0 /\ m.faces[i].owner >= 0 /\ m.faces[i].length > 0
  <2> DEFINE f == p.faces[i]
             n == Len(p.cells)
  <2>1. i \in DOMAIN p.faces /\ m.faces[i] = NarrowFace(f)
    BY <1>6 DEF MeshOf
  <2>2. f \in FaceRecord
    BY <1>1, <2>1, Elements
  <2>3. /\ f.id >= 0 /\ f.id < IndexLimit /\ f.finite /\ f.length > 0 /\ f.unit
        /\ f.owner \in 0..(n - 1)
        /\ f.neighbour = -1 \/ f.neighbour \in 0..(n - 1)
        /\ IF f.neighbour = -1 THEN f.patch >= 0 /\ \E k \in DOMAIN p.patches : p.patches[k] = f.patch
                               ELSE f.patch < 0
    BY <2>1 DEF FollowsTheRules, PositiveSizes, UnitNormals, OwnersInRange, NeighboursInRange, IsCellOf,
                PatchesExist, MeetsUnstatedConditions, FitsIndexValue, FiniteCoordinates, FaceIdsAreIds
  <2>4. n \in Nat /\ Narrow(n) = n /\ Len(m.cells) = n
    <3>1. Len(m.cells) = n
      BY MeshTypes
    <3> HIDE DEF n
    <3>2. n \in Nat /\ n < IndexLimit
      BY <1>1, <1>2 DEF n
    <3> QED
      BY <1>2, <3>1, <3>2, Narrowing
  <2>5. /\ m.faces[i].id = f.id /\ m.faces[i].owner = f.owner /\ m.faces[i].neighbour = f.neighbour
        /\ m.faces[i].patch = f.patch /\ m.faces[i].finite = f.finite
        /\ m.faces[i].length = f.length /\ m.faces[i].unit = f.unit
    <3> HIDE DEF n
    <3>1. Narrow(f.id) = f.id /\ Narrow(f.owner) = f.owner /\ Narrow(f.neighbour) = f.neighbour
      <4>1. n < IndexLimit /\ f.id \in Int /\ f.owner \in Int /\ f.neighbour \in Int
        BY <1>2, <2>2 DEF n, FaceRecord
      <4>2. \A v \in {f.id, f.owner, f.neighbour} : -IndexLimit <= v /\ v < IndexLimit
        BY <1>2, <2>3, <2>4, <4>1
      <4> QED
        BY <4>1, <4>2, Narrowing
    <3> QED
      BY <2>1, <2>2, <3>1 DEF NarrowFace, FaceRecord
  <2>6. m.patches = p.patches
    BY DEF MeshOf
  <2> HIDE DEF m, f, n
  <2>7. OwnerIsInRange(m, m.faces[i])
    BY <2>3, <2>4, <2>5 DEF OwnerIsInRange
  <2>8. IF IsBoundaryFace(m.faces[i]) THEN BoundaryIsSound(m, m.faces[i]) ELSE InteriorIsSound(m, m.faces[i])
    BY <2>2, <2>3, <2>4, <2>5, <2>6 DEF IsBoundaryFace, IsValidIndex, BoundaryIsSound, InteriorIsSound, FaceRecord
  <2> QED
    BY <2>3, <2>5, <2>7, <2>8 DEF FaceIsSound
<1> HIDE DEF m
<1>7. CellsAreSound(m) /\ NodesAreSound(m) /\ FacesAreSound(m) /\ IsValidMesh(m)
  BY <1>2, <1>4, <1>5, <1>6 DEF CellsAreSound, NodesAreSound, FacesAreSound, IsValidMesh, IsValidIndex
<1> QED
  BY <1>2, <1>3, <1>7 DEF ValidatePackageMesh, m

\* A package that could be read is refused for no other reason than a documented rule
\* that it breaks, one of the four undocumented conditions of MeetsUnstatedConditions,
\* or an attribute that was misread (mesh_package.md against ValidatePackageMesh).
THEOREM RefusalsAreAlwaysExplained == Spec => []RefusalsAreExplained
<1>1. ASSUME IInv
      PROVE  RefusalsAreExplained
  <2> SUFFICES ASSUME package # NoMesh, error # None, FollowsTheRules(package),
                      MeetsUnstatedConditions(package), garbled = {}
               PROVE  FALSE
    BY DEF RefusalsAreExplained
  <2>1. package \in Packages /\ mesh = MeshOf(package, {}) /\ ValidatePackageMesh(mesh) # "valid"
    BY <1>1 DEF IInv, Contents, IsRead
  <2> QED
    BY <2>1, DocumentedIsValid
<1> QED
  BY <1>1, AlwaysInv, PTL
=============================================================================
