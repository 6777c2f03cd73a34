------------------------------ MODULE FieldSet ------------------------------
(***************************************************************************)
(* Sets of named scalar fields (src/Fields/FieldSet.cc, Field.h): one      *)
(* unordered_map per set, whose nodes lie on the heap.  Add*Scalar and     *)
(* Scalar hand out references to the fields in those nodes, and the host   *)
(* may keep one while it adds more fields, and copy and move whole sets.   *)
(* Of the values of a field only their number is kept.                     *)
(***************************************************************************)
EXTENDS Naturals, Functions

CONSTANTS
  Sets,       \* the FieldSet objects of the host
  Names,      \* names of fields, Unnamed among them
  Unnamed,    \* the empty string
  Lower,      \* from the spellings of locations, without the empty one, to lower case
  Meshes,     \* from lower-case locations to numbers of elements
  Own,        \* the fields the host makes itself: name, spelling of the location, size
  Addresses   \* bound: nodes that may be alive at a time, as natural numbers

VARIABLES
  scalars,    \* of each set, from names to the addresses of nodes
  heap,       \* from addresses to fields
  reference,  \* the address of the field the host has a reference to, or Null
  hand,       \* a ScalarField of the host's own
  answer,     \* "none", or the exception of the last call
  required    \* history: what the last RequireScalar that returned has accepted

store == <<scalars, heap>>
vars  == <<store, reference, hand, answer, required>>

Null      == 0
NoMemory  == "std::bad_alloc"
Nothing   == <<>>
Locations == {Lower[l] : l \in DOMAIN Lower}

ASSUME NamesAssumption     == Unnamed \in Names
ASSUME MeshesAssumption    == \A m \in Meshes : DOMAIN m = Locations
ASSUME OwnAssumption       == \A o \in Own : o.name \in Names
ASSUME AddressesAssumption == Addresses \subseteq Nat \ {Null}

Field(name, location, size) == [name |-> name, location |-> location, size |-> size]

\* What the implicit move constructor of Field leaves: empty strings and vector.
MovedFrom == Field(Unnamed, Unnamed, 0)

Init ==
  /\ scalars = [s \in Sets |-> <<>>]
  /\ heap = <<>>
  /\ reference = Null
  /\ hand = MovedFrom
  /\ answer = "none"
  /\ required = Nothing

\* Where the next nodes go, which may be where others lay before.
Free     == Addresses \ DOMAIN heap
NewNode  == CHOOSE a \in Free : TRUE
Nodes(s) == Range(scalars[s])
Without(addresses) == [a \in DOMAIN heap \ addresses |-> heap[a]]
With(f, x, y)      == [z \in DOMAIN f \cup {x} |-> IF z = x THEN y ELSE f[z]]
Both(f, g)         == [a \in DOMAIN f \cup DOMAIN g |-> IF a \in DOMAIN f THEN f[a] ELSE g[a]]

Found(s, name) == heap[scalars[s][name]]
\* The fields of s at other addresses, one for each name.
Copies(s, nodes) == [a \in Range(nodes) |-> Found(s, CHOOSE n \in DOMAIN nodes : nodes[n] = a)]

-----------------------------------------------------------------------------

\* Mutant: whatever has a name goes in.
RefusalOfUnnamed(s, name) == IF name = Unnamed THEN "field.invalid_name" ELSE "none"
Refusal(s, name) ==
  IF name = Unnamed THEN "field.invalid_name"
  ELSE IF name \in DOMAIN scalars[s] THEN "field.duplicate_name"
  ELSE "none"

\* emplace(field.Name(), std::move(field)) into a node at address a: the key is
\* copied out of the field before the field is moved, and a table that grows
\* relinks its nodes and moves none.
\* Mutant: a table of fields, which moves them to make room.
EmplaceInArray(s, a, field) ==
  LET names == DOMAIN scalars[s]
      moved == CHOOSE f \in [names -> Addresses] : IsInjective(f)
  IN  /\ scalars' = [scalars EXCEPT ![s] = With(moved, field.name, a)]
      /\ heap' = With(Both(Copies(s, moved), heap), a, field)
Emplace(s, a, field) ==
  /\ scalars' = [scalars EXCEPT ![s] = With(@, field.name, a)]
  /\ heap' = With(heap, a, field)

AddScalarAndReturn(s, field) ==
  \/ /\ Refusal(s, field.name) = "none"
     /\ Free # {}
     /\ Emplace(s, NewNode, field)
     /\ answer' = "none"
  \/ /\ answer' \in {Refusal(s, field.name), NoMemory} \ {"none"}
     /\ UNCHANGED store

\* AddCellScalar, AddFaceScalar and AddNodeScalar, Fill included.
AddMeshScalar(s, name, location, mesh) ==
  /\ AddScalarAndReturn(s, Field(name, location, mesh[location]))
  /\ reference' = IF answer' = "none" THEN NewNode ELSE reference
  /\ UNCHANGED <<hand, required>>

\* AddScalar takes its field by value: the host's is copied, which may fail, or
\* moved, and then it is gone even if the name is refused.
AddScalar(s) ==
  /\ AddScalarAndReturn(s, hand)
  /\ hand' \in {hand, MovedFrom}
  /\ UNCHANGED <<reference, required>>

Scalar(s, name) ==
  /\ IF name \in DOMAIN scalars[s] THEN reference' = scalars[s][name] /\ answer' = "none"
                                   ELSE UNCHANGED reference /\ answer' = "field.not_found"
  /\ UNCHANGED <<store, hand, required>>

Requirement(s, name, location, size) ==
  IF name \notin DOMAIN scalars[s] THEN "field.not_found"
  ELSE IF Found(s, name).location # location THEN "field.invalid_location"
  ELSE IF Found(s, name).size # size THEN "field.invalid_size"
  ELSE "none"

RequireScalar(s, name, location, size) ==
  /\ answer' = Requirement(s, name, location, size)
  /\ required' = IF answer' = "none"
                 THEN [set |-> s, name |-> name, location |-> location, size |-> size]
                 ELSE required
  /\ UNCHANGED <<store, reference, hand>>

-----------------------------------------------------------------------------
(* The host *)

\* The host has handled the exception.
Handle == answer # "none" /\ answer' = "none" /\ UNCHANGED <<store, reference, hand, required>>

\* Field(o.name, FieldLocation(o.spelling), o.size).
MakeField(o) ==
  /\ IF o.spelling \in DOMAIN Lower
     THEN hand' = Field(o.name, Lower[o.spelling], o.size) /\ answer' = "none"
     ELSE UNCHANGED hand /\ answer' = "field.invalid_location"
  /\ UNCHANGED <<store, reference, required>>

\* What was accepted of a field holds no more when the host replaces that field.
Forget(nodes) ==
  required' = IF required # Nothing /\ scalars[required.set][required.name] \in nodes
              THEN Nothing ELSE required

\* *reference = hand, and hand = std::move(*reference).
Assign ==
  /\ reference # Null
  /\ heap' = [heap EXCEPT ![reference] = hand]
  /\ Forget({reference})
  /\ UNCHANGED <<scalars, reference, hand, answer>>
Take ==
  /\ reference # Null
  /\ hand' = heap[reference]
  /\ heap' = [heap EXCEPT ![reference] = MovedFrom]
  /\ Forget({reference})
  /\ UNCHANGED <<scalars, reference, answer>>

\* The old nodes of t die, and with them the host's right to a reference into one.
Drop(t) == reference' = IF reference \in Nodes(t) THEN Null ELSE reference

\* t = s.  A copy that runs out of memory leaves t empty.
CopySet(s, t) ==
  LET kept  == Without(Nodes(t))
      room  == Addresses \ DOMAIN kept
      fits  == {f \in [DOMAIN scalars[s] -> room] : IsInjective(f)}
      nodes == CHOOSE f \in fits : TRUE
  IN  /\ \/ /\ fits # {}
            /\ scalars' = [scalars EXCEPT ![t] = nodes]
            /\ heap' = Both(kept, Copies(s, nodes))
            /\ answer' = "none"
         \/ /\ scalars' = [scalars EXCEPT ![t] = <<>>]
            /\ heap' = kept
            /\ answer' = NoMemory
      /\ Drop(t) /\ Forget(Nodes(t))
      /\ UNCHANGED hand

\* t = std::move(s): t takes over the nodes of s.
MoveSet(s, t) ==
  /\ scalars' = [scalars EXCEPT ![t] = scalars[s], ![s] = <<>>]
  /\ heap' = Without(Nodes(t))
  /\ Drop(t)
  /\ answer' = "none"
  /\ required' = IF required = Nothing \/ required.set = t THEN Nothing
                 ELSE IF required.set = s THEN [required EXCEPT !.set = t] ELSE required
  /\ UNCHANGED hand

Call ==
  \/ \E s \in Sets :
       \/ AddScalar(s)
       \/ \E name \in Names :
            \/ Scalar(s, name)
            \/ \E location \in Locations, mesh \in Meshes :
                 \/ AddMeshScalar(s, name, location, mesh)
                 \/ RequireScalar(s, name, location, mesh[location])
       \/ \E t \in Sets \ {s} : CopySet(s, t) \/ MoveSet(s, t)
  \/ \E o \in Own : MakeField(o)
  \/ Assign \/ Take

Next == Handle \/ (answer = "none" /\ Call)

Spec == Init /\ [][Next]_vars

-----------------------------------------------------------------------------
(* Properties *)

\* The sets behave as maps from names to fields: a field is found under the name
\* it was added with, a call that fails changes no set, and a reference stands for
\* the same name of the same set however many fields are added, copied and moved,
\* until the set it points into is assigned to.
Fields == [s \in Sets |-> [n \in DOMAIN scalars[s] |-> Found(s, n)]]
Held   == IF \E s \in Sets : reference \in Nodes(s)
          THEN CHOOSE h \in Sets \X Names : /\ h[2] \in DOMAIN scalars[h[1]]
                                          /\ scalars[h[1]][h[2]] = reference
          ELSE Nothing

Promised == INSTANCE FieldMap
  WITH fields <- Fields, held <- Held,
       Made <- {Field(n, l, m[l]) : n \in Names, l \in Locations, m \in Meshes},
       Sizes <- UNION {Range(m) : m \in Meshes}
ImplementsFieldMap == Promised!Spec

\* A field that RequireScalar has accepted stays where it was found and keeps the
\* location and the size it was accepted for, through everything but a replacement
\* by the host itself: a second field of that name never takes its place.
AcceptedStaysValid ==
  required # Nothing =>
    /\ required.name \in DOMAIN scalars[required.set]
    /\ LET field == Found(required.set, required.name)
       IN  field.location = required.location /\ field.size = required.size
=============================================================================
