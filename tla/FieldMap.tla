------------------------------ MODULE FieldMap ------------------------------
(***************************************************************************)
(* What sets of named fields promise their host: each set is a map from    *)
(* names to fields, a call that fails leaves every map as it was, and a    *)
(* reference is a name in a set, whatever is added later, until that set   *)
(* is assigned to.                                                         *)
(***************************************************************************)
EXTENDS Naturals

CONSTANTS
  Sets,        \* the sets the host has
  Names,       \* names of fields, Unnamed among them
  Unnamed,     \* the empty string
  Made,        \* the fields that a set makes for a mesh
  Locations, Sizes

VARIABLES
  fields,   \* of each set, from names to fields
  held,     \* the set and name that the host's reference stands for, or Nothing
  hand,     \* a field that the host has of its own
  answer    \* what the last call returned or raised

vars == <<fields, held, hand, answer>>

Nothing   == <<>>
NoMemory  == "std::bad_alloc"
MovedFrom == [name |-> Unnamed, location |-> Unnamed, size |-> 0]

Init ==
  /\ fields = [s \in Sets |-> <<>>]
  /\ held = Nothing
  /\ hand = MovedFrom
  /\ answer = "none"

Refusal(s, name) ==
  IF name = Unnamed THEN "field.invalid_name"
  ELSE IF name \in DOMAIN fields[s] THEN "field.duplicate_name"
  ELSE "none"

With(map, field) ==
  [n \in DOMAIN map \cup {field.name} |-> IF n = field.name THEN field ELSE map[n]]

\* A new name is added or memory runs out; any other is refused.
Add(s, field) ==
  \/ /\ Refusal(s, field.name) = "none"
     /\ fields' = [fields EXCEPT ![s] = With(@, field)]
     /\ answer' = "none"
  \/ /\ answer' \in {Refusal(s, field.name), NoMemory} \ {"none"}
     /\ UNCHANGED fields

\* The set makes the field itself and returns a reference to it.
AddMade(s, field) ==
  /\ Add(s, field)
  /\ held' = IF answer' = "none" THEN <<s, field.name>> ELSE held
  /\ UNCHANGED hand

\* The host's own field: kept when it is copied, lost when it is handed over, even
\* to a call that refuses it.
AddOwn(s) == Add(s, hand) /\ hand' \in {hand, MovedFrom} /\ UNCHANGED held

\* The host makes a field of its own, which takes a location.
MakeOwn ==
  /\ answer' \in {"none", "field.invalid_location"}
  /\ answer' # "none" => hand' = hand
  /\ UNCHANGED <<fields, held>>

Find(s, name) ==
  /\ held'   = IF name \in DOMAIN fields[s] THEN <<s, name>> ELSE held
  /\ answer' = IF name \in DOMAIN fields[s] THEN "none" ELSE "field.not_found"
  /\ UNCHANGED <<fields, hand>>

RequireHere(s, name, location, size) ==
  /\ answer' = IF name \notin DOMAIN fields[s] THEN "field.not_found"
               ELSE IF fields[s][name].location # location THEN "field.invalid_location"
               ELSE IF fields[s][name].size # size THEN "field.invalid_size"
               ELSE "none"
  /\ UNCHANGED <<fields, held, hand>>

\* The host changes, replaces or takes the field that its reference stands for,
\* and no other.
Use ==
  /\ held # Nothing
  /\ \A s \in Sets :
       /\ DOMAIN fields'[s] = DOMAIN fields[s]
       /\ \A n \in DOMAIN fields[s] : <<s, n>> # held => fields'[s][n] = fields[s][n]
  /\ hand' \in {hand, fields[held[1]][held[2]]}
  /\ UNCHANGED <<held, answer>>

LoseReferencesInto(t) == IF held # Nothing /\ held[1] = t THEN Nothing ELSE held

\* When memory runs out on the way, the target is left empty.
Copy(s, t) ==
  /\ answer' \in {"none", NoMemory}
  /\ fields' = [fields EXCEPT ![t] = IF answer' = "none" THEN fields[s] ELSE <<>>]
  /\ held' = LoseReferencesInto(t)
  /\ UNCHANGED hand

\* References into a set follow its fields to the set they are moved to.
Move(s, t) ==
  /\ fields' = [fields EXCEPT ![t] = fields[s], ![s] = <<>>]
  /\ held' = IF held # Nothing /\ held[1] = s THEN <<t, held[2]>> ELSE LoseReferencesInto(t)
  /\ answer' = "none"
  /\ UNCHANGED hand

Handle == answer' = "none" /\ UNCHANGED <<fields, held, hand>>

Next ==
  \/ \E s \in Sets :
       \/ AddOwn(s) \/ \E field \in Made : AddMade(s, field)
       \/ \E name \in Names :
            \/ Find(s, name)
            \/ \E location \in Locations, size \in Sizes : RequireHere(s, name, location, size)
       \/ \E t \in Sets \ {s} : Copy(s, t) \/ Move(s, t)
  \/ MakeOwn \/ Use \/ Handle

Spec == Init /\ [][Next]_vars
=============================================================================
