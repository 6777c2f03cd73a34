--------------------------- MODULE FieldSetProofs ---------------------------
(***************************************************************************)
(* Proofs about FieldSet for any number of sets, names, meshes and nodes.  *)
(* The invariant is that of the heap: every name has a node that is alive  *)
(* (Stored), no two names of all sets share one (Apart), and the host's    *)
(* reference points into a set (Referenced).  With it go the names that a  *)
(* field can have (Named) and what has been accepted (Accepted).           *)
(***************************************************************************)
EXTENDS FieldSet, TLAPS

Sizes       == UNION {Range(m) : m \in Meshes}
Acceptances == [set : Sets, name : Names, location : Locations, size : Sizes]

Stored ==
  /\ DOMAIN scalars = Sets
  /\ DOMAIN heap \subseteq Addresses
  /\ \A s \in Sets : /\ DOMAIN scalars[s] \subseteq Names
                     /\ \A n \in DOMAIN scalars[s] : scalars[s][n] \in DOMAIN heap

Apart ==
  \A s, t \in Sets : \A n \in DOMAIN scalars[s], m \in DOMAIN scalars[t] :
    scalars[s][n] = scalars[t][m] => s = t /\ n = m

Referenced == reference = Null \/ \E s \in Sets : reference \in Nodes(s)

Named == hand.name \in Names /\ \A a \in DOMAIN heap : heap[a].name \in Names

Accepted == required # Nothing => required \in Acceptances /\ AcceptedStaysValid

IInv == Stored /\ Apart /\ Referenced /\ Named /\ Accepted

-----------------------------------------------------------------------------
(* What the operations do to sets and heap *)

\* There is nothing in any set at the start.
LEMMA InitIsInv == Init => IInv
<1> SUFFICES ASSUME Init PROVE IInv
  OBVIOUS
<1>1. DOMAIN heap = {} /\ DOMAIN scalars = Sets /\ \A s \in Sets : DOMAIN scalars[s] = {}
  BY DEF Init
<1>2. hand.name \in Names
  BY NamesAssumption DEF Init, MovedFrom, Field
<1> QED
  BY <1>1, <1>2 DEF Init, IInv, Stored, Apart, Referenced, Named, Accepted

\* Adding refuses or runs out of memory and changes nothing, or gives a new name a
\* new node and leaves every other name and node as it was.
LEMMA AddEffect ==
  ASSUME IInv, NEW s \in Sets, NEW field, field.name \in Names, AddScalarAndReturn(s, field)
  PROVE  \/ /\ answer' = "none"
            /\ Refusal(s, field.name) = "none" /\ field.name \notin DOMAIN scalars[s]
            /\ NewNode \in Addresses /\ NewNode \notin DOMAIN heap
            /\ scalars' = [scalars EXCEPT ![s] = With(scalars[s], field.name, NewNode)]
            /\ heap' = With(heap, NewNode, field)
         \/ /\ answer' \in {Refusal(s, field.name), NoMemory} \ {"none"}
            /\ UNCHANGED store
<1>1. ASSUME Refusal(s, field.name) = "none"
      PROVE  field.name \notin DOMAIN scalars[s]
  BY <1>1 DEF Refusal
<1>2. ASSUME Free # {}
      PROVE  NewNode \in Addresses /\ NewNode \notin DOMAIN heap
  BY <1>2 DEF NewNode, Free
<1> QED
  BY <1>1, <1>2 DEF AddScalarAndReturn, Emplace

\* A copy takes its nodes from where none of the nodes lie that stay.
LEMMA CopyEffect ==
  ASSUME IInv, NEW s \in Sets, NEW t \in Sets, s # t, CopySet(s, t)
  PROVE  /\ DOMAIN scalars' = Sets
         /\ \A u \in Sets \ {t} : scalars'[u] = scalars[u]
         /\ DOMAIN heap' \subseteq Addresses
         /\ \A a \in DOMAIN heap \ Nodes(t) : a \in DOMAIN heap' /\ heap'[a] = heap[a]
         /\ \A a \in DOMAIN heap' : \E b \in DOMAIN heap : heap'[a] = heap[b]
         /\ \/ /\ answer' = "none"
               /\ DOMAIN scalars'[t] = DOMAIN scalars[s]
               /\ \A n \in DOMAIN scalars[s] :
                    /\ scalars'[t][n] \in DOMAIN heap' \ (DOMAIN heap \ Nodes(t))
                    /\ heap'[scalars'[t][n]] = Found(s, n)
               /\ \A n, m \in DOMAIN scalars[s] : scalars'[t][n] = scalars'[t][m] => n = m
            \/ /\ answer' = NoMemory
               /\ DOMAIN scalars'[t] = {}
<1> DEFINE kept  == Without(Nodes(t))
           room  == Addresses \ DOMAIN kept
           fits  == {f \in [DOMAIN scalars[s] -> room] : IsInjective(f)}
           nodes == CHOOSE f \in fits : TRUE
<1>1. DOMAIN scalars = Sets /\ DOMAIN heap \subseteq Addresses
      /\ \A n \in DOMAIN scalars[s] : scalars[s][n] \in DOMAIN heap
  BY DEF IInv, Stored
<1>2. DOMAIN kept = DOMAIN heap \ Nodes(t) /\ \A a \in DOMAIN kept : kept[a] = heap[a]
  BY DEF Without
<1>3. CASE /\ fits # {} /\ answer' = "none"
           /\ scalars' = [scalars EXCEPT ![t] = nodes]
           /\ heap' = Both(kept, Copies(s, nodes))
  <2>1. nodes \in [DOMAIN scalars[s] -> room] /\ IsInjective(nodes)
    BY <1>3
  <2> HIDE DEF nodes, fits, kept
  <2>2. \A n, m \in DOMAIN scalars[s] : nodes[n] = nodes[m] => n = m
    BY <2>1 DEF IsInjective
  <2>3. /\ DOMAIN Copies(s, nodes) = Range(nodes) /\ Range(nodes) \subseteq room
        /\ \A n \in DOMAIN scalars[s] : nodes[n] \in Range(nodes) /\ Copies(s, nodes)[nodes[n]] = Found(s, n)
    <3>1. DOMAIN nodes = DOMAIN scalars[s] /\ \A n \in DOMAIN nodes : nodes[n] \in room
      BY <2>1
    <3>2. ASSUME NEW n \in DOMAIN nodes
          PROVE  (CHOOSE m \in DOMAIN nodes : nodes[m] = nodes[n]) = n
      BY <2>2, <3>1
    <3>3. DOMAIN Copies(s, nodes) = Range(nodes)
          /\ \A a \in Range(nodes) : Copies(s, nodes)[a] = Found(s, CHOOSE n \in DOMAIN nodes : nodes[n] = a)
      BY DEF Copies
    <3>4. Range(nodes) \subseteq room /\ \A n \in DOMAIN nodes : nodes[n] \in Range(nodes)
      BY <3>1 DEF Range
    <3> QED
      BY <3>1, <3>2, <3>3, <3>4
  <2>4. \A a \in Range(nodes) : \E n \in DOMAIN scalars[s] : a = nodes[n]
    BY <2>1 DEF Range
  <2>5. DOMAIN heap' = DOMAIN kept \cup Range(nodes)
        /\ \A a \in DOMAIN heap' : heap'[a] = IF a \in DOMAIN kept THEN kept[a] ELSE Copies(s, nodes)[a]
    BY <1>3, <2>3 DEF Both
  <2>6. ASSUME NEW n \in DOMAIN scalars[s]
        PROVE  Found(s, n) = heap[scalars[s][n]] /\ scalars[s][n] \in DOMAIN heap
    BY <1>1 DEF Found
  <2>7. \A a \in DOMAIN heap' : \E b \in DOMAIN heap : heap'[a] = heap[b]
    BY <1>2, <2>3, <2>4, <2>5, <2>6
  <2>8. scalars'[t] = nodes /\ DOMAIN scalars' = Sets /\ \A u \in Sets \ {t} : scalars'[u] = scalars[u]
    BY <1>1, <1>3
  <2> QED
    BY <1>1, <1>2, <1>3, <2>1, <2>2, <2>3, <2>5, <2>7, <2>8
<1>4. CASE scalars' = [scalars EXCEPT ![t] = <<>>] /\ heap' = kept /\ answer' = NoMemory
  BY <1>1, <1>2, <1>4
<1> QED
  BY <1>3, <1>4 DEF CopySet

\* A move gives the target the nodes of the source, and destroys its own.
LEMMA MoveEffect ==
  ASSUME IInv, NEW s \in Sets, NEW t \in Sets, s # t, MoveSet(s, t)
  PROVE  /\ DOMAIN scalars' = Sets /\ answer' = "none"
         /\ scalars'[t] = scalars[s] /\ DOMAIN scalars'[s] = {}
         /\ \A u \in Sets \ {s, t} : scalars'[u] = scalars[u]
         /\ DOMAIN heap' = DOMAIN heap \ Nodes(t)
         /\ \A a \in DOMAIN heap' : heap'[a] = heap[a]
BY DEF MoveSet, Without, IInv, Stored

\* The nodes of different sets are different.
LEMMA NodesApart ==
  ASSUME IInv, NEW s \in Sets, NEW t \in Sets, s # t, NEW n \in DOMAIN scalars[s]
  PROVE  scalars[s][n] \in DOMAIN heap \ Nodes(t) /\ scalars[s][n] \in Nodes(s)
BY DEF IInv, Stored, Apart, Nodes, Range

-----------------------------------------------------------------------------
(* Every step keeps the invariant *)

\* What was accepted holds as long as the name keeps its node and the node its field.
LEMMA AcceptedKept ==
  ASSUME Accepted, required' = required,
         required # Nothing =>
           /\ required.name \in DOMAIN scalars'[required.set]
           /\ Found(required.set, required.name)' = Found(required.set, required.name)
  PROVE  Accepted'
BY DEF Accepted, AcceptedStaysValid

\* Adding, by whatever call, keeps the heap and what was accepted of it.
LEMMA AddKeeps ==
  ASSUME IInv, NEW s \in Sets, NEW field, field.name \in Names, AddScalarAndReturn(s, field),
         required' = required
  PROVE  /\ Stored' /\ Apart' /\ Accepted'
         /\ \A a \in DOMAIN heap' : heap'[a].name \in Names
         /\ \A u \in Sets : Nodes(u) \subseteq Nodes(u)'
         /\ \A u \in Sets : \A n \in DOMAIN scalars[u] :
              n \in DOMAIN scalars'[u] /\ scalars'[u][n] = scalars[u][n] /\ Found(u, n)' = Found(u, n)
<1>1. CASE UNCHANGED store
  BY <1>1, AcceptedKept DEF store, IInv, Stored, Apart, Named, Nodes, Found, Accepted, AcceptedStaysValid
<1>2. CASE /\ field.name \notin DOMAIN scalars[s]
           /\ NewNode \in Addresses /\ NewNode \notin DOMAIN heap
           /\ scalars' = [scalars EXCEPT ![s] = With(scalars[s], field.name, NewNode)]
           /\ heap' = With(heap, NewNode, field)
  <2> DEFINE node == NewNode
  <2>0. node = NewNode
    OBVIOUS
  <2> HIDE DEF node
  <2>1. /\ DOMAIN heap' = DOMAIN heap \cup {node} /\ heap'[node] = field
        /\ \A a \in DOMAIN heap : heap'[a] = heap[a]
    BY <1>2, <2>0 DEF With
  <2>2. /\ DOMAIN scalars' = Sets
        /\ \A u \in Sets \ {s} : scalars'[u] = scalars[u]
        /\ DOMAIN scalars'[s] = DOMAIN scalars[s] \cup {field.name}
        /\ scalars'[s][field.name] = node
        /\ \A n \in DOMAIN scalars[s] : scalars'[s][n] = scalars[s][n]
    BY <1>2, <2>0 DEF With, IInv, Stored
  <2>3. \A u \in Sets : \A n \in DOMAIN scalars[u] :
          /\ n \in DOMAIN scalars'[u] /\ scalars'[u][n] = scalars[u][n]
          /\ scalars[u][n] \in DOMAIN heap /\ scalars[u][n] # node
    BY <1>2, <2>0, <2>2 DEF IInv, Stored
  <2>4. \A u \in Sets : \A n \in DOMAIN scalars'[u] :
          n \in DOMAIN scalars[u] \/ (u = s /\ n = field.name /\ scalars'[u][n] = node)
    BY <2>2
  <2>5. Stored'
    BY <1>2, <2>0, <2>1, <2>2, <2>3, <2>4 DEF IInv, Stored
  <2>6. Apart'
    BY <2>3, <2>4 DEF IInv, Apart
  <2>7. \A u \in Sets : \A n \in DOMAIN scalars[u] : Found(u, n)' = Found(u, n)
    BY <2>1, <2>3 DEF Found
  <2>8. required # Nothing => required.set \in Sets /\ required.name \in DOMAIN scalars[required.set]
    BY DEF IInv, Accepted, Acceptances, AcceptedStaysValid
  <2>9. Accepted'
    BY <2>3, <2>7, <2>8, AcceptedKept DEF IInv
  <2>10. \A u \in Sets : Nodes(u) \subseteq Nodes(u)'
    BY <2>3 DEF Nodes, Range
  <2>11. \A a \in DOMAIN heap' : heap'[a].name \in Names
    BY <2>1 DEF IInv, Named
  <2> QED
    BY <2>3, <2>5, <2>6, <2>7, <2>9, <2>10, <2>11
<1> QED
  BY <1>1, <1>2, AddEffect

\* The calls that add a field.
LEMMA AddStep ==
  ASSUME IInv, NEW s \in Sets
  PROVE  /\ AddScalar(s) => IInv'
         /\ \A name \in Names, location \in Locations, mesh \in Meshes :
              AddMeshScalar(s, name, location, mesh) => IInv'
<1>1. ASSUME AddScalar(s)
      PROVE  IInv'
  <2>1. hand.name \in Names /\ hand'.name \in Names
    BY <1>1, NamesAssumption DEF AddScalar, IInv, Named, MovedFrom, Field
  <2>2. AddScalarAndReturn(s, hand) /\ required' = required /\ reference' = reference
    BY <1>1 DEF AddScalar
  <2> QED
    BY <2>1, <2>2, AddKeeps DEF IInv, Named, Referenced
<1>2. ASSUME NEW name \in Names, NEW location \in Locations, NEW mesh \in Meshes,
             AddMeshScalar(s, name, location, mesh)
      PROVE  IInv'
  <2> DEFINE field == Field(name, location, mesh[location])
  <2>1. field.name = name
    BY DEF Field
  <2> HIDE DEF field
  <2>2. /\ AddScalarAndReturn(s, field) /\ required' = required /\ hand' = hand
        /\ reference' = IF answer' = "none" THEN NewNode ELSE reference
    BY <1>2 DEF AddMeshScalar, field
  <2>3. Referenced'
    <3>1. CASE answer' = "none"
      <4>1. scalars' = [scalars EXCEPT ![s] = With(scalars[s], name, NewNode)]
        BY <2>1, <2>2, <3>1, AddEffect DEF NoMemory
      <4>2. name \in DOMAIN scalars'[s] /\ scalars'[s][name] = reference'
        BY <2>2, <3>1, <4>1 DEF With, IInv, Stored
      <4> QED
        BY <4>2 DEF Referenced, Nodes, Range
    <3>2. CASE answer' # "none"
      BY <2>1, <2>2, <3>2, AddKeeps DEF IInv, Referenced
    <3> QED
      BY <3>1, <3>2
  <2> QED
    BY <2>1, <2>2, <2>3, AddKeeps DEF IInv, Named
<1> QED
  BY <1>1, <1>2

\* Looking fields up and requiring them changes no set; what is accepted was found.
LEMMA QueryStep ==
  ASSUME IInv, NEW s \in Sets, NEW name \in Names
  PROVE  /\ Scalar(s, name) => IInv'
         /\ \A location \in Locations, mesh \in Meshes :
              RequireScalar(s, name, location, mesh[location]) => IInv'
<1>1. ASSUME Scalar(s, name)
      PROVE  IInv'
  BY <1>1 DEF Scalar, store, IInv, Stored, Apart, Referenced, Named, Accepted, AcceptedStaysValid,
              Found, Nodes, Range
<1>2. ASSUME NEW location \in Locations, NEW mesh \in Meshes,
             RequireScalar(s, name, location, mesh[location])
      PROVE  IInv'
  <2>1. UNCHANGED <<scalars, heap, reference, hand>>
    BY <1>2 DEF RequireScalar, store
  <2>2. mesh[location] \in Sizes
    BY MeshesAssumption DEF Sizes, Range
  <2>3. CASE answer' = "none"
    <3>1. required' = [set |-> s, name |-> name, location |-> location, size |-> mesh[location]]
      BY <1>2, <2>3 DEF RequireScalar
    <3>2. /\ name \in DOMAIN scalars[s]
          /\ Found(s, name).location = location /\ Found(s, name).size = mesh[location]
      BY <1>2, <2>3 DEF RequireScalar, Requirement, Found
    <3>3. required' \in Acceptances
      BY <2>2, <3>1 DEF Acceptances
    <3>4. AcceptedStaysValid'
      BY <2>1, <3>1, <3>2 DEF AcceptedStaysValid, Found
    <3> QED
      BY <2>1, <3>3, <3>4 DEF IInv, Stored, Apart, Referenced, Named, Accepted, Nodes
  <2>4. CASE answer' # "none"
    <3>1. required' = required
      BY <1>2, <2>4 DEF RequireScalar
    <3> QED
      BY <2>1, <3>1 DEF IInv, Stored, Apart, Referenced, Named, Accepted, AcceptedStaysValid, Found, Nodes
  <2> QED
    BY <2>3, <2>4
<1> QED
  BY <1>1, <1>2

\* A field of the host's own has one of the names, whatever its location.
LEMMA OwnStep ==
  ASSUME IInv
  PROVE  /\ Handle => IInv'
         /\ \A o \in Own : MakeField(o) => IInv'
<1>1. ASSUME Handle
      PROVE  IInv'
  BY <1>1 DEF Handle, store, IInv, Stored, Apart, Referenced, Named, Accepted, AcceptedStaysValid, Found, Nodes
<1>2. ASSUME NEW o \in Own, MakeField(o)
      PROVE  IInv'
  <2>1. hand'.name \in Names
    BY <1>2, OwnAssumption DEF MakeField, Field, IInv, Named
  <2> QED
    BY <1>2, <2>1 DEF MakeField, store, IInv, Stored, Apart, Referenced, Named, Accepted,
                      AcceptedStaysValid, Found, Nodes
<1> QED
  BY <1>1, <1>2

\* What is forgotten is what was accepted of the nodes that the host replaces.
LEMMA ForgetKeeps ==
  ASSUME IInv, NEW nodes, Forget(nodes),
         \A s \in Sets : \A n \in DOMAIN scalars[s] :
           scalars[s][n] \notin nodes =>
             n \in DOMAIN scalars'[s] /\ Found(s, n)' = Found(s, n)
  PROVE  Accepted'
<1>1. CASE required' = Nothing
  BY <1>1 DEF Accepted
<1>2. CASE required # Nothing /\ required' = required /\ scalars[required.set][required.name] \notin nodes
  <2>1. required.set \in Sets /\ required.name \in DOMAIN scalars[required.set]
    BY <1>2 DEF IInv, Accepted, Acceptances, AcceptedStaysValid
  <2> QED
    BY <1>2, <2>1, AcceptedKept DEF IInv
<1> QED
  BY <1>1, <1>2 DEF Forget

\* The host writes into one node of the sets, and no name loses its node.
LEMMA UseStep ==
  ASSUME IInv, Assign \/ Take
  PROVE  IInv'
<1>1. /\ scalars' = scalars /\ reference' = reference /\ Forget({reference})
      /\ \/ heap' = [heap EXCEPT ![reference] = hand] /\ hand' = hand
         \/ heap' = [heap EXCEPT ![reference] = MovedFrom] /\ hand' = heap[reference]
      /\ reference # Null
  BY DEF Assign, Take
<1>2. MovedFrom.name \in Names
  BY NamesAssumption DEF MovedFrom, Field
<1>3. reference \in DOMAIN heap
  BY <1>1 DEF IInv, Referenced, Nodes, Range, Stored
<1>4. DOMAIN heap' = DOMAIN heap /\ \A a \in DOMAIN heap : a # reference => heap'[a] = heap[a]
  BY <1>1
<1>5. Named'
  BY <1>1, <1>2, <1>3 DEF IInv, Named
<1>6. Accepted'
  BY <1>1, <1>4, ForgetKeeps DEF IInv, Stored, Found
<1> QED
  BY <1>1, <1>4, <1>5, <1>6 DEF IInv, Stored, Apart, Referenced, Nodes

\* The reference goes with the nodes that are destroyed.
LEMMA DropKeeps ==
  ASSUME IInv, NEW t \in Sets, Drop(t),
         \A u \in Sets \ {t} : \E v \in Sets : Nodes(u) \subseteq Nodes(v)'
  PROVE  Referenced'
<1>1. CASE reference \in Nodes(t) \/ reference = Null
  BY <1>1 DEF Drop, Referenced
<1>2. CASE reference \notin Nodes(t) /\ reference # Null
  <2>1. PICK u \in Sets \ {t} : reference \in Nodes(u)
    BY <1>2 DEF IInv, Referenced
  <2> QED
    BY <1>2, <2>1 DEF Drop, Referenced
<1> QED
  BY <1>1, <1>2

\* A copy shares no node with what it was made from.
LEMMA CopyStep ==
  ASSUME IInv, NEW s \in Sets, NEW t \in Sets, s # t, CopySet(s, t)
  PROVE  IInv'
<1>1. /\ DOMAIN scalars' = Sets
      /\ \A u \in Sets \ {t} : scalars'[u] = scalars[u]
      /\ DOMAIN heap' \subseteq Addresses
      /\ \A a \in DOMAIN heap \ Nodes(t) : a \in DOMAIN heap' /\ heap'[a] = heap[a]
      /\ \A a \in DOMAIN heap' : \E b \in DOMAIN heap : heap'[a] = heap[b]
      /\ \A n \in DOMAIN scalars'[t] :
           n \in DOMAIN scalars[s] /\ scalars'[t][n] \in DOMAIN heap' \ (DOMAIN heap \ Nodes(t))
      /\ \A n, m \in DOMAIN scalars'[t] : scalars'[t][n] = scalars'[t][m] => n = m
  BY CopyEffect
<1>2. Drop(t) /\ Forget(Nodes(t)) /\ hand' = hand
  BY DEF CopySet
<1>3. \A u \in Sets \ {t} : \A n \in DOMAIN scalars[u] : scalars[u][n] \in DOMAIN heap \ Nodes(t)
  BY NodesApart
<1>4. Stored'
  BY <1>1, <1>3 DEF IInv, Stored
<1>5. Apart'
  <2>1. ASSUME NEW u \in Sets, NEW v \in Sets, NEW n \in DOMAIN scalars'[u], NEW m \in DOMAIN scalars'[v],
               scalars'[u][n] = scalars'[v][m]
        PROVE  u = v /\ n = m
    BY <1>1, <1>3, <2>1 DEF IInv, Apart
  <2> QED
    BY <2>1 DEF Apart
<1>6. Referenced'
  <2>1. \A u \in Sets \ {t} : Nodes(u)' = Nodes(u)
    BY <1>1 DEF Nodes
  <2> QED
    BY <1>2, <2>1, DropKeeps
<1>7. Accepted'
  <2>1. ASSUME NEW u \in Sets, NEW n \in DOMAIN scalars[u], scalars[u][n] \notin Nodes(t)
        PROVE  n \in DOMAIN scalars'[u] /\ Found(u, n)' = Found(u, n)
    <3>1. u # t
      BY <2>1 DEF Nodes, Range
    <3> QED
      BY <1>1, <1>3, <3>1 DEF Found
  <2> QED
    BY <1>2, <2>1, ForgetKeeps
<1>8. Named'
  BY <1>1, <1>2 DEF IInv, Named
<1> QED
  BY <1>4, <1>5, <1>6, <1>7, <1>8 DEF IInv

\* What was accepted of a set that is moved is accepted of the set it is moved to.
LEMMA MoveStep ==
  ASSUME IInv, NEW s \in Sets, NEW t \in Sets, s # t, MoveSet(s, t)
  PROVE  IInv'
<1>1. /\ DOMAIN scalars' = Sets
      /\ scalars'[t] = scalars[s] /\ DOMAIN scalars'[s] = {}
      /\ \A u \in Sets \ {s, t} : scalars'[u] = scalars[u]
      /\ DOMAIN heap' = DOMAIN heap \ Nodes(t)
      /\ \A a \in DOMAIN heap' : heap'[a] = heap[a]
  BY MoveEffect
<1>2. \A u \in Sets \ {t} : \A n \in DOMAIN scalars[u] : scalars[u][n] \in DOMAIN heap'
  BY <1>1, NodesApart
<1>3. Stored'
  BY <1>1, <1>2 DEF IInv, Stored
<1>4. Apart'
  <2>1. ASSUME NEW u \in Sets, NEW v \in Sets, NEW n \in DOMAIN scalars'[u], NEW m \in DOMAIN scalars'[v],
               scalars'[u][n] = scalars'[v][m]
        PROVE  u = v /\ n = m
    BY <1>1, <2>1 DEF IInv, Apart
  <2> QED
    BY <2>1 DEF Apart
<1>5. Referenced'
  <2>1. Drop(t)
    BY DEF MoveSet
  <2>2. ASSUME NEW u \in Sets \ {t}
        PROVE  \E v \in Sets : Nodes(u) \subseteq Nodes(v)'
    <3>1. CASE u = s
      <4>1. Nodes(u) = Nodes(t)'
        BY <1>1, <3>1 DEF Nodes
      <4> QED
        BY <4>1
    <3>2. CASE u # s
      <4>1. Nodes(u) = Nodes(u)'
        BY <1>1, <3>2 DEF Nodes
      <4> QED
        BY <4>1
    <3> QED
      BY <3>1, <3>2
  <2> QED
    BY <2>1, <2>2, DropKeeps
<1>6. Accepted'
  <2>1. CASE required' = Nothing
    BY <2>1 DEF Accepted
  <2>2. CASE required # Nothing /\ required.set = s /\ required' = [required EXCEPT !.set = t]
    <3>1. required \in Acceptances /\ AcceptedStaysValid
      BY <2>2 DEF IInv, Accepted
    <3>2. /\ required' \in Acceptances /\ required'.set = t /\ required'.name = required.name
          /\ required'.location = required.location /\ required'.size = required.size
      BY <2>2, <3>1 DEF Acceptances
    <3>3. required.name \in DOMAIN scalars[s]
      BY <2>2, <3>1 DEF AcceptedStaysValid
    <3>4. Found(t, required.name)' = Found(s, required.name)
      BY <1>1, <1>2, <3>2, <3>3 DEF Found
    <3>5. AcceptedStaysValid'
      BY <1>1, <2>2, <3>1, <3>2, <3>3, <3>4 DEF AcceptedStaysValid, Found
    <3> QED
      BY <3>2, <3>5 DEF Accepted
  <2>3. CASE required # Nothing /\ required.set \notin {s, t} /\ required' = required
    <3>1. required.set \in Sets \ {s, t} /\ required.name \in DOMAIN scalars[required.set]
      BY <2>3 DEF IInv, Accepted, Acceptances, AcceptedStaysValid
    <3>2. Found(required.set, required.name)' = Found(required.set, required.name)
      BY <1>1, <1>2, <2>3, <3>1 DEF Found
    <3> QED
      BY <1>1, <2>3, <3>1, <3>2, AcceptedKept DEF IInv
  <2> QED
    BY <2>1, <2>2, <2>3 DEF MoveSet
<1>7. Named'
  BY <1>1 DEF MoveSet, IInv, Named
<1> QED
  BY <1>3, <1>4, <1>5, <1>6, <1>7 DEF IInv

LEMMA NextKeepsInv ==
  ASSUME IInv, [Next]_vars
  PROVE  IInv'
<1>1. CASE UNCHANGED vars
  BY <1>1 DEF vars, store, IInv, Stored, Apart, Referenced, Named, Accepted, AcceptedStaysValid, Found, Nodes
<1> QED
  BY <1>1, AddStep, QueryStep, OwnStep, UseStep, CopyStep, MoveStep DEF Next, Call

\* The invariant holds in every reachable state.
LEMMA AlwaysInv == Spec => []IInv
<1>1. IInv /\ [Next]_vars => IInv'
  BY NextKeepsInv
<1> QED
  BY InitIsInv, <1>1, PTL DEF Spec

\* A field that RequireScalar has accepted keeps the location and the size it was
\* accepted for: adding (AddScalarAndReturn), copying and moving sets, and running out
\* of memory do not replace it, for any sets, names and meshes.
THEOREM AcceptedAlwaysStaysValid == Spec => []AcceptedStaysValid
<1>1. IInv => AcceptedStaysValid
  BY DEF IInv, Accepted, AcceptedStaysValid
<1> QED
  BY <1>1, AlwaysInv, PTL

-----------------------------------------------------------------------------
(* The implementation of FieldMap: every step of FieldSet is the step of the *)
(* same name on maps.  Apart makes Fields and Held follow: a node belongs to *)
(* one name of one set, so that writing into it, or destroying it, shows in  *)
(* no other.                                                                 *)

\* The host's reference stands for the one name whose node it points to.
HeldSays ==
  /\ \A s \in Sets : \A n \in DOMAIN scalars[s] : scalars[s][n] = reference => Held = <<s, n>>
  /\ reference = Null => Held = Nothing

LEMMA HeldIsSo == IInv => HeldSays
<1> SUFFICES ASSUME IInv PROVE HeldSays
  OBVIOUS
<1>1. ASSUME NEW s \in Sets, NEW n \in DOMAIN scalars[s], scalars[s][n] = reference
      PROVE  Held = <<s, n>>
  <2> DEFINE P(h) == h[2] \in DOMAIN scalars[h[1]] /\ scalars[h[1]][h[2]] = reference
  <2>1. reference \in Nodes(s)
    BY <1>1 DEF Nodes, Range
  <2>2. <<s, n>> \in Sets \X Names /\ P(<<s, n>>)
    BY <1>1 DEF IInv, Stored
  <2>3. ASSUME NEW h \in Sets \X Names, P(h)
        PROVE  h = <<s, n>>
    <3>1. h = <<h[1], h[2]>> /\ h[1] \in Sets
      OBVIOUS
    <3>2. h[1] = s /\ h[2] = n
      BY <1>1, <2>3, <3>1 DEF IInv, Apart
    <3> QED
      BY <3>1, <3>2
  <2>4. (CHOOSE h \in Sets \X Names : P(h)) = <<s, n>>
    <3> HIDE DEF P
    <3> QED
      BY <2>2, <2>3
  <2> QED
    BY <2>1, <2>4 DEF Held
<1>2. ASSUME reference = Null
      PROVE  Held = Nothing
  <2>1. \A s \in Sets : reference \notin Nodes(s)
    BY <1>2, AddressesAssumption DEF IInv, Stored, Nodes, Range
  <2> QED
    BY <2>1 DEF Held
<1> QED
  BY <1>1, <1>2 DEF HeldSays

\* Both specifications speak of the same fields.
LEMMA SameFields ==
  /\ Promised!MovedFrom = MovedFrom
  /\ Promised!NoMemory = NoMemory
  /\ Promised!Nothing = Nothing
BY DEF Promised!MovedFrom, MovedFrom, Field, Promised!NoMemory, NoMemory, Promised!Nothing, Nothing

\* What is found in a set is what the map holds.
LEMMA FieldsAre ==
  /\ DOMAIN Fields = Sets
  /\ \A s \in Sets : /\ DOMAIN Fields[s] = DOMAIN scalars[s]
                     /\ \A n \in DOMAIN scalars[s] : Fields[s][n] = Found(s, n)
                     /\ Fields[s] = [n \in DOMAIN scalars[s] |-> Found(s, n)]
BY DEF Fields

\* Two sets hold the same map when they have the same names for the same fields.
LEMMA FieldsFollow ==
  ASSUME NEW s \in Sets, NEW t \in Sets, DOMAIN scalars'[t] = DOMAIN scalars[s],
         \A n \in DOMAIN scalars[s] : Found(t, n)' = Found(s, n)
  PROVE  Fields'[t] = Fields[s]
BY DEF Fields

LEMMA InitIsPromised == Init => Promised!Init
<1> SUFFICES ASSUME Init PROVE Promised!Init
  OBVIOUS
<1>1. IInv
  BY InitIsInv
<1>2. \A s \in Sets : DOMAIN scalars[s] = {}
  BY DEF Init
<1>3. \A s \in Sets : [n \in DOMAIN scalars[s] |-> Found(s, n)] = <<>>
  BY <1>2
<1>4. Fields = [s \in Sets |-> <<>>]
  BY <1>3 DEF Fields
<1>5. Held = Nothing
  BY <1>1, HeldIsSo DEF HeldSays, Init
<1> QED
  BY <1>4, <1>5, SameFields DEF Promised!Init, Init

\* Adding is adding to the map, and what the host's reference stood for stays.
LEMMA AddIsPromised ==
  ASSUME IInv, NEW s \in Sets, NEW field, field.name \in Names, AddScalarAndReturn(s, field)
  PROVE  Promised!Add(s, field)
<1>1. Promised!Refusal(s, field.name) = Refusal(s, field.name)
  BY FieldsAre DEF Promised!Refusal, Refusal
<1>2. CASE UNCHANGED store /\ answer' \in {Refusal(s, field.name), NoMemory} \ {"none"}
  <2>1. Fields' = Fields
    BY <1>2 DEF store, Fields, Found
  <2> QED
    BY <1>1, <1>2, <2>1, SameFields DEF Promised!Add
<1>3. CASE /\ answer' = "none"
           /\ Refusal(s, field.name) = "none" /\ field.name \notin DOMAIN scalars[s]
           /\ NewNode \in Addresses /\ NewNode \notin DOMAIN heap
           /\ scalars' = [scalars EXCEPT ![s] = With(scalars[s], field.name, NewNode)]
           /\ heap' = With(heap, NewNode, field)
  <2> DEFINE node == NewNode
  <2>0. node = NewNode
    OBVIOUS
  <2> HIDE DEF node
  <2>1. heap'[node] = field /\ \A a \in DOMAIN heap : heap'[a] = heap[a]
    BY <1>3, <2>0 DEF With
  <2>2. /\ \A u \in Sets \ {s} : scalars'[u] = scalars[u]
        /\ DOMAIN scalars'[s] = DOMAIN scalars[s] \cup {field.name}
        /\ scalars'[s][field.name] = node
        /\ \A n \in DOMAIN scalars[s] : scalars'[s][n] = scalars[s][n]
    BY <1>3, <2>0 DEF With, IInv, Stored
  <2>3. \A u \in Sets : \A n \in DOMAIN scalars[u] : Found(u, n)' = Found(u, n)
    BY <2>1, <2>2 DEF Found, IInv, Stored
  <2>4. \A u \in Sets \ {s} : Fields'[u] = Fields[u]
    BY <2>2, <2>3, FieldsFollow
  <2>5. Fields'[s] = Promised!With(Fields[s], field)
    <3>1. Found(s, field.name)' = field
      BY <2>1, <2>2 DEF Found
    <3>2. Fields'[s] = [n \in DOMAIN scalars'[s] |-> Found(s, n)']
      BY DEF Fields
    <3> QED
      BY <1>3, <2>2, <2>3, <3>1, <3>2, FieldsAre DEF Promised!With
  <2>6. Fields' = [Fields EXCEPT ![s] = Promised!With(Fields[s], field)]
    BY <2>4, <2>5 DEF Fields
  <2> QED
    BY <1>1, <1>3, <2>6 DEF Promised!Add
<1> QED
  BY <1>2, <1>3, AddEffect

\* A reference that keeps its node and name keeps its meaning.
LEMMA HeldStays ==
  ASSUME IInv, IInv', reference' = reference,
         \A s \in Sets : \A n \in DOMAIN scalars[s] :
           scalars[s][n] = reference => n \in DOMAIN scalars'[s] /\ scalars'[s][n] = reference
  PROVE  Held' = Held
<1>1. HeldSays /\ HeldSays'
  BY HeldIsSo, PTL
<1>2. CASE reference = Null
  BY <1>1, <1>2 DEF HeldSays
<1>3. CASE reference # Null
  <2>1. PICK s \in Sets : \E n \in DOMAIN scalars[s] : scalars[s][n] = reference
    BY <1>3 DEF IInv, Referenced, Nodes, Range
  <2> QED
    BY <1>1, <2>1 DEF HeldSays
<1> QED
  BY <1>2, <1>3

\* The calls that add a field.
LEMMA AddStepIsPromised ==
  ASSUME IInv, IInv', NEW s \in Sets
  PROVE  /\ AddScalar(s) => Promised!AddOwn(s)
         /\ \A name \in Names, location \in Locations, mesh \in Meshes :
              AddMeshScalar(s, name, location, mesh) =>
                Promised!AddMade(s, Field(name, location, mesh[location]))
<1>1. ASSUME AddScalar(s)
      PROVE  Promised!AddOwn(s)
  <2>1. /\ AddScalarAndReturn(s, hand) /\ hand' \in {hand, MovedFrom}
        /\ required' = required /\ reference' = reference /\ hand.name \in Names
    BY <1>1 DEF AddScalar, IInv, Named
  <2>2. Held' = Held
    BY <2>1, HeldStays, AddKeeps
  <2> QED
    BY <2>1, <2>2, AddIsPromised, SameFields DEF Promised!AddOwn
<1>2. ASSUME NEW name \in Names, NEW location \in Locations, NEW mesh \in Meshes,
             AddMeshScalar(s, name, location, mesh)
      PROVE  Promised!AddMade(s, Field(name, location, mesh[location]))
  <2> DEFINE field == Field(name, location, mesh[location])
  <2>1. field.name = name
    BY DEF Field
  <2> HIDE DEF field
  <2>2. /\ AddScalarAndReturn(s, field) /\ required' = required /\ hand' = hand
        /\ reference' = IF answer' = "none" THEN NewNode ELSE reference
    BY <1>2 DEF AddMeshScalar, field
  <2>3. Held' = IF answer' = "none" THEN <<s, name>> ELSE Held
    <3>1. CASE answer' = "none"
      <4>1. scalars' = [scalars EXCEPT ![s] = With(scalars[s], name, NewNode)]
        BY <2>1, <2>2, <3>1, AddEffect DEF NoMemory
      <4>2. name \in DOMAIN scalars'[s] /\ scalars'[s][name] = reference'
        BY <2>2, <3>1, <4>1 DEF With, IInv, Stored
      <4>3. HeldSays'
        BY HeldIsSo, PTL
      <4> QED
        BY <3>1, <4>2, <4>3 DEF HeldSays
    <3>2. CASE answer' # "none"
      BY <2>1, <2>2, <3>2, HeldStays, AddKeeps
    <3> QED
      BY <3>1, <3>2
  <2>4. Promised!AddMade(s, field)
    BY <2>1, <2>2, <2>3, AddIsPromised DEF Promised!AddMade
  <2> QED
    BY <2>4 DEF field
<1> QED
  BY <1>1, <1>2

\* Calls that change no set, and those of the host.
LEMMA QueryStepIsPromised ==
  ASSUME IInv, IInv', NEW s \in Sets, NEW name \in Names
  PROVE  /\ Scalar(s, name) => Promised!Find(s, name)
         /\ \A location \in Locations, mesh \in Meshes :
              RequireScalar(s, name, location, mesh[location]) =>
                Promised!RequireHere(s, name, location, mesh[location])
<1>1. ASSUME Scalar(s, name)
      PROVE  Promised!Find(s, name)
  <2>1. UNCHANGED <<scalars, heap, hand>>
    BY <1>1 DEF Scalar, store
  <2>2. Fields' = Fields
    BY <2>1 DEF Fields, Found
  <2>3. CASE name \in DOMAIN scalars[s]
    <3>1. reference' = scalars'[s][name] /\ name \in DOMAIN scalars'[s] /\ answer' = "none"
      BY <1>1, <2>1, <2>3 DEF Scalar
    <3>2. HeldSays'
      BY HeldIsSo, PTL
    <3>3. Held' = <<s, name>>
      BY <3>1, <3>2 DEF HeldSays
    <3> QED
      BY <2>1, <2>2, <2>3, <3>1, <3>3, FieldsAre DEF Promised!Find
  <2>4. CASE name \notin DOMAIN scalars[s]
    <3>1. reference' = reference /\ answer' = "field.not_found"
      BY <1>1, <2>4 DEF Scalar
    <3>2. Held' = Held
      BY <2>1, <3>1, HeldStays
    <3> QED
      BY <2>1, <2>2, <2>4, <3>1, <3>2, FieldsAre DEF Promised!Find
  <2> QED
    BY <2>3, <2>4
<1>2. ASSUME NEW location \in Locations, NEW mesh \in Meshes,
             RequireScalar(s, name, location, mesh[location])
      PROVE  Promised!RequireHere(s, name, location, mesh[location])
  <2>1. UNCHANGED <<scalars, heap, reference, hand>>
    BY <1>2 DEF RequireScalar, store
  <2>2. Fields' = Fields /\ Held' = Held
    BY <2>1, HeldStays DEF Fields, Found
  <2>3. answer' = Requirement(s, name, location, mesh[location])
    BY <1>2 DEF RequireScalar
  <2>4. CASE name \in DOMAIN scalars[s]
    <3>1. name \in DOMAIN Fields[s] /\ Fields[s][name] = Found(s, name)
      BY <2>4, FieldsAre
    <3> QED
      BY <2>1, <2>2, <2>3, <2>4, <3>1 DEF Promised!RequireHere, Requirement
  <2>5. CASE name \notin DOMAIN scalars[s]
    <3>1. name \notin DOMAIN Fields[s]
      BY <2>5, FieldsAre
    <3> QED
      BY <2>1, <2>2, <2>3, <2>5, <3>1 DEF Promised!RequireHere, Requirement
  <2> QED
    BY <2>4, <2>5
<1> QED
  BY <1>1, <1>2

LEMMA HostStepIsPromised ==
  ASSUME IInv, IInv'
  PROVE  /\ Handle => Promised!Handle
         /\ \A o \in Own : MakeField(o) => Promised!MakeOwn
         /\ Assign \/ Take => Promised!Use
<1>1. ASSUME Handle
      PROVE  Promised!Handle
  <2>1. UNCHANGED <<scalars, heap, reference, hand>> /\ answer' = "none"
    BY <1>1 DEF Handle, store
  <2>2. Fields' = Fields /\ Held' = Held
    BY <2>1, HeldStays DEF Fields, Found
  <2> QED
    BY <2>1, <2>2 DEF Promised!Handle
<1>2. ASSUME NEW o \in Own, MakeField(o)
      PROVE  Promised!MakeOwn
  <2>1. /\ UNCHANGED <<scalars, heap, reference>>
        /\ answer' \in {"none", "field.invalid_location"} /\ (answer' # "none" => hand' = hand)
    BY <1>2 DEF MakeField, store
  <2>2. Fields' = Fields /\ Held' = Held
    BY <2>1, HeldStays DEF Fields, Found
  <2> QED
    BY <2>1, <2>2 DEF Promised!MakeOwn
<1>3. ASSUME Assign \/ Take
      PROVE  Promised!Use
  <2>1. /\ scalars' = scalars /\ reference' = reference /\ answer' = answer
        /\ hand' \in {hand, heap[reference]}
        /\ \A a \in DOMAIN heap : a # reference => heap'[a] = heap[a]
        /\ reference # Null
    BY <1>3 DEF Assign, Take
  <2>2. PICK s \in Sets : \E n \in DOMAIN scalars[s] : scalars[s][n] = reference
    BY <2>1 DEF IInv, Referenced, Nodes, Range
  <2>3. PICK n \in DOMAIN scalars[s] : scalars[s][n] = reference
    BY <2>2
  <2>4. HeldSays
    BY HeldIsSo
  <2>5. Held = <<s, n>>
    BY <2>3, <2>4 DEF HeldSays
  <2>6. Held # Promised!Nothing /\ Held[1] = s /\ Held[2] = n
    BY <2>5 DEF Promised!Nothing
  <2>7. Fields[s][n] = heap[reference]
    BY <2>3, FieldsAre DEF Found
  <2>8. Held' = Held
    BY <2>1, HeldStays
  <2>9. ASSUME NEW u \in Sets
        PROVE  /\ DOMAIN Fields'[u] = DOMAIN Fields[u]
               /\ \A m \in DOMAIN Fields[u] : <<u, m>> # Held => Fields'[u][m] = Fields[u][m]
    <3>1. DOMAIN Fields'[u] = DOMAIN Fields[u] /\ DOMAIN Fields[u] = DOMAIN scalars[u]
      BY <2>1 DEF Fields
    <3>2. ASSUME NEW m \in DOMAIN scalars[u], <<u, m>> # Held
          PROVE  Fields'[u][m] = Fields[u][m]
      <4>1. scalars[u][m] # reference /\ scalars[u][m] \in DOMAIN heap
        BY <2>4, <3>2 DEF HeldSays, IInv, Stored
      <4>2. Found(u, m)' = Found(u, m)
        BY <2>1, <4>1 DEF Found
      <4> QED
        BY <2>1, <4>2 DEF Fields
    <3> QED
      BY <3>1, <3>2
  <2> QED
    BY <2>1, <2>6, <2>7, <2>8, <2>9 DEF Promised!Use
<1> QED
  BY <1>1, <1>2, <1>3

\* A reference whose node is destroyed stands for nothing any more; one whose node
\* stays stands for the name that has it now.
LEMMA CopyIsPromised ==
  ASSUME IInv, IInv', NEW s \in Sets, NEW t \in Sets, s # t, CopySet(s, t)
  PROVE  Promised!Copy(s, t)
<1>1. HeldSays /\ HeldSays'
  BY HeldIsSo, PTL
<1>2. Drop(t) /\ hand' = hand
  BY DEF CopySet
<1>3. \A u \in Sets \ {t} : Fields'[u] = Fields[u]
  <2>1. ASSUME NEW u \in Sets \ {t}
        PROVE  /\ DOMAIN scalars'[u] = DOMAIN scalars[u]
               /\ \A n \in DOMAIN scalars[u] : Found(u, n)' = Found(u, n)
    BY CopyEffect, NodesApart DEF Found
  <2> QED
    BY <2>1, FieldsFollow
<1>4. \/ answer' = "none" /\ Fields'[t] = Fields[s]
      \/ answer' = NoMemory /\ Fields'[t] = <<>>
  <2>1. CASE /\ answer' = "none"
             /\ DOMAIN scalars'[t] = DOMAIN scalars[s]
             /\ \A n \in DOMAIN scalars[s] : heap'[scalars'[t][n]] = Found(s, n)
    <3>1. \A n \in DOMAIN scalars[s] : Found(t, n)' = Found(s, n)
      BY <2>1 DEF Found
    <3> QED
      BY <2>1, <3>1, FieldsFollow
  <2>2. CASE answer' = NoMemory /\ DOMAIN scalars'[t] = {}
    <3>1. Fields'[t] = [n \in DOMAIN scalars'[t] |-> Found(t, n)']
      BY DEF Fields
    <3>2. [n \in DOMAIN scalars'[t] |-> Found(t, n)'] = <<>>
      BY <2>2
    <3> QED
      BY <2>2, <3>1, <3>2
  <2> QED
    BY <2>1, <2>2, CopyEffect
<1>5. Fields' = [Fields EXCEPT ![t] = IF answer' = "none" THEN Fields[s] ELSE <<>>]
  BY <1>3, <1>4 DEF Fields, NoMemory
<1>6. Held' = Promised!LoseReferencesInto(t)
  <2>1. CASE reference = Null
    <3>1. reference' = Null
      BY <1>2, <2>1 DEF Drop
    <3> QED
      BY <1>1, <2>1, <3>1, SameFields DEF HeldSays, Promised!LoseReferencesInto
  <2>2. ASSUME NEW u \in Sets, NEW n \in DOMAIN scalars[u], scalars[u][n] = reference
        PROVE  Held' = Promised!LoseReferencesInto(t)
    <3>1. Held = <<u, n>> /\ Held # Nothing /\ Held[1] = u
      BY <1>1, <2>2 DEF HeldSays, Nothing
    <3>2. CASE u = t
      <4>1. reference' = Null
        BY <1>2, <2>2, <3>2 DEF Drop, Nodes, Range
      <4> QED
        BY <1>1, <3>1, <3>2, <4>1, SameFields DEF HeldSays, Promised!LoseReferencesInto
    <3>3. CASE u # t
      <4>1. reference' = reference
        BY <1>2, <2>2, <3>3, NodesApart DEF Drop
      <4>2. scalars'[u] = scalars[u]
        BY <3>3, CopyEffect
      <4>3. Held' = <<u, n>>
        BY <1>1, <2>2, <4>1, <4>2 DEF HeldSays
      <4> QED
        BY <3>1, <3>3, <4>3, SameFields DEF Promised!LoseReferencesInto
    <3> QED
      BY <3>2, <3>3
  <2> QED
    BY <2>1, <2>2 DEF IInv, Referenced, Nodes, Range
<1> QED
  BY <1>2, <1>4, <1>5, <1>6, SameFields DEF Promised!Copy

LEMMA MoveIsPromised ==
  ASSUME IInv, IInv', NEW s \in Sets, NEW t \in Sets, s # t, MoveSet(s, t)
  PROVE  Promised!Move(s, t)
<1>1. HeldSays /\ HeldSays'
  BY HeldIsSo, PTL
<1>2. Drop(t) /\ hand' = hand /\ answer' = "none"
  BY DEF MoveSet
<1>3. /\ scalars'[t] = scalars[s] /\ DOMAIN scalars'[s] = {}
      /\ \A u \in Sets \ {s, t} : scalars'[u] = scalars[u]
      /\ DOMAIN heap' = DOMAIN heap \ Nodes(t)
      /\ \A a \in DOMAIN heap' : heap'[a] = heap[a]
  BY MoveEffect
<1>4. \A u \in Sets \ {t} : \A n \in DOMAIN scalars[u] : heap'[scalars[u][n]] = Found(u, n)
  BY <1>3, NodesApart DEF Found
<1>5. Fields'[t] = Fields[s] /\ \A u \in Sets \ {s, t} : Fields'[u] = Fields[u]
  BY <1>3, <1>4, FieldsFollow DEF Found
<1>6. Fields'[s] = <<>>
  <2>1. Fields'[s] = [n \in DOMAIN scalars'[s] |-> Found(s, n)']
    BY DEF Fields
  <2>2. [n \in DOMAIN scalars'[s] |-> Found(s, n)'] = <<>>
    BY <1>3
  <2> QED
    BY <2>1, <2>2
<1>7. Fields' = [Fields EXCEPT ![t] = Fields[s], ![s] = <<>>]
  BY <1>5, <1>6 DEF Fields
<1>8. Held' = IF Held # Nothing /\ Held[1] = s THEN <<t, Held[2]>> ELSE Promised!LoseReferencesInto(t)
  <2>1. CASE reference = Null
    <3>1. reference' = Null
      BY <1>2, <2>1 DEF Drop
    <3> QED
      BY <1>1, <2>1, <3>1, SameFields DEF HeldSays, Promised!LoseReferencesInto
  <2>2. ASSUME NEW u \in Sets, NEW n \in DOMAIN scalars[u], scalars[u][n] = reference
        PROVE  Held' = IF Held # Nothing /\ Held[1] = s THEN <<t, Held[2]>>
                       ELSE Promised!LoseReferencesInto(t)
    <3>1. Held = <<u, n>> /\ Held # Nothing /\ Held[1] = u /\ Held[2] = n
      BY <1>1, <2>2 DEF HeldSays, Nothing
    <3>2. CASE u = t
      <4>1. reference' = Null
        BY <1>2, <2>2, <3>2 DEF Drop, Nodes, Range
      <4> QED
        BY <1>1, <3>1, <3>2, <4>1, SameFields DEF HeldSays, Promised!LoseReferencesInto
    <3>3. CASE u # t
      <4>1. reference' = reference
        BY <1>2, <2>2, <3>3, NodesApart DEF Drop
      <4>2. CASE u = s
        <5>1. Held' = <<t, n>>
          BY <1>1, <1>3, <2>2, <4>1, <4>2 DEF HeldSays
        <5> QED
          BY <3>1, <4>2, <5>1
      <4>3. CASE u # s
        <5>1. Held' = <<u, n>>
          BY <1>1, <1>3, <2>2, <3>3, <4>1, <4>3 DEF HeldSays
        <5> QED
          BY <3>1, <3>3, <4>3, <5>1, SameFields DEF Promised!LoseReferencesInto
      <4> QED
        BY <4>2, <4>3
    <3> QED
      BY <3>2, <3>3
  <2> QED
    BY <2>1, <2>2 DEF IInv, Referenced, Nodes, Range
<1> QED
  BY <1>2, <1>7, <1>8, SameFields DEF Promised!Move

\* Every step is the step of the same name on maps, or none.
LEMMA StepIsPromised ==
  ASSUME IInv, IInv', [Next]_vars
  PROVE  [Promised!Next]_(Promised!vars)
<1>1. CASE UNCHANGED vars
  BY <1>1, HeldStays DEF vars, store, Promised!vars, Fields, Found
<1>2. ASSUME NEW s \in Sets, AddScalar(s)
      PROVE  Promised!Next
  BY <1>2, AddStepIsPromised DEF Promised!Next
<1>3. ASSUME NEW s \in Sets, NEW name \in Names, NEW location \in Locations, NEW mesh \in Meshes,
             AddMeshScalar(s, name, location, mesh)
      PROVE  Promised!Next
  <2>1. Promised!AddMade(s, Field(name, location, mesh[location]))
    BY <1>3, AddStepIsPromised
  <2> QED
    BY <2>1 DEF Promised!Next
<1>4. ASSUME NEW s \in Sets, NEW name \in Names, Scalar(s, name)
      PROVE  Promised!Next
  BY <1>4, QueryStepIsPromised DEF Promised!Next
<1>5. ASSUME NEW s \in Sets, NEW name \in Names, NEW location \in Locations, NEW mesh \in Meshes,
             RequireScalar(s, name, location, mesh[location])
      PROVE  Promised!Next
  <2>1. Promised!RequireHere(s, name, location, mesh[location])
    BY <1>5, QueryStepIsPromised
  <2>2. mesh[location] \in UNION {Range(m) : m \in Meshes}
    BY MeshesAssumption DEF Range
  <2> QED
    BY <2>1, <2>2 DEF Promised!Next
<1>6. ASSUME NEW s \in Sets, NEW t \in Sets \ {s}, CopySet(s, t) \/ MoveSet(s, t)
      PROVE  Promised!Next
  BY <1>6, CopyIsPromised, MoveIsPromised DEF Promised!Next
<1>7. ASSUME Handle \/ Assign \/ Take \/ \E o \in Own : MakeField(o)
      PROVE  Promised!Next
  BY <1>7, HostStepIsPromised DEF Promised!Next
<1> QED
  BY <1>1, <1>2, <1>3, <1>4, <1>5, <1>6, <1>7 DEF Next, Call

\* The sets are maps from names to fields and references are names, for any number of
\* sets, names, meshes and nodes: nodes that stay where they are (Emplace), nodes that
\* move with their set, and nodes that are used again make no difference to a host
\* that gives up its references into what it assigns to.
THEOREM FieldSetImplementsFieldMap == Spec => ImplementsFieldMap
<1>1. IInv /\ IInv' /\ [Next]_vars => [Promised!Next]_(Promised!vars)
  BY StepIsPromised
<1> QED
  BY <1>1, InitIsPromised, AlwaysInv, PTL DEF Spec, ImplementsFieldMap, Promised!Spec
=============================================================================
