----------------------- MODULE GradientRegistryProofs -----------------------
(***************************************************************************)
(* Proofs about GradientRegistry for any names, any builders and any       *)
(* nesting.  NamesRunTheirBuilder is not inductive: a call that begins     *)
(* takes its builder from the table, so what the table holds under a       *)
(* custom name has to be the host's last choice as well (TableIsChosen).   *)
(***************************************************************************)
EXTENDS GradientRegistry, Integers, SequenceTheorems, TLAPS

Builders == CustomBuilders \cup DefaultNames
Choices  == CustomBuilders \cup {Unregistered}
Frame    == [name : Names, builder : Builders, last : Choices, replaced : BOOLEAN]

Typed ==
  /\ DOMAIN registry \subseteq Names
  /\ \A n \in DOMAIN registry : registry[n] \in Builders
  /\ chosen \in [Names -> Choices]
  /\ frames \in Seq(Frame)

\* Converse of the second half of NamesRunTheirBuilder.
TableIsChosen == \A n \in CustomNames \cap DOMAIN registry : registry[n] = chosen[n]

RanAsNamed(f) == f.builder = IF f.name \in CustomNames THEN f.last ELSE f.name

IInv == Typed /\ TableIsChosen /\ NamesRunTheirBuilder

\* Marking function objects as overwritten changes nothing else in the frames.
LEMMA OverwriteProperties ==
  ASSUME NEW names, frames \in Seq(Frame)
  PROVE  /\ Overwrite(names) \in Seq(Frame)
         /\ DOMAIN Overwrite(names) = DOMAIN frames
         /\ \A i \in DOMAIN frames :
              /\ Overwrite(names)[i].name = frames[i].name
              /\ Overwrite(names)[i].builder = frames[i].builder
              /\ Overwrite(names)[i].last = frames[i].last
              /\ Overwrite(names)[i].replaced = (frames[i].replaced \/ frames[i].name \in names)
<1> DEFINE marked(i) == [frames[i] EXCEPT !.replaced = @ \/ frames[i].name \in names]
<1>1. Len(frames) \in Nat /\ DOMAIN frames = 1..Len(frames)
  BY LenProperties
<1>2. \A i \in DOMAIN frames : frames[i] \in Frame
  BY <1>1, ElementOfSeq
<1>3. ASSUME NEW i \in DOMAIN frames
      PROVE  /\ marked(i) \in Frame
             /\ marked(i).name = frames[i].name
             /\ marked(i).builder = frames[i].builder
             /\ marked(i).last = frames[i].last
             /\ marked(i).replaced = (frames[i].replaced \/ frames[i].name \in names)
  BY <1>2, <1>3 DEF Frame
<1> HIDE DEF marked
<1>4. Overwrite(names) = [i \in 1..Len(frames) |-> marked(i)]
  BY <1>1 DEF Overwrite, marked
<1>5. [i \in 1..Len(frames) |-> marked(i)] \in Seq(Frame)
  BY <1>1, <1>3, IsASeq
<1> QED
  BY <1>1, <1>3, <1>4, <1>5

\* Putting the defaults back gives each default its own builder and leaves the
\* custom names alone.
LEMMA WithDefaultsProperties ==
  /\ DOMAIN WithDefaults = DefaultNames \cup DOMAIN registry
  /\ \A n \in DefaultNames : WithDefaults[n] = n
  /\ \A n \in DOMAIN registry \ DefaultNames : WithDefaults[n] = registry[n]
BY DEF WithDefaults

\* A call that ends leaves the calls around it as they were.
LEMMA DropTopProperties ==
  ASSUME frames \in Seq(Frame)
  PROVE  /\ DropTop \in Seq(Frame)
         /\ DOMAIN DropTop \subseteq DOMAIN frames
         /\ \A i \in DOMAIN DropTop : DropTop[i] = frames[i]
<1> DEFINE last == Len(frames) - 1
<1>1. /\ DOMAIN frames = 1..Len(frames) /\ last \in Int /\ 1..last \subseteq 1..Len(frames)
      /\ \A i \in 1..last : frames[i] \in Frame
  BY LenProperties, ElementOfSeq
<1>2. /\ DropTop \in Seq(Frame)
      /\ Len(DropTop) = IF 1 <= last THEN last - 1 + 1 ELSE 0
      /\ \A i \in 1..(last - 1 + 1) : DropTop[i] = frames[1 + i - 1]
  BY <1>1, SubSeqProperties DEF DropTop
<1>3. 1..(IF 1 <= last THEN last - 1 + 1 ELSE 0) = 1..last
  BY <1>1
<1>4. DOMAIN DropTop = 1..last
  BY <1>2, <1>3, LenProperties
<1>5. \A i \in 1..last : i \in 1..(last - 1 + 1) /\ 1 + i - 1 = i
  BY <1>1
<1> QED
  BY <1>1, <1>2, <1>4, <1>5

-----------------------------------------------------------------------------
(* The invariant *)

\* Nothing is registered and nothing runs at the start.
LEMMA InitIsInv == Init => IInv
<1> SUFFICES ASSUME Init PROVE IInv
  OBVIOUS
<1>1. DOMAIN registry = {} /\ DOMAIN frames = {} /\ frames \in Seq(Frame)
  BY EmptySeq DEF Init
<1>2. chosen \in [Names -> Choices] /\ \A n \in CustomNames : chosen[n] = Unregistered
  BY DEF Init, Choices, Names
<1> QED
  BY <1>1, <1>2 DEF IInv, Typed, TableIsChosen, NamesRunTheirBuilder

\* The table after the defaults were put back, whoever asks for it.
LEMMA DefaultsKeepTable ==
  ASSUME IInv, registry' = WithDefaults, chosen' = chosen
  PROVE  /\ DOMAIN registry' \subseteq Names
         /\ \A n \in DOMAIN registry' : registry'[n] \in Builders
         /\ chosen' \in [Names -> Choices]
         /\ TableIsChosen'
         /\ \A n \in CustomNames :
              chosen'[n] # Unregistered => n \in DOMAIN registry' /\ registry'[n] = chosen'[n]
         /\ \A n \in DefaultNames : registry'[n] = n
<1>1. \A n \in CustomNames : n \notin DefaultNames
  BY NamesAssumption
<1>2. DefaultNames \subseteq Names /\ DefaultNames \subseteq Builders
  BY DEF Names, Builders
<1> QED
  BY <1>1, <1>2, WithDefaultsProperties DEF IInv, Typed, TableIsChosen, NamesRunTheirBuilder

\* The frames after some function objects were overwritten still run as named.
LEMMA OverwriteKeepsFrames ==
  ASSUME IInv, NEW names
  PROVE  /\ Overwrite(names) \in Seq(Frame)
         /\ DOMAIN Overwrite(names) = DOMAIN frames
         /\ \A i \in DOMAIN Overwrite(names) : RanAsNamed(Overwrite(names)[i])
<1>1. frames \in Seq(Frame) /\ \A i \in DOMAIN frames : RanAsNamed(frames[i])
  BY DEF IInv, Typed, NamesRunTheirBuilder, RanAsNamed
<1> QED
  BY <1>1, OverwriteProperties DEF RanAsNamed

\* Every step keeps the invariant.
LEMMA NextKeepsInv == IInv /\ [Next]_vars => IInv'
<1> SUFFICES ASSUME IInv, [Next]_vars PROVE IInv'
  OBVIOUS
<1>0. frames \in Seq(Frame) /\ \A i \in DOMAIN frames : RanAsNamed(frames[i])
  BY DEF IInv, Typed, NamesRunTheirBuilder, RanAsNamed
<1>1. ASSUME NEW n \in Names, NEW b \in CustomBuilders, RegisterCellGradientMethod(n, b)
      PROVE  IInv'
  <2>1. registry' = WithMethod(n, b) /\ chosen' = [chosen EXCEPT ![n] = b] /\ frames' = Overwrite({n})
    BY <1>1 DEF RegisterCellGradientMethod
  <2>2. chosen' \in [Names -> Choices] /\ chosen'[n] = b
        /\ \A k \in Names \ {n} : chosen'[k] = chosen[k]
    BY <2>1 DEF IInv, Typed, Choices
  <2>3. /\ DOMAIN registry' = {n} \cup DOMAIN registry
        /\ registry'[n] = b
        /\ \A k \in DOMAIN registry \ {n} : registry'[k] = registry[k]
    BY <2>1 DEF WithMethod
  <2>4. frames' \in Seq(Frame) /\ \A i \in DOMAIN frames' : RanAsNamed(frames'[i])
    BY <2>1, OverwriteKeepsFrames
  <2>5. DOMAIN registry' \subseteq Names /\ \A k \in DOMAIN registry' : registry'[k] \in Builders
    BY <2>3 DEF IInv, Typed, Builders
  <2>6. TableIsChosen'
    BY <2>2, <2>3, <2>5 DEF IInv, TableIsChosen
  <2>7. \A k \in CustomNames :
          chosen'[k] # Unregistered => k \in DOMAIN registry' /\ registry'[k] = chosen'[k]
    BY <2>2, <2>3 DEF IInv, NamesRunTheirBuilder, Names
  <2> QED
    BY <2>2, <2>4, <2>5, <2>6, <2>7 DEF IInv, Typed, NamesRunTheirBuilder, RanAsNamed
<1>2. CASE RegistrationRefused
  BY <1>2 DEF RegistrationRefused, IInv, Typed, TableIsChosen, NamesRunTheirBuilder
<1>3. CASE RegisteredCellGradientMethods
  <2>1. registry' = WithDefaults /\ chosen' = chosen /\ frames' = Overwrite(EnsureAssigns)
    BY <1>3 DEF RegisteredCellGradientMethods
  <2> QED
    BY <2>1, DefaultsKeepTable, OverwriteKeepsFrames
    DEF IInv, Typed, NamesRunTheirBuilder, RanAsNamed
<1>4. ASSUME NEW n \in Names, BuildCellGradientWorkspace(n)
      PROVE  IInv'
  <2> DEFINE pushed == [name |-> n, builder |-> registry'[n], last |-> chosen[n], replaced |-> FALSE]
             others == Overwrite(EnsureAssigns)
  <2>1. /\ registry' = WithDefaults /\ chosen' = chosen /\ n \in DOMAIN registry'
        /\ frames' = Append(others, pushed)
    BY <1>4 DEF BuildCellGradientWorkspace
  <2>2. others \in Seq(Frame) /\ \A i \in DOMAIN others : RanAsNamed(others[i])
    BY OverwriteKeepsFrames
  <2>3. pushed \in Frame
    BY <2>1, DefaultsKeepTable DEF Frame, IInv, Typed
  <2>4. RanAsNamed(pushed)
    <3>1. CASE n \in CustomNames
      BY <2>1, <3>1, DefaultsKeepTable DEF RanAsNamed, TableIsChosen
    <3>2. CASE n \notin CustomNames
      BY <2>1, <3>2, DefaultsKeepTable DEF RanAsNamed, Names
    <3> QED
      BY <3>1, <3>2
  <2> HIDE DEF pushed, others
  <2>5. /\ frames' \in Seq(Frame)
        /\ \A i \in DOMAIN frames' : frames'[i] = pushed \/ (i \in DOMAIN others /\ frames'[i] = others[i])
    BY <2>1, <2>2, <2>3, AppendProperties, LenProperties
  <2>6. \A i \in DOMAIN frames' : RanAsNamed(frames'[i])
    BY <2>2, <2>4, <2>5
  <2> QED
    BY <2>1, <2>5, <2>6, DefaultsKeepTable DEF IInv, Typed, NamesRunTheirBuilder, RanAsNamed
<1>5. ASSUME NEW n \in Names, BuildUnsupported(n)
      PROVE  IInv'
  <2>1. registry' = WithDefaults /\ chosen' = chosen /\ frames' = Overwrite(EnsureAssigns)
    BY <1>5 DEF BuildUnsupported
  <2> QED
    BY <2>1, DefaultsKeepTable, OverwriteKeepsFrames
    DEF IInv, Typed, NamesRunTheirBuilder, RanAsNamed
<1>6. ASSUME frames' = DropTop, UNCHANGED <<registry, chosen>>
      PROVE  IInv'
  <2>1. frames' \in Seq(Frame) /\ \A i \in DOMAIN frames' : RanAsNamed(frames'[i])
    BY <1>0, <1>6, DropTopProperties
  <2> QED
    BY <1>6, <2>1 DEF IInv, Typed, TableIsChosen, NamesRunTheirBuilder, RanAsNamed
<1>7. CASE BuilderReturns
  BY <1>6, <1>7 DEF BuilderReturns
<1>8. CASE BuilderThrows
  BY <1>8 DEF BuilderThrows, IInv, Typed, TableIsChosen, NamesRunTheirBuilder
<1>9. CASE Propagate
  BY <1>6, <1>9 DEF Propagate
<1>10. CASE UNCHANGED vars
  BY <1>10 DEF vars, IInv, Typed, TableIsChosen, NamesRunTheirBuilder
<1> QED
  BY <1>1, <1>2, <1>3, <1>4, <1>5, <1>7, <1>8, <1>9, <1>10 DEF Next

\* The strengthened invariant holds in every reachable state.
LEMMA AlwaysInv == Spec => []IInv
BY InitIsInv, NextKeepsInv, PTL DEF Spec

\* However registrations and builds nest inside running builders, a call under a
\* custom name runs the builder the host had registered last when it began, a call
\* under a default name runs the built-in builder, and the table never loses a
\* custom registration (MethodRegistry, EnsureDefaultMethodsRegistered).
THEOREM NamesAlwaysRunTheirBuilder == Spec => []NamesRunTheirBuilder
<1>1. IInv => NamesRunTheirBuilder
  BY DEF IInv
<1> QED
  BY <1>1, AlwaysInv, PTL

-----------------------------------------------------------------------------
(* Who overwrites the function object of a running builder *)

\* A running builder of the host's was found under a custom name.
LEMMA HostBuildersHaveCustomNames ==
  ASSUME IInv, NEW i \in DOMAIN frames, frames[i].builder \in CustomBuilders
  PROVE  frames[i].name \notin DefaultNames
BY NamesAssumption DEF IInv, NamesRunTheirBuilder, Names

\* EnsureDefaultMethodsRegistered runs inside every build and every listing, so it
\* often runs below a builder that is still executing; it never assigns to that
\* builder's own function object, which would destroy it while it runs.
THEOREM OnlyTheHostEverReplacesRunning == Spec => OnlyTheHostReplacesRunning
<1> DEFINE HostDidIt(i) == \E b \in CustomBuilders : RegisterCellGradientMethod(frames[i].name, b)
           Step == \A i \in DOMAIN frames :
                     /\ i \in DOMAIN frames'
                     /\ frames[i].builder \in CustomBuilders
                     /\ ~frames[i].replaced /\ frames'[i].replaced
                     => HostDidIt(i)
<1>1. ASSUME IInv, [Next]_vars
      PROVE  [Step]_vars
  <2> SUFFICES ASSUME Next, NEW i \in DOMAIN frames, i \in DOMAIN frames',
                      frames[i].builder \in CustomBuilders,
                      ~frames[i].replaced, frames'[i].replaced
               PROVE  HostDidIt(i)
    BY <1>1 DEF vars
  <2>1. frames \in Seq(Frame) /\ frames[i].name \notin DefaultNames
    BY <1>1, HostBuildersHaveCustomNames DEF IInv, Typed
  <2>2. ASSUME NEW n \in Names, NEW b \in CustomBuilders, RegisterCellGradientMethod(n, b)
        PROVE  HostDidIt(i)
    <3>1. frames[i].name = n
      BY <2>1, <2>2, OverwriteProperties DEF RegisterCellGradientMethod
    <3> QED
      BY <2>2, <3>1
  <2>3. Overwrite(EnsureAssigns)[i].replaced = FALSE
    BY <2>1, OverwriteProperties DEF EnsureAssigns
  <2>4. ~RegisteredCellGradientMethods
    BY <2>3 DEF RegisteredCellGradientMethods
  <2>5. ASSUME NEW n \in Names, BuildCellGradientWorkspace(n)
        PROVE  FALSE
    <3> DEFINE others == Overwrite(EnsureAssigns)
    <3>1. PICK pushed : frames' = Append(others, pushed)
      BY <2>5 DEF BuildCellGradientWorkspace
    <3>2. others \in Seq(Frame) /\ i \in DOMAIN others /\ DOMAIN others = 1..Len(others)
      BY <2>1, OverwriteProperties, LenProperties
    <3> HIDE DEF others
    <3>3. frames'[i] = others[i]
      BY <3>1, <3>2
    <3> QED
      BY <2>3, <3>3 DEF others
  <2>6. ASSUME NEW n \in Names, BuildUnsupported(n)
        PROVE  FALSE
    BY <2>3, <2>6 DEF BuildUnsupported
  <2>7. ~(frames' = DropTop) /\ ~(frames' = frames)
    BY <2>1, DropTopProperties
  <2> QED
    BY <2>2, <2>4, <2>5, <2>6, <2>7
    DEF Next, RegistrationRefused, BuilderReturns, BuilderThrows, Propagate
<1>2. Spec => [][Step]_vars
  BY <1>1, AlwaysInv, PTL DEF Spec
<1> QED
  BY <1>2 DEF OnlyTheHostReplacesRunning
=============================================================================
