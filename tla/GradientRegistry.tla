-------------------------- MODULE GradientRegistry --------------------------
(***************************************************************************)
(* The registry of cell-gradient methods (src/Numerics/Gradient/           *)
(* Gradient.cc): workspace builders under textual names.  A builder is     *)
(* called out of the registry and may itself register methods and build    *)
(* other workspaces before it returns, as the forwarding builder of        *)
(* tests/integration/tst_gradient_methods.cc does, so calls nest.  Both    *)
(* BuildCellGradientWorkspace and RegisteredCellGradientMethods register   *)
(* the two default methods again, every time.                              *)
(***************************************************************************)
EXTENDS Sequences, Naturals

CONSTANTS
  CustomNames,      \* the names the host program invents
  CustomBuilders,   \* the builders it provides
  MaxNesting        \* bound: builders running inside one another

WLS == "weighted_least_squares_normal_equations"
GG  == "classical_green_gauss"
DefaultNames == {WLS, GG}
Names        == DefaultNames \cup CustomNames
Unregistered == "unregistered"

ASSUME NamesAssumption == CustomNames \cap DefaultNames = {} /\ CustomBuilders \cap DefaultNames = {}
ASSUME NestingAssumption == MaxNesting \in Nat

VARIABLES
  registry,   \* MethodRegistry(): from names to builders
  chosen,     \* history: the builder the host last registered under each name
  frames,     \* the BuildCellGradientWorkspace calls in progress, outermost first
  failing,    \* an exception is leaving the innermost call
  outcome     \* how the last call ended: the error code, or the builder that ran

vars == <<registry, chosen, frames, failing, outcome>>

Init ==
  /\ registry = <<>>
  /\ chosen = [n \in Names |-> Unregistered]
  /\ frames = <<>>
  /\ failing = FALSE
  /\ outcome = "none"

-----------------------------------------------------------------------------

Top == frames[Len(frames)]
DropTop == SubSeq(frames, 1, Len(frames) - 1)

\* Host code runs outside every build, or inside a builder of its own, or in a
\* weighting policy that the least-squares builder calls.
HostRuns == ~failing /\ (frames # <<>> => Top.builder # GG)

\* An exception raised here leaves the innermost builder unless it is caught
\* there; outside every builder it is the host's.
MayFail == IF frames = <<>> THEN {FALSE} ELSE BOOLEAN

\* The std::function objects that an assignment to these names overwrites.
Overwrite(names) ==
  [i \in DOMAIN frames |-> [frames[i] EXCEPT !.replaced = @ \/ frames[i].name \in names]]

\* A default builder, Method::BuildWorkspace, is named like its method.  Mutant:
\* the defaults are added once.
DefaultsIfMissing ==
  [n \in DefaultNames \cup DOMAIN registry |-> IF n \in DOMAIN registry THEN registry[n] ELSE n]
WithDefaults ==
  [n \in DefaultNames \cup DOMAIN registry |-> IF n \in DefaultNames THEN n ELSE registry[n]]

\* What EnsureDefaultMethodsRegistered assigns.  Mutant: every name of the table.
EnsureAssignsAll == Names
EnsureAssigns    == DefaultNames

WithMethod(n, b) == [k \in {n} \cup DOMAIN registry |-> IF k = n THEN b ELSE registry[k]]

RegisterCellGradientMethod(n, b) ==
  /\ HostRuns
  /\ registry' = WithMethod(n, b)
  /\ chosen' = [chosen EXCEPT ![n] = b]
  /\ frames' = Overwrite({n})
  /\ UNCHANGED <<failing, outcome>>

\* An empty name or an empty builder is refused before the table is touched.
RegistrationRefused ==
  /\ HostRuns
  /\ failing' \in MayFail
  /\ outcome' = "core.requirement_failed"
  /\ UNCHANGED <<registry, chosen, frames>>

RegisteredCellGradientMethods ==
  /\ HostRuns
  /\ registry' = WithDefaults
  /\ frames' = Overwrite(EnsureAssigns)
  /\ UNCHANGED <<chosen, failing, outcome>>

\* The builder is looked up once, after the defaults were put back; it is then
\* called where it lies in the table.
BuildCellGradientWorkspace(n) ==
  /\ HostRuns
  /\ Len(frames) < MaxNesting
  /\ registry' = WithDefaults
  /\ n \in DOMAIN registry'
  /\ frames' = Append(Overwrite(EnsureAssigns),
                      [name |-> n, builder |-> registry'[n], last |-> chosen[n], replaced |-> FALSE])
  /\ UNCHANGED <<chosen, failing, outcome>>

BuildUnsupported(n) ==
  /\ HostRuns
  /\ registry' = WithDefaults
  /\ n \notin DOMAIN registry'
  /\ failing' \in MayFail
  /\ outcome' = "numerics.unsupported_gradient_method"
  /\ frames' = Overwrite(EnsureAssigns)
  /\ UNCHANGED chosen

BuilderReturns ==
  /\ frames # <<>>
  /\ ~failing
  /\ frames' = DropTop
  /\ outcome' = Top.builder
  /\ UNCHANGED <<registry, chosen, failing>>

\* numerics.degenerate_geometry, or any exception of a host callback.
BuilderThrows ==
  /\ frames # <<>>
  /\ ~failing
  /\ failing' = TRUE
  /\ outcome' = "thrown"
  /\ UNCHANGED <<registry, chosen, frames>>

\* The exception leaves one call; the caller's builder may catch it.
Propagate ==
  /\ failing
  /\ frames' = DropTop
  /\ failing' \in (IF Len(frames) = 1 THEN {FALSE} ELSE BOOLEAN)
  /\ UNCHANGED <<registry, chosen, outcome>>

Next ==
  \/ \E n \in Names, b \in CustomBuilders : RegisterCellGradientMethod(n, b)
  \/ RegistrationRefused \/ RegisteredCellGradientMethods
  \/ \E n \in Names : BuildCellGradientWorkspace(n) \/ BuildUnsupported(n)
  \/ BuilderReturns \/ BuilderThrows \/ Propagate

Spec == Init /\ [][Next]_vars

-----------------------------------------------------------------------------
(* Properties *)

\* Whatever is registered from inside running builders: a call under a name the
\* host invented runs the builder it had registered last when the call began, and
\* until it is called the table never loses it; a call under a default name runs
\* the built-in builder, because the table is reset between any registration under
\* that name and the lookup.
NamesRunTheirBuilder ==
  /\ \A i \in DOMAIN frames :
       frames[i].builder = IF frames[i].name \in CustomNames THEN frames[i].last ELSE frames[i].name
  /\ \A n \in CustomNames :
       chosen[n] # Unregistered => n \in DOMAIN registry /\ registry[n] = chosen[n]

\* Putting the defaults back never overwrites the function object of a running
\* host builder; only the host itself, registering its name again, does.
OnlyTheHostReplacesRunning ==
  [][\A i \in DOMAIN frames :
       /\ i \in DOMAIN frames'
       /\ frames[i].builder \in CustomBuilders
       /\ ~frames[i].replaced /\ frames'[i].replaced
       => \E b \in CustomBuilders : RegisterCellGradientMethod(frames[i].name, b)]_vars
=============================================================================
