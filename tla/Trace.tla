------------------------------- MODULE Trace -------------------------------
(***************************************************************************)
(* The execution-flow trace of a debug build (src/Core/Logger.cc) together *)
(* with what the C++ runtime does to it when MohidNgException is thrown.   *)
(*                                                                         *)
(* Each thread owns a trace_stack.  A TraceScope pushes its entry when it  *)
(* is constructed and pops the top when it is destroyed; between the two   *)
(* the thread may enter other scopes, open try blocks, throw, be unwound   *)
(* to a handler, or call ClearTrace with scopes still live.  The logging   *)
(* switch and the log stream are shared by all threads and unprotected.    *)
(***************************************************************************)
EXTENDS Integers, Sequences

CONSTANTS
  Threads,          \* the threads of the host program
  Scopes,           \* the entries a TraceScope can carry
  MaxDepth,         \* bound: TraceScope objects alive on one thread
  MaxTries,         \* bound: nested try blocks on one thread
  MaxStale,         \* bound: entries that throwing streams leave behind
  StreamMayThrow    \* the log stream has an exception mask and can throw

ASSUME BoundsAssumption == MaxDepth \in Nat /\ MaxTries \in Nat /\ MaxStale \in Nat
ASSUME SwitchAssumption == StreamMayThrow \in BOOLEAN

VARIABLES
  live,                   \* the TraceScope objects alive on each thread
  trace_stack,            \* thread_local std::vector<std::string>
  cleared,                \* history: how many live scopes ClearTrace erased
  pc,                     \* where a thread is inside a constructor or destructor
  tries,                  \* the try blocks a thread is inside, innermost last
  exception,              \* the exception a thread is being unwound by
  trace_logging_enabled,
  trace_output,
  terminated              \* std::terminate or a fault ended the process

scopeVars  == <<live, trace_stack, cleared>>
configVars == <<trace_logging_enabled, trace_output>>
vars == <<scopeVars, pc, tries, exception, configVars, terminated>>

-----------------------------------------------------------------------------

NoException == [thrown |-> FALSE, trace |-> <<>>]
Failure     == [thrown |-> TRUE, trace |-> <<>>]   \* std::ios_base::failure

Streams  == {"nullptr", "stream"}
PCs      == {"run", "ctorTest", "ctorWrite", "dtorTest", "dtorWrite", "dtorPop"}

Smaller(a, b) == IF a <= b THEN a ELSE b
DropLast(s)   == SubSeq(s, 1, Len(s) - 1)

Unwinding(t) == exception[t].thrown
\* The number of scopes that were live when the innermost try block opened.
TryDepth(t)  == IF tries[t] = <<>> THEN 0 ELSE tries[t][Len(tries[t])].depth

\* A thread that executes user code, outside every constructor and destructor.
Running(t)   == ~terminated /\ pc[t] = "run" /\ ~Unwinding(t)
Logging(t)   == pc[t] \in {"ctorWrite", "dtorWrite"}

Init ==
  /\ live = [t \in Threads |-> <<>>]
  /\ trace_stack = [t \in Threads |-> <<>>]
  /\ cleared = [t \in Threads |-> 0]
  /\ pc = [t \in Threads |-> "run"]
  /\ tries = [t \in Threads |-> <<>>]
  /\ exception = [t \in Threads |-> NoException]
  /\ trace_logging_enabled = FALSE
  /\ trace_output = "nullptr"
  /\ terminated = FALSE

-----------------------------------------------------------------------------
(* TraceScope::TraceScope *)

\* mutant: an entry is recorded only while the log is on.
PushedIfLogging(t, s) ==
  IF trace_logging_enabled THEN Append(trace_stack[t], s) ELSE trace_stack[t]
Pushed(t, s) == Append(trace_stack[t], s)

EnterScope(t, s) ==
  /\ Running(t)
  /\ Len(live[t]) < MaxDepth
  /\ live' = [live EXCEPT ![t] = Append(@, s)]
  /\ trace_stack' = [trace_stack EXCEPT ![t] = Pushed(t, s)]
  /\ pc' = [pc EXCEPT ![t] = "ctorTest"]
  /\ UNCHANGED <<cleared, tries, exception, configVars, terminated>>

LogTest == trace_logging_enabled /\ trace_output # "nullptr"

\* The test of the two globals, before the dereference that uses them.
TestLogging(t) ==
  /\ ~terminated
  /\ pc[t] \in {"ctorTest", "dtorTest"}
  /\ pc' = [pc EXCEPT ![t] = CASE @ = "ctorTest" /\ LogTest  -> "ctorWrite"
                               [] @ = "ctorTest" /\ ~LogTest -> "run"
                               [] @ = "dtorTest" /\ LogTest  -> "dtorWrite"
                               [] OTHER                      -> "dtorPop"]
  /\ UNCHANGED <<scopeVars, tries, exception, configVars, terminated>>

\* The dereference of trace_output, which reads the global again.
WriteLine(t) ==
  /\ ~terminated
  /\ Logging(t)
  /\ trace_output # "nullptr"
  /\ pc' = [pc EXCEPT ![t] = IF @ = "ctorWrite" THEN "run" ELSE "dtorPop"]
  /\ UNCHANGED <<scopeVars, tries, exception, configVars, terminated>>

WriteThroughNull(t) ==
  /\ ~terminated
  /\ Logging(t)
  /\ trace_output = "nullptr"
  /\ terminated' = TRUE
  /\ UNCHANGED <<scopeVars, pc, tries, exception, configVars>>

\* The stream throws inside the constructor: the object never comes to life,
\* its destructor never runs, and the entry it pushed stays.
ConstructorWriteThrows(t) ==
  /\ StreamMayThrow
  /\ ~terminated
  /\ pc[t] = "ctorWrite"
  /\ trace_output # "nullptr"
  /\ tries[t] # <<>>
  /\ Len(trace_stack[t]) - Len(live[t]) < MaxStale
  /\ live' = [live EXCEPT ![t] = DropLast(@)]
  /\ pc' = [pc EXCEPT ![t] = "run"]
  /\ exception' = [exception EXCEPT ![t] = Failure]
  /\ UNCHANGED <<trace_stack, cleared, tries, configVars, terminated>>

\* A destructor is noexcept, so a throwing stream ends the process there.
DestructorWriteThrows(t) ==
  /\ StreamMayThrow
  /\ ~terminated
  /\ pc[t] = "dtorWrite"
  /\ terminated' = TRUE
  /\ UNCHANGED <<scopeVars, pc, tries, exception, configVars>>

-----------------------------------------------------------------------------
(* TraceScope::~TraceScope: at the end of a block, or because of unwinding *)

\* mutant: a scope object is destroyed once more after its block ended.
LeaveScopeTwice(t) ==
  /\ ~terminated
  /\ pc[t] = "run"
  /\ pc' = [pc EXCEPT ![t] = "dtorTest"]
  /\ UNCHANGED <<scopeVars, tries, exception, configVars, terminated>>

LeaveScope(t) ==
  /\ ~terminated
  /\ pc[t] = "run"
  /\ Len(live[t]) > TryDepth(t)
  /\ pc' = [pc EXCEPT ![t] = "dtorTest"]
  /\ UNCHANGED <<scopeVars, tries, exception, configVars, terminated>>

\* mutant: no entry is popped while an exception is propagating.
PoppedUnlessUnwinding(t) ==
  IF trace_stack[t] = <<>> \/ Unwinding(t) THEN trace_stack[t] ELSE DropLast(trace_stack[t])
Popped(t) == IF trace_stack[t] = <<>> THEN <<>> ELSE DropLast(trace_stack[t])

PopEntry(t) ==
  /\ ~terminated
  /\ pc[t] = "dtorPop"
  /\ live' = [live EXCEPT ![t] = DropLast(@)]
  /\ trace_stack' = [trace_stack EXCEPT ![t] = Popped(t)]
  /\ cleared' = [cleared EXCEPT ![t] = Smaller(@, Len(live[t]) - 1)]
  /\ pc' = [pc EXCEPT ![t] = "run"]
  /\ UNCHANGED <<tries, exception, configVars, terminated>>

ClearTrace(t) ==
  /\ Running(t)
  /\ trace_stack' = [trace_stack EXCEPT ![t] = <<>>]
  /\ cleared' = [cleared EXCEPT ![t] = Len(live[t])]
  /\ tries' = [tries EXCEPT ![t] = [i \in DOMAIN @ |-> [@[i] EXCEPT !.intact = FALSE]]]
  /\ UNCHANGED <<live, pc, exception, configVars, terminated>>

-----------------------------------------------------------------------------
(* try blocks, Raise and unwinding *)

\* A try block remembers the path it was opened on; intact says that no
\* ClearTrace has erased part of that path since.
OpenTry(t) ==
  /\ Running(t)
  /\ Len(tries[t]) < MaxTries
  /\ tries' = [tries EXCEPT ![t] =
                 Append(@, [depth |-> Len(live[t]), trace |-> trace_stack[t], intact |-> TRUE])]
  /\ UNCHANGED <<scopeVars, pc, exception, configVars, terminated>>

CloseTry(t) ==
  /\ Running(t)
  /\ tries[t] # <<>>
  /\ Len(live[t]) = TryDepth(t)
  /\ tries' = [tries EXCEPT ![t] = DropLast(@)]
  /\ UNCHANGED <<scopeVars, pc, exception, configVars, terminated>>

\* mutant: the copy misses the scope that raises.
CurrentTraceOfCaller(t) == IF trace_stack[t] = <<>> THEN <<>> ELSE DropLast(trace_stack[t])
CurrentTrace(t) == trace_stack[t]

\* MohidNgException copies CurrentTrace() while it is built, before unwinding.
\* A throw that no try block encloses ends the process and is left out.
Raise(t) ==
  /\ Running(t)
  /\ tries[t] # <<>>
  /\ exception' = [exception EXCEPT ![t] = [thrown |-> TRUE, trace |-> CurrentTrace(t)]]
  /\ UNCHANGED <<scopeVars, pc, tries, configVars, terminated>>

Catch(t) ==
  /\ ~terminated
  /\ pc[t] = "run"
  /\ Unwinding(t)
  /\ Len(live[t]) = TryDepth(t)
  /\ exception' = [exception EXCEPT ![t] = NoException]
  /\ tries' = [tries EXCEPT ![t] = DropLast(@)]
  /\ UNCHANGED <<scopeVars, pc, configVars, terminated>>

-----------------------------------------------------------------------------
(* SetTraceLoggingEnabled and SetTraceOutput: nothing keeps them from running  *)
(* while another thread is between its test of the globals and their use.      *)

SetTraceLoggingEnabled(t, enabled) ==
  /\ Running(t)
  /\ trace_logging_enabled' = enabled
  /\ UNCHANGED <<scopeVars, pc, tries, exception, trace_output, terminated>>

SetTraceOutput(t, output) ==
  /\ Running(t)
  /\ trace_output' = output
  /\ UNCHANGED <<scopeVars, pc, tries, exception, trace_logging_enabled, terminated>>

-----------------------------------------------------------------------------

Construct(t) ==
  \/ \E s \in Scopes : EnterScope(t, s)
  \/ TestLogging(t)
  \/ WriteLine(t)
  \/ WriteThroughNull(t)
  \/ ConstructorWriteThrows(t)

Destroy(t) == LeaveScope(t) \/ PopEntry(t) \/ DestructorWriteThrows(t)

Handle(t) == OpenTry(t) \/ CloseTry(t) \/ Raise(t) \/ Catch(t)

Configure(t) ==
  \/ \E enabled \in BOOLEAN : SetTraceLoggingEnabled(t, enabled)
  \/ \E output \in Streams : SetTraceOutput(t, output)

Next == \E t \in Threads : Construct(t) \/ Destroy(t) \/ ClearTrace(t) \/ Handle(t) \/ Configure(t)

Spec == Init /\ [][Next]_vars

-----------------------------------------------------------------------------
(* Properties *)

\* Every variable has its type: one entry per thread, bounded by the depth.
TypeOK ==
  /\ live \in [Threads -> Seq(Scopes)]
  /\ trace_stack \in [Threads -> Seq(Scopes)]
  /\ cleared \in [Threads -> Nat]
  /\ pc \in [Threads -> PCs]
  /\ tries \in [Threads -> Seq([depth : Nat, trace : Seq(Scopes), intact : BOOLEAN])]
  /\ exception \in [Threads -> [thrown : BOOLEAN, trace : Seq(Scopes)]]
  /\ trace_logging_enabled \in BOOLEAN
  /\ trace_output \in Streams
  /\ terminated \in BOOLEAN

\* trace_stack is the active execution path: exactly the live scopes entered
\* since the last ClearTrace, outermost first, whatever was thrown and caught
\* in between and however the destructors of scopes that outlived a ClearTrace
\* interleave with new ones (docs/en-gb/developer/error_exception_logging.md).
TraceIsActivePath ==
  \A t \in Threads :
    /\ Len(trace_stack[t]) = Len(live[t]) - cleared[t]
    /\ \A i \in 1..Len(trace_stack[t]) : trace_stack[t][i] = live[t][cleared[t] + i]

\* The path a try block was opened on stays on the stack until control leaves
\* the block: nothing thrown or destroyed inside it pops an outer entry.
TryPathSurvives ==
  \A t \in Threads : \A i \in DOMAIN tries[t] :
    tries[t][i].intact =>
      /\ Len(tries[t][i].trace) <= Len(trace_stack[t])
      /\ \A k \in 1..Len(tries[t][i].trace) : trace_stack[t][k] = tries[t][i].trace[k]

\* Unwinding only removes entries that the exception has copied, so a handler
\* at any depth sees its own path as a prefix of MohidNgException::Trace().
UnwindingKeepsThrowPath ==
  \A t \in Threads :
    exception[t].thrown /\ exception[t].trace # <<>> =>
      /\ Len(trace_stack[t]) <= Len(exception[t].trace)
      /\ \A k \in 1..Len(trace_stack[t]) : trace_stack[t][k] = exception[t].trace[k]

\* A handler starts with the trace the thread had when it entered the try
\* block: unwinding has popped every scope of the block and no other.
HandlerRestoresTrace ==
  [][\A t \in Threads :
       Catch(t) /\ tries[t][Len(tries[t])].intact
         => trace_stack[t] = tries[t][Len(tries[t])].trace]_vars

\* Even when the stream throws inside constructors, no live scope is missing
\* from the trace: it is embedded in the stack in its order.
NoLiveScopeMissing ==
  \A t \in Threads :
    LET n == Len(live[t]) - cleared[t]
        m == Len(trace_stack[t])
    IN  \E at \in [1..n -> 1..m] :
          /\ \A i, j \in 1..n : i < j => at[i] < at[j]
          /\ \A i \in 1..n : trace_stack[t][at[i]] = live[t][cleared[t] + i]
=============================================================================
