----------------------------- MODULE TraceProofs -----------------------------
(***************************************************************************)
(* Proofs about Trace for any number of threads, any scopes and any        *)
(* bounds.  Typed says that a thread inside a constructor or destructor    *)
(* has a live scope, which makes the type invariant inductive.             *)
(***************************************************************************)
EXTENDS Trace, SequenceTheorems, TLAPS

\* A prefix of a sequence.
LEMMA PrefixProperties ==
  ASSUME NEW S, NEW s \in Seq(S), NEW n \in Int, n <= Len(s)
  PROVE  /\ SubSeq(s, 1, n) \in Seq(S)
         /\ Len(SubSeq(s, 1, n)) = IF 1 <= n THEN n ELSE 0
         /\ \A i \in 1..n : SubSeq(s, 1, n)[i] = s[i]
<1> DEFINE prefix == SubSeq(s, 1, n)
<1>1. Len(s) \in Nat /\ \A i \in 1..n : s[i] \in S
  BY LenProperties, ElementOfSeq
<1>2. /\ prefix \in Seq(S)
      /\ Len(prefix) = IF 1 <= n THEN n - 1 + 1 ELSE 0
      /\ \A i \in 1..(n - 1 + 1) : prefix[i] = s[1 + i - 1]
  BY <1>1, SubSeqProperties
<1> HIDE DEF prefix
<1>3. \A i \in 1..n : i \in 1..(n - 1 + 1) /\ 1 + i - 1 = i
  OBVIOUS
<1> QED
  BY <1>2, <1>3 DEF prefix

\* Dropping the last element keeps the others where they are, ...
LEMMA DropLastProperties ==
  ASSUME NEW S, NEW s \in Seq(S), Len(s) > 0
  PROVE  /\ DropLast(s) \in Seq(S)
         /\ Len(DropLast(s)) = Len(s) - 1
         /\ \A i \in 1..(Len(s) - 1) : DropLast(s)[i] = s[i]
<1> DEFINE last == Len(s) - 1
<1>1. last \in Nat /\ last <= Len(s)
  BY LenProperties
<1> HIDE DEF last
<1>2. (IF 1 <= last THEN last ELSE 0) = last
  BY <1>1
<1>3. /\ SubSeq(s, 1, last) \in Seq(S)
      /\ Len(SubSeq(s, 1, last)) = last
      /\ \A i \in 1..last : SubSeq(s, 1, last)[i] = s[i]
  BY <1>1, <1>2, PrefixProperties
<1> QED
  BY <1>3 DEF DropLast, last

\* ... and there may be none.
LEMMA DropLastType ==
  ASSUME NEW S, NEW s \in Seq(S)
  PROVE  DropLast(s) \in Seq(S)
<1>1. Len(s) - 1 \in Int /\ Len(s) - 1 <= Len(s)
  BY LenProperties
<1> QED
  BY <1>1, PrefixProperties DEF DropLast

Block == [depth : Nat, trace : Seq(Scopes), intact : BOOLEAN]

\* Marking try blocks as cut by ClearTrace keeps their number and their depths.
LEMMA CutTries ==
  ASSUME NEW s \in Seq(Block),
         NEW c, c = [i \in DOMAIN s |-> [s[i] EXCEPT !.intact = FALSE]]
  PROVE  /\ c \in Seq(Block)
         /\ Len(c) = Len(s)
         /\ \A i \in 1..Len(s) : c[i].depth = s[i].depth /\ ~c[i].intact
<1>1. Len(s) \in Nat /\ DOMAIN s = 1..Len(s) /\ \A i \in 1..Len(s) : s[i] \in Block
  BY LenProperties, ElementOfSeq
<1>2. \A i \in 1..Len(s) : c[i] \in Block /\ c[i].depth = s[i].depth /\ ~c[i].intact
  BY <1>1 DEF Block
<1>3. c \in [1..Len(s) -> Block]
  BY <1>1, <1>2
<1>4. c \in Seq(Block)
  BY <1>1, <1>3, SeqDef
<1>5. Len(c) = Len(s)
  BY <1>1, <1>3, <1>4, LenProperties
<1> QED
  BY <1>2, <1>4, <1>5

-----------------------------------------------------------------------------

BusyHasScope == \A t \in Threads : pc[t] # "run" => Len(live[t]) > 0

Typed == TypeOK /\ BusyHasScope

\* Empty sequences and idle threads are typed.
LEMMA TypedInit == Init => Typed
<1> SUFFICES ASSUME Init
             PROVE  Typed
  OBVIOUS
<1>1. <<>> \in Seq(Scopes) /\ <<>> \in Seq([depth : Nat, trace : Seq(Scopes), intact : BOOLEAN])
  BY EmptySeq
<1>2. NoException \in [thrown : BOOLEAN, trace : Seq(Scopes)]
  BY <1>1 DEF NoException
<1>3. /\ live \in [Threads -> Seq(Scopes)]
      /\ trace_stack \in [Threads -> Seq(Scopes)]
      /\ tries \in [Threads -> Seq([depth : Nat, trace : Seq(Scopes), intact : BOOLEAN])]
  BY <1>1, Zenon DEF Init
<1>4. exception \in [Threads -> [thrown : BOOLEAN, trace : Seq(Scopes)]]
  BY <1>2 DEF Init
<1>5. cleared \in [Threads -> Nat]
  BY DEF Init
<1>6. BusyHasScope /\ pc = [t \in Threads |-> "run"] /\ trace_output \in Streams
  BY DEF Init, BusyHasScope, Streams
<1>7. [t \in Threads |-> "run"] \in [Threads -> PCs]
  BY DEF PCs
<1>8. trace_logging_enabled \in BOOLEAN /\ terminated \in BOOLEAN
  BY Zenon DEF Init
<1> QED
  BY <1>3, <1>4, <1>5, <1>6, <1>7, <1>8, Zenon DEF Typed, TypeOK

\* Every action keeps the types, with exceptions and with throwing streams.
LEMMA TypedStep == Typed /\ [Next]_vars => Typed'
<1> SUFFICES ASSUME Typed, [Next]_vars
             PROVE  Typed'
  OBVIOUS
<1> USE DEF Typed, TypeOK, BusyHasScope
<1>1. CASE UNCHANGED vars
  BY <1>1 DEF vars, scopeVars, configVars
<1>2. ASSUME NEW t \in Threads, NEW s \in Scopes, EnterScope(t, s)
      PROVE  Typed'
  <2>1. /\ Append(live[t], s) \in Seq(Scopes)
        /\ Len(Append(live[t], s)) > 0
        /\ Append(trace_stack[t], s) \in Seq(Scopes)
    BY AppendProperties, LenProperties
  <2> QED
    BY <1>2, <2>1 DEF EnterScope, Pushed, configVars, PCs
<1>3. ASSUME NEW t \in Threads, TestLogging(t)
      PROVE  Typed'
  BY <1>3 DEF TestLogging, scopeVars, configVars, PCs
<1>4. ASSUME NEW t \in Threads, WriteLine(t) \/ WriteThroughNull(t) \/ DestructorWriteThrows(t)
      PROVE  Typed'
  BY <1>4 DEF WriteLine, WriteThroughNull, DestructorWriteThrows, Logging, scopeVars, configVars, PCs
<1>5. ASSUME NEW t \in Threads, ConstructorWriteThrows(t)
      PROVE  Typed'
  <2>1. DropLast(live[t]) \in Seq(Scopes)
    BY DropLastType
  <2>2. Failure \in [thrown : BOOLEAN, trace : Seq(Scopes)]
    BY EmptySeq DEF Failure
  <2> QED
    BY <1>5, <2>1, <2>2 DEF ConstructorWriteThrows, configVars, PCs
<1>6. ASSUME NEW t \in Threads, LeaveScope(t)
      PROVE  Typed'
  <2>1. TryDepth(t) \in Nat
    <3>1. CASE tries[t] = <<>>
      BY <3>1 DEF TryDepth
    <3>2. CASE tries[t] # <<>>
      <4>1. Len(tries[t]) \in 1..Len(tries[t])
        BY <3>2, EmptySeq, LenProperties
      <4>2. tries[t][Len(tries[t])] \in [depth : Nat, trace : Seq(Scopes), intact : BOOLEAN]
        BY <4>1, ElementOfSeq
      <4> QED
        BY <3>2, <4>2 DEF TryDepth
    <3> QED
      BY <3>1, <3>2
  <2>2. Len(live[t]) > 0
    BY <1>6, <2>1, LenProperties DEF LeaveScope
  <2> QED
    BY <1>6, <2>2 DEF LeaveScope, scopeVars, configVars, PCs
<1>7. ASSUME NEW t \in Threads, PopEntry(t)
      PROVE  Typed'
  <2>1. DropLast(live[t]) \in Seq(Scopes) /\ DropLast(trace_stack[t]) \in Seq(Scopes)
    BY DropLastType
  <2>2. Smaller(cleared[t], Len(live[t]) - 1) \in Nat
    <3>1. Len(live[t]) \in Nat /\ Len(live[t]) > 0
      BY <1>7, LenProperties DEF PopEntry
    <3> QED
      BY <3>1 DEF Smaller
  <2> QED
    BY <1>7, <2>1, <2>2 DEF PopEntry, Popped, configVars, PCs
<1>8. ASSUME NEW t \in Threads, ClearTrace(t)
      PROVE  Typed'
  <2>1. tries'[t] \in Seq([depth : Nat, trace : Seq(Scopes), intact : BOOLEAN])
    BY <1>8, CutTries DEF ClearTrace, Block
  <2>2. Len(live[t]) \in Nat /\ <<>> \in Seq(Scopes)
    BY LenProperties, EmptySeq
  <2> QED
    BY <1>8, <2>1, <2>2 DEF ClearTrace, configVars, PCs
<1>9. ASSUME NEW t \in Threads, OpenTry(t)
      PROVE  Typed'
  <2> DEFINE b == [depth |-> Len(live[t]), trace |-> trace_stack[t], intact |-> TRUE]
  <2>1. b \in [depth : Nat, trace : Seq(Scopes), intact : BOOLEAN]
    BY LenProperties
  <2>2. Append(tries[t], b) \in Seq([depth : Nat, trace : Seq(Scopes), intact : BOOLEAN])
    BY <2>1, AppendProperties
  <2> QED
    BY <1>9, <2>2 DEF OpenTry, scopeVars, configVars
<1>10. ASSUME NEW t \in Threads, CloseTry(t) \/ Catch(t)
       PROVE  Typed'
  <2>1. DropLast(tries[t]) \in Seq([depth : Nat, trace : Seq(Scopes), intact : BOOLEAN])
    BY DropLastType
  <2>2. NoException \in [thrown : BOOLEAN, trace : Seq(Scopes)]
    BY EmptySeq DEF NoException
  <2>3. CASE CloseTry(t)
    BY <2>1, <2>3 DEF CloseTry, scopeVars, configVars
  <2>4. CASE Catch(t)
    BY <2>1, <2>2, <2>4 DEF Catch, scopeVars, configVars
  <2> QED
    BY <1>10, <2>3, <2>4
<1>11. ASSUME NEW t \in Threads, Raise(t)
       PROVE  Typed'
  BY <1>11 DEF Raise, CurrentTrace, scopeVars, configVars
<1>12. ASSUME NEW t \in Threads, Configure(t)
       PROVE  Typed'
  BY <1>12 DEF Configure, SetTraceLoggingEnabled, SetTraceOutput, scopeVars
<1> QED
  BY <1>1, <1>2, <1>3, <1>4, <1>5, <1>6, <1>7, <1>8, <1>9, <1>10, <1>11, <1>12
     DEF Next, Construct, Destroy, Handle

\* Types are kept by every thread, exception and configuration change, for any
\* bounds; a thread inside a TraceScope constructor or destructor always has a
\* live scope, so the destructor never pops below the scopes of its thread.
THEOREM TypeCorrect == Spec => []TypeOK
<1>1. Init => Typed
  BY TypedInit
<1>2. Typed /\ [Next]_vars => Typed'
  BY TypedStep
<1>3. Typed => TypeOK
  BY DEF Typed
<1> QED
  BY <1>1, <1>2, <1>3, PTL DEF Spec

-----------------------------------------------------------------------------
(* trace_stack is the active path *)

\* What one step of a thread must keep of its own scopes.
PathOf(t) ==
  /\ Len(trace_stack[t]) = Len(live[t]) - cleared[t]
  /\ \A i \in 1..Len(trace_stack[t]) : trace_stack[t][i] = live[t][cleared[t] + i]

\* Without exceptions of the stream, live and trace_stack move together.
LEMMA PathStep ==
  ASSUME ~StreamMayThrow, Typed, TraceIsActivePath, [Next]_vars
  PROVE  TraceIsActivePath'
<1> USE DEF Typed, TypeOK
<1>0. \A u \in Threads : PathOf(u)
  BY DEF TraceIsActivePath, PathOf
<1>0a. \A u \in Threads : /\ live[u] \in Seq(Scopes) /\ trace_stack[u] \in Seq(Scopes)
                          /\ Len(live[u]) \in Nat /\ Len(trace_stack[u]) \in Nat
                          /\ cleared[u] \in Nat
  BY LenProperties
<1>1. CASE UNCHANGED scopeVars
  BY <1>1 DEF scopeVars, TraceIsActivePath
<1>2. ASSUME NEW t \in Threads, NEW s \in Scopes, EnterScope(t, s)
      PROVE  TraceIsActivePath'
  <2>1. /\ live' = [live EXCEPT ![t] = Append(live[t], s)]
        /\ trace_stack' = [trace_stack EXCEPT ![t] = Append(trace_stack[t], s)]
        /\ cleared' = cleared
    BY <1>2 DEF EnterScope, Pushed
  <2>2. PathOf(t)'
    <3>1. /\ Len(live'[t]) = Len(live[t]) + 1
          /\ Len(trace_stack'[t]) = Len(trace_stack[t]) + 1
          /\ \A i \in 1..Len(live[t]) : live'[t][i] = live[t][i]
          /\ \A i \in 1..Len(trace_stack[t]) : trace_stack'[t][i] = trace_stack[t][i]
          /\ live'[t][Len(live[t]) + 1] = s
          /\ trace_stack'[t][Len(trace_stack[t]) + 1] = s
      BY <2>1, <1>0a, AppendProperties
    <3>2. cleared'[t] = cleared[t] /\ Len(trace_stack[t]) = Len(live[t]) - cleared[t]
      BY <2>1, <1>0 DEF PathOf
    <3>3. ASSUME NEW i \in 1..(Len(trace_stack[t]) + 1)
          PROVE  trace_stack'[t][i] = live'[t][cleared[t] + i]
      <4>1. CASE i = Len(trace_stack[t]) + 1
        <5>1. cleared[t] + i = Len(live[t]) + 1
          BY <4>1, <3>2, <1>0a
        <5> QED
          BY <4>1, <5>1, <3>1
      <4>2. CASE i \in 1..Len(trace_stack[t])
        <5>1. cleared[t] + i \in 1..Len(live[t])
          BY <4>2, <3>2, <1>0a
        <5> QED
          BY <4>2, <5>1, <3>1, <1>0 DEF PathOf
      <4> QED
        BY <4>1, <4>2, <1>0a
    <3>4. Len(trace_stack'[t]) = Len(live'[t]) - cleared'[t]
      BY <3>1, <3>2, <1>0a
    <3> QED
      BY <3>1, <3>2, <3>3, <3>4 DEF PathOf
  <2>3. \A u \in Threads \ {t} : PathOf(u)'
    BY <2>1, <1>0 DEF PathOf
  <2> QED
    BY <2>2, <2>3 DEF TraceIsActivePath, PathOf
<1>3. ASSUME NEW t \in Threads, PopEntry(t)
      PROVE  TraceIsActivePath'
  <2>1. /\ live' = [live EXCEPT ![t] = DropLast(live[t])]
        /\ trace_stack' = [trace_stack EXCEPT
              ![t] = IF trace_stack[t] = <<>> THEN <<>> ELSE DropLast(trace_stack[t])]
        /\ cleared' = [cleared EXCEPT ![t] = Smaller(cleared[t], Len(live[t]) - 1)]
        /\ Len(live[t]) > 0
    BY <1>3 DEF PopEntry, Popped, BusyHasScope
  <2>2. /\ Len(live'[t]) = Len(live[t]) - 1
        /\ \A i \in 1..(Len(live[t]) - 1) : live'[t][i] = live[t][i]
    BY <2>1, <1>0a, DropLastProperties
  <2>3. CASE trace_stack[t] = <<>>
    <3>1. Len(trace_stack[t]) = 0
      BY <2>3, EmptySeq
    <3>2. cleared'[t] = Len(live[t]) - 1
      BY <3>1, <2>1, <1>0, <1>0a DEF PathOf, Smaller
    <3>3. PathOf(t)'
      BY <3>1, <3>2, <2>1, <2>2, <2>3, <1>0a DEF PathOf
    <3> QED
      BY <3>3, <2>1, <1>0 DEF TraceIsActivePath, PathOf
  <2>4. CASE trace_stack[t] # <<>>
    <3>1. Len(trace_stack[t]) > 0
      BY <2>4, <1>0a, EmptySeq
    <3>2. /\ Len(trace_stack'[t]) = Len(trace_stack[t]) - 1
          /\ \A i \in 1..(Len(trace_stack[t]) - 1) : trace_stack'[t][i] = trace_stack[t][i]
      BY <3>1, <2>1, <2>4, <1>0a, DropLastProperties
    <3>3. cleared'[t] = cleared[t]
      BY <3>1, <2>1, <1>0, <1>0a DEF PathOf, Smaller
    <3>4. PathOf(t)'
      <4>1. Len(trace_stack'[t]) = Len(live'[t]) - cleared'[t]
        BY <3>2, <3>3, <2>2, <1>0, <1>0a DEF PathOf
      <4>2. ASSUME NEW i \in 1..(Len(trace_stack[t]) - 1)
            PROVE  trace_stack'[t][i] = live'[t][cleared[t] + i]
        <5>1. i \in 1..Len(trace_stack[t]) /\ cleared[t] + i \in 1..(Len(live[t]) - 1)
          BY <1>0, <1>0a DEF PathOf
        <5> QED
          BY <5>1, <3>2, <2>2, <1>0 DEF PathOf
      <4> QED
        BY <4>1, <4>2, <3>2, <3>3 DEF PathOf
    <3> QED
      BY <3>4, <2>1, <1>0 DEF TraceIsActivePath, PathOf
  <2> QED
    BY <2>3, <2>4
<1>4. ASSUME NEW t \in Threads, ClearTrace(t)
      PROVE  TraceIsActivePath'
  <2>1. /\ live' = live
        /\ trace_stack' = [trace_stack EXCEPT ![t] = <<>>]
        /\ cleared' = [cleared EXCEPT ![t] = Len(live[t])]
    BY <1>4 DEF ClearTrace
  <2>2. PathOf(t)'
    BY <2>1, <1>0a, EmptySeq DEF PathOf
  <2> QED
    BY <2>1, <2>2, <1>0 DEF TraceIsActivePath, PathOf
<1>5. ASSUME NEW t \in Threads,
             TestLogging(t) \/ WriteLine(t) \/ WriteThroughNull(t) \/ DestructorWriteThrows(t)
               \/ LeaveScope(t) \/ Handle(t) \/ Configure(t)
      PROVE  UNCHANGED scopeVars
  BY <1>5 DEF TestLogging, WriteLine, WriteThroughNull, DestructorWriteThrows, LeaveScope, Handle,
              OpenTry, CloseTry, Raise, Catch, Configure, SetTraceLoggingEnabled, SetTraceOutput
<1>6. \A t \in Threads : ~ConstructorWriteThrows(t)
  BY DEF ConstructorWriteThrows
<1> QED
  BY <1>1, <1>2, <1>3, <1>4, <1>5, <1>6 DEF Next, Construct, Destroy, vars

\* Unless the log stream throws, trace_stack is exactly the live scopes entered
\* since the last ClearTrace, for every number of threads and every depth: the
\* trace an exception copies is the path to its throw site and nothing else.
THEOREM TraceFollowsScopes ==
  ASSUME ~StreamMayThrow
  PROVE  Spec => []TraceIsActivePath
<1>1. Init => Typed /\ TraceIsActivePath
  <2>1. ASSUME Init, NEW t \in Threads
        PROVE  PathOf(t)
    <3>1. live[t] = <<>> /\ trace_stack[t] = <<>> /\ cleared[t] = 0
      BY <2>1 DEF Init
    <3> QED
      BY <3>1, EmptySeq DEF PathOf
  <2> QED
    BY <2>1, TypedInit DEF TraceIsActivePath, PathOf
<1>2. Typed /\ TraceIsActivePath /\ [Next]_vars => (Typed /\ TraceIsActivePath)'
  BY TypedStep, PathStep
<1> QED
  BY <1>1, <1>2, PTL DEF Spec

-----------------------------------------------------------------------------
(* The trace when the stream throws: entries that nobody pops lie between    *)
(* those of live scopes, and the live scopes are embedded in it.             *)

\* at gives the places, in order, where the scopes of path after the first c lie in
\* stack.
Embedding(at, c, path, stack) ==
  /\ at \in [1..(Len(path) - c) -> 1..Len(stack)]
  /\ \A i, j \in 1..(Len(path) - c) : i < j => at[i] < at[j]
  /\ \A i \in 1..(Len(path) - c) : stack[at[i]] = path[c + i]

\* ClearTrace erases live scopes only, and a scope under construction comes later.
Ahead(t) ==
  /\ cleared[t] <= Len(live[t])
  /\ pc[t] \in {"ctorTest", "ctorWrite"} => cleared[t] < Len(live[t])

Embedded(t) == \E at : Embedding(at, cleared[t], live[t], trace_stack[t])

EmbeddingInv == \A t \in Threads : Ahead(t) /\ Embedded(t)

\* A new scope lies on top.
LEMMA EmbeddingGrows ==
  ASSUME NEW S, NEW path \in Seq(S), NEW stack \in Seq(S), NEW x \in S, NEW c \in Nat, c <= Len(path),
         NEW at, Embedding(at, c, path, stack)
  PROVE  \E more : Embedding(more, c, Append(path, x), Append(stack, x))
<1> DEFINE n == Len(path) - c
           m == Len(stack)
           more == [i \in 1..(n + 1) |-> IF i = n + 1 THEN m + 1 ELSE at[i]]
<1>1. /\ n \in Nat /\ m \in Nat /\ Len(path) \in Nat /\ n + c = Len(path)
      /\ Len(Append(path, x)) = Len(path) + 1 /\ Len(Append(stack, x)) = m + 1
      /\ \A i \in 1..Len(path) : Append(path, x)[i] = path[i]
      /\ \A i \in 1..m : Append(stack, x)[i] = stack[i]
      /\ Append(path, x)[Len(path) + 1] = x /\ Append(stack, x)[m + 1] = x
  BY LenProperties, AppendProperties
<1>2. /\ at \in [1..n -> 1..m]
      /\ \A i, j \in 1..n : i < j => at[i] < at[j]
      /\ \A i \in 1..n : stack[at[i]] = path[c + i]
  BY DEF Embedding
<1>3. Len(Append(path, x)) - c = n + 1
  BY <1>1
<1> HIDE DEF n, m
<1>4. \A i \in 1..(n + 1) : i = n + 1 \/ i \in 1..n
  BY <1>1
<1>5. more \in [1..(n + 1) -> 1..(m + 1)]
  BY <1>1, <1>2, <1>4
<1>6. ASSUME NEW i \in 1..(n + 1), NEW j \in 1..(n + 1), i < j
      PROVE  more[i] < more[j]
  <2>1. i \in 1..n
    BY <1>1, <1>6
  <2>2. at[i] \in 1..m /\ more[i] = at[i]
    BY <1>1, <1>2, <2>1
  <2>3. CASE j = n + 1
    BY <1>1, <2>2, <2>3
  <2>4. CASE j \in 1..n
    BY <1>1, <1>2, <1>6, <2>1, <2>2, <2>4
  <2> QED
    BY <1>4, <2>3, <2>4
<1>7. ASSUME NEW i \in 1..(n + 1)
      PROVE  Append(stack, x)[more[i]] = Append(path, x)[c + i]
  <2>1. CASE i = n + 1
    <3>1. more[i] = m + 1 /\ c + i = Len(path) + 1
      BY <1>1, <2>1
    <3> QED
      BY <1>1, <3>1
  <2>2. CASE i \in 1..n
    <3>1. more[i] = at[i] /\ at[i] \in 1..m /\ c + i \in 1..Len(path)
      BY <1>1, <1>2, <2>2
    <3> QED
      BY <1>1, <1>2, <2>2, <3>1
  <2> QED
    BY <1>4, <2>1, <2>2
<1> HIDE DEF more
<1>8. Embedding(more, c, Append(path, x), Append(stack, x))
  BY <1>1, <1>3, <1>5, <1>6, <1>7 DEF Embedding
<1> QED
  BY <1>8

\* Without its last scope the path is embedded in the stack, and also in the stack
\* without its top.
LEMMA EmbeddingShrinks ==
  ASSUME NEW S, NEW path \in Seq(S), NEW stack \in Seq(S), NEW c \in Nat, c < Len(path),
         NEW at, Embedding(at, c, path, stack)
  PROVE  /\ Len(stack) > 0
         /\ \E less : Embedding(less, c, DropLast(path), stack)
         /\ \E less : Embedding(less, c, DropLast(path), DropLast(stack))
<1> DEFINE n == Len(path) - c
           m == Len(stack)
           less == [i \in 1..(n - 1) |-> at[i]]
<1>1. n \in Nat /\ m \in Nat /\ Len(path) \in Nat /\ n + c = Len(path) /\ n > 0
  BY LenProperties
<1>2. /\ at \in [1..n -> 1..m]
      /\ \A i, j \in 1..n : i < j => at[i] < at[j]
      /\ \A i \in 1..n : stack[at[i]] = path[c + i]
  BY DEF Embedding
<1>3. /\ Len(DropLast(path)) = Len(path) - 1
      /\ \A i \in 1..(Len(path) - 1) : DropLast(path)[i] = path[i]
  <2>1. Len(path) > 0
    BY LenProperties
  <2> QED
    BY <2>1, DropLastProperties
<1>4. Len(DropLast(path)) - c = n - 1
  BY <1>1, <1>3
<1> HIDE DEF n
<1>5. at[n] \in 1..m /\ m > 0
  BY <1>1, <1>2
<1>6. /\ Len(DropLast(stack)) = m - 1
      /\ \A i \in 1..(m - 1) : DropLast(stack)[i] = stack[i]
  BY <1>5, DropLastProperties
<1> HIDE DEF m
<1>7. ASSUME NEW i \in 1..(n - 1)
      PROVE  /\ less[i] = at[i] /\ less[i] \in 1..(m - 1) /\ less[i] \in 1..m
             /\ i \in 1..n /\ c + i \in 1..(Len(path) - 1)
  <2>1. i \in 1..n /\ i < n /\ n \in 1..n
    BY <1>1
  <2>2. at[i] < at[n] /\ at[i] \in 1..m
    BY <1>2, <2>1
  <2> QED
    BY <1>1, <1>5, <2>1, <2>2
<1>8. less \in [1..(n - 1) -> 1..(m - 1)] /\ less \in [1..(n - 1) -> 1..m]
  BY <1>7
<1>9. \A i, j \in 1..(n - 1) : i < j => less[i] < less[j]
  BY <1>2, <1>7
<1>10. \A i \in 1..(n - 1) : /\ stack[less[i]] = DropLast(path)[c + i]
                             /\ DropLast(stack)[less[i]] = DropLast(path)[c + i]
  BY <1>2, <1>3, <1>6, <1>7
<1> HIDE DEF less
<1>11. Embedding(less, c, DropLast(path), stack) /\ Embedding(less, c, DropLast(path), DropLast(stack))
  BY <1>4, <1>6, <1>8, <1>9, <1>10 DEF Embedding, m
<1> QED
  BY <1>5, <1>11 DEF m

\* No scopes are embedded anywhere.
LEMMA NothingIsEmbedded ==
  ASSUME NEW c \in Nat, NEW path, NEW stack, Len(path) = c
  PROVE  \E at : Embedding(at, c, path, stack)
<1>1. 1..(Len(path) - c) = {}
  OBVIOUS
<1>2. [i \in {} |-> 0] \in [{} -> 1..Len(stack)]
  OBVIOUS
<1>3. Embedding([i \in {} |-> 0], c, path, stack)
  BY <1>1, <1>2 DEF Embedding
<1> QED
  BY <1>3

\* Every step keeps the embedding: entries are pushed and popped with their scopes,
\* or stay behind without one.
LEMMA EmbeddingStep ==
  ASSUME Typed, EmbeddingInv, [Next]_vars
  PROVE  EmbeddingInv'
<1> USE DEF Typed, TypeOK
<1>0. \A u \in Threads : /\ live[u] \in Seq(Scopes) /\ trace_stack[u] \in Seq(Scopes)
                         /\ Len(live[u]) \in Nat /\ Len(trace_stack[u]) \in Nat /\ cleared[u] \in Nat
                         /\ Ahead(u) /\ Embedded(u)
  BY LenProperties DEF EmbeddingInv
<1>1. ASSUME NEW t \in Threads, Ahead(t)', Embedded(t)',
             \A u \in Threads \ {t} : /\ live'[u] = live[u] /\ trace_stack'[u] = trace_stack[u]
                                      /\ cleared'[u] = cleared[u] /\ pc'[u] = pc[u]
      PROVE  EmbeddingInv'
  BY <1>0, <1>1 DEF EmbeddingInv, Ahead, Embedded
<1>2. ASSUME NEW t \in Threads, NEW s \in Scopes, EnterScope(t, s)
      PROVE  EmbeddingInv'
  <2>1. /\ live' = [live EXCEPT ![t] = Append(live[t], s)]
        /\ trace_stack' = [trace_stack EXCEPT ![t] = Append(trace_stack[t], s)]
        /\ cleared' = cleared /\ pc' = [pc EXCEPT ![t] = "ctorTest"]
    BY <1>2 DEF EnterScope, Pushed
  <2>2. Len(live'[t]) = Len(live[t]) + 1
    BY <1>0, <2>1, AppendProperties
  <2>3. Ahead(t)'
    BY <1>0, <2>1, <2>2 DEF Ahead
  <2>4. PICK at : Embedding(at, cleared[t], live[t], trace_stack[t])
    BY <1>0 DEF Embedded
  <2>5. \E more : Embedding(more, cleared[t], Append(live[t], s), Append(trace_stack[t], s))
    BY <1>0, <2>4, EmbeddingGrows DEF Ahead
  <2>6. Embedded(t)'
    BY <2>1, <2>5 DEF Embedded
  <2> QED
    BY <1>1, <2>1, <2>3, <2>6
<1>3. ASSUME NEW t \in Threads, PopEntry(t)
      PROVE  EmbeddingInv'
  <2>1. /\ live' = [live EXCEPT ![t] = DropLast(live[t])]
        /\ trace_stack' = [trace_stack EXCEPT ![t] = Popped(t)]
        /\ cleared' = [cleared EXCEPT ![t] = Smaller(cleared[t], Len(live[t]) - 1)]
        /\ pc' = [pc EXCEPT ![t] = "run"]
        /\ Len(live[t]) > 0
    BY <1>3 DEF PopEntry, BusyHasScope
  <2>2. Len(DropLast(live[t])) = Len(live[t]) - 1
    BY <1>0, <2>1, DropLastProperties
  <2>3. PICK at : Embedding(at, cleared[t], live[t], trace_stack[t])
    BY <1>0 DEF Embedded
  <2>4. CASE cleared[t] < Len(live[t])
    <3>1. cleared'[t] = cleared[t]
      BY <1>0, <2>1, <2>4 DEF Smaller
    <3>2. /\ Len(trace_stack[t]) > 0
          /\ \E less : Embedding(less, cleared[t], DropLast(live[t]), DropLast(trace_stack[t]))
      BY <1>0, <2>3, <2>4, EmbeddingShrinks
    <3>3. Popped(t) = DropLast(trace_stack[t])
      BY <1>0, <3>2, EmptySeq DEF Popped
    <3>4. Ahead(t)'
      BY <1>0, <2>1, <2>2, <2>4, <3>1 DEF Ahead
    <3>5. Embedded(t)'
      BY <2>1, <3>1, <3>2, <3>3 DEF Embedded
    <3> QED
      BY <1>1, <2>1, <3>4, <3>5
  <2>5. CASE cleared[t] = Len(live[t])
    <3>1. cleared'[t] = Len(live[t]) - 1 /\ cleared'[t] \in Nat
      BY <1>0, <2>1, <2>5 DEF Smaller
    <3>2. Len(live'[t]) = cleared'[t]
      BY <2>1, <2>2, <3>1
    <3>3. Ahead(t)'
      BY <2>1, <3>1, <3>2 DEF Ahead
    <3>4. Embedded(t)'
      BY <3>1, <3>2, NothingIsEmbedded DEF Embedded
    <3> QED
      BY <1>1, <2>1, <3>3, <3>4
  <2> QED
    BY <1>0, <2>4, <2>5 DEF Ahead
<1>4. ASSUME NEW t \in Threads, ConstructorWriteThrows(t)
      PROVE  EmbeddingInv'
  <2>1. /\ live' = [live EXCEPT ![t] = DropLast(live[t])]
        /\ UNCHANGED <<trace_stack, cleared>> /\ pc' = [pc EXCEPT ![t] = "run"]
        /\ cleared[t] < Len(live[t])
    BY <1>0, <1>4 DEF ConstructorWriteThrows, Ahead
  <2>2. Len(DropLast(live[t])) = Len(live[t]) - 1
    <3>1. Len(live[t]) > 0
      BY <1>0, <2>1
    <3> QED
      BY <1>0, <3>1, DropLastProperties
  <2>3. PICK at : Embedding(at, cleared[t], live[t], trace_stack[t])
    BY <1>0 DEF Embedded
  <2>4. \E less : Embedding(less, cleared[t], DropLast(live[t]), trace_stack[t])
    BY <1>0, <2>1, <2>3, EmbeddingShrinks
  <2>5. Ahead(t)'
    BY <1>0, <2>1, <2>2 DEF Ahead
  <2>6. Embedded(t)'
    BY <2>1, <2>4 DEF Embedded
  <2> QED
    BY <1>1, <2>1, <2>5, <2>6
<1>5. ASSUME NEW t \in Threads, ClearTrace(t)
      PROVE  EmbeddingInv'
  <2>1. /\ live' = live /\ pc' = pc /\ pc[t] = "run"
        /\ trace_stack' = [trace_stack EXCEPT ![t] = <<>>]
        /\ cleared' = [cleared EXCEPT ![t] = Len(live[t])]
    BY <1>5 DEF ClearTrace, Running
  <2>2. Ahead(t)'
    BY <1>0, <2>1 DEF Ahead
  <2>3. Embedded(t)'
    BY <1>0, <2>1, NothingIsEmbedded DEF Embedded
  <2> QED
    BY <1>1, <2>1, <2>2, <2>3
<1>6. ASSUME UNCHANGED scopeVars,
             \A u \in Threads : pc'[u] \in {"ctorTest", "ctorWrite"} => pc[u] \in {"ctorTest", "ctorWrite"}
      PROVE  EmbeddingInv'
  BY <1>6 DEF scopeVars, EmbeddingInv, Ahead, Embedded
<1>7. ASSUME NEW t \in Threads, TestLogging(t) \/ WriteLine(t) \/ WriteThroughNull(t) \/ DestructorWriteThrows(t)
                                \/ LeaveScope(t) \/ Handle(t) \/ Configure(t)
      PROVE  /\ UNCHANGED scopeVars
             /\ \A u \in Threads : pc'[u] \in {"ctorTest", "ctorWrite"} => pc[u] \in {"ctorTest", "ctorWrite"}
  BY <1>7 DEF TestLogging, WriteLine, WriteThroughNull, DestructorWriteThrows, LeaveScope, Handle, Logging,
              OpenTry, CloseTry, Raise, Catch, Configure, SetTraceLoggingEnabled, SetTraceOutput
<1>8. CASE UNCHANGED vars
  BY <1>6, <1>8 DEF vars
<1> QED
  BY <1>2, <1>3, <1>4, <1>5, <1>6, <1>7, <1>8 DEF Next, Construct, Destroy

\* Whatever a throwing stream leaves behind, a scope that is alive and was not cleared
\* is in the trace, in its place: an error report may name a scope too many, and never
\* one too few (TraceScope::TraceScope pushes before it writes).
THEOREM NoLiveScopeIsEverMissing == Spec => []NoLiveScopeMissing
<1>1. Init => EmbeddingInv
  <2> SUFFICES ASSUME Init, NEW t \in Threads PROVE Ahead(t) /\ Embedded(t)
    BY DEF EmbeddingInv
  <2>1. Len(live[t]) = 0 /\ cleared[t] = 0 /\ pc[t] = "run"
    BY EmptySeq DEF Init
  <2> QED
    BY <2>1, NothingIsEmbedded DEF Ahead, Embedded
<1>2. Typed /\ EmbeddingInv /\ [Next]_vars => Typed' /\ EmbeddingInv'
  BY TypedStep, EmbeddingStep
<1>3. EmbeddingInv => NoLiveScopeMissing
  BY DEF EmbeddingInv, Embedded, Embedding, NoLiveScopeMissing
<1> QED
  BY <1>1, <1>2, <1>3, TypedInit, PTL DEF Spec

-----------------------------------------------------------------------------
(* What an exception handler can rely on.  That the destructors of a try   *)
(* block stop at its entry is not inductive: it follows from counting      *)
(* (Held), as since the block opened the stack has gained an entry for     *)
(* every scope it gained.                                                  *)


\* Try blocks and scopes are nested, and a scope that is being constructed or
\* destroyed is inside every open try block.
Nested(t) ==
  \A i \in 1..Len(tries[t]) :
    /\ tries[t][i].depth <= Len(live[t])
    /\ pc[t] # "run" => tries[t][i].depth < Len(live[t])
    /\ \A j \in i..Len(tries[t]) : tries[t][i].depth <= tries[t][j].depth

\* The path of try block b is a prefix of the stack, and above it lie at least as
\* many entries as scopes were entered; exactly as many unless the stream throws.
HeldBlock(b, stack, depth) ==
  b.intact =>
    /\ Len(b.trace) + depth - b.depth <= Len(stack)
    /\ ~StreamMayThrow => Len(b.trace) + depth - b.depth = Len(stack)
    /\ \A k \in 1..Len(b.trace) : stack[k] = b.trace[k]

Held(t) == \A i \in 1..Len(tries[t]) : HeldBlock(tries[t][i], trace_stack[t], Len(live[t]))

\* An exception is inside a try block: any other would have ended the process.
Enclosed(t) == exception[t].thrown => tries[t] # <<>>

HandlerInv == \A t \in Threads : Nested(t) /\ Held(t) /\ Enclosed(t)

-----------------------------------------------------------------------------
(* What one step does to the scopes and try blocks of one thread *)

Same(u)  == live'[u] = live[u] /\ trace_stack'[u] = trace_stack[u] /\ tries'[u] = tries[u]
Stays(u) == Same(u) /\ (pc'[u] # "run" => pc[u] # "run" \/ Len(live[u]) > TryDepth(u))
Enters(u) ==
  /\ \E s \in Scopes : live'[u] = Append(live[u], s) /\ trace_stack'[u] = Append(trace_stack[u], s)
  /\ tries'[u] = tries[u]
Pops(u) ==
  /\ pc[u] # "run" /\ pc'[u] = "run"
  /\ live'[u] = DropLast(live[u])
  /\ trace_stack'[u] = Popped(u)
  /\ tries'[u] = tries[u]
Aborts(u) ==
  /\ StreamMayThrow
  /\ pc[u] # "run" /\ pc'[u] = "run"
  /\ live'[u] = DropLast(live[u])
  /\ trace_stack'[u] = trace_stack[u]
  /\ tries'[u] = tries[u]
Clears(u) ==
  /\ pc'[u] = pc[u] /\ live'[u] = live[u]
  /\ tries'[u] = [i \in DOMAIN tries[u] |-> [tries[u][i] EXCEPT !.intact = FALSE]]
Opens(u) ==
  /\ pc[u] = "run" /\ pc'[u] = "run"
  /\ live'[u] = live[u] /\ trace_stack'[u] = trace_stack[u]
  /\ tries'[u] = Append(tries[u], [depth |-> Len(live[u]), trace |-> trace_stack[u], intact |-> TRUE])
Closes(u) ==
  /\ pc'[u] = pc[u] /\ live'[u] = live[u] /\ trace_stack'[u] = trace_stack[u]
  /\ tries'[u] = DropLast(tries[u])
  /\ tries[u] # <<>> /\ ~exception'[u].thrown

\* Those are all there is.
LEMMA StepsOfAThread ==
  ASSUME Typed, HandlerInv, [Next]_vars, NEW u \in Threads
  PROVE  \/ Stays(u) \/ Enters(u) \/ Pops(u) \/ Aborts(u)
         \/ Clears(u) \/ Opens(u) \/ Closes(u)
<1> USE DEF Typed, TypeOK
<1>0. \A t \in Threads : Enclosed(t)
  BY DEF HandlerInv
<1>1. CASE UNCHANGED vars
  BY <1>1 DEF vars, scopeVars, Stays, Same
<1>2. ASSUME NEW t \in Threads, NEW s \in Scopes, EnterScope(t, s)
      PROVE  Stays(u) \/ Enters(u)
  BY <1>2 DEF EnterScope, Pushed, Stays, Same, Enters
<1>3. ASSUME NEW t \in Threads, TestLogging(t)
      PROVE  Stays(u)
  BY <1>3 DEF TestLogging, scopeVars, Stays, Same
<1>4. ASSUME NEW t \in Threads, WriteLine(t) \/ WriteThroughNull(t) \/ DestructorWriteThrows(t)
      PROVE  Stays(u)
  BY <1>4 DEF WriteLine, WriteThroughNull, DestructorWriteThrows, Logging, scopeVars, Stays, Same
<1>5. ASSUME NEW t \in Threads, ConstructorWriteThrows(t)
      PROVE  Stays(u) \/ Aborts(u)
  BY <1>5 DEF ConstructorWriteThrows, Stays, Same, Aborts
<1>6. ASSUME NEW t \in Threads, LeaveScope(t)
      PROVE  Stays(u)
  BY <1>6 DEF LeaveScope, scopeVars, Stays, Same
<1>7. ASSUME NEW t \in Threads, PopEntry(t)
      PROVE  Stays(u) \/ Pops(u)
  BY <1>7 DEF PopEntry, Stays, Same, Pops
<1>8. ASSUME NEW t \in Threads, ClearTrace(t)
      PROVE  Stays(u) \/ Clears(u)
  BY <1>8 DEF ClearTrace, Stays, Same, Clears
<1>9. ASSUME NEW t \in Threads, OpenTry(t)
      PROVE  Stays(u) \/ Opens(u)
  BY <1>9 DEF OpenTry, Running, scopeVars, Stays, Same, Opens
<1>10. ASSUME NEW t \in Threads, CloseTry(t) \/ Catch(t)
       PROVE  Stays(u) \/ Closes(u)
  <2>1. tries[t] # <<>>
    BY <1>0, <1>10 DEF CloseTry, Catch, Unwinding, Enclosed
  <2>2. ~exception'[t].thrown
    BY <1>10 DEF CloseTry, Catch, Running, Unwinding, NoException
  <2> QED
    BY <1>10, <2>1, <2>2 DEF CloseTry, Catch, scopeVars, Stays, Same, Closes
<1>11. ASSUME NEW t \in Threads, Raise(t) \/ Configure(t)
       PROVE  Stays(u)
  BY <1>11 DEF Raise, Configure, SetTraceLoggingEnabled, SetTraceOutput, scopeVars, Stays, Same
<1> QED
  BY <1>1, <1>2, <1>3, <1>4, <1>5, <1>6, <1>7, <1>8, <1>9, <1>10, <1>11
     DEF Next, Construct, Destroy, Handle

\* An exception begins where a try block is open.
LEMMA ExceptionsStayEnclosed ==
  ASSUME Typed, HandlerInv, [Next]_vars, NEW u \in Threads
  PROVE  exception'[u].thrown => exception[u].thrown \/ tries'[u] # <<>>
<1> USE DEF Typed, TypeOK
<1> SUFFICES ASSUME exception'[u] # exception[u], exception'[u].thrown
             PROVE  tries'[u] # <<>>
  OBVIOUS
<1>1. ASSUME NEW t \in Threads, Catch(t)
      PROVE  FALSE
  BY <1>1 DEF Catch, NoException
<1>2. ASSUME NEW t \in Threads, Raise(t) \/ ConstructorWriteThrows(t)
      PROVE  tries'[u] # <<>>
  BY <1>2 DEF Raise, ConstructorWriteThrows
<1> QED
  BY <1>1, <1>2
  DEF Next, vars, Construct, EnterScope, TestLogging, WriteLine, WriteThroughNull,
      Destroy, LeaveScope, PopEntry, DestructorWriteThrows, ClearTrace, Handle, OpenTry, CloseTry,
      Configure, SetTraceLoggingEnabled, SetTraceOutput

-----------------------------------------------------------------------------
(* The invariant is kept *)

\* Lengths and elements of a thread's sequences.
LEMMA BlocksOfAThread ==
  ASSUME Typed, NEW u \in Threads
  PROVE  /\ live[u] \in Seq(Scopes) /\ Len(live[u]) \in Nat
         /\ trace_stack[u] \in Seq(Scopes) /\ Len(trace_stack[u]) \in Nat
         /\ tries[u] \in Seq(Block) /\ Len(tries[u]) \in Nat
         /\ tries[u] # <<>> => Len(tries[u]) \in 1..Len(tries[u])
         /\ \A i \in 1..Len(tries[u]) : /\ tries[u][i].depth \in Nat
                                       /\ tries[u][i].trace \in Seq(Scopes)
                                       /\ Len(tries[u][i].trace) \in Nat
<1>1. live[u] \in Seq(Scopes) /\ trace_stack[u] \in Seq(Scopes) /\ tries[u] \in Seq(Block)
  BY DEF Typed, TypeOK, Block
<1>2. Len(live[u]) \in Nat /\ Len(trace_stack[u]) \in Nat /\ Len(tries[u]) \in Nat
  BY <1>1, LenProperties
<1>3. \A i \in 1..Len(tries[u]) : tries[u][i] \in Block
  BY <1>1, <1>2, ElementOfSeq
<1>4. \A i \in 1..Len(tries[u]) : /\ tries[u][i].depth \in Nat
                                 /\ tries[u][i].trace \in Seq(Scopes)
                                 /\ Len(tries[u][i].trace) \in Nat
  BY <1>3, LenProperties DEF Block
<1>5. tries[u] # <<>> => Len(tries[u]) \in 1..Len(tries[u])
  BY <1>1, <1>2, EmptySeq
<1> QED
  BY <1>1, <1>2, <1>4, <1>5

\* A block that holds goes on holding when both sequences grow by one.
LEMMA BlockEnters ==
  ASSUME NEW b, b.depth \in Nat, Len(b.trace) \in Nat,
         NEW stack \in Seq(Scopes), NEW depth \in Nat, NEW s \in Scopes,
         b.depth <= depth, HeldBlock(b, stack, depth)
  PROVE  HeldBlock(b, Append(stack, s), depth + 1)
<1>1. /\ Len(stack) \in Nat
      /\ Len(Append(stack, s)) = Len(stack) + 1
      /\ \A k \in 1..Len(stack) : Append(stack, s)[k] = stack[k]
  BY AppendProperties, LenProperties
<1> SUFFICES ASSUME b.intact
             PROVE  HeldBlock(b, Append(stack, s), depth + 1)
  BY DEF HeldBlock
<1>2. /\ Len(b.trace) + depth - b.depth <= Len(stack)
      /\ ~StreamMayThrow => Len(b.trace) + depth - b.depth = Len(stack)
      /\ \A k \in 1..Len(b.trace) : stack[k] = b.trace[k]
  BY DEF HeldBlock
<1>3. /\ Len(b.trace) + (depth + 1) - b.depth <= Len(Append(stack, s))
      /\ ~StreamMayThrow => Len(b.trace) + (depth + 1) - b.depth = Len(Append(stack, s))
  BY <1>1, <1>2
<1>4. 1..Len(b.trace) \subseteq 1..Len(stack)
  BY <1>1, <1>2
<1>5. \A k \in 1..Len(b.trace) : Append(stack, s)[k] = b.trace[k]
  BY <1>1, <1>2, <1>4
<1> QED
  BY <1>3, <1>5 DEF HeldBlock

\* And when both lose their last, as long as the scope was entered inside it.
LEMMA BlockPops ==
  ASSUME NEW b, b.depth \in Nat, Len(b.trace) \in Nat,
         NEW stack \in Seq(Scopes), NEW depth \in Nat,
         b.depth < depth, HeldBlock(b, stack, depth)
  PROVE  HeldBlock(b, IF stack = <<>> THEN <<>> ELSE DropLast(stack), depth - 1)
<1> SUFFICES ASSUME b.intact
             PROVE  HeldBlock(b, IF stack = <<>> THEN <<>> ELSE DropLast(stack), depth - 1)
  BY DEF HeldBlock
<1>1. Len(stack) \in Nat /\ Len(stack) > Len(b.trace) /\ Len(stack) > 0
  BY LenProperties DEF HeldBlock
<1>2. stack # <<>>
  BY <1>1, EmptySeq
<1>3. /\ Len(DropLast(stack)) = Len(stack) - 1
      /\ \A k \in 1..(Len(stack) - 1) : DropLast(stack)[k] = stack[k]
  BY <1>1, DropLastProperties
<1> DEFINE popped == IF stack = <<>> THEN <<>> ELSE DropLast(stack)
<1>4. popped = DropLast(stack)
  BY <1>2
<1> HIDE DEF popped
<1>5. /\ Len(b.trace) + depth - b.depth <= Len(stack)
      /\ ~StreamMayThrow => Len(b.trace) + depth - b.depth = Len(stack)
      /\ \A k \in 1..Len(b.trace) : stack[k] = b.trace[k]
  BY Zenon DEF HeldBlock
<1>6. Len(b.trace) + (depth - 1) - b.depth <= Len(popped)
  BY <1>1, <1>3, <1>4, <1>5
<1>7. ASSUME ~StreamMayThrow
      PROVE  Len(b.trace) + (depth - 1) - b.depth = Len(popped)
  BY <1>1, <1>3, <1>4, <1>5, <1>7
<1>8. ASSUME NEW k \in 1..Len(b.trace)
      PROVE  popped[k] = b.trace[k]
  <2>1. k \in 1..(Len(stack) - 1)
    BY <1>1
  <2> QED
    BY <2>1, <1>3, <1>4, <1>5
<1>9. HeldBlock(b, popped, depth - 1)
  BY <1>6, <1>7, <1>8, Zenon DEF HeldBlock
<1> QED
  BY <1>9 DEF popped

\* And when a constructor that throws leaves its entry behind.
LEMMA BlockAborts ==
  ASSUME StreamMayThrow,
         NEW b, b.depth \in Nat, Len(b.trace) \in Nat,
         NEW stack \in Seq(Scopes), NEW depth \in Nat,
         b.depth < depth, HeldBlock(b, stack, depth)
  PROVE  HeldBlock(b, stack, depth - 1)
<1> SUFFICES ASSUME b.intact
             PROVE  HeldBlock(b, stack, depth - 1)
  BY DEF HeldBlock
<1>1. /\ Len(b.trace) + depth - b.depth <= Len(stack)
      /\ \A k \in 1..Len(b.trace) : stack[k] = b.trace[k]
  BY Zenon DEF HeldBlock
<1>2. Len(b.trace) + (depth - 1) - b.depth <= Len(stack)
  BY <1>1, LenProperties
<1> QED
  BY <1>1, <1>2, Zenon DEF HeldBlock

\* A step of any thread keeps the invariant of every thread.
LEMMA HandlerStep ==
  ASSUME Typed, HandlerInv, [Next]_vars
  PROVE  HandlerInv'
<1> SUFFICES ASSUME NEW u \in Threads
             PROVE  (Nested(u) /\ Held(u) /\ Enclosed(u))'
  BY DEF HandlerInv
<1>0. Nested(u) /\ Held(u) /\ Enclosed(u)
  BY DEF HandlerInv
<1>0a. Typed'
  BY TypedStep
<1>b. /\ live[u] \in Seq(Scopes) /\ Len(live[u]) \in Nat
      /\ trace_stack[u] \in Seq(Scopes) /\ Len(trace_stack[u]) \in Nat
      /\ tries[u] \in Seq(Block) /\ Len(tries[u]) \in Nat
      /\ tries[u] # <<>> => Len(tries[u]) \in 1..Len(tries[u])
      /\ \A i \in 1..Len(tries[u]) : /\ tries[u][i].depth \in Nat
                                    /\ tries[u][i].trace \in Seq(Scopes)
                                    /\ Len(tries[u][i].trace) \in Nat
  BY BlocksOfAThread
<1>n. Len(tries[u]) \in Nat
  BY <1>b
<1>c. pc[u] # "run" => Len(live[u]) > 0
  BY DEF Typed, BusyHasScope
<1>d. exception'[u].thrown => exception[u].thrown \/ tries'[u] # <<>>
  BY ExceptionsStayEnclosed
<1>1. CASE Stays(u)
  <2>1. Held(u)' /\ Enclosed(u)'
    BY <1>0, <1>1, <1>d DEF Stays, Same, Held, HeldBlock, Enclosed
  <2>2. ASSUME NEW i \in 1..Len(tries[u]), Len(live[u]) > TryDepth(u)
        PROVE  tries[u][i].depth < Len(live[u])
    <3>1. tries[u] # <<>> /\ Len(tries[u]) \in i..Len(tries[u])
      BY <1>b, EmptySeq
    <3>2. tries[u][i].depth <= TryDepth(u)
      BY <1>0, <3>1 DEF Nested, TryDepth
    <3>3. TryDepth(u) \in Nat
      BY <1>b, <3>1 DEF TryDepth
    <3> QED
      BY <2>2, <3>2, <3>3, <1>b
  <2>3. Nested(u)'
    BY <1>0, <1>1, <2>2 DEF Stays, Same, Nested
  <2> QED
    BY <2>1, <2>3
<1>2. CASE Enters(u)
  <2>1. PICK s \in Scopes : live'[u] = Append(live[u], s) /\ trace_stack'[u] = Append(trace_stack[u], s)
    BY <1>2 DEF Enters
  <2>2. tries'[u] = tries[u] /\ Len(live'[u]) = Len(live[u]) + 1
    BY <1>2, <2>1, <1>b, AppendProperties DEF Enters
  <2>3. Nested(u)'
    BY <1>0, <1>b, <2>2 DEF Nested
  <2>4. ASSUME NEW i \in 1..Len(tries[u])
        PROVE  HeldBlock(tries[u][i], trace_stack'[u], Len(live'[u]))
    BY <1>0, <1>b, <2>1, <2>2, BlockEnters DEF Nested, Held
  <2>5. Held(u)'
    BY <2>2, <2>4 DEF Held, HeldBlock
  <2> QED
    BY <1>0, <1>d, <2>2, <2>3, <2>5 DEF Enclosed
<1>3. CASE Pops(u) \/ Aborts(u)
  <2>1. /\ tries'[u] = tries[u] /\ pc[u] # "run" /\ pc'[u] = "run"
        /\ live'[u] = DropLast(live[u])
    BY <1>3 DEF Pops, Aborts
  <2>2. Len(live'[u]) = Len(live[u]) - 1
    BY <2>1, <1>b, <1>c, DropLastProperties
  <2>3. Nested(u)'
    BY <1>0, <1>b, <2>1, <2>2 DEF Nested
  <2>4. ASSUME NEW i \in 1..Len(tries[u])
        PROVE  HeldBlock(tries[u][i], trace_stack'[u], Len(live'[u]))
    <3>1. CASE Pops(u)
      BY <1>0, <1>b, <2>1, <2>2, <3>1, BlockPops DEF Pops, Popped, Nested, Held
    <3>2. CASE Aborts(u)
      BY <1>0, <1>b, <2>1, <2>2, <3>2, BlockAborts DEF Aborts, Nested, Held
    <3> QED
      BY <1>3, <3>1, <3>2
  <2>5. Held(u)'
    BY <2>1, <2>4 DEF Held, HeldBlock
  <2> QED
    BY <1>0, <1>d, <2>1, <2>3, <2>5 DEF Enclosed
<1>4. CASE Clears(u)
  <2>1. /\ Len(tries'[u]) = Len(tries[u])
        /\ \A i \in 1..Len(tries[u]) : tries'[u][i].depth = tries[u][i].depth /\ ~tries'[u][i].intact
    BY <1>4, <1>b, CutTries DEF Clears, Block
  <2>2. Nested(u)'
    BY <1>0, <1>4, <2>1 DEF Nested, Clears
  <2>3. Held(u)'
    BY <2>1 DEF Held, HeldBlock
  <2>4. tries[u] # <<>> => tries'[u] # <<>>
    BY <2>1, <1>b, EmptySeq
  <2> QED
    BY <1>0, <1>d, <2>2, <2>3, <2>4 DEF Enclosed
<1>5. CASE Opens(u)
  <2> DEFINE b == [depth |-> Len(live[u]), trace |-> trace_stack[u], intact |-> TRUE]
  <2>1. b \in Block
    BY <1>b DEF Block
  <2>2. /\ Len(tries'[u]) = Len(tries[u]) + 1
        /\ \A i \in 1..Len(tries[u]) : tries'[u][i] = tries[u][i]
        /\ tries'[u][Len(tries[u]) + 1] = b
    BY <1>5, <1>b, <2>1, AppendProperties DEF Opens
  <2>3. HeldBlock(b, trace_stack[u], Len(live[u])) /\ b.depth = Len(live[u])
    BY <1>b DEF HeldBlock
  <2> HIDE DEF b
  <2>4. pc'[u] = "run" /\ live'[u] = live[u] /\ trace_stack'[u] = trace_stack[u]
    BY <1>5 DEF Opens
  <2>5. \A i \in 1..Len(tries'[u]) : i \in 1..Len(tries[u]) \/ i = Len(tries[u]) + 1
    BY <2>2, <1>b
  <2>6. Held(u)'
    <3>1. \A i \in 1..Len(tries'[u]) : HeldBlock(tries'[u][i], trace_stack[u], Len(live[u]))
      BY <1>0, <2>2, <2>3, <2>5 DEF Held
    <3> QED
      BY <2>4, <3>1 DEF Held, HeldBlock
  <2>7. Nested(u)'
    <3>1. \A i \in 1..Len(tries'[u]) : tries'[u][i].depth <= Len(live[u])
      BY <1>0, <2>2, <2>3, <2>5, <1>b DEF Nested
    <3>2. ASSUME NEW i \in 1..Len(tries'[u]), NEW j \in i..Len(tries'[u])
          PROVE  tries'[u][i].depth <= tries'[u][j].depth
      <4>1. CASE j = Len(tries[u]) + 1
        BY <4>1, <3>1, <2>2, <2>3
      <4>2. CASE j # Len(tries[u]) + 1
        <5>1. i \in 1..Len(tries[u]) /\ j \in 1..Len(tries[u]) /\ j \in i..Len(tries[u])
          BY <4>2, <2>2, <1>b
        <5> QED
          BY <5>1, <2>2, <1>0 DEF Nested
      <4> QED
        BY <4>1, <4>2
    <3> QED
      BY <2>4, <3>1, <3>2 DEF Nested
  <2>8. tries'[u] # <<>>
    BY <2>2, <1>b, EmptySeq
  <2> QED
    BY <2>6, <2>7, <2>8 DEF Enclosed
<1>6. CASE Closes(u)
  <2>1. /\ Len(tries'[u]) = Len(tries[u]) - 1
        /\ \A i \in 1..(Len(tries[u]) - 1) : tries'[u][i] = tries[u][i]
    <3>1. tries'[u] = DropLast(tries[u]) /\ Len(tries[u]) > 0
      BY <1>6, <1>b DEF Closes
    <3> QED
      BY <1>b, <3>1, DropLastProperties
  <2>2. \A i \in 1..Len(tries'[u]) : i \in 1..Len(tries[u]) /\ tries'[u][i] = tries[u][i]
    BY <1>n, <2>1
  <2>3. Nested(u)'
    <3>1. pc'[u] = pc[u] /\ live'[u] = live[u]
      BY <1>6 DEF Closes
    <3>2. \A i \in 1..Len(tries'[u]) : \A j \in i..Len(tries'[u]) :
            j \in i..Len(tries[u]) /\ tries'[u][j] = tries[u][j]
      <4>1. ASSUME NEW i \in 1..Len(tries'[u]), NEW j \in i..Len(tries'[u])
            PROVE  j \in 1..Len(tries'[u]) /\ j \in i..Len(tries[u])
        BY <1>n, <2>1
      <4> QED
        BY <4>1, <2>2
    <3> QED
      BY <1>0, <2>2, <3>1, <3>2 DEF Nested
  <2>4. Held(u)'
    <3>1. Len(live'[u]) = Len(live[u]) /\ trace_stack'[u] = trace_stack[u]
      BY <1>6 DEF Closes
    <3>2. ASSUME NEW i \in 1..Len(tries'[u])
          PROVE  HeldBlock(tries'[u][i], trace_stack'[u], Len(live'[u]))
      BY <1>0, <2>2, <3>1 DEF Held
    <3> QED
      BY <3>2 DEF Held, HeldBlock
  <2> QED
    BY <1>6, <2>3, <2>4 DEF Enclosed, Closes
<1> QED
  BY <1>1, <1>2, <1>3, <1>4, <1>5, <1>6, StepsOfAThread

\* No block is open at the start.
LEMMA HandlerInit == Init => HandlerInv
<1> SUFFICES ASSUME Init, NEW t \in Threads
             PROVE  Nested(t) /\ Held(t) /\ Enclosed(t)
  BY DEF HandlerInv
<1>1. tries[t] = <<>> /\ exception[t] = NoException
  BY DEF Init
<1>2. 1..Len(tries[t]) = {}
  BY <1>1
<1> QED
  BY <1>1, <1>2 DEF Nested, Held, Enclosed, NoException

\* The invariant holds in every reachable state.
LEMMA AlwaysHandlerInv == Spec => [](Typed /\ HandlerInv)
<1>1. Init => Typed /\ HandlerInv
  BY TypedInit, HandlerInit
<1>2. Typed /\ HandlerInv /\ [Next]_vars => (Typed /\ HandlerInv)'
  BY TypedStep, HandlerStep
<1> QED
  BY <1>1, <1>2, PTL DEF Spec

\* The path a try block was opened on stays on the stack until control leaves the
\* block, also when the log stream throws inside constructors of TraceScope and an
\* exception unwinds through any number of scopes.
THEOREM TryPathAlwaysSurvives == Spec => []TryPathSurvives
<1>1. ASSUME Typed, HandlerInv
      PROVE  TryPathSurvives
  <2> SUFFICES ASSUME NEW t \in Threads, NEW i \in 1..Len(tries[t]), tries[t][i].intact
               PROVE  /\ Len(tries[t][i].trace) <= Len(trace_stack[t])
                      /\ \A k \in 1..Len(tries[t][i].trace) : trace_stack[t][k] = tries[t][i].trace[k]
    <3>1. \A t \in Threads : DOMAIN tries[t] = 1..Len(tries[t])
      BY <1>1, BlocksOfAThread, LenProperties
    <3> QED
      BY <3>1 DEF TryPathSurvives
  <2>1. /\ tries[t][i].depth \in Nat /\ tries[t][i].depth <= Len(live[t])
        /\ Len(tries[t][i].trace) \in Nat /\ Len(live[t]) \in Nat /\ Len(trace_stack[t]) \in Nat
    BY <1>1, BlocksOfAThread DEF HandlerInv, Nested
  <2>2. /\ Len(tries[t][i].trace) + Len(live[t]) - tries[t][i].depth <= Len(trace_stack[t])
        /\ \A k \in 1..Len(tries[t][i].trace) : trace_stack[t][k] = tries[t][i].trace[k]
    BY <1>1 DEF HandlerInv, Held, HeldBlock
  <2> DEFINE path  == Len(tries[t][i].trace)
             depth == tries[t][i].depth
             lives == Len(live[t])
             stack == Len(trace_stack[t])
  <2>3. /\ path \in Nat /\ depth \in Nat /\ lives \in Nat /\ stack \in Nat
        /\ depth <= lives /\ path + lives - depth <= stack
    BY <2>1, <2>2
  <2> HIDE DEF path, depth, lives, stack
  <2>4. path <= stack
    BY <2>3
  <2> QED
    BY <2>2, <2>4 DEF path, stack
<1> QED
  BY <1>1, AlwaysHandlerInv, PTL

\* Unless the log stream throws, a handler starts with the trace its thread had when
\* it entered the try block: unwinding runs the destructor of every scope of the
\* block and of no other (TraceScope::~TraceScope, MohidNgException).
THEOREM HandlersAlwaysRestoreTraces ==
  ASSUME ~StreamMayThrow
  PROVE  Spec => HandlerRestoresTrace
<1> DEFINE Restored == \A t \in Threads :
                         Catch(t) /\ tries[t][Len(tries[t])].intact
                           => trace_stack[t] = tries[t][Len(tries[t])].trace
<1>1. ASSUME Typed, HandlerInv
      PROVE  Restored
  <2> SUFFICES ASSUME NEW t \in Threads, Catch(t), tries[t][Len(tries[t])].intact
               PROVE  trace_stack[t] = tries[t][Len(tries[t])].trace
    OBVIOUS
  <2> DEFINE b == tries[t][Len(tries[t])]
  <2>1. tries[t] # <<>>
    BY <1>1 DEF HandlerInv, Enclosed, Catch, Unwinding
  <2>2. Len(tries[t]) \in 1..Len(tries[t])
    BY <1>1, <2>1, BlocksOfAThread
  <2>3. HeldBlock(b, trace_stack[t], Len(live[t]))
    BY <1>1, <2>2 DEF HandlerInv, Held
  <2>4. Len(live[t]) = b.depth
    BY <2>1 DEF Catch, TryDepth
  <2>5. /\ trace_stack[t] \in Seq(Scopes) /\ b.trace \in Seq(Scopes)
        /\ Len(b.trace) \in Nat /\ b.depth \in Nat
    BY <1>1, <2>2, BlocksOfAThread
  <2> HIDE DEF b
  <2>6. /\ Len(b.trace) + Len(live[t]) - b.depth = Len(trace_stack[t])
        /\ \A k \in 1..Len(b.trace) : trace_stack[t][k] = b.trace[k]
    BY <2>3, Zenon DEF HeldBlock, b
  <2>7. Len(b.trace) = Len(trace_stack[t])
    BY <2>4, <2>5, <2>6
  <2>8. trace_stack[t] = b.trace
    BY <2>5, <2>6, <2>7, SeqEqual
  <2> QED
    BY <2>8 DEF b
<1>2. Spec => [][Restored]_vars
  BY <1>1, AlwaysHandlerInv, PTL DEF Spec
<1> QED
  BY <1>2 DEF HandlerRestoresTrace

-----------------------------------------------------------------------------
(* Unwinding *)

\* The part of UnwindingKeepsThrowPath about one thread.
ThrowPath(e, stack) ==
  e.thrown /\ e.trace # <<>> =>
    /\ Len(stack) <= Len(e.trace)
    /\ \A k \in 1..Len(stack) : stack[k] = e.trace[k]

\* An unwinding thread only pops.
LEMMA ThrowPathStep ==
  ASSUME Typed, UnwindingKeepsThrowPath, [Next]_vars
  PROVE  UnwindingKeepsThrowPath'
<1> USE DEF Typed, TypeOK
<1> SUFFICES ASSUME NEW u \in Threads
             PROVE  ThrowPath(exception'[u], trace_stack'[u])
  BY DEF UnwindingKeepsThrowPath, ThrowPath
<1>0. ThrowPath(exception[u], trace_stack[u])
  BY DEF UnwindingKeepsThrowPath, ThrowPath
<1>1. CASE exception'[u] = exception[u] /\ trace_stack'[u] = trace_stack[u]
  BY <1>0, <1>1
<1>2. CASE ~exception'[u].thrown \/ exception'[u].trace = <<>>
  BY <1>2 DEF ThrowPath
<1>3. ASSUME NEW t \in Threads, (\E s \in Scopes : EnterScope(t, s)) \/ ClearTrace(t)
      PROVE  ThrowPath(exception'[u], trace_stack'[u])
  <2>1. exception' = exception /\ ~exception[t].thrown /\ \A v \in Threads \ {t} : trace_stack'[v] = trace_stack[v]
    BY <1>3 DEF EnterScope, ClearTrace, Running, Unwinding
  <2> QED
    BY <2>1, <1>1, <1>2
<1>4. ASSUME NEW t \in Threads, PopEntry(t)
      PROVE  ThrowPath(exception'[u], trace_stack'[u])
  <2>1. exception'[u] = exception[u] /\ (trace_stack'[u] = trace_stack[u] \/ trace_stack'[u] = Popped(u))
    BY <1>4 DEF PopEntry
  <2>2. CASE trace_stack[u] = <<>>
    BY <2>1, <2>2, <1>1 DEF Popped
  <2>3. CASE trace_stack[u] # <<>> /\ trace_stack'[u] = Popped(u)
    <3>1. trace_stack[u] \in Seq(Scopes) /\ Len(trace_stack[u]) \in Nat /\ Len(trace_stack[u]) > 0
      BY <2>3, LenProperties, EmptySeq
    <3>2. /\ Len(trace_stack'[u]) = Len(trace_stack[u]) - 1
          /\ \A k \in 1..(Len(trace_stack[u]) - 1) : trace_stack'[u][k] = trace_stack[u][k]
      BY <2>3, <3>1, DropLastProperties DEF Popped
    <3>3. exception[u].trace \in Seq(Scopes) /\ Len(exception[u].trace) \in Nat
      BY LenProperties
    <3> SUFFICES ASSUME exception[u].thrown, exception[u].trace # <<>>
                 PROVE  /\ Len(trace_stack'[u]) <= Len(exception[u].trace)
                        /\ \A k \in 1..Len(trace_stack'[u]) : trace_stack'[u][k] = exception[u].trace[k]
      BY <2>1 DEF ThrowPath
    <3>4. /\ Len(trace_stack[u]) <= Len(exception[u].trace)
          /\ \A k \in 1..Len(trace_stack[u]) : trace_stack[u][k] = exception[u].trace[k]
      BY <1>0 DEF ThrowPath
    <3>5. Len(trace_stack'[u]) <= Len(exception[u].trace)
      BY <3>1, <3>2, <3>3, <3>4
    <3>6. ASSUME NEW k \in 1..Len(trace_stack'[u])
          PROVE  trace_stack'[u][k] = exception[u].trace[k]
      <4>1. k \in 1..(Len(trace_stack[u]) - 1) /\ k \in 1..Len(trace_stack[u])
        BY <3>1, <3>2
      <4> QED
        BY <4>1, <3>2, <3>4
    <3> QED
      BY <3>5, <3>6
  <2> QED
    BY <1>1, <2>1, <2>2, <2>3
<1>5. ASSUME NEW t \in Threads, Raise(t)
      PROVE  ThrowPath(exception'[u], trace_stack'[u])
  <2>1. CASE u = t
    <3>1. exception'[u].trace = trace_stack'[u]
      BY <1>5, <2>1 DEF Raise, CurrentTrace, scopeVars
    <3>2. trace_stack'[u] \in Seq(Scopes) /\ Len(trace_stack'[u]) \in Nat
      BY <1>5, LenProperties DEF Raise, scopeVars
    <3> QED
      BY <3>1, <3>2 DEF ThrowPath
  <2>2. CASE u # t
    BY <1>1, <1>5, <2>2 DEF Raise, scopeVars
  <2> QED
    BY <2>1, <2>2
<1>6. ASSUME NEW t \in Threads, Catch(t) \/ ConstructorWriteThrows(t)
      PROVE  ThrowPath(exception'[u], trace_stack'[u])
  <2>1. CASE u = t
    BY <1>2, <1>6, <2>1 DEF Catch, ConstructorWriteThrows, NoException, Failure
  <2>2. CASE u # t
    BY <1>1, <1>6, <2>2 DEF Catch, ConstructorWriteThrows, scopeVars
  <2> QED
    BY <2>1, <2>2
<1>7. ASSUME NEW t \in Threads,
             TestLogging(t) \/ WriteLine(t) \/ WriteThroughNull(t) \/ DestructorWriteThrows(t)
               \/ LeaveScope(t) \/ OpenTry(t) \/ CloseTry(t) \/ Configure(t)
      PROVE  ThrowPath(exception'[u], trace_stack'[u])
  BY <1>1, <1>7
  DEF TestLogging, WriteLine, WriteThroughNull, DestructorWriteThrows, LeaveScope, OpenTry, CloseTry,
      Configure, SetTraceLoggingEnabled, SetTraceOutput, scopeVars
<1>8. CASE UNCHANGED vars
  BY <1>1, <1>8 DEF vars, scopeVars
<1> QED
  BY <1>3, <1>4, <1>5, <1>6, <1>7, <1>8 DEF Next, Construct, Destroy, Handle

\* However far an exception has unwound, and even if a log stream throws meanwhile
\* elsewhere, what is left of its thread's stack is a prefix of the trace the
\* exception copied when it was built (MohidNgException::Trace).
THEOREM UnwindingAlwaysKeepsThrowPath == Spec => []UnwindingKeepsThrowPath
<1>1. Init => Typed /\ UnwindingKeepsThrowPath
  BY TypedInit DEF Init, UnwindingKeepsThrowPath, NoException
<1>2. Typed /\ UnwindingKeepsThrowPath /\ [Next]_vars => (Typed /\ UnwindingKeepsThrowPath)'
  BY TypedStep, ThrowPathStep
<1> QED
  BY <1>1, <1>2, PTL DEF Spec
=============================================================================
