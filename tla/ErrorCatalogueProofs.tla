------------------------ MODULE ErrorCatalogueProofs ------------------------
(***************************************************************************)
(* Proofs about ErrorCatalogue for any number of threads, any list of      *)
(* built-in codes and any definitions.  The invariant is mutual exclusion  *)
(* (Mutex) with what it protects: the flag is set before the first         *)
(* insertion, and a section that has seen it set leaves nothing to insert  *)
(* behind unless memory ran out (Begun).  To it belongs what each thread   *)
(* knows between the steps of its call: which calls can be where (Calls),  *)
(* that the languages it can read are among those it has seen (Selecting), *)
(* that it has a text once it has looked one up (Answers), and in which    *)
(* languages the parts of that text came out (Parts).                      *)
(***************************************************************************)
EXTENDS ErrorCatalogue, TLAPS

Inside == {"builtins", "insert", "body", "assigned"}

\* The threads inside a critical section are the owner of the mutex and no other.
Mutex == /\ DOMAIN pc = Threads
         /\ \A t \in Threads : pc[t] \in Inside <=> owner = t

InsertedSoFar == {BuiltinOrder[i] : i \in 1..inserted}

Prefix ==
  /\ inserted \in 0..Len(BuiltinOrder)
  /\ InsertedSoFar \subseteq DOMAIN registry
  /\ registered = FALSE => inserted = 0 /\ DOMAIN registry = {}

Begun ==
  /\ DOMAIN call = Threads
  /\ registered \in BOOLEAN
  /\ \A t \in Threads : pc[t] = "insert" => registered = TRUE
  /\ \A t \in Threads : pc[t] = "body" /\ call[t].op \in CallsBuiltins => registered = TRUE
  /\ AllocMayFail = FALSE /\ registered = TRUE =>
       inserted = Len(BuiltinOrder) \/ \E t \in Threads : pc[t] = "insert"

SelectOp == [op : {"SetMessageLanguage"}, language : Languages]
CallsOf  == RegisterOp \cup SelectOp \cup RenderInOp \cup RenderOp

Calls ==
  \A t \in Threads :
    /\ pc[t] = "idle" => call[t] = NoCall
    /\ pc[t] # "idle" => call[t] \in CallsOf
    /\ pc[t] \in {"builtins", "insert"} => call[t].op \in CallsBuiltins
    /\ pc[t] = "assigned" => call[t].op = "SetMessageLanguage" /\ assigning = call[t].language
    /\ pc[t] = "label" => Looks(t)

Selecting ==
  /\ selected \in Languages
  /\ DOMAIN seen = Threads
  /\ \A t \in Threads : pc[t] # "idle" => Visible \subseteq seen[t]

Answers ==
  /\ DOMAIN text = Threads /\ DOMAIN spoke = Threads
  /\ \A t \in Threads :
       /\ pc[t] \notin {"label", "done"} => text[t] = Empty /\ spoke[t] = "none"
       /\ pc[t] = "label" => text[t] # Empty
       /\ pc[t] = "done" /\ spoke[t] # "none" => text[t] # Empty /\ Looks(t)
       /\ pc[t] = "done" /\ Renders(t) /\ AllocMayFail = FALSE => text[t] # Empty

\* The languages a thread's message and its label came out in.
MessagePart(t) ==
  /\ call[t].op = "Message" => spoke[t] \in seen[t] \cap Languages
  /\ call[t].op = "MessageIn" => spoke[t] = call[t].language

LabelPart(t) ==
  call[t].detail = TRUE =>
    /\ call[t].op = "Message" =>
         /\ labelled[t] \in seen[t] \cup {PtBr}
         /\ \A l \in Languages : seen[t] = {l} => labelled[t] = l
    /\ call[t].op = "MessageIn" =>
         labelled[t] = IF IsSupportedLanguage(call[t].language) THEN call[t].language ELSE PtBr

Parts ==
  /\ DOMAIN labelled = Threads
  /\ \A t \in Threads :
       /\ pc[t] \in {"label", "done"} /\ spoke[t] # "none" => MessagePart(t)
       /\ pc[t] = "done" /\ spoke[t] # "none" => LabelPart(t)

IInv == Mutex /\ Prefix /\ Begun /\ Calls /\ Selecting /\ Answers /\ Parts

\* The mutex is free and the registry empty at the start.
LEMMA InitIsInv == Init => IInv
<1> SUFFICES ASSUME Init PROVE IInv
  OBVIOUS
<1>1. Mutex
  BY NoThreadAssumption DEF Init, Mutex, Inside
<1>2. Len(BuiltinOrder) \in Nat
  BY OrderAssumption
<1>3. Prefix
  <2>1. DOMAIN registry = {} /\ InsertedSoFar = {}
    BY DEF Init, InsertedSoFar
  <2> QED
    BY <1>2, <2>1 DEF Init, Prefix
<1>4. Begun
  BY DEF Init, Begun
<1>5. Calls
  BY DEF Init, Calls
<1>6. Selecting
  BY DEF Init, Selecting, Languages
<1>7. Answers /\ Parts
  BY DEF Init, Answers, Parts
<1> QED
  BY <1>1, <1>3, <1>4, <1>5, <1>6, <1>7 DEF IInv

\* Entering, moving inside and leaving: at most one thread is ever inside.
LEMMA MutexStep ==
  ASSUME Mutex, [Next]_vars
  PROVE  Mutex'
<1> USE DEF Mutex, Inside
<1>1. ASSUME NEW t \in Threads, Begin(t) \/ Return(t) \/ AppendDetail(t)
      PROVE  Mutex'
  BY <1>1 DEF Begin, RegisterError, SetMessageLanguage, Message, MessageInLang, Call, Return, AppendDetail
<1>2. ASSUME NEW t \in Threads, Lock(t)
      PROVE  Mutex'
  BY <1>2, NoThreadAssumption DEF Lock
<1>3. ASSUME NEW t \in Threads,
             TestBuiltins(t) \/ InsertBuiltin(t) \/ BuiltinsComplete(t) \/ BeginAssign(t)
      PROVE  Mutex'
  BY <1>3 DEF TestBuiltins, InsertBuiltin, BuiltinsComplete, BeginAssign
<1>4. ASSUME NEW t \in Threads,
             InsertFails(t) \/ StoreDefinition(t) \/ EndAssign(t) \/ FetchLanguage(t) \/ LookUp(t)
      PROVE  Mutex'
  <2>1. /\ owner = t /\ owner' = NoThread
        /\ \E where \in {"done", "lock", "label"} : pc' = [pc EXCEPT ![t] = where]
    BY <1>4 DEF InsertFails, StoreDefinition, EndAssign, FetchLanguage, LookUp, Leave
  <2> QED
    BY <2>1, NoThreadAssumption
<1>5. CASE UNCHANGED vars
  BY <1>5 DEF vars
<1> QED
  BY <1>1, <1>2, <1>3, <1>4, <1>5 DEF Next, Step

\* Steps that touch neither the registry nor the flag.
LEMMA OthersKeepPrefix ==
  ASSUME Prefix, UNCHANGED registryVars
  PROVE  Prefix'
BY DEF Prefix, InsertedSoFar, registryVars

\* What emplace and assignment do to the set of known codes.
LEMMA KnownCodes ==
  ASSUME NEW catalogue, NEW code, NEW messages
  PROVE  /\ DOMAIN Emplaced(catalogue, code, messages) = DOMAIN catalogue \cup {code}
         /\ DOMAIN Replaced(catalogue, code, messages) = DOMAIN catalogue \cup {code}
BY DEF Emplaced, Replaced

\* The registry grows by the next built-in definition or by one that a caller stores.
LEMMA PrefixStep ==
  ASSUME IInv, [Next]_vars
  PROVE  Prefix'
<1> USE DEF IInv
<1>0. Len(BuiltinOrder) \in Nat /\ inserted \in Nat
  BY OrderAssumption DEF Prefix
<1>1. ASSUME NEW t \in Threads, InsertBuiltin(t)
      PROVE  Prefix'
  <2>1. /\ inserted' = inserted + 1 /\ inserted < Len(BuiltinOrder)
        /\ registry' = Emplaced(registry, BuiltinOrder[inserted'], Localised("builtin"))
        /\ registered' = registered /\ registered = TRUE
    BY <1>1 DEF InsertBuiltin, Begun
  <2>2. InsertedSoFar' = InsertedSoFar \cup {BuiltinOrder[inserted']}
    <3>1. 1..inserted' = 1..inserted \cup {inserted'}
      BY <1>0, <2>1
    <3> QED
      BY <3>1 DEF InsertedSoFar
  <2>3. DOMAIN registry' = DOMAIN registry \cup {BuiltinOrder[inserted']}
    BY <2>1, KnownCodes
  <2>4. InsertedSoFar' \subseteq DOMAIN registry'
    BY <2>1, <2>2, <2>3 DEF Prefix
  <2> QED
    BY <1>0, <2>1, <2>4 DEF Prefix
<1>2. ASSUME NEW t \in Threads, StoreDefinition(t)
      PROVE  Prefix'
  <2>1. /\ registry' = Replaced(registry, call[t].code, call[t].messages)
        /\ registered' = registered /\ inserted' = inserted /\ registered = TRUE
    BY <1>2 DEF StoreDefinition, Stored, Begun, CallsBuiltins
  <2>2. DOMAIN registry' = DOMAIN registry \cup {call[t].code}
    BY <2>1, KnownCodes
  <2> QED
    BY <2>1, <2>2 DEF Prefix, InsertedSoFar
<1>3. ASSUME NEW t \in Threads, TestBuiltins(t)
      PROVE  Prefix'
  BY <1>3 DEF TestBuiltins, Prefix, InsertedSoFar
<1>4. CASE UNCHANGED registryVars
  BY <1>4, OthersKeepPrefix
<1> QED
  BY <1>1, <1>2, <1>3, <1>4
  DEF Next, Begin, Step, RegisterError, SetMessageLanguage, Message, MessageInLang, Call, Lock, Return,
      BuiltinsComplete, InsertFails, BeginAssign, EndAssign, FetchLanguage, LookUp, AppendDetail, vars

\* Only a section that has seen the flag set stores, and it inserts to the end.
LEMMA BegunStep ==
  ASSUME IInv, [Next]_vars
  PROVE  Begun'
<1> USE DEF IInv, Mutex, Inside, Begun
<1>1. ASSUME NEW t \in Threads, NEW c, Call(t, c)
      PROVE  Begun'
  BY <1>1 DEF Call, registryVars
<1>2. ASSUME NEW t \in Threads, Lock(t)
      PROVE  Begun'
  BY <1>2 DEF Lock, registryVars, CallsBuiltins
<1>3. ASSUME NEW t \in Threads, TestBuiltins(t)
      PROVE  Begun'
  BY <1>3 DEF TestBuiltins
<1>4. ASSUME NEW t \in Threads, InsertBuiltin(t)
      PROVE  Begun'
  BY <1>4 DEF InsertBuiltin
<1>5. ASSUME NEW t \in Threads, BuiltinsComplete(t)
      PROVE  Begun'
  BY <1>5 DEF BuiltinsComplete, registryVars
<1>6. ASSUME NEW t \in Threads, InsertFails(t)
      PROVE  Begun'
  BY <1>6 DEF InsertFails, Leave, registryVars
<1>7. ASSUME NEW t \in Threads, StoreDefinition(t) \/ EndAssign(t) \/ FetchLanguage(t) \/ LookUp(t)
      PROVE  Begun'
  <2>1. /\ pc[t] # "insert"
        /\ \E where \in {"done", "lock", "label"} : pc' = [pc EXCEPT ![t] = where]
        /\ registered' = registered /\ inserted' = inserted
        /\ DOMAIN call' = Threads
        /\ \A u \in Threads \ {t} : call'[u] = call[u]
    BY <1>7 DEF StoreDefinition, EndAssign, FetchLanguage, LookUp, Leave, registryVars
  <2> QED
    BY <2>1
<1>8. ASSUME NEW t \in Threads, BeginAssign(t) \/ AppendDetail(t) \/ Return(t)
      PROVE  Begun'
  BY <1>8 DEF BeginAssign, AppendDetail, Return, registryVars, NoCall
<1>9. CASE UNCHANGED vars
  BY <1>9 DEF vars, registryVars
<1> QED
  BY <1>1, <1>2, <1>3, <1>4, <1>5, <1>6, <1>7, <1>8, <1>9
  DEF Next, Begin, RegisterError, SetMessageLanguage, Message, MessageInLang, Step

\* What a thread calls is one of the operations, in a supported language.
LEMMA BeginIsCall ==
  ASSUME NEW t \in Threads, Begin(t)
  PROVE  \E c \in CallsOf : Call(t, c)
<1>1. ASSUME NEW l
      PROVE  Supported(l) \in Languages
  BY DEF Supported, IsSupportedLanguage, Languages
<1>2. ASSUME NEW l, NEW c, c = [op |-> "SetMessageLanguage", language |-> Supported(l)]
      PROVE  c \in CallsOf
  BY <1>1, <1>2 DEF SelectOp, CallsOf
<1>3. CASE SetMessageLanguage(t)
  BY <1>2, <1>3 DEF SetMessageLanguage
<1>4. CASE RegisterError(t) \/ Message(t) \/ MessageInLang(t)
  BY <1>4 DEF RegisterError, Message, MessageInLang, CallsOf
<1> QED
  BY <1>3, <1>4 DEF Begin

\* A step of one thread leaves the calls and results of the others alone, and the
\* languages they have seen grow by what has become visible, if at all.
LEMMA OthersStand ==
  ASSUME IInv, NEW t \in Threads, Begin(t) \/ Step(t)
  PROVE  /\ DOMAIN seen' = Threads /\ DOMAIN text' = Threads
         /\ DOMAIN spoke' = Threads /\ DOMAIN labelled' = Threads
         /\ \A u \in Threads \ {t} :
              /\ pc'[u] = pc[u] /\ call'[u] = call[u]
              /\ text'[u] = text[u] /\ spoke'[u] = spoke[u] /\ labelled'[u] = labelled[u]
              /\ seen[u] \subseteq seen'[u]
<1> USE DEF IInv, Mutex, Begun, Selecting, Answers, Parts
<1>1. ASSUME NEW c, Call(t, c)
      PROVE  /\ DOMAIN seen' = Threads /\ seen' = [seen EXCEPT ![t] = Visible]
             /\ pc' = [pc EXCEPT ![t] = "lock"] /\ call' = [call EXCEPT ![t] = c]
             /\ UNCHANGED resultVars
  BY <1>1 DEF Call
<1>2. CASE Begin(t)
  BY <1>1, <1>2, BeginIsCall DEF resultVars
<1>3. CASE Lock(t) \/ TestBuiltins(t) \/ InsertBuiltin(t) \/ BuiltinsComplete(t)
  BY <1>3 DEF Lock, TestBuiltins, InsertBuiltin, BuiltinsComplete, resultVars
<1>4. CASE InsertFails(t) \/ StoreDefinition(t) \/ EndAssign(t) \/ FetchLanguage(t)
  BY <1>4 DEF InsertFails, StoreDefinition, EndAssign, FetchLanguage, Leave, resultVars
<1>5. CASE BeginAssign(t)
  BY <1>5 DEF BeginAssign, resultVars
<1>6. CASE Return(t) \/ LookUp(t) \/ AppendDetail(t)
  BY <1>6 DEF Return, LookUp, AppendDetail, Leave
<1> QED
  BY <1>2, <1>3, <1>4, <1>5, <1>6 DEF Step

\* Operations are told apart by their first argument, and FetchLanguage turns one
\* rendering into the other.
LEMMA KindsOfCall ==
  ASSUME NEW c \in CallsOf
  PROVE  /\ c.op \in {"RegisterError", "SetMessageLanguage", "GetMessageLanguage", "Message", "MessageIn"}
         /\ c # NoCall
         /\ c.op = "RegisterError" => c \in RegisterOp
         /\ c.op = "SetMessageLanguage" => c \in SelectOp
         /\ c.op = "MessageIn" => c \in RenderInOp
         /\ c.op \in {"GetMessageLanguage", "Message"} => c \in RenderOp
         /\ c.op = "GetMessageLanguage" => [c EXCEPT !.op = "Message"] \in CallsOf
<1>1. \/ c \in RegisterOp /\ c.op = "RegisterError"
      \/ c \in SelectOp /\ c.op = "SetMessageLanguage"
      \/ c \in RenderInOp /\ c.op = "MessageIn"
      \/ c \in RenderOp /\ c.op \in {"GetMessageLanguage", "Message"}
  BY DEF CallsOf, RegisterOp, SelectOp, RenderInOp, RenderOp
<1>2. c.op # "none" => c # NoCall
  BY DEF NoCall
<1>3. ASSUME c \in RenderOp
      PROVE  [c EXCEPT !.op = "Message"] \in RenderOp
  BY <1>3 DEF RenderOp
<1> QED
  BY <1>1, <1>2, <1>3 DEF CallsOf

\* A call stays what it was until it returns, but for the second half of Message.
LEMMA CallsStep ==
  ASSUME IInv, [Next]_vars
  PROVE  Calls'
<1> USE DEF IInv, Mutex, Inside, Begun, Calls
<1>1. ASSUME NEW t \in Threads, NEW c \in CallsOf, Call(t, c)
      PROVE  Calls'
  BY <1>1 DEF Call, Looks, languageVars
<1>2. ASSUME NEW t \in Threads, Lock(t) \/ TestBuiltins(t) \/ InsertBuiltin(t) \/ BuiltinsComplete(t) \/ InsertFails(t)
      PROVE  Calls'
  BY <1>2 DEF Lock, TestBuiltins, InsertBuiltin, BuiltinsComplete, InsertFails, Leave, Looks, languageVars
<1>3. ASSUME NEW t \in Threads, BeginAssign(t) \/ EndAssign(t)
      PROVE  Calls'
  BY <1>3 DEF BeginAssign, EndAssign, Leave, Looks
<1>4. ASSUME NEW t \in Threads, FetchLanguage(t)
      PROVE  Calls'
  BY <1>4, KindsOfCall DEF FetchLanguage, Leave, Looks, languageVars
<1>5. ASSUME NEW t \in Threads, StoreDefinition(t) \/ LookUp(t) \/ AppendDetail(t)
      PROVE  Calls'
  BY <1>5 DEF StoreDefinition, LookUp, AppendDetail, Leave, Looks, languageVars
<1>6. ASSUME NEW t \in Threads, Return(t)
      PROVE  Calls'
  BY <1>6 DEF Return, Looks, languageVars
<1>7. CASE UNCHANGED vars
  BY <1>7 DEF vars, Looks, languageVars
<1> QED
  BY <1>1, <1>2, <1>3, <1>4, <1>5, <1>6, <1>7, BeginIsCall DEF Next, Step

\* A new language is seen by everybody who is in a call before it is selected.
LEMMA SelectingStep ==
  ASSUME IInv, [Next]_vars
  PROVE  Selecting'
<1> USE DEF IInv, Selecting
<1>1. ASSUME NEW t \in Threads, NEW c \in CallsOf, Call(t, c)
      PROVE  Selecting'
  BY <1>1 DEF Call, Visible, languageVars, Mutex
<1>2. ASSUME NEW t \in Threads, BeginAssign(t)
      PROVE  Selecting'
  BY <1>2 DEF BeginAssign, Visible, Mutex
<1>3. ASSUME NEW t \in Threads, EndAssign(t)
      PROVE  Selecting'
  <2>1. assigning \in Languages
    BY <1>3, KindsOfCall DEF EndAssign, Calls, SelectOp
  <2>2. assigning # "none"
    BY <2>1 DEF Languages, PtBr, PtPt, EnGb
  <2>3. selected' = assigning /\ assigning' = "none" /\ seen' = seen
    BY <1>3 DEF EndAssign
  <2>4. \A u \in Threads : pc'[u] # "idle" => pc[u] # "idle"
    BY <1>3 DEF EndAssign, Leave, Mutex
  <2> QED
    BY <2>1, <2>2, <2>3, <2>4 DEF Visible
<1>4. ASSUME NEW t \in Threads, Return(t)
      PROVE  Selecting'
  BY <1>4 DEF Return, Visible, languageVars, Mutex
<1>5. ASSUME NEW t \in Threads,
             \/ Lock(t) \/ TestBuiltins(t) \/ InsertBuiltin(t) \/ BuiltinsComplete(t) \/ InsertFails(t)
             \/ StoreDefinition(t) \/ FetchLanguage(t) \/ LookUp(t) \/ AppendDetail(t)
      PROVE  Selecting'
  <2>1. UNCHANGED <<selected, assigning, seen>> /\ \A u \in Threads : pc'[u] # "idle" => pc[u] # "idle"
    BY <1>5 DEF Lock, TestBuiltins, InsertBuiltin, BuiltinsComplete, InsertFails, StoreDefinition,
                FetchLanguage, LookUp, AppendDetail, Leave, languageVars, Mutex
  <2> QED
    BY <2>1 DEF Visible
<1>6. CASE UNCHANGED vars
  BY <1>6 DEF vars, languageVars, Visible
<1> QED
  BY <1>1, <1>2, <1>3, <1>4, <1>5, <1>6, BeginIsCall DEF Next, Step

\* ErrorMessage never returns an empty text, whatever is registered: the text for an
\* unknown code has an author, and it replaces every empty one.
LEMMA MessagesAreNotEmpty ==
  ASSUME NEW catalogue, NEW code, NEW language
  PROVE  MessageIn(catalogue, code, language) # Empty
<1>1. UnknownErrorMessage(language) # Empty
  <2>1. PtBr \in DOMAIN Localised("unknown")
    BY DEF Localised, Languages
  <2>2. \A l \in DOMAIN Localised("unknown") : Localised("unknown")[l] = <<"unknown", l>>
    BY DEF Localised
  <2>3. \E l : UnknownErrorMessage(language) \in {<<"unknown", l>>, <<"code", "code">>}
    BY <2>1, <2>2 DEF UnknownErrorMessage, MessageFromDefinition, SpokenLanguage
  <2>4. \A l : <<"unknown", l>> # Empty
    BY DEF Empty
  <2>5. <<"code", "code">> # Empty
    BY DEF Empty
  <2> QED
    BY <2>3, <2>4, <2>5
<1> QED
  BY <1>1 DEF MessageIn

\* Every rendering that gets past the lookup has a text from then on.
LEMMA AnswersStep ==
  ASSUME IInv, [Next]_vars
  PROVE  Answers'
<1> USE DEF IInv, Mutex, Answers
<1>1. ASSUME NEW t \in Threads, NEW c \in CallsOf, Call(t, c)
      PROVE  Answers'
  BY <1>1 DEF Call, resultVars, Looks, Renders
<1>2. ASSUME NEW t \in Threads, Lock(t) \/ TestBuiltins(t) \/ InsertBuiltin(t) \/ BuiltinsComplete(t)
      PROVE  Answers'
  BY <1>2 DEF Lock, TestBuiltins, InsertBuiltin, BuiltinsComplete, resultVars, Looks, Renders
<1>3. ASSUME NEW t \in Threads, InsertFails(t)
      PROVE  Answers'
  BY <1>3 DEF InsertFails, Leave, resultVars, Looks, Renders
<1>4. ASSUME NEW t \in Threads, StoreDefinition(t) \/ BeginAssign(t) \/ EndAssign(t)
      PROVE  Answers'
  BY <1>4 DEF StoreDefinition, BeginAssign, EndAssign, Leave, resultVars, Looks, Renders, Calls
<1>5. ASSUME NEW t \in Threads, FetchLanguage(t)
      PROVE  Answers'
  BY <1>5 DEF FetchLanguage, Leave, resultVars, Looks, Renders, Begun
<1>6. ASSUME NEW t \in Threads, LookUp(t)
      PROVE  Answers'
  BY <1>6, MessagesAreNotEmpty DEF LookUp, Leave, Looks, Renders
<1>7. ASSUME NEW t \in Threads, AppendDetail(t)
      PROVE  Answers'
  BY <1>7 DEF AppendDetail, Looks, Renders, Calls
<1>8. ASSUME NEW t \in Threads, Return(t)
      PROVE  Answers'
  BY <1>8 DEF Return, Looks, Renders
<1>9. CASE UNCHANGED vars
  BY <1>9 DEF vars, resultVars, Looks, Renders
<1> QED
  BY <1>1, <1>2, <1>3, <1>4, <1>5, <1>6, <1>7, <1>8, <1>9, BeginIsCall DEF Next, Step

\* The label of a supported language is in that language, of any other in pt-br.
LEMMA LabelOf ==
  ASSUME NEW language
  PROVE  DetailLabel(language)[2] = IF IsSupportedLanguage(language) THEN language ELSE PtBr
<1>1. DOMAIN Localised("label") = Languages /\ PtBr \in Languages
  BY DEF Localised, Languages
<1>2. \A l \in Languages : Localised("label")[l] = <<"label", l>>
  BY DEF Localised
<1>3. \A l \in Languages : l # "code"
  BY DEF Languages, PtBr, PtPt, EnGb
<1> QED
  BY <1>1, <1>2, <1>3 DEF DetailLabel, MessageFromDefinition, SpokenLanguage, IsSupportedLanguage

\* What an unprotected read yields is visible or torn, and where only one language
\* is visible it is that one.
LEMMA ReadableLabels ==
  ASSUME Selecting, NEW language \in Readable
  PROVE  /\ DetailLabel(language)[2] \in Visible \cup {PtBr}
         /\ \A l : Visible \subseteq {l} => DetailLabel(language)[2] = l
<1>1. selected \in Visible /\ selected \in Languages
  BY DEF Visible, Selecting
<1>2. language \in {selected, assigning, Torn}
  BY DEF Readable
<1>3. Torn \notin Languages /\ "none" \notin Languages
  BY DEF Torn, Languages, PtBr, PtPt, EnGb
<1>4. DetailLabel(language)[2] \in Visible \cup {PtBr}
  BY <1>1, <1>2, <1>3, LabelOf DEF Visible, IsSupportedLanguage
<1>5. ASSUME NEW l, Visible \subseteq {l}
      PROVE  DetailLabel(language)[2] = l
  <2>1. selected = l /\ (assigning = "none" \/ assigning = selected)
    BY <1>1, <1>5 DEF Visible
  <2>2. language = l
    BY <2>1 DEF Readable
  <2> QED
    BY <1>1, <2>1, <2>2, LabelOf DEF IsSupportedLanguage
<1> QED
  BY <1>4, <1>5

\* What a thread has seen only grows, and never was empty.
LEMMA PartsStand ==
  ASSUME IInv, NEW u \in Threads, pc'[u] = pc[u], call'[u] = call[u], spoke'[u] = spoke[u],
         labelled'[u] = labelled[u], seen[u] \subseteq seen'[u],
         pc[u] \in {"label", "done"}, spoke[u] # "none"
  PROVE  MessagePart(u)' /\ (pc[u] = "done" => LabelPart(u)')
<1>1. MessagePart(u)'
  BY DEF IInv, Parts, MessagePart
<1>2. ASSUME pc[u] = "done"
      PROVE  LabelPart(u)'
  <2>1. LabelPart(u)
    BY <1>2 DEF IInv, Parts
  <2>2. selected \in seen[u]
    BY DEF IInv, Selecting, Visible
  <2>3. ASSUME NEW l, seen'[u] = {l}
        PROVE  seen[u] = {l}
    BY <2>2, <2>3
  <2> QED
    BY <2>1, <2>3 DEF LabelPart
<1> QED
  BY <1>1, <1>2

\* The parts of a message come out in languages the thread has seen.
LEMMA PartsStep ==
  ASSUME IInv, [Next]_vars
  PROVE  Parts'
<1>1. ASSUME NEW t \in Threads, Begin(t) \/ Step(t),
             pc'[t] \in {"label", "done"} /\ spoke'[t] # "none" => MessagePart(t)',
             pc'[t] = "done" /\ spoke'[t] # "none" => LabelPart(t)'
      PROVE  Parts'
  BY <1>1, OthersStand, PartsStand DEF Parts
<1>2. ASSUME NEW t \in Threads, NEW c, Call(t, c)
      PROVE  pc'[t] = "lock"
  BY <1>2 DEF Call, IInv, Mutex
<1>3. ASSUME NEW t \in Threads,
             \/ Lock(t) \/ TestBuiltins(t) \/ InsertBuiltin(t) \/ BuiltinsComplete(t)
             \/ BeginAssign(t) \/ FetchLanguage(t) \/ Return(t)
      PROVE  pc'[t] \notin {"label", "done"}
  BY <1>3 DEF Lock, TestBuiltins, InsertBuiltin, BuiltinsComplete, BeginAssign, FetchLanguage, Return,
              Leave, IInv, Mutex
<1>4. ASSUME NEW t \in Threads, InsertFails(t) \/ StoreDefinition(t) \/ EndAssign(t)
      PROVE  spoke'[t] = "none"
  BY <1>4 DEF InsertFails, StoreDefinition, EndAssign, resultVars, IInv, Answers
<1>5. ASSUME NEW t \in Threads, LookUp(t)
      PROVE  /\ MessagePart(t)'
             /\ pc'[t] = "done" => LabelPart(t)'
  <2>1. /\ spoke'[t] = IF call[t].op = "Message" THEN selected ELSE call[t].language
        /\ call'[t] = call[t] /\ seen'[t] = seen[t]
        /\ pc'[t] = "done" => ~call[t].detail
    BY <1>5 DEF LookUp, Leave, IInv, Answers, Mutex
  <2>2. selected \in seen[t] \cap Languages
    BY <1>5 DEF LookUp, IInv, Selecting, Visible
  <2> QED
    BY <2>1, <2>2 DEF MessagePart, LabelPart
<1>6. ASSUME NEW t \in Threads, AppendDetail(t), spoke'[t] # "none"
      PROVE  MessagePart(t)' /\ LabelPart(t)'
  <2>1. /\ call'[t] = call[t] /\ seen'[t] = seen[t] /\ spoke'[t] = spoke[t]
        /\ pc[t] = "label" /\ Looks(t)
    BY <1>6 DEF AppendDetail, IInv, Calls
  <2>2. PICK language \in LabelLanguage(t) : labelled'[t] = DetailLabel(language)[2]
    BY <1>6 DEF AppendDetail, IInv, Parts
  <2>3. MessagePart(t)
    BY <1>6, <2>1 DEF IInv, Parts
  <2>4. Visible \subseteq seen[t] /\ selected \in Visible
    BY <2>1 DEF IInv, Selecting, Visible
  <2>5. CASE call[t].op = "Message"
    <3>1. language \in Readable
      BY <2>2, <2>5 DEF LabelLanguage
    <3>2. /\ labelled'[t] \in seen[t] \cup {PtBr}
          /\ \A l : seen[t] = {l} => labelled'[t] = l
      BY <2>2, <2>4, <3>1, ReadableLabels DEF IInv
    <3> QED
      BY <2>1, <2>3, <2>5, <3>2 DEF MessagePart, LabelPart
  <2>6. CASE call[t].op = "MessageIn"
    <3>1. language = call[t].language
      BY <2>2, <2>6 DEF LabelLanguage
    <3> QED
      BY <2>1, <2>2, <2>3, <2>6, <3>1, LabelOf DEF MessagePart, LabelPart
  <2> QED
    BY <2>1, <2>5, <2>6 DEF Looks
<1>7. ASSUME UNCHANGED vars
      PROVE  Parts'
  BY <1>7 DEF vars, resultVars, IInv, Parts, MessagePart, LabelPart
<1> QED
  BY <1>1, <1>2, <1>3, <1>4, <1>5, <1>6, <1>7, BeginIsCall DEF Next, Step

\* The invariant holds in every reachable state.
LEMMA AlwaysInv == Spec => []IInv
<1>1. IInv /\ [Next]_vars => IInv'
  BY MutexStep, PrefixStep, BegunStep, CallsStep, SelectingStep, AnswersStep, PartsStep DEF IInv
<1> QED
  BY InitIsInv, <1>1, PTL DEF Spec

\* As long as memory does not run out, nobody who takes the mutex finds the list of
\* built-in definitions half inserted, whichever thread was the first to need it.
THEOREM BuiltinsAreAllOrNone == Spec => []BuiltinsAllOrNone
<1>1. ASSUME IInv
      PROVE  BuiltinsAllOrNone
  <2> SUFFICES ASSUME ~AllocMayFail, owner = NoThread
               PROVE  /\ registered => Builtins \subseteq DOMAIN registry
                      /\ ~registered => DOMAIN registry = {}
    BY DEF BuiltinsAllOrNone
  <2>1. \A t \in Threads : pc[t] # "insert"
    BY <1>1, NoThreadAssumption DEF IInv, Mutex, Inside
  <2>2. InsertedSoFar \subseteq DOMAIN registry
    BY <1>1 DEF IInv, Prefix
  <2>3. ASSUME registered = TRUE
        PROVE  Builtins \subseteq DOMAIN registry
    <3>1. AllocMayFail = FALSE
      BY AllocAssumption, Zenon
    <3>2. inserted = Len(BuiltinOrder)
      BY <1>1, <2>1, <2>3, <3>1 DEF IInv, Begun
    <3>3. DOMAIN BuiltinOrder = 1..Len(BuiltinOrder)
      BY OrderAssumption
    <3> QED
      BY <2>2, <3>2, <3>3 DEF Builtins, InsertedSoFar
  <2>4. ASSUME registered = FALSE
        PROVE  DOMAIN registry = {}
    BY <1>1, <2>4 DEF IInv, Prefix
  <2>5. registered \in BOOLEAN
    BY <1>1 DEF IInv, Begun
  <2> QED
    BY <2>3, <2>4, <2>5, Zenon
<1> QED
  BY <1>1, AlwaysInv, PTL

\* A rendered message is never empty: neither a definition that registers an empty
\* text, nor a code that was never registered, nor a failed insertion of the built-in
\* definitions leaves a caller with nothing to read (ErrorMessage).
THEOREM MessagesAreNeverEmpty == Spec => []NeverEmpty
<1>1. IInv => NeverEmpty
  BY DEF IInv, Answers, NeverEmpty
<1> QED
  BY <1>1, AlwaysInv, PTL

\* Message and label are in languages that were selected while the message was being
\* rendered, and in the one there was when nobody changed it; a message rendered in an
\* explicit language keeps to it.  This although the label reads the language after
\* GetMessageLanguage has let go of the mutex (Error::Message, DetailLabel).
THEOREM PartsAlwaysFollowTheLanguage == Spec => []PartsFollowTheLanguage
<1>1. ASSUME IInv, NEW t \in Threads, pc[t] = "done", spoke[t] # "none"
      PROVE  MessagePart(t) /\ LabelPart(t)
  BY <1>1 DEF IInv, Parts
<1>2. ASSUME IInv, NEW t \in Threads, pc[t] = "done", spoke[t] # "none",
             call[t].op \in {"Message", "MessageIn"}
      PROVE  call[t].detail \in BOOLEAN
  BY <1>2, KindsOfCall DEF IInv, Calls, RenderOp, RenderInOp
<1>3. IInv => PartsFollowTheLanguage
  BY <1>1, <1>2 DEF PartsFollowTheLanguage, MessagePart, LabelPart
<1> QED
  BY <1>3, AlwaysInv, PTL

-----------------------------------------------------------------------------
(* The implementation of Catalogue: Begin by Call, Define by               *)
(* StoreDefinition, Select by EndAssign, Answer by LookUp, Finish by        *)
(* Return.  Locking, the lazy insertion of the built-in definitions, the    *)
(* first half of an assignment and the label are stuttering steps.          *)

\* Both specifications speak of the same texts.
LEMMA SameTexts ==
  /\ Promised!Empty = Empty /\ Promised!PtBr = PtBr /\ Promised!Languages = Languages
  /\ \A author : Promised!Localised(author) = Localised(author)
  /\ \A catalogue, code, messages :
       Promised!Replaced(catalogue, code, messages) = Replaced(catalogue, code, messages)
  /\ \A catalogue, code, language :
       Promised!MessageIn(catalogue, code, language) = MessageIn(catalogue, code, language)
<1>1. Promised!Empty = Empty /\ Promised!PtBr = PtBr /\ Promised!EnGb = EnGb /\ Promised!PtPt = PtPt
  BY DEF Empty, Promised!Empty, PtBr, Promised!PtBr, EnGb, Promised!EnGb, PtPt, Promised!PtPt
<1>2. Promised!Languages = Languages
  BY <1>1 DEF Languages, Promised!Languages
<1>3. \A author : Promised!Localised(author) = Localised(author)
  BY <1>2 DEF Localised, Promised!Localised
<1>4. \A messages, language :
        Promised!MessageFromDefinition(messages, language) = MessageFromDefinition(messages, language)
  BY <1>1 DEF MessageFromDefinition, Promised!MessageFromDefinition, SpokenLanguage, Promised!SpokenLanguage
<1>5. \A language : Promised!UnknownErrorMessage(language) = UnknownErrorMessage(language)
  BY <1>3, <1>4 DEF UnknownErrorMessage, Promised!UnknownErrorMessage
<1>6. \A catalogue, code, language :
        Promised!MessageIn(catalogue, code, language) = MessageIn(catalogue, code, language)
  BY <1>1, <1>4, <1>5 DEF MessageIn, Promised!MessageIn
<1>7. \A catalogue, code, messages :
        Promised!Replaced(catalogue, code, messages) = Replaced(catalogue, code, messages)
  BY DEF Replaced, Promised!Replaced
<1> QED
  BY <1>1, <1>2, <1>3, <1>6, <1>7

\* A known code is known with the same messages in both views, and a code that is
\* only a built-in one is known in the abstract catalogue alone.
LEMMA KnownView ==
  /\ DOMAIN Known = DOMAIN registry \cup Builtins
  /\ \A c \in DOMAIN Known :
       Known[c] = IF c \in DOMAIN registry THEN registry[c] ELSE Localised("builtin")
BY DEF Known

\* A thread that looks a text up does so with every built-in definition inserted.
LEMMA BuiltinsInside ==
  ASSUME IInv, AllocMayFail = FALSE, NEW t \in Threads, pc[t] = "body", call[t].op \in CallsBuiltins
  PROVE  Builtins \subseteq DOMAIN registry
<1>1. \A u \in Threads : pc[u] # "insert"
  BY DEF IInv, Mutex, Inside
<1>2. inserted = Len(BuiltinOrder)
  BY <1>1 DEF IInv, Begun
<1>3. DOMAIN BuiltinOrder = 1..Len(BuiltinOrder)
  BY OrderAssumption
<1> QED
  BY <1>2, <1>3 DEF IInv, Prefix, InsertedSoFar, Builtins

\* The catalogue starts with nothing but the built-in definitions, as promised.
LEMMA InitIsPromised == Init => Promised!Init
<1> SUFFICES ASSUME Init PROVE Promised!Init
  OBVIOUS
<1>1. DOMAIN registry = {}
  BY DEF Init
<1>2. Known = [c \in Builtins |-> Localised("builtin")]
  BY <1>1 DEF Known
<1>3. Asked = [t \in Threads |-> [op |-> "none"]]
  BY DEF Init, Asked, AskedBy, NoCall
<1>4. Answered = [t \in Threads |-> Empty]
  BY DEF Init, Answered
<1> QED
  BY <1>2, <1>3, <1>4, SameTexts DEF Init, Promised!Init, Promised!Nothing

\* What a call is in the abstract catalogue depends on its operation.
LEMMA AskedAs ==
  ASSUME NEW c \in CallsOf
  PROVE  /\ AskedBy(c) \in Promised!Definition \cup Promised!Selection \cup Promised!Question
         /\ c.op = "RegisterError" =>
              AskedBy(c) = [op |-> "define", code |-> c.code, messages |-> c.messages]
         /\ c.op = "SetMessageLanguage" => AskedBy(c) = [op |-> "select", language |-> c.language]
         /\ c.op = "MessageIn" =>
              AskedBy(c) = [op |-> "ask", code |-> c.code, language |-> c.language]
         /\ c.op \in {"GetMessageLanguage", "Message"} =>
              AskedBy(c) = [op |-> "askSelected", code |-> c.code]
<1>1. CASE c.op = "RegisterError"
  BY <1>1, KindsOfCall DEF AskedBy, RegisterOp, Promised!Definition
<1>2. CASE c.op = "SetMessageLanguage"
  BY <1>2, KindsOfCall, SameTexts DEF AskedBy, SelectOp, Promised!Selection
<1>3. CASE c.op = "MessageIn"
  BY <1>3, KindsOfCall DEF AskedBy, RenderInOp, Promised!Question
<1>4. CASE c.op \in {"GetMessageLanguage", "Message"}
  BY <1>4, KindsOfCall DEF AskedBy, RenderOp, Promised!Question
<1> QED
  BY <1>1, <1>2, <1>3, <1>4, KindsOfCall

AnswerOf(t) == IF pc[t] = "done" /\ ~Renders(t) THEN <<"done", "">> ELSE text[t]

\* A step of one thread shows in what that thread asked and was answered, no more.
LEMMA OthersAreAnsweredAsBefore ==
  ASSUME IInv, NEW t \in Threads, Begin(t) \/ Step(t)
  PROVE  /\ Asked' = [Asked EXCEPT ![t] = AskedBy(call'[t])]
         /\ Answered' = [Answered EXCEPT ![t] = AnswerOf(t)']
         /\ Asked[t] = AskedBy(call[t]) /\ Answered[t] = AnswerOf(t)
<1>1. \A u \in Threads \ {t} : pc'[u] = pc[u] /\ call'[u] = call[u] /\ text'[u] = text[u]
  BY OthersStand
<1>2. Asked' = [Asked EXCEPT ![t] = AskedBy(call'[t])]
  BY <1>1 DEF Asked
<1>3. Answered' = [Answered EXCEPT ![t] = AnswerOf(t)']
  BY <1>1 DEF Answered, AnswerOf, Renders
<1> QED
  BY <1>2, <1>3 DEF Asked, Answered, AnswerOf

\* The steps that change nothing the abstract catalogue shows.
LEMMA QuietSteps ==
  ASSUME IInv, NEW t \in Threads, Begin(t) \/ Step(t),
         Known' = Known, selected' = selected, AskedBy(call'[t]) = AskedBy(call[t]),
         AnswerOf(t)' = AnswerOf(t)
  PROVE  UNCHANGED Promised!vars
<1>1. /\ DOMAIN Asked = Threads /\ Asked[t] = AskedBy(call[t]) /\ Asked' = [Asked EXCEPT ![t] = Asked[t]]
      /\ DOMAIN Answered = Threads /\ Answered[t] = AnswerOf(t) /\ Answered' = [Answered EXCEPT ![t] = Answered[t]]
  BY OthersAreAnsweredAsBefore DEF Asked, Answered
<1>2. Asked' = Asked /\ Answered' = Answered
  <2>1. Asked = [u \in Threads |-> Asked[u]] /\ Answered = [u \in Threads |-> Answered[u]]
    BY DEF Asked, Answered
  <2> QED
    BY <1>1, <2>1
<1> QED
  BY <1>2 DEF Promised!vars

\* As long as memory lasts, every step is one of the abstract catalogue, or none.
LEMMA StepIsPromised ==
  ASSUME AllocMayFail = FALSE, IInv, [Next]_vars
  PROVE  [Promised!Next]_(Promised!vars)
<1>1. ASSUME NEW t \in Threads, NEW c \in CallsOf, Call(t, c), Begin(t)
      PROVE  \E d \in Promised!Definition \cup Promised!Selection \cup Promised!Question : Promised!Begin(t, d)
  <2>1. /\ pc[t] = "idle" /\ pc'[t] = "lock" /\ call'[t] = c /\ text' = text
        /\ UNCHANGED <<registry, selected>>
    BY <1>1 DEF Call, IInv, Mutex, Begun, registryVars, languageVars, resultVars
  <2>2. Asked[t] = Promised!Nothing
    <3>1. AskedBy(NoCall) = Promised!Nothing
      BY DEF NoCall, AskedBy, Promised!Nothing
    <3>2. call[t] = NoCall
      BY <2>1 DEF IInv, Calls
    <3> QED
      BY <1>1, <3>1, <3>2, OthersAreAnsweredAsBefore
  <2>3. AnswerOf(t)' = AnswerOf(t)
    BY <2>1 DEF AnswerOf
  <2>4. Asked' = [Asked EXCEPT ![t] = AskedBy(c)] /\ Answered' = Answered
    BY <1>1, <2>1, <2>3, OthersAreAnsweredAsBefore DEF Answered
  <2>5. Known' = Known
    BY <2>1 DEF Known
  <2> QED
    BY <2>1, <2>2, <2>4, <2>5, AskedAs DEF Promised!Begin
<1>2. ASSUME NEW t \in Threads, StoreDefinition(t), Step(t)
      PROVE  Promised!Define(t)
  <2>1. /\ pc[t] = "body" /\ pc'[t] = "done" /\ call' = call /\ selected' = selected
        /\ call[t] \in CallsOf /\ call[t].op = "RegisterError"
        /\ registry' = Replaced(registry, call[t].code, call[t].messages)
    BY <1>2 DEF StoreDefinition, Stored, Leave, languageVars, IInv, Mutex, Calls
  <2>2. Asked[t] = [op |-> "define", code |-> call[t].code, messages |-> call[t].messages]
    BY <1>2, <2>1, AskedAs, OthersAreAnsweredAsBefore
  <2>3. Answered[t] = Empty
    BY <1>2, <2>1, OthersAreAnsweredAsBefore DEF AnswerOf, IInv, Answers
  <2>4. Asked' = Asked /\ Answered' = [Answered EXCEPT ![t] = Promised!Done]
    <3>1. AnswerOf(t)' = Promised!Done
      BY <2>1 DEF AnswerOf, Renders, Promised!Done
    <3> QED
      BY <1>2, <2>1, <3>1, OthersAreAnsweredAsBefore DEF Asked
  <2>5. Known' = Replaced(Known, call[t].code, call[t].messages)
    BY <2>1, KnownCodes DEF Known, Replaced
  <2> QED
    BY <2>1, <2>2, <2>3, <2>4, <2>5, SameTexts DEF Promised!Define, Promised!Waits
<1>3. ASSUME NEW t \in Threads, EndAssign(t), Step(t)
      PROVE  Promised!Select(t)
  <2>1. /\ pc[t] = "assigned" /\ pc'[t] = "done" /\ call' = call /\ registry' = registry
        /\ call[t] \in CallsOf /\ call[t].op = "SetMessageLanguage" /\ selected' = call[t].language
    BY <1>3 DEF EndAssign, Leave, registryVars, IInv, Mutex, Calls
  <2>2. Asked[t] = [op |-> "select", language |-> call[t].language]
    BY <1>3, <2>1, AskedAs, OthersAreAnsweredAsBefore
  <2>3. Answered[t] = Empty
    BY <1>3, <2>1, OthersAreAnsweredAsBefore DEF AnswerOf, IInv, Answers
  <2>4. Asked' = Asked /\ Answered' = [Answered EXCEPT ![t] = Promised!Done]
    <3>1. AnswerOf(t)' = Promised!Done
      BY <2>1 DEF AnswerOf, Renders, Promised!Done
    <3> QED
      BY <1>3, <2>1, <3>1, OthersAreAnsweredAsBefore DEF Asked
  <2>5. Known' = Known
    BY <2>1 DEF Known
  <2> QED
    BY <2>1, <2>2, <2>3, <2>4, <2>5, SameTexts DEF Promised!Select, Promised!Waits
<1>4. ASSUME NEW t \in Threads, LookUp(t), Step(t)
      PROVE  Promised!Answer(t)
  <2> DEFINE language == IF call[t].op = "Message" THEN selected ELSE call[t].language
  <2>1. /\ pc[t] = "body" /\ pc'[t] \in {"label", "done"} /\ call' = call
        /\ UNCHANGED <<registry, selected>>
        /\ call[t] \in CallsOf /\ Looks(t)
        /\ text'[t] = MessageIn(registry, call[t].code, language)
    BY <1>4 DEF LookUp, Leave, registryVars, languageVars, IInv, Mutex, Calls, Answers
  <2>2. Asked[t] = IF call[t].op = "Message" THEN [op |-> "askSelected", code |-> call[t].code]
                   ELSE [op |-> "ask", code |-> call[t].code, language |-> call[t].language]
    BY <1>4, <2>1, AskedAs, OthersAreAnsweredAsBefore DEF Looks
  <2>3. Answered[t] = Empty
    BY <1>4, <2>1, OthersAreAnsweredAsBefore DEF AnswerOf, IInv, Answers
  <2>4. MessageIn(registry, call[t].code, language) = MessageIn(Known, call[t].code, language)
    <3>1. Builtins \subseteq DOMAIN registry
      BY <2>1, BuiltinsInside DEF Looks, CallsBuiltins
    <3> QED
      BY <3>1, KnownView DEF MessageIn
  <2>5. Asked' = Asked /\ Answered' = [Answered EXCEPT ![t] = MessageIn(Known, call[t].code, language)]
    <3>1. AnswerOf(t)' = MessageIn(Known, call[t].code, language)
      BY <2>1, <2>4 DEF AnswerOf, Renders, Looks
    <3> QED
      BY <1>4, <2>1, <3>1, OthersAreAnsweredAsBefore DEF Asked
  <2>6. Known' = Known
    BY <2>1 DEF Known
  <2> QED
    <3>1. CASE call[t].op = "Message"
      <4>1. Asked[t].op = "askSelected" /\ Asked[t].code = call[t].code
        BY <2>2, <3>1
      <4> QED
        BY <2>1, <2>3, <2>5, <2>6, <3>1, <4>1, SameTexts DEF Promised!Answer, Promised!Waits
    <3>2. CASE call[t].op = "MessageIn"
      <4>1. Asked[t].op = "ask" /\ Asked[t].code = call[t].code /\ Asked[t].language = call[t].language
        BY <2>2, <3>2
      <4> QED
        BY <2>1, <2>3, <2>5, <2>6, <3>2, <4>1, SameTexts DEF Promised!Answer, Promised!Waits
    <3> QED
      BY <2>1, <3>1, <3>2 DEF Looks
<1>5. ASSUME NEW t \in Threads, Return(t), Step(t)
      PROVE  Promised!Finish(t)
  <2>1. /\ pc[t] = "done" /\ pc'[t] = "idle" /\ call'[t] = NoCall /\ text'[t] = Empty
        /\ UNCHANGED <<registry, selected>>
    BY <1>5 DEF Return, registryVars, languageVars, IInv, Mutex, Begun, Answers
  <2>2. Answered[t] # Empty
    <3>1. <<"done", "">> # Empty
      BY DEF Empty
    <3>2. AnswerOf(t) # Empty
      BY <2>1, <3>1 DEF AnswerOf, IInv, Answers
    <3> QED
      BY <1>5, <3>2, OthersAreAnsweredAsBefore
  <2>3. AskedBy(call'[t]) = Promised!Nothing /\ AnswerOf(t)' = Empty
    BY <2>1 DEF AskedBy, NoCall, Promised!Nothing, AnswerOf
  <2>4. Known' = Known
    BY <2>1 DEF Known
  <2> QED
    BY <1>5, <2>1, <2>2, <2>3, <2>4, SameTexts, OthersAreAnsweredAsBefore DEF Promised!Finish
<1>6. ASSUME NEW t \in Threads, InsertBuiltin(t), Step(t)
      PROVE  UNCHANGED Promised!vars
  <2>1. /\ UNCHANGED <<pc, call, text, selected>>
        /\ registry' = Emplaced(registry, BuiltinOrder[inserted'], Localised("builtin"))
        /\ inserted' = inserted + 1 /\ inserted < Len(BuiltinOrder)
    BY <1>6 DEF InsertBuiltin, languageVars, resultVars
  <2>2. BuiltinOrder[inserted'] \in Builtins
    <3>1. DOMAIN BuiltinOrder = 1..Len(BuiltinOrder) /\ Len(BuiltinOrder) \in Nat
      BY OrderAssumption
    <3> QED
      BY <2>1, <3>1 DEF Builtins, IInv, Prefix
  <2>3. Known' = Known
    BY <2>1, <2>2 DEF Known, Emplaced
  <2> QED
    BY <1>6, <2>1, <2>3, QuietSteps DEF AnswerOf, Renders
<1>7. ASSUME NEW t \in Threads, Step(t), Lock(t) \/ TestBuiltins(t) \/ BuiltinsComplete(t) \/ BeginAssign(t)
      PROVE  UNCHANGED Promised!vars
  <2>1. /\ UNCHANGED <<registry, call, text, selected>>
        /\ pc[t] # "done" /\ pc'[t] # "done"
    BY <1>7 DEF Lock, TestBuiltins, BuiltinsComplete, BeginAssign, registryVars, languageVars, resultVars,
                IInv, Mutex
  <2>2. Known' = Known
    BY <2>1 DEF Known
  <2> QED
    BY <1>7, <2>1, <2>2, QuietSteps DEF AnswerOf
<1>8. ASSUME NEW t \in Threads, Step(t), FetchLanguage(t)
      PROVE  UNCHANGED Promised!vars
  <2>1. /\ UNCHANGED <<registry, text, selected>>
        /\ pc[t] = "body" /\ pc'[t] = "lock" /\ call[t] \in CallsOf /\ call[t].op = "GetMessageLanguage"
        /\ call'[t] = [call[t] EXCEPT !.op = "Message"]
    BY <1>8 DEF FetchLanguage, Leave, registryVars, languageVars, resultVars, IInv, Mutex, Begun, Calls
  <2>2. AskedBy(call'[t]) = AskedBy(call[t])
    <3>1. /\ call'[t] \in CallsOf /\ call'[t].op = "Message" /\ call'[t].code = call[t].code
      BY <2>1, KindsOfCall DEF RenderOp
    <3> QED
      BY <2>1, <3>1, AskedAs
  <2>3. Known' = Known
    BY <2>1 DEF Known
  <2> QED
    BY <1>8, <2>1, <2>2, <2>3, QuietSteps DEF AnswerOf
<1>9. ASSUME NEW t \in Threads, Step(t), AppendDetail(t)
      PROVE  UNCHANGED Promised!vars
  <2>1. /\ UNCHANGED <<registry, call, text, selected>> /\ pc[t] = "label" /\ Looks(t)
    BY <1>9 DEF AppendDetail, registryVars, languageVars, IInv, Calls
  <2>2. Known' = Known
    BY <2>1 DEF Known
  <2>3. Renders(t) /\ Renders(t)'
    BY <2>1 DEF Looks, Renders
  <2> QED
    BY <1>9, <2>1, <2>2, <2>3, QuietSteps DEF AnswerOf
<1>10. ASSUME UNCHANGED vars
       PROVE  UNCHANGED Promised!vars
  BY <1>10 DEF vars, registryVars, languageVars, resultVars, Promised!vars, Known, Asked, Answered, Renders
<1>11. ASSUME NEW t \in Threads
       PROVE  ~InsertFails(t)
  BY DEF InsertFails
<1>12. ASSUME NEW t \in Threads, Begin(t)
       PROVE  \E d \in Promised!Definition \cup Promised!Selection \cup Promised!Question : Promised!Begin(t, d)
  BY <1>1, <1>12, BeginIsCall
<1> QED
  BY <1>2, <1>3, <1>4, <1>5, <1>6, <1>7, <1>8, <1>9, <1>10, <1>11, <1>12 DEF Next, Step, Promised!Next

\* As long as memory does not run out, what threads see of the catalogue is what
\* Catalogue promises: every built-in error known from the start, and every call
\* taking effect once, at one instant between its begin and its end.
THEOREM ErrorCatalogueImplementsCatalogue ==
  ASSUME AllocMayFail = FALSE
  PROVE  Spec => ImplementsCatalogue
<1>1. IInv /\ [Next]_vars => [Promised!Next]_(Promised!vars)
  BY StepIsPromised
<1> QED
  BY <1>1, InitIsPromised, AlwaysInv, PTL DEF Spec, ImplementsCatalogue, Promised!Spec
=============================================================================
