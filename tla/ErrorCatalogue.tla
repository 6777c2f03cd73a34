--------------------------- MODULE ErrorCatalogue ---------------------------
(***************************************************************************)
(* The process-wide error catalogue of src/Core/Error.cc: one mutex, a     *)
(* registry whose built-in entries are inserted on first use, and one      *)
(* selected language.  Threads register definitions, select a language,    *)
(* and render messages.                                                    *)
(*                                                                         *)
(* Rendering takes the mutex twice and then touches the shared language a  *)
(* third time without it: GetMessageLanguage hands out a reference, and    *)
(* the string_view made from it is read again by ErrorMessage (under the   *)
(* mutex) and by DetailLabel (not under it).                               *)
(***************************************************************************)
EXTENDS Messages, Integers, Sequences

CONSTANTS
  Threads,        \* callers
  NoThread,       \* the owner of a free mutex
  BuiltinOrder,   \* the codes RegisterBuiltinErrors emplaces, in its order
  OtherCodes,     \* codes the host program uses
  Definitions,    \* the message maps the host program registers
  Requested,      \* the languages callers ask for, supported or not
  AllocMayFail    \* inserting a built-in definition can throw bad_alloc

Builtins == {BuiltinOrder[i] : i \in DOMAIN BuiltinOrder}
Codes    == Builtins \cup OtherCodes

ASSUME NoThreadAssumption == NoThread \notin Threads
ASSUME OrderAssumption    ==
  /\ BuiltinOrder \in Seq(Builtins)
  /\ \A i, j \in DOMAIN BuiltinOrder : i # j => BuiltinOrder[i] # BuiltinOrder[j]
ASSUME AllocAssumption == AllocMayFail \in BOOLEAN

VARIABLES
  owner,        \* the thread that holds RegistryMutex
  registry,     \* Registry(): from codes to messages
  registered,   \* the static flag of RegisterBuiltinErrors
  inserted,     \* how many built-in definitions it has emplaced
  selected,     \* the characters of SelectedLanguage()
  assigning,    \* the value being moved into it, or "none"
  pc,           \* where a thread is in its call
  call,         \* the operation a thread executes, with its arguments
  text,         \* what ErrorMessage returned to a thread
  spoke,        \* history: the language that lookup read
  labelled,     \* history: the language the detail label came out in
  seen          \* history: the languages visible since the call began

registryVars == <<registry, registered, inserted>>
languageVars == <<selected, assigning>>
resultVars   == <<text, spoke, labelled>>
vars == <<owner, registryVars, languageVars, pc, call, resultVars, seen>>

-----------------------------------------------------------------------------

NoCall     == [op |-> "none"]
RegisterOp == [op : {"RegisterError"}, code : Codes, messages : Definitions]
\* Error::Message(language), with or without a detail to label.
RenderInOp == [op : {"MessageIn"}, code : Codes, language : Requested, detail : BOOLEAN]
\* Error::Message(): first the language is fetched, then the message looked up.
RenderOp   == [op : {"GetMessageLanguage", "Message"}, code : Codes, detail : BOOLEAN]

Renders(t)  == call[t].op \in {"GetMessageLanguage", "Message", "MessageIn"}
Looks(t)    == call[t].op \in {"Message", "MessageIn"}

Init ==
  /\ owner = NoThread
  /\ registry = <<>>
  /\ registered = FALSE
  /\ inserted = 0
  /\ selected = PtBr
  /\ assigning = "none"
  /\ pc = [t \in Threads |-> "idle"]
  /\ call = [t \in Threads |-> NoCall]
  /\ text = [t \in Threads |-> Empty]
  /\ spoke = [t \in Threads |-> "none"]
  /\ labelled = [t \in Threads |-> "none"]
  /\ seen = [t \in Threads |-> {}]

-----------------------------------------------------------------------------
(* Calls *)

Visible == {selected} \cup (IF assigning = "none" THEN {} ELSE {assigning})

Call(t, c) ==
  /\ pc[t] = "idle"
  /\ call' = [call EXCEPT ![t] = c]
  /\ pc' = [pc EXCEPT ![t] = "lock"]
  /\ seen' = [seen EXCEPT ![t] = Visible]
  /\ UNCHANGED <<owner, registryVars, languageVars, resultVars>>

RegisterError(t)  == \E c \in RegisterOp : Call(t, c)
Message(t)        == \E c \in RenderOp : c.op = "GetMessageLanguage" /\ Call(t, c)
MessageInLang(t)  == \E c \in RenderInOp : Call(t, c)

Supported(l) == IF IsSupportedLanguage(l) THEN l ELSE PtBr

SetMessageLanguage(t) ==
  \E l \in Requested : Call(t, [op |-> "SetMessageLanguage", language |-> Supported(l)])

Return(t) ==
  /\ pc[t] = "done"
  /\ pc' = [pc EXCEPT ![t] = "idle"]
  /\ call' = [call EXCEPT ![t] = NoCall]
  /\ text' = [text EXCEPT ![t] = Empty]
  /\ spoke' = [spoke EXCEPT ![t] = "none"]
  /\ labelled' = [labelled EXCEPT ![t] = "none"]
  /\ seen' = [seen EXCEPT ![t] = {}]
  /\ UNCHANGED <<owner, registryVars, languageVars>>

-----------------------------------------------------------------------------
(* The mutex: std::lock_guard releases it at the end of every body *)

\* Mutant: one of the two functions forgets RegisterBuiltinErrors.
RegisterErrorWithoutBuiltins == {"MessageIn", "Message"}
CallsBuiltins == {"RegisterError", "MessageIn", "Message"}

Lock(t) ==
  /\ pc[t] = "lock"
  /\ owner = NoThread
  /\ owner' = t
  /\ pc' = [pc EXCEPT ![t] = IF call[t].op \in CallsBuiltins THEN "builtins" ELSE "body"]
  /\ UNCHANGED <<registryVars, languageVars, call, resultVars, seen>>

Leave(t, where) ==
  /\ owner' = NoThread
  /\ pc' = [pc EXCEPT ![t] = where]

(* RegisterBuiltinErrors: the flag first, then the definitions one by one *)

TestBuiltins(t) ==
  /\ pc[t] = "builtins"
  /\ registered' = TRUE
  /\ pc' = [pc EXCEPT ![t] = IF registered THEN "body" ELSE "insert"]
  /\ UNCHANGED <<owner, registry, inserted, languageVars, call, resultVars, seen>>

InsertBuiltin(t) ==
  /\ pc[t] = "insert"
  /\ inserted < Len(BuiltinOrder)
  /\ inserted' = inserted + 1
  /\ registry' = Emplaced(registry, BuiltinOrder[inserted'], Localised("builtin"))
  /\ UNCHANGED <<owner, registered, languageVars, pc, call, resultVars, seen>>

BuiltinsComplete(t) ==
  /\ pc[t] = "insert"
  /\ inserted = Len(BuiltinOrder)
  /\ pc' = [pc EXCEPT ![t] = "body"]
  /\ UNCHANGED <<owner, registryVars, languageVars, call, resultVars, seen>>

\* mutant: the mutex was locked by hand, so the exception leaves it locked.
InsertFailsLocked(t) ==
  /\ AllocMayFail
  /\ pc[t] = "insert"
  /\ inserted < Len(BuiltinOrder)
  /\ pc' = [pc EXCEPT ![t] = "done"]
  /\ UNCHANGED <<owner, registryVars, languageVars, call, resultVars, seen>>

\* bad_alloc leaves the call through the lock_guard; the flag stays set, so no
\* later call inserts the definitions that are missing.
InsertFails(t) ==
  /\ AllocMayFail
  /\ pc[t] = "insert"
  /\ inserted < Len(BuiltinOrder)
  /\ Leave(t, "done")
  /\ UNCHANGED <<registryVars, languageVars, call, resultVars, seen>>

-----------------------------------------------------------------------------
(* Bodies *)

\* mutant: a code that is already known keeps its definition.
StoredOnce(t) == Emplaced(registry, call[t].code, call[t].messages)
Stored(t)     == Replaced(registry, call[t].code, call[t].messages)

StoreDefinition(t) ==
  /\ pc[t] = "body"
  /\ call[t].op = "RegisterError"
  /\ registry' = Stored(t)
  /\ Leave(t, "done")
  /\ UNCHANGED <<registered, inserted, languageVars, call, resultVars, seen>>

\* The move assignment of the language, not atomic for whoever reads the
\* characters without the mutex.
BeginAssign(t) ==
  /\ pc[t] = "body"
  /\ call[t].op = "SetMessageLanguage"
  /\ assigning' = call[t].language
  /\ seen' = [u \in Threads |-> IF pc[u] = "idle" THEN seen[u] ELSE seen[u] \cup {assigning'}]
  /\ pc' = [pc EXCEPT ![t] = "assigned"]
  /\ UNCHANGED <<owner, registryVars, selected, call, resultVars>>

EndAssign(t) ==
  /\ pc[t] = "assigned"
  /\ selected' = assigning
  /\ assigning' = "none"
  /\ Leave(t, "done")
  /\ UNCHANGED <<registryVars, call, resultVars, seen>>

\* GetMessageLanguage returns a reference to the live string, not its value.
FetchLanguage(t) ==
  /\ pc[t] = "body"
  /\ call[t].op = "GetMessageLanguage"
  /\ call' = [call EXCEPT ![t].op = "Message"]
  /\ Leave(t, "lock")
  /\ UNCHANGED <<registryVars, languageVars, resultVars, seen>>

LookUp(t) ==
  /\ pc[t] = "body"
  /\ Looks(t)
  /\ LET language == IF call[t].op = "Message" THEN selected ELSE call[t].language
     IN  /\ text' = [text EXCEPT ![t] = MessageIn(registry, call[t].code, language)]
         /\ spoke' = [spoke EXCEPT ![t] = language]
  /\ Leave(t, IF call[t].detail THEN "label" ELSE "done")
  /\ UNCHANGED <<registryVars, languageVars, call, labelled, seen>>

\* What an unprotected read of the language may find.
Readable ==
  IF assigning \in {"none", selected} THEN {selected} ELSE {selected, assigning, Torn}

\* Mutant: the label is always in the selected language.
LabelInSelectedLanguage(t) == Readable
LabelLanguage(t) == IF call[t].op = "Message" THEN Readable ELSE {call[t].language}

AppendDetail(t) ==
  /\ pc[t] = "label"
  /\ \E language \in LabelLanguage(t) :
       labelled' = [labelled EXCEPT ![t] = DetailLabel(language)[2]]
  /\ pc' = [pc EXCEPT ![t] = "done"]
  /\ UNCHANGED <<owner, registryVars, languageVars, call, text, spoke, seen>>

-----------------------------------------------------------------------------

Begin(t) == RegisterError(t) \/ SetMessageLanguage(t) \/ Message(t) \/ MessageInLang(t)

Step(t) ==
  \/ Lock(t) \/ Return(t)
  \/ TestBuiltins(t) \/ InsertBuiltin(t) \/ BuiltinsComplete(t) \/ InsertFails(t)
  \/ StoreDefinition(t) \/ BeginAssign(t) \/ EndAssign(t)
  \/ FetchLanguage(t) \/ LookUp(t) \/ AppendDetail(t)

Next == \E t \in Threads : Begin(t) \/ Step(t)

\* A thread inside the critical section is scheduled until it leaves it.  Nothing
\* is assumed of the order in which std::mutex admits the threads that wait.
Critical(t) == owner = t /\ Step(t)

Spec     == Init /\ [][Next]_vars
FairSpec == Spec /\ \A t \in Threads : WF_vars(Critical(t))

-----------------------------------------------------------------------------
(* Properties *)

\* Whenever the mutex is free, either no built-in definition has been inserted
\* or all have: no caller can find the catalogue half filled.
BuiltinsAllOrNone ==
  ~AllocMayFail =>
    (owner = NoThread => /\ registered => Builtins \subseteq DOMAIN registry
                         /\ ~registered => DOMAIN registry = {})

\* A rendered message is never empty: not for a definition that registers an empty
\* text, and not for a built-in code whose definition an insertion that ran out of
\* memory has left out for good.
NeverEmpty ==
  \A t \in Threads : pc[t] = "label" \/ (pc[t] = "done" /\ spoke[t] # "none") => text[t] # Empty

\* Both parts of a message rendered in the selected language are in supported
\* languages that were selected while it was being rendered (the label may fall back
\* on pt-br), and when no change of language overlapped the call, both are in the one
\* that was; a message rendered in an explicit language keeps to it, whatever is
\* selected meanwhile.
PartsFollowTheLanguage ==
  \A t \in Threads :
    pc[t] = "done" /\ spoke[t] # "none" =>
      /\ call[t].op = "Message" =>
           /\ spoke[t] \in seen[t] \cap Languages
           /\ call[t].detail => labelled[t] \in seen[t] \cup {PtBr}
           /\ \A l \in Languages : seen[t] = {l} /\ call[t].detail => labelled[t] = l
      /\ call[t].op = "MessageIn" =>
           /\ spoke[t] = call[t].language
           /\ call[t].detail =>
                labelled[t] = IF IsSupportedLanguage(spoke[t]) THEN spoke[t] ELSE PtBr

\* Whoever enters a critical section leaves it, by return or by exception.
SectionIsLeft == \A t \in Threads : owner = t ~> owner # t

Known == [c \in DOMAIN registry \cup Builtins |->
            IF c \in DOMAIN registry THEN registry[c] ELSE Localised("builtin")]

\* The call of a thread, as the abstract catalogue sees it.
AskedBy(c) ==
  CASE c.op = "none"               -> [op |-> "none"]
    [] c.op = "RegisterError"      -> [op |-> "define", code |-> c.code, messages |-> c.messages]
    [] c.op = "SetMessageLanguage" -> [op |-> "select", language |-> c.language]
    [] c.op = "MessageIn"          -> [op |-> "ask", code |-> c.code, language |-> c.language]
    [] OTHER                       -> [op |-> "askSelected", code |-> c.code]

Asked    == [t \in Threads |-> AskedBy(call[t])]
Answered == [t \in Threads |->
               IF pc[t] = "done" /\ ~Renders(t) THEN <<"done", "">> ELSE text[t]]

Promised == INSTANCE Catalogue
              WITH known <- Known, language <- selected, asked <- Asked, answer <- Answered

\* As long as memory does not run out, the catalogue behind the mutex behaves as
\* if every built-in definition had been there from the start and every call took
\* effect once, at one instant.
ImplementsCatalogue == Promised!Spec
=============================================================================
