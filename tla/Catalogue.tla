----------------------------- MODULE Catalogue -----------------------------
(***************************************************************************)
(* What the error catalogue promises its callers: every built-in error is  *)
(* known from the start; a call takes effect once, at one instant between  *)
(* its begin and its end; registering a code replaces what was there; and  *)
(* a question is answered from the catalogue and language of its instant.  *)
(* There is no mutex, no lazy initialisation and no string to race on.     *)
(***************************************************************************)
EXTENDS Messages

CONSTANTS Threads, Codes, Builtins, Definitions, Requested

VARIABLES
  known,      \* the definitions in force
  language,   \* the selected language
  asked,      \* what each thread has called for
  answer      \* what it was given: a text, or that the call is done

vars == <<known, language, asked, answer>>

Nothing == [op |-> "none"]
Done    == <<"done", "">>

Definition == [op : {"define"}, code : Codes, messages : Definitions]
Selection  == [op : {"select"}, language : Languages]
\* In a language the caller names, or in the one that is selected.
Question   == [op : {"ask"}, code : Codes, language : Requested] \cup [op : {"askSelected"}, code : Codes]

Init ==
  /\ known = [c \in Builtins |-> Localised("builtin")]
  /\ language = PtBr
  /\ asked = [t \in Threads |-> Nothing]
  /\ answer = [t \in Threads |-> Empty]

Begin(t, c) ==
  /\ asked[t] = Nothing
  /\ asked' = [asked EXCEPT ![t] = c]
  /\ UNCHANGED <<known, language, answer>>

Waits(t, op) == asked[t].op = op /\ answer[t] = Empty

Define(t) ==
  /\ Waits(t, "define")
  /\ known' = Replaced(known, asked[t].code, asked[t].messages)
  /\ answer' = [answer EXCEPT ![t] = Done]
  /\ UNCHANGED <<language, asked>>

Select(t) ==
  /\ Waits(t, "select")
  /\ language' = asked[t].language
  /\ answer' = [answer EXCEPT ![t] = Done]
  /\ UNCHANGED <<known, asked>>

Answer(t) ==
  /\ Waits(t, "ask") \/ Waits(t, "askSelected")
  /\ LET in == IF asked[t].op = "askSelected" THEN language ELSE asked[t].language
     IN  answer' = [answer EXCEPT ![t] = MessageIn(known, asked[t].code, in)]
  /\ UNCHANGED <<known, language, asked>>

Finish(t) ==
  /\ answer[t] # Empty
  /\ asked' = [asked EXCEPT ![t] = Nothing]
  /\ answer' = [answer EXCEPT ![t] = Empty]
  /\ UNCHANGED <<known, language>>

Next ==
  \E t \in Threads :
    \/ \E c \in Definition \cup Selection \cup Question : Begin(t, c)
    \/ Define(t) \/ Select(t) \/ Answer(t) \/ Finish(t)

Spec == Init /\ [][Next]_vars
=============================================================================
