------------------------------ MODULE Messages ------------------------------
(***************************************************************************)
(* The text of a registered error (src/Core/Error.cc): which of its        *)
(* localised messages a definition yields for a language, and what is said *)
(* for a code nobody registered.  A text is the pair of who wrote it and   *)
(* the language it is in; wording is left out.                             *)
(***************************************************************************)
PtBr == "pt-br"
PtPt == "pt-pt"
EnGb == "en-gb"
Languages == {PtBr, PtPt, EnGb}

\* What a string_view over a language that is being overwritten may read.
Torn == "torn"

Empty == <<"nobody", "">>

\* ErrorDefinition::messages, a map from some language keys to texts.
Localised(author) == [l \in Languages |-> <<author, l>>]

IsSupportedLanguage(language) == language \in Languages

\* The language MessageFromDefinition finds a text for: the requested one, then
\* pt-br, then en-gb; "code" when it has to fall back on the error code.
SpokenLanguage(messages, language) ==
  IF language \in DOMAIN messages THEN language
  ELSE IF PtBr \in DOMAIN messages THEN PtBr
  ELSE IF EnGb \in DOMAIN messages THEN EnGb
  ELSE "code"

MessageFromDefinition(messages, language) ==
  LET spoken == SpokenLanguage(messages, language)
  IN  IF spoken = "code" THEN <<"code", "code">> ELSE messages[spoken]

DetailLabel(language) == MessageFromDefinition(Localised("label"), language)

UnknownErrorMessage(language) == MessageFromDefinition(Localised("unknown"), language)

\* A catalogue, a function from the known codes to messages, after emplace, which
\* keeps what is there, and after operator[] and assignment, which does not.
Emplaced(catalogue, code, messages) ==
  [c \in DOMAIN catalogue \cup {code} |-> IF c \in DOMAIN catalogue THEN catalogue[c] ELSE messages]
Replaced(catalogue, code, messages) ==
  [c \in DOMAIN catalogue \cup {code} |-> IF c = code THEN messages ELSE catalogue[c]]

\* mutant: an empty text is handed out like any other.
MessageInEvenEmpty(catalogue, code, language) ==
  IF code \notin DOMAIN catalogue THEN UnknownErrorMessage(language)
  ELSE MessageFromDefinition(catalogue[code], language)

\* ErrorMessage over a catalogue.
MessageIn(catalogue, code, language) ==
  IF code \notin DOMAIN catalogue THEN UnknownErrorMessage(language)
  ELSE LET message == MessageFromDefinition(catalogue[code], language)
       IN  IF message = Empty THEN UnknownErrorMessage(language) ELSE message
=============================================================================
