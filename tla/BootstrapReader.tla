--------------------------- MODULE BootstrapReader ---------------------------
(***************************************************************************)
(* ReadBootstrapMesh (src/IO/MeshReader.cc): a loop that reads sections of *)
(* a text in any order.  No extraction is tested.  One that fails stores   *)
(* zero (a word where a number should be), the nearest value of the type   *)
(* (a number beyond it) or nothing (the text has ended), every later one   *)
(* does nothing, and the loop ends at the next section; what keeps a       *)
(* damaged text from becoming a mesh is MeshView::IsValid.                 *)
(*                                                                         *)
(* A text is a sequence of tokens, words and whole numbers.  Negative and  *)
(* positive numbers have limits of their own for each type.                *)
(***************************************************************************)
EXTENDS Mesh

CONSTANTS
  Words,    \* the words that texts are written with
  Plans,    \* texts given by their sections, from which nothing is missing
  Damaged,  \* other sequences of tokens
  MaxInteger, MaxReal, MaxCount,  \* the largest IndexValue or int, Real and std::size_t
  MaxSize,  \* max_size() of a vector
  Memory    \* the elements of a vector that there is memory for

ASSUME LimitsAssumption ==
  /\ {MaxInteger, MaxReal, MaxCount, MaxSize, Memory} \subseteq Nat
  /\ Memory <= MaxSize /\ MaxSize < MaxCount

VARIABLES
  plan,      \* the sections the text was written from, or NoPlan
  text,      \* the tokens not yet read
  good,      \* no extraction has failed
  at,        \* where the reader is
  section,   \* the section it reads
  element,   \* the elements of the section read so far
  mesh,      \* nodes, cells, faces, patches and metadata.dimension
  begun,     \* history: the sections whose count was read
  guessed,   \* history: the cells and faces not read up to their area or length
  outcome    \* "none", "mesh", or the exception that left the reader

parts    == <<section, element, mesh>>
history  == <<begun, guessed>>
vars     == <<plan, text, good, at, parts, history, outcome>>

NoPlan   == <<[section |-> "none"]>>
Word(w)   == [kind |-> "word", word |-> w]
Number(n) == [kind |-> "number", number |-> n]
Is(token, w) == token.kind = "word" /\ token.word = w

-----------------------------------------------------------------------------

FieldsOf ==
  [NODES   |-> <<"id", "x", "y">>,
   CELLS   |-> <<"id", "x", "y", "area">>,
   FACES   |-> <<"id", "owner", "neighbour", "x", "y", "nx", "ny", "length", "patch_id">>,
   PATCHES |-> <<"id", "name", "type">>]
Sections == DOMAIN FieldsOf
PartOf   == [NODES |-> "nodes", CELLS |-> "cells", FACES |-> "faces", PATCHES |-> "patches"]
Texts    == {"name", "type"}
Reals    == {"x", "y", "nx", "ny", "area", "length"}

\* What a field can hold, as it is written; the minus of a count is allowed.
Least(f) == IF f \in Reals THEN -MaxReal ELSE IF f = "count" THEN -MaxCount ELSE -MaxInteger - 1
Most(f)  == IF f \in Reals THEN MaxReal ELSE IF f = "count" THEN MaxCount ELSE MaxInteger

\* A node, cell, face or patch as the vector makes it.
Fresh(s) == [f \in ToSet(FieldsOf[s]) |-> IF f \in {"id", "owner", "neighbour", "patch_id"} THEN -1
                                          ELSE IF f \in Texts THEN "" ELSE 0]

\* Mutant: a vector never gets shorter.
Grown(seq, n, s)   == seq \o [i \in 1..(n - Len(seq)) |-> Fresh(s)]
Resized(seq, n, s) == [i \in 1..n |-> IF i <= Len(seq) THEN seq[i] ELSE Fresh(s)]

\* The ids and indices of nodes, cells and faces are read into locals, which
\* start at -1 for each element; the other fields keep what they held.
WithLocals(e, s) ==
  [f \in DOMAIN e |-> IF s # "PATCHES" /\ f \in {"id", "owner", "neighbour"} THEN -1 ELSE e[f]]

\* input >> f for each f of fields, from the tokens t into e: how many are read,
\* and what e then holds.  The first that fails stores something or nothing.
Suits(token, f) ==
  \/ f \in Texts
  \/ token.kind = "number" /\ Least(f) <= token.number /\ token.number <= Most(f)
Readable(t, fields, i) == i <= Len(t) /\ Suits(t[i], fields[i])
Count(t, fields) ==
  IF ~good THEN 0
  ELSE CHOOSE n \in 0..Len(fields) :
         /\ \A i \in 1..n : Readable(t, fields, i)
         /\ n < Len(fields) => ~Readable(t, fields, n + 1)

\* A count is negated modulo 2^w; one too far below zero is the largest.
StoredCount(n) == IF n > MaxCount \/ n < -MaxCount THEN MaxCount
                  ELSE IF n < 0 THEN MaxCount + 1 + n ELSE n
StoredNumber(n, f) == IF n > Most(f) THEN Most(f) ELSE IF n < Least(f) THEN Least(f) ELSE n
Stored(token, f) ==
  IF f \in Texts THEN IF token.kind = "word" THEN token.word ELSE "digits"
  ELSE IF token.kind = "word" THEN 0
  ELSE IF f = "count" THEN StoredCount(token.number) ELSE StoredNumber(token.number, f)

Extracted(t, fields, e) ==
  LET n == Count(t, fields)
  IN  [read |-> n,
       text |-> SubSeq(t, n + 1, Len(t)),
       good |-> good /\ n = Len(fields),
       e    |-> [f \in DOMAIN e |->
                  IF \E i \in DOMAIN fields : fields[i] = f /\ good /\ i <= n + 1 /\ i <= Len(t)
                  THEN Stored(t[CHOOSE i \in DOMAIN fields : fields[i] = f], f)
                  ELSE e[f]]]

\* The fields of an element that MeshView::IsValid looks at come first.
Examined == [NODES |-> 0, CELLS |-> 4, FACES |-> 8, PATCHES |-> 0]
SizeOf   == [CELLS |-> "area", FACES |-> "length"]

-----------------------------------------------------------------------------

NothingRead ==
  /\ good = TRUE
  /\ at = "open"
  /\ section = "none"
  /\ element = 0
  /\ mesh = [dimension |-> 2, nodes |-> <<>>, cells |-> <<>>, faces |-> <<>>, patches |-> <<>>]
  /\ begun = <<>>
  /\ guessed = {}
  /\ outcome = "none"

Init ==
  /\ \/ plan \in Plans /\ text = <<>>
     \/ plan = NoPlan /\ text \in Damaged
  /\ NothingRead

GoTo(place) == at' = place /\ UNCHANGED outcome
Throw(e)    == at' = "end" /\ outcome' = e

TokenOf(e, f) == IF f \in Texts THEN Word(e[f]) ELSE Number(e[f])
TokensOf(c) ==
  CASE c.section = "DIM"      -> <<Word("DIM"), Number(c.value)>>
    [] c.section \in Sections ->
         <<Word(c.section), Number(Len(c.elements))>>
           \o FlattenSeq([i \in DOMAIN c.elements |->
                [k \in DOMAIN FieldsOf[c.section] |-> TokenOf(c.elements[i], FieldsOf[c.section][k])]])
    [] OTHER                  -> <<Word(c.section)>>
Tokens(p) == <<Word("MNGMESH1")>> \o FlattenSeq([i \in DOMAIN p |-> TokensOf(p[i])])

Token == [kind : {"word"}, word : Words] \cup [kind : {"number"}, number : Int]

\* A section as it is written, of values that their types hold and not too many; of
\* one that is not known there is only the word.
Whole == (-MaxInteger - 1)..MaxInteger
Decimal == (-MaxReal)..MaxReal
ElementOf ==
  [NODES   |-> [id : Whole, x : Decimal, y : Decimal],
   CELLS   |-> [id : Whole, x : Decimal, y : Decimal, area : Decimal],
   FACES   |-> [id : Whole, owner : Whole, neighbour : Whole, x : Decimal, y : Decimal,
                nx : Decimal, ny : Decimal, length : Decimal, patch_id : Whole],
   PATCHES |-> [id : Whole, name : Words, type : Words]]
Listing(s) == [section : {s}, elements : {e \in Seq(ElementOf[s]) : Len(e) <= Memory}]
Section ==
  Listing("NODES") \cup Listing("CELLS") \cup Listing("FACES") \cup Listing("PATCHES")
    \cup [section : {"DIM"}, value : Whole] \cup [section : Words \ (Sections \cup {"DIM"})]

ASSUME TextsAssumption ==
  /\ Damaged \subseteq Seq(Token)
  /\ Plans \subseteq Seq(Section)
  /\ Sections \cup {"DIM", "MNGMESH1"} \subseteq Words

OpenFile ==
  /\ at = "open"
  /\ text' = IF plan = NoPlan THEN text ELSE Tokens(plan)
  /\ GoTo("magic") \/ Throw("mesh.file_not_found")
  /\ UNCHANGED <<plan, good, parts, history>>

ExpectToken ==
  /\ at = "magic"
  /\ IF text # <<>> /\ Is(Head(text), "MNGMESH1")
     THEN text' = Tail(text) /\ GoTo("section")
     ELSE Throw("mesh.parse_error") /\ UNCHANGED text
  /\ UNCHANGED <<plan, good, parts, history>>

\* while (input >> token).  Mutant: the loop looks for the end of the text only.
NoTextLeft    == text = <<>>
NoSectionLeft == ~good \/ text = <<>>
AtToken       == at = "section" /\ good /\ text # <<>>
AtSection(s) == AtToken /\ Is(Head(text), s)

ReadDimension ==
  /\ AtSection("DIM")
  /\ LET r == Extracted(Tail(text), <<"dimension">>, mesh)
     IN  text' = r.text /\ good' = r.good /\ mesh' = r.e
  /\ UNCHANGED <<plan, at, section, element, history, outcome>>

\* The count of a section, and vector::resize; the one that no vector can have or
\* there is no memory for leaves through resize.
BeginSection(s) ==
  /\ AtSection(s)
  /\ LET r == Extracted(Tail(text), <<"count">>, [count |-> 0])
     IN  /\ text' = r.text /\ good' = r.good
         /\ IF r.e.count > Memory
            THEN /\ Throw(IF r.e.count > MaxSize THEN "std::length_error" ELSE "std::bad_alloc")
                 /\ UNCHANGED mesh
            ELSE /\ GoTo("element")
                 /\ mesh' = [mesh EXCEPT ![PartOf[s]] = Resized(@, r.e.count, s)]
  /\ section' = s
  /\ element' = 0
  /\ begun' = Append(begun, s)
  /\ UNCHANGED <<plan, guessed>>

Unread == element < Len(mesh[PartOf[section]])

ReadElement ==
  /\ at = "element" /\ Unread
  /\ element' = element + 1
  /\ LET r == Extracted(text, FieldsOf[section], WithLocals(mesh[PartOf[section]][element'], section))
     IN  /\ text' = r.text /\ good' = r.good
         /\ mesh' = [mesh EXCEPT ![PartOf[section]][element'] = r.e]
         /\ guessed' = IF r.read < Examined[section] THEN guessed \cup {<<section, element'>>}
                       ELSE guessed
  /\ UNCHANGED <<plan, at, section, begun, outcome>>

SectionEnds ==
  /\ at = "element" /\ ~Unread
  /\ GoTo("section")
  /\ UNCHANGED <<plan, text, good, parts, history>>

UnknownSection ==
  /\ AtToken
  /\ \A s \in Sections \cup {"DIM", "END"} : ~AtSection(s)
  /\ Throw("mesh.parse_error")
  /\ UNCHANGED <<plan, text, good, parts, history>>

End ==
  /\ at = "section"
  /\ NoSectionLeft \/ AtSection("END")
  /\ GoTo("validate")
  /\ UNCHANGED <<plan, text, good, parts, history>>

Validate ==
  /\ at = "validate"
  /\ Throw(IF IsValidMesh(mesh) THEN "mesh" ELSE "mesh.invalid_connectivity")
  /\ UNCHANGED <<plan, text, good, parts, history>>

Next ==
  \/ OpenFile \/ ExpectToken \/ ReadDimension
  \/ \E s \in Sections : BeginSection(s)
  \/ ReadElement \/ SectionEnds \/ UnknownSection \/ End \/ Validate

Spec == Init /\ [][Next]_vars

-----------------------------------------------------------------------------
(* Properties *)

\* The sections of a plan before its first END.
Effective(p) ==
  LET ends == {i \in DOMAIN p : p[i].section = "END"}
  IN  IF ends = {} THEN p ELSE SubSeq(p, 1, (CHOOSE i \in ends : \A j \in ends : i <= j) - 1)

OccursIn(p, s) == \E i \in DOMAIN p : p[i].section = s
LastOf(p, s)   == SelectLastInSeq(p, LAMBDA c : c.section = s)
ElementsOf(p, s) == IF OccursIn(p, s) THEN p[LastOf(p, s)].elements ELSE <<>>

MeaningOf(p) ==
  [dimension |-> IF OccursIn(p, "DIM") THEN p[LastOf(p, "DIM")].value ELSE 2,
   nodes |-> ElementsOf(p, "NODES"), cells |-> ElementsOf(p, "CELLS"),
   faces |-> ElementsOf(p, "FACES"), patches |-> ElementsOf(p, "PATCHES")]

\* A text from which nothing is missing is read as it was written, whatever the
\* order of its sections: of a repeated section the last counts, also when it is
\* shorter; nothing counts after END; and an unknown section before it is an error.
TextIsReadAsWritten ==
  plan # NoPlan /\ outcome \notin {"none", "mesh.file_not_found"} =>
    LET p == Effective(plan)
    IN  IF \E i \in DOMAIN p : p[i].section \notin Sections \cup {"DIM"}
        THEN outcome = "mesh.parse_error"
        ELSE IF IsValidMesh(MeaningOf(p)) THEN outcome = "mesh" /\ mesh = MeaningOf(p)
        ELSE outcome = "mesh.invalid_connectivity"

Repeated == \E i, j \in DOMAIN begun : i < j /\ begun[i] = begun[j]

\* The cell or face read last has all but its size, which was too large a number.
TooLarge ==
  LET elements == mesh[PartOf[section]]
  IN  /\ section \in DOMAIN SizeOf /\ element \in DOMAIN elements
      /\ guessed = {<<section, element>>}
      /\ elements[element][SizeOf[section]] = MaxReal

\* However a text is damaged, no cell and no face of an accepted mesh was made up: an
\* extraction that failed before the area or the length left a value that
\* MeshView::IsValid refuses, or that failed on it left the largest one there is, in
\* the last element of the last section read.  A section given twice may leave an
\* old value.
NothingIsMadeUp ==
  outcome = "mesh" /\ ~Repeated =>
    \/ guessed = {}
    \/ TooLarge /\ element = Len(mesh[PartOf[section]])
=============================================================================
