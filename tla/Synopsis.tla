------------------------------ MODULE Synopsis ------------------------------
(***************************************************************************)
(* A synopsis: all forms of a verb in one person and number, written into  *)
(* the cells of a page and graded by the server.  The page, the grading    *)
(* and the table of the database each enumerate the forms on their own;    *)
(* what is written under one label must not be graded under another.       *)
(*                                                                         *)
(* A form is the name of the verb with the place it has in the paradigm;   *)
(* how it is spelled, and which spellings are accepted for it, is the      *)
(* business of the library of verbs.                                       *)
(*                                                                         *)
(* What is written is spliced into the text of an SQL statement as it is,  *)
(* so a written text also has its apostrophes.                             *)
(***************************************************************************)
EXTENDS Naturals, Sequences, SequencesExt

CONSTANTS
  Verbs,
  Oida,          \* those with moods in the perfect: oida, synoida
  Lacking,       \* for each verb the places where it has no form
  Blank,         \* the form of an empty cell
  Foreign        \* a value that is whatever a player's text says as SQL

ASSUME SynopsisAssumption == Oida \subseteq Verbs /\ DOMAIN Lacking = Verbs

Moods == <<"Indicative", "Subjunctive", "Optative", "Imperative", "Infinitive", "Participle">>
Tenses == <<"Present", "Imperfect", "Future", "Aorist", "Perfect", "Pluperfect">>
Voices == <<"Active", "Middle", "Passive">>

-----------------------------------------------------------------------------
(* The page.                                                               *)

(***************************************************************************)
(* The rows of makeTable: under each mood its tenses.                      *)
(***************************************************************************)
Labels ==
  <<Tenses,
    <<"Present", "Aorist">>,
    <<"Present", "Future", "Aorist">>,
    <<"Present", "Aorist">>,
    <<"Present", "Future", "Aorist", "Perfect">>,
    <<"Present", "Future", "Aorist", "Perfect">> >>

Places(mood, tenses) ==
  FlattenSeq([t \in DOMAIN tenses |->
    [v \in DOMAIN Voices |-> <<mood, tenses[t], Voices[v]>>]])

Cells == FlattenSeq([m \in DOMAIN Moods |-> Places(Moods[m], Labels[m])])

-----------------------------------------------------------------------------
(* get_forms.                                                              *)

NeedsStem == {"Subjunctive", "Optative", "Imperative"}

\* Mutant: the future optative is left out too.
SkippedFutures(verb, mood, tense, voice) ==
  \/ /\ mood \in NeedsStem
     /\ tense \in {"Imperfect", "Future", "Perfect", "Pluperfect"}
     /\ ~(tense = "Perfect" /\ voice = "Active" /\ verb \in Oida)
  \/ mood \in {"Infinitive", "Participle"} /\ tense \in {"Imperfect", "Pluperfect"}

(***************************************************************************)
(* What is left out of a synopsis.                                         *)
(***************************************************************************)
Skipped(verb, mood, tense, voice) ==
  \/ /\ \/ mood \in NeedsStem /\ tense \in {"Imperfect", "Perfect", "Pluperfect"}
        \/ mood \in {"Subjunctive", "Imperative"} /\ tense = "Future"
     /\ ~(mood \in NeedsStem /\ tense = "Perfect" /\ voice = "Active" /\ verb \in Oida)
  \/ mood \in {"Infinitive", "Participle"} /\ tense \in {"Imperfect", "Pluperfect"}

(***************************************************************************)
(* The body of the three loops: what is not skipped is pushed.             *)
(***************************************************************************)
Pushed(verb, mood, tense, voice) ==
  IF Skipped(verb, mood, tense, voice) THEN <<>> ELSE << <<mood, tense, voice>> >>

\* Mutant: the loops over tenses and voices are swapped.
PlacesOfByVoice ==
  [verb \in Verbs |->
    FlattenSeq([m \in DOMAIN Moods |->
      FlattenSeq([v \in DOMAIN Voices |->
        FlattenSeq([t \in DOMAIN Tenses |-> Pushed(verb, Moods[m], Tenses[t], Voices[v])])])])]

PlacesOf ==
  [verb \in Verbs |->
    FlattenSeq([m \in DOMAIN Moods |->
      FlattenSeq([t \in DOMAIN Tenses |->
        FlattenSeq([v \in DOMAIN Voices |-> Pushed(verb, Moods[m], Tenses[t], Voices[v])])])])]

Form(verb, place) == IF place \in Lacking[verb] THEN Blank ELSE <<verb, place>>

GetForms(verb) ==
  [n \in DOMAIN PlacesOf[verb] |-> Form(verb, PlacesOf[verb][n])]

-----------------------------------------------------------------------------
(***************************************************************************)
(* What is written into a cell: a form, and apostrophes after it.          *)
(***************************************************************************)
Text(form, quotes) == [form |-> form, quotes |-> quotes]

(***************************************************************************)
(* get_synopsis: the forms themselves, as if they had been written.        *)
(***************************************************************************)
GetSynopsis(verb) ==
  LET forms == GetForms(verb) IN [n \in DOMAIN forms |-> Text(forms[n], 0)]

(***************************************************************************)
(* SynopsisSaverRequest.  pp, the principal parts, are those of a verb.    *)
(***************************************************************************)
Request(verb, person, number, pp, r) ==
  [verb |-> verb, person |-> person, number |-> number, pp |-> pp, r |-> r]

(***************************************************************************)
(* save_synopsis indexes the answers by the forms and the forms by the     *)
(* answers: unless there are as many of both it panics.                    *)
(***************************************************************************)
Panics(payload) == Len(payload.r) # Len(GetForms(payload.verb))

(***************************************************************************)
(* Where the verb has no form everything is right.                         *)
(***************************************************************************)
Correct(form, given) == form = Blank \/ given = Text(form, 0)

Graded(payload) ==
  LET forms == GetForms(payload.verb)
  IN  [verb_id |-> payload.verb,
       person |-> payload.person,
       number |-> payload.number,
       pp |-> payload.pp,
       pp_is_correct |-> payload.pp = payload.verb,
       f |-> [n \in DOMAIN forms |->
                [given |-> payload.r[n],
                 correct |-> forms[n],
                 is_correct |-> Correct(forms[n], payload.r[n])]]]

(***************************************************************************)
(* Columns f0, a0, c0 to f62, a62, c62.                                    *)
(***************************************************************************)
Columns == 3 * 63

\* Mutant: the verdicts are not written down.
FlatUngraded(f) == FlattenSeq([n \in DOMAIN f |-> <<f[n].given, f[n].correct>>])

Flat(f) == FlattenSeq([n \in DOMAIN f |-> <<f[n].given, f[n].correct, f[n].is_correct>>])

(***************************************************************************)
(* The answers stand between apostrophes in the INSERT.  There two of them *)
(* mean one; one without its fellow ends the text, and from its column on  *)
(* the statement, if it is one, says something else.                       *)
(***************************************************************************)
Unpaired(text) == text.quotes % 2 = 1

Literal(text) == [text EXCEPT !.quotes = @ \div 2]

Inserted(f) ==
  LET values == Flat([n \in DOMAIN f |-> [f[n] EXCEPT !.given = Literal(@)]])
      Ended(k) == \E n \in DOMAIN f : 3 * n - 2 <= k /\ Unpaired(f[n].given)
  IN  [k \in 1 .. Len(values) |-> IF Ended(k) THEN Foreign ELSE values[k]]

(***************************************************************************)
(* greek_insert_synopsis: values are given to columns by their position.   *)
(***************************************************************************)
SynopsisRow(id, user_id, res) ==
  [id |-> id,
   user_id |-> user_id,
   selectedverb |-> res.verb_id,
   pp |-> res.pp,
   pp_is_correct |-> res.pp_is_correct,
   verbnumber |-> res.number,
   verbperson |-> res.person,
   cells |-> Inserted(res.f)]

(***************************************************************************)
(* get_synopsis_result.                                                    *)
(***************************************************************************)
Cell(row, n) ==
  [given      |-> row.cells[3 * n - 2],
   correct    |-> row.cells[3 * n - 1],
   is_correct |-> row.cells[3 * n]]

ResultForms(row) == [n \in 1 .. Columns \div 3 |-> Cell(row, n)]

GetSynopsisResult(row) ==
  [verb_id |-> row.selectedverb,
   person |-> row.verbperson,
   number |-> row.verbnumber,
   pp |-> row.pp,
   pp_is_correct |-> row.pp_is_correct,
   f |-> ResultForms(row)]

-----------------------------------------------------------------------------
(***************************************************************************)
(* Texts that can be told apart after they were stored.                    *)
(***************************************************************************)
Paired(payload) == \A n \in DOMAIN payload.r : ~Unpaired(payload.r[n])

Unmarked(payload) == \A n \in DOMAIN payload.r : payload.r[n].quotes = 0

(***************************************************************************)
(* A graded synopsis tells of every cell of the page whether what stands   *)
(* there is the form that the cell's label asks for; what stood there is   *)
(* shown as it was written or as it was stored.                            *)
(***************************************************************************)
GradedByCell(payload, res) ==
  /\ res.verb_id = payload.verb
  /\ res.person = payload.person
  /\ res.number = payload.number
  /\ DOMAIN res.f = DOMAIN Cells
  /\ \A n \in DOMAIN Cells :
       LET form == Form(payload.verb, Cells[n])
       IN  /\ res.f[n].given \in {payload.r[n], Literal(payload.r[n])}
           /\ res.f[n].is_correct <=> (form = Blank \/ payload.r[n] = Text(form, 0))
           /\ ~res.f[n].is_correct => res.f[n].correct = form
=============================================================================
