---------------------------- MODULE HcAxumProofs ----------------------------
(***************************************************************************)
(* Proofs about HcAxum, for any browsers, accounts, synopses and logins in *)
(* progress.  The page, the grading and the table enumerate the same forms *)
(* (SameForms, RowShows); what was stored stays in the table, under what   *)
(* was submitted, and pages show nothing else (AxumInv).  The last part is *)
(* about Schedule, the calendar page, for any course (Table).              *)
(***************************************************************************)
EXTENDS HcAxum, Schedule, AccountsProofs, SequenceLemmas, FiniteSetTheorems

-----------------------------------------------------------------------------
(* The page's cells are the places of get_forms.                           *)

MoodNames == {"Indicative", "Subjunctive", "Optative", "Imperative", "Infinitive", "Participle"}
TenseNames == {"Present", "Imperfect", "Future", "Aorist", "Perfect", "Pluperfect"}
VoiceNames == {"Active", "Middle", "Passive"}

Place == MoodNames \X TenseNames \X VoiceNames

\* three places of one row of the page
Row(mood, tense) ==
  << <<mood, tense, "Active">>, <<mood, tense, "Middle">>, <<mood, tense, "Passive">> >>

LEMMA ThreeVoices == "Active" \in VoiceNames /\ "Middle" \in VoiceNames /\ "Passive" \in VoiceNames
BY DEF VoiceNames

LEMMA RowType ==
  ASSUME NEW mood \in MoodNames, NEW tense \in TenseNames
  PROVE  /\ \A voice \in VoiceNames : << <<mood, tense, voice>> >> \in Seq(Place)
         /\ Row(mood, tense) \in Seq(Place) /\ Len(Row(mood, tense)) = 3
         /\ (<< <<mood, tense, "Active">> >> \o << <<mood, tense, "Middle">> >>)
              \o << <<mood, tense, "Passive">> >> = Row(mood, tense)
<1>1. \A voice \in VoiceNames : <<mood, tense, voice>> \in Place
  BY DEF Place
<1>2. PICK a, b, c : a = <<mood, tense, "Active">> /\ b = <<mood, tense, "Middle">>
                       /\ c = <<mood, tense, "Passive">>
  OBVIOUS
<1>3. a \in Place /\ b \in Place /\ c \in Place
  BY <1>1, <1>2, ThreeVoices, Zenon
<1>4. <<a, b, c>> \in Seq(Place) /\ Len(<<a, b, c>>) = 3 /\ (<<a>> \o <<b>>) \o <<c>> = <<a, b, c>>
  BY <1>3, ThreeInARow
<1>5. Row(mood, tense) = <<a, b, c>>
  BY <1>2 DEF Row
<1>6. ASSUME NEW voice \in VoiceNames
      PROVE  << <<mood, tense, voice>> >> \in Seq(Place)
  <2>1. PICK p : p = <<mood, tense, voice>>
    OBVIOUS
  <2>2. p \in Place
    BY <1>1, <2>1
  <2>3. <<p>> \in Seq(Place)
    BY <2>2, ThreeInARow
  <2> QED
    BY <2>1, <2>3
<1> QED
  BY <1>2, <1>4, <1>5, <1>6, Zenon

(***************************************************************************)
(* What the innermost loop pushes: all or nothing, unless a verb like oida *)
(* is concerned.                                                           *)
(***************************************************************************)
PushedRow(verb, mood, tense) ==
  FlattenSeq([v \in DOMAIN Voices |-> Pushed(verb, mood, tense, Voices[v])])

Dropped(mood, tense) ==
  \/ mood \in NeedsStem /\ tense \in {"Imperfect", "Perfect", "Pluperfect"}
  \/ mood \in {"Subjunctive", "Imperative"} /\ tense = "Future"
  \/ mood \in {"Infinitive", "Participle"} /\ tense \in {"Imperfect", "Pluperfect"}

LEMMA RowPushed ==
  ASSUME NEW verb, verb \notin Oida, NEW mood \in MoodNames, NEW tense \in TenseNames
  PROVE  /\ PushedRow(verb, mood, tense) \in Seq(Place)
         /\ Dropped(mood, tense) => PushedRow(verb, mood, tense) = <<>>
         /\ ~Dropped(mood, tense) => PushedRow(verb, mood, tense) = Row(mood, tense)
<1> DEFINE s == [v \in 1 .. 3 |-> Pushed(verb, mood, tense, Voices[v])]
<1>1. DOMAIN Voices = 1 .. 3 /\ Voices[1] = "Active" /\ Voices[2] = "Middle" /\ Voices[3] = "Passive"
  BY DEF Voices
<1>2. PushedRow(verb, mood, tense) = FlattenSeq(s)
  BY <1>1 DEF PushedRow
<1>3. ASSUME NEW voice \in VoiceNames
      PROVE  /\ Dropped(mood, tense) => Pushed(verb, mood, tense, voice) = <<>>
             /\ ~Dropped(mood, tense) => Pushed(verb, mood, tense, voice) = << <<mood, tense, voice>> >>
             /\ Pushed(verb, mood, tense, voice) \in Seq(Place)
  <2>1. Skipped(verb, mood, tense, voice) <=> Dropped(mood, tense)
    BY DEF Skipped, Dropped
  <2>2. <<>> \in Seq(Place) /\ << <<mood, tense, voice>> >> \in Seq(Place)
    BY RowType, EmptySeq, Zenon
  <2> QED
    BY <2>1, <2>2, Zenon DEF Pushed
<1>4. /\ s[1] = Pushed(verb, mood, tense, "Active")
      /\ s[2] = Pushed(verb, mood, tense, "Middle")
      /\ s[3] = Pushed(verb, mood, tense, "Passive")
  BY <1>1
<1>5. s \in [1 .. 3 -> Seq(Place)]
  <2>1. s[1] \in Seq(Place) /\ s[2] \in Seq(Place) /\ s[3] \in Seq(Place)
    BY <1>3, <1>4, ThreeVoices, Zenon
  <2>2. \A v \in 1 .. 3 : v = 1 \/ v = 2 \/ v = 3
    OBVIOUS
  <2>3. \A v \in 1 .. 3 : s[v] \in Seq(Place)
    BY <2>1, <2>2, Zenon
  <2> QED
    BY <2>3
<1> HIDE DEF s
<1>6. FlattenSeq(s) \in Seq(Place) /\ FlattenSeq(s) = (s[1] \o s[2]) \o s[3]
  BY <1>5, FlattenFew, 3 \in Nat, 3 > 0
<1>7. CASE Dropped(mood, tense)
  <2>1. s[1] = <<>> /\ s[2] = <<>> /\ s[3] = <<>>
    BY <1>3, <1>4, <1>7, ThreeVoices, Zenon
  <2>2. <<>> \o <<>> = <<>>
    BY EmptySeq, ConcatEmptySeq
  <2> QED
    BY <1>2, <1>6, <1>7, <2>1, <2>2, Zenon
<1>8. CASE ~Dropped(mood, tense)
  <2>1. /\ s[1] = << <<mood, tense, "Active">> >>
        /\ s[2] = << <<mood, tense, "Middle">> >>
        /\ s[3] = << <<mood, tense, "Passive">> >>
    BY <1>3, <1>4, <1>8, ThreeVoices, Zenon
  <2> QED
    BY <1>2, <1>6, <1>8, <2>1, RowType, Zenon
<1> QED
  BY <1>7, <1>8

(***************************************************************************)
(* What the loop over the tenses pushes for one mood.                      *)
(***************************************************************************)
PushedMood(verb, mood) ==
  FlattenSeq([t \in DOMAIN Tenses |-> PushedRow(verb, mood, Tenses[t])])

LEMMA MoodPushed ==
  ASSUME NEW verb, verb \notin Oida, NEW mood \in MoodNames
  PROVE  /\ PushedMood(verb, mood) \in Seq(Place)
         /\ PushedMood(verb, mood) =
              ((((PushedRow(verb, mood, "Present") \o PushedRow(verb, mood, "Imperfect"))
                 \o PushedRow(verb, mood, "Future")) \o PushedRow(verb, mood, "Aorist"))
                 \o PushedRow(verb, mood, "Perfect")) \o PushedRow(verb, mood, "Pluperfect")
<1> DEFINE s == [t \in 1 .. 6 |-> PushedRow(verb, mood, Tenses[t])]
<1>1. /\ DOMAIN Tenses = 1 .. 6
      /\ Tenses[1] = "Present" /\ Tenses[2] = "Imperfect" /\ Tenses[3] = "Future"
      /\ Tenses[4] = "Aorist" /\ Tenses[5] = "Perfect" /\ Tenses[6] = "Pluperfect"
  BY DEF Tenses
<1>2. PushedMood(verb, mood) = FlattenSeq(s)
  BY <1>1 DEF PushedMood
<1>3. /\ s[1] = PushedRow(verb, mood, "Present")
      /\ s[2] = PushedRow(verb, mood, "Imperfect")
      /\ s[3] = PushedRow(verb, mood, "Future")
      /\ s[4] = PushedRow(verb, mood, "Aorist")
      /\ s[5] = PushedRow(verb, mood, "Perfect")
      /\ s[6] = PushedRow(verb, mood, "Pluperfect")
  BY <1>1
<1>4. \A t \in 1 .. 6 : Tenses[t] \in TenseNames
  BY <1>1 DEF TenseNames
<1>5. s \in [1 .. 6 -> Seq(Place)]
  BY <1>4, RowPushed
<1> HIDE DEF s
<1>6. /\ FlattenSeq(s) \in Seq(Place)
      /\ FlattenSeq(s) = ((((s[1] \o s[2]) \o s[3]) \o s[4]) \o s[5]) \o s[6]
  BY <1>5, FlattenFew, 6 \in Nat, 6 > 0
<1> QED
  BY <1>2, <1>3, <1>6, Zenon

(***************************************************************************)
(* The page's cells under one mood: a row for each of its labels.          *)
(***************************************************************************)
LEMMA PlacesAreRows ==
  ASSUME NEW mood \in MoodNames, NEW n \in Nat, n > 0, NEW tenses \in [1 .. n -> TenseNames]
  PROVE  /\ Places(mood, tenses) \in Seq(Place)
         /\ n = 2 => Places(mood, tenses) = Row(mood, tenses[1]) \o Row(mood, tenses[2])
         /\ n = 3 => Places(mood, tenses) =
              (Row(mood, tenses[1]) \o Row(mood, tenses[2])) \o Row(mood, tenses[3])
         /\ n = 4 => Places(mood, tenses) =
              ((Row(mood, tenses[1]) \o Row(mood, tenses[2])) \o Row(mood, tenses[3]))
                \o Row(mood, tenses[4])
         /\ n = 6 => Places(mood, tenses) =
              ((((Row(mood, tenses[1]) \o Row(mood, tenses[2])) \o Row(mood, tenses[3]))
                \o Row(mood, tenses[4])) \o Row(mood, tenses[5])) \o Row(mood, tenses[6])
         /\ InThrees(Places(mood, tenses), [t \in 1 .. n |-> Row(mood, tenses[t])], n)
<1> DEFINE s == [t \in 1 .. n |-> Row(mood, tenses[t])]
<1>1. \A t \in 1 .. n : Row(mood, tenses[t]) \in Seq(Place) /\ Len(Row(mood, tenses[t])) = 3
  BY RowType
<1>2. s \in [1 .. n -> Seq(Place)] /\ \A t \in 1 .. n : Len(s[t]) = 3
  BY <1>1
<1>3. ASSUME NEW tense
      PROVE  [v \in DOMAIN Voices |-> <<mood, tense, Voices[v]>>] = Row(mood, tense)
  BY DEF Voices, Row
<1>4. Places(mood, tenses) = FlattenSeq(s)
  BY <1>3 DEF Places
<1>5. \A t \in 1 .. n : s[t] = Row(mood, tenses[t])
  OBVIOUS
<1>6. InThrees(FlattenSeq(s), s, n)
  <2> HIDE DEF s
  <2> QED
    BY <1>2, FlattenTriples
<1>7. /\ FlattenSeq(s) \in Seq(Place)
      /\ n = 2 => FlattenSeq(s) = s[1] \o s[2]
      /\ n = 3 => FlattenSeq(s) = (s[1] \o s[2]) \o s[3]
      /\ n = 4 => FlattenSeq(s) = ((s[1] \o s[2]) \o s[3]) \o s[4]
      /\ n = 6 => FlattenSeq(s) = ((((s[1] \o s[2]) \o s[3]) \o s[4]) \o s[5]) \o s[6]
  <2> HIDE DEF s
  <2> QED
    BY <1>2, FlattenFew
<1>8. /\ n = 2 => 1 \in 1 .. n /\ 2 \in 1 .. n
      /\ n = 3 => 1 \in 1 .. n /\ 2 \in 1 .. n /\ 3 \in 1 .. n
      /\ n = 4 => 1 \in 1 .. n /\ 2 \in 1 .. n /\ 3 \in 1 .. n /\ 4 \in 1 .. n
      /\ n = 6 => /\ 1 \in 1 .. n /\ 2 \in 1 .. n /\ 3 \in 1 .. n
                  /\ 4 \in 1 .. n /\ 5 \in 1 .. n /\ 6 \in 1 .. n
  OBVIOUS
<1>9. InThrees(Places(mood, tenses), [t \in 1 .. n |-> Row(mood, tenses[t])], n)
  BY <1>4, <1>6
<1> HIDE DEF s
<1> QED
  BY <1>4, <1>5, <1>7, <1>8, <1>9, Zenon

(***************************************************************************)
(* Nothing pushed is nothing added.                                        *)
(***************************************************************************)
LEMMA NothingAdded ==
  /\ \A s \in Seq(Place) : s \o <<>> = s
  /\ \A s, t \in Seq(Place) : s \o t \in Seq(Place)
BY ConcatEmptySeq, ConcatProperties

LEMMA TwoKept ==
  ASSUME NEW a \in Seq(Place), NEW b \in Seq(Place)
  PROVE  ((((a \o <<>>) \o <<>>) \o b) \o <<>>) \o <<>> = a \o b
<1>1. a \o <<>> = a /\ a \o b \in Seq(Place)
  BY NothingAdded
<1>2. (a \o b) \o <<>> = a \o b
  BY <1>1, NothingAdded
<1> QED
  BY <1>1, <1>2, Zenon

LEMMA ThreeKept ==
  ASSUME NEW a \in Seq(Place), NEW b \in Seq(Place), NEW c \in Seq(Place)
  PROVE  ((((a \o <<>>) \o b) \o c) \o <<>>) \o <<>> = (a \o b) \o c
<1>1. a \o <<>> = a /\ a \o b \in Seq(Place)
  BY NothingAdded
<1>2. (a \o b) \o c \in Seq(Place)
  BY <1>1, NothingAdded
<1>3. ((a \o b) \o c) \o <<>> = (a \o b) \o c
  BY <1>2, NothingAdded
<1> QED
  BY <1>1, <1>3, Zenon

LEMMA FourKept ==
  ASSUME NEW a \in Seq(Place), NEW b \in Seq(Place), NEW c \in Seq(Place), NEW d \in Seq(Place)
  PROVE  ((((a \o <<>>) \o b) \o c) \o d) \o <<>> = ((a \o b) \o c) \o d
<1>1. a \o <<>> = a /\ a \o b \in Seq(Place)
  BY NothingAdded
<1>2. (a \o b) \o c \in Seq(Place)
  BY <1>1, NothingAdded
<1>3. ((a \o b) \o c) \o d \in Seq(Place)
  BY <1>2, NothingAdded
<1>4. (((a \o b) \o c) \o d) \o <<>> = ((a \o b) \o c) \o d
  BY <1>3, NothingAdded
<1> QED
  BY <1>1, <1>4, Zenon

(***************************************************************************)
(* The rows that a mood keeps.                                             *)
(***************************************************************************)
Kept(mood) == {tense \in TenseNames : ~Dropped(mood, tense)}

LEMMA RowsKept ==
  ASSUME NEW verb, verb \notin Oida, NEW mood \in MoodNames
  PROVE  /\ PushedMood(verb, mood) \in Seq(Place)
         /\ Kept(mood) = {"Present", "Aorist"} =>
              PushedMood(verb, mood) = Row(mood, "Present") \o Row(mood, "Aorist")
         /\ Kept(mood) = {"Present", "Future", "Aorist"} =>
              PushedMood(verb, mood) =
                (Row(mood, "Present") \o Row(mood, "Future")) \o Row(mood, "Aorist")
         /\ Kept(mood) = {"Present", "Future", "Aorist", "Perfect"} =>
              PushedMood(verb, mood) =
                ((Row(mood, "Present") \o Row(mood, "Future")) \o Row(mood, "Aorist"))
                  \o Row(mood, "Perfect")
         /\ Kept(mood) = TenseNames =>
              PushedMood(verb, mood) =
                ((((Row(mood, "Present") \o Row(mood, "Imperfect")) \o Row(mood, "Future"))
                  \o Row(mood, "Aorist")) \o Row(mood, "Perfect")) \o Row(mood, "Pluperfect")
<1>1. /\ "Present" \in TenseNames /\ "Imperfect" \in TenseNames /\ "Future" \in TenseNames
      /\ "Aorist" \in TenseNames /\ "Perfect" \in TenseNames /\ "Pluperfect" \in TenseNames
  BY DEF TenseNames
<1>2. ASSUME NEW tense \in TenseNames
      PROVE  /\ tense \in Kept(mood) => PushedRow(verb, mood, tense) = Row(mood, tense)
             /\ tense \notin Kept(mood) => PushedRow(verb, mood, tense) = <<>>
             /\ Row(mood, tense) \in Seq(Place)
  <2>1. tense \in Kept(mood) <=> ~Dropped(mood, tense)
    BY DEF Kept
  <2> QED
    BY <2>1, RowPushed, RowType, Zenon
<1>3. ASSUME Kept(mood) = {"Present", "Aorist"}
      PROVE  PushedMood(verb, mood) = Row(mood, "Present") \o Row(mood, "Aorist")
  <2>1. /\ "Present" \in Kept(mood) /\ "Imperfect" \notin Kept(mood) /\ "Future" \notin Kept(mood)
        /\ "Aorist" \in Kept(mood) /\ "Perfect" \notin Kept(mood) /\ "Pluperfect" \notin Kept(mood)
    BY <1>3
  <2>2. PushedMood(verb, mood) =
          ((((Row(mood, "Present") \o <<>>) \o <<>>) \o Row(mood, "Aorist")) \o <<>>) \o <<>>
    BY <1>1, <1>2, <2>1, MoodPushed, Zenon
  <2>3. PICK a, b : a = Row(mood, "Present") /\ b = Row(mood, "Aorist")
    OBVIOUS
  <2>4. a \in Seq(Place) /\ b \in Seq(Place)
    BY <1>1, <1>2, <2>3, Zenon
  <2>5. ((((a \o <<>>) \o <<>>) \o b) \o <<>>) \o <<>> = a \o b
    BY <2>4, TwoKept
  <2> QED
    BY <2>2, <2>3, <2>5, Zenon
<1>4. ASSUME Kept(mood) = {"Present", "Future", "Aorist"}
      PROVE  PushedMood(verb, mood) =
               (Row(mood, "Present") \o Row(mood, "Future")) \o Row(mood, "Aorist")
  <2>1. /\ "Present" \in Kept(mood) /\ "Imperfect" \notin Kept(mood) /\ "Future" \in Kept(mood)
        /\ "Aorist" \in Kept(mood) /\ "Perfect" \notin Kept(mood) /\ "Pluperfect" \notin Kept(mood)
    BY <1>4
  <2>2. PushedMood(verb, mood) =
          ((((Row(mood, "Present") \o <<>>) \o Row(mood, "Future")) \o Row(mood, "Aorist")) \o <<>>) \o <<>>
    BY <1>1, <1>2, <2>1, MoodPushed, Zenon
  <2>3. PICK a, b, c : a = Row(mood, "Present") /\ b = Row(mood, "Future") /\ c = Row(mood, "Aorist")
    OBVIOUS
  <2>4. a \in Seq(Place) /\ b \in Seq(Place) /\ c \in Seq(Place)
    BY <1>1, <1>2, <2>3, Zenon
  <2>5. ((((a \o <<>>) \o b) \o c) \o <<>>) \o <<>> = (a \o b) \o c
    BY <2>4, ThreeKept
  <2> QED
    BY <2>2, <2>3, <2>5, Zenon
<1>5. ASSUME Kept(mood) = {"Present", "Future", "Aorist", "Perfect"}
      PROVE  PushedMood(verb, mood) =
               ((Row(mood, "Present") \o Row(mood, "Future")) \o Row(mood, "Aorist"))
                 \o Row(mood, "Perfect")
  <2>1. /\ "Present" \in Kept(mood) /\ "Imperfect" \notin Kept(mood) /\ "Future" \in Kept(mood)
        /\ "Aorist" \in Kept(mood) /\ "Perfect" \in Kept(mood) /\ "Pluperfect" \notin Kept(mood)
    BY <1>5
  <2>2. PushedMood(verb, mood) =
          ((((Row(mood, "Present") \o <<>>) \o Row(mood, "Future")) \o Row(mood, "Aorist"))
            \o Row(mood, "Perfect")) \o <<>>
    BY <1>1, <1>2, <2>1, MoodPushed, Zenon
  <2>3. PICK a, b, c, d : /\ a = Row(mood, "Present") /\ b = Row(mood, "Future")
                          /\ c = Row(mood, "Aorist") /\ d = Row(mood, "Perfect")
    OBVIOUS
  <2>4. a \in Seq(Place) /\ b \in Seq(Place) /\ c \in Seq(Place) /\ d \in Seq(Place)
    BY <1>1, <1>2, <2>3, Zenon
  <2>5. ((((a \o <<>>) \o b) \o c) \o d) \o <<>> = ((a \o b) \o c) \o d
    BY <2>4, FourKept
  <2> QED
    BY <2>2, <2>3, <2>5, Zenon
<1>6. ASSUME Kept(mood) = TenseNames
      PROVE  PushedMood(verb, mood) =
               ((((Row(mood, "Present") \o Row(mood, "Imperfect")) \o Row(mood, "Future"))
                 \o Row(mood, "Aorist")) \o Row(mood, "Perfect")) \o Row(mood, "Pluperfect")
  BY <1>1, <1>2, <1>6, MoodPushed, Zenon
<1>7. PushedMood(verb, mood) \in Seq(Place)
  BY MoodPushed
<1> QED
  BY <1>3, <1>4, <1>5, <1>6, <1>7, Zenon

(***************************************************************************)
(* Mood by mood, get_forms keeps the rows that the page has.               *)
(***************************************************************************)
LEMMA KeptRows ==
  /\ Kept("Indicative") = TenseNames
  /\ Kept("Subjunctive") = {"Present", "Aorist"}
  /\ Kept("Optative") = {"Present", "Future", "Aorist"}
  /\ Kept("Imperative") = {"Present", "Aorist"}
  /\ Kept("Infinitive") = {"Present", "Future", "Aorist", "Perfect"}
  /\ Kept("Participle") = {"Present", "Future", "Aorist", "Perfect"}
BY DEF Kept, Dropped, NeedsStem, TenseNames

\* of a mood the labels, and how many
Labelled(mood, labels, n) ==
  /\ mood \in MoodNames
  /\ labels \in [1 .. n -> TenseNames]

LEMMA MoodLabels ==
  /\ DOMAIN Moods = 1 .. 6 /\ DOMAIN Labels = 1 .. 6
  /\ Moods[1] = "Indicative" /\ Moods[2] = "Subjunctive" /\ Moods[3] = "Optative"
  /\ Moods[4] = "Imperative" /\ Moods[5] = "Infinitive" /\ Moods[6] = "Participle"
  /\ Labelled(Moods[1], Labels[1], 6) /\ Labelled(Moods[2], Labels[2], 2)
  /\ Labelled(Moods[3], Labels[3], 3) /\ Labelled(Moods[4], Labels[4], 2)
  /\ Labelled(Moods[5], Labels[5], 4) /\ Labelled(Moods[6], Labels[6], 4)
  /\ Labels[1] = <<"Present", "Imperfect", "Future", "Aorist", "Perfect", "Pluperfect">>
  /\ Labels[2] = <<"Present", "Aorist">>
  /\ Labels[3] = <<"Present", "Future", "Aorist">>
  /\ Labels[4] = <<"Present", "Aorist">>
  /\ Labels[5] = <<"Present", "Future", "Aorist", "Perfect">>
  /\ Labels[6] = <<"Present", "Future", "Aorist", "Perfect">>
<1>1. /\ DOMAIN Moods = 1 .. 6
      /\ Moods[1] = "Indicative" /\ Moods[2] = "Subjunctive" /\ Moods[3] = "Optative"
      /\ Moods[4] = "Imperative" /\ Moods[5] = "Infinitive" /\ Moods[6] = "Participle"
  BY DEF Moods
<1>2. /\ DOMAIN Labels = 1 .. 6
      /\ Labels[1] = <<"Present", "Imperfect", "Future", "Aorist", "Perfect", "Pluperfect">>
      /\ Labels[2] = <<"Present", "Aorist">>
      /\ Labels[3] = <<"Present", "Future", "Aorist">>
      /\ Labels[4] = <<"Present", "Aorist">>
      /\ Labels[5] = <<"Present", "Future", "Aorist", "Perfect">>
      /\ Labels[6] = <<"Present", "Future", "Aorist", "Perfect">>
  BY DEF Labels, Tenses
<1>3. /\ <<"Present", "Imperfect", "Future", "Aorist", "Perfect", "Pluperfect">>
           \in [1 .. 6 -> TenseNames]
      /\ <<"Present", "Aorist">> \in [1 .. 2 -> TenseNames]
      /\ <<"Present", "Future", "Aorist">> \in [1 .. 3 -> TenseNames]
      /\ <<"Present", "Future", "Aorist", "Perfect">> \in [1 .. 4 -> TenseNames]
  BY DEF TenseNames
<1>4. /\ "Indicative" \in MoodNames /\ "Subjunctive" \in MoodNames /\ "Optative" \in MoodNames
      /\ "Imperative" \in MoodNames /\ "Infinitive" \in MoodNames /\ "Participle" \in MoodNames
  BY DEF MoodNames
<1> QED
  BY <1>1, <1>2, <1>3, <1>4, Zenon DEF Labelled

LEMMA SameRows ==
  ASSUME NEW verb, verb \notin Oida, NEW m \in 1 .. 6
  PROVE  /\ PushedMood(verb, Moods[m]) = Places(Moods[m], Labels[m])
         /\ Places(Moods[m], Labels[m]) \in Seq(Place)
<1>1. 2 \in Nat /\ 2 > 0 /\ 3 \in Nat /\ 3 > 0 /\ 4 \in Nat /\ 4 > 0 /\ 6 \in Nat /\ 6 > 0
  OBVIOUS
<1>2. ASSUME NEW mood \in MoodNames,
             Labelled(mood, <<"Present", "Aorist">>, 2), Kept(mood) = {"Present", "Aorist"}
      PROVE  /\ PushedMood(verb, mood) = Places(mood, <<"Present", "Aorist">>)
             /\ Places(mood, <<"Present", "Aorist">>) \in Seq(Place)
  <2>1. PICK tenses : tenses = <<"Present", "Aorist">>
    OBVIOUS
  <2>2. tenses \in [1 .. 2 -> TenseNames] /\ tenses[1] = "Present" /\ tenses[2] = "Aorist"
    BY <1>2, <2>1 DEF Labelled
  <2>3. /\ Places(mood, tenses) = Row(mood, tenses[1]) \o Row(mood, tenses[2])
        /\ Places(mood, tenses) \in Seq(Place)
    BY <1>1, <2>2, PlacesAreRows
  <2> QED
    BY <1>2, <2>1, <2>2, <2>3, RowsKept, Zenon
<1>3. ASSUME NEW mood \in MoodNames,
             Labelled(mood, <<"Present", "Future", "Aorist">>, 3),
             Kept(mood) = {"Present", "Future", "Aorist"}
      PROVE  /\ PushedMood(verb, mood) = Places(mood, <<"Present", "Future", "Aorist">>)
             /\ Places(mood, <<"Present", "Future", "Aorist">>) \in Seq(Place)
  <2>1. PICK tenses : tenses = <<"Present", "Future", "Aorist">>
    OBVIOUS
  <2>2. /\ tenses \in [1 .. 3 -> TenseNames]
        /\ tenses[1] = "Present" /\ tenses[2] = "Future" /\ tenses[3] = "Aorist"
    BY <1>3, <2>1 DEF Labelled
  <2>3. /\ Places(mood, tenses) =
             (Row(mood, tenses[1]) \o Row(mood, tenses[2])) \o Row(mood, tenses[3])
        /\ Places(mood, tenses) \in Seq(Place)
    BY <1>1, <2>2, PlacesAreRows, Zenon
  <2> QED
    BY <1>3, <2>1, <2>2, <2>3, RowsKept, Zenon
<1>4. ASSUME NEW mood \in MoodNames,
             Labelled(mood, <<"Present", "Future", "Aorist", "Perfect">>, 4),
             Kept(mood) = {"Present", "Future", "Aorist", "Perfect"}
      PROVE  /\ PushedMood(verb, mood) = Places(mood, <<"Present", "Future", "Aorist", "Perfect">>)
             /\ Places(mood, <<"Present", "Future", "Aorist", "Perfect">>) \in Seq(Place)
  <2>1. PICK tenses : tenses = <<"Present", "Future", "Aorist", "Perfect">>
    OBVIOUS
  <2>2. /\ tenses \in [1 .. 4 -> TenseNames]
        /\ tenses[1] = "Present" /\ tenses[2] = "Future"
        /\ tenses[3] = "Aorist" /\ tenses[4] = "Perfect"
    BY <1>4, <2>1 DEF Labelled
  <2>3. /\ Places(mood, tenses) =
             ((Row(mood, tenses[1]) \o Row(mood, tenses[2])) \o Row(mood, tenses[3]))
               \o Row(mood, tenses[4])
        /\ Places(mood, tenses) \in Seq(Place)
    BY <1>1, <2>2, PlacesAreRows, Zenon
  <2> QED
    BY <1>4, <2>1, <2>2, <2>3, RowsKept, Zenon
<1>5. ASSUME NEW mood \in MoodNames,
             Labelled(mood, <<"Present", "Imperfect", "Future", "Aorist", "Perfect", "Pluperfect">>, 6),
             Kept(mood) = TenseNames
      PROVE  /\ PushedMood(verb, mood) =
                  Places(mood, <<"Present", "Imperfect", "Future", "Aorist", "Perfect", "Pluperfect">>)
             /\ Places(mood, <<"Present", "Imperfect", "Future", "Aorist", "Perfect", "Pluperfect">>)
                  \in Seq(Place)
  <2>1. PICK tenses : tenses = <<"Present", "Imperfect", "Future", "Aorist", "Perfect", "Pluperfect">>
    OBVIOUS
  <2>2. /\ tenses \in [1 .. 6 -> TenseNames]
        /\ tenses[1] = "Present" /\ tenses[2] = "Imperfect" /\ tenses[3] = "Future"
        /\ tenses[4] = "Aorist" /\ tenses[5] = "Perfect" /\ tenses[6] = "Pluperfect"
    BY <1>5, <2>1 DEF Labelled
  <2>3. /\ Places(mood, tenses) =
             ((((Row(mood, tenses[1]) \o Row(mood, tenses[2])) \o Row(mood, tenses[3]))
               \o Row(mood, tenses[4])) \o Row(mood, tenses[5])) \o Row(mood, tenses[6])
        /\ Places(mood, tenses) \in Seq(Place)
    BY <1>1, <2>2, PlacesAreRows, Zenon
  <2> QED
    BY <1>5, <2>1, <2>2, <2>3, RowsKept, Zenon
<1>6. m = 1 \/ m = 2 \/ m = 3 \/ m = 4 \/ m = 5 \/ m = 6
  OBVIOUS
<1>7. /\ Moods[1] \in MoodNames /\ Moods[2] \in MoodNames /\ Moods[3] \in MoodNames
      /\ Moods[4] \in MoodNames /\ Moods[5] \in MoodNames /\ Moods[6] \in MoodNames
  BY MoodLabels, Zenon DEF Labelled
<1>8. CASE m = 1
  BY <1>5, <1>7, <1>8, MoodLabels, KeptRows, Zenon
<1>9. CASE m = 2
  BY <1>2, <1>7, <1>9, MoodLabels, KeptRows, Zenon
<1>10. CASE m = 3
  BY <1>3, <1>7, <1>10, MoodLabels, KeptRows, Zenon
<1>11. CASE m = 4
  BY <1>2, <1>7, <1>11, MoodLabels, KeptRows, Zenon
<1>12. CASE m = 5
  BY <1>4, <1>7, <1>12, MoodLabels, KeptRows, Zenon
<1>13. CASE m = 6
  BY <1>4, <1>7, <1>13, MoodLabels, KeptRows, Zenon
<1> QED
  BY <1>6, <1>8, <1>9, <1>10, <1>11, <1>12, <1>13, Zenon

(***************************************************************************)
(* Cell by cell, the page has the places of get_forms, and 63 of them.     *)
(***************************************************************************)
LEMMA CountedRows ==
  ASSUME NEW m \in 1 .. 6, NEW n \in Nat, n > 0, Labelled(Moods[m], Labels[m], n)
  PROVE  Len(Places(Moods[m], Labels[m])) = 3 * n
<1>1. Moods[m] \in MoodNames /\ Labels[m] \in [1 .. n -> TenseNames]
  BY DEF Labelled
<1>2. InThrees(Places(Moods[m], Labels[m]), [t \in 1 .. n |-> Row(Moods[m], Labels[m][t])], n)
  BY <1>1, PlacesAreRows
<1> QED
  BY <1>2 DEF InThrees

Holding(t, n) == t \in Seq(Place) /\ Len(t) = n

LEMMA Longer ==
  ASSUME NEW t, NEW u, NEW k \in Nat, NEW n \in Nat, NEW m, k + n = m,
         Holding(t, k), Holding(u, n)
  PROVE  Holding(t \o u, m)
BY ConcatProperties DEF Holding

LEMMA SameForms ==
  ASSUME NEW verb \in Verbs, verb \notin Oida
  PROVE  /\ PlacesOf[verb] = Cells
         /\ Cells \in Seq(Place)
         /\ Len(Cells) = 63
<1> DEFINE s == [m \in 1 .. 6 |-> Places(Moods[m], Labels[m])]
<1>1. DOMAIN Moods = 1 .. 6
  BY MoodLabels
<1>2. PlacesOf[verb] = FlattenSeq([m \in 1 .. 6 |-> PushedMood(verb, Moods[m])])
  BY <1>1 DEF PlacesOf, PushedMood, PushedRow
<1>3. [m \in 1 .. 6 |-> PushedMood(verb, Moods[m])] = s
  BY SameRows
<1>4. Cells = FlattenSeq(s)
  BY <1>1 DEF Cells
<1>5. s \in [1 .. 6 -> Seq(Place)]
  BY SameRows
<1>6. /\ s[1] \in Seq(Place) /\ s[2] \in Seq(Place) /\ s[3] \in Seq(Place)
      /\ s[4] \in Seq(Place) /\ s[5] \in Seq(Place) /\ s[6] \in Seq(Place)
  BY <1>5
<1>7. /\ Len(s[1]) = 18 /\ Len(s[2]) = 6 /\ Len(s[3]) = 9
      /\ Len(s[4]) = 6 /\ Len(s[5]) = 12 /\ Len(s[6]) = 12
  <2>1. /\ 1 \in 1 .. 6 /\ 2 \in 1 .. 6 /\ 3 \in 1 .. 6 /\ 4 \in 1 .. 6 /\ 5 \in 1 .. 6 /\ 6 \in 1 .. 6
        /\ 2 \in Nat /\ 2 > 0 /\ 3 \in Nat /\ 3 > 0 /\ 4 \in Nat /\ 4 > 0 /\ 6 \in Nat /\ 6 > 0
    OBVIOUS
  <2>2. /\ Labelled(Moods[1], Labels[1], 6) /\ Labelled(Moods[2], Labels[2], 2)
        /\ Labelled(Moods[3], Labels[3], 3) /\ Labelled(Moods[4], Labels[4], 2)
        /\ Labelled(Moods[5], Labels[5], 4) /\ Labelled(Moods[6], Labels[6], 4)
    BY MoodLabels
  <2>3. /\ Len(Places(Moods[1], Labels[1])) = 3 * 6 /\ Len(Places(Moods[2], Labels[2])) = 3 * 2
        /\ Len(Places(Moods[3], Labels[3])) = 3 * 3 /\ Len(Places(Moods[4], Labels[4])) = 3 * 2
        /\ Len(Places(Moods[5], Labels[5])) = 3 * 4 /\ Len(Places(Moods[6], Labels[6])) = 3 * 4
    BY <2>1, <2>2, CountedRows, Zenon
  <2>4. \A m \in 1 .. 6 : s[m] = Places(Moods[m], Labels[m])
    OBVIOUS
  <2>5. 3 * 6 = 18 /\ 3 * 2 = 6 /\ 3 * 3 = 9 /\ 3 * 4 = 12
    OBVIOUS
  <2> QED
    BY <2>1, <2>3, <2>4, <2>5, Zenon
<1> HIDE DEF s
<1>8. FlattenSeq(s) = ((((s[1] \o s[2]) \o s[3]) \o s[4]) \o s[5]) \o s[6]
  BY <1>5, FlattenFew, 6 \in Nat, 6 > 0
<1>9. FlattenSeq(s) \in Seq(Place)
  BY <1>5, FlattenFew, 6 \in Nat, 6 > 0
<1>10. Len(FlattenSeq(s)) = 63
  <2>1. /\ 6 \in Nat /\ 9 \in Nat /\ 12 \in Nat /\ 18 \in Nat /\ 24 \in Nat
        /\ 33 \in Nat /\ 39 \in Nat /\ 51 \in Nat
        /\ 18 + 6 = 24 /\ 24 + 9 = 33 /\ 33 + 6 = 39 /\ 39 + 12 = 51 /\ 51 + 12 = 63
    OBVIOUS
  <2>2. /\ Holding(s[1], 18) /\ Holding(s[2], 6) /\ Holding(s[3], 9)
        /\ Holding(s[4], 6) /\ Holding(s[5], 12) /\ Holding(s[6], 12)
    BY <1>6, <1>7 DEF Holding
  <2>3. PICK t : t = s[1] \o s[2]
    OBVIOUS
  <2>4. PICK u : u = t \o s[3]
    OBVIOUS
  <2>5. PICK v : v = u \o s[4]
    OBVIOUS
  <2>6. PICK w : w = v \o s[5]
    OBVIOUS
  <2>7. Holding(t, 24)
    BY <2>1, <2>2, <2>3, Longer
  <2>8. Holding(u, 33)
    BY <2>1, <2>2, <2>4, <2>7, Longer
  <2>9. Holding(v, 39)
    BY <2>1, <2>2, <2>5, <2>8, Longer
  <2>10. Holding(w, 51)
    BY <2>1, <2>2, <2>6, <2>9, Longer
  <2>11. Holding(w \o s[6], 63)
    BY <2>1, <2>2, <2>10, Longer
  <2> QED
    BY <1>8, <2>3, <2>4, <2>5, <2>6, <2>11, Zenon DEF Holding
<1> QED
  BY <1>2, <1>3, <1>4, <1>9, <1>10, Zenon

-----------------------------------------------------------------------------
(* What is submitted is graded, and what is stored is shown again.         *)

Sendable == {Request(d.verb, d.person, d.number, d.pp, Written(d)) : d \in Drafts}

LEMMA AsLongAsItsDomain ==
  ASSUME NEW k \in Nat, NEW f, f = [i \in 1 .. k |-> f[i]]
  PROVE  Len(f) = k
<1> DEFINE S == {f[i] : i \in 1 .. k}
<1>1. f \in [1 .. k -> S]
  OBVIOUS
<1> QED
  BY <1>1

\* every cell holds a text
Texts(r) == \A n \in 1 .. 63 : \E form : \E quotes \in Nat : r[n] = Text(form, quotes)

LEMMA CellsOf ==
  ASSUME AxumAssumption, NEW payload \in Sendable
  PROVE  /\ payload.verb \in Verbs
         /\ DOMAIN payload.r = 1 .. 63 /\ Len(payload.r) = 63
         /\ Texts(payload.r)
         /\ GetForms(payload.verb) = [n \in 1 .. 63 |-> Form(payload.verb, Cells[n])]
         /\ Len(GetForms(payload.verb)) = 63
         /\ DOMAIN Cells = 1 .. 63
<1>1. PICK d \in Drafts : payload = Request(d.verb, d.person, d.number, d.pp, Written(d))
  BY DEF Sendable
<1>2. /\ d.verb \in Verbs /\ d.verb \notin Oida
      /\ \A n \in DOMAIN d.marks : d.marks[n] \in Nat
  BY DEF AxumAssumption
<1>3. PlacesOf[d.verb] = Cells /\ Cells \in Seq(Place) /\ Len(Cells) = 63
  BY <1>2, SameForms
<1>4. DOMAIN Cells = 1 .. 63
  BY <1>3
<1>5. payload.verb = d.verb /\ payload.r = Written(d)
  BY <1>1 DEF Request
<1>6. GetForms(d.verb) = [n \in 1 .. 63 |-> Form(d.verb, Cells[n])]
  BY <1>3, <1>4 DEF GetForms
<1>7. Len(GetForms(d.verb)) = 63
  BY <1>6, AsLongAsItsDomain
<1>8. \E form, quotes : /\ Written(d) = [n \in 1 .. 63 |-> Text(form[n], quotes[n])]
                        /\ \A n \in 1 .. 63 : quotes[n] \in Nat
  <2>1. CASE d.checked
    <3>1. PICK quotes : quotes = [n \in 1 .. 63 |-> 0]
      OBVIOUS
    <3>2. PICK form : form = GetForms(d.verb)
      OBVIOUS
    <3>3. Written(d) = [n \in 1 .. 63 |-> Text(form[n], quotes[n])]
      BY <1>6, <2>1, <3>1, <3>2 DEF Written, GetSynopsis
    <3>4. \A n \in 1 .. 63 : quotes[n] \in Nat
      BY <3>1
    <3> QED
      BY <3>3, <3>4
  <2>2. CASE ~d.checked
    <3>1. PICK quotes : quotes = [n \in 1 .. 63 |-> IF n \in DOMAIN d.marks THEN d.marks[n] ELSE 0]
      OBVIOUS
    <3>2. PICK form : form = [n \in 1 .. 63 |-> Form(d.verb, Cells[IF n \in d.slips THEN n + 1 ELSE n])]
      OBVIOUS
    <3>3. Written(d) = [n \in 1 .. 63 |-> Text(form[n], quotes[n])]
      BY <1>4, <2>2, <3>1, <3>2 DEF Written
    <3>4. \A n \in 1 .. 63 : quotes[n] \in Nat
      BY <1>2, <3>1
    <3> QED
      BY <3>3, <3>4
  <2> QED
    BY <2>1, <2>2
<1>9. Written(d) = [n \in 1 .. 63 |-> Written(d)[n]] /\ DOMAIN Written(d) = 1 .. 63
  BY <1>8
<1>10. Len(Written(d)) = 63
  BY <1>9, AsLongAsItsDomain
<1>11. Texts(Written(d))
  BY <1>8 DEF Texts
<1> QED
  BY <1>2, <1>4, <1>5, <1>6, <1>7, <1>9, <1>10, <1>11, Zenon

(***************************************************************************)
(* The columns filled by 63 answers with their gradings: in threes, unless *)
(* an answer ended its text.                                               *)
(***************************************************************************)
InTheirCells(f, g, h, c) ==
  (\A n \in 1 .. 63 : ~Unpaired(g[n])) => \A n \in 1 .. 63 :
    /\ Inserted(f)[3 * n - 2] = Literal(g[n])
    /\ Inserted(f)[3 * n - 1] = h[n]
    /\ Inserted(f)[3 * n] = c[n]

LEMMA InsertedCells ==
  ASSUME NEW f, NEW g, NEW h, NEW c,
         f = [n \in 1 .. 63 |-> [given |-> g[n], correct |-> h[n], is_correct |-> c[n]]]
  PROVE  Len(Inserted(f)) = Columns /\ InTheirCells(f, g, h, c)
<1> DEFINE triples == [n \in 1 .. 63 |-> <<Literal(g[n]), h[n], c[n]>>]
           S == UNION {{Literal(g[n]), h[n], c[n]} : n \in 1 .. 63}
<1>1. PICK values : values = Flat([n \in DOMAIN f |-> [f[n] EXCEPT !.given = Literal(@)]])
  OBVIOUS
<1>2. values = FlattenSeq(triples)
  <2>1. PICK f2 : f2 = [n \in DOMAIN f |-> [f[n] EXCEPT !.given = Literal(@)]]
    OBVIOUS
  <2>2. f2 = [n \in 1 .. 63 |-> [given |-> Literal(g[n]), correct |-> h[n], is_correct |-> c[n]]]
    <3>1. ASSUME NEW n \in 1 .. 63
          PROVE  [f[n] EXCEPT !.given = Literal(@)]
                   = [given |-> Literal(g[n]), correct |-> h[n], is_correct |-> c[n]]
      <4>1. f[n] = [given |-> g[n], correct |-> h[n], is_correct |-> c[n]]
        OBVIOUS
      <4> QED
        BY <4>1
    <3>2. DOMAIN f = 1 .. 63
      OBVIOUS
    <3>3. f2 = [n \in 1 .. 63 |-> [f[n] EXCEPT !.given = Literal(@)]]
      BY <2>1, <3>2, Zenon
    <3> QED
      BY <3>1, <3>3, Zenon
  <2>3. Flat(f2) = FlattenSeq(triples)
    BY <2>2 DEF Flat
  <2> QED
    BY <1>1, <2>1, <2>3
<1>3. ASSUME NEW n \in 1 .. 63
      PROVE  triples[n] \in Seq(S) /\ Len(triples[n]) = 3
  <2>1. PICK a, b, d : a = Literal(g[n]) /\ b = h[n] /\ d = c[n]
    OBVIOUS
  <2>2. a \in S /\ b \in S /\ d \in S
    <3>1. {a, b, d} = {Literal(g[n]), h[n], c[n]}
      BY <2>1
    <3>2. {a, b, d} \in {{Literal(g[m]), h[m], c[m]} : m \in 1 .. 63}
      BY <3>1, Zenon
    <3>3. \A x \in {a, b, d} : x \in S
      BY <3>2, Zenon
    <3> QED
      BY <3>3
  <2>3. <<a, b, d>> \in Seq(S) /\ Len(<<a, b, d>>) = 3
    BY <2>2, ThreeInARow
  <2> QED
    BY <2>1, <2>3
<1>4. triples \in [1 .. 63 -> Seq(S)]
  BY <1>3
<1>5. InThrees(values, triples, 63)
  <2> HIDE DEF triples, S
  <2> QED
    BY <1>2, <1>3, <1>4, FlattenTriples, 63 \in Nat, 63 > 0
<1>6. Len(values) = 3 * 63
  BY <1>5 DEF InThrees
<1>7. PICK ended : ended = {k \in 1 .. 3 * 63 : \E n \in DOMAIN f : 3 * n - 2 <= k /\ Unpaired(f[n].given)}
  OBVIOUS
<1>8. Inserted(f) = [k \in 1 .. 3 * 63 |-> IF k \in ended THEN Foreign ELSE values[k]]
  BY <1>1, <1>6, <1>7 DEF Inserted
<1>9. Len(Inserted(f)) = Columns
  <2>1. PICK row : row = Inserted(f)
    OBVIOUS
  <2>2. row = [k \in 1 .. 3 * 63 |-> row[k]]
    BY <1>8, <2>1
  <2>3. Len(row) = 3 * 63
    BY <2>2, AsLongAsItsDomain
  <2> QED
    BY <2>1, <2>3 DEF Columns
<1>10. ASSUME \A n \in 1 .. 63 : ~Unpaired(g[n]), NEW n \in 1 .. 63
       PROVE  /\ Inserted(f)[3 * n - 2] = Literal(g[n])
              /\ Inserted(f)[3 * n - 1] = h[n]
              /\ Inserted(f)[3 * n] = c[n]
  <2>1. ended = {}
    BY <1>7, <1>10
  <2>2. PICK i, j, k \in 1 .. 3 * 63 : i = 3 * n - 2 /\ j = 3 * n - 1 /\ k = 3 * n
    <3>1. 3 * n - 2 \in 1 .. 3 * 63 /\ 3 * n - 1 \in 1 .. 3 * 63 /\ 3 * n \in 1 .. 3 * 63
      OBVIOUS
    <3> QED
      BY <3>1, Zenon
  <2>3. Inserted(f)[i] = values[i] /\ Inserted(f)[j] = values[j] /\ Inserted(f)[k] = values[k]
    BY <1>8, <2>1
  <2>4. values[i] = triples[n][1] /\ values[j] = triples[n][2] /\ values[k] = triples[n][3]
    <3> HIDE DEF triples
    <3> QED
      BY <1>5, <2>2 DEF InThrees
  <2>5. triples[n] = <<Literal(g[n]), h[n], c[n]>>
    OBVIOUS
  <2>6. PICK a, b, d : a = Literal(g[n]) /\ b = h[n] /\ d = c[n]
    OBVIOUS
  <2>7. triples[n][1] = a /\ triples[n][2] = b /\ triples[n][3] = d
    BY <2>5, <2>6
  <2> QED
    BY <2>2, <2>3, <2>4, <2>6, <2>7
<1> QED
  BY <1>9, <1>10 DEF InTheirCells

(***************************************************************************)
(* What a link shows of a submission does not depend on whose row it is.   *)
(***************************************************************************)
LookedUp(payload) == GetSynopsisResult(SynopsisRow(NULL, NULL, Graded(payload)))

LEMMA AnyRow ==
  ASSUME NEW payload, NEW id, NEW user_id
  PROVE  GetSynopsisResult(SynopsisRow(id, user_id, Graded(payload))) = LookedUp(payload)
<1>1. /\ Cells = Cells
      /\ SynopsisRow(id, user_id, Graded(payload)).cells = Inserted(Graded(payload).f)
      /\ SynopsisRow(NULL, NULL, Graded(payload)).cells = Inserted(Graded(payload).f)
  BY DEF SynopsisRow
<1>2. ResultForms(SynopsisRow(id, user_id, Graded(payload)))
        = ResultForms(SynopsisRow(NULL, NULL, Graded(payload)))
  BY <1>1 DEF ResultForms, Cell
<1> QED
  BY <1>2 DEF LookedUp, GetSynopsisResult, SynopsisRow

(***************************************************************************)
(* An answer without apostrophes is stored as it was written.              *)
(***************************************************************************)
LEMMA PlainText ==
  ASSUME NEW text, NEW form, NEW quotes \in Nat, text = Text(form, quotes), text.quotes = 0
  PROVE  Literal(text) = text /\ ~Unpaired(text)
<1>1. quotes = 0
  BY DEF Text
<1>2. 0 \div 2 = 0 /\ 0 % 2 # 1
  OBVIOUS
<1> QED
  BY <1>1, <1>2 DEF Text, Literal, Unpaired

(***************************************************************************)
(* A submission is no reason to panic, fills the columns and is graded cell*)
(* by cell.  The row of the table shows the same gradings if apostrophes   *)
(* come in pairs, and the same answers if there are none.                  *)
(***************************************************************************)
LEMMA RowShows ==
  ASSUME AxumAssumption, NEW payload \in Sendable, NEW id, NEW user_id
  PROVE  /\ ~Panics(payload)
         /\ Len(SynopsisRow(id, user_id, Graded(payload)).cells) = Columns
         /\ GradedByCell(payload, Graded(payload))
         /\ Paired(payload) => GradedByCell(payload, LookedUp(payload))
         /\ Unmarked(payload) => LookedUp(payload) = Graded(payload)
<1> DEFINE forms == GetForms(payload.verb)
           verdict == [n \in 1 .. 63 |-> Correct(forms[n], payload.r[n])]
           f == Graded(payload).f
           shown == LookedUp(payload)
<1>1. forms = [n \in 1 .. 63 |-> Form(payload.verb, Cells[n])]
  BY CellsOf
<1>2. f = [n \in 1 .. 63 |-> [given |-> payload.r[n], correct |-> forms[n], is_correct |-> verdict[n]]]
  BY <1>1 DEF Graded
<1>3. SynopsisRow(id, user_id, Graded(payload)).cells = Inserted(f)
      /\ SynopsisRow(NULL, NULL, Graded(payload)).cells = Inserted(f)
  BY DEF SynopsisRow
<1>4. PICK g, h, c : g = payload.r /\ h = forms /\ c = verdict
  OBVIOUS
<1>5. PICK f2 : f2 = f
  OBVIOUS
<1>6. f2 = [n \in 1 .. 63 |-> [given |-> g[n], correct |-> h[n], is_correct |-> c[n]]]
  BY <1>2, <1>4, <1>5
<1>7. Len(Inserted(f2)) = Columns /\ InTheirCells(f2, g, h, c)
  <2> HIDE DEF forms, verdict, f
  <2> QED
    BY <1>6, InsertedCells, Zenon
<1>8. Len(SynopsisRow(id, user_id, Graded(payload)).cells) = Columns
  BY <1>3, <1>5, <1>7
<1>9. ASSUME Paired(payload)
      PROVE  shown.f = [n \in 1 .. 63 |->
                         [given |-> Literal(payload.r[n]), correct |-> forms[n], is_correct |-> verdict[n]]]
  <2>1. \A n \in 1 .. 63 : ~Unpaired(g[n])
    BY <1>4, <1>9, CellsOf DEF Paired
  <2>2. shown.f = [n \in 1 .. Columns \div 3 |->
                     [given |-> Inserted(f2)[3 * n - 2], correct |-> Inserted(f2)[3 * n - 1],
                      is_correct |-> Inserted(f2)[3 * n]]]
    BY <1>3, <1>5 DEF LookedUp, GetSynopsisResult, ResultForms, Cell
  <2>3. Columns \div 3 = 63
    BY DEF Columns
  <2>4. shown.f = [n \in 1 .. 63 |-> [given |-> Literal(g[n]), correct |-> h[n], is_correct |-> c[n]]]
    <3> HIDE DEF shown
    <3> QED
      BY <1>7, <2>1, <2>2, <2>3 DEF InTheirCells
  <2> QED
    BY <1>4, <2>4
<1>10. \A n \in 1 .. 63 : forms[n] = Form(payload.verb, Cells[n])
  BY <1>1
<1>11. ASSUME NEW res, NEW given,
              res.verb_id = payload.verb, res.person = payload.person, res.number = payload.number,
              res.f = [n \in 1 .. 63 |-> [given |-> given[n], correct |-> forms[n], is_correct |-> verdict[n]]],
              \A n \in 1 .. 63 : given[n] \in {payload.r[n], Literal(payload.r[n])}
       PROVE  GradedByCell(payload, res)
  <2>1. DOMAIN res.f = DOMAIN Cells
    BY <1>11, CellsOf
  <2>2. ASSUME NEW n \in DOMAIN Cells
        PROVE  /\ res.f[n].given \in {payload.r[n], Literal(payload.r[n])}
               /\ res.f[n].is_correct <=> (Form(payload.verb, Cells[n]) = Blank
                                           \/ payload.r[n] = Text(Form(payload.verb, Cells[n]), 0))
               /\ res.f[n].correct = Form(payload.verb, Cells[n])
    <3>1. n \in 1 .. 63
      BY CellsOf
    <3>2. forms[n] = Form(payload.verb, Cells[n])
      BY <1>10, <3>1
    <3>3. verdict[n] = Correct(forms[n], payload.r[n])
      BY <3>1
    <3> HIDE DEF forms, verdict
    <3>4. /\ res.f[n].given = given[n]
          /\ res.f[n].correct = forms[n]
          /\ res.f[n].is_correct = verdict[n]
      BY <1>11, <3>1
    <3>5. given[n] \in {payload.r[n], Literal(payload.r[n])}
      BY <1>11, <3>1
    <3> QED
      BY <3>2, <3>3, <3>4, <3>5, Zenon DEF Correct
  <2> QED
    BY <1>11, <2>1, <2>2 DEF GradedByCell
<1>12. GradedByCell(payload, Graded(payload))
  <2>1. /\ Graded(payload).verb_id = payload.verb
        /\ Graded(payload).person = payload.person
        /\ Graded(payload).number = payload.number
    BY DEF Graded
  <2> HIDE DEF forms, verdict
  <2> QED
    BY <1>2, <1>11, <2>1
<1>13. shown.verb_id = payload.verb /\ shown.person = payload.person /\ shown.number = payload.number
  BY DEF LookedUp, GetSynopsisResult, SynopsisRow, Graded
<1>14. Paired(payload) => GradedByCell(payload, shown)
  <2> SUFFICES ASSUME Paired(payload) PROVE GradedByCell(payload, shown)
    OBVIOUS
  <2>1. PICK given : given = [n \in 1 .. 63 |-> Literal(payload.r[n])]
    OBVIOUS
  <2> HIDE DEF forms, verdict, shown
  <2>2. shown.f = [n \in 1 .. 63 |-> [given |-> given[n], correct |-> forms[n], is_correct |-> verdict[n]]]
    BY <1>9, <2>1
  <2>3. \A n \in 1 .. 63 : given[n] \in {payload.r[n], Literal(payload.r[n])}
    BY <2>1
  <2> QED
    BY <1>11, <1>13, <2>2, <2>3
<1>15. Unmarked(payload) => shown = Graded(payload)
  <2> SUFFICES ASSUME Unmarked(payload) PROVE shown = Graded(payload)
    OBVIOUS
  <2>1. ASSUME NEW n \in 1 .. 63
        PROVE  Literal(payload.r[n]) = payload.r[n] /\ ~Unpaired(payload.r[n])
    <3>1. PICK text : text = payload.r[n]
      OBVIOUS
    <3>2. PICK form : \E quotes \in Nat : text = Text(form, quotes)
      <4>1. Texts(payload.r)
        BY CellsOf, Zenon
      <4> QED
        BY <3>1, <4>1 DEF Texts
    <3>3. text.quotes = 0
      <4>1. DOMAIN payload.r = 1 .. 63
        BY CellsOf, Zenon
      <4> QED
        BY <3>1, <4>1 DEF Unmarked
    <3> QED
      BY <3>1, <3>2, <3>3, PlainText
  <2>2. Paired(payload)
    <3>1. DOMAIN payload.r = 1 .. 63
      BY CellsOf, Zenon
    <3> QED
      BY <2>1, <3>1 DEF Paired
  <2>3. shown.f = f
    <3> HIDE DEF forms, verdict, shown, f
    <3> QED
      BY <1>2, <1>9, <2>1, <2>2
  <2>4. shown.f = ResultForms(SynopsisRow(NULL, NULL, Graded(payload)))
    BY DEF LookedUp, GetSynopsisResult
  <2>5. ResultForms(SynopsisRow(NULL, NULL, Graded(payload))) = f
    BY <2>3, <2>4
  <2> QED
    BY <2>5 DEF LookedUp, GetSynopsisResult, SynopsisRow, Graded
<1>16. ~Panics(payload)
  BY CellsOf DEF Panics
<1> QED
  BY <1>8, <1>12, <1>14, <1>15, <1>16

-----------------------------------------------------------------------------
(* The inductive invariant.                                                *)

SaveShapes ==
  [stage : {"sent", "stored"}, browser : Browsers, watched : BOOLEAN,
   as : Names \cup {NULL}, steady : BOOLEAN, payload : Sendable]
  \cup [stage : {"over"}, payload : Sendable]
  \cup {Unused, Failed}

\* a result is an answer or was looked up
Results(p, payload) ==
  {[id |-> p, res |-> Graded(payload)], [id |-> p, res |-> LookedUp(payload)]}

ResultShapes == {NoResult} \cup UNION {Results(p, payload) : p \in Papers, payload \in Sendable}

PageShapes == [name : Names \cup {NULL}, steady : BOOLEAN, result : ResultShapes]

Shapes == saves \in [Papers -> SaveShapes] /\ pages \in [Browsers -> PageShapes]

\* a row of the table was committed for p
Stored(p) == saves[p].stage \in {"stored", "over"}

RowFor(p, user_id) == SynopsisRow(p, user_id, Graded(saves[p].payload))

(***************************************************************************)
(* The table has a row for each submission that got through, with what was *)
(* submitted, and no other rows.                                           *)
(***************************************************************************)
RowsHold ==
  /\ \A row \in synopses : \E p \in Papers, user_id \in UserIds \cup {NULL} :
       Stored(p) /\ row = RowFor(p, user_id)
  /\ \A p \in Papers : Stored(p) => \E user_id \in UserIds \cup {NULL} : RowFor(p, user_id) \in synopses

\* what a page shows was stored
PagesHold ==
  \A b \in Browsers : pages[b].result # NoResult =>
    \E p \in Papers : Stored(p) /\ pages[b].result \in Results(p, saves[p].payload)

\* the name on a page, until the login changes
NamesHold ==
  /\ \A b \in Browsers : pages[b].steady => pages[b].name = Username(b)
  /\ \A p \in Papers :
       saves[p].stage = "sent" /\ saves[p].steady => saves[p].as = Username(saves[p].browser)

SynopsesInv == Shapes /\ RowsHold /\ PagesHold /\ NamesHold /\ KeptForUser

AxumInv == IInv /\ SynopsesInv

-----------------------------------------------------------------------------
(* The accounts: hc-axum differs in what becomes of the sessions.          *)

(***************************************************************************)
(* Sessions end, and requests are forgotten: nothing new is granted.       *)
(***************************************************************************)
LEMMA FewerGrants ==
  ASSUME IInv,
         \A b \in Browsers : session'[b] = NoSession \/ session'[b] = session[b],
         \A r \in Requests : requests'[r] = Idle \/ requests'[r] = requests[r],
         UNCHANGED users
  PROVE  Unique' /\ LoggedInAsSelf'
<1>1. \A g \in Granted' : g \in Granted
  BY DEF Granted, Idle
<1>2. LoggedInAsSelf'
  BY <1>1, GrantsKept DEF IInv
<1> QED
  BY <1>2 DEF IInv, Unique

LEMMA AxumStartLoginInv ==
  ASSUME AccountsAssumption, IInv, NEW b \in Browsers, NEW iss \in Issuers, AxumStartLogin(b, iss)
  PROVE  IInv'
<1>1. TypeOK'
  <2>1. attempts[b] \in Seq(Issuers) /\ Len(attempts[b]) + 1 \in 0 .. MaxAttempts
    BY DEF AccountsAssumption, IInv, TypeOK, AxumStartLogin
  <2>2. attempts' \in [Browsers -> Seq(Issuers)]
    BY <2>1 DEF IInv, TypeOK, AxumStartLogin
  <2>3. oauth_state' \in [Browsers -> 0 .. MaxAttempts]
    BY <2>1 DEF IInv, TypeOK, AxumStartLogin
  <2>4. session' \in [Browsers -> Grants \cup {NoSession}]
    BY DEF IInv, TypeOK, AxumStartLogin
  <2> QED
    BY <2>2, <2>3, <2>4 DEF IInv, TypeOK, AxumStartLogin
<1>2. \A c \in Browsers : session'[c] = NoSession \/ session'[c] = session[c]
  BY DEF IInv, TypeOK, AxumStartLogin
<1>3. requests' = requests /\ users' = users
  BY DEF AxumStartLogin
<1> QED
  BY <1>1, <1>2, <1>3, FewerGrants DEF IInv

LEMMA AxumNavToLoginInv ==
  ASSUME AccountsAssumption, IInv, NEW r \in Requests, AxumNavToLogin(r)
  PROVE  IInv'
<1> DEFINE b == requests[r].browser
<1>1. requests[r] \in RequestRow /\ requests[r].stage = "refused"
  BY DEF AxumNavToLogin, IInv, TypeOK, Idle
<1>2. b \in Browsers
  BY <1>1 DEF RequestRow
<1>3. oauth_state' \in [Browsers -> 0 .. MaxAttempts]
  BY <1>2, SettledType DEF AxumNavToLogin, IInv
<1>4. /\ requests' \in [Requests -> RequestRow \cup {Idle}]
      /\ \A q \in Requests : requests'[q] = Idle \/ requests'[q] = requests[q]
  BY DEF AxumNavToLogin, IInv, TypeOK
<1>5. UNCHANGED <<users, session, attempts>>
  BY DEF AxumNavToLogin
<1>6. TypeOK'
  BY <1>3, <1>4, <1>5 DEF IInv, TypeOK
<1> QED
  BY <1>4, <1>5, <1>6, FewerGrants DEF IInv

LEMMA RestartInv ==
  ASSUME IInv, Restart
  PROVE  IInv'
<1>1. TypeOK'
  BY DEF Restart, IInv, TypeOK
<1>2. Unique' /\ LoggedInAsSelf'
  BY FewerGrants DEF Restart
<1> QED
  BY <1>1, <1>2 DEF IInv

LEMMA LoginUnderWayInv ==
  ASSUME IInv, LoginUnderWay
  PROVE  IInv' /\ users \subseteq users' /\ session' = session
<1>1. CASE NewUserPost
  <2>1. PICK name \in Names, password \in Passwords : CreateUser(name, password)
    BY <1>1 DEF NewUserPost
  <2> QED
    BY <2>1, CreateUserInv DEF CreateUser
<1>2. ASSUME NEW r \in Requests, NEW b \in Browsers, LoginPost(r, b)
      PROVE  IInv' /\ users \subseteq users' /\ session' = session
  <2>1. PICK name \in Names, password \in Passwords : Login(r, b, name, password)
    BY <1>2 DEF LoginPost
  <2> QED
    BY <2>1, LoginInv DEF Login
<1>3. ASSUME NEW r \in Requests, NEW b \in Browsers, OauthAuthApple(r, b) \/ OauthAuthGoogle(r, b)
      PROVE  IInv' /\ users \subseteq users' /\ session' = session
  <2>1. PICK n \in DOMAIN attempts[b], sub \in Subs, email \in Names \cup {NULL} :
          Callback(r, b, n, sub, email)
    BY <1>3 DEF OauthAuthApple, OauthAuthGoogle, ReturnFrom
  <2>2. n \in Nat
    BY DEF IInv, TypeOK
  <2> QED
    BY <2>1, <2>2, CallbackInv DEF Callback
<1>4. ASSUME NEW r \in Requests, GetOauthUser(r)
      PROVE  IInv' /\ users \subseteq users' /\ session' = session
  BY <1>4, GetOauthUserInv DEF GetOauthUser
<1>5. ASSUME NEW r \in Requests, CreateOauthUser(r)
      PROVE  IInv' /\ users \subseteq users' /\ session' = session
  <2>1. IInv'
    BY <1>5, CreateOauthUserInv
  <2>2. users \subseteq users' /\ session' = session
    BY <1>5 DEF CreateOauthUser
  <2> QED
    BY <2>1, <2>2
<1>6. ASSUME NEW r \in Requests, Fail(r)
      PROVE  IInv' /\ users \subseteq users' /\ session' = session
  BY <1>6, FailInv DEF Fail
<1> QED
  BY <1>1, <1>2, <1>3, <1>4, <1>5, <1>6 DEF LoginUnderWay

-----------------------------------------------------------------------------
(* The synopses.                                                           *)

(***************************************************************************)
(* The name a page would show is a name.                                   *)
(***************************************************************************)
LEMMA UsernameType ==
  ASSUME TypeOK, NEW b \in Browsers
  PROVE  Username(b) \in Names \cup {NULL}
<1>1. session[b] # NoSession => session[b] \in Grants
  BY DEF TypeOK
<1> QED
  BY <1>1 DEF Username, Grants

LEMMA PageParts ==
  ASSUME Shapes, NEW b \in Browsers
  PROVE  /\ pages[b].name \in Names \cup {NULL}
         /\ pages[b].steady \in BOOLEAN
         /\ pages[b].result \in ResultShapes
BY DEF Shapes, PageShapes

LEMMA SaveParts ==
  ASSUME Shapes, NEW p \in Papers
  PROVE  /\ saves[p].stage \in {"unused", "sent", "stored", "over", "failed"}
         /\ saves[p].stage \in {"sent", "stored"} =>
              saves[p] \in [stage : {"sent", "stored"}, browser : Browsers, watched : BOOLEAN,
                            as : Names \cup {NULL}, steady : BOOLEAN, payload : Sendable]
         /\ saves[p].stage \in {"sent", "stored", "over"} => saves[p].payload \in Sendable
<1>1. saves[p] \in SaveShapes
  BY DEF Shapes
<1> QED
  BY <1>1 DEF SaveShapes, Unused, Failed

(***************************************************************************)
(* A submission as it may change without being stored: it is given up, or  *)
(* its marks change.                                                       *)
(***************************************************************************)
Marked(old, new) ==
  \/ new = old
  \/ \E w, s \in BOOLEAN : new = [old EXCEPT !.watched = w, !.steady = s]

LEMMA OverShape ==
  ASSUME Shapes, NEW p \in Papers
  PROVE  /\ Over(saves[p]) \in SaveShapes
         /\ Over(saves[p]).stage \in {"unused", "over", "failed"}
         /\ Over(saves[p]).stage = "over" <=> Stored(p)
         /\ Stored(p) => Over(saves[p]).payload = saves[p].payload
<1>1. saves[p] \in SaveShapes
  BY DEF Shapes
<1>2. CASE saves[p].stage = "sent"
  BY <1>2 DEF Over, Stored, SaveShapes, Failed
<1>3. CASE saves[p].stage = "stored"
  BY <1>3, SaveParts DEF Over, Stored, SaveShapes
<1>4. CASE saves[p].stage \in {"unused", "over", "failed"}
  BY <1>1, <1>4 DEF Over, Stored
<1> QED
  BY <1>2, <1>3, <1>4, SaveParts

(***************************************************************************)
(* Once stored always stored, and nothing else gets stored: the table and  *)
(* the submissions go on matching.                                         *)
(***************************************************************************)
SameStored ==
  \A p \in Papers : (Stored(p)' <=> Stored(p)) /\ (Stored(p) => saves'[p].payload = saves[p].payload)

LEMMA RowsCarry ==
  ASSUME RowsHold, SameStored, synopses' = synopses
  PROVE  RowsHold'
<1>1. ASSUME NEW p \in Papers, NEW user_id, Stored(p)
      PROVE  RowFor(p, user_id)' = RowFor(p, user_id)
  BY <1>1 DEF SameStored, RowFor
<1>2. ASSUME NEW row \in synopses'
      PROVE  \E p \in Papers, user_id \in UserIds \cup {NULL} : Stored(p)' /\ row = RowFor(p, user_id)'
  <2>1. PICK p \in Papers, user_id \in UserIds \cup {NULL} : Stored(p) /\ row = RowFor(p, user_id)
    BY <1>2 DEF RowsHold
  <2> QED
    BY <1>1, <2>1 DEF SameStored
<1>3. ASSUME NEW p \in Papers, Stored(p)'
      PROVE  \E user_id \in UserIds \cup {NULL} : RowFor(p, user_id)' \in synopses'
  <2>1. Stored(p)
    BY <1>3 DEF SameStored
  <2>2. PICK user_id \in UserIds \cup {NULL} : RowFor(p, user_id) \in synopses
    BY <2>1 DEF RowsHold
  <2> QED
    BY <1>1, <2>1, <2>2
<1> QED
  BY <1>2, <1>3 DEF RowsHold

LEMMA PagesCarry ==
  ASSUME PagesHold, SameStored,
         \A b \in Browsers : pages'[b].result \in {NoResult, pages[b].result}
  PROVE  PagesHold'
<1> SUFFICES ASSUME NEW b \in Browsers, pages'[b].result # NoResult
             PROVE  \E p \in Papers : Stored(p)' /\ pages'[b].result \in Results(p, saves'[p].payload)
  BY DEF PagesHold
<1>1. pages'[b].result = pages[b].result
  OBVIOUS
<1>2. PICK p \in Papers : Stored(p) /\ pages[b].result \in Results(p, saves[p].payload)
  BY <1>1 DEF PagesHold
<1> QED
  BY <1>1, <1>2 DEF SameStored

(***************************************************************************)
(* What waits for its answer since it was stored, waits on unchanged or    *)
(* not at all: it stays in its user's list.                                *)
(***************************************************************************)
LEMMA ListsCarry ==
  ASSUME KeptForUser, users \subseteq users', synopses \subseteq synopses',
         \A p \in Papers : saves'[p].stage = "stored" =>
           /\ saves[p].stage = "stored"
           /\ saves'[p].steady = saves[p].steady
           /\ saves'[p].as = saves[p].as
  PROVE  KeptForUser'
<1> SUFFICES ASSUME NEW p \in Papers,
                    saves'[p].stage = "stored", saves'[p].steady, saves'[p].as # NULL
             PROVE  \E u \in users' : /\ u.user_name = saves'[p].as
                                      /\ \E row \in GreekGetSynopsisList(u.user_id)' : row.id = p
  BY DEF KeptForUser
<1>1. saves[p].stage = "stored" /\ saves[p].steady /\ saves[p].as # NULL /\ saves'[p].as = saves[p].as
  OBVIOUS
<1>2. PICK u \in users : /\ u.user_name = saves[p].as
                         /\ \E row \in GreekGetSynopsisList(u.user_id) : row.id = p
  BY <1>1 DEF KeptForUser
<1>3. \A row \in GreekGetSynopsisList(u.user_id) : row \in GreekGetSynopsisList(u.user_id)'
  BY DEF GreekGetSynopsisList
<1> QED
  BY <1>1, <1>2, <1>3

(***************************************************************************)
(* Logins change while synopses are on their way: what is concerned is not *)
(* steady any more.                                                        *)
(***************************************************************************)
LEMMA DisturbedInv ==
  ASSUME SynopsesInv, NEW bs, Disturbed(bs), synopses' = synopses, users \subseteq users',
         \A b \in Browsers : b \notin bs => session'[b] = session[b]
  PROVE  SynopsesInv'
<1>1. /\ \A b \in Browsers : b \notin bs => pages'[b] = pages[b]
      /\ \A b \in Browsers : b \in bs => pages'[b] = [pages[b] EXCEPT !.steady = FALSE]
  BY DEF Disturbed
<1>2. \A p \in Papers :
        IF saves[p].stage = "sent" /\ saves[p].browser \in bs
          THEN saves'[p] = [saves[p] EXCEPT !.steady = FALSE]
          ELSE saves'[p] = saves[p]
  BY DEF Disturbed
<1>3. Shapes
  BY DEF SynopsesInv
<1>4. Shapes'
  <2>1. ASSUME NEW p \in Papers
        PROVE  saves'[p] \in SaveShapes
    <3>1. CASE saves[p].stage = "sent" /\ saves[p].browser \in bs
      BY <1>2, <1>3, <3>1, SaveParts DEF SaveShapes
    <3>2. CASE ~(saves[p].stage = "sent" /\ saves[p].browser \in bs)
      BY <1>2, <1>3, <3>2 DEF Shapes
    <3> QED
      BY <3>1, <3>2
  <2>2. ASSUME NEW b \in Browsers
        PROVE  pages'[b] \in PageShapes
    BY <1>1, <1>3 DEF Shapes, PageShapes
  <2> QED
    BY <2>1, <2>2 DEF Shapes, Disturbed
<1>5. ASSUME NEW p \in Papers
      PROVE  /\ saves'[p].stage = saves[p].stage
             /\ saves[p].stage \in {"sent", "stored"} =>
                  saves'[p].as = saves[p].as /\ saves'[p].browser = saves[p].browser
             /\ saves[p].stage \in {"sent", "stored", "over"} => saves'[p].payload = saves[p].payload
             /\ saves[p].stage = "stored" => saves'[p] = saves[p]
             /\ saves[p].stage = "sent" /\ saves'[p].steady => saves[p].steady /\ saves[p].browser \notin bs
  <2>1. CASE saves[p].stage = "sent" /\ saves[p].browser \in bs
    BY <1>2, <1>3, <2>1, SaveParts
  <2>2. CASE ~(saves[p].stage = "sent" /\ saves[p].browser \in bs)
    BY <1>2, <2>2
  <2> QED
    BY <2>1, <2>2
<1>6. SameStored
  BY <1>5 DEF SameStored, Stored
<1>7. ASSUME NEW b \in Browsers
      PROVE  /\ pages'[b].result = pages[b].result
             /\ pages'[b].name = pages[b].name
             /\ pages'[b].steady => pages[b].steady /\ b \notin bs
  BY <1>1, <1>3 DEF Shapes, PageShapes
<1>8. ASSUME NEW b \in Browsers, b \notin bs
      PROVE  Username(b)' = Username(b)
  BY <1>8 DEF Username
<1>9. NamesHold'
  <2>1. ASSUME NEW b \in Browsers, pages'[b].steady
        PROVE  pages'[b].name = Username(b)'
    BY <1>7, <1>8, <2>1 DEF SynopsesInv, NamesHold
  <2>2. ASSUME NEW p \in Papers, saves'[p].stage = "sent", saves'[p].steady
        PROVE  saves'[p].as = Username(saves[p].browser)'
    <3>1. /\ saves[p].stage = "sent" /\ saves[p].steady /\ saves[p].browser \notin bs
          /\ saves'[p].as = saves[p].as /\ saves'[p].browser = saves[p].browser
      BY <1>5, <2>2
    <3>2. PICK b \in Browsers : b = saves[p].browser
      BY <1>3, <3>1, SaveParts
    <3>3. saves[p].as = Username(b)
      BY <3>1, <3>2 DEF SynopsesInv, NamesHold
    <3>4. Username(b)' = Username(b)
      BY <1>8, <3>1, <3>2
    <3> QED
      BY <3>1, <3>2, <3>3, <3>4
  <2> QED
    BY <2>1, <2>2 DEF NamesHold
<1> QED
  BY <1>4, <1>5, <1>6, <1>7, <1>9, RowsCarry, PagesCarry, ListsCarry DEF SynopsesInv

(***************************************************************************)
(* Without a change of login nothing is disturbed.                         *)
(***************************************************************************)
LEMMA QuietInv ==
  ASSUME SynopsesInv, UNCHANGED <<session, synopsisVars>>, users \subseteq users'
  PROVE  SynopsesInv'
<1>1. pages \in [Browsers -> PageShapes] /\ saves \in [Papers -> SaveShapes]
  BY DEF SynopsesInv, Shapes
<1>2. Disturbed({})
  BY <1>1 DEF Disturbed, synopsisVars
<1> QED
  BY <1>2, DisturbedInv DEF synopsisVars

(***************************************************************************)
(* greek_synopsis: the page shows what a row shows, which is what was      *)
(* graded when the row was written.                                        *)
(***************************************************************************)
LEMMA GreekSynopsisInv ==
  ASSUME AxumAssumption, TypeOK, SynopsesInv, NEW b \in Browsers, GreekSynopsis(b)
  PROVE  SynopsesInv'
<1>1. /\ Shapes
      /\ session' = session /\ users' = users /\ synopses' = synopses
  BY DEF GreekSynopsis, SynopsesInv, vars
<1>2. PICK result \in {NoResult} \cup {[id |-> row.id, res |-> GetSynopsisResult(row)] : row \in synopses} :
        pages' = [pages EXCEPT ![b] = [name |-> Username(b), steady |-> TRUE, result |-> result]]
  BY DEF GreekSynopsis
<1>3. \A p \in Papers :
        IF saves[p].stage \in {"sent", "stored"} /\ saves[p].browser = b
          THEN saves'[p] = [saves[p] EXCEPT !.watched = FALSE]
          ELSE saves'[p] = saves[p]
  BY DEF GreekSynopsis, Left
<1>4. ASSUME result # NoResult
      PROVE  \E p \in Papers : Stored(p) /\ result \in Results(p, saves[p].payload)
  <2>1. PICK row \in synopses : result = [id |-> row.id, res |-> GetSynopsisResult(row)]
    BY <1>4
  <2>2. PICK p \in Papers, user_id \in UserIds \cup {NULL} : Stored(p) /\ row = RowFor(p, user_id)
    BY DEF SynopsesInv, RowsHold
  <2>3. saves[p].payload \in Sendable
    BY <1>1, <2>2, SaveParts DEF Stored
  <2>4. row.id = p
    BY <2>2 DEF RowFor, SynopsisRow
  <2>5. GetSynopsisResult(row) = LookedUp(saves[p].payload)
    BY <2>2, AnyRow DEF RowFor
  <2> QED
    BY <2>1, <2>2, <2>4, <2>5 DEF Results
<1>5. result \in ResultShapes
  <2>1. CASE result # NoResult
    <3>1. PICK p \in Papers : Stored(p) /\ result \in Results(p, saves[p].payload)
      BY <1>4, <2>1
    <3>2. saves[p].payload \in Sendable
      BY <1>1, <3>1, SaveParts DEF Stored
    <3> QED
      BY <3>1, <3>2 DEF ResultShapes
  <2> QED
    BY <2>1 DEF ResultShapes
<1>6. ASSUME NEW p \in Papers
      PROVE  /\ saves'[p] \in SaveShapes
             /\ saves'[p].stage = saves[p].stage
             /\ saves[p].stage \in {"sent", "stored"} =>
                  /\ saves'[p].as = saves[p].as
                  /\ saves'[p].steady = saves[p].steady
                  /\ saves'[p].browser = saves[p].browser
             /\ saves[p].stage \in {"sent", "stored", "over"} => saves'[p].payload = saves[p].payload
  <2>1. CASE saves[p].stage \in {"sent", "stored"} /\ saves[p].browser = b
    BY <1>1, <1>3, <2>1, SaveParts DEF SaveShapes
  <2>2. CASE ~(saves[p].stage \in {"sent", "stored"} /\ saves[p].browser = b)
    BY <1>1, <1>3, <2>2 DEF Shapes
  <2> QED
    BY <2>1, <2>2
<1>7. /\ pages'[b] = [name |-> Username(b), steady |-> TRUE, result |-> result]
      /\ \A c \in Browsers : c # b => pages'[c] = pages[c]
  BY <1>1, <1>2 DEF Shapes
<1>8. Shapes'
  <2>1. [name |-> Username(b), steady |-> TRUE, result |-> result] \in PageShapes
    BY <1>5, UsernameType DEF PageShapes
  <2>2. pages' \in [Browsers -> PageShapes]
    BY <1>1, <1>2, <2>1 DEF Shapes
  <2> QED
    BY <1>6, <2>2 DEF Shapes, GreekSynopsis, Left
<1>9. SameStored
  BY <1>6 DEF SameStored, Stored
<1>10. PagesHold'
  <2> SUFFICES ASSUME NEW c \in Browsers, pages'[c].result # NoResult
               PROVE  \E p \in Papers : Stored(p)' /\ pages'[c].result \in Results(p, saves'[p].payload)
    BY DEF PagesHold
  <2>1. PICK p \in Papers : Stored(p) /\ pages'[c].result \in Results(p, saves[p].payload)
    <3>1. CASE c = b
      BY <1>4, <1>7, <3>1
    <3>2. CASE c # b
      BY <1>7, <3>2 DEF SynopsesInv, PagesHold
    <3> QED
      BY <3>1, <3>2
  <2> QED
    BY <1>9, <2>1 DEF SameStored
<1>11. ASSUME NEW c \in Browsers
       PROVE  Username(c)' = Username(c)
  BY <1>1 DEF Username
<1>12. NamesHold'
  <2>1. ASSUME NEW c \in Browsers, pages'[c].steady
        PROVE  pages'[c].name = Username(c)'
    BY <1>7, <1>11, <2>1 DEF SynopsesInv, NamesHold
  <2>2. ASSUME NEW p \in Papers, saves'[p].stage = "sent", saves'[p].steady
        PROVE  saves'[p].as = Username(saves[p].browser)'
    <3>1. /\ saves[p].stage = "sent" /\ saves[p].steady
          /\ saves'[p].as = saves[p].as /\ saves'[p].browser = saves[p].browser
      BY <1>6, <2>2
    <3>2. PICK c \in Browsers : c = saves[p].browser
      BY <1>1, <3>1, SaveParts
    <3>3. saves[p].as = Username(c)
      BY <3>1, <3>2 DEF SynopsesInv, NamesHold
    <3> QED
      BY <1>11, <3>1, <3>2, <3>3
  <2> QED
    BY <2>1, <2>2 DEF NamesHold
<1> QED
  BY <1>1, <1>6, <1>8, <1>9, <1>10, <1>12, RowsCarry, ListsCarry DEF SynopsesInv

(***************************************************************************)
(* submitSynopsis: the name goes along that the page shows.                *)
(***************************************************************************)
LEMMA SubmitInv ==
  ASSUME SynopsesInv, NEW b \in Browsers, NEW p \in Papers, Submit(b, p)
  PROVE  SynopsesInv'
<1>1. /\ Shapes
      /\ saves[p] = Unused
      /\ session' = session /\ users' = users /\ synopses' = synopses /\ pages' = pages
  BY DEF Submit, SynopsesInv, vars
<1>2. PICK d \in Drafts :
        saves' = [saves EXCEPT ![p] =
          [stage |-> "sent", browser |-> b, watched |-> TRUE,
           as |-> pages[b].name, steady |-> pages[b].steady,
           payload |-> Request(d.verb, d.person, d.number, d.pp, Written(d))]]
  BY DEF Submit
<1>3. PICK payload \in Sendable : payload = Request(d.verb, d.person, d.number, d.pp, Written(d))
  BY DEF Sendable
<1> DEFINE save == [stage |-> "sent", browser |-> b, watched |-> TRUE,
                    as |-> pages[b].name, steady |-> pages[b].steady, payload |-> payload]
<1>4. saves' = [saves EXCEPT ![p] = save]
  BY <1>2, <1>3
<1>5. save \in SaveShapes
  BY <1>1, PageParts DEF SaveShapes
<1>6. Shapes'
  BY <1>1, <1>4, <1>5 DEF Shapes
<1>7. saves'[p] = save /\ \A q \in Papers : q # p => saves'[q] = saves[q]
  BY <1>1, <1>4 DEF Shapes
<1>8. saves[p].stage = "unused" /\ saves'[p].stage = "sent"
  BY <1>1, <1>7 DEF Unused
<1>9. SameStored
  <2> SUFFICES ASSUME NEW q \in Papers
               PROVE  (Stored(q)' <=> Stored(q)) /\ (Stored(q) => saves'[q].payload = saves[q].payload)
    BY DEF SameStored
  <2> QED
    BY <1>7, <1>8 DEF Stored
<1>10. ASSUME NEW c \in Browsers
       PROVE  Username(c)' = Username(c)
  BY <1>1 DEF Username
<1>11. NamesHold'
  <2>1. ASSUME NEW c \in Browsers, pages'[c].steady
        PROVE  pages'[c].name = Username(c)'
    BY <1>1, <1>10, <2>1 DEF SynopsesInv, NamesHold
  <2>2. ASSUME NEW q \in Papers, NEW c \in Browsers, c = saves'[q].browser,
               saves'[q].stage = "sent", saves'[q].steady
        PROVE  saves'[q].as = Username(c)'
    <3>1. CASE q = p
      <4>1. c = b /\ saves'[q].as = pages[b].name /\ pages[b].steady
        BY <1>7, <2>2, <3>1
      <4> QED
        BY <1>10, <4>1 DEF SynopsesInv, NamesHold
    <3>2. CASE q # p
      BY <1>7, <1>10, <2>2, <3>2 DEF SynopsesInv, NamesHold
    <3> QED
      BY <3>1, <3>2
  <2>3. \A q \in Papers : saves'[q].stage = "sent" => saves'[q].browser \in Browsers
    BY <1>1, <1>7, SaveParts
  <2> QED
    BY <2>1, <2>2, <2>3 DEF NamesHold
<1>12. \A q \in Papers : saves'[q].stage = "stored" => saves'[q] = saves[q]
  BY <1>7, <1>8
<1>13. KeptForUser'
  BY <1>1, <1>12, ListsCarry DEF SynopsesInv
<1>14. RowsHold' /\ PagesHold'
  BY <1>1, <1>9, RowsCarry, PagesCarry DEF SynopsesInv
<1> QED
  BY <1>6, <1>11, <1>13, <1>14 DEF SynopsesInv

(***************************************************************************)
(* greek_synopsis_saver: the row is that of whoever is logged in by now,   *)
(* which on a steady page is whose name the page shows.                    *)
(***************************************************************************)
LEMMA SaveSynopsisInv ==
  ASSUME AccountsAssumption, AxumAssumption, IInv, SynopsesInv, NEW p \in Papers, SaveSynopsis(p)
  PROVE  SynopsesInv'
<1> DEFINE payload == saves[p].payload
           user_id == session[saves[p].browser].user_id
<1>1. /\ Shapes /\ TypeOK
      /\ saves[p].stage = "sent"
      /\ session' = session /\ users' = users /\ pages' = pages
  BY DEF SaveSynopsis, SynopsesInv, IInv, vars
<1>2. payload \in Sendable /\ saves[p].browser \in Browsers
  BY <1>1, SaveParts
<1>3. \/ /\ synopses' = synopses \cup {RowFor(p, user_id)}
         /\ saves' = [saves EXCEPT ![p].stage = "stored"]
      \/ synopses' = synopses /\ saves' = [saves EXCEPT ![p] = Failed]
  BY <1>2, RowShows DEF SaveSynopsis, RowFor
<1>4. ASSUME NEW c \in Browsers
      PROVE  Username(c)' = Username(c)
  BY <1>1 DEF Username
<1>5. \A q \in Papers : q # p => saves'[q] = saves[q]
  BY <1>1, <1>3 DEF Shapes
<1>6. saves'[p].stage # "sent"
  <2>1. saves' = [saves EXCEPT ![p].stage = "stored"] => saves'[p].stage = "stored"
    BY <1>1, SaveParts DEF Shapes
  <2>2. saves' = [saves EXCEPT ![p] = Failed] => saves'[p].stage = "failed"
    BY <1>1 DEF Shapes, Failed
  <2> QED
    BY <1>3, <2>1, <2>2
<1>7. NamesHold'
  <2>1. ASSUME NEW c \in Browsers, pages'[c].steady
        PROVE  pages'[c].name = Username(c)'
    BY <1>1, <1>4, <2>1 DEF SynopsesInv, NamesHold
  <2>2. ASSUME NEW q \in Papers, NEW c \in Browsers, c = saves'[q].browser,
               saves'[q].stage = "sent", saves'[q].steady
        PROVE  saves'[q].as = Username(c)'
    BY <1>4, <1>5, <1>6, <2>2 DEF SynopsesInv, NamesHold
  <2>3. \A q \in Papers : saves'[q].stage = "sent" => saves'[q].browser \in Browsers
    BY <1>1, <1>5, <1>6, SaveParts
  <2> QED
    BY <2>1, <2>2, <2>3 DEF NamesHold
<1>8. CASE synopses' = synopses /\ saves' = [saves EXCEPT ![p] = Failed]
  <2>1. saves'[p] = Failed
    BY <1>1, <1>8 DEF Shapes
  <2>2. Shapes'
    BY <1>1, <1>8 DEF Shapes, SaveShapes
  <2>3. SameStored
    <3> SUFFICES ASSUME NEW q \in Papers
                 PROVE  (Stored(q)' <=> Stored(q)) /\ (Stored(q) => saves'[q].payload = saves[q].payload)
      BY DEF SameStored
    <3> QED
      BY <1>1, <1>5, <2>1 DEF Stored, Failed
  <2>4. \A q \in Papers : saves'[q].stage = "stored" => saves'[q] = saves[q]
    BY <1>5, <2>1 DEF Failed
  <2>5. KeptForUser'
    BY <1>1, <1>8, <2>4, ListsCarry DEF SynopsesInv
  <2>6. RowsHold' /\ PagesHold'
    BY <1>1, <1>8, <2>3, RowsCarry, PagesCarry DEF SynopsesInv
  <2> QED
    BY <1>7, <2>2, <2>5, <2>6 DEF SynopsesInv
<1>9. CASE /\ synopses' = synopses \cup {RowFor(p, user_id)}
           /\ saves' = [saves EXCEPT ![p].stage = "stored"]
  <2>1. /\ saves'[p].stage = "stored"
        /\ saves'[p].payload = payload
        /\ saves'[p].as = saves[p].as
        /\ saves'[p].steady = saves[p].steady
        /\ saves'[p] \in SaveShapes
    BY <1>1, <1>9, SaveParts DEF Shapes, SaveShapes
  <2>2. Shapes'
    BY <1>1, <1>5, <1>9, <2>1 DEF Shapes
  <2>3. user_id \in UserIds \cup {NULL}
    <3>1. session[saves[p].browser] \in Grants \cup {NoSession}
      BY <1>1, <1>2 DEF TypeOK
    <3> QED
      BY <3>1 DEF Grants, NoSession
  <2>4. ~Stored(p)
    BY <1>1 DEF Stored
  <2>5. ASSUME NEW q \in Papers, NEW id
        PROVE  /\ RowFor(q, id)' = RowFor(q, id)
               /\ Stored(q)' <=> Stored(q) \/ q = p
    <3>1. saves'[q].payload = saves[q].payload
      BY <1>5, <2>1
    <3> QED
      BY <1>5, <2>1, <3>1 DEF RowFor, Stored
  <2>6. RowsHold'
    <3>1. ASSUME NEW row \in synopses'
          PROVE  \E q \in Papers, id \in UserIds \cup {NULL} : Stored(q)' /\ row = RowFor(q, id)'
      <4>1. CASE row \in synopses
        <5>1. PICK q \in Papers, id \in UserIds \cup {NULL} : Stored(q) /\ row = RowFor(q, id)
          BY <4>1 DEF SynopsesInv, RowsHold
        <5> QED
          BY <2>5, <5>1
      <4>2. CASE row = RowFor(p, user_id)
        <5>1. PICK id \in UserIds \cup {NULL} : id = user_id
          BY <2>3
        <5>2. Stored(p)' /\ row = RowFor(p, id)'
          BY <2>5, <4>2, <5>1
        <5> QED
          BY <5>2
      <4> QED
        BY <1>9, <4>1, <4>2
    <3>2. ASSUME NEW q \in Papers, Stored(q)'
          PROVE  \E id \in UserIds \cup {NULL} : RowFor(q, id)' \in synopses'
      <4>1. CASE Stored(q)
        <5>1. PICK id \in UserIds \cup {NULL} : RowFor(q, id) \in synopses
          BY <4>1 DEF SynopsesInv, RowsHold
        <5> QED
          BY <1>9, <2>5, <5>1
      <4>2. CASE q = p
        <5>1. PICK id \in UserIds \cup {NULL} : id = user_id
          BY <2>3
        <5>2. RowFor(q, id)' = RowFor(p, user_id)
          BY <2>5, <4>2, <5>1
        <5>3. RowFor(q, id)' \in synopses'
          BY <1>9, <5>2
        <5> QED
          BY <5>3
      <4> QED
        BY <2>5, <3>2, <4>1, <4>2
    <3> QED
      BY <3>1, <3>2 DEF RowsHold
  <2>7. PagesHold'
    <3> SUFFICES ASSUME NEW c \in Browsers, pages'[c].result # NoResult
                 PROVE  \E q \in Papers : Stored(q)' /\ pages'[c].result \in Results(q, saves'[q].payload)
      BY DEF PagesHold
    <3>1. PICK q \in Papers : Stored(q) /\ pages[c].result \in Results(q, saves[q].payload)
      BY <1>1 DEF SynopsesInv, PagesHold
    <3>2. saves'[q] = saves[q]
      BY <1>5, <2>4, <3>1
    <3> QED
      BY <1>1, <2>5, <3>1, <3>2
  <2>8. KeptForUser'
    <3> SUFFICES ASSUME NEW q \in Papers,
                        saves'[q].stage = "stored", saves'[q].steady, saves'[q].as # NULL
                 PROVE  \E u \in users' : /\ u.user_name = saves'[q].as
                                          /\ \E row \in GreekGetSynopsisList(u.user_id)' : row.id = q
      BY DEF KeptForUser
    <3>1. CASE q # p
      <4>1. saves'[q] = saves[q]
        BY <1>5, <3>1
      <4>2. PICK u \in users : /\ u.user_name = saves[q].as
                               /\ \E row \in GreekGetSynopsisList(u.user_id) : row.id = q
        BY <4>1 DEF SynopsesInv, KeptForUser
      <4>3. \A row \in GreekGetSynopsisList(u.user_id) : row \in GreekGetSynopsisList(u.user_id)'
        BY <1>9 DEF GreekGetSynopsisList
      <4> QED
        BY <1>1, <4>1, <4>2, <4>3
    <3>2. CASE q = p
      <4>1. PICK b \in Browsers : b = saves[p].browser
        BY <1>2
      <4>2. saves[p].steady /\ saves[p].as # NULL /\ saves'[q].as = saves[p].as
        BY <2>1, <3>2
      <4>3. saves[p].as = Username(b)
        BY <1>1, <4>1, <4>2 DEF SynopsesInv, NamesHold
      <4>4. session[b] # NoSession /\ session[b].username = saves[p].as
        BY <4>2, <4>3 DEF Username
      <4>5. session[b] \in Granted
        BY <4>4 DEF Granted
      <4>6. PICK u \in users : u.user_id = session[b].user_id /\ u.user_name = session[b].username
        BY <4>5 DEF IInv, LoggedInAsSelf
      <4>7. u.user_id \in UserIds
        BY <1>1 DEF TypeOK, UserRow
      <4>8. RowFor(p, user_id).id = p /\ RowFor(p, user_id).user_id = user_id
        BY DEF RowFor, SynopsisRow
      <4>9. RowFor(p, user_id) \in synopses' /\ user_id = u.user_id /\ u.user_id # NULL
        BY <1>9, <4>1, <4>6, <4>7 DEF AxumAssumption
      <4>10. RowFor(p, user_id) \in GreekGetSynopsisList(u.user_id)'
        BY <4>8, <4>9 DEF GreekGetSynopsisList
      <4>11. u \in users' /\ u.user_name = saves'[q].as
        BY <1>1, <4>2, <4>4, <4>6
      <4> QED
        BY <3>2, <4>8, <4>10, <4>11
    <3> QED
      BY <3>1, <3>2
  <2> QED
    BY <1>7, <2>2, <2>6, <2>7, <2>8 DEF SynopsesInv
<1> QED
  BY <1>3, <1>8, <1>9

(***************************************************************************)
(* Submissions that nobody waits for any more: what was stored stays so.   *)
(***************************************************************************)
LEMMA GivenUp ==
  ASSUME SynopsesInv, NEW ps, synopses' = synopses, users' = users,
         saves' = [p \in Papers |-> IF p \in ps THEN Over(saves[p]) ELSE saves[p]]
  PROVE  /\ saves' \in [Papers -> SaveShapes]
         /\ SameStored
         /\ \A p \in Papers : saves'[p].stage = "sent" => saves'[p] = saves[p]
         /\ RowsHold' /\ KeptForUser'
<1>1. Shapes
  BY DEF SynopsesInv
<1>2. ASSUME NEW p \in Papers
      PROVE  /\ saves'[p] \in SaveShapes
             /\ Stored(p)' <=> Stored(p)
             /\ Stored(p) => saves'[p].payload = saves[p].payload
             /\ saves'[p].stage \in {"sent", "stored"} => saves'[p] = saves[p]
  <2>1. CASE p \in ps
    <3>1. saves'[p] = Over(saves[p])
      BY <2>1
    <3>2. /\ Over(saves[p]) \in SaveShapes
          /\ Over(saves[p]).stage \in {"unused", "over", "failed"}
          /\ Over(saves[p]).stage = "over" <=> Stored(p)
          /\ Stored(p) => Over(saves[p]).payload = saves[p].payload
      BY <1>1, OverShape
    <3>3. Stored(p)' <=> saves'[p].stage \in {"stored", "over"}
      BY DEF Stored
    <3> QED
      BY <3>1, <3>2, <3>3
  <2>2. CASE p \notin ps
    <3>1. saves'[p] = saves[p]
      BY <2>2
    <3> QED
      BY <1>1, <3>1 DEF Stored, Shapes
  <2> QED
    BY <2>1, <2>2
<1>3. saves' \in [Papers -> SaveShapes]
  BY <1>2
<1>4. SameStored
  BY <1>2 DEF SameStored
<1>5. KeptForUser'
  BY <1>2, ListsCarry DEF SynopsesInv
<1> QED
  BY <1>2, <1>3, <1>4, <1>5, RowsCarry DEF SynopsesInv

LEMMA NamesAfter ==
  ASSUME SynopsesInv, session' = session,
         \A b \in Browsers : pages'[b].steady = pages[b].steady /\ pages'[b].name = pages[b].name,
         \A p \in Papers : saves'[p].stage = "sent" => saves'[p] = saves[p]
  PROVE  NamesHold'
<1>1. ASSUME NEW b \in Browsers
      PROVE  Username(b)' = Username(b)
  BY DEF Username
<1>2. ASSUME NEW b \in Browsers, pages'[b].steady
      PROVE  pages'[b].name = Username(b)'
  BY <1>1, <1>2 DEF SynopsesInv, NamesHold
<1>3. ASSUME NEW p \in Papers, NEW b \in Browsers, b = saves'[p].browser,
             saves'[p].stage = "sent", saves'[p].steady
      PROVE  saves'[p].as = Username(b)'
  BY <1>1, <1>3 DEF SynopsesInv, NamesHold
<1>4. \A p \in Papers : saves'[p].stage = "sent" => saves'[p].browser \in Browsers
  BY SaveParts DEF SynopsesInv
<1> QED
  BY <1>2, <1>3, <1>4 DEF NamesHold

(***************************************************************************)
(* The answer, which says what was stored.                                 *)
(***************************************************************************)
LEMMA ShowResultInv ==
  ASSUME SynopsesInv, NEW p \in Papers, ShowResult(p)
  PROVE  SynopsesInv'
<1> DEFINE b == saves[p].browser
           result == [id |-> p, res |-> Graded(saves[p].payload)]
<1>1. /\ Shapes
      /\ saves[p].stage = "stored"
      /\ saves' = [saves EXCEPT ![p] = Over(@)]
      /\ session' = session /\ users' = users /\ synopses' = synopses
  BY DEF ShowResult, SynopsesInv, vars
<1>2. saves' = [q \in Papers |-> IF q \in {p} THEN Over(saves[q]) ELSE saves[q]]
  BY <1>1 DEF Shapes
<1>3. /\ saves' \in [Papers -> SaveShapes]
      /\ SameStored
      /\ \A q \in Papers : saves'[q].stage = "sent" => saves'[q] = saves[q]
      /\ RowsHold' /\ KeptForUser'
  BY <1>1, <1>2, GivenUp
<1>4. b \in Browsers /\ saves[p].payload \in Sendable /\ Stored(p)
  BY <1>1, SaveParts DEF Stored
<1>5. result \in Results(p, saves[p].payload)
  BY DEF Results
<1>6. pages' = [pages EXCEPT ![b].result = result] \/ pages' = pages
  BY DEF ShowResult
<1> HIDE DEF result
<1>7. /\ pages' \in [Browsers -> PageShapes]
      /\ \A c \in Browsers :
           /\ pages'[c].steady = pages[c].steady /\ pages'[c].name = pages[c].name
           /\ pages'[c].result \in {pages[c].result, result}
  <2>1. result \in ResultShapes
    BY <1>4, <1>5 DEF ResultShapes
  <2> QED
    BY <1>1, <1>4, <1>6, <2>1 DEF Shapes, PageShapes
<1>8. Shapes'
  BY <1>3, <1>7 DEF Shapes
<1>9. PagesHold'
  <2> SUFFICES ASSUME NEW c \in Browsers, pages'[c].result # NoResult
               PROVE  \E q \in Papers : Stored(q)' /\ pages'[c].result \in Results(q, saves'[q].payload)
    BY DEF PagesHold
  <2>1. PICK q \in Papers : Stored(q) /\ pages'[c].result \in Results(q, saves[q].payload)
    <3>1. CASE pages'[c].result = result
      BY <1>4, <1>5, <3>1
    <3>2. CASE pages'[c].result = pages[c].result
      BY <3>2 DEF SynopsesInv, PagesHold
    <3> QED
      BY <1>7, <3>1, <3>2
  <2> QED
    BY <1>3, <2>1 DEF SameStored
<1>10. NamesHold'
  BY <1>1, <1>3, <1>7, NamesAfter
<1> QED
  BY <1>3, <1>8, <1>9, <1>10 DEF SynopsesInv

LEMMA LoseSaveInv ==
  ASSUME SynopsesInv, NEW p \in Papers, LoseSave(p)
  PROVE  SynopsesInv'
<1>1. /\ Shapes
      /\ saves' = [saves EXCEPT ![p] = Over(@)]
      /\ session' = session /\ users' = users /\ synopses' = synopses /\ pages' = pages
  BY DEF LoseSave, SynopsesInv, vars
<1>2. saves' = [q \in Papers |-> IF q \in {p} THEN Over(saves[q]) ELSE saves[q]]
  BY <1>1 DEF Shapes
<1>3. /\ saves' \in [Papers -> SaveShapes]
      /\ SameStored
      /\ \A q \in Papers : saves'[q].stage = "sent" => saves'[q] = saves[q]
      /\ RowsHold' /\ KeptForUser'
  BY <1>1, <1>2, GivenUp
<1>4. Shapes'
  BY <1>1, <1>3 DEF Shapes
<1>5. PagesHold'
  BY <1>1, <1>3, PagesCarry DEF SynopsesInv
<1>6. NamesHold'
  BY <1>1, <1>3, NamesAfter
<1> QED
  BY <1>3, <1>4, <1>5, <1>6 DEF SynopsesInv

LEMMA RestartSynopses ==
  ASSUME SynopsesInv, Restart
  PROVE  SynopsesInv'
<1>1. /\ Shapes
      /\ users' = users /\ synopses' = synopses
      /\ pages' = [b \in Browsers |-> [pages[b] EXCEPT !.steady = FALSE]]
      /\ saves' = [p \in Papers |-> Over(saves[p])]
  BY DEF Restart, SynopsesInv
<1>2. saves' = [q \in Papers |-> IF q \in Papers THEN Over(saves[q]) ELSE saves[q]]
  BY <1>1
<1>3. /\ saves' \in [Papers -> SaveShapes]
      /\ SameStored
      /\ RowsHold' /\ KeptForUser'
  BY <1>1, <1>2, GivenUp
<1>4. /\ pages' \in [Browsers -> PageShapes]
      /\ \A b \in Browsers : pages'[b].result = pages[b].result /\ ~pages'[b].steady
  BY <1>1 DEF Shapes, PageShapes
<1>5. Shapes'
  BY <1>3, <1>4 DEF Shapes
<1>6. PagesHold'
  BY <1>3, <1>4, PagesCarry DEF SynopsesInv
<1>7. \A p \in Papers : saves'[p].stage # "sent"
  BY <1>1, OverShape
<1>8. NamesHold'
  BY <1>4, <1>7 DEF NamesHold
<1> QED
  BY <1>3, <1>5, <1>6, <1>8 DEF SynopsesInv

-----------------------------------------------------------------------------
LEMMA AxumInitInv == ASSUME AccountsAssumption, AxumInit PROVE AxumInv
<1>1. IInv
  BY InitInv DEF AxumInit
<1>2. Shapes
  BY DEF AxumInit, Shapes, SaveShapes, PageShapes, ResultShapes, NoPage
<1>3. RowsHold
  BY DEF AxumInit, RowsHold, Stored, Unused
<1>4. PagesHold /\ NamesHold
  BY DEF AxumInit, PagesHold, NamesHold, NoPage, Unused
<1>5. KeptForUser
  BY DEF AxumInit, KeptForUser, Unused
<1> QED
  BY <1>1, <1>2, <1>3, <1>4, <1>5 DEF AxumInv, SynopsesInv

LEMMA AxumStepInv ==
  ASSUME AccountsAssumption, AxumAssumption, AxumInv, [AxumNext]_axumVars
  PROVE  AxumInv'
<1>1. IInv /\ TypeOK /\ SynopsesInv
  BY DEF AxumInv, IInv
<1>2. CASE LoginUnderWay
  <2>1. IInv' /\ users \subseteq users' /\ session' = session
    BY <1>1, <1>2, LoginUnderWayInv
  <2> QED
    BY <1>1, <1>2, <2>1, QuietInv DEF AxumInv, LoginUnderWay
<1>3. ASSUME NEW r \in Requests, AxumLoggedIn(r)
      PROVE  AxumInv'
  <2>1. IInv'
    BY <1>1, <1>3, LoggedInInv DEF AxumLoggedIn
  <2>2. \A b \in Browsers : b \notin {requests[r].browser} => session'[b] = session[b]
    BY <1>1, <1>3 DEF AxumLoggedIn, LoggedIn, TypeOK
  <2>3. Disturbed({requests[r].browser}) /\ synopses' = synopses /\ users' = users
    BY <1>3 DEF AxumLoggedIn, LoggedIn
  <2> QED
    BY <1>1, <2>1, <2>2, <2>3, DisturbedInv DEF AxumInv
<1>4. ASSUME NEW r \in Requests, AxumNavToLogin(r)
      PROVE  AxumInv'
  <2>1. IInv'
    BY <1>1, <1>4, AxumNavToLoginInv
  <2> QED
    BY <1>1, <1>4, <2>1, QuietInv DEF AxumInv, AxumNavToLogin
<1>5. ASSUME NEW b \in Browsers, AxumLogout(b)
      PROVE  AxumInv'
  <2>1. IInv'
    BY <1>1, <1>5, LogoutInv DEF AxumLogout
  <2>2. \A c \in Browsers : c \notin {b} => session'[c] = session[c]
    BY <1>1, <1>5 DEF AxumLogout, Logout, TypeOK
  <2>3. Disturbed({b}) /\ synopses' = synopses /\ users' = users
    BY <1>5 DEF AxumLogout, Logout
  <2> QED
    BY <1>1, <2>1, <2>2, <2>3, DisturbedInv DEF AxumInv
<1>6. ASSUME NEW b \in Browsers, NEW iss \in Issuers, AxumStartLogin(b, iss)
      PROVE  AxumInv'
  <2>1. IInv'
    BY <1>1, <1>6, AxumStartLoginInv
  <2>2. \A c \in Browsers : c \notin {b} => session'[c] = session[c]
    BY <1>1, <1>6 DEF AxumStartLogin, TypeOK
  <2>3. Disturbed({b}) /\ synopses' = synopses /\ users' = users
    BY <1>6 DEF AxumStartLogin
  <2> QED
    BY <1>1, <2>1, <2>2, <2>3, DisturbedInv DEF AxumInv
<1>7. ASSUME UNCHANGED vars
      PROVE  IInv'
  BY <1>1, <1>7 DEF vars, IInv, TypeOK, Unique, LoggedInAsSelf, Granted
<1>8. ASSUME NEW b \in Browsers, GreekSynopsis(b)
      PROVE  AxumInv'
  <2>1. UNCHANGED vars
    BY <1>8 DEF GreekSynopsis
  <2> QED
    BY <1>1, <1>7, <1>8, <2>1, GreekSynopsisInv DEF AxumInv
<1>9. ASSUME NEW b \in Browsers, NEW p \in Papers, Submit(b, p)
      PROVE  AxumInv'
  <2>1. UNCHANGED vars
    BY <1>9 DEF Submit
  <2> QED
    BY <1>1, <1>7, <1>9, <2>1, SubmitInv DEF AxumInv
<1>10. ASSUME NEW p \in Papers, SaveSynopsis(p)
       PROVE  AxumInv'
  <2>1. UNCHANGED vars
    BY <1>10 DEF SaveSynopsis
  <2> QED
    BY <1>1, <1>7, <1>10, <2>1, SaveSynopsisInv DEF AxumInv
<1>11. ASSUME NEW p \in Papers, ShowResult(p)
       PROVE  AxumInv'
  <2>1. UNCHANGED vars
    BY <1>11 DEF ShowResult
  <2> QED
    BY <1>1, <1>7, <1>11, <2>1, ShowResultInv DEF AxumInv
<1>12. ASSUME NEW p \in Papers, LoseSave(p)
       PROVE  AxumInv'
  <2>1. UNCHANGED vars
    BY <1>12 DEF LoseSave
  <2> QED
    BY <1>1, <1>7, <1>12, <2>1, LoseSaveInv DEF AxumInv
<1>13. CASE Restart
  BY <1>1, <1>13, RestartInv, RestartSynopses DEF AxumInv
<1>14. CASE UNCHANGED axumVars
  <2>1. UNCHANGED vars /\ UNCHANGED synopsisVars
    BY <1>14 DEF axumVars
  <2>2. UNCHANGED <<session, synopsisVars>> /\ users' = users
    BY <2>1 DEF vars
  <2> QED
    BY <1>1, <1>7, <2>1, <2>2, QuietInv DEF AxumInv
<1> QED
  BY <1>2, <1>3, <1>4, <1>5, <1>6, <1>8, <1>9, <1>10, <1>11, <1>12, <1>13, <1>14 DEF AxumNext

(***************************************************************************)
(* The invariant holds in every state.                                     *)
(***************************************************************************)
THEOREM AxumInvariant == AxumSpec => []AxumInv
<1> USE AccountsAssumption, AxumAssumption
<1>1. AxumInit => AxumInv
  BY AxumInitInv
<1>2. AxumInv /\ [AxumNext]_axumVars => AxumInv'
  BY AxumStepInv
<1> QED
  BY <1>1, <1>2, PTL DEF AxumSpec

(***************************************************************************)
(* Rows, pages and submissions keep their types; every row fills exactly   *)
(* the columns of the table.                                               *)
(***************************************************************************)
THEOREM AxumTypeCorrect == AxumSpec => []AxumTypeOK
<1> USE AxumAssumption
<1>1. AxumInv => AxumTypeOK
  <2> SUFFICES ASSUME AxumInv
               PROVE  AxumTypeOK
    OBVIOUS
  <2>1. TypeOK /\ Shapes /\ RowsHold
    BY DEF AxumInv, IInv, SynopsesInv
  <2>2. ASSUME NEW row \in synopses
        PROVE  row.id \in Papers /\ row.user_id \in UserIds \cup {NULL} /\ Len(row.cells) = Columns
    <3>1. PICK p \in Papers, user_id \in UserIds \cup {NULL} : Stored(p) /\ row = RowFor(p, user_id)
      BY <2>1 DEF RowsHold
    <3>2. saves[p].payload \in Sendable
      BY <2>1, <3>1, SaveParts DEF Stored
    <3>3. Len(SynopsisRow(p, user_id, Graded(saves[p].payload)).cells) = Columns
      BY <3>2, RowShows
    <3>4. row.id = p /\ row.user_id = user_id
      BY <3>1 DEF RowFor, SynopsisRow
    <3>5. Len(row.cells) = Columns
      BY <3>1, <3>3 DEF RowFor
    <3> QED
      BY <3>4, <3>5
  <2>3. ASSUME NEW b \in Browsers
        PROVE  pages[b].result.id \in Papers \cup {NULL}
    <3>1. pages[b].result \in ResultShapes
      BY <2>1, PageParts
    <3> QED
      BY <3>1 DEF ResultShapes, Results, NoResult
  <2> QED
    BY <2>1, <2>2, <2>3, PageParts, SaveParts DEF AxumTypeOK
<1> QED
  BY <1>1, AxumInvariant, PTL

(***************************************************************************)
(* In hc-axum too a session names an account that what its holder showed   *)
(* belongs to, although failed logins leave the session as it was.         *)
(***************************************************************************)
THEOREM AxumThemselves == AxumSpec => []LoggedInAsSelf
<1>1. AxumInv => LoggedInAsSelf
  BY DEF AxumInv, IInv
<1> QED
  BY <1>1, AxumInvariant, PTL

(***************************************************************************)
(* Whatever verb but oida, and whatever is written: save_synopsis does not *)
(* index beyond the answers or the forms, because makeTable and get_forms  *)
(* enumerate the same 63 places.                                           *)
(***************************************************************************)
THEOREM SubmissionsGoThrough == AxumSpec => []SavesGoThrough
<1>1. AxumInv => SavesGoThrough
  BY SaveParts DEF AxumInv, SynopsesInv, SavesGoThrough
<1> QED
  BY <1>1, AxumInvariant, PTL

(***************************************************************************)
(* What a page shows as a result is what was submitted, graded under the   *)
(* labels of the page, and what greek_synopsis will show under the link -  *)
(* in the same words, if there were no apostrophes in them, and with the   *)
(* same gradings, if none was without its fellow.                          *)
(***************************************************************************)
THEOREM ResultsStay == AxumSpec => []ResultsHold
<1> USE AxumAssumption
<1>1. AxumInv => ResultsHold
  <2> SUFFICES ASSUME AxumInv, NEW b \in Browsers, pages[b].result # NoResult,
                      NEW payload, NEW res,
                      payload = saves[pages[b].result.id].payload, res = pages[b].result.res
               PROVE  /\ Paired(payload) => GradedByCell(payload, res)
                      /\ \E row \in synopses :
                           /\ row.id = pages[b].result.id
                           /\ Paired(payload) => GradedByCell(payload, GetSynopsisResult(row))
                           /\ Unmarked(payload) => GetSynopsisResult(row) = res
    BY DEF ResultsHold
  <2>1. Shapes /\ RowsHold /\ PagesHold
    BY DEF AxumInv, SynopsesInv
  <2>2. PICK p \in Papers : Stored(p) /\ pages[b].result \in Results(p, saves[p].payload)
    BY <2>1 DEF PagesHold
  <2>3. pages[b].result.id = p /\ payload = saves[p].payload
    BY <2>2 DEF Results
  <2>4. res \in {Graded(payload), LookedUp(payload)}
    BY <2>2, <2>3 DEF Results
  <2>5. payload \in Sendable
    BY <2>1, <2>2, <2>3, SaveParts DEF Stored
  <2>6. /\ GradedByCell(payload, Graded(payload))
        /\ Paired(payload) => GradedByCell(payload, LookedUp(payload))
        /\ Unmarked(payload) => LookedUp(payload) = Graded(payload)
    BY <2>5, RowShows
  <2>7. PICK user_id \in UserIds \cup {NULL} : RowFor(p, user_id) \in synopses
    BY <2>1, <2>2 DEF RowsHold
  <2>8. PICK row \in synopses : row = RowFor(p, user_id)
    BY <2>7
  <2>9. row.id = p /\ GetSynopsisResult(row) = LookedUp(payload)
    BY <2>3, <2>8, AnyRow DEF RowFor, SynopsisRow
  <2>10. Unmarked(payload) => GetSynopsisResult(row) = res
    BY <2>4, <2>6, <2>9
  <2>11. Paired(payload) => GradedByCell(payload, GetSynopsisResult(row)) /\ GradedByCell(payload, res)
    BY <2>4, <2>6, <2>9
  <2> QED
    BY <2>3, <2>9, <2>10, <2>11
<1> QED
  BY <1>1, AxumInvariant, PTL

(***************************************************************************)
(* What is saved while the login stands is in the list of the user whose   *)
(* name the page shows.                                                    *)
(***************************************************************************)
THEOREM ListsComplete == AxumSpec => []KeptForUser
<1>1. AxumInv => KeptForUser
  BY DEF AxumInv, SynopsesInv
<1> QED
  BY <1>1, AxumInvariant, PTL

-----------------------------------------------------------------------------
(* The calendar: reading the document.                                     *)

CalEvent ==
  [tag : {"sgi", "holiday"}, date : Nat] \cup [tag : {"day"}, n : Nat]
    \cup [tag : {"class", "section"}, name : Nat]

Sgi(d) == [tag |-> "sgi", date |-> d]
Holiday(d) == [tag |-> "holiday", date |-> d]
Day(n) == [tag |-> "day", n |-> n]
Class(n) == [tag |-> "class", name |-> n]
Section(n) == [tag |-> "section", name |-> n]

LEMMA EventTypes ==
  /\ \A d \in Nat : Sgi(d) \in CalEvent /\ Holiday(d) \in CalEvent
  /\ \A n \in Nat : Day(n) \in CalEvent /\ Class(n) \in CalEvent /\ Section(n) \in CalEvent
BY DEF CalEvent, Sgi, Holiday, Day, Class, Section

(***************************************************************************)
(* The events of a document: where the course begins, its h holidays in    *)
(* some order, and three events for every day of classes.                  *)
(***************************************************************************)
Reads(doc, c, h) ==
  /\ h \in Nat
  /\ Len(doc) = 1 + h + 3 * c.length
  /\ doc[1] = Sgi(c.day1)
  /\ \A i \in 2 .. h + 1 : \E d \in c.holidays : doc[i] = Holiday(d)
  /\ \A d \in c.holidays : \E i \in 2 .. h + 1 : doc[i] = Holiday(d)
  /\ \A n \in 1 .. c.length, i \in 1 .. 1 + h + 3 * c.length :
       /\ i = h + 3 * n - 1 => doc[i] = Day(n)
       /\ i = h + 3 * n     => doc[i] = Class(n)
       /\ i = h + 3 * n + 1 => doc[i] = Section(n)

\* A finite set is listed whole.
LEMMA SetInSequence ==
  ASSUME NEW S, IsFiniteSet(S)
  PROVE  /\ SetToSeq(S) \in [1 .. Cardinality(S) -> S]
         /\ \A x \in S : \E i \in 1 .. Cardinality(S) : SetToSeq(S)[i] = x
<1> DEFINE n == Cardinality(S)
           f == SetToSeq(S)
<1>1. n \in Nat
  BY FS_CardinalityType
<1>2. PICK g \in [1 .. n -> S] : IsInjective(g)
  <2>1. PICK m \in Nat : ExistsBijection(1 .. m, S)
    BY FS_NatBijection
  <2>2. m = n
    BY <2>1, FS_CountingElements
  <2> QED
    BY <2>1, <2>2 DEF ExistsBijection, Bijection, Injection, IsInjective
<1>3. f \in [1 .. n -> S] /\ IsInjective(f)
  BY <1>2 DEF SetToSeq
<1> HIDE DEF f
<1>4. f \in Injection(1 .. n, S)
  BY <1>3 DEF Injection
<1>5. IsFiniteSet(1 .. n) /\ Cardinality(1 .. n) = n
  BY <1>1, FS_Interval
<1>6. f \in Surjection(1 .. n, S)
  BY <1>4, <1>5, FS_Injection
<1>7. \A x \in S : \E i \in 1 .. n : f[i] = x
  BY <1>6 DEF Surjection
<1> QED
  BY <1>3, <1>7 DEF f

\* The holidays of a document.
LEMMA Holidays ==
  ASSUME NEW c \in Courses
  PROVE  \E s \in Seq(CalEvent) :
           /\ SetToSeq({Holiday(d) : d \in c.holidays}) = s
           /\ \A i \in 1 .. Len(s) : \E d \in c.holidays : s[i] = Holiday(d)
           /\ \A d \in c.holidays : \E i \in 1 .. Len(s) : s[i] = Holiday(d)
<1> USE CoursesAssumption
<1> DEFINE S == {Holiday(d) : d \in c.holidays}
<1>1. IsFiniteSet(S) /\ S \subseteq CalEvent
  <2> DEFINE f == [d \in c.holidays |-> Holiday(d)]
  <2>1. f \in Surjection(c.holidays, S)
    BY DEF Surjection
  <2>2. IsFiniteSet(S)
    BY <2>1, FS_Surjection
  <2> QED
    BY <2>2, EventTypes
<1> DEFINE s == SetToSeq(S)
           n == Cardinality(S)
<1>2. s \in [1 .. n -> S] /\ \A x \in S : \E i \in 1 .. n : s[i] = x
  BY <1>1, SetInSequence
<1>3. n \in Nat
  BY <1>1, FS_CardinalityType
<1> HIDE DEF s, n
<1>4. s \in Seq(CalEvent) /\ Len(s) = n
  BY <1>1, <1>2, <1>3
<1>5. \A i \in 1 .. n : \E d \in c.holidays : s[i] = Holiday(d)
  BY <1>2
<1>6. \A d \in c.holidays : \E i \in 1 .. n : s[i] = Holiday(d)
  BY <1>2
<1> QED
  BY <1>4, <1>5, <1>6 DEF s

\* Its days of classes.
LEMMA DaysInThrees ==
  ASSUME NEW k \in Nat
  PROVE  \E t \in Seq(CalEvent) :
           /\ FlattenSeq([n \in 1 .. k |->
                <<Day(n), Class(n),
                  Section(n)>>]) = t
           /\ Len(t) = 3 * k
           /\ \A n \in 1 .. k, i \in 1 .. 3 * k :
                /\ i = 3 * n - 2 => t[i] = Day(n)
                /\ i = 3 * n - 1 => t[i] = Class(n)
                /\ i = 3 * n     => t[i] = Section(n)
<1> DEFINE s == [n \in 1 .. k |->
                  <<Day(n), Class(n),
                    Section(n)>>]
<1>1. CASE k = 0
  <2>1. s = <<>> /\ Len(<<>>) = 0
    BY <1>1
  <2>2. FlattenSeq(s) = <<>>
    BY <2>1 DEF FlattenSeq
  <2>3. <<>> \in Seq(CalEvent) /\ Len(<<>>) = 3 * k
    BY <1>1
  <2>4. \A n \in 1 .. k : FALSE
    BY <1>1
  <2> HIDE DEF s
  <2>5. FlattenSeq(s) \in Seq(CalEvent) /\ Len(FlattenSeq(s)) = 3 * k
    BY <2>2, <2>3
  <2> QED
    BY <2>4, <2>5 DEF s
<1>2. CASE k > 0
  <2>1. \A n \in 1 .. k : s[n] \in Seq(CalEvent) /\ Len(s[n]) = 3
    BY EventTypes
  <2>2. s \in [1 .. k -> Seq(CalEvent)]
    BY <2>1
  <2>3. \A n \in 1 .. k :
          /\ s[n][1] = Day(n)
          /\ s[n][2] = Class(n)
          /\ s[n][3] = Section(n)
    OBVIOUS
  <2> HIDE DEF s
  <2>4. FlattenSeq(s) \in Seq(CalEvent) /\ InThrees(FlattenSeq(s), s, k)
    BY <1>2, <2>1, <2>2, FlattenTriples
  <2>5. PICK t \in Seq(CalEvent) : t = FlattenSeq(s)
    BY <2>4
  <2>6. /\ Len(t) = 3 * k
        /\ \A n \in 1 .. k, i \in 1 .. 3 * k :
             /\ i = 3 * n - 2 => t[i] = Day(n)
             /\ i = 3 * n - 1 => t[i] = Class(n)
             /\ i = 3 * n     => t[i] = Section(n)
    BY <2>3, <2>4, <2>5 DEF InThrees
  <2> QED
    BY <2>5, <2>6 DEF s
<1>3. k = 0 \/ k > 0
  OBVIOUS
<1> QED
  BY <1>1, <1>2, <1>3, Zenon

\* A document is read as Reads says.
LEMMA DocumentRead ==
  ASSUME NEW c \in Courses
  PROVE  \E h : Reads(Document(c), c, h)
<1>1. PICK s \in Seq(CalEvent) :
        /\ SetToSeq({Holiday(d) : d \in c.holidays}) = s
        /\ \A i \in 1 .. Len(s) : \E d \in c.holidays : s[i] = Holiday(d)
        /\ \A d \in c.holidays : \E i \in 1 .. Len(s) : s[i] = Holiday(d)
  BY Holidays
<1>2. PICK k \in Nat : k = c.length
  BY CoursesAssumption
<1>3. PICK t \in Seq(CalEvent) :
           /\ FlattenSeq([n \in 1 .. k |->
                <<Day(n), Class(n),
                  Section(n)>>]) = t
           /\ Len(t) = 3 * k
           /\ \A n \in 1 .. k, i \in 1 .. 3 * k :
                /\ i = 3 * n - 2 => t[i] = Day(n)
                /\ i = 3 * n - 1 => t[i] = Class(n)
                /\ i = 3 * n     => t[i] = Section(n)
  BY DaysInThrees
<1>4. PICK o \in Seq(CalEvent) :
        o = <<Sgi(c.day1)>> /\ Len(o) = 1 /\ o[1] = Sgi(c.day1)
  <2>1. Sgi(c.day1) \in CalEvent
    BY CoursesAssumption, EventTypes
  <2>2. PICK e \in CalEvent : e = Sgi(c.day1)
    BY <2>1
  <2>3. <<e>> \in Seq(CalEvent) /\ Len(<<e>>) = 1 /\ <<e>>[1] = e
    OBVIOUS
  <2> QED
    BY <2>2, <2>3, Zenon
<1>5. PICK h \in Nat : h = Len(s)
  OBVIOUS
<1>6. PICK p \in Seq(CalEvent), doc \in Seq(CalEvent) : p = o \o s /\ doc = p \o t
  BY ConcatProperties
<1>7. Document(c) = doc
  BY <1>1, <1>2, <1>3, <1>4, <1>6, Zenon DEF Document, Sgi, Holiday, Day, Class, Section
<1>8. /\ Len(doc) = 1 + h + 3 * k
      /\ \A i \in 1 .. 1 + h + 3 * k :
           doc[i] = IF i <= 1 THEN o[i] ELSE IF i <= 1 + h THEN s[i - 1] ELSE t[i - (1 + h)]
  <2>1. Len(p) = 1 + h /\ \A i \in 1 .. 1 + h : p[i] = IF i <= 1 THEN o[i] ELSE s[i - 1]
    <3>1. /\ Len(o \o s) = Len(o) + Len(s)
          /\ \A i \in 1 .. Len(o) + Len(s) :
               (o \o s)[i] = IF i <= Len(o) THEN o[i] ELSE s[i - Len(o)]
      BY ConcatProperties
    <3> QED
      BY <1>4, <1>5, <1>6, <3>1, Zenon
  <2>2. /\ Len(doc) = (1 + h) + 3 * k
        /\ \A i \in 1 .. (1 + h) + 3 * k : doc[i] = IF i <= 1 + h THEN p[i] ELSE t[i - (1 + h)]
    <3>1. /\ Len(p \o t) = Len(p) + Len(t)
          /\ \A i \in 1 .. Len(p) + Len(t) :
               (p \o t)[i] = IF i <= Len(p) THEN p[i] ELSE t[i - Len(p)]
      BY ConcatProperties
    <3> QED
      BY <1>3, <1>6, <2>1, <3>1, Zenon
  <2>3. ASSUME NEW i \in 1 .. 1 + h + 3 * k
        PROVE  doc[i] = IF i <= 1 THEN o[i] ELSE IF i <= 1 + h THEN s[i - 1] ELSE t[i - (1 + h)]
    <3>1. i <= 1 => i <= 1 + h
      OBVIOUS
    <3>2. i <= 1 + h => i \in 1 .. 1 + h
      OBVIOUS
    <3> QED
      BY <2>1, <2>2, <3>1, <3>2
  <2> QED
    BY <2>2, <2>3
<1>9. \A i \in 2 .. h + 1 : doc[i] = s[i - 1] /\ i - 1 \in 1 .. h
  BY <1>8
<1>10. \A i \in 1 .. h : doc[i + 1] = s[i] /\ i + 1 \in 2 .. h + 1
  BY <1>8
<1>11. \A n \in 1 .. k, i \in 1 .. 1 + h + 3 * k :
       /\ i = h + 3 * n - 1 => doc[i] = Day(n)
       /\ i = h + 3 * n     => doc[i] = Class(n)
       /\ i = h + 3 * n + 1 => doc[i] = Section(n)
  <2> SUFFICES ASSUME NEW n \in 1 .. k, NEW i \in 1 .. 1 + h + 3 * k
               PROVE  /\ i = h + 3 * n - 1 => doc[i] = Day(n)
                      /\ i = h + 3 * n     => doc[i] = Class(n)
                      /\ i = h + 3 * n + 1 => doc[i] = Section(n)
    OBVIOUS
  <2> SUFFICES ASSUME i \in h + 3 * n - 1 .. h + 3 * n + 1
               PROVE  /\ i = h + 3 * n - 1 => doc[i] = Day(n)
                      /\ i = h + 3 * n     => doc[i] = Class(n)
                      /\ i = h + 3 * n + 1 => doc[i] = Section(n)
    OBVIOUS
  <2>1. PICK j \in 1 .. 3 * k : j = i - (1 + h)
    OBVIOUS
  <2>2. doc[i] = t[j]
    BY <1>8, <2>1
  <2>3. /\ j = 3 * n - 2 => t[j] = Day(n)
        /\ j = 3 * n - 1 => t[j] = Class(n)
        /\ j = 3 * n     => t[j] = Section(n)
    BY <1>3
  <2>4. /\ i = h + 3 * n - 1 => j = 3 * n - 2
        /\ i = h + 3 * n     => j = 3 * n - 1
        /\ i = h + 3 * n + 1 => j = 3 * n
    <3>1. n \in Nat
      OBVIOUS
    <3> QED
      BY <2>1, <3>1
  <2> QED
    BY <2>2, <2>3, <2>4
<1>12. doc[1] = Sgi(c.day1)
  <2>1. 1 \in 1 .. 1 + h + 3 * k /\ 1 <= 1
    OBVIOUS
  <2>2. doc[1] = o[1]
    BY <1>8, <2>1, Zenon
  <2> QED
    BY <1>4, <2>2
<1>13. \A i \in 2 .. h + 1 : \E d \in c.holidays : doc[i] = Holiday(d)
  <2> SUFFICES ASSUME NEW i \in 2 .. h + 1
               PROVE  \E d \in c.holidays : doc[i] = Holiday(d)
    OBVIOUS
  <2>1. doc[i] = s[i - 1] /\ i - 1 \in 1 .. h
    BY <1>9
  <2> QED
    BY <1>1, <1>5, <2>1
<1>14. \A d \in c.holidays : \E i \in 2 .. h + 1 : doc[i] = Holiday(d)
  <2> SUFFICES ASSUME NEW d \in c.holidays
               PROVE  \E i \in 2 .. h + 1 : doc[i] = Holiday(d)
    OBVIOUS
  <2>1. PICK i \in 1 .. h : s[i] = Holiday(d)
    BY <1>1, <1>5
  <2>2. doc[i + 1] = s[i] /\ i + 1 \in 2 .. h + 1
    BY <1>10
  <2> QED
    BY <2>1, <2>2
<1>15. Reads(doc, c, h)
  BY <1>2, <1>8, <1>11, <1>12, <1>13, <1>14 DEF Reads
<1> QED
  BY <1>7, <1>15

(***************************************************************************)
(* The course as it is after each event of a document.                     *)
(***************************************************************************)
Builds(f, doc, n) ==
  f = [k \in 0 .. n |-> IF k = 0 THEN LgiCourse ELSE Event(f[k-1], doc[k])]

\* There is such a course after each event.
LEMMA BuildExists ==
  ASSUME NEW doc
  PROVE  \A n \in Nat : \E f : Builds(f, doc, n)
<1> DEFINE T == {n \in Nat : \E f : Builds(f, doc, n)}
<1>1. 0 \in T
  <2> DEFINE f == [k \in 0 .. 0 |-> LgiCourse]
  <2>1. f = [k \in 0 .. 0 |-> IF k = 0 THEN LgiCourse ELSE Event(f[k-1], doc[k])]
    BY \A k \in 0 .. 0 : k = 0
  <2>2. Builds(f, doc, 0)
    BY <2>1, Zenon DEF Builds
  <2> QED
    BY <2>2
<1>2. ASSUME NEW n \in Nat, n \in T
      PROVE  n + 1 \in T
  <2>1. PICK f : Builds(f, doc, n)
    BY <1>2
  <2>2. PICK last : last = Event(f[n], doc[n + 1])
    OBVIOUS
  <2> DEFINE g == [k \in 0 .. n + 1 |-> IF k = n + 1 THEN last ELSE f[k]]
  <2>3. ASSUME NEW k \in 0 .. n + 1
        PROVE  g[k] = IF k = 0 THEN LgiCourse ELSE Event(g[k-1], doc[k])
    <3>1. CASE k = n + 1
      <4>1. k # 0 /\ k - 1 = n /\ g[k] = last /\ g[n] = f[n]
        BY <3>1
      <4> HIDE DEF g
      <4> QED
        BY <2>2, <3>1, <4>1, Zenon
    <3>2. CASE k # n + 1
      <4>1. k \in 0 .. n
        BY <3>2
      <4>2. f[k] = IF k = 0 THEN LgiCourse ELSE Event(f[k-1], doc[k])
        BY <2>1, <4>1, Zenon DEF Builds
      <4>3. g[k] = f[k] /\ (k # 0 => g[k-1] = f[k-1])
        BY <4>1
      <4> HIDE DEF g
      <4> QED
        BY <4>2, <4>3, Zenon
    <3> QED
      BY <3>1, <3>2
  <2>4. g = [k \in 0 .. n + 1 |-> g[k]]
    OBVIOUS
  <2> HIDE DEF g
  <2>5. Builds(g, doc, n + 1)
    BY <2>3, <2>4, Zenon DEF Builds
  <2> QED
    BY <2>5
<1>3. \A n \in Nat : n \in T
  <2> HIDE DEF T
  <2> QED
    BY <1>1, <1>2, SetInduction
<1> QED
  BY <1>3

\* make_schedule returns the last one.
LEMMA Built ==
  ASSUME NEW c, Len(Document(c)) \in Nat
  PROVE  \E f : Builds(f, Document(c), Len(Document(c))) /\ MakeSchedule(c) = f[Len(Document(c))]
<1>1. PICK doc : doc = Document(c)
  OBVIOUS
<1> DEFINE n == Len(doc)
<1>n. n \in Nat
  BY <1>1
<1> DEFINE g == CHOOSE f : f = [k \in 0 .. Len(doc) |-> IF k = 0 THEN LgiCourse ELSE Event(f[k-1], doc[k])]
<1>2. PICK f : Builds(f, doc, n)
  BY <1>n, BuildExists
<1>3. Builds(g, doc, n)
  BY <1>1, <1>2, Zenon DEF Builds
<1>4. MakeSchedule(c) = g[Len(doc)]
  BY <1>1, Zenon DEF MakeSchedule
<1> QED
  BY <1>1, <1>3, <1>4, Zenon

\* The branch of make_schedule that an event takes.
LEMMA WhatEventsDo ==
  ASSUME NEW sgi
  PROVE  /\ \A d : Event(sgi, Sgi(d)) = [sgi EXCEPT !.day1 = d]
         /\ \A d : Event(sgi, Holiday(d)) = [sgi EXCEPT !.holidays = @ \cup {d}]
         /\ \A n : Event(sgi, Day(n)) = NewDay(sgi, n)
         /\ \A n : Event(sgi, Class(n)) = NewClass(sgi, n)
         /\ \A n : Event(sgi, Section(n)) = NewSection(sgi, n)
<1>1. \A d : Sgi(d).tag = "sgi" /\ Sgi(d).date = d /\ Holiday(d).tag = "holiday" /\ Holiday(d).date = d
  BY DEF Sgi, Holiday
<1>2. \A n : /\ Day(n).tag = "day" /\ Day(n).n = n
             /\ Class(n).tag = "class" /\ Class(n).name = n
             /\ Section(n).tag = "section" /\ Section(n).name = n
  BY DEF Day, Class, Section
<1>3. \A e : e.tag = "sgi" => Event(sgi, e) = [sgi EXCEPT !.day1 = e.date]
  BY DEF Event
<1>4. \A e : e.tag = "holiday" => Event(sgi, e) = [sgi EXCEPT !.holidays = @ \cup {e.date}]
  BY DEF Event
<1>5. \A e : e.tag = "day" => Event(sgi, e) = NewDay(sgi, e.n)
  BY DEF Event
<1>6. \A e : e.tag = "class" => Event(sgi, e) = NewClass(sgi, e.name)
  BY DEF Event
<1>7. \A e : e.tag = "section" => Event(sgi, e) = NewSection(sgi, e.name)
  BY DEF Event
<1>8. ASSUME NEW d
      PROVE  Event(sgi, Sgi(d)) = [sgi EXCEPT !.day1 = d]
  <2>1. PICK e : e = Sgi(d)
    OBVIOUS
  <2>2. e.tag = "sgi" /\ e.date = d
    BY <1>1, <2>1
  <2> QED
    BY <1>3, <2>1, <2>2, Zenon
<1>9. ASSUME NEW d
      PROVE  Event(sgi, Holiday(d)) = [sgi EXCEPT !.holidays = @ \cup {d}]
  <2>1. PICK e : e = Holiday(d)
    OBVIOUS
  <2>2. e.tag = "holiday" /\ e.date = d
    BY <1>1, <2>1
  <2> QED
    BY <1>4, <2>1, <2>2, Zenon
<1>10. ASSUME NEW n
       PROVE  /\ Event(sgi, Day(n)) = NewDay(sgi, n)
              /\ Event(sgi, Class(n)) = NewClass(sgi, n)
              /\ Event(sgi, Section(n)) = NewSection(sgi, n)
  <2>1. PICK e, g, i : e = Day(n) /\ g = Class(n) /\ i = Section(n)
    OBVIOUS
  <2>2. e.tag = "day" /\ e.n = n /\ g.tag = "class" /\ g.name = n /\ i.tag = "section" /\ i.name = n
    BY <1>2, <2>1
  <2>3. Event(sgi, e) = NewDay(sgi, n) /\ Event(sgi, g) = NewClass(sgi, n) /\ Event(sgi, i) = NewSection(sgi, n)
    BY <1>5, <1>6, <1>7, <2>2, Zenon
  <2> QED
    BY <2>1, <2>3, Zenon
<1> QED
  BY <1>8, <1>9, <1>10, Zenon

\* The course with these days, all holidays read.
AsRead(days) == [day1 |-> course.day1, days |-> days, holidays |-> course.holidays]

(***************************************************************************)
(* Before the first day of classes every holiday has been read.            *)
(***************************************************************************)
LEMMA HolidaysRead ==
  ASSUME course \in Courses, NEW doc, NEW h, Reads(doc, course, h), NEW f, Builds(f, doc, Len(doc))
  PROVE  f[h + 1] = AsRead(<<>>)
<1> DEFINE Read(j) == {d \in course.holidays : \E i \in 2 .. j + 1 : doc[i] = Holiday(d)}
           Header(j) == [day1 |-> course.day1, days |-> <<>>, holidays |-> Read(j)]
<1>1. /\ h \in Nat /\ course.length \in Nat /\ Len(doc) = 1 + h + 3 * course.length
      /\ doc[1] = Sgi(course.day1)
      /\ \A i \in 2 .. h + 1 : \E d \in course.holidays : doc[i] = Holiday(d)
      /\ \A d \in course.holidays : \E i \in 2 .. h + 1 : doc[i] = Holiday(d)
  BY CoursesAssumption DEF Reads
<1>2. \A k \in 0 .. Len(doc) : f[k] = IF k = 0 THEN LgiCourse ELSE Event(f[k-1], doc[k])
  BY Zenon DEF Builds
<1>3. f[1] = Header(0)
  <2>1. f[0] = LgiCourse /\ f[1] = Event(f[0], doc[1])
    <3>1. 0 \in 0 .. Len(doc) /\ 1 \in 0 .. Len(doc) /\ 1 - 1 = 0 /\ 1 # 0
      BY <1>1
    <3> QED
      BY <1>2, <3>1
  <2>2. f[1] = [LgiCourse EXCEPT !.day1 = course.day1]
    BY <1>1, <2>1, WhatEventsDo
  <2>3. Read(0) = {}
    OBVIOUS
  <2> QED
    BY <2>2, <2>3 DEF LgiCourse
<1> DEFINE T == {j \in Nat : j <= h => f[j + 1] = Header(j)}
<1>4. 0 \in T
  <2>1. 0 + 1 = 1
    OBVIOUS
  <2> HIDE DEF Header
  <2> QED
    BY <1>3, <2>1
<1>5. ASSUME NEW j \in Nat, j \in T
      PROVE  j + 1 \in T
  <2> SUFFICES ASSUME j + 1 <= h
               PROVE  f[(j + 1) + 1] = Header(j + 1)
    OBVIOUS
  <2>1. PICK k \in 2 .. h + 1 : k = j + 2 /\ k - 1 = j + 1 /\ k \in 0 .. Len(doc) /\ k # 0
    BY <1>1
  <2>2. f[k] = Event(f[j + 1], doc[k])
    BY <1>2, <2>1
  <2>3. PICK d \in course.holidays : doc[k] = Holiday(d)
    BY <1>1
  <2>4. f[j + 1] = Header(j)
    BY <1>1, <1>5
  <2>5. f[k] = [Header(j) EXCEPT !.holidays = @ \cup {d}]
    <3>1. PICK g : g = Header(j)
      OBVIOUS
    <3>2. f[k] = [g EXCEPT !.holidays = @ \cup {d}]
      <4>1. Event(g, Holiday(d)) = [g EXCEPT !.holidays = @ \cup {d}]
        BY WhatEventsDo
      <4> HIDE DEF Header
      <4> QED
        BY <2>2, <2>3, <2>4, <3>1, <4>1, Zenon
    <3> QED
      BY <3>1, <3>2
  <2>6. Read(j) \cup {d} = Read(j + 1)
    <3>1. \A i : i \in 2 .. (j + 1) + 1 <=> i \in 2 .. j + 1 \/ i = k
      BY <2>1
    <3>2. \A e, g : Holiday(e) = Holiday(g) => e = g
      BY DEF Holiday
    <3> QED
      BY <2>3, <3>1, <3>2
  <2>7. f[k] = Header(j + 1)
    BY <2>5, <2>6
  <2>8. k = (j + 1) + 1
    BY <2>1
  <2> QED
    BY <2>7, <2>8, Zenon
<1>6. \A j \in Nat : j \in T
  <2> HIDE DEF T
  <2> QED
    BY <1>4, <1>5, SetInduction
<1>7. f[h + 1] = Header(h)
  BY <1>1, <1>6
<1>8. Read(h) = course.holidays
  BY <1>1
<1> QED
  BY <1>7, <1>8 DEF AsRead

-----------------------------------------------------------------------------
(* The calendar: its rows.                                                 *)

DayTypes == {"Normal", "RestAndStudy", "SundayReview", "Holiday"}

DayRow == [day_type : DayTypes, day : Nat, day_num : Nat,
        classes : Seq([name : Nat, sections : Seq(Nat)])]

OneClass(m) == <<[name |-> m, sections |-> <<m>>]>>

ClassDay(date, m) == [day_type |-> "Normal", day |-> date, day_num |-> m, classes |-> OneClass(m)]

(***************************************************************************)
(* The rows after one more day of classes: the free days before it, and it.*)
(***************************************************************************)
Grown(rows, free, more, date, m) ==
  /\ Len(more) = Len(rows) + Len(free) + 1
  /\ \A i \in 1 .. Len(rows) + Len(free) + 1 :
       more[i] = IF i <= Len(rows) THEN rows[i]
                 ELSE IF i <= Len(rows) + Len(free) THEN free[i - Len(rows)]
                 ELSE ClassDay(date + Len(free), m)

LEMMA DayRowTypes ==
  \A date, n \in Nat :
    /\ \A type \in DayTypes : LgiDay(type, date, n) \in DayRow
    /\ ClassDay(date, n) \in DayRow
<1> SUFFICES ASSUME NEW date \in Nat, NEW n \in Nat
             PROVE  /\ \A type \in DayTypes : LgiDay(type, date, n) \in DayRow
                    /\ ClassDay(date, n) \in DayRow
  OBVIOUS
<1>1. \A type \in DayTypes : LgiDay(type, date, n) \in DayRow
  BY DEF LgiDay, DayRow
<1>2. OneClass(n) \in Seq([name : Nat, sections : Seq(Nat)])
  BY DEF OneClass
<1>3. PICK cs \in Seq([name : Nat, sections : Seq(Nat)]) : cs = OneClass(n)
  BY <1>2
<1>4. ClassDay(date, n) \in DayRow
  BY <1>3 DEF ClassDay, DayRow, DayTypes
<1> QED
  BY <1>1, <1>4

LEMMA FreeRows ==
  ASSUME NEW sgi, NEW date \in Nat
  PROVE  FreeDays(sgi, date) \in Seq(DayRow) /\ Len(FreeDays(sgi, date)) \in 0 .. 2
<1>1. \A type \in DayTypes, d \in Nat : LgiDay(type, d, 0) \in DayRow
  BY DayRowTypes
<1>2. PICK a \in DayRow, b \in DayRow, z \in DayRow :
        /\ a = LgiDay("Holiday", date, 0) /\ b = LgiDay("RestAndStudy", date, 0)
        /\ z = LgiDay("SundayReview", date + 1, 0)
  BY <1>1 DEF DayTypes
<1>3. /\ <<a>> \in Seq(DayRow) /\ Len(<<a>>) = 1
      /\ <<b, z>> \in Seq(DayRow) /\ Len(<<b, z>>) = 2
      /\ <<>> \in Seq(DayRow) /\ Len(<<>>) = 0
  OBVIOUS
<1>4. \/ FreeDays(sgi, date) = <<a>>
      \/ FreeDays(sgi, date) = <<b, z>>
      \/ FreeDays(sgi, date) = <<>>
  BY <1>2, Zenon DEF FreeDays
<1>5. PICK free : free = FreeDays(sgi, date)
  OBVIOUS
<1>6. free = <<a>> \/ free = <<b, z>> \/ free = <<>>
  BY <1>4, <1>5
<1>7. free \in Seq(DayRow) /\ Len(free) \in 0 .. 2
  <2>1. CASE free = <<a>>
    BY <1>3, <2>1
  <2>2. CASE free = <<b, z>>
    BY <1>3, <2>2
  <2>3. CASE free = <<>>
    BY <1>3, <2>3
  <2> QED
    BY <1>6, <2>1, <2>2, <2>3
<1> QED
  BY <1>5, <1>7

(***************************************************************************)
(* The three events of a day of classes.                                   *)
(***************************************************************************)
LEMMA DayRead ==
  ASSUME NEW rows \in Seq(DayRow), course \in Courses, NEW m \in Nat,
         NEW date \in Nat, date = course.day1 + Len(rows),
         NEW free, free = FreeDays(AsRead(rows), date)
  PROVE  \E more \in Seq(DayRow) :
           /\ NewSection(NewClass(NewDay(AsRead(rows), m), m), m) = AsRead(more)
           /\ Grown(rows, free, more, date, m)
<1>1. free \in Seq(DayRow) /\ Len(free) \in 0 .. 2
  BY FreeRows
<1>2. PICK l \in Nat : l = Len(rows) + Len(free) + 1
  BY <1>1
<1>3. PICK a \in DayRow : a = LgiDay("Normal", date + Len(free), m)
  <2>1. date + Len(free) \in Nat /\ "Normal" \in DayTypes
    BY <1>1 DEF DayTypes
  <2> QED
    BY <2>1, DayRowTypes
<1>4. PICK p \in Seq(DayRow), q \in Seq(DayRow) : p = rows \o free /\ q = p \o <<a>>
  <2>1. PICK p \in Seq(DayRow) : p = rows \o free
    BY <1>1, ConcatProperties
  <2>2. <<a>> \in Seq(DayRow)
    OBVIOUS
  <2>3. p \o <<a>> \in Seq(DayRow)
    BY <2>2, ConcatProperties
  <2> QED
    BY <2>1, <2>3
<1>5. /\ Len(q) = l
      /\ \A i \in 1 .. l : q[i] = IF i <= Len(rows) THEN rows[i]
                                  ELSE IF i <= Len(rows) + Len(free) THEN free[i - Len(rows)] ELSE a
  <2>1. /\ Len(p) = Len(rows) + Len(free)
        /\ \A i \in 1 .. Len(rows) + Len(free) :
             p[i] = IF i <= Len(rows) THEN rows[i] ELSE free[i - Len(rows)]
    <3>1. /\ Len(rows \o free) = Len(rows) + Len(free)
          /\ \A i \in 1 .. Len(rows) + Len(free) :
               (rows \o free)[i] = IF i <= Len(rows) THEN rows[i] ELSE free[i - Len(rows)]
      BY <1>1, ConcatProperties
    <3> QED
      BY <1>4, <3>1, Zenon
  <2>2. <<a>> \in Seq(DayRow) /\ Len(<<a>>) = 1 /\ <<a>>[1] = a
    OBVIOUS
  <2>3. /\ Len(q) = Len(p) + 1
        /\ \A i \in 1 .. Len(p) + 1 : q[i] = IF i <= Len(p) THEN p[i] ELSE <<a>>[i - Len(p)]
    <3>1. /\ Len(p \o <<a>>) = Len(p) + Len(<<a>>)
          /\ \A i \in 1 .. Len(p) + Len(<<a>>) :
               (p \o <<a>>)[i] = IF i <= Len(p) THEN p[i] ELSE <<a>>[i - Len(p)]
      BY <2>2, ConcatProperties
    <3> QED
      BY <1>4, <2>2, <3>1, Zenon
  <2>4. ASSUME NEW i \in 1 .. l
        PROVE  q[i] = IF i <= Len(rows) THEN rows[i]
                      ELSE IF i <= Len(rows) + Len(free) THEN free[i - Len(rows)] ELSE a
    <3>1. CASE i <= Len(p)
      <4>1. i \in 1 .. Len(rows) + Len(free)
        BY <1>1, <2>1, <3>1
      <4>2. i <= Len(rows) => i <= Len(rows) + Len(free)
        BY <1>1
      <4> QED
        BY <1>2, <2>1, <2>3, <3>1, <4>1, <4>2
    <3>2. CASE ~(i <= Len(p))
      <4>1. i - Len(p) = 1 /\ ~(i <= Len(rows)) /\ ~(i <= Len(rows) + Len(free))
        BY <1>1, <1>2, <2>1, <3>2
      <4> QED
        BY <1>2, <2>1, <2>2, <2>3, <3>2, <4>1
    <3> QED
      BY <3>1, <3>2
  <2> QED
    BY <1>2, <2>1, <2>3, <2>4
<1>6. NewDay(AsRead(rows), m) = AsRead(q)
  <2>1. AsRead(rows).day1 + Len(AsRead(rows).days) = date
    BY DEF AsRead
  <2>2. NewDay(AsRead(rows), m) = [AsRead(rows) EXCEPT !.days = @ \o free \o <<a>>]
    BY <1>3, <2>1, Zenon DEF NewDay
  <2>3. AsRead(rows).days = rows
    BY DEF AsRead
  <2>4. NewDay(AsRead(rows), m) = [AsRead(rows) EXCEPT !.days = q]
    BY <1>4, <2>2, <2>3
  <2> QED
    BY <2>4 DEF AsRead
<1>7. l \in 1 .. l /\ q[l] = a /\ l \in DOMAIN q
  <2>1. l \in 1 .. l /\ ~(l <= Len(rows)) /\ ~(l <= Len(rows) + Len(free))
    BY <1>1, <1>2
  <2>2. DOMAIN q = 1 .. l
    BY <1>5
  <2> QED
    BY <1>5, <2>1, <2>2
<1>8. PICK x : x = [name |-> m, sections |-> <<>>]
  OBVIOUS
<1>9. PICK r : r = [q EXCEPT ![l] = [a EXCEPT !.classes = <<x>>]]
  OBVIOUS
<1>10. NewClass(AsRead(q), m) = AsRead(r)
  <2>1. AsRead(q).days = q /\ Last(q) = a
    BY <1>5, <1>7 DEF AsRead, Last
  <2>2. a.classes = <<>> /\ Append(<<>>, x) = <<x>>
    BY <1>3 DEF LgiDay
  <2>3. NewClass(AsRead(q), m) = [AsRead(q) EXCEPT !.days[l].classes = <<x>>]
    BY <1>5, <1>8, <2>1, <2>2, Zenon DEF NewClass, OnLastDay
  <2>4. [AsRead(q) EXCEPT !.days[l].classes = <<x>>] = [AsRead(q) EXCEPT !.days = r]
    BY <1>7, <1>9, <2>1
  <2> QED
    BY <2>3, <2>4 DEF AsRead
<1>11. /\ Len(r) = l /\ l \in DOMAIN r
       /\ r[l] = [a EXCEPT !.classes = <<x>>]
       /\ \A i \in 1 .. l : i # l => r[i] = q[i]
  BY <1>5, <1>7, <1>9
<1>12. PICK t : t = [r EXCEPT ![l] = [r[l] EXCEPT !.classes = OneClass(m)]]
  OBVIOUS
<1>13. NewSection(AsRead(r), m) = AsRead(t)
  <2>1. AsRead(r).days = r /\ Last(r) = r[l]
    BY <1>11 DEF AsRead, Last
  <2>2. r[l].classes = <<x>> /\ Len(<<x>>) = 1
    BY <1>3, <1>11 DEF LgiDay
  <2>3. [<<x>> EXCEPT ![1].sections = Append(@, m)] = OneClass(m)
    BY <1>8 DEF OneClass
  <2>4. NewSection(AsRead(r), m) = [AsRead(r) EXCEPT !.days[l].classes = OneClass(m)]
    <3>1. PICK cs : cs = <<x>> /\ cs = Last(AsRead(r).days).classes /\ Len(cs) = 1
      BY <2>1, <2>2
    <3>2. [cs EXCEPT ![Len(cs)].sections = Append(@, m)] = OneClass(m)
      BY <2>3, <3>1
    <3>3. NewSection(AsRead(r), m) =
            [AsRead(r) EXCEPT !.days[Len(AsRead(r).days)].classes =
               [cs EXCEPT ![Len(cs)].sections = Append(@, m)]]
      BY <3>1, Zenon DEF NewSection, OnLastDay
    <3> QED
      BY <1>11, <2>1, <3>2, <3>3
  <2>5. [AsRead(r) EXCEPT !.days[l].classes = OneClass(m)] = [AsRead(r) EXCEPT !.days = t]
    BY <1>11, <1>12, <2>1
  <2> QED
    BY <2>4, <2>5 DEF AsRead
<1>14. /\ Len(t) = l
       /\ \A i \in 1 .. l : t[i] = IF i = l THEN [r[l] EXCEPT !.classes = OneClass(m)] ELSE q[i]
  BY <1>11, <1>12
<1>15. [r[l] EXCEPT !.classes = OneClass(m)] = ClassDay(date + Len(free), m)
  <2>1. r[l].day_type = "Normal"
    BY <1>3, <1>11 DEF LgiDay
  <2>2. PICK e : e = OneClass(m)
    OBVIOUS
  <2>3. PICK d \in Nat : d = date + Len(free)
    BY <1>1
  <2>4. a = [day_type |-> "Normal", day |-> d, day_num |-> m, classes |-> <<>>]
    BY <1>3, <2>3 DEF LgiDay
  <2>5. [r[l] EXCEPT !.classes = e] = [day_type |-> "Normal", day |-> d, day_num |-> m, classes |-> e]
    <3>1. r[l] = [day_type |-> "Normal", day |-> d, day_num |-> m, classes |-> <<x>>]
      BY <1>11, <2>4
    <3> QED
      BY <3>1
  <2> QED
    BY <2>2, <2>3, <2>5, Zenon DEF ClassDay
<1>16. ClassDay(date + Len(free), m) \in DayRow
  BY <1>1, DayRowTypes, date + Len(free) \in Nat
<1>17. t \in Seq(DayRow)
  <2>1. \A i \in 1 .. l : t[i] \in DayRow
    <3>1. \A i \in 1 .. l : q[i] \in DayRow
      BY <1>5
    <3> QED
      BY <1>14, <1>15, <1>16, <3>1
  <2>2. DOMAIN q = 1 .. l
    BY <1>5
  <2>3. t = [i \in 1 .. l |-> t[i]]
    BY <1>9, <1>12, <2>2
  <2>4. t \in [1 .. l -> DayRow]
    BY <2>1, <2>3
  <2> QED
    BY <2>4
<1>18. Grown(rows, free, t, date, m)
  <2>1. ASSUME NEW i \in 1 .. l
        PROVE  t[i] = IF i <= Len(rows) THEN rows[i]
                      ELSE IF i <= Len(rows) + Len(free) THEN free[i - Len(rows)]
                      ELSE ClassDay(date + Len(free), m)
    <3>1. i = l <=> ~(i <= Len(rows) + Len(free))
      BY <1>1, <1>2
    <3>2. i <= Len(rows) => i <= Len(rows) + Len(free)
      BY <1>1
    <3> QED
      BY <1>5, <1>14, <1>15, <3>1, <3>2
  <2> QED
    BY <1>2, <1>14, <2>1 DEF Grown
<1> QED
  BY <1>6, <1>10, <1>13, <1>17, <1>18

-----------------------------------------------------------------------------
(* The calendar: dates and working days.                                   *)

(***************************************************************************)
(* The working days among the first k dates of the course.                 *)
(***************************************************************************)
Through(k) == {d \in Nat : course.day1 <= d /\ d < course.day1 + k /\ Workday(d)}

\* A date adds itself to the working days, or nothing.
LEMMA OneMoreDate ==
  ASSUME course \in Courses, NEW k \in Nat, NEW date, date = course.day1 + k
  PROVE  /\ Cardinality(Through(k)) \in Nat
         /\ Cardinality(Through(k + 1)) = Cardinality(Through(k)) + (IF Workday(date) THEN 1 ELSE 0)
<1>1. course.day1 \in Nat /\ date \in Nat
  BY CoursesAssumption
<1>2. IsFiniteSet(Through(k))
  <2>1. Through(k) \subseteq course.day1 .. date
    BY <1>1 DEF Through
  <2>2. IsFiniteSet(course.day1 .. date)
    BY <1>1, FS_Interval
  <2> QED
    BY <2>1, <2>2, FS_Subset
<1>3. Cardinality(Through(k)) \in Nat
  BY <1>2, FS_CardinalityType
<1>4. \A d \in Nat : d < course.day1 + (k + 1) <=> d < course.day1 + k \/ d = date
  BY <1>1
<1>5. CASE Workday(date)
  <2>1. Through(k + 1) = Through(k) \cup {date}
    BY <1>1, <1>4, <1>5 DEF Through
  <2>2. date \notin Through(k)
    BY <1>1 DEF Through
  <2> QED
    BY <1>2, <1>3, <1>5, <2>1, <2>2, FS_AddElement
<1>6. CASE ~Workday(date)
  <2>1. Through(k + 1) = Through(k)
    BY <1>4, <1>6 DEF Through
  <2> QED
    BY <1>3, <1>6, <2>1
<1> QED
  BY <1>5, <1>6

(***************************************************************************)
(* Every date has its row.                                                 *)
(***************************************************************************)
Dated(rows) ==
  \A i \in 1 .. Len(rows) :
    /\ rows[i].day = course.day1 + i - 1
    /\ rows[i].classes = IF rows[i].day_num = 0 THEN <<>> ELSE OneClass(rows[i].day_num)

(***************************************************************************)
(* The working days are numbered from 1 to n, and the last row is one.     *)
(***************************************************************************)
Numbered(rows, n) ==
  /\ \A i \in 1 .. Len(rows) :
       rows[i].day_num = IF Workday(rows[i].day) THEN Cardinality(Through(i)) ELSE 0
  /\ Cardinality(Through(Len(rows))) = n
  /\ {rows[i].day_num : i \in 1 .. Len(rows)} \ {0} = 1 .. n
  /\ Len(rows) > 0 => Workday(rows[Len(rows)].day)

Table(rows, n) ==
  /\ rows \in Seq(DayRow)
  /\ Dated(rows)
  /\ Foreseen => Numbered(rows, n)

(***************************************************************************)
(* The free days put before a day of classes are the dates up to it.       *)
(***************************************************************************)
FreeFrom(free, date) ==
  \A i \in 1 .. Len(free) :
    free[i].day = date + i - 1 /\ free[i].day_num = 0 /\ free[i].classes = <<>>

LEMMA FreeDates ==
  ASSUME NEW sgi, NEW date \in Nat, NEW free, free = FreeDays(sgi, date)
  PROVE  /\ FreeFrom(free, date)
         /\ \/ date \in sgi.holidays /\ Len(free) = 1
            \/ date \notin sgi.holidays /\ Weekday(date) = Saturday /\ Len(free) = 2
            \/ date \notin sgi.holidays /\ Weekday(date) # Saturday /\ Len(free) = 0
<1>1. PICK a, b, z :
        /\ a = LgiDay("Holiday", date, 0) /\ b = LgiDay("RestAndStudy", date, 0)
        /\ z = LgiDay("SundayReview", date + 1, 0)
  OBVIOUS
<1>2. /\ a.day = date /\ a.day_num = 0 /\ a.classes = <<>>
      /\ b.day = date /\ b.day_num = 0 /\ b.classes = <<>>
      /\ z.day = date + 1 /\ z.day_num = 0 /\ z.classes = <<>>
  BY <1>1 DEF LgiDay
<1>3. free = IF date \in sgi.holidays THEN <<a>>
             ELSE IF Weekday(date) = Saturday THEN <<b, z>> ELSE <<>>
  BY <1>1, Zenon DEF FreeDays
<1>4. CASE date \in sgi.holidays
  <2>1. free = <<a>> /\ Len(free) = 1 /\ free[1] = a
    BY <1>3, <1>4
  <2>2. FreeFrom(free, date)
    BY <1>2, <2>1 DEF FreeFrom
  <2> QED
    BY <1>4, <2>1, <2>2
<1>5. CASE date \notin sgi.holidays /\ Weekday(date) = Saturday
  <2>1. free = <<b, z>> /\ Len(free) = 2 /\ free[1] = b /\ free[2] = z
    BY <1>3, <1>5
  <2>2. FreeFrom(free, date)
    BY <1>2, <2>1 DEF FreeFrom
  <2> QED
    BY <1>5, <2>1, <2>2
<1>6. CASE date \notin sgi.holidays /\ Weekday(date) # Saturday
  <2>1. free = <<>> /\ Len(free) = 0
    BY <1>3, <1>6
  <2>2. FreeFrom(free, date)
    BY <2>1 DEF FreeFrom
  <2> QED
    BY <1>6, <2>1, <2>2
<1> QED
  BY <1>4, <1>5, <1>6

\* The week goes round.
LEMMA DaysOfTheWeek ==
  ASSUME NEW d \in Nat
  PROVE  /\ Weekday(d) = Saturday => Weekday(d + 1) = Sunday /\ Weekday(d + 2) = Monday
         /\ Weekday(d + 1) = Saturday => Weekday(d) = Friday
         /\ Weekday(d + 1) = Sunday => Weekday(d) = Saturday
BY DEF Weekday, Monday, Friday, Saturday, Sunday

(***************************************************************************)
(* date + l is the first working day from date on.                         *)
(***************************************************************************)
NextWorkday(date, l) ==
  /\ Workday(date + l)
  /\ \A i \in 0 .. l - 1 : ~Workday(date + i)

(***************************************************************************)
(* If the holidays are foreseen and the last row is a working day, so is   *)
(* the day that comes after the free days, and they are none.              *)
(***************************************************************************)
LEMMA FreeDaysSuffice ==
  ASSUME course \in Courses, Foreseen, NEW rows, NEW date \in Nat,
         date = course.day1 \/ (date > 0 /\ Workday(date - 1)),
         NEW free, free = FreeDays(AsRead(rows), date), NEW l, l = Len(free)
  PROVE  NextWorkday(date, l)
<1> SUFFICES /\ Workday(date + l)
             /\ \A i \in 0 .. l - 1 : ~Workday(date + i)
  BY DEF NextWorkday
<1>1. /\ AsRead(rows).holidays = course.holidays
      /\ course.holidays \subseteq Nat
  BY CoursesAssumption DEF AsRead
<1>2. \/ date \in course.holidays /\ l = 1
      \/ date \notin course.holidays /\ Weekday(date) = Saturday /\ l = 2
      \/ date \notin course.holidays /\ Weekday(date) # Saturday /\ l = 0
  BY <1>1, FreeDates
<1>3. \A d \in course.holidays :
        /\ Weekday(d) \notin {Friday, Saturday, Monday}
        /\ d + 1 \notin course.holidays
  BY DEF Foreseen
<1>4. Weekday(date) # Sunday
  <2>1. CASE date = course.day1
    BY <2>1 DEF Foreseen
  <2>2. CASE date > 0 /\ Workday(date - 1)
    <3>1. PICK d \in Nat : d = date - 1 /\ d + 1 = date
      BY <2>2
    <3>2. Weekday(d) # Saturday
      BY <2>2, <3>1 DEF Workday
    <3> QED
      BY <3>1, <3>2, DaysOfTheWeek
  <2> QED
    BY <2>1, <2>2
<1>5. CASE date \in course.holidays /\ l = 1
  <2>1. ~Workday(date) /\ date + 1 \notin course.holidays
    BY <1>3, <1>5 DEF Workday
  <2>2. Weekday(date + 1) \notin {Saturday, Sunday}
    BY <1>3, <1>5, DaysOfTheWeek
  <2>3. Workday(date + 1)
    BY <2>1, <2>2 DEF Workday
  <2>4. \A i \in 0 .. l - 1 : date + i = date
    BY <1>5
  <2> QED
    BY <1>5, <2>1, <2>3, <2>4
<1>6. CASE Weekday(date) = Saturday /\ l = 2
  <2>1. Weekday(date + 1) = Sunday /\ Weekday(date + 2) = Monday
    BY <1>6, DaysOfTheWeek
  <2>2. ~Workday(date) /\ ~Workday(date + 1)
    BY <1>6, <2>1 DEF Workday
  <2>3. date + 2 \notin course.holidays
    BY <1>3, <2>1
  <2>4. Workday(date + 2)
    BY <2>1, <2>3 DEF Workday, Monday, Saturday, Sunday
  <2>5. \A i \in 0 .. l - 1 : date + i = date \/ date + i = date + 1
    BY <1>6
  <2> QED
    BY <1>6, <2>2, <2>4, <2>5
<1>7. CASE date \notin course.holidays /\ Weekday(date) # Saturday /\ l = 0
  <2>1. Workday(date) /\ date + 0 = date
    BY <1>4, <1>7 DEF Workday
  <2>2. \A i \in 0 .. l - 1 : FALSE
    BY <1>7
  <2> QED
    BY <1>7, <2>1, <2>2
<1> QED
  BY <1>2, <1>5, <1>6, <1>7

(***************************************************************************)
(* One more day of classes: the table keeps its dates and numbers.         *)
(***************************************************************************)
LEMMA GrownTable ==
  ASSUME course \in Courses, NEW rows \in Seq(DayRow), NEW n \in Nat, Table(rows, n),
         NEW date \in Nat, date = course.day1 + Len(rows),
         NEW free, free = FreeDays(AsRead(rows), date),
         NEW more \in Seq(DayRow), NEW m \in Nat, m = n + 1, Grown(rows, free, more, date, m)
  PROVE  Table(more, m)
<1> DEFINE k == Len(rows)
           l == Len(free)
<1>1. /\ k \in Nat /\ l \in Nat /\ course.day1 \in Nat /\ date = course.day1 + k
      /\ Len(more) = k + l + 1
  BY CoursesAssumption, FreeRows DEF Grown
<1>2. /\ \A i \in 1 .. k : more[i] = rows[i] /\ i \in 1 .. k + l + 1
      /\ \A i \in 1 .. l, j \in 1 .. k + l + 1 :
           j = k + i => more[j] = free[i]
      /\ more[k + l + 1] = ClassDay(date + l, m)
  <2>1. \A i \in 1 .. k + l + 1 :
          more[i] = IF i <= k THEN rows[i]
                    ELSE IF i <= k + l THEN free[i - k] ELSE ClassDay(date + l, m)
    BY Zenon DEF Grown
  <2> HIDE DEF k, l
  <2>2. ASSUME NEW i \in 1 .. l, NEW j \in 1 .. k + l + 1, j = k + i
        PROVE  more[j] = free[i]
    <3>1. ~(j <= k) /\ j <= k + l /\ j - k = i
      BY <1>1, <2>2
    <3> QED
      BY <2>1, <3>1
  <2>3. k + l + 1 \in 1 .. k + l + 1 /\ ~(k + l + 1 <= k) /\ ~(k + l + 1 <= k + l)
    BY <1>1
  <2>4. \A i \in 1 .. k : i \in 1 .. k + l + 1 /\ i <= k
    BY <1>1
  <2> QED
    BY <2>1, <2>2, <2>3, <2>4
<1>3. FreeFrom(free, date)
  BY FreeDates
<1>4. /\ more[k + l + 1].day = date + l /\ more[k + l + 1].day_num = m
      /\ more[k + l + 1].classes = OneClass(m)
  BY <1>2 DEF ClassDay
<1> HIDE DEF k, l
<1>5. ASSUME NEW j \in 1 .. k + l + 1
      PROVE  \/ j \in 1 .. k
             \/ \E i \in 1 .. l : j = k + i
             \/ j = k + l + 1
  <2>1. CASE j > k /\ j <= k + l
    <3>1. j - k \in 1 .. l /\ j = k + (j - k)
      BY <1>1, <2>1
    <3> QED
      BY <3>1
  <2> QED
    BY <1>1, <2>1
<1>6. Dated(more)
  <2> SUFFICES ASSUME NEW j \in 1 .. k + l + 1
               PROVE  /\ more[j].day = course.day1 + j - 1
                      /\ more[j].classes = IF more[j].day_num = 0 THEN <<>> ELSE OneClass(more[j].day_num)
    BY <1>1, Zenon DEF Dated
  <2>1. CASE j \in 1 .. k
    BY <1>2, <2>1 DEF Table, Dated, k
  <2>2. ASSUME NEW i \in 1 .. l, j = k + i
        PROVE  /\ more[j].day = course.day1 + j - 1
               /\ more[j].classes = <<>> /\ more[j].day_num = 0
    <3>1. more[j] = free[i]
      BY <1>2, <2>2
    <3>2. free[i].day = date + i - 1 /\ free[i].day_num = 0 /\ free[i].classes = <<>>
      BY <1>3 DEF FreeFrom, l
    <3>3. date + i - 1 = course.day1 + j - 1
      BY <1>1, <2>2
    <3> QED
      BY <3>1, <3>2, <3>3
  <2>3. CASE j = k + l + 1
    <3>1. date + l = course.day1 + j - 1 /\ m # 0
      BY <1>1, <2>3
    <3> QED
      BY <1>4, <2>3, <3>1
  <2> QED
    BY <1>5, <2>1, <2>2, <2>3
<1>7. ASSUME Foreseen
      PROVE  Numbered(more, m)
  <2>1. /\ \A i \in 1 .. k :
             rows[i].day_num = IF Workday(rows[i].day) THEN Cardinality(Through(i)) ELSE 0
        /\ Cardinality(Through(k)) = n
        /\ {rows[i].day_num : i \in 1 .. k} \ {0} = 1 .. n
        /\ k > 0 => Workday(rows[k].day)
    BY <1>7 DEF Table, Numbered, k
  <2>2. date = course.day1 \/ (date > 0 /\ Workday(date - 1))
    <3>1. CASE k = 0
      BY <1>1, <3>1
    <3>2. CASE k > 0
      <4>1. k \in 1 .. k
        BY <1>1, <3>2
      <4>2. rows[k].day = course.day1 + k - 1
        BY <4>1 DEF Table, Dated, k
      <4>3. rows[k].day = date - 1 /\ date > 0
        <5>1. course.day1 + k - 1 = date - 1 /\ date > 0
          BY <1>1, <3>2
        <5> QED
          BY <4>2, <5>1
      <4> QED
        BY <2>1, <3>2, <4>3
    <3> QED
      BY <1>1, <3>1, <3>2
  <2>3. /\ Workday(date + l)
        /\ \A i \in 0 .. l - 1 : ~Workday(date + i)
    <3>1. l = Len(free)
      BY DEF l
    <3>2. NextWorkday(date, l)
      BY <1>7, <2>2, <3>1, FreeDaysSuffice, Zenon
    <3> QED
      BY <3>2 DEF NextWorkday
  <2>4. l \in 0 .. 2
    BY FreeRows DEF l
  <2>5. Cardinality(Through(k + l)) = n
    <3>1. ASSUME NEW i \in Nat, i < l
          PROVE  Cardinality(Through(k + i + 1)) = Cardinality(Through(k + i))
      <4>1. ~Workday(date + i)
        BY <2>3, <2>4, <3>1
      <4>2. PICK x \in Nat, d \in Nat : x = k + i /\ d = date + i /\ d = course.day1 + x
        <5>1. k + i \in Nat /\ date + i \in Nat /\ date + i = course.day1 + (k + i)
          BY <1>1
        <5> QED
          BY <5>1
      <4>3. Cardinality(Through(x)) \in Nat /\ Cardinality(Through(x + 1)) = Cardinality(Through(x)) + 0
        BY <4>1, <4>2, OneMoreDate
      <4> QED
        BY <4>2, <4>3
    <3>2. l > 0 => Cardinality(Through(k + 0 + 1)) = Cardinality(Through(k + 0))
      BY <3>1
    <3>3. l > 1 => Cardinality(Through(k + 1 + 1)) = Cardinality(Through(k + 1))
      BY <3>1
    <3>4. k + 0 = k /\ k + 0 + 1 = k + 1 /\ k + 1 + 1 = k + 2
      BY <1>1
    <3>5. l = 0 \/ l = 1 \/ l = 2
      BY <2>4
    <3> QED
      BY <2>1, <3>2, <3>3, <3>4, <3>5
  <2>6. Cardinality(Through(k + l + 1)) = m
    <3>1. PICK x \in Nat, d \in Nat : x = k + l /\ d = date + l /\ d = course.day1 + x
      <4>1. k + l \in Nat /\ date + l \in Nat /\ date + l = course.day1 + (k + l)
        BY <1>1
      <4> QED
        BY <4>1
    <3>2. Workday(d)
      BY <2>3, <3>1
    <3>3. Cardinality(Through(x + 1)) = Cardinality(Through(x)) + 1
      BY <3>1, <3>2, OneMoreDate
    <3> QED
      BY <2>5, <3>1, <3>3
  <2>7. ASSUME NEW j \in 1 .. k + l + 1
        PROVE  more[j].day_num = IF Workday(more[j].day) THEN Cardinality(Through(j)) ELSE 0
    <3>1. CASE j \in 1 .. k
      BY <1>2, <2>1, <3>1
    <3>2. ASSUME NEW i \in 1 .. l, j = k + i
          PROVE  more[j].day_num = 0 /\ ~Workday(more[j].day)
      <4>1. more[j] = free[i]
        BY <1>2, <3>2
      <4>2. free[i].day = date + i - 1 /\ free[i].day_num = 0
        BY <1>3 DEF FreeFrom, l
      <4>3. i - 1 \in 0 .. l - 1 /\ date + i - 1 = date + (i - 1)
        BY <1>1, <3>2
      <4> QED
        BY <2>3, <4>1, <4>2, <4>3
    <3>3. CASE j = k + l + 1
      BY <1>4, <2>3, <2>6, <3>3
    <3> QED
      BY <1>5, <3>1, <3>2, <3>3
  <2>8. {more[j].day_num : j \in 1 .. k + l + 1} \ {0} = 1 .. m
    <3>1. ASSUME NEW x, x \in {more[j].day_num : j \in 1 .. k + l + 1}, x # 0
          PROVE  x \in 1 .. m
      <4>1. PICK j \in 1 .. k + l + 1 : x = more[j].day_num
        BY <3>1
      <4>2. CASE j \in 1 .. k
        <5>1. x = rows[j].day_num
          BY <1>2, <4>1, <4>2
        <5>2. x \in 1 .. n
          BY <2>1, <3>1, <4>2, <5>1
        <5> QED
          BY <5>2
      <4>3. ASSUME NEW i \in 1 .. l, j = k + i
            PROVE  FALSE
        <5>1. more[j] = free[i]
          BY <1>2, <4>3
        <5>2. free[i].day_num = 0
          BY <1>3 DEF FreeFrom, l
        <5> QED
          BY <3>1, <4>1, <5>1, <5>2
      <4>4. CASE j = k + l + 1
        BY <1>4, <4>1, <4>4
      <4> QED
        BY <1>5, <4>2, <4>3, <4>4
    <3>2. ASSUME NEW x \in 1 .. m
          PROVE  x \in {more[j].day_num : j \in 1 .. k + l + 1} /\ x # 0
      <4>1. CASE x \in 1 .. n
        <5>1. PICK j \in 1 .. k : x = rows[j].day_num
          BY <2>1, <4>1
        <5>2. more[j] = rows[j] /\ j \in 1 .. k + l + 1
          BY <1>2
        <5> QED
          BY <5>1, <5>2
      <4>2. CASE x = m
        <5>1. k + l + 1 \in 1 .. k + l + 1
          BY <1>1
        <5> QED
          BY <1>4, <4>2, <5>1
      <4> QED
        BY <4>1, <4>2
    <3> QED
      BY <3>1, <3>2
  <2>9. Workday(more[k + l + 1].day)
    BY <1>4, <2>3
  <2> QED
    BY <1>1, <2>6, <2>7, <2>8, <2>9 DEF Numbered
<1> QED
  BY <1>6, <1>7 DEF Table

(***************************************************************************)
(* The page of the course.                                                 *)
(***************************************************************************)
LEMMA SchedulePage ==
  ASSUME course \in Courses
  PROVE  Table(MakeSchedule(course).days, course.length)
<1>1. PICK h : Reads(Document(course), course, h)
  BY DocumentRead
<1>2. PICK doc : doc = Document(course)
  OBVIOUS
<1>3. PICK e \in Nat : e = course.length
  BY CoursesAssumption
<1>4. /\ h \in Nat /\ Len(doc) = 1 + h + 3 * e /\ Len(doc) \in Nat
      /\ \A n \in 1 .. e, i \in 1 .. 1 + h + 3 * e :
           /\ i = h + 3 * n - 1 => doc[i] = Day(n)
           /\ i = h + 3 * n     => doc[i] = Class(n)
           /\ i = h + 3 * n + 1 => doc[i] = Section(n)
  <2>1. Reads(doc, course, h)
    BY <1>1, <1>2
  <2>2. /\ h \in Nat /\ Len(doc) = 1 + h + 3 * e
        /\ \A n \in 1 .. e, i \in 1 .. 1 + h + 3 * e :
             /\ i = h + 3 * n - 1 => doc[i] = Day(n)
             /\ i = h + 3 * n     => doc[i] = Class(n)
             /\ i = h + 3 * n + 1 => doc[i] = Section(n)
    BY <1>3, <2>1 DEF Reads
  <2> QED
    BY <2>2
<1>5. PICK f : Builds(f, doc, Len(doc)) /\ MakeSchedule(course) = f[Len(doc)]
  BY <1>2, <1>4, Built
<1>6. \A k \in 0 .. Len(doc) : f[k] = IF k = 0 THEN LgiCourse ELSE Event(f[k-1], doc[k])
  BY <1>5, Zenon DEF Builds
<1>7. f[h + 1] = AsRead(<<>>)
  BY <1>1, <1>2, <1>5, HolidaysRead
<1> DEFINE T == {n \in Nat : \A k \in Nat : n <= e /\ k = h + 1 + 3 * n =>
                   \E rows : f[k] = AsRead(rows) /\ Table(rows, n)}
<1>8. 0 \in T
  <2>1. Table(<<>>, 0)
    <3>1. Through(0) = {} /\ Cardinality({}) = 0
      BY CoursesAssumption, FS_EmptySet DEF Through
    <3>2. <<>> \in Seq(DayRow) /\ Len(<<>>) = 0 /\ 1 .. 0 = {}
      OBVIOUS
    <3>3. Dated(<<>>)
      BY <3>2 DEF Dated
    <3>4. Numbered(<<>>, 0)
      BY <3>1, <3>2 DEF Numbered
    <3> QED
      BY <3>2, <3>3, <3>4 DEF Table
  <2>2. h + 1 + 3 * 0 = h + 1
    BY <1>4
  <2> QED
    BY <1>7, <2>1, <2>2
<1>9. ASSUME NEW n \in Nat, n \in T
      PROVE  n + 1 \in T
  <2> SUFFICES ASSUME NEW i \in Nat, n + 1 <= e, i = h + 1 + 3 * (n + 1)
               PROVE  \E rows : f[i] = AsRead(rows) /\ Table(rows, n + 1)
    OBVIOUS
  <2>1. PICK m \in 1 .. e : m = n + 1
    OBVIOUS
  <2>2. PICK k \in Nat, k1 \in Nat, k2 \in Nat :
          /\ k = h + 1 + 3 * n /\ k1 = k + 1 /\ k2 = k + 2 /\ i = k + 3
    BY <1>4
  <2>3. n <= e
    OBVIOUS
  <2>4. PICK rows : f[k] = AsRead(rows) /\ Table(rows, n)
    BY <1>9, <2>2, <2>3
  <2>5. /\ k1 \in 1 .. 1 + h + 3 * e /\ k1 = h + 3 * m - 1 /\ k1 - 1 = k
        /\ k2 \in 1 .. 1 + h + 3 * e /\ k2 = h + 3 * m /\ k2 - 1 = k1
        /\ i \in 1 .. 1 + h + 3 * e /\ i = h + 3 * m + 1 /\ i - 1 = k2
    BY <1>4, <2>1, <2>2
  <2>6. doc[k1] = Day(m) /\ doc[k2] = Class(m) /\ doc[i] = Section(m)
    BY <1>4, <2>5
  <2>7. \A j \in 1 .. 1 + h + 3 * e : f[j] = Event(f[j-1], doc[j])
    <3>1. \A j \in 1 .. 1 + h + 3 * e : j \in 0 .. Len(doc) /\ j # 0
      BY <1>4
    <3> QED
      BY <1>6, <3>1
  <2>8. f[k1] = Event(f[k], Day(m)) /\ f[k2] = Event(f[k1], Class(m)) /\ f[i] = Event(f[k2], Section(m))
    BY <2>5, <2>6, <2>7, Zenon
  <2>9. f[i] = NewSection(NewClass(NewDay(AsRead(rows), m), m), m)
    <3>1. \A s : /\ Event(s, Day(m)) = NewDay(s, m)
                 /\ Event(s, Class(m)) = NewClass(s, m)
                 /\ Event(s, Section(m)) = NewSection(s, m)
      BY WhatEventsDo
    <3> QED
      BY <2>4, <2>8, <3>1, Zenon
  <2>10. PICK date \in Nat : rows \in Seq(DayRow) /\ date = course.day1 + Len(rows)
    BY <2>4, CoursesAssumption DEF Table
  <2>11. PICK free : free = FreeDays(AsRead(rows), date)
    OBVIOUS
  <2>12. PICK more \in Seq(DayRow) : f[i] = AsRead(more) /\ Grown(rows, free, more, date, m)
    BY <2>1, <2>9, <2>10, <2>11, DayRead
  <2>13. Table(more, m)
    BY <2>1, <2>4, <2>10, <2>11, <2>12, GrownTable
  <2> QED
    BY <2>1, <2>12, <2>13
<1>10. \A n \in Nat : n \in T
  <2> HIDE DEF T
  <2> QED
    BY <1>8, <1>9, SetInduction
<1>11. PICK rows : f[Len(doc)] = AsRead(rows) /\ Table(rows, e)
  <2>1. Len(doc) = h + 1 + 3 * e
    BY <1>4
  <2> QED
    BY <1>4, <1>10, <2>1
<1>12. MakeSchedule(course).days = rows
  BY <1>5, <1>11 DEF AsRead
<1> QED
  BY <1>3, <1>11, <1>12

(***************************************************************************)
(* What the page of the calendar shows is what make_schedule computes.     *)
(***************************************************************************)
CalendarInv ==
  /\ course \in Courses
  /\ calendar = <<>> \/ calendar = MakeSchedule(course).days

THEOREM CalendarInvariant == ScheduleSpec => []CalendarInv
<1>1. ScheduleInit => CalendarInv
  BY DEF ScheduleInit, CalendarInv
<1>2. CalendarInv /\ [SgiSchedule]_scheduleVars => CalendarInv'
  BY DEF CalendarInv, SgiSchedule, scheduleVars
<1> QED
  BY <1>1, <1>2, PTL DEF ScheduleSpec

(***************************************************************************)
(* Whatever the holidays, and however long the course: make_schedule gives *)
(* every date one row, in order, and puts the classes of a day with their  *)
(* sections into its row.                                                  *)
(***************************************************************************)
THEOREM EveryDateOnce == ScheduleSpec => []NoDateMissing
<1>1. CalendarInv => NoDateMissing
  <2> SUFFICES ASSUME CalendarInv
               PROVE  NoDateMissing
    OBVIOUS
  <2>1. CASE calendar = <<>>
    BY <2>1 DEF NoDateMissing
  <2>2. CASE calendar = MakeSchedule(course).days
    <3>1. Table(calendar, course.length)
      BY <2>2, SchedulePage DEF CalendarInv
    <3>2. calendar \in Seq(DayRow) /\ Dated(calendar)
      BY <3>1 DEF Table
    <3>3. DOMAIN calendar = 1 .. Len(calendar)
      BY <3>2
    <3> QED
      BY <3>2, <3>3, Zenon DEF Dated, OneClass, NoDateMissing
  <2> QED
    BY <2>1, <2>2 DEF CalendarInv
<1> QED
  BY <1>1, CalendarInvariant, PTL

(***************************************************************************)
(* With the holidays it can step over, make_schedule holds classes on all  *)
(* the working days of a course of any length, numbered from the first.    *)
(***************************************************************************)
THEOREM EveryWorkdayHeld == ScheduleSpec => []ClassesOnWorkdays
<1>1. CalendarInv => ClassesOnWorkdays
  <2> SUFFICES ASSUME CalendarInv, calendar # <<>>, Foreseen
               PROVE  /\ \A i \in DOMAIN calendar :
                           LET date == calendar[i].day
                           IN  calendar[i].day_num = IF Workday(date) THEN WorkdaysTo(date) ELSE 0
                      /\ {calendar[i].day_num : i \in DOMAIN calendar} \ {0} = 1 .. course.length
    BY DEF ClassesOnWorkdays
  <2>1. Table(calendar, course.length)
    BY SchedulePage DEF CalendarInv
  <2>2. /\ calendar \in Seq(DayRow) /\ Dated(calendar) /\ Numbered(calendar, course.length)
        /\ DOMAIN calendar = 1 .. Len(calendar)
    BY <2>1 DEF Table
  <2>3. ASSUME NEW i \in 1 .. Len(calendar), NEW date, date = calendar[i].day
        PROVE  calendar[i].day_num = IF Workday(date) THEN WorkdaysTo(date) ELSE 0
    <3>1. date = course.day1 + i - 1 /\ course.day1 \in Nat
      BY <2>2, <2>3, CoursesAssumption DEF Dated, CalendarInv
    <3>2. \A d \in Nat : course.day1 <= d /\ d < course.day1 + i <=> d \in course.day1 .. date
      BY <3>1
    <3>3. course.day1 .. date \subseteq Nat
      BY <3>1
    <3>4. Through(i) = {d \in course.day1 .. date : Workday(d)}
      BY <3>2, <3>3 DEF Through
    <3> QED
      BY <2>2, <2>3, <3>4 DEF Numbered, WorkdaysTo
  <2>4. {calendar[i].day_num : i \in DOMAIN calendar} \ {0} = 1 .. course.length
    BY <2>2 DEF Numbered
  <2> QED
    BY <2>2, <2>3, <2>4
<1> QED
  BY <1>1, CalendarInvariant, PTL
=============================================================================
