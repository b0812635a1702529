--------------------------- MODULE PracticeCycle ---------------------------
(***************************************************************************)
(* The verbs of one practice session, question after question: every       *)
(* answer makes hc_ask_practice ask the next one.  HcGame runs the same    *)
(* operators among everything else and so only over short sessions; here   *)
(* they run alone over sessions longer than the Window questions the code  *)
(* reads back.                                                             *)
(***************************************************************************)
EXTENDS PracticeVerbs

CONSTANTS
  VerbLists,     \* the lists of verbs a session may be created with
  RepChoices,    \* the values of practice_reps_per_verb a session may have
  Window,        \* how many questions hc_ask_practice reads back (100)
  MaxQuestions(_, _)  \* bound of the model: questions in a session of these verbs and repetitions

ASSUME CycleAssumption ==
  /\ \A vs \in VerbLists : IsFiniteSet(vs) /\ vs # {}
  /\ RepChoices \subseteq Nat \ {0}
  /\ Window \in Nat \ {0}
  /\ \A vs \in VerbLists, n \in RepChoices : MaxQuestions(vs, n) \in Nat

VARIABLES
  verbs,         \* the session's custom_verbs
  reps,          \* its practice_reps_per_verb
  asked          \* the verbs asked so far, newest first

vars == <<verbs, reps, asked>>

-----------------------------------------------------------------------------
ReadBack == SubSeq(asked, 1, IF Len(asked) < Window THEN Len(asked) ELSE Window)

(***************************************************************************)
(* What the next question may ask for.  The first one starts from a        *)
(* default form whose verb is not used, as the rotation must move on.      *)
(***************************************************************************)
Choices ==
  NextVerbs(verbs, ReadBack, reps, IF asked = <<>> THEN 1 ELSE asked[1])

Init ==
  /\ verbs \in VerbLists
  /\ reps \in RepChoices
  /\ asked = <<>>

AskPractice ==
  /\ Len(asked) < MaxQuestions(verbs, reps)
  /\ \E v \in Choices : asked' = <<v>> \o asked
  /\ UNCHANGED <<verbs, reps>>

Spec == Init /\ [][AskPractice]_vars

-----------------------------------------------------------------------------
(* Properties.                                                             *)

(***************************************************************************)
(* Only the session's own verbs are ever asked.                            *)
(***************************************************************************)
TypeOK ==
  /\ verbs \in VerbLists
  /\ reps \in RepChoices
  /\ asked \in Seq(verbs)

(***************************************************************************)
(* The session as asked, oldest question first.                            *)
(***************************************************************************)
InOrder == [i \in 1 .. Len(asked) |-> asked[Len(asked) + 1 - i]]

InWindow == Len(asked) <= Window

(***************************************************************************)
(* As long as the window holds the whole session, the questions come in    *)
(* blocks of reps questions on one verb, and with more than one verb the   *)
(* next block is on another verb, also from one cycle to the next.         *)
(***************************************************************************)
BlocksOfReps ==
  InWindow =>
    \A i \in 2 .. Len(asked) :
      IF (i - 1) % reps # 0
        THEN InOrder[i] = InOrder[i-1]
        ELSE Cardinality(verbs) > 1 => InOrder[i] # InOrder[i-1]

(***************************************************************************)
(* As long as the window holds the whole session, the rotation is even:    *)
(* whenever a cycle is complete every verb was asked equally often.        *)
(***************************************************************************)
EvenRotation ==
  InWindow /\ Len(asked) % (Cardinality(verbs) * reps) = 0 =>
    \A v \in verbs :
      Cardinality({i \in DOMAIN asked : asked[i] = v}) * Cardinality(verbs) = Len(asked)

(***************************************************************************)
(* hc_ask_practice unwraps its choice (`*new_verb_id.unwrap()'): there is  *)
(* always a verb to ask next.  Otherwise the answer to the open question   *)
(* panics, is rolled back, and the session can never go on.                *)
(***************************************************************************)
NextVerbExists == Choices # {}

=============================================================================
