---------------------------- MODULE PracticeVerbs ----------------------------
(***************************************************************************)
(* How a practice session picks the verb of its next question: libhc's     *)
(* hc_change_verbs and hc_get_available_verbs_practice, as hc_ask_practice *)
(* calls them.  Pure operators; HcGame uses them inside its actions and    *)
(* PracticeCycle runs them alone over long histories.                      *)
(*                                                                         *)
(* `used' is the verb of every question read back from the database,       *)
(* newest first, exactly as last_verb_ids is built from get_last_n_moves.  *)
(***************************************************************************)
EXTENDS Integers, Sequences, FiniteSets

\* Mutant: the first question is no occasion to choose a verb.
ChangeVerbsLate(used, reps) == Len(used) >= reps /\ used[1] = used[reps]

(***************************************************************************)
(* The rotation moves on when nothing was asked yet, or when the newest    *)
(* question and the one reps-1 before it ask for the same verb.            *)
(***************************************************************************)
ChangeVerbs(used, reps) ==
  \/ Len(used) = 0
  \/ Len(used) >= reps /\ used[1] = used[reps]

\* Mutants: the verb asked last may follow itself; only that one is skipped;
\* every verb in the window is.
AvailableAgain(available, used, reps) ==
  IF Cardinality(available) = 1 THEN available
  ELSE available \ {used[i] : i \in 1 .. Len(used) % (Cardinality(available) * reps)}
AvailableButLast(available, used, reps) ==
  IF Cardinality(available) = 1 THEN available
  ELSE available \ {used[i] : i \in {1} \cap DOMAIN used}
AvailableUnused(available, used, reps) ==
  IF Cardinality(available) = 1 THEN available
  ELSE available \ {used[i] : i \in DOMAIN used}

(***************************************************************************)
(* The verbs the rotation may move on to.  The history is cut into cycles  *)
(* of (number of verbs) * reps questions; the verbs of the cycle under way *)
(* are skipped, and at the start of a cycle the verb asked last is.  The   *)
(* length used here is that of the window, not that of the session.        *)
(***************************************************************************)
AvailableVerbsPractice(available, used, reps) ==
  IF Cardinality(available) = 1 THEN available
  ELSE LET remainder == Len(used) % (Cardinality(available) * reps)
           skipped   == {used[i] : i \in 1 .. remainder}
           lastUsed  == {used[i] : i \in {1} \cap {k \in DOMAIN used : remainder = 0}}
       IN  available \ (skipped \cup lastUsed)

(***************************************************************************)
(* The verbs the next question may have, `current' being the verb of the   *)
(* question just graded.  Empty when the rotation must move on and no verb *)
(* is left: the code unwraps that choice and the handler panics.           *)
(***************************************************************************)
NextVerbs(available, used, reps, current) ==
  IF ChangeVerbs(used, reps)
    THEN AvailableVerbsPractice(available, used, reps)
    ELSE {current}

=============================================================================
