------------------------------ MODULE MCHcAxum ------------------------------
(***************************************************************************)
(* Instances of HcAxum and Schedule for TLC: in one, logins and synopses;  *)
(* in the other, the calendar of any of the courses.                       *)
(***************************************************************************)
EXTENDS HcAxum, Schedule, FiniteSetsExt

VARIABLE instance

Alike ==
  Permutations(Browsers) \cup Permutations(Requests) \cup Permutations(Papers)
  \cup Permutations(UserIds) \cup Permutations(Names)

\* "depo" has no active forms, like a deponent verb; "full" has all.
VerbForms ==
  [v \in {"full", "depo", "oida"} |->
     IF v = "depo" THEN ToSet(Moods) \X ToSet(Tenses) \X {"Active"} ELSE {}]

\* Mistakes in the first, a middle and the last but one cell, with no apostrophe,
\* with two in one cell or with one; and no mistakes at all.
Draft(verb, slips, marks, checked) ==
  [verb |-> verb, pp |-> "depo", person |-> 0, number |-> 1,
   slips |-> slips, marks |-> marks, checked |-> checked]

Synopses ==
  {Draft("full", {1, 40, 62}, <<>>, FALSE),
   Draft("full", {1, 62}, 40 :> 2, FALSE),
   Draft("full", {1, 62}, 40 :> 1 @@ 63 :> 1, FALSE),
   Draft("depo", {}, <<>>, TRUE)}

\* Nine days of classes from any day of the week, and up to two holidays.
Summers ==
  {[day1 |-> d, holidays |-> h, length |-> 9] :
     d \in 0 .. 6, h \in UNION {kSubset(k, 0 .. 13) : k \in 0 .. 2}}

MCInit ==
  /\ AxumInit
  /\ ScheduleInit
  /\ \/ instance = "calendar"
     \/ instance = "synopses" /\ course = CHOOSE c \in Courses : TRUE

MCNext ==
  \/ instance = "synopses" /\ AxumNext /\ UNCHANGED <<scheduleVars, instance>>
  \/ instance = "calendar" /\ SgiSchedule /\ UNCHANGED <<axumVars, instance>>

MCSpec == MCInit /\ [][MCNext]_<<axumVars, scheduleVars, instance>>
=============================================================================
