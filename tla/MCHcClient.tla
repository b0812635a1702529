----------------------------- MODULE MCHcClient -----------------------------
(***************************************************************************)
(* Instances of HcClient for TLC, each with its own bounds: a game asked   *)
(* with several verbs, a longer one with a single verb, and two games, one *)
(* begun by each user.  Only with two games do countdowns run beside each  *)
(* other.                                                                  *)
(***************************************************************************)
EXTENDS HcClient

CONSTANTS ann, bob           \* users
CONSTANTS g1, g2             \* session ids
CONSTANTS Instances          \* those a run checks

VARIABLE instance

AllVerbs == {Verbs}

Total == FoldFunction(LAMBDA ms, n : n + Len(ms), 0, moves')

OneVerb == \A s \in Sessions : \A i \in DOMAIN moves'[s] : moves'[s][i].verb = 1

OneTimer == \A u \in Readers : page'[u].timers <= 1

Within ==
  \/ /\ instance = "verbs"
     /\ ~Exists(sessions'[g2]) /\ Total <= 2 /\ OneTimer
  \/ /\ instance = "long game"
     /\ ~Exists(sessions'[g2]) /\ Total <= 3 /\ OneVerb /\ OneTimer
  \/ /\ instance = "two games"
     /\ Exists(sessions'[g1]) /\ sessions'[g1].challenger = bob
     /\ sessions'[g2].challenger \in {ann, NoUser}
     /\ Total <= 2 /\ OneVerb
  \/ /\ instance = "two games, all verbs"
     /\ Total <= 2

MCInit == ClientInit /\ instance \in Instances

MCNext == ClientNext /\ Within /\ UNCHANGED instance

MCFairness ==
  \A u \in Readers :
    /\ WF_<<allVars, instance>>(TimeOut(u) /\ Within /\ UNCHANGED instance)
    /\ WF_<<allVars, instance>>(Settled(u) /\ Within /\ UNCHANGED instance)

MCSpec == MCInit /\ [][MCNext]_<<allVars, instance>> /\ MCFairness
=============================================================================
