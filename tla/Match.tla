-------------------------------- MODULE Match --------------------------------
(***************************************************************************)
(* What a game promises its two players, without tables, timestamps or     *)
(* handlers: they question each other in turn, whoever replied asks next,  *)
(* and a wrong reply is a point for the one who asked.                     *)
(*                                                                         *)
(* HcGame implements it: see HcGame!KeepsTheRules.                         *)
(***************************************************************************)
EXTENDS Integers

CONSTANTS
  People,        \* those who may meet in a match
  Matches,       \* the matches that may be played
  Nobody         \* in place of a player

VARIABLE match   \* for each match how it stands

-----------------------------------------------------------------------------
(***************************************************************************)
(* by: who asked the question that is waiting, or gave the last reply.     *)
(***************************************************************************)
Standing ==
  [phase  : {"none", "opening", "asked", "replied", "practice"},
   pair   : SUBSET People,
   by     : People \cup {Nobody},
   points : [People -> Nat]]

NoPoints == [p \in People |-> 0]

NotBegun == [phase |-> "none", pair |-> {}, by |-> Nobody, points |-> NoPoints]

(***************************************************************************)
(* Two players meet, or one practises alone and the rules end there.       *)
(***************************************************************************)
Meet(m, p, q) ==
  /\ match[m].phase = "none"
  /\ p # q
  /\ match' = [match EXCEPT ![m] =
       [phase |-> "opening", pair |-> {p, q}, by |-> Nobody, points |-> NoPoints]]

Practise(m, p) ==
  /\ match[m].phase = "none"
  /\ match' = [match EXCEPT ![m] =
       [phase |-> "practice", pair |-> {p}, by |-> Nobody, points |-> NoPoints]]

(***************************************************************************)
(* Either player may open; after that whoever replied asks.                *)
(***************************************************************************)
Question(m, p) ==
  /\ p \in match[m].pair
  /\ \/ match[m].phase = "opening"
     \/ match[m].phase = "replied" /\ match[m].by = p
  /\ match' = [match EXCEPT ![m] =
       [phase |-> "asked", pair |-> @.pair, by |-> p, points |-> @.points]]

(***************************************************************************)
(* Only the other player replies, and once.                                *)
(***************************************************************************)
Reply(m, p) ==
  /\ match[m].phase = "asked"
  /\ p \in match[m].pair \ {match[m].by}
  /\ \E points \in {match[m].points, [match[m].points EXCEPT ![match[m].by] = @ + 1]} :
       match' = [match EXCEPT ![m] =
         [phase |-> "replied", pair |-> @.pair, by |-> p, points |-> points]]

-----------------------------------------------------------------------------
Init == match = [m \in Matches |-> NotBegun]

Next ==
  \E m \in Matches, p \in People :
    \/ \E q \in People : Meet(m, p, q)
    \/ Practise(m, p)
    \/ Question(m, p)
    \/ Reply(m, p)

Spec == Init /\ [][Next]_match

=============================================================================
