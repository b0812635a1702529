--------------------------- MODULE MCPracticeCycle --------------------------
(***************************************************************************)
(* Instances of PracticeCycle for TLC.                                     *)
(***************************************************************************)
EXTENDS PracticeCycle

\* two verbs half again beyond the window, as one sequence of questions is
\* nearly all there is; more verbs for a few cycles
HalfBeyond(vs, n) == IF Cardinality(vs) = 2 /\ n # 2 THEN 150 ELSE 17

OneToFour == {{2}, {1, 2}, {1, 2, 3}, {1, 2, 3, 4}}
Pair == {{1, 2}}
=============================================================================
