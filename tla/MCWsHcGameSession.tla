------------------------- MODULE MCWsHcGameSession --------------------------
(***************************************************************************)
(* Instances of WsHcGameSession for TLC.  In one, there are two games, and *)
(* each player has one connection, which lasts, and views                  *)
(* of ann's page may fail; in the other, one game, and ann may connect     *)
(* again while her old connection, dead or alive, is still there.          *)
(***************************************************************************)
EXTENDS WsHcGameSession, TLC

CONSTANTS ann, bob           \* users
CONSTANTS a1, a2, b1         \* connections
CONSTANTS g1, g2             \* games
CONSTANTS r1, r2             \* frames in progress

VARIABLE instance

Owners == a1 :> ann @@ a2 :> ann @@ b1 :> bob

Within ==
  \/ /\ instance = "two games"
     /\ conn'[a2] = "absent" /\ silent' = {} /\ \A c \in Conns : conn'[c] # "stopped"
     /\ unanswered' \subseteq {a1}
  \/ /\ instance = "reconnect"
     /\ \A r \in Requests : requests'[r] # Idle => requests'[r].game = g1
     /\ unanswered' = {}

MCInit == Init /\ instance \in {"two games", "reconnect"}

MCNext == Next /\ Within /\ UNCHANGED instance

MCSpec == MCInit /\ [][MCNext]_<<vars, instance>> /\ Fairness
=============================================================================
