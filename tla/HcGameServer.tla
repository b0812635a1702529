---------------------------- MODULE HcGameServer ----------------------------
(***************************************************************************)
(* The actor HcGameServer of hc-actix: who is connected and who is in      *)
(* which room.  It takes one message at a time from its mailbox, which     *)
(* everybody who sends to it shares.                                       *)
(*                                                                         *)
(* Connections are registered under the user they belong to: a user has    *)
(* one entry however many connections.  A room is a game, or the main room *)
(* every user is put into at first; a room nobody entered is an empty one. *)
(***************************************************************************)
EXTENDS Naturals, Sequences

CONSTANTS
  Users,         \* accounts
  Conns,         \* websocket connections, each an actor of its own
  Games,         \* sessions of libhc, which give the rooms their names
  MAIN_ROOM,     \* the room of those who have opened no game
  NoConn         \* no entry in the map of sessions

ASSUME ServerAssumption == NoConn \notin Conns /\ MAIN_ROOM \notin Games

VARIABLES
  mailbox,       \* messages the server has yet to handle, oldest first
  registered,    \* the server's sessions: for each user the connection it would send to
  rooms          \* for each room the users in it

serverVars == <<mailbox, registered, rooms>>

Rooms == Games \cup {MAIN_ROOM}

-----------------------------------------------------------------------------
(* Messages.  Of the text of a ClientMessage only how many moves the view  *)
(* in it shows matters.                                                    *)

Connect(u, c)          == [type |-> "Connect", user |-> u, conn |-> c]
Disconnect(u)          == [type |-> "Disconnect", user |-> u]
Join(u, g)             == [type |-> "Join", user |-> u, room |-> g]
ClientMessage(u, g, n) == [type |-> "ClientMessage", user |-> u, room |-> g, shows |-> n]

Messages ==
  {Connect(u, c) : u \in Users, c \in Conns}
  \cup {Disconnect(u) : u \in Users}
  \cup {Join(u, g) : u \in Users, g \in Games}
  \cup [type : {"ClientMessage"}, user : Users, room : Games, shows : Nat]

Receives(type) == mailbox # <<>> /\ Head(mailbox).type = type

-----------------------------------------------------------------------------
(* Handlers.                                                               *)

\* Mutant: the user's id is kept where the address belongs.
HandleConnectById ==
  /\ Receives("Connect")
  /\ LET m == Head(mailbox)
     IN  /\ registered' = [registered EXCEPT ![m.user] = m.user]
         /\ rooms' = [rooms EXCEPT ![MAIN_ROOM] = @ \cup {m.user}]
  /\ mailbox' = Tail(mailbox)

(***************************************************************************)
(* An entry the user already has is overwritten.                           *)
(***************************************************************************)
HandleConnect ==
  /\ Receives("Connect")
  /\ LET m == Head(mailbox)
     IN  /\ registered' = [registered EXCEPT ![m.user] = m.conn]
         /\ rooms' = [rooms EXCEPT ![MAIN_ROOM] = @ \cup {m.user}]
  /\ mailbox' = Tail(mailbox)

(***************************************************************************)
(* Whichever connection it comes from, the user's entry is removed; only   *)
(* if there was one does the user leave the rooms.                         *)
(***************************************************************************)
HandleDisconnect ==
  /\ Receives("Disconnect")
  /\ LET u == Head(mailbox).user
     IN  IF registered[u] = NoConn
           THEN UNCHANGED <<registered, rooms>>
           ELSE /\ registered' = [registered EXCEPT ![u] = NoConn]
                /\ rooms' = [r \in Rooms |-> rooms[r] \ {u}]
  /\ mailbox' = Tail(mailbox)

\* Mutant: the rooms joined before are kept.
HandleJoinMore ==
  /\ Receives("Join")
  /\ rooms' = [rooms EXCEPT ![Head(mailbox).room] = @ \cup {Head(mailbox).user}]
  /\ mailbox' = Tail(mailbox)
  /\ UNCHANGED registered

(***************************************************************************)
(* The user moves to the room, registered or not.                          *)
(***************************************************************************)
HandleJoin ==
  /\ Receives("Join")
  /\ LET m == Head(mailbox)
     IN  rooms' = [r \in Rooms |->
                     IF r = m.room THEN rooms[r] \cup {m.user} ELSE rooms[r] \ {m.user}]
  /\ mailbox' = Tail(mailbox)
  /\ UNCHANGED registered

(***************************************************************************)
(* send_message: to everybody in the room who is registered, except the    *)
(* user it comes from.                                                     *)
(***************************************************************************)
Recipients(room, skip) == {registered[u] : u \in rooms[room] \ {skip}} \ {NoConn}

-----------------------------------------------------------------------------
ServerInit ==
  /\ mailbox = <<>>
  /\ registered = [u \in Users |-> NoConn]
  /\ rooms = [r \in Rooms |-> {}]

ServerTypeOK ==
  /\ mailbox \in Seq(Messages)
  /\ registered \in [Users -> Conns \cup {NoConn}]
  /\ rooms \in [Rooms -> SUBSET Users]

=============================================================================
