--------------------------- MODULE WsHcGameSession --------------------------
(***************************************************************************)
(* The websocket actors of hc-actix, one for each connection, with the     *)
(* game server they talk to and the moves they record.                     *)
(*                                                                         *)
(* Every frame a client sends is handled in a future of its own, so the    *)
(* handlers of all connections interleave.  Recording a move is one step   *)
(* here (HcGame and HcGameTx are about what it records): a game is the     *)
(* sequence of connections its moves came through, and a view of it is     *)
(* known by the number of moves it shows.                                  *)
(*                                                                         *)
(* Only a game with an opponent needs telling anybody; practice sessions   *)
(* and new sessions change nothing here.                                   *)
(***************************************************************************)
EXTENDS HcGameServer

CONSTANTS
  Owner,         \* for each connection the user logged in
  Requests,      \* frames that may be in progress at the same time
  NoGame,        \* a page that has opened no game
  MaxMoves,      \* bound of the model: moves in a game
  MaxMailbox     \* bound of the model: clients send nothing while this much is unhandled

ASSUME SessionAssumption ==
  /\ Owner \in [Conns -> Users]
  /\ NoGame \notin Games
  /\ MaxMoves \in Nat
  /\ MaxMailbox \in Nat

VARIABLES
  conn,          \* for each connection the state of its actor
  silent,        \* connections whose peer is gone, unknown to the actor
  requests,      \* the frames in progress
  played,        \* for each game the connections its moves came through, in order
  untold,        \* for each game the moves whose push was never sent
  showing,       \* for each connection the game its page shows
  told,          \* for each connection and game the newest view it was sent
  unanswered     \* connections for which the last view to be read failed

sessionVars == <<conn, silent, requests, played, untold, showing, told, unanswered>>
vars == <<mailbox, registered, rooms, conn, silent, requests, played, untold, showing, told, unanswered>>

-----------------------------------------------------------------------------
Idle == [stage |-> "idle"]

(***************************************************************************)
(* A getmove (or a getsessions with a current session) has a view to read. *)
(* A move is begun, then committed, then the opponent's view is read in a  *)
(* transaction of its own: "pushing".                                      *)
(***************************************************************************)
RequestRow ==
  [stage : {"viewing", "begun", "committed", "pushing"},
   conn  : Conns,
   game  : Games,
   move  : 0 .. MaxMoves,     \* the number of the move committed
   shows : 0 .. MaxMoves]     \* how many moves the opponent's view shows

Larger(m, n) == IF m < n THEN n ELSE m

Told(c, g, n) == [told EXCEPT ![c][g] = Larger(@, n)]

(***************************************************************************)
(* When an actor stops its futures are dropped where they are.  A move     *)
(* that was committed stays committed, and nobody is told.                 *)
(***************************************************************************)
DropRequests(c) ==
  LET of(r) == requests[r] # Idle /\ requests[r].conn = c
  IN  /\ requests' = [r \in Requests |-> IF of(r) THEN Idle ELSE requests[r]]
      /\ untold' = [g \in Games |-> untold[g] \cup
           {requests[r].move : r \in {q \in Requests :
              of(q) /\ requests[q].stage \in {"committed", "pushing"} /\ requests[q].game = g}}]

-----------------------------------------------------------------------------
(* The life of a connection.                                               *)

(***************************************************************************)
(* started: the actor announces itself and waits until that is handled.    *)
(* A user's page opens a connection when it has none, or has noticed that  *)
(* the one it had is gone.                                                 *)
(***************************************************************************)
Started(c) ==
  /\ conn[c] = "absent"
  /\ \A d \in Conns : Owner[d] = Owner[c] => conn[d] \in {"absent", "stopped"} \/ d \in silent
  /\ conn' = [conn EXCEPT ![c] = "starting"]
  /\ mailbox' = Append(mailbox, Connect(Owner[c], c))
  /\ UNCHANGED <<registered, rooms, silent, requests, played, untold, showing, told, unanswered>>

Connected ==
  /\ HandleConnect
  /\ conn' = [conn EXCEPT ![Head(mailbox).conn] = "open"]
  /\ UNCHANGED <<silent, requests, played, untold, showing, told, unanswered>>

(***************************************************************************)
(* The network or the browser goes away without a word.                    *)
(***************************************************************************)
GoSilent(c) ==
  /\ conn[c] \in {"starting", "open"}
  /\ c \notin silent
  /\ silent' = silent \cup {c}
  /\ UNCHANGED <<serverVars, conn, requests, played, untold, showing, told, unanswered>>

\* Mutant: the server is not told.
StoppingSilently(c, mail) ==
  /\ conn[c] = "open"
  /\ conn' = [conn EXCEPT ![c] = "stopped"]
  /\ DropRequests(c)
  /\ UNCHANGED <<serverVars, silent, played, showing, told, unanswered>>

(***************************************************************************)
(* stopping: the server is told; mail is what it had been sent before.     *)
(* What the connection's page shows and was sent no longer matters: its    *)
(* next connection opens the game anew.                                    *)
(***************************************************************************)
Stopping(c, mail) ==
  /\ conn[c] = "open"
  /\ conn' = [conn EXCEPT ![c] = "stopped"]
  /\ mailbox' = Append(mail, Disconnect(Owner[c]))
  /\ silent' = silent \ {c}
  /\ showing' = [showing EXCEPT ![c] = NoGame]
  /\ told' = [told EXCEPT ![c] = [g \in Games |-> 0]]
  /\ unanswered' = unanswered \ {c}
  /\ DropRequests(c)
  /\ UNCHANGED <<registered, rooms, played>>

(***************************************************************************)
(* The client closes the connection, or the stream ends or errs.           *)
(***************************************************************************)
Closed(c) == Stopping(c, mailbox)

(***************************************************************************)
(* hb: nothing was heard from the client for CLIENT_TIMEOUT, because it is *)
(* gone or because the network is slow.  The server is told, and told again*)
(* by stopping.                                                            *)
(***************************************************************************)
HeartbeatFailed(c) == Stopping(c, Append(mailbox, Disconnect(Owner[c])))

-----------------------------------------------------------------------------
(* Frames.                                                                 *)

FrameArrives(r, c, g, stage) ==
  /\ conn[c] = "open"
  /\ c \notin silent
  /\ requests[r] = Idle
  /\ Len(mailbox) < MaxMailbox
  /\ requests' = [requests EXCEPT ![r] =
        [stage |-> stage, conn |-> c, game |-> g, move |-> 0, shows |-> 0]]

(***************************************************************************)
(* getmove and getsessions: the room is joined before the view is read.    *)
(***************************************************************************)
OpenGame(r, c, g) ==
  /\ FrameArrives(r, c, g, "viewing")
  /\ mailbox' = Append(mailbox, Join(Owner[c], g))
  /\ UNCHANGED <<registered, rooms, conn, silent, played, untold, showing, told, unanswered>>

SendView(r) ==
  /\ requests[r].stage = "viewing"
  /\ LET c == requests[r].conn
         g == requests[r].game
     IN  /\ told' = Told(c, g, Len(played[g]))
         /\ showing' = [showing EXCEPT ![c] = g]
         /\ unanswered' = unanswered \ {c}
  /\ requests' = [requests EXCEPT ![r] = Idle]
  /\ UNCHANGED <<serverVars, conn, silent, played, untold>>

(***************************************************************************)
(* The view cannot be read: nothing is sent, but the room has been joined. *)
(* The page goes on showing what it showed before.                         *)
(***************************************************************************)
ViewFails(r) ==
  /\ requests[r].stage = "viewing"
  /\ unanswered' = unanswered \cup {requests[r].conn}
  /\ requests' = [requests EXCEPT ![r] = Idle]
  /\ UNCHANGED <<serverVars, conn, silent, played, untold, showing, told>>

(***************************************************************************)
(* ask, submit, mfpressed: a page moves in the game it shows.              *)
(***************************************************************************)
Move(r, c, g) ==
  /\ showing[c] = g
  /\ FrameArrives(r, c, g, "begun")
  /\ UNCHANGED <<serverVars, conn, silent, played, untold, showing, told, unanswered>>

(***************************************************************************)
(* The handler of libhc commits.                                           *)
(***************************************************************************)
Commit(r) ==
  /\ requests[r].stage = "begun"
  /\ LET g == requests[r].game
     IN  /\ Len(played[g]) < MaxMoves
         /\ played' = [played EXCEPT ![g] = Append(@, requests[r].conn)]
         /\ requests' = [requests EXCEPT ![r].stage = "committed",
                                         ![r].move = Len(played[g]) + 1]
  /\ UNCHANGED <<serverVars, conn, silent, untold, showing, told, unanswered>>

(***************************************************************************)
(* It refuses the move, or fails: nothing is recorded and nothing is said. *)
(***************************************************************************)
Refuse(r) ==
  /\ requests[r].stage = "begun"
  /\ requests' = [requests EXCEPT ![r] = Idle]
  /\ UNCHANGED <<serverVars, conn, silent, played, untold, showing, told, unanswered>>

\* Mutant: the opponent is sent the game as it was before the move.
ReadViewOfBefore(r) ==
  /\ requests[r].stage = "committed"
  /\ requests' = [requests EXCEPT ![r].stage = "pushing", ![r].shows = requests[r].move - 1]
  /\ UNCHANGED <<serverVars, conn, silent, played, untold, showing, told, unanswered>>

ReadOpponentView(r) ==
  /\ requests[r].stage = "committed"
  /\ requests' = [requests EXCEPT ![r].stage = "pushing",
                                  ![r].shows = Len(played[requests[r].game])]
  /\ UNCHANGED <<serverVars, conn, silent, played, untold, showing, told, unanswered>>

(***************************************************************************)
(* The response to the mover shows the game as its own transaction left it.*)
(***************************************************************************)
Respond(r) ==
  /\ told' = Told(requests[r].conn, requests[r].game, requests[r].move)
  /\ requests' = [requests EXCEPT ![r] = Idle]

Push(r) ==
  /\ requests[r].stage = "pushing"
  /\ mailbox' = Append(mailbox,
       ClientMessage(Owner[requests[r].conn], requests[r].game, requests[r].shows))
  /\ Respond(r)
  /\ UNCHANGED <<registered, rooms, conn, silent, played, untold, showing, unanswered>>

(***************************************************************************)
(* The opponent's view cannot be read: only the mover is answered.         *)
(***************************************************************************)
PushFails(r) ==
  /\ requests[r].stage = "committed"
  /\ untold' = [untold EXCEPT ![requests[r].game] = @ \cup {requests[r].move}]
  /\ Respond(r)
  /\ UNCHANGED <<serverVars, conn, silent, played, showing, unanswered>>

(***************************************************************************)
(* The server passes a push on; an actor that has stopped hears nothing.   *)
(***************************************************************************)
Pushed ==
  /\ Receives("ClientMessage")
  /\ LET m  == Head(mailbox)
         to == {c \in Recipients(m.room, m.user) : conn[c] = "open"}
     IN  told' = [c \in Conns |->
                    IF c \in to THEN [told[c] EXCEPT ![m.room] = Larger(@, m.shows)]
                    ELSE told[c]]
  /\ mailbox' = Tail(mailbox)
  /\ UNCHANGED <<registered, rooms, conn, silent, requests, played, untold, showing, unanswered>>

-----------------------------------------------------------------------------
Init ==
  /\ ServerInit
  /\ conn = [c \in Conns |-> "absent"]
  /\ silent = {}
  /\ requests = [r \in Requests |-> Idle]
  /\ played = [g \in Games |-> <<>>]
  /\ untold = [g \in Games |-> {}]
  /\ showing = [c \in Conns |-> NoGame]
  /\ told = [c \in Conns |-> [g \in Games |-> 0]]
  /\ unanswered = {}

ServerStep ==
  \/ Connected
  \/ (HandleDisconnect \/ HandleJoin) /\ UNCHANGED sessionVars
  \/ Pushed

Next ==
  \/ ServerStep
  \/ \E c \in Conns :
       \/ Started(c)
       \/ GoSilent(c)
       \/ Closed(c)
       \/ HeartbeatFailed(c)
       \/ \E r \in Requests, g \in Games : OpenGame(r, c, g) \/ Move(r, c, g)
  \/ \E r \in Requests :
       \/ SendView(r) \/ ViewFails(r)
       \/ Commit(r) \/ Refuse(r)
       \/ ReadOpponentView(r)
       \/ Push(r) \/ PushFails(r)

Spec == Init /\ [][Next]_vars

(***************************************************************************)
(* The server's actor runs while its mailbox is not empty, and the         *)
(* heartbeat's interval fires until it finds a silent client out.          *)
(***************************************************************************)
Fairness ==
  /\ WF_vars(ServerStep)
  /\ \A c \in Conns : WF_vars(c \in silent /\ HeartbeatFailed(c))

FairSpec == Spec /\ Fairness

-----------------------------------------------------------------------------
(* Properties.                                                             *)

(***************************************************************************)
(* Types of the server's state, the connections and the frames in progress.*)
(***************************************************************************)
TypeOK ==
  /\ ServerTypeOK
  /\ conn \in [Conns -> {"absent", "starting", "open", "stopped"}]
  /\ silent \subseteq Conns
  /\ requests \in [Requests -> RequestRow \cup {Idle}]
  /\ played \in [Games -> Seq(Conns)]
  /\ untold \in [Games -> SUBSET (1 .. MaxMoves)]
  /\ showing \in [Conns -> Games \cup {NoGame}]
  /\ told \in [Conns -> [Games -> 0 .. MaxMoves]]
  /\ unanswered \subseteq Conns

(***************************************************************************)
(* However connections come, go and overlap, a user is in one game's room  *)
(* at most, and so is sent the moves of one game.                          *)
(***************************************************************************)
OneGameRoom ==
  \A g, h \in Games : g # h => rooms[g] \cap rooms[h] = {}

(***************************************************************************)
(* Once the server has handled all there is, it holds no address of an     *)
(* actor that has stopped, and everybody registered can be found in a room.*)
(***************************************************************************)
NoDeadAddress ==
  mailbox = <<>> =>
    \A u \in Users : registered[u] # NoConn =>
      /\ conn[registered[u]] = "open"
      /\ Owner[registered[u]] = u
      /\ \E r \in Rooms : u \in rooms[r]

(***************************************************************************)
(* Nothing is missed between joining the room and reading the view, nor    *)
(* between a commit and its push: when all is quiet, a page that shows a   *)
(* game, whose connection is the registered one and in the game's room, was*)
(* sent a view with every move - its own, and those of other users whose   *)
(* connection lived to send the push.  The latter is not promised to a page*)
(* whose last view could not be read: it may have been in another room     *)
(* meanwhile.                                                              *)
(***************************************************************************)
Quiet == mailbox = <<>> /\ \A r \in Requests : requests[r] = Idle

Follows(c, g) ==
  /\ conn[c] = "open"
  /\ registered[Owner[c]] = c
  /\ showing[c] = g
  /\ Owner[c] \in rooms[g]

Promised(c, g, i) ==
  \/ played[g][i] = c
  \/ Owner[played[g][i]] # Owner[c] /\ c \notin unanswered

CaughtUp ==
  Quiet => \A c \in Conns, g \in Games : Follows(c, g) =>
    \A i \in DOMAIN played[g] :
      Promised(c, g, i) /\ i \notin untold[g] => told[c][g] >= i

(***************************************************************************)
(* The heartbeat: a connection whose peer is gone is found out, and the    *)
(* server stops sending to it.                                             *)
(***************************************************************************)
SilentForgotten ==
  \A c \in Conns : (c \in silent /\ conn[c] = "open") ~> (registered[Owner[c]] # c)

(***************************************************************************)
(* WsHcGameSession calls its id a "unique session id", and HcGameServer    *)
(* says that it "maintains list of connection client session": a live      *)
(* connection is on that list.                                             *)
(***************************************************************************)
LiveRegistered ==
  mailbox = <<>> =>
    \A c \in Conns : conn[c] = "open" /\ c \notin silent => registered[Owner[c]] = c

=============================================================================
