------------------------ MODULE WsHcGameSessionProofs -----------------------
(***************************************************************************)
(* Proofs about the connections and the game server, for any users,        *)
(* connections, games and frames in progress, however they interleave.     *)
(***************************************************************************)
EXTENDS WsHcGameSession, SequenceTheorems, TLAPS

-----------------------------------------------------------------------------
(* The inductive invariant.                                                *)

(***************************************************************************)
(* As much of TypeOK as the server's state depends on.                     *)
(***************************************************************************)
Typed ==
  /\ ServerTypeOK
  /\ conn \in [Conns -> {"absent", "starting", "open", "stopped"}]
  /\ played \in [Games -> Seq(Conns)]
  /\ \A r \in Requests : requests[r] # Idle =>
       requests[r].conn \in Conns /\ requests[r].game \in Games /\ requests[r].shows \in Nat
  /\ DOMAIN requests = Requests

(***************************************************************************)
(* An actor that announced itself waits for that to be handled, and does   *)
(* so once.                                                                *)
(***************************************************************************)
ConnectAt(i) == mailbox[i].type = "Connect"

Announced ==
  /\ \A i \in DOMAIN mailbox : ConnectAt(i) =>
       conn[mailbox[i].conn] = "starting" /\ mailbox[i].user = Owner[mailbox[i].conn]
  /\ \A i, j \in DOMAIN mailbox : ConnectAt(i) /\ ConnectAt(j) /\ i # j =>
       mailbox[i].conn # mailbox[j].conn

(***************************************************************************)
(* A user who is registered is so under a connection of theirs, which is   *)
(* open or has a Disconnect on its way, and is in a room.                  *)
(***************************************************************************)
LeavingSoon(u) == \E i \in DOMAIN mailbox : mailbox[i] = Disconnect(u)

Addressed ==
  \A u \in Users : registered[u] # NoConn =>
    /\ Owner[registered[u]] = u
    /\ conn[registered[u]] = "open" \/ (conn[registered[u]] = "stopped" /\ LeavingSoon(u))
    /\ \E r \in Rooms : u \in rooms[r]

IInv == Typed /\ OneGameRoom /\ Announced /\ Addressed

-----------------------------------------------------------------------------
(* Lemmas about the mailbox.                                               *)

(***************************************************************************)
(* What is left of a mailbox when its first message is taken.              *)
(***************************************************************************)
LEMMA Taken ==
  ASSUME NEW T, NEW s \in Seq(T), s # <<>>
  PROVE  /\ Head(s) \in T
         /\ Head(s) = s[1]
         /\ 1 \in DOMAIN s
         /\ Tail(s) \in Seq(T)
         /\ \A i \in DOMAIN Tail(s) : i + 1 \in DOMAIN s /\ Tail(s)[i] = s[i + 1]
         /\ \A i \in DOMAIN s : i # 1 => i - 1 \in DOMAIN Tail(s) /\ Tail(s)[i - 1] = s[i]
<1>1. Len(s) \in Nat \ {0} /\ DOMAIN s = 1 .. Len(s) /\ \A i \in 1 .. Len(s) : s[i] \in T
  BY EmptySeq, LenProperties
<1>2. Head(s) = s[1]
  BY HeadTailProperties
<1>3. Tail(s) \in Seq(T) /\ Len(Tail(s)) = Len(s) - 1
      /\ \A i \in 1 .. Len(Tail(s)) : Tail(s)[i] = s[i + 1]
  BY HeadTailProperties
<1>4. DOMAIN Tail(s) = 1 .. Len(s) - 1
  BY <1>3, LenProperties
<1> QED
  BY <1>1, <1>2, <1>3, <1>4

(***************************************************************************)
(* What a mailbox holds when a message was added.                          *)
(***************************************************************************)
LEMMA Added ==
  ASSUME NEW T, NEW s \in Seq(T), NEW m \in T
  PROVE  /\ Append(s, m) \in Seq(T)
         /\ DOMAIN Append(s, m) = DOMAIN s \cup {Len(s) + 1}
         /\ Len(s) + 1 \notin DOMAIN s
         /\ \A i \in DOMAIN s : Append(s, m)[i] = s[i]
         /\ Append(s, m)[Len(s) + 1] = m
<1>1. Len(s) \in Nat /\ DOMAIN s = 1 .. Len(s)
  BY LenProperties
<1>2. /\ Append(s, m) \in Seq(T)
      /\ Len(Append(s, m)) = Len(s) + 1
      /\ \A i \in 1 .. Len(s) : Append(s, m)[i] = s[i]
      /\ Append(s, m)[Len(s) + 1] = m
  BY AppendProperties
<1>3. DOMAIN Append(s, m) = 1 .. Len(s) + 1
  BY <1>2, LenProperties
<1> QED
  BY <1>1, <1>2, <1>3

(***************************************************************************)
(* A Connect names a connection and a user.                                *)
(***************************************************************************)
LEMMA ConnectTyped ==
  ASSUME mailbox \in Seq(Messages)
  PROVE  \A i \in DOMAIN mailbox : ConnectAt(i) =>
           mailbox[i].conn \in Conns /\ mailbox[i].user \in Users
<1> SUFFICES ASSUME NEW i \in DOMAIN mailbox, ConnectAt(i)
             PROVE  mailbox[i].conn \in Conns /\ mailbox[i].user \in Users
  OBVIOUS
<1>1. mailbox[i] \in Messages
  OBVIOUS
<1> QED
  BY <1>1 DEF Messages, ConnectAt, Connect, Disconnect, Join

StillStarting == \A c \in Conns : conn[c] = "starting" => conn'[c] = "starting"

(***************************************************************************)
(* Adding anything but a Connect, which an actor sends in starting only,   *)
(* leaves the invariant's view of the mailbox as it was.                   *)
(***************************************************************************)
LEMMA AddedNotice ==
  ASSUME mailbox \in Seq(Messages), NEW m \in Messages, m.type # "Connect",
         mailbox' = Append(mailbox, m)
  PROVE  /\ mailbox' \in Seq(Messages)
         /\ Announced /\ StillStarting => Announced'
         /\ \A u \in Users : LeavingSoon(u) => LeavingSoon(u)'
<1>1. /\ mailbox' \in Seq(Messages)
      /\ DOMAIN mailbox' = DOMAIN mailbox \cup {Len(mailbox) + 1}
      /\ \A i \in DOMAIN mailbox : mailbox'[i] = mailbox[i]
      /\ mailbox'[Len(mailbox) + 1] = m
  BY Added
<1>2. \A i \in DOMAIN mailbox' : ConnectAt(i)' => i \in DOMAIN mailbox /\ mailbox'[i] = mailbox[i] /\ ConnectAt(i)
  BY <1>1 DEF ConnectAt
<1>3. Announced /\ StillStarting => Announced'
  BY <1>2, ConnectTyped DEF Announced, ConnectAt, StillStarting
<1>4. \A u \in Users : LeavingSoon(u) => LeavingSoon(u)'
  BY <1>1 DEF LeavingSoon, Disconnect
<1> QED
  BY <1>1, <1>3, <1>4

(***************************************************************************)
(* Taking a message leaves the others, and their order.                    *)
(***************************************************************************)
LEMMA TakenNotice ==
  ASSUME mailbox \in Seq(Messages), mailbox # <<>>, mailbox' = Tail(mailbox)
  PROVE  /\ mailbox' \in Seq(Messages)
         /\ Head(mailbox) \in Messages
         /\ Announced /\ StillStarting => Announced'
         /\ \A u \in Users : LeavingSoon(u) /\ Head(mailbox) # Disconnect(u) => LeavingSoon(u)'
<1>1. /\ mailbox' \in Seq(Messages)
      /\ Head(mailbox) \in Messages
      /\ Head(mailbox) = mailbox[1]
      /\ \A i \in DOMAIN mailbox' : i + 1 \in DOMAIN mailbox /\ mailbox'[i] = mailbox[i + 1]
      /\ \A i \in DOMAIN mailbox : i # 1 => i - 1 \in DOMAIN mailbox' /\ mailbox'[i - 1] = mailbox[i]
  BY Taken
<1>2. \A i, j \in DOMAIN mailbox' : i # j => i + 1 # j + 1
  BY <1>1, LenProperties
<1>3. \A i \in DOMAIN mailbox' : ConnectAt(i)' => ConnectAt(i + 1)
  BY <1>1 DEF ConnectAt
<1>4. Announced /\ StillStarting => Announced'
  BY <1>1, <1>2, <1>3, ConnectTyped DEF Announced, StillStarting
<1>5. \A u \in Users : LeavingSoon(u) /\ Head(mailbox) # Disconnect(u) => LeavingSoon(u)'
  BY <1>1 DEF LeavingSoon, Disconnect
<1> QED
  BY <1>1, <1>4, <1>5

-----------------------------------------------------------------------------
(* The steps preserve the invariant: the server's handlers first.          *)

(***************************************************************************)
(* Handling a Connect.                                                     *)
(***************************************************************************)
LEMMA ConnectedInv ==
  ASSUME IInv, Connected
  PROVE  IInv'
<1> DEFINE m == Head(mailbox)
<1>1. mailbox \in Seq(Messages) /\ mailbox # <<>> /\ m.type = "Connect" /\ mailbox' = Tail(mailbox)
  BY DEF IInv, Typed, ServerTypeOK, Connected, HandleConnect, Receives
<1>2. 1 \in DOMAIN mailbox /\ m = mailbox[1] /\ ConnectAt(1)
  BY <1>1, Taken DEF ConnectAt
<1>3. m.conn \in Conns /\ m.user \in Users /\ m.user = Owner[m.conn] /\ conn[m.conn] = "starting"
  BY <1>1, <1>2, ConnectTyped DEF IInv, Announced
<1>4. /\ registered' = [registered EXCEPT ![m.user] = m.conn]
      /\ rooms' = [rooms EXCEPT ![MAIN_ROOM] = @ \cup {m.user}]
      /\ conn' = [conn EXCEPT ![m.conn] = "open"]
      /\ UNCHANGED <<requests, played>>
  BY DEF Connected, HandleConnect
<1>5. /\ mailbox' \in Seq(Messages)
      /\ \A i \in DOMAIN mailbox' : i + 1 \in DOMAIN mailbox /\ mailbox'[i] = mailbox[i + 1]
      /\ \A u \in Users : LeavingSoon(u) /\ m # Disconnect(u) => LeavingSoon(u)'
  BY <1>1, Taken, TakenNotice
<1>6. Typed'
  BY <1>3, <1>4, <1>5 DEF IInv, Typed, ServerTypeOK, Rooms
<1>7. OneGameRoom'
  BY <1>4, ServerAssumption DEF IInv, Typed, ServerTypeOK, OneGameRoom, Rooms
<1>8. Announced'
  <2>1. \A i \in DOMAIN mailbox' : i + 1 # 1 /\ (ConnectAt(i)' => ConnectAt(i + 1))
    <3> SUFFICES ASSUME NEW i \in DOMAIN mailbox'
                 PROVE  i + 1 # 1 /\ (ConnectAt(i)' => ConnectAt(i + 1))
      OBVIOUS
    <3>1. i \in Nat \ {0}
      BY <1>5, LenProperties
    <3> QED
      BY <3>1, <1>5 DEF ConnectAt
  <2>2. \A i \in DOMAIN mailbox' : ConnectAt(i)' => mailbox[i + 1].conn # m.conn
    BY <1>2, <1>5, <2>1 DEF IInv, Announced
  <2>3. \A i \in DOMAIN mailbox' : ConnectAt(i)' =>
          conn'[mailbox'[i].conn] = "starting" /\ mailbox'[i].user = Owner[mailbox'[i].conn]
    BY <1>1, <1>4, <1>5, <2>1, <2>2, ConnectTyped DEF IInv, Typed, Announced
  <2>4. \A i, j \in DOMAIN mailbox' : i # j => i + 1 # j + 1
    BY <1>5, LenProperties
  <2> QED
    BY <1>5, <2>1, <2>3, <2>4 DEF IInv, Announced
<1>9. Addressed'
  <2> SUFFICES ASSUME NEW u \in Users, registered'[u] # NoConn
               PROVE  /\ Owner[registered'[u]] = u
                      /\ conn'[registered'[u]] = "open"
                           \/ (conn'[registered'[u]] = "stopped" /\ LeavingSoon(u)')
                      /\ \E r \in Rooms : u \in rooms'[r]
    BY DEF Addressed
  <2>1. CASE u = m.user
    <3>1. registered'[u] = m.conn /\ conn'[m.conn] = "open"
      BY <1>3, <1>4, <2>1 DEF IInv, Typed, ServerTypeOK
    <3>2. MAIN_ROOM \in Rooms /\ u \in rooms'[MAIN_ROOM]
      BY <1>4, <2>1 DEF IInv, Typed, ServerTypeOK, Rooms
    <3>3. Owner[registered'[u]] = u /\ conn'[registered'[u]] = "open"
      BY <1>3, <2>1, <3>1
    <3> QED
      BY <3>2, <3>3
  <2>2. CASE u # m.user
    <3>1. registered'[u] = registered[u] /\ registered[u] \in Conns
      BY <1>4, <2>2 DEF IInv, Typed, ServerTypeOK
    <3>2. Owner[registered[u]] = u /\ registered[u] # m.conn
      BY <1>3, <2>2, <3>1 DEF IInv, Addressed
    <3>3. conn'[registered[u]] = conn[registered[u]]
      BY <1>4, <3>1, <3>2 DEF IInv, Typed
    <3>4. m # Disconnect(u)
      BY <1>1 DEF Disconnect
    <3>5. \E r \in Rooms : u \in rooms'[r]
      BY <1>4, <3>1 DEF IInv, Addressed, Typed, ServerTypeOK
    <3> QED
      BY <1>5, <3>1, <3>2, <3>3, <3>4, <3>5 DEF IInv, Addressed
  <2> QED
    BY <2>1, <2>2
<1> QED
  BY <1>6, <1>7, <1>8, <1>9 DEF IInv

(***************************************************************************)
(* Handling a Disconnect.                                                  *)
(***************************************************************************)
LEMMA DisconnectInv ==
  ASSUME IInv, HandleDisconnect, UNCHANGED sessionVars
  PROVE  IInv'
<1> DEFINE d == Head(mailbox).user
<1>1. mailbox \in Seq(Messages) /\ mailbox # <<>> /\ mailbox' = Tail(mailbox)
      /\ Head(mailbox).type = "Disconnect"
  BY DEF IInv, Typed, ServerTypeOK, HandleDisconnect, Receives
<1>2. /\ mailbox' \in Seq(Messages)
      /\ Head(mailbox) \in Messages
      /\ Announced'
      /\ \A u \in Users : LeavingSoon(u) /\ Head(mailbox) # Disconnect(u) => LeavingSoon(u)'
  BY <1>1, TakenNotice DEF IInv, StillStarting, sessionVars
<1>3. d \in Users
  BY <1>1, <1>2 DEF Messages, Connect, Disconnect, Join
<1>4. \A u \in Users : u # d => Head(mailbox) # Disconnect(u)
  BY DEF Disconnect
<1>5. CASE registered[d] = NoConn
  <2>1. UNCHANGED <<registered, rooms, conn, requests, played>>
    BY <1>5 DEF HandleDisconnect, sessionVars
  <2>2. Typed' /\ OneGameRoom'
    BY <1>2, <2>1 DEF IInv, Typed, ServerTypeOK, OneGameRoom
  <2>3. Addressed'
    BY <1>2, <1>4, <1>5, <2>1 DEF IInv, Addressed
  <2> QED
    BY <1>2, <2>2, <2>3 DEF IInv
<1>6. CASE registered[d] # NoConn
  <2>1. /\ registered' = [registered EXCEPT ![d] = NoConn]
        /\ rooms' = [r \in Rooms |-> rooms[r] \ {d}]
        /\ UNCHANGED <<conn, requests, played>>
    BY <1>6 DEF HandleDisconnect, sessionVars
  <2>2. Typed'
    BY <1>2, <2>1 DEF IInv, Typed, ServerTypeOK
  <2>3. OneGameRoom'
    BY <2>1 DEF IInv, OneGameRoom, Rooms
  <2>4. Addressed'
    <3> SUFFICES ASSUME NEW u \in Users, registered'[u] # NoConn
                 PROVE  /\ Owner[registered'[u]] = u
                        /\ conn'[registered'[u]] = "open"
                             \/ (conn'[registered'[u]] = "stopped" /\ LeavingSoon(u)')
                        /\ \E r \in Rooms : u \in rooms'[r]
      BY DEF Addressed
    <3>1. u # d /\ registered'[u] = registered[u]
      BY <1>3, <2>1 DEF IInv, Typed, ServerTypeOK
    <3>2. \E r \in Rooms : u \in rooms'[r]
      BY <2>1, <3>1 DEF IInv, Addressed
    <3> QED
      BY <1>2, <1>4, <2>1, <3>1, <3>2 DEF IInv, Addressed
  <2> QED
    BY <1>2, <2>2, <2>3, <2>4 DEF IInv
<1> QED
  BY <1>5, <1>6

(***************************************************************************)
(* Handling a Join.                                                        *)
(***************************************************************************)
LEMMA JoinInv ==
  ASSUME IInv, HandleJoin, UNCHANGED sessionVars
  PROVE  IInv'
<1> DEFINE m == Head(mailbox)
<1>1. mailbox \in Seq(Messages) /\ mailbox # <<>> /\ mailbox' = Tail(mailbox) /\ m.type = "Join"
  BY DEF IInv, Typed, ServerTypeOK, HandleJoin, Receives
<1>2. /\ mailbox' \in Seq(Messages)
      /\ m \in Messages
      /\ Announced'
      /\ \A u \in Users : LeavingSoon(u) /\ m # Disconnect(u) => LeavingSoon(u)'
  BY <1>1, TakenNotice DEF IInv, StillStarting, sessionVars
<1>3. m.user \in Users /\ m.room \in Games
  BY <1>1, <1>2 DEF Messages, Connect, Disconnect, Join
<1>4. /\ rooms' = [r \in Rooms |-> IF r = m.room THEN rooms[r] \cup {m.user} ELSE rooms[r] \ {m.user}]
      /\ UNCHANGED <<registered, conn, requests, played>>
  BY DEF HandleJoin, sessionVars
<1>5. Typed'
  BY <1>2, <1>3, <1>4 DEF IInv, Typed, ServerTypeOK
<1>6. OneGameRoom'
  BY <1>3, <1>4 DEF IInv, OneGameRoom, Rooms
<1>7. \A u \in Users : (\E r \in Rooms : u \in rooms[r]) => \E r \in Rooms : u \in rooms'[r]
  <2> SUFFICES ASSUME NEW u \in Users, NEW r \in Rooms, u \in rooms[r]
               PROVE  \E q \in Rooms : u \in rooms'[q]
    OBVIOUS
  <2>1. CASE u = m.user
    BY <1>3, <1>4, <2>1 DEF Rooms
  <2>2. CASE u # m.user
    BY <1>4, <2>2
  <2> QED
    BY <2>1, <2>2
<1>8. \A u \in Users : m # Disconnect(u)
  BY <1>1 DEF Disconnect
<1>9. Addressed'
  BY <1>2, <1>4, <1>7, <1>8 DEF IInv, Addressed
<1> QED
  BY <1>2, <1>5, <1>6, <1>9 DEF IInv

(***************************************************************************)
(* Handling a ClientMessage.                                               *)
(***************************************************************************)
LEMMA PushedInv ==
  ASSUME IInv, Pushed
  PROVE  IInv'
<1>1. mailbox \in Seq(Messages) /\ mailbox # <<>> /\ mailbox' = Tail(mailbox)
      /\ Head(mailbox).type = "ClientMessage"
      /\ UNCHANGED <<registered, rooms, conn, requests, played>>
  BY DEF IInv, Typed, ServerTypeOK, Pushed, Receives
<1>2. /\ mailbox' \in Seq(Messages)
      /\ Announced'
      /\ \A u \in Users : LeavingSoon(u) /\ Head(mailbox) # Disconnect(u) => LeavingSoon(u)'
  BY <1>1, TakenNotice DEF IInv, StillStarting
<1>3. \A u \in Users : Head(mailbox) # Disconnect(u)
  BY <1>1 DEF Disconnect
<1> QED
  BY <1>1, <1>2, <1>3 DEF IInv, Typed, ServerTypeOK, OneGameRoom, Addressed

-----------------------------------------------------------------------------
(* The actors' steps.                                                      *)

(***************************************************************************)
(* A step that sends the server nothing and changes no connection's state. *)
(***************************************************************************)
LEMMA NothingSent ==
  ASSUME IInv, UNCHANGED <<serverVars, conn>>, Typed'
  PROVE  IInv'
<1>1. UNCHANGED <<mailbox, registered, rooms, conn>>
  BY DEF serverVars
<1>2. Announced'
  BY <1>1 DEF IInv, Announced, ConnectAt
<1>3. Addressed'
  BY <1>1 DEF IInv, Addressed, LeavingSoon
<1> QED
  BY <1>1, <1>2, <1>3 DEF IInv, OneGameRoom

(***************************************************************************)
(* A step that sends the server one message, no Connect, and changes no    *)
(* connection's state.                                                     *)
(***************************************************************************)
LEMMA OneSent ==
  ASSUME IInv, UNCHANGED <<registered, rooms, conn>>, NEW m \in Messages, m.type # "Connect",
         mailbox' = Append(mailbox, m), mailbox' \in Seq(Messages) => Typed'
  PROVE  IInv'
<1>1. /\ mailbox' \in Seq(Messages)
      /\ Announced'
      /\ \A u \in Users : LeavingSoon(u) => LeavingSoon(u)'
  BY AddedNotice DEF IInv, Typed, ServerTypeOK, StillStarting
<1>2. Addressed'
  BY <1>1 DEF IInv, Addressed
<1> QED
  BY <1>1, <1>2 DEF IInv, OneGameRoom

(***************************************************************************)
(* A new connection announces itself.                                      *)
(***************************************************************************)
LEMMA StartedInv ==
  ASSUME IInv, NEW c \in Conns, Started(c)
  PROVE  IInv'
<1> DEFINE m == Connect(Owner[c], c)
<1>1. /\ conn[c] = "absent"
      /\ conn' = [conn EXCEPT ![c] = "starting"]
      /\ mailbox' = Append(mailbox, m)
      /\ UNCHANGED <<registered, rooms, requests, played>>
  BY DEF Started
<1>2. m \in Messages /\ m.type = "Connect" /\ m.conn = c /\ m.user = Owner[c]
  BY SessionAssumption DEF Messages, Connect
<1> HIDE DEF m
<1>3. /\ mailbox' \in Seq(Messages)
      /\ DOMAIN mailbox' = DOMAIN mailbox \cup {Len(mailbox) + 1}
      /\ Len(mailbox) + 1 \notin DOMAIN mailbox
      /\ \A i \in DOMAIN mailbox : mailbox'[i] = mailbox[i]
      /\ mailbox'[Len(mailbox) + 1] = m
  BY <1>1, <1>2, Added DEF IInv, Typed, ServerTypeOK
<1>4. Typed'
  BY <1>1, <1>3 DEF IInv, Typed, ServerTypeOK
<1>5. \A i \in DOMAIN mailbox : ConnectAt(i) =>
        mailbox[i].conn \in Conns /\ mailbox[i].conn # c /\ conn'[mailbox[i].conn] = "starting"
  BY <1>1, ConnectTyped DEF IInv, Typed, ServerTypeOK, Announced
<1>6. conn'[c] = "starting"
  BY <1>1 DEF IInv, Typed
<1>7. \A i \in DOMAIN mailbox : ConnectAt(i)' <=> ConnectAt(i)
  BY <1>3 DEF ConnectAt
<1>8. Announced'
  BY <1>2, <1>3, <1>5, <1>6, <1>7 DEF IInv, Announced
<1>9. Addressed'
  <2>1. \A u \in Users : LeavingSoon(u) => LeavingSoon(u)'
    BY <1>3 DEF LeavingSoon, Disconnect
  <2>2. \A u \in Users : registered[u] # NoConn => conn'[registered[u]] = conn[registered[u]]
    BY <1>1 DEF IInv, Typed, ServerTypeOK, Addressed
  <2> QED
    BY <1>1, <2>1, <2>2 DEF IInv, Addressed
<1> QED
  BY <1>1, <1>4, <1>8, <1>9 DEF IInv, OneGameRoom

(***************************************************************************)
(* An actor stops and says so.                                             *)
(***************************************************************************)
LEMMA StoppedInv ==
  ASSUME IInv, NEW c \in Conns, NEW mail \in Seq(Messages), Stopping(c, mail),
         \A i \in DOMAIN mailbox : i \in DOMAIN mail /\ mail[i] = mailbox[i],
         \A i \in DOMAIN mail \ DOMAIN mailbox : mail[i].type # "Connect"
  PROVE  IInv'
<1> DEFINE m == Disconnect(Owner[c])
<1>1. /\ conn[c] = "open"
      /\ conn' = [conn EXCEPT ![c] = "stopped"]
      /\ mailbox' = Append(mail, m)
      /\ UNCHANGED <<registered, rooms, played>>
  BY DEF Stopping
<1>2. m \in Messages /\ m.type # "Connect"
  BY SessionAssumption DEF Messages, Disconnect
<1> HIDE DEF m
<1>3. /\ mailbox' \in Seq(Messages)
      /\ DOMAIN mailbox' = DOMAIN mail \cup {Len(mail) + 1}
      /\ \A i \in DOMAIN mail : mailbox'[i] = mail[i]
      /\ mailbox'[Len(mail) + 1] = m
  BY <1>1, <1>2, Added
<1>4. Typed'
  <2>1. requests' = [r \in Requests |->
           IF requests[r] # Idle /\ requests[r].conn = c THEN Idle ELSE requests[r]]
    BY DEF Stopping, DropRequests
  <2> QED
    BY <1>1, <1>3, <2>1 DEF IInv, Typed, ServerTypeOK
<1>5. \A i \in DOMAIN mailbox' : ConnectAt(i)' =>
        i \in DOMAIN mailbox /\ mailbox'[i] = mailbox[i] /\ ConnectAt(i)
  BY <1>2, <1>3 DEF ConnectAt
<1>6. \A i \in DOMAIN mailbox : ConnectAt(i) => conn'[mailbox[i].conn] = conn[mailbox[i].conn]
  BY <1>1, ConnectTyped DEF IInv, Typed, ServerTypeOK, Announced
<1>7. Announced'
  BY <1>5, <1>6 DEF IInv, Announced
<1>8. Addressed'
  <2> SUFFICES ASSUME NEW u \in Users, registered[u] # NoConn
               PROVE  conn'[registered[u]] = "open"
                        \/ (conn'[registered[u]] = "stopped" /\ LeavingSoon(u)')
    BY <1>1 DEF IInv, Addressed
  <2>1. registered[u] \in Conns /\ Owner[registered[u]] = u
    BY DEF IInv, Typed, ServerTypeOK, Addressed
  <2>2. CASE registered[u] = c
    <3>1. LeavingSoon(u)'
      BY <1>3, <2>1, <2>2 DEF LeavingSoon, Disconnect, m
    <3> QED
      BY <1>1, <2>2, <3>1 DEF IInv, Typed
  <2>3. CASE registered[u] # c
    <3>1. LeavingSoon(u) => LeavingSoon(u)'
      BY <1>3 DEF LeavingSoon, Disconnect
    <3> QED
      BY <1>1, <2>1, <2>3, <3>1 DEF IInv, Typed, Addressed
  <2> QED
    BY <2>2, <2>3
<1> QED
  BY <1>1, <1>4, <1>7, <1>8 DEF IInv, OneGameRoom

(***************************************************************************)
(* A frame arrives: a game is opened or a move made.                       *)
(***************************************************************************)
LEMMA FrameInv ==
  ASSUME IInv, NEW r \in Requests, NEW c \in Conns, NEW g \in Games,
         OpenGame(r, c, g) \/ Move(r, c, g)
  PROVE  IInv'
<1>1. ASSUME NEW stage, FrameArrives(r, c, g, stage), UNCHANGED <<registered, rooms, conn, played>>,
             mailbox' \in Seq(Messages)
      PROVE  Typed'
  BY <1>1 DEF IInv, Typed, ServerTypeOK, FrameArrives, Idle
<1>2. CASE OpenGame(r, c, g)
  <2>1. Join(Owner[c], g) \in Messages /\ Join(Owner[c], g).type # "Connect"
    BY SessionAssumption DEF Messages, Join
  <2>2. mailbox' = Append(mailbox, Join(Owner[c], g)) /\ FrameArrives(r, c, g, "viewing")
        /\ UNCHANGED <<registered, rooms, conn, played>>
    BY <1>2 DEF OpenGame
  <2> QED
    BY <1>1, <2>1, <2>2, OneSent
<1>3. CASE Move(r, c, g)
  <2>1. FrameArrives(r, c, g, "begun") /\ UNCHANGED <<serverVars, registered, rooms, conn, played>>
        /\ mailbox' \in Seq(Messages)
    BY <1>3 DEF Move, serverVars, IInv, Typed, ServerTypeOK
  <2> QED
    BY <1>1, <2>1, NothingSent
<1> QED
  BY <1>2, <1>3

(***************************************************************************)
(* A frame in progress: its view, its commit and its push.                 *)
(***************************************************************************)
LEMMA RequestInv ==
  ASSUME IInv, NEW r \in Requests,
         SendView(r) \/ ViewFails(r) \/ Commit(r) \/ Refuse(r) \/ ReadOpponentView(r)
           \/ PushFails(r) \/ Push(r)
  PROVE  IInv'
<1>0. requests[r] # Idle /\ requests[r].conn \in Conns /\ requests[r].game \in Games
      /\ requests[r].shows \in Nat
  BY DEF IInv, Typed, SendView, ViewFails, Commit, Refuse, ReadOpponentView, PushFails, Push, Idle
<1>1. CASE SendView(r) \/ ViewFails(r) \/ Refuse(r) \/ PushFails(r)
  <2>1. requests' = [requests EXCEPT ![r] = Idle] /\ UNCHANGED <<serverVars, conn, played>>
    BY <1>1 DEF SendView, ViewFails, Refuse, PushFails, Respond
  <2>2. Typed'
    BY <2>1 DEF IInv, Typed, ServerTypeOK, serverVars
  <2> QED
    BY <2>1, <2>2, NothingSent
<1>2. CASE Commit(r)
  <2> DEFINE g == requests[r].game
  <2>1. /\ played' = [played EXCEPT ![g] = Append(@, requests[r].conn)]
        /\ requests' = [requests EXCEPT ![r].stage = "committed", ![r].move = Len(played[g]) + 1]
        /\ UNCHANGED <<serverVars, conn>>
    BY <1>2 DEF Commit
  <2>2. Append(played[g], requests[r].conn) \in Seq(Conns)
    BY <1>0, AppendProperties DEF IInv, Typed
  <2>3. played' \in [Games -> Seq(Conns)]
    BY <1>0, <2>1, <2>2 DEF IInv, Typed
  <2>4. Typed'
    BY <1>0, <2>1, <2>3 DEF IInv, Typed, ServerTypeOK, serverVars, Idle
  <2> QED
    BY <2>1, <2>4, NothingSent
<1>3. CASE ReadOpponentView(r)
  <2>1. /\ requests' = [requests EXCEPT ![r].stage = "pushing",
                                        ![r].shows = Len(played[requests[r].game])]
        /\ UNCHANGED <<serverVars, conn, played>>
    BY <1>3 DEF ReadOpponentView
  <2>2. Len(played[requests[r].game]) \in Nat
    BY <1>0, LenProperties DEF IInv, Typed
  <2>3. Typed'
    BY <1>0, <2>1, <2>2 DEF IInv, Typed, ServerTypeOK, serverVars, Idle
  <2> QED
    BY <2>1, <2>3, NothingSent
<1>4. CASE Push(r)
  <2> DEFINE m == ClientMessage(Owner[requests[r].conn], requests[r].game, requests[r].shows)
  <2>1. /\ mailbox' = Append(mailbox, m)
        /\ requests' = [requests EXCEPT ![r] = Idle]
        /\ UNCHANGED <<registered, rooms, conn, played>>
    BY <1>4 DEF Push, Respond
  <2>2. m \in Messages /\ m.type # "Connect"
    BY <1>0, SessionAssumption DEF Messages, ClientMessage
  <2>3. mailbox' \in Seq(Messages) => Typed'
    BY <2>1 DEF IInv, Typed, ServerTypeOK
  <2> HIDE DEF m
  <2> QED
    BY <2>1, <2>2, <2>3, OneSent
<1> QED
  BY <1>1, <1>2, <1>3, <1>4

-----------------------------------------------------------------------------
(* Theorems.                                                               *)

(***************************************************************************)
(* The invariant holds at the start, when nobody is connected.             *)
(***************************************************************************)
LEMMA InitInv == Init => IInv
<1> SUFFICES ASSUME Init
             PROVE  IInv
  OBVIOUS
<1>1. mailbox = <<>> /\ mailbox \in Seq(Messages) /\ DOMAIN mailbox = {}
  BY EmptySeq, LenProperties DEF Init, ServerInit
<1>2. Typed
  BY <1>1, EmptySeq DEF Init, ServerInit, Typed, ServerTypeOK
<1>3. OneGameRoom
  BY DEF Init, ServerInit, OneGameRoom, Rooms
<1>4. Announced
  BY <1>1 DEF Announced
<1>5. Addressed
  BY DEF Init, ServerInit, Addressed
<1> QED
  BY <1>2, <1>3, <1>4, <1>5 DEF IInv

(***************************************************************************)
(* Every step of the server, an actor or a frame keeps the invariant.      *)
(***************************************************************************)
LEMMA StepInv == IInv /\ [Next]_vars => IInv'
<1> SUFFICES ASSUME IInv, [Next]_vars
             PROVE  IInv'
  OBVIOUS
<1>1. CASE ServerStep
  BY <1>1, ConnectedInv, DisconnectInv, JoinInv, PushedInv DEF ServerStep
<1>2. ASSUME NEW c \in Conns, Started(c)
      PROVE  IInv'
  BY <1>2, StartedInv
<1>3. ASSUME NEW c \in Conns, GoSilent(c)
      PROVE  IInv'
  <2>1. UNCHANGED <<serverVars, conn, requests, played>>
    BY <1>3 DEF GoSilent
  <2>2. Typed'
    BY <2>1 DEF IInv, Typed, ServerTypeOK, serverVars
  <2> QED
    BY <2>1, <2>2, NothingSent
<1>4. ASSUME NEW c \in Conns, Closed(c)
      PROVE  IInv'
  BY <1>4, StoppedInv DEF Closed, IInv, Typed, ServerTypeOK
<1>5. ASSUME NEW c \in Conns, HeartbeatFailed(c)
      PROVE  IInv'
  <2>1. mailbox \in Seq(Messages) /\ Disconnect(Owner[c]) \in Messages
        /\ Disconnect(Owner[c]).type # "Connect"
    BY SessionAssumption DEF IInv, Typed, ServerTypeOK, Messages, Disconnect
  <2> DEFINE mail == Append(mailbox, Disconnect(Owner[c]))
  <2>2. /\ mail \in Seq(Messages)
        /\ \A i \in DOMAIN mailbox : i \in DOMAIN mail /\ mail[i] = mailbox[i]
        /\ \A i \in DOMAIN mail \ DOMAIN mailbox : mail[i].type # "Connect"
    BY <2>1, Added
  <2>3. Stopping(c, mail)
    BY <1>5 DEF HeartbeatFailed
  <2> HIDE DEF mail
  <2> QED
    BY <2>2, <2>3, StoppedInv
<1>6. ASSUME NEW c \in Conns, NEW r \in Requests, NEW g \in Games, OpenGame(r, c, g) \/ Move(r, c, g)
      PROVE  IInv'
  BY <1>6, FrameInv
<1>7. ASSUME NEW r \in Requests,
             SendView(r) \/ ViewFails(r) \/ Commit(r) \/ Refuse(r) \/ ReadOpponentView(r)
               \/ PushFails(r) \/ Push(r)
      PROVE  IInv'
  BY <1>7, RequestInv
<1>8. CASE UNCHANGED vars
  <2>1. UNCHANGED <<serverVars, conn, requests, played>>
    BY <1>8 DEF vars, serverVars
  <2>2. Typed'
    BY <2>1 DEF IInv, Typed, ServerTypeOK, serverVars
  <2> QED
    BY <2>1, <2>2, NothingSent
<1> QED
  BY <1>1, <1>2, <1>3, <1>4, <1>5, <1>6, <1>7, <1>8 DEF Next

(***************************************************************************)
(* The connections' invariant.                                             *)
(***************************************************************************)
THEOREM SessionInvariant == Spec => []IInv
<1> QED
  BY InitInv, StepInv, PTL DEF Spec

(***************************************************************************)
(* However many connections a user has had, and whatever is under way on   *)
(* them, the user is in the room of one game at most.                      *)
(***************************************************************************)
THEOREM OneGameRoomEach == Spec => []OneGameRoom
<1>1. IInv => OneGameRoom
  BY DEF IInv
<1> QED
  BY <1>1, SessionInvariant, PTL

(***************************************************************************)
(* A server that has handled all it was sent holds no address of a stopped *)
(* actor or of another user, and everybody it has an address of is in a    *)
(* room.                                                                   *)
(***************************************************************************)
THEOREM NoAddressIsDead == Spec => []NoDeadAddress
<1>1. IInv => NoDeadAddress
  <2> SUFFICES ASSUME IInv, mailbox = <<>>, NEW u \in Users, registered[u] # NoConn
               PROVE  /\ conn[registered[u]] = "open"
                      /\ Owner[registered[u]] = u
                      /\ \E r \in Rooms : u \in rooms[r]
    BY DEF NoDeadAddress
  <2>1. DOMAIN mailbox = {}
    BY EmptySeq, LenProperties
  <2>2. ~LeavingSoon(u)
    BY <2>1 DEF LeavingSoon
  <2> QED
    BY <2>2 DEF IInv, Addressed
<1> QED
  BY <1>1, SessionInvariant, PTL

-----------------------------------------------------------------------------
(* The moves on their way.                                                 *)

(***************************************************************************)
(* TypeOK, and what keeps the numbers in a view below the bound.           *)
(***************************************************************************)
Counted ==
  /\ TypeOK
  /\ \A g \in Games : Len(played[g]) <= MaxMoves
  /\ \A p \in DOMAIN mailbox : mailbox[p].type = "ClientMessage" => mailbox[p].shows <= MaxMoves

(***************************************************************************)
(* A frame in progress belongs to an open connection, and carries the move *)
(* it committed: the view it pushes shows that move.                       *)
(***************************************************************************)
Carries(r) == requests[r] # Idle /\ requests[r].stage \in {"committed", "pushing"}

Carried ==
  \A r \in Requests : requests[r] # Idle =>
    /\ conn[requests[r].conn] = "open"
    /\ Carries(r) =>
         /\ requests[r].move \in DOMAIN played[requests[r].game]
         /\ played[requests[r].game][requests[r].move] = requests[r].conn
    /\ requests[r].stage = "pushing" => requests[r].shows >= requests[r].move

(***************************************************************************)
(* Of a user's connections only the latest may still be heard: those that  *)
(* came before the one registered, or before one yet to be registered, are *)
(* silent or stopped.                                                      *)
(***************************************************************************)
Before(c, d) == d # c /\ Owner[d] = Owner[c]

Succession ==
  /\ \A c, d \in Conns : Before(c, d) /\ registered[Owner[c]] = c /\ conn[d] = "open" => d \in silent
  /\ \A p \in DOMAIN mailbox : ConnectAt(p) =>
       \A d \in Conns : Before(mailbox[p].conn, d) /\ conn[d] = "open" => d \in silent
  /\ \A p, q \in DOMAIN mailbox : ConnectAt(p) /\ ConnectAt(q) /\ p < q
       /\ mailbox[p].user = mailbox[q].user => mailbox[p].conn \in silent

InTransit(g, i) == \E r \in Requests : Carries(r) /\ requests[r].game = g /\ requests[r].move = i

(***************************************************************************)
(* A page was sent its own moves, or will be in the response.              *)
(***************************************************************************)
OwnMoves ==
  /\ \A c \in Conns : showing[c] # NoGame => conn[c] = "open"
  /\ \A c \in Conns, g \in Games : conn[c] # "stopped" =>
       \A i \in DOMAIN played[g] : played[g][i] = c => told[c][g] >= i \/ InTransit(g, i)

(***************************************************************************)
(* The room a user is in when the mailbox has been handled, and the views  *)
(* in the mailbox that will find the user there.                           *)
(***************************************************************************)
JoinAt(u, p) == mailbox[p].type = "Join" /\ mailbox[p].user = u

Settled(u, p) == \A q \in DOMAIN mailbox : q > p => ~JoinAt(u, q)

BoundFor(u, g) ==
  \/ \E p \in DOMAIN mailbox : mailbox[p] = Join(u, g) /\ Settled(u, p)
  \/ Settled(u, 0) /\ u \in rooms[g]

ViewAt(p, u, g, i) ==
  /\ mailbox[p].type = "ClientMessage"
  /\ mailbox[p].user # u
  /\ mailbox[p].room = g
  /\ mailbox[p].shows >= i

Coming(u, g, i) == \E p \in DOMAIN mailbox : ViewAt(p, u, g, i) /\ Settled(u, p)

Viewing(c, g) ==
  \E r \in Requests : requests[r] # Idle /\ requests[r].stage = "viewing"
                      /\ requests[r].conn = c /\ requests[r].game = g

(***************************************************************************)
(* A page on the registered connection, bound for the room of the game it  *)
(* shows, whose last view was sent: it was sent a view with the move, or it*)
(* is about to be.                                                         *)
(***************************************************************************)
Reached(c, g, i) ==
  told[c][g] >= i \/ Viewing(c, g) \/ InTransit(g, i) \/ Coming(Owner[c], g, i)

Attached(c, g) ==
  /\ conn[c] = "open" /\ registered[Owner[c]] = c
  /\ showing[c] = g /\ c \notin unanswered
  /\ BoundFor(Owner[c], g)

Owed(c, g, i) == i \in DOMAIN played[g] /\ Owner[played[g][i]] # Owner[c] /\ i \notin untold[g]

InTouch ==
  \A c \in Conns, g \in Games : Attached(c, g) => \A i \in Nat : Owed(c, g, i) => Reached(c, g, i)

PushInv == IInv /\ Counted /\ Carried /\ Succession /\ OwnMoves /\ InTouch

-----------------------------------------------------------------------------
(* Lemmas about the mailbox, longer or shorter by a message.               *)

Grows(S) ==
  /\ \A i \in DOMAIN mailbox : i \in DOMAIN mailbox' /\ mailbox'[i] = mailbox[i]
  /\ \A i \in DOMAIN mailbox' : i \notin DOMAIN mailbox =>
       mailbox'[i] \in S /\ \A j \in DOMAIN mailbox : j < i

Shrinks ==
  /\ mailbox # <<>> /\ Head(mailbox) = mailbox[1] /\ 1 \in DOMAIN mailbox
  /\ \A i \in DOMAIN mailbox' : i + 1 \in DOMAIN mailbox /\ mailbox'[i] = mailbox[i + 1]
  /\ \A i \in DOMAIN mailbox : i # 1 => i - 1 \in DOMAIN mailbox' /\ mailbox'[i - 1] = mailbox[i]

Indexed == DOMAIN mailbox \subseteq Nat \ {0}

(***************************************************************************)
(* The positions in a mailbox are positive numbers.                        *)
(***************************************************************************)
LEMMA MailIndexed ==
  ASSUME mailbox \in Seq(Messages)
  PROVE  Indexed
BY LenProperties DEF Indexed

(***************************************************************************)
(* Nothing added, one message added, or the same one twice.                *)
(***************************************************************************)
LEMMA NoneAdded ==
  ASSUME mailbox' = mailbox
  PROVE  Grows({})
BY DEF Grows

LEMMA OneAdded ==
  ASSUME mailbox \in Seq(Messages), NEW m \in Messages, mailbox' = Append(mailbox, m)
  PROVE  Grows({m})
<1>1. Len(mailbox) \in Nat /\ DOMAIN mailbox = 1 .. Len(mailbox)
  BY LenProperties
<1>2. /\ DOMAIN mailbox' = DOMAIN mailbox \cup {Len(mailbox) + 1}
      /\ \A i \in DOMAIN mailbox : mailbox'[i] = mailbox[i]
      /\ mailbox'[Len(mailbox) + 1] = m
  BY Added
<1> QED
  BY <1>1, <1>2 DEF Grows

LEMMA TwoAdded ==
  ASSUME mailbox \in Seq(Messages), NEW m \in Messages, mailbox' = Append(Append(mailbox, m), m)
  PROVE  Grows({m})
<1>1. PICK mail : mail = Append(mailbox, m)
  OBVIOUS
<1>2. /\ mail \in Seq(Messages)
      /\ DOMAIN mail = DOMAIN mailbox \cup {Len(mailbox) + 1}
      /\ \A i \in DOMAIN mailbox : mail[i] = mailbox[i]
      /\ mail[Len(mailbox) + 1] = m
  BY <1>1, Added
<1>3. /\ DOMAIN mailbox' = DOMAIN mail \cup {Len(mail) + 1}
      /\ \A i \in DOMAIN mail : mailbox'[i] = mail[i]
      /\ mailbox'[Len(mail) + 1] = m
  BY <1>1, <1>2, Added
<1>4. Len(mailbox) \in Nat /\ DOMAIN mailbox = 1 .. Len(mailbox) /\ Len(mail) = Len(mailbox) + 1
  BY <1>1, LenProperties, AppendProperties
<1> QED
  BY <1>2, <1>3, <1>4 DEF Grows

LEMMA OneTaken ==
  ASSUME mailbox \in Seq(Messages), mailbox # <<>>, mailbox' = Tail(mailbox)
  PROVE  Shrinks /\ Indexed /\ Indexed'
<1>1. mailbox' \in Seq(Messages)
  BY Taken
<1>2. Indexed /\ Indexed'
  BY <1>1, LenProperties DEF Indexed
<1> QED
  BY <1>2, Taken DEF Shrinks

(***************************************************************************)
(* What is added after a view does not take the user elsewhere.            *)
(***************************************************************************)
NotFor(u, S) == \A m \in S : ~(m.type = "Join" /\ m.user = u)

LEMMA GrownSettled ==
  ASSUME NEW S, Grows(S), NEW u, NotFor(u, S), NEW p
  PROVE  Settled(u, p) <=> Settled(u, p)'
<1>1. ASSUME Settled(u, p), NEW q \in DOMAIN mailbox', q > p PROVE ~JoinAt(u, q)'
  BY <1>1 DEF Grows, NotFor, Settled, JoinAt
<1>2. ASSUME Settled(u, p)', NEW q \in DOMAIN mailbox, q > p PROVE ~JoinAt(u, q)
  BY <1>2 DEF Grows, Settled, JoinAt
<1> QED
  BY <1>1, <1>2 DEF Settled

LEMMA GrownBound ==
  ASSUME NEW S, Grows(S), NEW u, NotFor(u, S), NEW g, u \in rooms'[g] => u \in rooms[g]
  PROVE  BoundFor(u, g)' => BoundFor(u, g)
<1>1. ASSUME NEW p \in DOMAIN mailbox', mailbox'[p] = Join(u, g), Settled(u, p)'
      PROVE  BoundFor(u, g)
  <2>1. p \in DOMAIN mailbox
    BY <1>1 DEF Grows, NotFor, Join
  <2>2. mailbox[p] = Join(u, g) /\ Settled(u, p)
    BY <1>1, <2>1, GrownSettled DEF Grows
  <2> QED
    BY <2>1, <2>2 DEF BoundFor
<1>2. ASSUME Settled(u, 0)', u \in rooms'[g]
      PROVE  BoundFor(u, g)
  BY <1>2, GrownSettled DEF BoundFor
<1> QED
  BY <1>1, <1>2 DEF BoundFor

LEMMA GrownComing ==
  ASSUME NEW S, Grows(S), NEW u, NotFor(u, S), NEW g, NEW i, Coming(u, g, i)
  PROVE  Coming(u, g, i)'
<1>1. PICK p \in DOMAIN mailbox : ViewAt(p, u, g, i) /\ Settled(u, p)
  BY DEF Coming
<1>2. p \in DOMAIN mailbox' /\ ViewAt(p, u, g, i)'
  BY <1>1 DEF Grows, ViewAt
<1>3. Settled(u, p)'
  BY <1>1, GrownSettled
<1> QED
  BY <1>2, <1>3 DEF Coming

(***************************************************************************)
(* When a message is taken, a user goes on to where a Join took them.      *)
(***************************************************************************)
LEMMA ShrunkSettled ==
  ASSUME Shrinks, Indexed, Indexed', NEW u, NEW p \in Nat
  PROVE  Settled(u, p)' <=> Settled(u, p + 1)
<1>1. ASSUME Settled(u, p)', NEW q \in DOMAIN mailbox, q > p + 1 PROVE ~JoinAt(u, q)
  <2>1. q \in Nat /\ q - 1 \in DOMAIN mailbox' /\ mailbox'[q - 1] = mailbox[q] /\ q - 1 > p
    BY <1>1 DEF Shrinks, Indexed
  <2> QED
    BY <1>1, <2>1 DEF Settled, JoinAt
<1>2. ASSUME Settled(u, p + 1), NEW q \in DOMAIN mailbox', q > p PROVE ~JoinAt(u, q)'
  <2>1. q \in Nat /\ q + 1 \in DOMAIN mailbox /\ mailbox'[q] = mailbox[q + 1] /\ q + 1 > p + 1
    BY <1>2 DEF Shrinks, Indexed
  <2> QED
    BY <1>2, <2>1 DEF Settled, JoinAt
<1> QED
  BY <1>1, <1>2 DEF Settled

LEMMA ShrunkBound ==
  ASSUME Shrinks, Indexed, Indexed', NEW u, NEW g,
         u \in rooms'[g] => (u \in rooms[g] /\ ~JoinAt(u, 1)) \/ mailbox[1] = Join(u, g)
  PROVE  BoundFor(u, g)' => BoundFor(u, g)
<1>1. ASSUME NEW p \in DOMAIN mailbox', mailbox'[p] = Join(u, g), Settled(u, p)'
      PROVE  BoundFor(u, g)
  <2>1. p \in Nat /\ p + 1 \in DOMAIN mailbox /\ mailbox[p + 1] = Join(u, g)
    BY <1>1 DEF Shrinks, Indexed
  <2>2. Settled(u, p + 1)
    BY <1>1, <2>1, ShrunkSettled
  <2> QED
    BY <2>1, <2>2 DEF BoundFor
<1>2. ASSUME Settled(u, 0)', u \in rooms'[g]
      PROVE  BoundFor(u, g)
  <2>1. Settled(u, 1)
    BY <1>2, ShrunkSettled
  <2>2. CASE mailbox[1] = Join(u, g)
    BY <2>1, <2>2 DEF BoundFor, Shrinks
  <2>3. CASE u \in rooms[g] /\ ~JoinAt(u, 1)
    <3>1. Settled(u, 0)
      BY <2>1, <2>3 DEF Settled, Indexed
    <3> QED
      BY <2>3, <3>1 DEF BoundFor
  <2> QED
    BY <1>2, <2>2, <2>3
<1> QED
  BY <1>1, <1>2 DEF BoundFor

LEMMA ShrunkComing ==
  ASSUME Shrinks, Indexed, Indexed', NEW u, NEW g, NEW i, Coming(u, g, i)
  PROVE  Coming(u, g, i)' \/ (ViewAt(1, u, g, i) /\ Settled(u, 1))
<1>1. PICK p \in DOMAIN mailbox : ViewAt(p, u, g, i) /\ Settled(u, p)
  BY DEF Coming
<1>2. CASE p = 1
  BY <1>1, <1>2
<1>3. CASE p # 1
  <2>1. p - 1 \in DOMAIN mailbox' /\ mailbox'[p - 1] = mailbox[p] /\ p - 1 \in Nat /\ (p - 1) + 1 = p
    BY <1>3 DEF Shrinks, Indexed
  <2>2. Settled(u, p - 1)'
    BY <1>1, <2>1, ShrunkSettled
  <2> QED
    BY <1>1, <2>1, <2>2 DEF Coming, ViewAt
<1> QED
  BY <1>2, <1>3

-----------------------------------------------------------------------------
(* The steps keep the numbers of moves below the bound.                    *)

(***************************************************************************)
(* What an actor does that stops, found out by itself or by the heartbeat. *)
(***************************************************************************)
Stops(c) ==
  /\ conn[c] = "open"
  /\ conn' = [conn EXCEPT ![c] = "stopped"]
  /\ Grows({Disconnect(Owner[c])})
  /\ silent' = silent \ {c}
  /\ showing' = [showing EXCEPT ![c] = NoGame]
  /\ told' = [told EXCEPT ![c] = [g \in Games |-> 0]]
  /\ unanswered' = unanswered \ {c}
  /\ DropRequests(c)
  /\ UNCHANGED <<registered, rooms, played>>

LEMMA StoppingStops ==
  ASSUME Counted, NEW c \in Conns, Closed(c) \/ HeartbeatFailed(c)
  PROVE  Stops(c)
<1>1. PICK m : m = Disconnect(Owner[c])
  OBVIOUS
<1>2. mailbox \in Seq(Messages) /\ m \in Messages
  BY <1>1, SessionAssumption DEF Counted, TypeOK, ServerTypeOK, Messages
<1>3. CASE Closed(c)
  <2>1. Stopping(c, mailbox)
    BY <1>3 DEF Closed
  <2>2. mailbox' = Append(mailbox, m)
    BY <1>1, <2>1 DEF Stopping
  <2>3. Grows({m})
    BY <1>2, <2>2, OneAdded
  <2> QED
    BY <1>1, <2>1, <2>3 DEF Stopping, Stops
<1>4. CASE HeartbeatFailed(c)
  <2>1. Stopping(c, Append(mailbox, m))
    BY <1>1, <1>4 DEF HeartbeatFailed
  <2>2. mailbox' = Append(Append(mailbox, m), m)
    BY <1>1, <2>1 DEF Stopping
  <2>3. Grows({m})
    BY <1>2, <2>2, TwoAdded
  <2> QED
    BY <1>1, <2>1, <2>3 DEF Stopping, Stops
<1> QED
  BY <1>3, <1>4

(***************************************************************************)
(* A frame in progress, field by field.                                    *)
(***************************************************************************)
LEMMA RequestTyped ==
  ASSUME Counted, NEW r \in Requests, requests[r] # Idle
  PROVE  /\ requests[r] \in RequestRow
         /\ requests[r].stage \in {"viewing", "begun", "committed", "pushing"}
         /\ requests[r].conn \in Conns /\ requests[r].game \in Games
         /\ requests[r].move \in 0 .. MaxMoves /\ requests[r].shows \in 0 .. MaxMoves
BY DEF Counted, TypeOK, RequestRow

NumbersBound(S) == \A m \in S : m.type = "ClientMessage" => m.shows <= MaxMoves

MailBound == \A p \in DOMAIN mailbox : mailbox[p].type = "ClientMessage" => mailbox[p].shows <= MaxMoves

LEMMA MailBoundGrows ==
  ASSUME MailBound, NEW S, Grows(S), NumbersBound(S)
  PROVE  MailBound'
BY DEF MailBound, Grows, NumbersBound

LEMMA MailBoundShrinks ==
  ASSUME MailBound, Shrinks
  PROVE  MailBound'
BY DEF MailBound, Shrinks

(***************************************************************************)
(* Views grow.                                                             *)
(***************************************************************************)
LEMMA LargerOf ==
  ASSUME NEW m \in Nat, NEW n \in Nat
  PROVE  Larger(m, n) \in {m, n} /\ Larger(m, n) >= m /\ Larger(m, n) >= n
BY DEF Larger

LEMMA ToldGrows ==
  ASSUME Counted, NEW c \in Conns, NEW g \in Games, NEW n \in 0 .. MaxMoves, told' = Told(c, g, n)
  PROVE  /\ told' \in [Conns -> [Games -> 0 .. MaxMoves]]
         /\ told'[c][g] >= n
         /\ \A d \in Conns, h \in Games : told'[d][h] >= told[d][h]
<1> USE SessionAssumption
<1>1. told \in [Conns -> [Games -> 0 .. MaxMoves]]
  BY DEF Counted, TypeOK
<1>2. PICK k : k = Larger(told[c][g], n)
  OBVIOUS
<1>3. k \in 0 .. MaxMoves /\ k >= n /\ k >= told[c][g]
  BY <1>1, <1>2, LargerOf
<1>4. told' = [told EXCEPT ![c][g] = k]
  BY <1>2 DEF Told
<1> QED
  BY <1>1, <1>3, <1>4

(***************************************************************************)
(* What has to be shown of a step, given the invariant of the server.      *)
(***************************************************************************)
LEMMA CountedFrame ==
  ASSUME IInv', MailBound', played' = played \/ \A g \in Games : Len(played'[g]) <= MaxMoves, Counted,
         silent' \subseteq Conns,
         unanswered' \subseteq Conns,
         requests' \in [Requests -> RequestRow \cup {Idle}],
         untold' \in [Games -> SUBSET (1 .. MaxMoves)],
         showing' \in [Conns -> Games \cup {NoGame}],
         told' \in [Conns -> [Games -> 0 .. MaxMoves]]
  PROVE  Counted'
BY DEF Counted, TypeOK, IInv, Typed, MailBound

LEMMA CountedServer ==
  ASSUME Counted, IInv', ServerStep
  PROVE  Counted'
<1>1. mailbox \in Seq(Messages) /\ mailbox # <<>> /\ mailbox' = Tail(mailbox)
  BY DEF Counted, TypeOK, ServerTypeOK, ServerStep, Connected, Pushed,
         HandleConnect, HandleDisconnect, HandleJoin, Receives
<1>2. Shrinks /\ MailBound'
  BY <1>1, OneTaken, MailBoundShrinks DEF Counted, MailBound
<1>3. UNCHANGED <<silent, requests, played, untold, showing, unanswered>>
  BY DEF ServerStep, Connected, Pushed, sessionVars
<1>4. told' \in [Conns -> [Games -> 0 .. MaxMoves]]
  <2>1. CASE Pushed
    <3>1. PICK m : m = Head(mailbox)
      OBVIOUS
    <3>2. m \in Messages /\ m.type = "ClientMessage" /\ m = mailbox[1]
      BY <1>1, <2>1, <3>1, Taken DEF Pushed, Receives
    <3>3. m.room \in Games /\ m.shows \in 0 .. MaxMoves
      BY <3>2, <1>2, SessionAssumption DEF Messages, Connect, Disconnect, Join, Shrinks, Counted
    <3>4. PICK to : told' = [c \in Conns |->
                       IF c \in to THEN [told[c] EXCEPT ![m.room] = Larger(@, m.shows)] ELSE told[c]]
      BY <2>1, <3>1 DEF Pushed
    <3>5. ASSUME NEW c \in Conns PROVE told'[c] \in [Games -> 0 .. MaxMoves]
      <4>1. told[c] \in [Games -> 0 .. MaxMoves]
        BY DEF Counted, TypeOK
      <4>2. Larger(told[c][m.room], m.shows) \in 0 .. MaxMoves
        BY <3>3, <4>1, LargerOf, SessionAssumption
      <4> QED
        BY <3>4, <4>1, <4>2
    <3> QED
      BY <3>4, <3>5
  <2>2. CASE ~Pushed
    BY <2>2 DEF Counted, TypeOK, ServerStep, Connected, sessionVars
  <2> QED
    BY <2>1, <2>2
<1> QED
  BY <1>2, <1>3, <1>4, CountedFrame DEF Counted, TypeOK

LEMMA CountedConns ==
  ASSUME Counted, Carried, IInv', NEW c \in Conns, Started(c) \/ GoSilent(c) \/ Stops(c)
  PROVE  Counted'
<1> USE DEF Connect, Disconnect
<1>1. mailbox \in Seq(Messages) /\ MailBound
  BY DEF Counted, TypeOK, ServerTypeOK, MailBound
<1>2. CASE Started(c)
  <2>1. PICK m : m = Connect(Owner[c], c)
    OBVIOUS
  <2>2. m \in Messages /\ mailbox' = Append(mailbox, m)
    BY <1>2, <2>1, SessionAssumption DEF Started, Messages
  <2>3. Grows({m}) /\ NumbersBound({m})
    BY <1>1, <2>1, <2>2, OneAdded DEF NumbersBound
  <2>4. MailBound'
    BY <1>1, <2>3, MailBoundGrows
  <2> QED
    BY <1>2, <2>4, CountedFrame DEF Started, Counted, TypeOK
<1>3. CASE GoSilent(c)
  <2>1. Grows({}) /\ NumbersBound({})
    BY <1>3, NoneAdded DEF GoSilent, serverVars, NumbersBound
  <2>2. MailBound'
    BY <1>1, <2>1, MailBoundGrows
  <2> QED
    BY <1>3, <2>2, CountedFrame DEF GoSilent, Counted, TypeOK
<1>4. CASE Stops(c)
  <2>1. NumbersBound({Disconnect(Owner[c])})
    BY DEF NumbersBound
  <2>2. MailBound'
    BY <1>1, <1>4, <2>1, MailBoundGrows DEF Stops
  <2>3. requests' \in [Requests -> RequestRow \cup {Idle}]
    BY <1>4 DEF Stops, DropRequests, Counted, TypeOK
  <2>4. untold' \in [Games -> SUBSET (1 .. MaxMoves)]
    <3> DEFINE dropped(g) == {requests[r].move : r \in {q \in Requests :
                 (requests[q] # Idle /\ requests[q].conn = c)
                 /\ requests[q].stage \in {"committed", "pushing"} /\ requests[q].game = g}}
    <3>1. untold' = [g \in Games |-> untold[g] \cup dropped(g)]
      BY <1>4 DEF Stops, DropRequests
    <3>2. ASSUME NEW g \in Games, NEW r \in Requests, requests[r] # Idle, requests[r].game = g,
                 requests[r].stage \in {"committed", "pushing"}
          PROVE  requests[r].move \in 1 .. MaxMoves
      <4>1. requests[r].move \in DOMAIN played[g] /\ requests[r].move \in 0 .. MaxMoves
        BY <3>2, RequestTyped DEF Carried, Carries
      <4>2. DOMAIN played[g] = 1 .. Len(played[g])
        BY LenProperties DEF Counted, TypeOK
      <4> QED
        BY <4>1, <4>2
    <3>3. \A g \in Games : dropped(g) \subseteq 1 .. MaxMoves
      BY <3>2
    <3> HIDE DEF dropped
    <3> QED
      BY <3>1, <3>3 DEF Counted, TypeOK
  <2>5. showing' \in [Conns -> Games \cup {NoGame}] /\ silent' \subseteq Conns
        /\ unanswered' \subseteq Conns
    BY <1>4 DEF Stops, Counted, TypeOK
  <2>6. told' \in [Conns -> [Games -> 0 .. MaxMoves]]
    BY <1>4, SessionAssumption DEF Stops, Counted, TypeOK
  <2> QED
    BY <1>4, <2>2, <2>3, <2>4, <2>5, <2>6, CountedFrame DEF Stops
<1> QED
  BY <1>2, <1>3, <1>4

(***************************************************************************)
(* A frame that arrives takes a place that was idle.                       *)
(***************************************************************************)
LEMMA ArrivedTyped ==
  ASSUME Counted, NEW r \in Requests, NEW c \in Conns, NEW g \in Games,
         NEW stage \in {"viewing", "begun"}, FrameArrives(r, c, g, stage)
  PROVE  /\ requests' \in [Requests -> RequestRow \cup {Idle}]
         /\ \A q \in Requests : q # r => requests'[q] = requests[q]
         /\ requests'[r].stage = stage /\ requests'[r].conn = c /\ requests'[r].game = g
         /\ requests'[r] # Idle
         /\ requests[r] = Idle
<1>1. PICK row : row = [stage |-> stage, conn |-> c, game |-> g, move |-> 0, shows |-> 0]
  OBVIOUS
<1>2. row \in RequestRow /\ row # Idle
  BY <1>1, SessionAssumption DEF RequestRow, Idle
<1>3. requests' = [requests EXCEPT ![r] = row] /\ requests[r] = Idle
  BY <1>1 DEF FrameArrives
<1> QED
  BY <1>1, <1>2, <1>3 DEF Counted, TypeOK

LEMMA CountedArrived ==
  ASSUME Counted, IInv', NEW r \in Requests, NEW c \in Conns, NEW g \in Games,
         OpenGame(r, c, g) \/ Move(r, c, g)
  PROVE  Counted'
<1>1. mailbox \in Seq(Messages) /\ MailBound
  BY DEF Counted, TypeOK, ServerTypeOK, MailBound
<1>2. requests' \in [Requests -> RequestRow \cup {Idle}]
  BY ArrivedTyped DEF OpenGame, Move
<1>3. MailBound'
  <2>1. CASE OpenGame(r, c, g)
    <3>1. PICK m : m = Join(Owner[c], g)
      OBVIOUS
    <3>2. m \in Messages /\ mailbox' = Append(mailbox, m)
      BY <2>1, <3>1, SessionAssumption DEF OpenGame, Messages
    <3>3. Grows({m}) /\ NumbersBound({m})
      BY <1>1, <3>1, <3>2, OneAdded DEF NumbersBound, Join
    <3> QED
      BY <1>1, <3>3, MailBoundGrows
  <2>2. CASE Move(r, c, g)
    <3>1. Grows({}) /\ NumbersBound({})
      BY <2>2, NoneAdded DEF Move, serverVars, NumbersBound
    <3> QED
      BY <1>1, <3>1, MailBoundGrows
  <2> QED
    BY <2>1, <2>2
<1> QED
  BY <1>2, <1>3, CountedFrame DEF OpenGame, Move, Counted, TypeOK

(***************************************************************************)
(* A commit makes the game one move longer, and its frame carries the move.*)
(***************************************************************************)
LEMMA CommitAdds ==
  ASSUME Counted, NEW r \in Requests, Commit(r)
  PROVE  LET g == requests[r].game
             n == Len(played[g]) + 1
         IN  /\ requests[r] # Idle /\ g \in Games /\ requests[r].conn \in Conns
             /\ n \in 1 .. MaxMoves
             /\ played' \in [Games -> Seq(Conns)]
             /\ \A h \in Games : h # g => played'[h] = played[h]
             /\ Len(played'[g]) = n
             /\ DOMAIN played'[g] = DOMAIN played[g] \cup {n}
             /\ \A i \in DOMAIN played[g] : played'[g][i] = played[g][i]
             /\ played'[g][n] = requests[r].conn
             /\ requests' \in [Requests -> RequestRow \cup {Idle}]
             /\ \A q \in Requests : q # r => requests'[q] = requests[q]
             /\ requests'[r] # Idle /\ requests'[r].stage = "committed" /\ requests'[r].move = n
             /\ requests'[r].conn = requests[r].conn /\ requests'[r].game = g
<1>1. PICK row, g, c, n : row = requests[r] /\ g = row.game /\ c = row.conn /\ n = Len(played[g]) + 1
  OBVIOUS
<1>2. row # Idle /\ row.stage = "begun"
  BY <1>1 DEF Commit, Idle
<1>3. row \in RequestRow /\ g \in Games /\ c \in Conns
  BY <1>1, <1>2, RequestTyped
<1>4. played[g] \in Seq(Conns) /\ Len(played[g]) \in Nat /\ DOMAIN played[g] = 1 .. Len(played[g])
  BY <1>3, LenProperties DEF Counted, TypeOK
<1>5. Len(played[g]) < MaxMoves /\ played' = [played EXCEPT ![g] = Append(played[g], c)]
  BY <1>1 DEF Commit
<1>6. n \in 1 .. MaxMoves
  BY <1>1, <1>4, <1>5, SessionAssumption
<1>7. PICK s : s = Append(played[g], c)
  OBVIOUS
<1>8. /\ s \in Seq(Conns) /\ Len(s) = n
      /\ \A i \in DOMAIN played[g] : s[i] = played[g][i]
      /\ s[n] = c
      /\ DOMAIN s = DOMAIN played[g] \cup {n}
  BY <1>1, <1>3, <1>4, <1>7, Added, AppendProperties
<1>9. /\ played' \in [Games -> Seq(Conns)]
      /\ \A h \in Games : h # g => played'[h] = played[h]
      /\ played'[g] = s
  BY <1>3, <1>5, <1>7, <1>8 DEF Counted, TypeOK
<1>10. PICK row2 : row2 = [row EXCEPT !.stage = "committed", !.move = n]
  OBVIOUS
<1>11. /\ row2 \in RequestRow /\ row2 # Idle
       /\ row2.stage = "committed" /\ row2.move = n /\ row2.conn = c /\ row2.game = g
  <2>1. row.conn = c /\ row.game = g
    BY <1>1
  <2>2. n \in 0 .. MaxMoves
    BY <1>6
  <2>3. row2 \in RequestRow
    BY <1>3, <1>10, <2>2 DEF RequestRow
  <2>4. row2.stage = "committed" /\ row2.move = n /\ row2.conn = row.conn /\ row2.game = row.game
    BY <1>3, <1>10 DEF RequestRow
  <2> QED
    BY <2>1, <2>3, <2>4 DEF Idle
<1>12. requests' = [requests EXCEPT ![r] = row2]
  <2>1. requests' = [requests EXCEPT ![r].stage = "committed", ![r].move = n]
    BY <1>1 DEF Commit
  <2>2. requests \in [Requests -> RequestRow \cup {Idle}]
    BY DEF Counted, TypeOK
  <2> QED
    BY <1>1, <1>10, <2>1, <2>2
<1>13. /\ requests' \in [Requests -> RequestRow \cup {Idle}]
       /\ \A q \in Requests : q # r => requests'[q] = requests[q]
       /\ requests'[r] = row2
  BY <1>11, <1>12 DEF Counted, TypeOK
<1> QED
  BY <1>1, <1>2, <1>3, <1>6, <1>8, <1>9, <1>11, <1>13

(***************************************************************************)
(* A view read for the opponent shows the moves made so far.               *)
(***************************************************************************)
LEMMA ViewRead ==
  ASSUME Counted, NEW r \in Requests, ReadOpponentView(r)
  PROVE  /\ requests[r] # Idle /\ requests[r].stage = "committed"
         /\ requests' \in [Requests -> RequestRow \cup {Idle}]
         /\ \A q \in Requests : q # r => requests'[q] = requests[q]
         /\ requests'[r] # Idle /\ requests'[r].stage = "pushing"
         /\ requests'[r].conn = requests[r].conn /\ requests'[r].game = requests[r].game
         /\ requests'[r].move = requests[r].move
         /\ requests'[r].shows = Len(played[requests[r].game])
<1>1. PICK row, n : row = requests[r] /\ n = Len(played[row.game])
  OBVIOUS
<1>2. row # Idle /\ row.stage = "committed"
  BY <1>1 DEF ReadOpponentView, Idle
<1>3. row \in RequestRow /\ row.game \in Games
  BY <1>1, <1>2, RequestTyped
<1>4. n \in 0 .. MaxMoves
  BY <1>1, <1>3, LenProperties, SessionAssumption DEF Counted, TypeOK
<1>5. PICK row2 : row2 = [row EXCEPT !.stage = "pushing", !.shows = n]
  OBVIOUS
<1>6. /\ row2 \in RequestRow /\ row2 # Idle
      /\ row2.stage = "pushing" /\ row2.shows = n
      /\ row2.conn = row.conn /\ row2.game = row.game /\ row2.move = row.move
  BY <1>3, <1>4, <1>5 DEF RequestRow, Idle
<1>7. requests' = [requests EXCEPT ![r] = row2]
  BY <1>1, <1>5 DEF ReadOpponentView, Counted, TypeOK
<1>8. /\ requests' \in [Requests -> RequestRow \cup {Idle}]
      /\ \A q \in Requests : q # r => requests'[q] = requests[q]
      /\ requests'[r] = row2
  BY <1>6, <1>7 DEF Counted, TypeOK
<1> QED
  BY <1>1, <1>2, <1>6, <1>8

(***************************************************************************)
(* A frame that is done, refused or answered, frees its place.             *)
(***************************************************************************)
Frees(r) ==
  /\ requests' = [requests EXCEPT ![r] = Idle]
  /\ requests[r] # Idle
  /\ UNCHANGED <<registered, rooms, conn, silent, played>>

Done(r) == SendView(r) \/ ViewFails(r) \/ Refuse(r) \/ Push(r) \/ PushFails(r)

LEMMA DoneFrees ==
  ASSUME NEW r \in Requests, Done(r)
  PROVE  Frees(r)
BY DEF Done, SendView, ViewFails, Refuse, Push, PushFails, Respond, Frees, Idle, serverVars

LEMMA CountedDone ==
  ASSUME Counted, Carried, IInv', NEW r \in Requests, Done(r)
  PROVE  Counted'
<1>1. mailbox \in Seq(Messages) /\ MailBound /\ played \in [Games -> Seq(Conns)]
  BY DEF Counted, TypeOK, ServerTypeOK, MailBound
<1>2. Frees(r)
  BY DoneFrees
<1>3. requests' \in [Requests -> RequestRow \cup {Idle}]
  BY <1>2 DEF Frees, Counted, TypeOK
<1>4. PICK c, g, n, k : c = requests[r].conn /\ g = requests[r].game /\ n = requests[r].move
                        /\ k = requests[r].shows
  OBVIOUS
<1>5. c \in Conns /\ g \in Games /\ n \in 0 .. MaxMoves /\ k \in 0 .. MaxMoves
  BY <1>2, <1>4, RequestTyped DEF Frees
<1>6. MailBound'
  <2>1. CASE Push(r)
    <3>1. PICK m : m = ClientMessage(Owner[c], g, k)
      OBVIOUS
    <3>2. m \in Messages /\ mailbox' = Append(mailbox, m)
      BY <1>4, <1>5, <2>1, <3>1, SessionAssumption DEF Push, Messages, ClientMessage
    <3>3. Grows({m}) /\ NumbersBound({m})
      BY <1>1, <1>5, <3>1, <3>2, OneAdded DEF NumbersBound, ClientMessage
    <3> QED
      BY <1>1, <3>3, MailBoundGrows
  <2>2. CASE ~Push(r)
    <3>1. Grows({}) /\ NumbersBound({})
      BY <2>2, NoneAdded DEF Done, SendView, ViewFails, Refuse, PushFails, serverVars, NumbersBound
    <3> QED
      BY <1>1, <3>1, MailBoundGrows
  <2> QED
    BY <2>1, <2>2
<1>7. told' \in [Conns -> [Games -> 0 .. MaxMoves]]
  <2>1. CASE SendView(r)
    <3>1. PICK l : l = Len(played[g])
      OBVIOUS
    <3>2. l \in 0 .. MaxMoves /\ told' = Told(c, g, l)
      BY <1>4, <1>5, <2>1, <3>1, LenProperties, SessionAssumption DEF SendView, Counted, TypeOK
    <3> QED
      BY <1>5, <3>2, ToldGrows
  <2>2. CASE Push(r) \/ PushFails(r)
    <3>1. told' = Told(c, g, n)
      BY <1>4, <2>2 DEF Push, PushFails, Respond
    <3> QED
      BY <1>5, <3>1, ToldGrows
  <2>3. CASE ViewFails(r) \/ Refuse(r)
    BY <2>3 DEF ViewFails, Refuse, Counted, TypeOK
  <2> QED
    BY <2>1, <2>2, <2>3 DEF Done
<1>8. untold' \in [Games -> SUBSET (1 .. MaxMoves)]
  <2>1. CASE PushFails(r)
    <3>1. requests[r].stage = "committed" /\ untold' = [untold EXCEPT ![g] = untold[g] \cup {n}]
      BY <1>4, <2>1 DEF PushFails
    <3>2. n \in DOMAIN played[g]
      BY <1>2, <1>4, <3>1 DEF Carried, Carries, Frees
    <3>3. n \in 1 .. MaxMoves
      BY <1>1, <1>5, <3>2, LenProperties
    <3> QED
      BY <1>5, <3>1, <3>3 DEF Counted, TypeOK
  <2>2. CASE ~PushFails(r)
    BY <2>2 DEF Done, SendView, ViewFails, Refuse, Push, Counted, TypeOK
  <2> QED
    BY <2>1, <2>2
<1>9. showing' \in [Conns -> Games \cup {NoGame}] /\ silent' \subseteq Conns
  BY <1>4, <1>5 DEF Done, SendView, ViewFails, Refuse, Push, PushFails, Counted, TypeOK
<1>10. unanswered' \subseteq Conns
  BY <1>4, <1>5 DEF Done, SendView, ViewFails, Refuse, Push, PushFails, Counted, TypeOK
<1> QED
  BY <1>2, <1>3, <1>6, <1>7, <1>8, <1>9, <1>10, CountedFrame DEF Frees

LEMMA CountedStep ==
  ASSUME Counted, Carried, IInv', [Next]_vars
  PROVE  Counted'
<1>1. CASE ServerStep
  BY <1>1, CountedServer
<1>2. ASSUME NEW c \in Conns, Started(c) \/ GoSilent(c) \/ Closed(c) \/ HeartbeatFailed(c)
      PROVE  Counted'
  BY <1>2, StoppingStops, CountedConns
<1>3. ASSUME NEW c \in Conns, NEW r \in Requests, NEW g \in Games, OpenGame(r, c, g) \/ Move(r, c, g)
      PROVE  Counted'
  BY <1>3, CountedArrived
<1>4. ASSUME NEW r \in Requests, Done(r)
      PROVE  Counted'
  BY <1>4, CountedDone
<1>5. ASSUME NEW r \in Requests, Commit(r)
      PROVE  Counted'
  <2>1. MailBound'
    BY <1>5 DEF Commit, serverVars, Counted, MailBound
  <2>2. PICK g, n : g = requests[r].game /\ n = Len(played[g]) + 1
    OBVIOUS
  <2>3. /\ requests' \in [Requests -> RequestRow \cup {Idle}]
        /\ g \in Games /\ n \in 1 .. MaxMoves /\ Len(played'[g]) = n
        /\ \A h \in Games : h # g => played'[h] = played[h]
    BY <1>5, <2>2, CommitAdds, Zenon
  <2>4. \A h \in Games : Len(played'[h]) <= MaxMoves
    BY <2>3, SessionAssumption DEF Counted
  <2>5. UNCHANGED <<silent, untold, showing, told, unanswered>>
    BY <1>5 DEF Commit
  <2> QED
    BY <2>1, <2>3, <2>4, <2>5, CountedFrame DEF Counted, TypeOK
<1>6. ASSUME NEW r \in Requests, ReadOpponentView(r)
      PROVE  Counted'
  <2>1. MailBound'
    BY <1>6 DEF ReadOpponentView, serverVars, Counted, MailBound
  <2>2. requests' \in [Requests -> RequestRow \cup {Idle}]
    BY <1>6, ViewRead
  <2>3. UNCHANGED <<silent, played, untold, showing, told, unanswered>>
    BY <1>6 DEF ReadOpponentView
  <2> QED
    BY <2>1, <2>2, <2>3, CountedFrame DEF Counted, TypeOK
<1>7. CASE UNCHANGED vars
  BY <1>7, CountedFrame DEF vars, Counted, TypeOK, MailBound
<1> QED
  BY <1>1, <1>2, <1>3, <1>4, <1>5, <1>6, <1>7 DEF Next, Done

-----------------------------------------------------------------------------
(* The steps keep what is known of frames, connections and own moves.      *)

(***************************************************************************)
(* Which request changes, and how, in each step of a frame.                *)
(***************************************************************************)
Untouched(r) == \A q \in Requests : q # r => requests'[q] = requests[q]

LEMMA FreesOne ==
  ASSUME Counted, NEW r \in Requests, Frees(r)
  PROVE  Untouched(r) /\ requests'[r] = Idle
BY DEF Counted, TypeOK, Frees, Untouched

LEMMA CarriedStep ==
  ASSUME IInv, Counted, Carried, [Next]_vars
  PROVE  Carried'
<1>1. CASE ServerStep
  <2>1. UNCHANGED <<requests, played>>
    BY <1>1 DEF ServerStep, Connected, Pushed, sessionVars
  <2>2. \A c \in Conns : conn[c] = "open" => conn'[c] = "open"
    BY <1>1 DEF ServerStep, Connected, Pushed, sessionVars, Counted, TypeOK
  <2> QED
    BY <2>1, <2>2, RequestTyped DEF Carried, Carries
<1>2. ASSUME NEW c \in Conns, Started(c) \/ GoSilent(c)
      PROVE  Carried'
  <2>1. UNCHANGED <<requests, played>>
    BY <1>2 DEF Started, GoSilent
  <2>2. \A d \in Conns : conn[d] = "open" => conn'[d] = "open"
    BY <1>2 DEF Started, GoSilent, Counted, TypeOK
  <2> QED
    BY <2>1, <2>2, RequestTyped DEF Carried, Carries
<1>3. ASSUME NEW c \in Conns, Stops(c)
      PROVE  Carried'
  <2>1. \A r \in Requests : requests'[r] # Idle =>
          requests'[r] = requests[r] /\ requests[r] # Idle /\ requests[r].conn # c
    BY <1>3 DEF Stops, DropRequests
  <2>2. played' = played /\ \A d \in Conns : d # c => conn'[d] = conn[d]
    BY <1>3 DEF Stops, Counted, TypeOK
  <2> QED
    BY <2>1, <2>2, RequestTyped DEF Carried, Carries
<1>4. ASSUME NEW c \in Conns, NEW r \in Requests, NEW g \in Games, OpenGame(r, c, g) \/ Move(r, c, g)
      PROVE  Carried'
  <2>1. PICK stage \in {"viewing", "begun"} : FrameArrives(r, c, g, stage)
    BY <1>4 DEF OpenGame, Move
  <2>2. conn[c] = "open" /\ UNCHANGED <<conn, played>>
    BY <1>4, <2>1 DEF OpenGame, Move, FrameArrives
  <2>3. /\ \A q \in Requests : q # r => requests'[q] = requests[q]
        /\ requests'[r].stage = stage /\ requests'[r].conn = c
    BY <2>1, ArrivedTyped
  <2> QED
    BY <2>2, <2>3 DEF Carried, Carries
<1>5. ASSUME NEW r \in Requests, Done(r)
      PROVE  Carried'
  <2>1. Untouched(r) /\ requests'[r] = Idle /\ UNCHANGED <<conn, played>>
    BY <1>5, DoneFrees, FreesOne DEF Frees
  <2> QED
    BY <2>1 DEF Carried, Carries, Untouched
<1>6. ASSUME NEW r \in Requests, Commit(r)
      PROVE  Carried'
  <2>1. PICK g, n : g = requests[r].game /\ n = Len(played[g]) + 1
    OBVIOUS
  <2>2. /\ requests[r] # Idle /\ g \in Games
        /\ \A h \in Games : h # g => played'[h] = played[h]
        /\ DOMAIN played'[g] = DOMAIN played[g] \cup {n}
        /\ \A i \in DOMAIN played[g] : played'[g][i] = played[g][i]
        /\ played'[g][n] = requests[r].conn
        /\ \A q \in Requests : q # r => requests'[q] = requests[q]
        /\ requests'[r] # Idle /\ requests'[r].stage = "committed" /\ requests'[r].move = n
        /\ requests'[r].conn = requests[r].conn /\ requests'[r].game = g
    BY <1>6, <2>1, CommitAdds, Zenon
  <2>3. conn' = conn
    BY <1>6 DEF Commit
  <2>4. ASSUME NEW q \in Requests, q # r, requests'[q] # Idle
        PROVE  /\ conn'[requests'[q].conn] = "open"
               /\ Carries(q)' =>
                    /\ requests'[q].move \in DOMAIN played'[requests'[q].game]
                    /\ played'[requests'[q].game][requests'[q].move] = requests'[q].conn
               /\ requests'[q].stage = "pushing" => requests'[q].shows >= requests'[q].move
    <3>1. requests'[q] = requests[q] /\ requests[q] # Idle /\ requests[q].game \in Games
      BY <2>2, <2>4, RequestTyped
    <3> QED
      BY <2>2, <2>3, <2>4, <3>1 DEF Carried, Carries
  <2>5. conn'[requests'[r].conn] = "open"
    BY <2>2, <2>3 DEF Carried
  <2>6. requests'[r].move \in DOMAIN played'[requests'[r].game]
        /\ played'[requests'[r].game][requests'[r].move] = requests'[r].conn
    BY <2>2
  <2> QED
    BY <2>2, <2>4, <2>5, <2>6 DEF Carried
<1>7. ASSUME NEW r \in Requests, ReadOpponentView(r)
      PROVE  Carried'
  <2>1. PICK g : g = requests[r].game
    OBVIOUS
  <2>2. /\ requests[r] # Idle /\ requests[r].stage = "committed"
        /\ \A q \in Requests : q # r => requests'[q] = requests[q]
        /\ requests'[r].conn = requests[r].conn /\ requests'[r].game = g
        /\ requests'[r].move = requests[r].move
        /\ requests'[r].shows = Len(played[g])
    BY <1>7, <2>1, ViewRead
  <2>3. UNCHANGED <<conn, played>>
    BY <1>7 DEF ReadOpponentView
  <2>4. requests[r].move \in DOMAIN played[g] /\ played[g][requests[r].move] = requests[r].conn
        /\ conn[requests[r].conn] = "open" /\ g \in Games
    BY <2>1, <2>2, RequestTyped DEF Carried, Carries
  <2>5. requests[r].move <= Len(played[g])
    BY <2>4, LenProperties DEF Counted, TypeOK
  <2>6. Len(played[g]) >= requests[r].move
    BY <2>4, <2>5, LenProperties DEF Counted, TypeOK
  <2> QED
    BY <2>2, <2>3, <2>4, <2>6 DEF Carried, Carries
<1>8. CASE UNCHANGED vars
  BY <1>8 DEF vars, Carried, Carries
<1> QED
  BY <1>1, <1>2, <1>3, <1>4, <1>5, <1>6, <1>7, <1>8, StoppingStops DEF Next, Done

(***************************************************************************)
(* Succession, when no connection opens or announces itself.               *)
(***************************************************************************)
LEMMA SuccessionGrown ==
  ASSUME IInv, Succession, NEW S, Grows(S), \A m \in S : m.type # "Connect",
         registered' = registered,
         \A d \in Conns : conn'[d] = "open" => conn[d] = "open",
         \A d \in Conns : d \in silent /\ conn'[d] \in {"starting", "open"} => d \in silent',
         \A d \in Conns : conn[d] = "starting" => conn'[d] = "starting"
  PROVE  Succession'
<1>1. mailbox \in Seq(Messages)
  BY DEF IInv, Typed, ServerTypeOK
<1>2. \A p \in DOMAIN mailbox' : ConnectAt(p)' =>
        p \in DOMAIN mailbox /\ mailbox'[p] = mailbox[p] /\ ConnectAt(p)
  BY DEF Grows, ConnectAt
<1>3. \A p \in DOMAIN mailbox : ConnectAt(p) =>
        mailbox[p].conn \in Conns /\ conn[mailbox[p].conn] = "starting"
  BY <1>1, ConnectTyped DEF IInv, Announced
<1>4. ASSUME NEW c \in Conns, NEW d \in Conns, Before(c, d), registered'[Owner[c]] = c, conn'[d] = "open"
      PROVE  d \in silent'
  BY <1>4 DEF Succession
<1>5. ASSUME NEW p \in DOMAIN mailbox', ConnectAt(p)', NEW d \in Conns,
             Before(mailbox'[p].conn, d), conn'[d] = "open"
      PROVE  d \in silent'
  BY <1>2, <1>5 DEF Succession
<1>6. ASSUME NEW p \in DOMAIN mailbox', NEW q \in DOMAIN mailbox', ConnectAt(p)', ConnectAt(q)', p < q,
             mailbox'[p].user = mailbox'[q].user
      PROVE  mailbox'[p].conn \in silent'
  BY <1>2, <1>3, <1>6 DEF Succession
<1> QED
  BY <1>4, <1>5, <1>6 DEF Succession, Before

LEMMA SuccessionServer ==
  ASSUME IInv, Counted, Succession, ServerStep
  PROVE  Succession'
<1>1. mailbox \in Seq(Messages) /\ mailbox # <<>> /\ mailbox' = Tail(mailbox) /\ silent' = silent
  BY DEF Counted, TypeOK, ServerTypeOK, ServerStep, Connected, Pushed, sessionVars,
         HandleConnect, HandleDisconnect, HandleJoin, Receives
<1>2. Shrinks /\ Indexed /\ Indexed'
  BY <1>1, OneTaken
<1>3. \A p \in DOMAIN mailbox' :
        p \in Nat /\ p > 0 /\ p + 1 \in DOMAIN mailbox /\ mailbox'[p] = mailbox[p + 1]
        /\ (ConnectAt(p)' => ConnectAt(p + 1))
  BY <1>2 DEF Shrinks, Indexed, ConnectAt
<1>4. ASSUME NEW p \in DOMAIN mailbox', NEW q \in DOMAIN mailbox', ConnectAt(p)', ConnectAt(q)', p < q,
             mailbox'[p].user = mailbox'[q].user
      PROVE  mailbox'[p].conn \in silent'
  <2>1. p + 1 < q + 1 /\ ConnectAt(p + 1) /\ ConnectAt(q + 1)
        /\ mailbox[p + 1].user = mailbox[q + 1].user
    BY <1>3, <1>4
  <2> QED
    BY <1>1, <1>3, <2>1 DEF Succession
<1>5. CASE ~Connected
  <2>1. conn' = conn
    BY <1>5 DEF ServerStep, Pushed, sessionVars
  <2>2. \A c \in Conns : registered'[Owner[c]] = c => registered[Owner[c]] = c
    <3>1. CASE HandleDisconnect
      <4>1. PICK u : registered' = registered \/ registered' = [registered EXCEPT ![u] = NoConn]
        BY <3>1 DEF HandleDisconnect
      <4> QED
        BY <4>1, SessionAssumption, ServerAssumption DEF Counted, TypeOK, ServerTypeOK
    <3>2. CASE ~HandleDisconnect
      BY <1>5, <3>2 DEF ServerStep, Pushed, HandleJoin
    <3> QED
      BY <3>1, <3>2
  <2>3. ASSUME NEW c \in Conns, NEW d \in Conns, Before(c, d), registered'[Owner[c]] = c, conn'[d] = "open"
        PROVE  d \in silent'
    BY <1>1, <2>1, <2>2, <2>3 DEF Succession
  <2>4. ASSUME NEW p \in DOMAIN mailbox', ConnectAt(p)', NEW d \in Conns,
               Before(mailbox'[p].conn, d), conn'[d] = "open"
        PROVE  d \in silent'
    BY <1>1, <1>3, <2>1, <2>4 DEF Succession
  <2> QED
    BY <1>4, <2>3, <2>4 DEF Succession, Before
<1>6. CASE Connected
  <2>1. PICK c, u : c = Head(mailbox).conn /\ u = Head(mailbox).user
    OBVIOUS
  <2>2. 1 \in DOMAIN mailbox /\ ConnectAt(1) /\ mailbox[1].conn = c /\ mailbox[1].user = u
    BY <1>2, <1>6, <2>1 DEF Shrinks, Connected, HandleConnect, Receives, ConnectAt
  <2>3. c \in Conns /\ u \in Users /\ u = Owner[c]
    BY <1>1, <2>2, ConnectTyped DEF IInv, Announced
  <2>4. registered' = [registered EXCEPT ![u] = c] /\ conn' = [conn EXCEPT ![c] = "open"]
    BY <1>6, <2>1 DEF Connected, HandleConnect
  <2>5. \A d \in Conns : d # c => conn'[d] = conn[d]
    BY <2>4 DEF Counted, TypeOK
  <2>6. ASSUME NEW a \in Conns, NEW d \in Conns, Before(a, d), registered'[Owner[a]] = a, conn'[d] = "open"
        PROVE  d \in silent'
    <3>1. CASE Owner[a] = u
      <4>1. a = c
        BY <2>3, <2>4, <2>6, <3>1 DEF Counted, TypeOK, ServerTypeOK
      <4>2. Before(c, d) /\ conn[d] = "open"
        BY <2>5, <2>6, <4>1 DEF Before
      <4> QED
        BY <1>1, <2>2, <4>2 DEF Succession
    <3>2. CASE Owner[a] # u
      <4>1. registered[Owner[a]] = a /\ d # c
        BY <2>3, <2>4, <2>6, <3>2, SessionAssumption DEF Counted, TypeOK, ServerTypeOK, Before
      <4> QED
        BY <1>1, <2>5, <2>6, <4>1 DEF Succession
    <3> QED
      BY <3>1, <3>2
  <2>7. ASSUME NEW p \in DOMAIN mailbox', ConnectAt(p)', NEW d \in Conns,
               Before(mailbox'[p].conn, d), conn'[d] = "open"
        PROVE  d \in silent'
    <3>1. p + 1 \in DOMAIN mailbox /\ mailbox'[p] = mailbox[p + 1] /\ ConnectAt(p + 1) /\ 1 < p + 1
      BY <1>3, <2>7
    <3>2. CASE d = c
      <4>1. mailbox[p + 1].user = u
        BY <2>3, <2>7, <3>1, <3>2 DEF Before, IInv, Announced
      <4> QED
        BY <1>1, <2>2, <3>1, <3>2, <4>1 DEF Succession
    <3>3. CASE d # c
      BY <1>1, <2>5, <2>7, <3>1, <3>3 DEF Succession
    <3> QED
      BY <3>2, <3>3
  <2> QED
    BY <1>4, <2>6, <2>7 DEF Succession, Before
<1> QED
  BY <1>5, <1>6

LEMMA SuccessionStarted ==
  ASSUME IInv, IInv', Counted, Succession, NEW c \in Conns, Started(c)
  PROVE  Succession'
<1>1. PICK m : m = Connect(Owner[c], c)
  OBVIOUS
<1>2. m \in Messages /\ mailbox' = Append(mailbox, m) /\ mailbox \in Seq(Messages)
      /\ mailbox' \in Seq(Messages)
  BY <1>1, SessionAssumption DEF Started, Messages, Counted, TypeOK, ServerTypeOK, IInv, Typed
<1>3. Grows({m}) /\ Indexed /\ Indexed'
  BY <1>2, OneAdded, LenProperties DEF Indexed
<1>4. m.conn = c /\ m.user = Owner[c]
  BY <1>1 DEF Connect
<1>5. /\ \A d \in Conns : Owner[d] = Owner[c] => conn[d] \in {"absent", "stopped"} \/ d \in silent
      /\ registered' = registered /\ silent' = silent
      /\ \A d \in Conns : conn'[d] = "open" => conn[d] = "open"
  BY DEF Started, Counted, TypeOK
<1>6. ASSUME NEW a \in Conns, NEW d \in Conns, Before(a, d), registered'[Owner[a]] = a, conn'[d] = "open"
      PROVE  d \in silent'
  BY <1>5, <1>6 DEF Succession
<1>7. ASSUME NEW p \in DOMAIN mailbox', ConnectAt(p)', NEW d \in Conns,
             Before(mailbox'[p].conn, d), conn'[d] = "open"
      PROVE  d \in silent'
  <2>1. CASE p \in DOMAIN mailbox
    BY <1>3, <1>5, <1>7, <2>1 DEF Succession, Grows, ConnectAt
  <2>2. CASE p \notin DOMAIN mailbox
    <3>1. mailbox'[p] = m
      BY <1>3, <2>2 DEF Grows
    <3> QED
      BY <1>4, <1>5, <1>7, <3>1 DEF Before
  <2> QED
    BY <2>1, <2>2
<1>8. ASSUME NEW p \in DOMAIN mailbox', NEW q \in DOMAIN mailbox', ConnectAt(p)', ConnectAt(q)', p < q,
             mailbox'[p].user = mailbox'[q].user
      PROVE  mailbox'[p].conn \in silent'
  <2>1. CASE q \in DOMAIN mailbox
    <3>1. p \in DOMAIN mailbox
      BY <1>3, <1>8, <2>1 DEF Grows, Indexed
    <3> QED
      BY <1>3, <1>5, <1>8, <2>1, <3>1 DEF Succession, Grows, ConnectAt
  <2>2. CASE q \notin DOMAIN mailbox
    <3>1. mailbox'[q] = m
      BY <1>3, <2>2 DEF Grows
    <3>2. p \in DOMAIN mailbox
      <4>1. SUFFICES ASSUME p \notin DOMAIN mailbox PROVE FALSE
        OBVIOUS
      <4>2. mailbox'[p] = m
        BY <1>3, <4>1 DEF Grows
      <4>3. p # q
        BY <1>3, <1>8 DEF Indexed
      <4> QED
        BY <1>8, <3>1, <4>2, <4>3 DEF IInv, Announced
    <3>3. mailbox'[p] = mailbox[p] /\ ConnectAt(p)
      BY <1>3, <1>8, <3>2 DEF Grows, ConnectAt
    <3>4. mailbox[p].conn \in Conns /\ conn[mailbox[p].conn] = "starting"
          /\ Owner[mailbox[p].conn] = Owner[c]
      BY <1>2, <1>4, <1>8, <3>1, <3>2, <3>3, ConnectTyped DEF IInv, Announced
    <3> QED
      BY <1>5, <3>3, <3>4
  <2> QED
    BY <2>1, <2>2
<1> QED
  BY <1>6, <1>7, <1>8 DEF Succession, Before

LEMMA SuccessionStep ==
  ASSUME IInv, IInv', Counted, Succession, [Next]_vars
  PROVE  Succession'
<1>1. CASE ServerStep
  BY <1>1, SuccessionServer
<1>2. ASSUME NEW c \in Conns, Started(c)
      PROVE  Succession'
  BY <1>2, SuccessionStarted
<1>3. ASSUME NEW c \in Conns, GoSilent(c)
      PROVE  Succession'
  <2>1. Grows({})
    BY <1>3, NoneAdded DEF GoSilent, serverVars
  <2> QED
    BY <1>3, <2>1, SuccessionGrown DEF GoSilent, serverVars
<1>4. ASSUME NEW c \in Conns, Stops(c)
      PROVE  Succession'
  <2>1. PICK m : m = Disconnect(Owner[c])
    OBVIOUS
  <2>2. Grows({m}) /\ m.type # "Connect"
    BY <1>4, <2>1 DEF Stops, Disconnect
  <2>3. /\ conn[c] = "open" /\ conn'[c] = "stopped" /\ silent' = silent \ {c}
        /\ \A d \in Conns : d # c => conn'[d] = conn[d]
        /\ registered' = registered
    BY <1>4 DEF Stops, Counted, TypeOK
  <2> QED
    BY <2>2, <2>3, SuccessionGrown
<1>5. ASSUME NEW c \in Conns, NEW r \in Requests, NEW g \in Games, OpenGame(r, c, g) \/ Move(r, c, g)
      PROVE  Succession'
  <2>1. UNCHANGED <<registered, conn, silent>>
    BY <1>5 DEF OpenGame, Move, serverVars
  <2>2. PICK m : m = Join(Owner[c], g)
    OBVIOUS
  <2>3. m \in Messages /\ mailbox \in Seq(Messages) /\ m.type # "Connect"
    BY <2>2, SessionAssumption DEF Messages, Counted, TypeOK, ServerTypeOK, Join
  <2>4. Grows({m}) \/ Grows({})
    BY <1>5, <2>2, <2>3, OneAdded, NoneAdded DEF OpenGame, Move, serverVars
  <2> QED
    BY <2>1, <2>3, <2>4, SuccessionGrown
<1>6. ASSUME NEW r \in Requests,
             SendView(r) \/ ViewFails(r) \/ Commit(r) \/ Refuse(r) \/ ReadOpponentView(r) \/ PushFails(r)
      PROVE  Succession'
  <2>1. UNCHANGED <<mailbox, registered, conn, silent>>
    BY <1>6 DEF SendView, ViewFails, Commit, Refuse, ReadOpponentView, PushFails, serverVars
  <2>2. Grows({})
    BY <2>1, NoneAdded
  <2> QED
    BY <2>1, <2>2, SuccessionGrown
<1>7. ASSUME NEW r \in Requests, Push(r)
      PROVE  Succession'
  <2>1. PICK m : m = ClientMessage(Owner[requests[r].conn], requests[r].game, requests[r].shows)
    OBVIOUS
  <2>2. requests[r] # Idle
    BY <1>7, DoneFrees DEF Done, Frees
  <2>3. m \in Messages /\ mailbox \in Seq(Messages) /\ m.type # "Connect"
    BY <2>1, <2>2, RequestTyped, SessionAssumption
       DEF Messages, Counted, TypeOK, ServerTypeOK, ClientMessage
  <2>4. Grows({m}) /\ UNCHANGED <<registered, conn, silent>>
    BY <1>7, <2>1, <2>3, OneAdded DEF Push
  <2> QED
    BY <2>3, <2>4, SuccessionGrown
<1>8. CASE UNCHANGED vars
  <2>1. Grows({})
    BY <1>8, NoneAdded DEF vars
  <2> QED
    BY <1>8, <2>1, SuccessionGrown DEF vars
<1> QED
  BY <1>1, <1>2, <1>3, <1>4, <1>5, <1>6, <1>7, <1>8, StoppingStops DEF Next

(***************************************************************************)
(* The views a page was sent only get newer.                               *)
(***************************************************************************)
Newer == \A c \in Conns, g \in Games : told'[c][g] >= told[c][g]

LEMMA PushedTold ==
  ASSUME Counted, Pushed
  PROVE  /\ Newer
         /\ \A c \in Conns : c \in Recipients(Head(mailbox).room, Head(mailbox).user) /\ conn[c] = "open"
              => told'[c][Head(mailbox).room] >= Head(mailbox).shows
<1>1. PICK m, to : m = Head(mailbox)
                   /\ to = {c \in Recipients(m.room, m.user) : conn[c] = "open"}
  OBVIOUS
<1>2. m \in Messages /\ m.type = "ClientMessage"
  BY <1>1, Taken DEF Pushed, Receives, Counted, TypeOK, ServerTypeOK
<1>3. m.room \in Games /\ m.shows \in Nat
  BY <1>2 DEF Messages, Connect, Disconnect, Join
<1>4. told' = [c \in Conns |-> IF c \in to THEN [told[c] EXCEPT ![m.room] = Larger(@, m.shows)] ELSE told[c]]
  BY <1>1 DEF Pushed
<1>5. told \in [Conns -> [Games -> Nat]]
  BY SessionAssumption DEF Counted, TypeOK
<1>6. ASSUME NEW c \in Conns
      PROVE  /\ \A g \in Games : told'[c][g] >= told[c][g]
             /\ c \in to => told'[c][m.room] >= m.shows
  <2>1. PICK k : k = Larger(told[c][m.room], m.shows)
    OBVIOUS
  <2>2. k >= told[c][m.room] /\ k >= m.shows /\ k \in Nat
    BY <1>3, <1>5, <2>1, LargerOf
  <2>3. told'[c] = IF c \in to THEN [told[c] EXCEPT ![m.room] = k] ELSE told[c]
    BY <1>4, <2>1
  <2>4. \A g \in Games : told[c][g] \in Nat
    BY <1>5
  <2>5. CASE c \in to
    BY <1>3, <1>5, <2>2, <2>3, <2>4, <2>5
  <2>6. CASE c \notin to
    BY <2>3, <2>4, <2>6
  <2> QED
    BY <2>5, <2>6
<1> QED
  BY <1>1, <1>6 DEF Newer

LEMMA NothingTold ==
  ASSUME Counted, told' = told
  PROVE  Newer
<1>1. \A c \in Conns, g \in Games : told[c][g] \in Nat
  BY SessionAssumption DEF Counted, TypeOK
<1> QED
  BY <1>1 DEF Newer

(***************************************************************************)
(* A move stays in transit until its frame is done, and then its own page  *)
(* was sent it, or its connection has stopped.                             *)
(***************************************************************************)
InTransitStays == \A g \in Games : \A i \in Nat : InTransit(g, i) => InTransit(g, i)'

LEMMA TransitUntouched ==
  ASSUME NEW r \in Requests, Untouched(r), ~Carries(r)
  PROVE  InTransitStays
<1>1. ASSUME NEW g \in Games, NEW i \in Nat, NEW q \in Requests, Carries(q),
             requests[q].game = g, requests[q].move = i
      PROVE  InTransit(g, i)'
  <2>1. q # r /\ requests'[q] = requests[q]
    BY <1>1 DEF Untouched
  <2> QED
    BY <1>1, <2>1 DEF Carries, InTransit
<1> QED
  BY <1>1 DEF InTransitStays, InTransit

LEMMA TransitSame ==
  ASSUME requests' = requests
  PROVE  InTransitStays
BY DEF InTransitStays, InTransit, Carries

LEMMA TransitRead ==
  ASSUME Counted, NEW r \in Requests, ReadOpponentView(r)
  PROVE  InTransitStays
<1>1. /\ \A q \in Requests : q # r => requests'[q] = requests[q]
      /\ requests'[r] # Idle /\ requests'[r].stage = "pushing"
      /\ requests'[r].game = requests[r].game
      /\ requests'[r].move = requests[r].move
  BY ViewRead
<1>2. \A q \in Requests : Carries(q) => Carries(q)' /\ requests'[q].game = requests[q].game
                                        /\ requests'[q].move = requests[q].move
  BY <1>1 DEF Carries
<1> QED
  BY <1>2 DEF InTransitStays, InTransit

(***************************************************************************)
(* The response to the mover.                                              *)
(***************************************************************************)
LEMMA Responded ==
  ASSUME Counted, NEW r \in Requests, Push(r) \/ PushFails(r)
  PROVE  Newer /\ told'[requests[r].conn][requests[r].game] >= requests[r].move
<1>1. PICK c, g, n : c = requests[r].conn /\ g = requests[r].game /\ n = requests[r].move
  OBVIOUS
<1>2. requests[r] # Idle
  BY DoneFrees DEF Done, Frees
<1>3. c \in Conns /\ g \in Games /\ n \in 0 .. MaxMoves
  BY <1>1, <1>2, RequestTyped
<1>4. told' = Told(c, g, n)
  BY <1>1 DEF Push, PushFails, Respond
<1> QED
  BY <1>1, <1>3, <1>4, ToldGrows DEF Newer

(***************************************************************************)
(* A view is sent to the page that asked, with every move of the game.     *)
(***************************************************************************)
LEMMA ViewSent ==
  ASSUME Counted, NEW r \in Requests, SendView(r)
  PROVE  /\ requests[r].conn \in Conns /\ requests[r].game \in Games
         /\ Newer
         /\ \A i \in DOMAIN played[requests[r].game] : told'[requests[r].conn][requests[r].game] >= i
         /\ showing' = [showing EXCEPT ![requests[r].conn] = requests[r].game]
         /\ ~Carries(r)
<1>1. PICK c, g, n : c = requests[r].conn /\ g = requests[r].game /\ n = Len(played[g])
  OBVIOUS
<1>2. requests[r] # Idle /\ requests[r].stage = "viewing"
  BY DEF SendView, Idle
<1>3. c \in Conns /\ g \in Games
  BY <1>1, <1>2, RequestTyped
<1>4. n \in 0 .. MaxMoves /\ DOMAIN played[g] = 1 .. n
  BY <1>1, <1>3, LenProperties, SessionAssumption DEF Counted, TypeOK
<1>5. told' = Told(c, g, n) /\ showing' = [showing EXCEPT ![c] = g]
  BY <1>1 DEF SendView
<1>6. Newer /\ told'[c][g] >= n /\ told'[c][g] \in Nat
  BY <1>3, <1>4, <1>5, ToldGrows, SessionAssumption DEF Newer
<1>7. \A i \in DOMAIN played[g] : told'[c][g] >= i
  BY <1>4, <1>6
<1> QED
  BY <1>1, <1>2, <1>3, <1>5, <1>6, <1>7 DEF Carries

(***************************************************************************)
(* Own moves: a step that shows no page a game and drops no move.          *)
(***************************************************************************)
LEMMA OwnMovesKept ==
  ASSUME Counted, OwnMoves, Newer, InTransitStays, UNCHANGED <<played, showing>>, told' \in [Conns -> [Games -> 0 .. MaxMoves]],
         \A c \in Conns : (conn[c] = "open" => conn'[c] = "open") /\ (conn'[c] # "stopped" => conn[c] # "stopped")
  PROVE  OwnMoves'
<1>1. \A c \in Conns : showing'[c] # NoGame => conn'[c] = "open"
  BY DEF OwnMoves
<1>2. ASSUME NEW c \in Conns, NEW g \in Games, conn'[c] # "stopped",
             NEW i \in DOMAIN played'[g], played'[g][i] = c
      PROVE  told'[c][g] >= i \/ InTransit(g, i)'
  <2>1. told[c][g] >= i \/ InTransit(g, i)
    BY <1>2 DEF OwnMoves
  <2>2. i \in Nat
    BY LenProperties DEF Counted, TypeOK
  <2>3. told[c][g] \in Nat /\ told'[c][g] \in Nat /\ told'[c][g] >= told[c][g]
    BY SessionAssumption DEF Counted, TypeOK, Newer
  <2> QED
    BY <2>1, <2>2, <2>3 DEF InTransitStays
<1> QED
  BY <1>1, <1>2 DEF OwnMoves

(***************************************************************************)
(* The actor whose Connect is handled was waiting for that.                *)
(***************************************************************************)
LEMMA ConnectedOpens ==
  ASSUME IInv, Connected
  PROVE  \E c \in Conns : /\ conn[c] = "starting"
                          /\ conn' = [conn EXCEPT ![c] = "open"]
                          /\ registered' = [registered EXCEPT ![Owner[c]] = c]
                          /\ rooms' = [rooms EXCEPT ![MAIN_ROOM] = @ \cup {Owner[c]}]
<1>1. PICK m : m = Head(mailbox)
  OBVIOUS
<1>2. mailbox \in Seq(Messages) /\ mailbox # <<>> /\ m.type = "Connect"
  BY <1>1 DEF IInv, Typed, ServerTypeOK, Connected, HandleConnect, Receives
<1>3. 1 \in DOMAIN mailbox /\ m = mailbox[1] /\ ConnectAt(1)
  BY <1>1, <1>2, Taken DEF ConnectAt
<1>4. m.conn \in Conns /\ m.user = Owner[m.conn] /\ conn[m.conn] = "starting"
  BY <1>2, <1>3, ConnectTyped DEF IInv, Announced
<1>5. /\ registered' = [registered EXCEPT ![m.user] = m.conn]
      /\ rooms' = [rooms EXCEPT ![MAIN_ROOM] = @ \cup {m.user}]
      /\ conn' = [conn EXCEPT ![m.conn] = "open"]
  BY <1>1 DEF Connected, HandleConnect
<1> QED
  BY <1>4, <1>5

LEMMA OwnMovesStep ==
  ASSUME IInv, Counted, Counted', Carried, OwnMoves, [Next]_vars
  PROVE  OwnMoves'
<1>0. told' \in [Conns -> [Games -> 0 .. MaxMoves]]
  BY DEF Counted, TypeOK
<1>1. CASE ServerStep
  <2>1. UNCHANGED <<requests, played, showing>>
    BY <1>1 DEF ServerStep, Connected, Pushed, sessionVars
  <2>2. Newer
    <3>1. CASE Pushed
      BY <3>1, PushedTold
    <3>2. CASE ~Pushed
      BY <1>1, <3>2, NothingTold DEF ServerStep, Connected, sessionVars
    <3> QED
      BY <3>1, <3>2
  <2>3. \A c \in Conns : (conn[c] = "open" => conn'[c] = "open") /\ (conn'[c] # "stopped" => conn[c] # "stopped")
    <3>1. CASE Connected
      <4>1. PICK c0 \in Conns : conn[c0] = "starting" /\ conn' = [conn EXCEPT ![c0] = "open"]
        BY <3>1, ConnectedOpens
      <4> QED
        BY <4>1 DEF Counted, TypeOK
    <3>2. CASE ~Connected
      BY <1>1, <3>2 DEF ServerStep, Pushed, sessionVars
    <3> QED
      BY <3>1, <3>2
  <2> QED
    BY <1>0, <2>1, <2>2, <2>3, TransitSame, OwnMovesKept
<1>2. ASSUME NEW c \in Conns, Started(c) \/ GoSilent(c)
      PROVE  OwnMoves'
  <2>1. UNCHANGED <<requests, played, showing, told>>
    BY <1>2 DEF Started, GoSilent
  <2>2. \A d \in Conns : (conn[d] = "open" => conn'[d] = "open") /\ (conn'[d] # "stopped" => conn[d] # "stopped")
    BY <1>2 DEF Started, GoSilent, Counted, TypeOK
  <2> QED
    BY <1>0, <2>1, <2>2, NothingTold, TransitSame, OwnMovesKept
<1>3. ASSUME NEW c \in Conns, Stops(c)
      PROVE  OwnMoves'
  <2>1. /\ \A d \in Conns : d # c => conn'[d] = conn[d] /\ told'[d] = told[d] /\ showing'[d] = showing[d]
        /\ conn'[c] = "stopped" /\ showing'[c] = NoGame
        /\ played' = played
    BY <1>3 DEF Stops, Counted, TypeOK
  <2>2. \A r \in Requests : requests[r] # Idle /\ requests[r].conn # c => requests'[r] = requests[r]
    BY <1>3 DEF Stops, DropRequests
  <2>3. ASSUME NEW d \in Conns, NEW g \in Games, conn'[d] # "stopped",
               NEW i \in DOMAIN played'[g], played'[g][i] = d
        PROVE  told'[d][g] >= i \/ InTransit(g, i)'
    <3>1. d # c /\ told'[d][g] = told[d][g]
      BY <2>1, <2>3
    <3>2. told[d][g] >= i \/ InTransit(g, i)
      BY <2>1, <2>3, <3>1 DEF OwnMoves
    <3>3. ASSUME NEW r \in Requests, Carries(r), requests[r].game = g, requests[r].move = i
          PROVE  InTransit(g, i)'
      <4>1. requests[r].conn = d
        BY <2>1, <2>3, <3>3 DEF Carried, Carries
      <4>2. requests'[r] = requests[r]
        BY <2>2, <3>1, <3>3, <4>1 DEF Carries
      <4> QED
        BY <3>3, <4>2 DEF Carries, InTransit
    <3> QED
      BY <3>1, <3>2, <3>3 DEF InTransit
  <2> QED
    BY <2>1, <2>3 DEF OwnMoves
<1>4. ASSUME NEW c \in Conns, NEW r \in Requests, NEW g \in Games, OpenGame(r, c, g) \/ Move(r, c, g)
      PROVE  OwnMoves'
  <2>1. PICK stage \in {"viewing", "begun"} : FrameArrives(r, c, g, stage)
    BY <1>4 DEF OpenGame, Move
  <2>2. Untouched(r) /\ ~Carries(r)
    BY <2>1, ArrivedTyped DEF Untouched, Carries
  <2>3. UNCHANGED <<conn, played, showing, told>>
    BY <1>4 DEF OpenGame, Move
  <2> QED
    BY <1>0, <2>2, <2>3, NothingTold, TransitUntouched, OwnMovesKept
<1>5. ASSUME NEW r \in Requests, Refuse(r) \/ ViewFails(r)
      PROVE  OwnMoves'
  <2>1. Untouched(r) /\ ~Carries(r)
    BY <1>5, DoneFrees, FreesOne DEF Done, Refuse, ViewFails, Carries
  <2>2. UNCHANGED <<conn, played, showing, told>>
    BY <1>5 DEF Refuse, ViewFails
  <2> QED
    BY <1>0, <2>1, <2>2, NothingTold, TransitUntouched, OwnMovesKept
<1>6. ASSUME NEW r \in Requests, ReadOpponentView(r)
      PROVE  OwnMoves'
  <2>1. UNCHANGED <<conn, played, showing, told>>
    BY <1>6 DEF ReadOpponentView
  <2> QED
    BY <1>0, <1>6, <2>1, NothingTold, TransitRead, OwnMovesKept
<1>7. ASSUME NEW r \in Requests, SendView(r)
      PROVE  OwnMoves'
  <2>1. PICK c, g : c = requests[r].conn /\ g = requests[r].game
    OBVIOUS
  <2>2. c \in Conns /\ g \in Games /\ Newer /\ showing' = [showing EXCEPT ![c] = g] /\ ~Carries(r)
    BY <1>7, <2>1, ViewSent
  <2>3. UNCHANGED <<conn, played>> /\ requests[r] # Idle /\ Untouched(r)
    BY <1>7, DoneFrees, FreesOne DEF Done, Frees
  <2>4. conn[c] = "open"
    BY <2>1, <2>3 DEF Carried
  <2>5. InTransitStays
    BY <2>2, <2>3, TransitUntouched
  <2>6. \A d \in Conns : showing'[d] # NoGame => conn'[d] = "open"
    BY <2>2, <2>3, <2>4 DEF OwnMoves, Counted, TypeOK
  <2>7. ASSUME NEW d \in Conns, NEW h \in Games, conn'[d] # "stopped",
               NEW i \in DOMAIN played'[h], played'[h][i] = d
        PROVE  told'[d][h] >= i \/ InTransit(h, i)'
    <3>1. told[d][h] >= i \/ InTransit(h, i)
      BY <2>3, <2>7 DEF OwnMoves
    <3>2. i \in Nat
      BY <2>3, LenProperties DEF Counted, TypeOK
    <3>3. told[d][h] \in Nat /\ told'[d][h] \in Nat /\ told'[d][h] >= told[d][h]
      BY <1>0, <2>2, SessionAssumption DEF Counted, TypeOK, Newer
    <3> QED
      BY <2>5, <3>1, <3>2, <3>3 DEF InTransitStays
  <2> QED
    BY <2>6, <2>7 DEF OwnMoves
<1>8. ASSUME NEW r \in Requests, Push(r) \/ PushFails(r)
      PROVE  OwnMoves'
  <2>1. PICK c, g, n : c = requests[r].conn /\ g = requests[r].game /\ n = requests[r].move
    OBVIOUS
  <2>2. Newer /\ told'[c][g] >= n
    BY <1>8, <2>1, Responded
  <2>3. UNCHANGED <<conn, played, showing>> /\ requests[r] # Idle /\ Untouched(r)
    BY <1>8, DoneFrees, FreesOne DEF Done, Frees, Push, PushFails
  <2>4. ASSUME NEW d \in Conns, NEW h \in Games, conn'[d] # "stopped",
               NEW i \in DOMAIN played'[h], played'[h][i] = d
        PROVE  told'[d][h] >= i \/ InTransit(h, i)'
    <3>1. told[d][h] >= i \/ InTransit(h, i)
      BY <2>3, <2>4 DEF OwnMoves
    <3>2. i \in Nat
      BY <2>3, LenProperties DEF Counted, TypeOK
    <3>3. told[d][h] \in Nat /\ told'[d][h] \in Nat /\ told'[d][h] >= told[d][h]
      BY <1>0, <2>2, SessionAssumption DEF Counted, TypeOK, Newer
    <3>4. ASSUME NEW q \in Requests, Carries(q), requests[q].game = h, requests[q].move = i
          PROVE  told'[d][h] >= i \/ InTransit(h, i)'
      <4>1. CASE q = r
        <5>1. d = c /\ h = g /\ i = n
          BY <2>1, <2>3, <2>4, <3>4, <4>1 DEF Carried, Carries
        <5> QED
          BY <2>2, <5>1
      <4>2. CASE q # r
        BY <2>3, <3>4, <4>2 DEF Untouched, Carries, InTransit
      <4> QED
        BY <4>1, <4>2
    <3> QED
      BY <3>1, <3>2, <3>3, <3>4 DEF InTransit
  <2> QED
    BY <2>3, <2>4 DEF OwnMoves
<1>9. ASSUME NEW r \in Requests, Commit(r)
      PROVE  OwnMoves'
  <2>1. PICK g, n, c : g = requests[r].game /\ n = Len(played[g]) + 1 /\ c = requests[r].conn
    OBVIOUS
  <2>2. /\ requests[r] # Idle /\ g \in Games
        /\ \A h \in Games : h # g => played'[h] = played[h]
        /\ DOMAIN played'[g] = DOMAIN played[g] \cup {n}
        /\ \A i \in DOMAIN played[g] : played'[g][i] = played[g][i]
        /\ \A q \in Requests : q # r => requests'[q] = requests[q]
        /\ requests'[r] # Idle /\ requests'[r].stage = "committed" /\ requests'[r].move = n
        /\ requests'[r].game = g
    BY <1>9, <2>1, CommitAdds, Zenon
  <2>3. UNCHANGED <<conn, showing, told>> /\ ~Carries(r)
    BY <1>9 DEF Commit, Carries
  <2>4. InTransitStays
    BY <2>2, <2>3, TransitUntouched DEF Untouched
  <2>5. InTransit(g, n)'
    BY <2>2 DEF InTransit, Carries
  <2>6. ASSUME NEW d \in Conns, NEW h \in Games, conn'[d] # "stopped",
               NEW i \in DOMAIN played'[h], played'[h][i] = d
        PROVE  told'[d][h] >= i \/ InTransit(h, i)'
    <3>1. CASE h = g /\ i = n
      BY <2>5, <3>1
    <3>2. CASE ~(h = g /\ i = n)
      <4>1. i \in DOMAIN played[h] /\ played[h][i] = d
        BY <2>2, <2>6, <3>2
      <4>2. told[d][h] >= i \/ InTransit(h, i)
        BY <2>3, <2>6, <4>1 DEF OwnMoves
      <4>3. i \in Nat
        BY <4>1, LenProperties DEF Counted, TypeOK
      <4> QED
        BY <2>3, <2>4, <4>2, <4>3 DEF InTransitStays
    <3> QED
      BY <3>1, <3>2
  <2> QED
    BY <2>3, <2>6 DEF OwnMoves
<1>10. CASE UNCHANGED vars
  BY <1>0, <1>10, NothingTold, TransitSame, OwnMovesKept DEF vars
<1> QED
  BY <1>1, <1>2, <1>3, <1>4, <1>5, <1>6, <1>7, <1>8, <1>9, <1>10, StoppingStops DEF Next

-----------------------------------------------------------------------------
(* The steps keep the pages in touch.                                      *)

(***************************************************************************)
(* What has to be shown of one page, game and move, when the page was      *)
(* bound for the game's room before and the move made.                     *)
(***************************************************************************)
LEMMA StillReached ==
  ASSUME Counted, Counted', InTouch, Newer, NEW c \in Conns, NEW g \in Games, NEW i \in Nat,
         Attached(c, g), Owed(c, g, i),
         Viewing(c, g) => Reached(c, g, i)',
         InTransit(g, i) => Reached(c, g, i)',
         Coming(Owner[c], g, i) => Reached(c, g, i)'
  PROVE  Reached(c, g, i)'
<1>1. told[c][g] \in Nat /\ told'[c][g] \in Nat /\ told'[c][g] >= told[c][g]
  BY SessionAssumption DEF Counted, TypeOK, Newer
<1>2. told[c][g] >= i \/ Viewing(c, g) \/ InTransit(g, i) \/ Coming(Owner[c], g, i)
  BY DEF InTouch, Reached
<1>3. told'[c][g] >= i => Reached(c, g, i)'
  BY DEF Reached
<1>4. told[c][g] >= i => told'[c][g] >= i
  BY <1>1
<1> QED
  BY <1>2, <1>3, <1>4

ViewingStays(c) == \A g \in Games : Viewing(c, g) => Viewing(c, g)'

LEMMA ViewingUntouched ==
  ASSUME NEW r \in Requests, Untouched(r), NEW c,
         requests[r] # Idle => requests[r].stage # "viewing" \/ requests[r].conn # c
  PROVE  ViewingStays(c)
BY DEF ViewingStays, Viewing, Untouched

(***************************************************************************)
(* A step that changes neither the games nor what pages show, and adds to  *)
(* the mailbox no Join of this user.                                       *)
(***************************************************************************)
LEMMA QuietStep ==
  ASSUME Counted, Counted', InTouch, Newer, NEW c \in Conns, NEW g \in Games, NEW i \in Nat,
         Attached(c, g)', Owed(c, g, i)',
         conn[c] = "open", UNCHANGED <<registered, rooms>>, showing'[c] = showing[c],
         c \in unanswered => c \in unanswered',
         Owed(c, g, i), ViewingStays(c), InTransit(g, i) => Reached(c, g, i)',
         NEW S, Grows(S), NotFor(Owner[c], S)
  PROVE  Reached(c, g, i)'
<1>1. BoundFor(Owner[c], g)
  BY GrownBound DEF Attached
<1>2. Attached(c, g)
  BY <1>1 DEF Attached
<1>3. Viewing(c, g) => Reached(c, g, i)'
  BY DEF ViewingStays, Reached
<1>4. Coming(Owner[c], g, i) => Reached(c, g, i)'
  BY GrownComing DEF Reached
<1> QED
  BY <1>2, <1>3, <1>4, StillReached

LEMMA InTouchServer ==
  ASSUME IInv, Counted, Counted', OwnMoves, InTouch, ServerStep
  PROVE  InTouch'
<1> SUFFICES ASSUME NEW c \in Conns, NEW g \in Games, Attached(c, g)', NEW i \in Nat, Owed(c, g, i)'
             PROVE  Reached(c, g, i)'
  BY DEF InTouch
<1>1. PICK u, m : u = Owner[c] /\ m = Head(mailbox)
  OBVIOUS
<1>2. mailbox \in Seq(Messages) /\ mailbox # <<>> /\ mailbox' = Tail(mailbox)
  BY DEF Counted, TypeOK, ServerTypeOK, ServerStep, Connected, Pushed, sessionVars,
         HandleConnect, HandleDisconnect, HandleJoin, Receives
<1>3. Shrinks /\ Indexed /\ Indexed' /\ m = mailbox[1] /\ m \in Messages
  BY <1>1, <1>2, OneTaken, Taken DEF Shrinks
<1>4. UNCHANGED <<requests, played, untold, showing, unanswered>> /\ u \in Users /\ g \in Rooms /\ g # MAIN_ROOM
  BY <1>1, SessionAssumption, ServerAssumption DEF ServerStep, Connected, Pushed, sessionVars, Rooms
<1>5. Owed(c, g, i) /\ showing[c] = g /\ g # NoGame /\ c \notin unanswered
  BY <1>4, SessionAssumption DEF Owed, Attached
<1>6. conn[c] = "open"
  BY <1>5 DEF OwnMoves
<1>7. registered[u] = c /\ (u \in rooms'[g] => (u \in rooms[g] /\ ~JoinAt(u, 1)) \/ mailbox[1] = Join(u, g))
  <2>1. registered'[u] = c
    BY <1>1 DEF Attached
  <2>2. CASE Connected
    <3>1. PICK c0 \in Conns : /\ conn[c0] = "starting"
                              /\ registered' = [registered EXCEPT ![Owner[c0]] = c0]
                              /\ rooms' = [rooms EXCEPT ![MAIN_ROOM] = @ \cup {Owner[c0]}]
      BY <2>2, ConnectedOpens
    <3>2. c # c0
      BY <1>6, <3>1
    <3>3. registered[u] = c
      BY <1>4, <2>1, <3>1, <3>2 DEF Counted, TypeOK, ServerTypeOK
    <3>4. rooms'[g] = rooms[g]
      BY <1>4, <3>1 DEF Counted, TypeOK, ServerTypeOK
    <3>5. ~JoinAt(u, 1)
      BY <1>1, <1>3, <2>2 DEF Connected, HandleConnect, Receives, JoinAt
    <3> QED
      BY <3>3, <3>4, <3>5
  <2>3. CASE HandleDisconnect
    <3>1. ~JoinAt(u, 1)
      BY <1>1, <1>3, <2>3 DEF HandleDisconnect, Receives, JoinAt
    <3>2. PICK d : d = Head(mailbox).user
      OBVIOUS
    <3>3. UNCHANGED <<registered, rooms>> \/ ( /\ registered' = [registered EXCEPT ![d] = NoConn]
                                               /\ rooms' = [r \in Rooms |-> rooms[r] \ {d}] )
      BY <2>3, <3>2 DEF HandleDisconnect
    <3>4. registered[u] = c
      BY <1>4, <2>1, <3>3, ServerAssumption DEF Counted, TypeOK, ServerTypeOK
    <3>5. u \in rooms'[g] => u \in rooms[g]
      BY <1>4, <3>3
    <3> QED
      BY <3>1, <3>4, <3>5
  <2>4. CASE HandleJoin
    <3>1. registered[u] = c
      BY <2>1, <2>4 DEF HandleJoin
    <3>2. m.type = "Join"
      BY <1>1, <2>4 DEF HandleJoin, Receives
    <3>3. m = Join(m.user, m.room)
      BY <1>3, <3>2 DEF Messages, Connect, Disconnect, Join
    <3>4. rooms' = [r \in Rooms |-> IF r = m.room THEN rooms[r] \cup {m.user} ELSE rooms[r] \ {m.user}]
      BY <1>1, <2>4 DEF HandleJoin
    <3>5. CASE m.user = u
      BY <1>3, <1>4, <3>1, <3>3, <3>4, <3>5
    <3>6. CASE m.user # u
      BY <1>3, <1>4, <3>1, <3>4, <3>6 DEF JoinAt
    <3> QED
      BY <3>5, <3>6
  <2>5. CASE Pushed
    BY <1>1, <1>3, <2>1, <2>5 DEF Pushed, Receives, JoinAt
  <2> QED
    BY <2>2, <2>3, <2>4, <2>5 DEF ServerStep
<1>8. BoundFor(u, g)
  BY <1>1, <1>3, <1>7, ShrunkBound DEF Attached
<1>9. Attached(c, g)
  BY <1>1, <1>5, <1>6, <1>7, <1>8 DEF Attached
<1>10. Newer
  BY PushedTold, NothingTold DEF ServerStep, Connected, sessionVars
<1>11. (Viewing(c, g) => Reached(c, g, i)') /\ (InTransit(g, i) => Reached(c, g, i)')
  BY <1>4 DEF Viewing, InTransit, Carries, Reached
<1>12. ASSUME Coming(u, g, i) PROVE Reached(c, g, i)'
  <2>1. Coming(u, g, i)' \/ (ViewAt(1, u, g, i) /\ Settled(u, 1))
    BY <1>3, <1>12, ShrunkComing
  <2>2. CASE Coming(u, g, i)'
    BY <1>1, <2>2 DEF Reached
  <2>3. CASE ViewAt(1, u, g, i) /\ Settled(u, 1)
    <3>1. m.type = "ClientMessage" /\ m.user # u /\ m.room = g /\ m.shows >= i
      BY <1>3, <2>3 DEF ViewAt
    <3>2. Pushed
      BY <1>1, <3>1 DEF ServerStep, Connected, HandleConnect, HandleDisconnect, HandleJoin, Receives
    <3>3. u \in rooms[g]
      <4>1. ASSUME NEW p \in DOMAIN mailbox, mailbox[p] = Join(u, g) PROVE FALSE
        <5>1. JoinAt(u, p) /\ p # 1
          BY <1>3, <3>1, <4>1 DEF JoinAt, Join
        <5>2. p > 1
          BY <1>3, <5>1 DEF Indexed
        <5> QED
          BY <2>3, <5>1, <5>2 DEF Settled
      <4> QED
        BY <1>8, <4>1 DEF BoundFor
    <3>4. c \in Recipients(g, m.user)
      BY <1>7, <3>1, <3>3, ServerAssumption DEF Recipients
    <3>5. told'[c][g] >= m.shows
      BY <1>1, <1>6, <3>1, <3>2, <3>4, PushedTold
    <3>6. m.shows \in Nat /\ told'[c][g] \in Nat
      BY <1>3, <3>1, SessionAssumption DEF Messages, Connect, Disconnect, Join, Counted, TypeOK
    <3>7. told'[c][g] >= i
      BY <3>1, <3>5, <3>6
    <3> QED
      BY <3>7 DEF Reached
  <2> QED
    BY <2>1, <2>2, <2>3
<1> QED
  BY <1>1, <1>5, <1>9, <1>10, <1>11, <1>12, StillReached

(***************************************************************************)
(* Connections that come, fall silent and go.                              *)
(***************************************************************************)
LEMMA InTouchConns ==
  ASSUME Counted, Counted', Carried, InTouch, NEW c0 \in Conns, Started(c0) \/ GoSilent(c0) \/ Stops(c0)
  PROVE  InTouch'
<1> SUFFICES ASSUME NEW c \in Conns, NEW g \in Games, Attached(c, g)', NEW i \in Nat, Owed(c, g, i)'
             PROVE  Reached(c, g, i)'
  BY DEF InTouch
<1>1. mailbox \in Seq(Messages) /\ UNCHANGED <<registered, rooms, played>>
  BY DEF Counted, TypeOK, ServerTypeOK, Started, GoSilent, Stops, serverVars
<1>2. CASE Started(c0) \/ GoSilent(c0)
  <2>1. UNCHANGED <<requests, untold, showing, told, unanswered>> /\ conn[c] = "open"
    BY <1>2 DEF Started, GoSilent, Attached, Counted, TypeOK
  <2>2. Owed(c, g, i)
    BY <1>1, <2>1 DEF Owed
  <2>3. ViewingStays(c) /\ (InTransit(g, i) => Reached(c, g, i)')
    BY <2>1, TransitSame DEF ViewingStays, Viewing, InTransitStays, Reached
  <2>4. \E S : Grows(S) /\ NotFor(Owner[c], S)
    <3>1. CASE Started(c0)
      <4>1. PICK m : m = Connect(Owner[c0], c0)
        OBVIOUS
      <4>2. m \in Messages /\ mailbox' = Append(mailbox, m)
        BY <3>1, <4>1, SessionAssumption DEF Started, Messages
      <4>3. Grows({m}) /\ NotFor(Owner[c], {m})
        BY <1>1, <4>1, <4>2, OneAdded DEF NotFor, Connect
      <4> QED
        BY <4>3
    <3>2. CASE GoSilent(c0)
      <4>1. Grows({}) /\ NotFor(Owner[c], {})
        BY <3>2, NoneAdded DEF GoSilent, serverVars, NotFor
      <4> QED
        BY <4>1
    <3> QED
      BY <1>2, <3>1, <3>2
  <2>5. Newer /\ showing'[c] = showing[c]
    BY <2>1, NothingTold
  <2> QED
    BY <1>1, <2>1, <2>2, <2>3, <2>4, <2>5, QuietStep
<1>3. CASE Stops(c0)
  <2>1. c # c0 /\ conn[c] = "open"
    BY <1>3 DEF Stops, Attached, Counted, TypeOK
  <2>2. showing'[c] = showing[c] /\ told'[c] = told[c] /\ (c \in unanswered => c \in unanswered')
    BY <1>3, <2>1 DEF Stops, Counted, TypeOK
  <2>3. /\ \A r \in Requests : requests[r] # Idle /\ requests[r].conn # c0 => requests'[r] = requests[r]
        /\ \A j : j \notin untold'[g] => j \notin untold[g]
        /\ \A r \in Requests : requests[r] # Idle /\ requests[r].conn = c0 /\ Carries(r)
              /\ requests[r].game = g => requests[r].move \in untold'[g]
    BY <1>3 DEF Stops, DropRequests, Carries
  <2>4. Owed(c, g, i)
    BY <1>1, <2>3 DEF Owed
  <2>5. ViewingStays(c)
    BY <2>1, <2>3 DEF ViewingStays, Viewing
  <2>6. ASSUME InTransit(g, i) PROVE Reached(c, g, i)'
    <3>1. PICK r \in Requests : Carries(r) /\ requests[r].game = g /\ requests[r].move = i
      BY <2>6 DEF InTransit
    <3>2. requests[r].conn # c0
      BY <2>3, <3>1 DEF Carries, Owed
    <3>3. requests'[r] = requests[r]
      BY <2>3, <3>1, <3>2 DEF Carries
    <3> QED
      BY <3>1, <3>3 DEF Carries, InTransit, Reached
  <2>7. PICK m : m = Disconnect(Owner[c0])
    OBVIOUS
  <2>8. Grows({m}) /\ NotFor(Owner[c], {m})
    BY <1>3, <2>7 DEF Stops, NotFor, Disconnect
  <2>9. \A j \in Nat : told[c][g] >= j => told'[c][g] >= j
    BY <2>2
  <2>10. BoundFor(Owner[c], g)
    BY <1>1, <2>8, GrownBound DEF Attached
  <2>11. Attached(c, g)
    BY <1>1, <2>1, <2>2, <2>10 DEF Attached
  <2>12. Reached(c, g, i)
    BY <2>4, <2>11 DEF InTouch
  <2> QED
    BY <2>5, <2>6, <2>8, <2>9, <2>12, GrownComing DEF ViewingStays, Reached
<1> QED
  BY <1>2, <1>3

(***************************************************************************)
(* A page opens a game, and is about to see it; or moves in one.           *)
(***************************************************************************)
LEMMA InTouchArrived ==
  ASSUME Counted, Counted', Succession, InTouch,
         NEW r \in Requests, NEW c0 \in Conns, NEW h \in Games, OpenGame(r, c0, h) \/ Move(r, c0, h)
  PROVE  InTouch'
<1> SUFFICES ASSUME NEW c \in Conns, NEW g \in Games, Attached(c, g)', NEW i \in Nat, Owed(c, g, i)'
             PROVE  Reached(c, g, i)'
  BY DEF InTouch
<1>1. PICK stage \in {"viewing", "begun"} :
         FrameArrives(r, c0, h, stage) /\ (OpenGame(r, c0, h) => stage = "viewing")
  BY DEF OpenGame, Move
<1>2. /\ \A q \in Requests : q # r => requests'[q] = requests[q]
      /\ requests'[r].stage = stage /\ requests'[r].conn = c0 /\ requests'[r].game = h
      /\ requests'[r] # Idle
      /\ requests[r] = Idle
  BY <1>1, ArrivedTyped
<1>3. /\ UNCHANGED <<registered, rooms, conn, played, untold, showing, told, unanswered>>
      /\ mailbox \in Seq(Messages)
  BY DEF OpenGame, Move, serverVars, Counted, TypeOK, ServerTypeOK
<1>4. conn[c] = "open" /\ Owed(c, g, i) /\ Newer /\ showing'[c] = showing[c] /\ registered[Owner[c]] = c
  BY <1>3, NothingTold DEF Attached, Owed
<1>5. ViewingStays(c) /\ InTransitStays
  BY <1>2, TransitUntouched DEF Untouched, ViewingStays, Viewing, Carries
<1>6. InTransit(g, i) => Reached(c, g, i)'
  BY <1>5 DEF InTransitStays, Reached
<1>7. CASE Move(r, c0, h)
  <2>1. Grows({}) /\ NotFor(Owner[c], {})
    BY <1>7, NoneAdded DEF Move, serverVars, NotFor
  <2> QED
    BY <1>3, <1>4, <1>5, <1>6, <2>1, QuietStep
<1>8. CASE OpenGame(r, c0, h)
  <2>1. PICK m : m = Join(Owner[c0], h)
    OBVIOUS
  <2>2. m \in Messages /\ mailbox' = Append(mailbox, m)
    BY <1>8, <2>1, SessionAssumption DEF OpenGame, Messages
  <2>3. Grows({m})
    BY <1>3, <2>2, OneAdded
  <2>4. CASE Owner[c0] # Owner[c]
    <3>1. NotFor(Owner[c], {m})
      BY <2>1, <2>4 DEF NotFor, Join
    <3> QED
      BY <1>3, <1>4, <1>5, <1>6, <2>3, <3>1, QuietStep
  <2>5. CASE Owner[c0] = Owner[c]
    <3>1. conn[c0] = "open" /\ c0 \notin silent
      BY <1>1 DEF FrameArrives
    <3>2. c0 = c
      BY <1>4, <2>5, <3>1 DEF Succession, Before
    <3>3. PICK n : n = Len(mailbox) + 1
      OBVIOUS
    <3>4. /\ n \in DOMAIN mailbox' /\ n > 0 /\ JoinAt(Owner[c], n)' /\ mailbox'[n] = m
          /\ \A p \in DOMAIN mailbox' : p # n => n > p
      <4>1. Len(mailbox) \in Nat /\ DOMAIN mailbox = 1 .. Len(mailbox)
        BY <1>3, LenProperties
      <4>2. DOMAIN mailbox' = DOMAIN mailbox \cup {n} /\ mailbox'[n] = m
        BY <1>3, <2>2, <3>3, Added
      <4>3. JoinAt(Owner[c], n)'
        BY <2>1, <2>5, <4>2 DEF JoinAt, Join
      <4> QED
        BY <3>3, <4>1, <4>2, <4>3
    <3>5. h = g
      <4>1. ASSUME NEW p \in DOMAIN mailbox', mailbox'[p] = Join(Owner[c], g), Settled(Owner[c], p)'
            PROVE  h = g
        <5>1. p = n
          BY <3>4, <4>1 DEF Settled
        <5> QED
          BY <2>1, <3>4, <4>1, <5>1 DEF Join
      <4>2. ~Settled(Owner[c], 0)'
        BY <3>4 DEF Settled
      <4> QED
        BY <4>1, <4>2 DEF Attached, BoundFor
    <3>6. Viewing(c, g)'
      BY <1>1, <1>2, <1>8, <3>2, <3>5 DEF Viewing
    <3> QED
      BY <3>6 DEF Reached
  <2> QED
    BY <2>4, <2>5
<1> QED
  BY <1>7, <1>8

(***************************************************************************)
(* A frame in progress.                                                    *)
(***************************************************************************)
LEMMA InTouchRequest ==
  ASSUME Counted, Counted', Carried, InTouch, NEW r \in Requests,
         SendView(r) \/ ViewFails(r) \/ Commit(r) \/ Refuse(r) \/ ReadOpponentView(r) \/ PushFails(r)
  PROVE  InTouch'
<1> SUFFICES ASSUME NEW c \in Conns, NEW g \in Games, Attached(c, g)', NEW i \in Nat, Owed(c, g, i)'
             PROVE  Reached(c, g, i)'
  BY DEF InTouch
<1>1. UNCHANGED <<mailbox, registered, rooms, conn>>
  BY DEF SendView, ViewFails, Commit, Refuse, ReadOpponentView, PushFails, serverVars
<1>2. Grows({}) /\ NotFor(Owner[c], {}) /\ conn[c] = "open"
  BY <1>1, NoneAdded DEF NotFor, Attached
<1>3. CASE SendView(r)
  <2>1. PICK c0, h : c0 = requests[r].conn /\ h = requests[r].game
    OBVIOUS
  <2>2. /\ c0 \in Conns /\ h \in Games
        /\ Newer
        /\ \A j \in DOMAIN played[h] : told'[c0][h] >= j
        /\ showing' = [showing EXCEPT ![c0] = h]
        /\ ~Carries(r)
    BY <1>3, <2>1, ViewSent
  <2>3. Untouched(r) /\ UNCHANGED <<played, untold>>
    BY <1>3, DoneFrees, FreesOne DEF Done, SendView
  <2>4. Owed(c, g, i)
    BY <2>3 DEF Owed
  <2>5. CASE c = c0
    <3>1. g = h
      BY <2>2, <2>5 DEF Attached, Counted, TypeOK
    <3> QED
      BY <2>2, <2>4, <2>5, <3>1 DEF Owed, Reached
  <2>6. CASE c # c0
    <3>1. showing'[c] = showing[c] /\ (c \in unanswered => c \in unanswered')
      BY <1>3, <2>1, <2>2, <2>6 DEF SendView, Counted, TypeOK
    <3>2. ViewingStays(c)
      BY <2>1, <2>3, <2>6, ViewingUntouched
    <3>3. InTransit(g, i) => Reached(c, g, i)'
      BY <2>2, <2>3, TransitUntouched DEF InTransitStays, Reached
    <3> QED
      BY <1>1, <1>2, <2>2, <2>4, <3>1, <3>2, <3>3, QuietStep
  <2> QED
    BY <2>5, <2>6
<1>4. CASE Commit(r)
  <2>1. PICK h, n : h = requests[r].game /\ n = Len(played[h]) + 1
    OBVIOUS
  <2>2. /\ requests[r] # Idle
        /\ \A k \in Games : k # h => played'[k] = played[k]
        /\ DOMAIN played'[h] = DOMAIN played[h] \cup {n}
        /\ \A j \in DOMAIN played[h] : played'[h][j] = played[h][j]
        /\ \A q \in Requests : q # r => requests'[q] = requests[q]
        /\ requests'[r] # Idle /\ requests'[r].stage = "committed" /\ requests'[r].move = n
        /\ requests'[r].game = h
    BY <1>4, <2>1, CommitAdds, Zenon
  <2>3. UNCHANGED <<untold, showing, told, unanswered>> /\ requests[r].stage = "begun"
    BY <1>4 DEF Commit
  <2>4. Untouched(r) /\ ~Carries(r)
    BY <2>2, <2>3 DEF Untouched, Carries
  <2>5. CASE g = h /\ i = n
    BY <2>2, <2>5 DEF InTransit, Carries, Reached
  <2>6. CASE ~(g = h /\ i = n)
    <3>1. Owed(c, g, i)
      BY <2>2, <2>3, <2>6 DEF Owed
    <3>2. ViewingStays(c)
      BY <2>3, <2>4, ViewingUntouched
    <3>3. InTransit(g, i) => Reached(c, g, i)'
      BY <2>4, TransitUntouched DEF InTransitStays, Reached
    <3>4. Newer /\ showing'[c] = showing[c]
      BY <2>3, NothingTold
    <3> QED
      BY <1>1, <1>2, <2>3, <3>1, <3>2, <3>3, <3>4, QuietStep
  <2> QED
    BY <2>5, <2>6
<1>5. CASE Refuse(r)
  <2>1. Untouched(r) /\ UNCHANGED <<played, untold, showing, told, unanswered>> /\ requests[r].stage = "begun"
    BY <1>5, DoneFrees, FreesOne DEF Done, Refuse
  <2>2. ViewingStays(c) /\ (InTransit(g, i) => Reached(c, g, i)')
    BY <2>1, ViewingUntouched, TransitUntouched DEF InTransitStays, Reached, Carries
  <2>3. Owed(c, g, i) /\ Newer /\ showing'[c] = showing[c]
    BY <2>1, NothingTold DEF Owed
  <2> QED
    BY <1>1, <1>2, <2>1, <2>2, <2>3, QuietStep
<1>6. CASE ReadOpponentView(r)
  <2>1. Untouched(r) /\ requests[r].stage = "committed"
    BY <1>6, ViewRead DEF Untouched
  <2>2. UNCHANGED <<played, untold, showing, told, unanswered>>
    BY <1>6 DEF ReadOpponentView
  <2>3. ViewingStays(c) /\ (InTransit(g, i) => Reached(c, g, i)')
    BY <1>6, <2>1, ViewingUntouched, TransitRead DEF InTransitStays, Reached
  <2>4. Owed(c, g, i) /\ Newer /\ showing'[c] = showing[c]
    BY <2>2, NothingTold DEF Owed
  <2> QED
    BY <1>1, <1>2, <2>2, <2>3, <2>4, QuietStep
<1>7. CASE PushFails(r)
  <2>1. Newer /\ Untouched(r) /\ UNCHANGED <<played, showing, unanswered>>
        /\ requests[r].stage = "committed"
    BY <1>7, Responded, DoneFrees, FreesOne DEF Done, PushFails, Frees
  <2>2. PICK h : h = requests[r].game
    OBVIOUS
  <2>3. h \in Games /\ untold' = [untold EXCEPT ![h] = untold[h] \cup {requests[r].move}]
    BY <1>7, <2>2, DoneFrees, RequestTyped DEF Done, PushFails, Frees
  <2>4. Owed(c, g, i)
    BY <2>1, <2>3 DEF Owed, Counted, TypeOK
  <2>5. ASSUME InTransit(g, i) PROVE Reached(c, g, i)'
    <3>1. PICK q \in Requests : Carries(q) /\ requests[q].game = g /\ requests[q].move = i
      BY <2>5 DEF InTransit
    <3>2. q # r
      BY <2>2, <2>3, <3>1 DEF Owed, Counted, TypeOK
    <3>3. requests'[q] = requests[q]
      BY <2>1, <3>2 DEF Untouched
    <3> QED
      BY <3>1, <3>3 DEF Carries, InTransit, Reached
  <2>6. ViewingStays(c)
    BY <2>1, ViewingUntouched
  <2> QED
    BY <1>1, <1>2, <2>1, <2>4, <2>5, <2>6, QuietStep
<1>8. CASE ViewFails(r)
  <2>1. PICK c0 : c0 = requests[r].conn
    OBVIOUS
  <2>2. Untouched(r) /\ UNCHANGED <<played, untold, showing, told>> /\ requests[r].stage = "viewing"
    BY <1>8, DoneFrees, FreesOne DEF Done, ViewFails
  <2>3. unanswered' = unanswered \cup {c0}
    BY <1>8, <2>1 DEF ViewFails
  <2>4. c # c0 /\ (c \in unanswered => c \in unanswered')
    BY <2>3 DEF Attached
  <2>5. ViewingStays(c) /\ (InTransit(g, i) => Reached(c, g, i)')
    BY <2>1, <2>2, <2>4, ViewingUntouched, TransitUntouched DEF InTransitStays, Reached, Carries
  <2>6. Owed(c, g, i) /\ Newer /\ showing'[c] = showing[c]
    BY <2>2, NothingTold DEF Owed
  <2> QED
    BY <1>1, <1>2, <2>4, <2>5, <2>6, QuietStep
<1> QED
  BY <1>3, <1>4, <1>5, <1>6, <1>7, <1>8

(***************************************************************************)
(* A push leaves for the server's mailbox, behind every Join sent before.  *)
(***************************************************************************)
LEMMA InTouchPush ==
  ASSUME Counted, Counted', Carried, InTouch, NEW r \in Requests, Push(r)
  PROVE  InTouch'
<1> SUFFICES ASSUME NEW c \in Conns, NEW g \in Games, Attached(c, g)', NEW i \in Nat, Owed(c, g, i)'
             PROVE  Reached(c, g, i)'
  BY DEF InTouch
<1>1. PICK m, c0, h, k : /\ c0 = requests[r].conn /\ h = requests[r].game /\ k = requests[r].shows
                         /\ m = ClientMessage(Owner[c0], h, k)
  OBVIOUS
<1>2. requests[r] # Idle /\ requests[r].stage = "pushing" /\ Untouched(r)
      /\ UNCHANGED <<registered, rooms, conn, played, untold, showing, unanswered>> /\ Newer
  BY DoneFrees, FreesOne, Responded DEF Done, Push, Frees
<1>3. c0 \in Conns /\ h \in Games /\ k \in Nat /\ mailbox \in Seq(Messages)
  BY <1>1, <1>2, RequestTyped, SessionAssumption DEF Counted, TypeOK, ServerTypeOK
<1>4. m \in Messages /\ mailbox' = Append(mailbox, m)
  BY <1>1, <1>3, SessionAssumption DEF Push, Messages, ClientMessage
<1>5. Grows({m}) /\ NotFor(Owner[c], {m})
  BY <1>1, <1>3, <1>4, OneAdded DEF NotFor, ClientMessage
<1>6. conn[c] = "open" /\ Owed(c, g, i) /\ showing'[c] = showing[c]
  BY <1>2 DEF Attached, Owed
<1>7. ViewingStays(c)
  BY <1>2, ViewingUntouched
<1>8. ASSUME InTransit(g, i) PROVE Reached(c, g, i)'
  <2>1. PICK q \in Requests : Carries(q) /\ requests[q].game = g /\ requests[q].move = i
    BY <1>8 DEF InTransit
  <2>2. CASE q # r
    <3>1. requests'[q] = requests[q]
      BY <1>2, <2>2 DEF Untouched
    <3> QED
      BY <2>1, <3>1 DEF Carries, InTransit, Reached
  <2>3. CASE q = r
    <3>1. h = g /\ k >= i /\ played[g][i] = c0
      BY <1>1, <1>2, <2>1, <2>3 DEF Carried, Carries
    <3>2. PICK n : n = Len(mailbox) + 1
      OBVIOUS
    <3>3. n \in DOMAIN mailbox' /\ mailbox'[n] = m /\ \A p \in DOMAIN mailbox' : ~(p > n)
      <4>1. Len(mailbox) \in Nat /\ DOMAIN mailbox = 1 .. Len(mailbox)
        BY <1>3, LenProperties
      <4>2. DOMAIN mailbox' = DOMAIN mailbox \cup {n} /\ mailbox'[n] = m
        BY <1>3, <1>4, <3>2, Added
      <4> QED
        BY <3>2, <4>1, <4>2
    <3>4. Settled(Owner[c], n)'
      BY <3>3 DEF Settled
    <3>5. m.type = "ClientMessage" /\ m.user = Owner[c0] /\ m.room = h /\ m.shows = k
      BY <1>1 DEF ClientMessage
    <3>6. ViewAt(n, Owner[c], g, i)'
      BY <1>6, <3>1, <3>3, <3>5 DEF ViewAt, Owed
    <3>7. Coming(Owner[c], g, i)'
      BY <3>3, <3>4, <3>6 DEF Coming
    <3> QED
      BY <3>7 DEF Reached
  <2> QED
    BY <2>2, <2>3
<1> QED
  BY <1>2, <1>5, <1>6, <1>7, <1>8, QuietStep

LEMMA InTouchStep ==
  ASSUME IInv, Counted, Counted', Carried, Succession, OwnMoves, InTouch, [Next]_vars
  PROVE  InTouch'
<1>1. CASE ServerStep
  BY <1>1, InTouchServer
<1>2. ASSUME NEW c \in Conns, Started(c) \/ GoSilent(c) \/ Stops(c)
      PROVE  InTouch'
  BY <1>2, InTouchConns
<1>3. ASSUME NEW c \in Conns, NEW r \in Requests, NEW g \in Games, OpenGame(r, c, g) \/ Move(r, c, g)
      PROVE  InTouch'
  BY <1>3, InTouchArrived
<1>4. ASSUME NEW r \in Requests,
             SendView(r) \/ ViewFails(r) \/ Commit(r) \/ Refuse(r) \/ ReadOpponentView(r) \/ PushFails(r)
      PROVE  InTouch'
  BY <1>4, InTouchRequest
<1>5. ASSUME NEW r \in Requests, Push(r)
      PROVE  InTouch'
  BY <1>5, InTouchPush
<1>6. CASE UNCHANGED vars
  BY <1>6 DEF vars, InTouch, Attached, Owed, Reached, BoundFor, Settled, JoinAt, Coming, ViewAt,
              Viewing, InTransit, Carries
<1> QED
  BY <1>1, <1>2, <1>3, <1>4, <1>5, <1>6, StoppingStops DEF Next

-----------------------------------------------------------------------------
(* Theorems about views.                                                   *)

LEMMA InitPushInv == Init => PushInv
<1> SUFFICES ASSUME Init PROVE PushInv
  OBVIOUS
<1>1. IInv
  BY InitInv
<1>2. /\ mailbox = <<>> /\ DOMAIN mailbox = {}
      /\ played = [g \in Games |-> <<>>] /\ Len(<<>>) = 0 /\ DOMAIN <<>> = {}
  BY EmptySeq, LenProperties DEF Init, ServerInit
<1>3. Counted
  BY <1>1, <1>2, SessionAssumption DEF Init, IInv, Typed, Counted, TypeOK, Idle
<1>4. Carried
  BY DEF Init, Carried
<1>5. Succession
  BY <1>2 DEF Init, Succession
<1>6. OwnMoves
  BY <1>2 DEF Init, OwnMoves
<1>7. InTouch
  BY DEF Init, InTouch, Attached
<1> QED
  BY <1>1, <1>3, <1>4, <1>5, <1>6, <1>7 DEF PushInv

LEMMA StepPushInv == PushInv /\ [Next]_vars => PushInv'
<1> SUFFICES ASSUME PushInv, [Next]_vars PROVE PushInv'
  OBVIOUS
<1>1. IInv /\ Counted /\ Carried /\ Succession /\ OwnMoves /\ InTouch
  BY DEF PushInv
<1>2. IInv'
  BY <1>1, StepInv
<1>3. Counted'
  BY <1>1, <1>2, CountedStep
<1> QED
  BY <1>1, <1>2, <1>3, CarriedStep, SuccessionStep, OwnMovesStep, InTouchStep DEF PushInv

(***************************************************************************)
(* The invariant of pages and moves, for any number of connections, games  *)
(* and frames.                                                             *)
(***************************************************************************)
THEOREM PushInvariant == Spec => []PushInv
BY InitPushInv, StepPushInv, PTL DEF Spec

(***************************************************************************)
(* Server, connections, frames and views keep their types; no view shows   *)
(* more moves than a game has.                                             *)
(***************************************************************************)
THEOREM SessionsTyped == Spec => []TypeOK
<1>1. PushInv => TypeOK
  BY DEF PushInv, Counted
<1> QED
  BY <1>1, PushInvariant, PTL

(***************************************************************************)
(* No move is missed between joining a room and reading the view, nor      *)
(* between a commit and its push, however the frames of all connections    *)
(* interleave; a page whose last view could not be read may miss those of  *)
(* others.                                                                 *)
(***************************************************************************)
THEOREM PagesCatchUp == Spec => []CaughtUp
<1>1. PushInv => CaughtUp
  <2> SUFFICES ASSUME PushInv, Quiet, NEW c \in Conns, NEW g \in Games, Follows(c, g),
                      NEW i \in DOMAIN played[g],
                      Promised(c, g, i), i \notin untold[g]
               PROVE  told[c][g] >= i
    BY DEF CaughtUp
  <2>1. DOMAIN mailbox = {} /\ i \in Nat
    BY EmptySeq, LenProperties DEF Quiet, PushInv, Counted, TypeOK
  <2>2. ~Viewing(c, g) /\ ~InTransit(g, i) /\ ~Coming(Owner[c], g, i)
    BY <2>1 DEF Quiet, Viewing, InTransit, Carries, Coming
  <2>3. CASE played[g][i] = c
    BY <2>2, <2>3 DEF PushInv, OwnMoves, Follows
  <2>4. CASE Owner[played[g][i]] # Owner[c] /\ c \notin unanswered
    <3>1. BoundFor(Owner[c], g)
      BY <2>1 DEF BoundFor, Settled, Follows
    <3>2. Attached(c, g) /\ Owed(c, g, i)
      BY <2>4, <3>1 DEF Attached, Follows, Owed
    <3>3. Reached(c, g, i)
      BY <2>1, <3>2 DEF PushInv, InTouch
    <3> QED
      BY <2>2, <3>3 DEF Reached
  <2> QED
    BY <2>3, <2>4 DEF Promised
<1> QED
  BY <1>1, PushInvariant, PTL

=============================================================================
