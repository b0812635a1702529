\* Two games on lasting connections, or one game with a player who connects again.
SPECIFICATION MCSpec
CONSTANTS
  ann = ann
  bob = bob
  a1 = a1
  a2 = a2
  b1 = b1
  g1 = g1
  g2 = g2
  r1 = r1
  r2 = r2
  MAIN_ROOM = MAIN_ROOM
  NoConn = NoConn
  NoGame = NoGame
  Users = {ann, bob}
  Conns = {a1, a2, b1}
  Owner <- Owners
  Games = {g1, g2}
  Requests = {r1, r2}
  MaxMoves = 1
  MaxMailbox = 1
CHECK_DEADLOCK FALSE
INVARIANTS TypeOK OneGameRoom NoDeadAddress CaughtUp
PROPERTY SilentForgotten
