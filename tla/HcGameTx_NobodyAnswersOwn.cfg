\* PostgreSQL: two requests at a time over one session.
SPECIFICATION TxSpec
CONSTANTS
  ann = ann
  bob = bob
  g1 = g1
  r1 = r1
  r2 = r2
  NoUser = NoUser
  Users = {ann, bob}
  Sessions = {g1}
  Requests = {r1, r2}
  Timestamps = {1, 2}
  Verbs = {1}
  VerbLists <- OneVerb
  RepChoices = {4}
  Window = 100
  MaxMoves = 3
  Isolations = {"read_committed"}
  MaxPoints = 2
SYMMETRY RequestSymmetry
CHECK_DEADLOCK FALSE
INVARIANT NobodyAnswersOwn
