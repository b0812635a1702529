\* A verb that the chooser of another game does not offer.
SPECIFICATION MCSpec
CONSTANTS
  ann = ann
  bob = bob
  g1 = g1
  g2 = g2
  NoUser = NoUser
  Users = {ann, bob}
  Readers = {ann}
  Sessions = {g1, g2}
  NoGame = NoGame
  Verbs = {1, 2, 3}
  NoVerb = NoVerb
  VerbLists <- AllVerbs
  RepChoices = {4}
  Timestamps = {1}
  Window = 100
  MaxMoves = 2
  MaxCalls = 1
  MaxTimers = 2
  Instances = {"two games, all verbs"}
CHECK_DEADLOCK FALSE
INVARIANT SameVerbNamed
