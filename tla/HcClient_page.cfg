\* ann at her page, bob elsewhere, in three instances.
SPECIFICATION MCSpec
CONSTANTS
  ann = ann
  bob = bob
  g1 = g1
  g2 = g2
  NoUser = NoUser
  Users = {ann, bob}
  Readers = {ann}
  Sessions = {g1, g2}
  NoGame = NoGame
  Verbs = {1, 2}
  NoVerb = NoVerb
  VerbLists <- AllVerbs
  RepChoices = {4}
  Timestamps = {1}
  Window = 100
  MaxMoves = 3
  MaxCalls = 2
  MaxTimers = 2
  Instances = {"verbs", "long game", "two games"}
CHECK_DEADLOCK FALSE
INVARIANTS ClientTypeOK AnswersWhatWasShown AsksByTheRule
PROPERTY CountdownEnds
