\* One session, two possible players and a third user who is neither.
SPECIFICATION Spec
CONSTANTS
  ann = ann
  bob = bob
  cat = cat
  g1 = g1
  NoUser = NoUser
  Users = {ann, bob, cat}
  Sessions = {g1}
  Verbs = {1}
  VerbLists <- OneVerb
  RepChoices = {4}
  Timestamps = {1, 2}
  Window = 100
  MaxMoves = 5
SYMMETRY PlayerSymmetry
CHECK_DEADLOCK FALSE
INVARIANTS
  TypeOK
  OrderedAsks
  OnlyLastOpen
  Alternation
  PracticeHasQuestion
  ScoresAreMistakes
  TurnsAgree
  UpdatedIsLastEvent
PROPERTIES
  HistoryKept
  KeepsTheRules
