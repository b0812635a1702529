\* Two verbs, 32 repetitions: the largest choice of the user interface.
SPECIFICATION Spec
CONSTANTS
  VerbLists <- Pair
  RepChoices = {32}
  Window = 100
  MaxQuestions <- HalfBeyond
CHECK_DEADLOCK FALSE
INVARIANTS NextVerbExists
