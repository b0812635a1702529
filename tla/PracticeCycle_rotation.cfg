\* One to four verbs for a few cycles; two verbs with the smaller choices of
\* the user interface beyond the window.
SPECIFICATION Spec
CONSTANTS
  VerbLists <- OneToFour
  RepChoices = {1, 2, 4, 8, 16}
  Window = 100
  MaxQuestions <- HalfBeyond
CHECK_DEADLOCK FALSE
INVARIANTS TypeOK BlocksOfReps EvenRotation NextVerbExists
