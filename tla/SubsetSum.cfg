CONSTANTS
  Number = {0, 1, 2, 3, 4}
  MaxLength = 4
  Target = {1, 2, 3, 4, 5, 6, 7}
  Garbage = {0, 2}
  num_children = 2
SPECIFICATION Spec
INVARIANTS AnswersAreRight PrintedOnce OnlyUnstoredSurvives
