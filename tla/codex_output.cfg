SPECIFICATION OutputSpec
CONSTANTS
  Word = {x, y}
  Kept = 2
  MaxLines = 2
  MaxErrors = 3
SYMMETRY Symmetry
INVARIANT SessionIsLast
INVARIANT AnswerIsLast
INVARIANT StaleIsSeen
CHECK_DEADLOCK FALSE
