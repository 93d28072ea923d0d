SPECIFICATION Spec
CONSTANTS
  Promotions = {p1}
  Writers = {w1, w2, w3}
  Events = {"requested", "merged"}
  Attempts = 3
  MaxRows = 5
INVARIANTS
  AnswersAreTrue
PROPERTY
  ImplementsLog
SYMMETRY WriterSymmetry
CHECK_DEADLOCK FALSE
