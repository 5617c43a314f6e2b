SPECIFICATION Spec
CONSTANTS
  a = a
  b = b
  Null = Null
CHECK_DEADLOCK FALSE
INVARIANT TypesOK
INVARIANT SendsAreHonest
INVARIANT ChecksAreSound
INVARIANT SavedIsComplete
PROPERTY AnswersAreExplained
PROPERTY WaitingEnds
PROPERTY DatabaseComesUp
