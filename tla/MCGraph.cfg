CONSTANTS
  Document <- MCDocument
  MaxRows = 2
SPECIFICATION Spec
INVARIANTS TypeOK AnswerFitsSchema NullsExplained MutationsInOrder
PROPERTY EveryOperationAnswered
CHECK_DEADLOCK FALSE
