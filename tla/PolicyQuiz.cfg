SPECIFICATION Spec
CHECK_DEADLOCK FALSE
CONSTANTS
  Questions <- MCQuestions
  Seconds <- MCSeconds
  StartPoints <- MCStartPoints
  MaxPasses = 3
  NoSave = NoSave
INVARIANTS
  TypeOK
  AnsweredOnce
  PaidPerPass
  StartDiscardsNothing
PROPERTY QuizEnds
