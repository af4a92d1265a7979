CONSTANTS
  Depth = 3
  MaxCmds = 5
  MaxIos = 1
  MaxLives = 2
SPECIFICATION FairSpec
INVARIANTS AdminAnswersInOrder IoCommandsConserved WorkerUsesItsQueue
PROPERTY AdminAlwaysAnswers
CHECK_DEADLOCK FALSE
