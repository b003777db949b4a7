CONSTANTS
  Problems <- MCProblems
  Algs <- MCAlgs
  Timeout = 12
  Limit = 2
  MaxTime = 22
  Grids <- MCGrids
  Methods <- AllMethods
  Discount = 2
  MaxErrors <- MCMaxErrors
  MaxIters = 6
  EpLimit = 5
  Episodes = 2
  MaxSteps = 7
  Horizon = 6
SPECIFICATION NotebookSpec
CHECK_DEADLOCK FALSE
INVARIANT AnswersRight QueueExact WithinError PlanArrives Attainable
PROPERTY Ends
