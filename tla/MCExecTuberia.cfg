\* Two children at a time, every input of up to three lines and one of four, a
\* pipeline among them or none.
CONSTANTS
  NumProcs = 2
  MaxLines = 4
  Inputs <- ShortInputs
CHECK_DEADLOCK FALSE
SPECIFICATION FairSpecT
INVARIANT CountExact
INVARIANT NoFailureLost
INVARIANT OneLineAfterError
INVARIANT OutputInOrder
PROPERTY Drains
