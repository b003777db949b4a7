\* Two readers and two writers, one of each can be killed, on a buffer of two
\* bytes whose counters wrap at four; a write may not fit.
CONSTANTS
  Readers = {r1, r2}
  Writers = {w1, w2}
  Bytes = {0, 1}
  PIPESIZE = 2
  WRAP = 4
  Messages <- MCMessages
  Killable = {r1, w1}
CHECK_DEADLOCK FALSE
SPECIFICATION Spec
INVARIANT SleepersIdle
PROPERTY Fifo
