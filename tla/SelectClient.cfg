\* With room for three bytes a read may bring a line and a half, and hide a whole
\* line; four lines of two bytes fill every buffer on the way.
SPECIFICATION Spec
CONSTANTS
  Programs = {"lines", "buffers"}
  MaxLines = 4
  Cap = 3
  Faults = {"stdin", "stdout", "sock"}
INVARIANTS OutcomeExplained
PROPERTIES LinesShown
\* The client ends, and it may wait for ever.
CHECK_DEADLOCK FALSE
