\* Three lines: one disturbed (by a timeout, a duplicate, a stray), and others
\* whose answers then come late.
SPECIFICATION Spec
CONSTANTS
  Programs = {"plain", "checked", "alarm", "select", "rcvtimeo"}
  MaxLines = 3
  MaxExtra = 2
INVARIANTS AnswersExplained NoStrayAlarm
PROPERTIES WaitEnds
\* The client exits at end of file, or waits for ever.
CHECK_DEADLOCK FALSE
