\* Command lines with up to three stages.
SPECIFICATION FairSpec
CONSTANTS
  Lines <- MCLines
  STAGES = 3
  MAXFD = 4
  MAXARGS = 2
  UNITS = 2
  PIPEBUF = 1
CHECK_DEADLOCK FALSE
INVARIANTS EofIsFinal PromptMeansDone
PROPERTIES LineFinishes
