\* Keyboard, serial port, a buffer of three characters and a screen of 2 by 3.
SPECIFICATION FairSpec
CONSTANTS
  CONSBUFSIZE = 3
  BUFLEN = 4
  CRT_COLS = 3
  CRT_ROWS = 2
  Sessions <- MCSessions
  FIFO = 2
CHECK_DEADLOCK FALSE
INVARIANTS ModifiersMatch EchoShowsLine
PROPERTIES InOrder InputArrives
