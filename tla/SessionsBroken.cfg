SPECIFICATION FairSpec
CONSTANTS
  c1 = c1
  c2 = c2
  Client = {c1, c2}
  Reader <- MCReader
  Byte <- MCByte
  Requests <- MCRequests
  Answers <- MCAnswers
  Stale <- MCStale
  NL = "nl"
  NUL = "nul"
  CR = "cr"
  MAXLINE = 5
  RIO_BUFSIZE = 1
  Descriptor = {0, 1, 2, 3}
  MaxConnections = 2
PROPERTY SurvivesBrokenConnections
CHECK_DEADLOCK FALSE
