CONSTANTS
  NoUrl = NoUrl
  Absent = Absent
  NoPort = NoPort
  UrlSet <- MCUrlSet
  CharCode <- MCCharCode
  NumUrls = 2
  Ports = {0, 1}
  MaxRestarts = 1
  RestartFiles <- MCRestartFiles
  NumBkt = 2
  BktSlots = 1
  HashVals = {0, 1}
  LogCap = 40
  MaxUrlLen = 4
  LogHeadroom = 7

SPECIFICATION Spec

\* ndn_check returns (or an assert stops the process): the program ends.
CHECK_DEADLOCK FALSE

INVARIANTS
  TypeOK
  TerminalExactlyLines
  FirstPortWins
  CheckFailsOnlyAfterReportedFailure

PROPERTIES
  Terminates
