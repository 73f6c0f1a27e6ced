\* Files of up to four lines, written while the driver starts, runs and ends.
SPECIFICATION FairSpec
CONSTANTS
  None = None
  Lines <- AnyLine
  MaxLines = 4
  Endpoints <- AnyEndpoint
  MaxEnds = 1
PROPERTIES
  LoadedAsWritten
  ServesAgain
