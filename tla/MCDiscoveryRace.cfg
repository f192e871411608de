SPECIFICATION Safety
CONSTANTS
  scan = scan
  put = put
  SortedNames <- OneName
  AtStart = {}
  Scanners = {scan}
  Setters = {put}
  Selections <- AllOrOther
  TCPBase = 11
  TelnetBase = 20
  LowPort = 8
  MaxPort = 24
PROPERTIES MappingIsStable
