SPECIFICATION Safety
CONSTANTS
  scan = scan
  put = put
  SortedNames <- ThreeNames
  AtStart = {}
  Scanners = {scan}
  Setters = {}
  Selections = {}
  TCPBase = 11
  TelnetBase = 10
  LowPort = 8
  MaxPort = 12
INVARIANTS
  TypeOK
  PortsDistinct
PROPERTIES
  MappingIsStable
