SPECIFICATION Spec
CONSTANTS
  c1 = c1
  c2 = c2
  Clients = {c1, c2}
  None = None
  Scenarios <- SomeScenarios
INVARIANTS
  TypeOK
  InputArrives
  LineEndsAreNormalized
  HistoryIsTheWire
  OutputIsTransparent
  NegotiationsAreAnswered
PROPERTIES
  EscapesStayApart
  InputIsWritten
CHECK_DEADLOCK FALSE
