SPECIFICATION Spec
CONSTANTS
  l1 = l1
  l2 = l2
  scan = scan
  put = put
  None = None
  Kinds = {"tcp", "telnet"}
  Threads = {scan, put}
  Listeners = {l1, l2}
INVARIANTS
  OpenIsWithinReach
  ClosedForGood
PROPERTIES
  ListensAgain
CHECK_DEADLOCK FALSE
