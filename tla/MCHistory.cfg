SPECIFICATION Spec
CONSTANTS
  Clients = {c1}
  c1 = c1
  Sizes = {1, 3, 4}
  Limits = {1, 2}
  MaxHistoryBytes = 3
  MaxSequence = 5
INVARIANTS
  NoSilentLoss
  NothingRedelivered
PROPERTIES
  EvictsWhatItMust
  ImplementsFeed
  CatchesUp
