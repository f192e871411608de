SPECIFICATION Spec
CONSTANTS
  Handles = {h1, h2}
  Threads = {t1, t2}
  Writers = {w1}
  h1 = h1
  h2 = h2
  t1 = t1
  t2 = t2
  w1 = w1
  None = None
  MaxGeneration = 3
INVARIANTS
  AttachedIsServed
  NoCloseDuringWrite
  NoLeakedHandle
PROPERTIES
  RemovalHasAnOwner
  UnservedHandleCloses
