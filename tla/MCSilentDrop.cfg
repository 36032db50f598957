CONSTANTS
  p1 = p1
  p2 = p2
  c1 = c1
  c2 = c2
  Producers <- MCProducers
  Closers <- MCOneCloser
  Capacity = 1
  MaxPush = 2
SPECIFICATION Spec
INVARIANT NoSilentDrop
CHECK_DEADLOCK FALSE
