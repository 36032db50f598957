CONSTANTS
  p1 = p1
  p2 = p2
  c1 = c1
  c2 = c2
  Producers <- MCProducers
  Closers <- MCClosers
  Capacity = 1
  MaxPush = 2
SPECIFICATION FairSpec
INVARIANTS TypeOK NoEnvelopeVanishes FifoPerProducer CountersAudit LossIsReported ClosedIsSealed GracefulDrain
PROPERTIES CloseEnds BackpressureReleases
CHECK_DEADLOCK FALSE
