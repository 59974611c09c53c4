SPECIFICATION FairSpec
CONSTANTS
  Deliveries = {d1, d2}
  NoDelivery = NoDelivery
  Workers = {w1, w2}
  MaxSends = 2
  AssessMax = 1
  BusyRetries = 2
  AcquireTimeout = 1
  BusySleep = 1
  AssessTimeout = 2
  PostBound = 1
  WorkBound = 2
  ClaimTTL = 5
  PurgeAge = 6
INVARIANTS OneHandlerPerDelivery AssessThreadsBounded
PROPERTIES PushSettlesItsClaim NeverLockedOut
