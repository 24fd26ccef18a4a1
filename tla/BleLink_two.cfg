SPECIFICATION FairSpec
CONSTANTS
  p1 = p1
  p2 = p2
  Phones = {p1, p2}
  Chars = 1
  MaxQueue = 2
INVARIANTS
  PeersTrackLinks
  FlagMeansPeer
PROPERTIES
  AlwaysReachable
  SubscriberServed
