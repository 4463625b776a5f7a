\* One attached client, acks as a client builds them, one loss of the isolate.
SPECIFICATION FairSpec
CONSTANTS
  e1 = e1
  e2 = e2
  e3 = e3
  Envelopes = {e1, e2, e3}
  Sockets = {w1}
  Lifetimes = {1, 2}
  AckLists <- PageAcks
  MaxBacklog = 2
  MaxPage = 1
  Horizon = 3
  MaxRequests = 3
  MaxCrashes = 1
INVARIANTS
  Accounting   LossesContained
PROPERTIES OnlyAckOrExpiry SyncReturnsLive KeepsContract AbandonedExpires
