\* Three failures break a packet's two publishes apart and the retry twice; two
\* ids so that a new subscription may reuse one that is still stored.
CONSTANTS
  MaxPackets = 2
  QLEN = 2
  MaxFailures = 3
  Ids = {1, 2}
SPECIFICATION FairSpec
INVARIANTS TypeOK CountCoversAcks OneSocket
PROPERTIES ImplementsRelay EachIsPublished
