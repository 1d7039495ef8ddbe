\* Queues of one: two buffers make rxQueue full with one more to send, and four
\* packets make OutQueue full behind a popped message, before and after a restart.
CONSTANTS
  Buffers = {b1, b2}
  None = None
  QLEN = 1
  ElmInstalled = TRUE
  MaxPackets = 4
  MaxBoots = 2
SPECIFICATION FairSpec
INVARIANTS TypeOK OneOwner OnePlace CountsCard TravelsWhole
PROPERTY Drains
