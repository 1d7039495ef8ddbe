\* As Collector.cfg, for the claim that stored messages are requeued.
CONSTANTS
  Buffers = {b1, b2, b3}
  None = None
  QLEN = 2
  ElmInstalled = TRUE
  MaxPackets = 4
  MaxBoots = 1
SPECIFICATION Spec
INVARIANT StoredIsRequeued
