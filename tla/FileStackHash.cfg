\* As FileStack.cfg, with 35 (the marker) among the data bytes.
CONSTANTS
  MSG_SIZE = 3
  Byte = {1, 35}
  FieldsByte = {1}
  Hash = 35
  MaxRecords = 3
  MaxBoots = 3
SPECIFICATION Spec
PROPERTY ScanLeavesFileAlone
CHECK_DEADLOCK FALSE
