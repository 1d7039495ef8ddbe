\* As FileStack.cfg, with pushes cut short by a power loss.
CONSTANTS
  MSG_SIZE = 3
  Byte = {0, 1}
  FieldsByte = {1}
  Hash = 35
  MaxRecords = 3
  MaxBoots = 3
SPECIFICATION TornSpec
PROPERTY RepairRestoresRecords
CHECK_DEADLOCK FALSE
