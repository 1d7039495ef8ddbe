\* Records of three bytes, two of them data; '#' (35) is not a data byte.
CONSTANTS
  MSG_SIZE = 3
  Byte = {0, 1}
  FieldsByte = {1}
  Hash = 35
  MaxRecords = 3
  MaxBoots = 3
SPECIFICATION Spec
INVARIANTS TypeOK WholeRecords CountsRecords HangsOnlyWithoutMarker
PROPERTIES ScanLeavesFileAlone ImplementsStack
CHECK_DEADLOCK FALSE
