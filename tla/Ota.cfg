\* The partition table of partitions.csv: factory, ota_0 and ota_1.
CONSTANT LastOta = 2
SPECIFICATION FairSpec
INVARIANTS TypeOK BootIntact NewIsUntried
PROPERTIES FactoryKept NewIsTried
