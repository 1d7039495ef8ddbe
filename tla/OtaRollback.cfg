CONSTANT LastOta = 2
SPECIFICATION Spec
INVARIANT RollbackFindsImage
