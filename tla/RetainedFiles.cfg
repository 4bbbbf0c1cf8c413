SPECIFICATION Spec
CHECK_DEADLOCK FALSE
CONSTANTS
  r1 = r1  r2 = r2  r3 = r3  i1 = i1
  Runs = {r1, r2, r3}
  Reports = {i1}
  NoRun = NoRun
  MaxBytes = 4
  MaxFiles = 2
  FallbackSlots = 1
  Room = 2
  Size = 1
  AckRetention = 1
  RecoveryRetention = 1
  MaxTries = 2
  MaxTime = 1
SYMMETRY IdSymmetry
INVARIANTS OneCopy Kept OwnOnDisk BytesCharged SlotsExact
PROPERTIES DeadlineFixed
