SPECIFICATION Spec
CONSTANTS
  Names = {a}
  Values = {v1}
  MaxKeys = 1
  Mode = "boot"
  Ops = {}
  MaxFaults = 1
INVARIANTS BackupIsRead
