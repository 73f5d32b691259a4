SPECIFICATION Spec
CONSTANTS
  MaxFlag = 5
  Value = {v1, v2}
  Default = v0
  Torn = {"badcrc", "unreadable"}
INVARIANTS TypeOK BackupSurvives
PROPERTIES LatestIsLoaded
