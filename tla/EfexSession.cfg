SPECIFICATION EfexSpec
CONSTANTS
  MaxLens = {1}
  SecPerPage = 1
  NSectors = 1
  Data = {d1}
  Formats = {{"old"}, {"new"}}
  Names = {"down_flash", "down_mbr", "verify_value", "set_off", "tool_exit", "no_change"}
  Follows = 0
INVARIANTS StatusIsAwaited DmaIsAwaited DataHasMeaning SessionIsDurable VerifyFindsData
