SPECIFICATION EfexSpec
CONSTANTS
  MaxLens = {1}
  SecPerPage = 1
  NSectors = 1
  Data = {d1}
  Formats = {{"new"}}
  Names = {"down_flash", "verify_value", "set_off", "query"}
  Follows = 1
INVARIANTS WriteErrorTold
