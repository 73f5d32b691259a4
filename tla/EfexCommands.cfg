SPECIFICATION EfexSpec
CONSTANTS
  MaxLens = {1}
  SecPerPage = 1
  NSectors = 1
  Data = {d1}
  Formats = {{"old"}, {"new"}}
  Names = {"query", "unsupported", "trans_up", "trans_down", "trans_none", "down_dram", "down_mbr", "down_boot", "down_flag", "down_mem", "up", "verify_value", "verify_status", "set_on", "set_off", "tool_exit", "tool_stay", "memset", "pmu", "unseq_read", "unseq_write", "force_erase", "force_erase_key"}
  Follows = 1
PROPERTIES PacketAnswered
