SPECIFICATION StreamSpec
CONSTANTS
  Way = {"toAnthropic", "toChat", "openai", "other", "audio"}
  Tool = {"t0", "t1"}
  MaxParts = 4
CHECK_DEADLOCK FALSE
INVARIANT ArgumentsReachTheirCall
