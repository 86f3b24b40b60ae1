\* A client over cut connections, servers of several versions, tokens and tables.
SPECIFICATION ClientSpec
CONSTANTS
  Tables = {"memory", "entity"}
  Primary = "memory"
  None = None
  ProtocolVersion = 22
  MaxStagedOps = 2
  MaxConnects = 3
  Scenarios <- All
INVARIANTS InStep AnswersTrue
CHECK_DEADLOCK FALSE
