SPECIFICATION BothSpec
CONSTANTS
  Requests = {r1, r2}
  Calls = {c}
  Connections = 1
  Chunks = 2
  RequireOnV1 = TRUE
  out1 = "out1"  out2 = "out2"  lan = "lan"  Blank = ""
  Values = {"out1", "out2", "lan", "http", "https", ""}
  Trusted = {"lan"}
  Schemes = {"http", "https"}
  PlainNames = {"accept"}
  Peers = {"out1", "lan", ""}
  Asked <- SomeHeaders
  MaxHops = 2
INVARIANTS TypeOK CompleteIsWhole PoolAccounted CallersUnheard ChainsAgree
PROPERTIES ConnectionsComeBack RequestsEnd
CHECK_DEADLOCK FALSE
