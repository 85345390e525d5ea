SPECIFICATION TcpSpec
CONSTANTS
  Slots = {1}
  Ports = {1}
  SeqMod = 64
  IssGap = 16
  RecvBuffer = 1
  MaxTries = 1
  MaxOpens = 2
  MaxBytes = 2
  WireSize <- OneEach
  Speakers = {"client"}
  Leaves = {TRUE, FALSE}
CHECK_DEADLOCK FALSE
INVARIANT StreamExact
