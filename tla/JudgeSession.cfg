CONSTANTS
  BufferSize = 4
  Byte = {"z", "p", "a", "b"}
  Zero = "z"
  SeqNum = {0, 1, 2}
  NoSeq = 0
  Packet <- MCPacket
  Cache = {}
  Digest = {}
  CacheCells = 1
  MaxRounded = 5
  MaxTimeLimit = 2
  MaxQueryLen = 2
  Execute <- MCExecute
  MaxJudges = 4
  NTasks = 2
  Script <- MCScript
  TosendSize = 2
  ChannelBound = 2
  MaxHidden = 1
SPECIFICATION SessionSpec
INVARIANTS
  EndToEnd
  OneRunPerTask
 
CHECK_DEADLOCK FALSE
