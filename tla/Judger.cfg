CONSTANTS
  BufferSize = 4
  Byte = {"z", "p", "q"}
  Zero = "z"
  SeqNum = {0, 1, 2}
  NoSeq = 0
  Packet <- MCPacket
  Cache = {"data"}
  Digest = {1, 2}
  CacheCells = 1
  MaxRounded = 5
  MaxTimeLimit = 2
  MaxQueryLen = 1
  Execute <- MCExecute
  MaxJudges = 3
SPECIFICATION Spec
INVARIANTS
  ResultFresh
  TimeAccounted
