CONSTANTS
  Word = 64
  PageSize = 2
  KernelBreak = 2
  LoadStart64 = 2
  LoadStart32 = 4
  Userspace32 = 16
  VaddrTop = 18
  KiB = 2
  HugePageSize = 2
  AllocSizes <- MCAllocSizes
  Elfs <- MCElf32
  Configs <- MCConfigs
SPECIFICATION Spec
INVARIANT ImagePageCleared
CHECK_DEADLOCK FALSE
