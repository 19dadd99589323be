CONSTANTS
  ByteMod = 2
  NumRegs = 4
  Decode <- MCDecode
  Alu <- MCAlu
  SysNumReg = 3
  SysArg0Reg = 1
  SpReg = 2
  kExit = 5
  StackTop = 7
  IcountMod = 8
  NarrowIcountMod = 4
  NumExecMod = 8
  kSize = 2
  MaxBlockLen = 5
  Backends = {"cached-interp"}
  Configs <- StoreConfigs
  Programs <- StorePrograms
  Entries = {0}
SPECIFICATION HistSpec
INVARIANTS
  BlocksAreAligned
