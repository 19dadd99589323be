CONSTANTS
  ByteMod = 2
  NumRegs = 3
  Decode <- MCDecode
  Alu <- MCAlu
  SysNumReg = 1
  SysArg0Reg = 2
  kExit = 5
  IcountMod = 8
  Tested = {"ir"}
  States <- MCStates
  Memories <- MCMemories
  Insns <- MCInsns
SPECIFICATION Spec
CHECK_DEADLOCK FALSE
INVARIANTS
  TranslatesLikeInterpreter
