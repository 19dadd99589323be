CONSTANTS
  ByteMod = 2
  NumRegs = 4
  Decode <- MCDecode
  Alu <- MCAlu
  SysNumReg = 3
  SysArg0Reg = 1
  SpReg = 2
  kExit = 5
  StackTop = 7
  IcountMod = 8
  Elfs <- MCElfs
SPECIFICATION SimSpec
INVARIANTS
  TypeOK
PROPERTIES
  ImplementsGuest
