SPECIFICATION Spec
CONSTANTS
  a = a
  b = b
  n = n
  Prog = Prog
  NativeLoader = NativeLoader
  Loader = Loader
  System = System
  NoKey = NoKey
  NoMessage = NoMessage
  Incinerator = Incinerator
  Keys <- MCKeys
  Sizes = {0, 1}
  NonceSize = 1
  MinimumBalance <- MCMinimumBalance
  MaxDataLength = 1
  MaxGrowth = 2
  U64Max = 100
  CreateWithSeed = {}
  Messages <- NonceMessages
  MaxBatch = 2
  MaxSlot = 3
  Genesis <- NonceGenesis
  BaseSize = 1
  ProgramOwners = {NativeLoader, Loader}
INVARIANTS
  NonceUsedOnce
  NonceStaysFunded
PROPERTIES
  FailedOnlyPays
