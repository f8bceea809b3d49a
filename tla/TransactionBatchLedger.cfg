SPECIFICATION MCSpec
CONSTANTS
  a = a
  b = b
  n = n
  Prog = Prog
  NativeLoader = NativeLoader
  Loader = Loader
  System = System
  NoKey = NoKey
  NoMessage = NoMessage
  Incinerator = Incinerator
  Keys <- MCKeys
  Sizes = {0, 1}
  NonceSize = 1
  MinimumBalance <- MCMinimumBalance
  MaxDataLength = 1
  MaxGrowth = 2
  U64Max = 100
  CreateWithSeed <- Derived
  Messages <- LedgerMessages
  MaxBatch = 2
  MaxSlot = 2
  Genesis <- LedgerGenesis
  BaseSize = 1
  ProgramOwners = {NativeLoader, Loader}
INVARIANTS LamportsConserved BatchIsExplained AccountsAreGuarded
PROPERTIES NoNewRentPaying
