SPECIFICATION Spec
CONSTANTS
  a = a
  d = d
  p = p
  A = A
  B = B
  Builtin = Builtin
  Native = Native
  Loader = Loader
  OldLoader = OldLoader
  PrecompiledProgram = PrecompiledProgram
  System = System
  NoKey = NoKey
  Incinerator = Incinerator
  Keys <- MCKeys
  Sizes = {0, 1, 2, 3, 4}
  NonceSize = 2
  MinimumBalance <- MCMinimumBalance
  MaxDataLength = 4
  MaxGrowth = 2
  U64Max = 100
  CreateWithSeed = {}
  Transactions <- SharingTxs
  Calls <- SharingCalls
  Executable = {A, B, System, Builtin}
  NativeLoader = Native
  Loaders = {Loader, OldLoader}
  DeprecatedLoader = OldLoader
  Precompiles = {PrecompiledProgram}
  Unauthorized = {PrecompiledProgram, Native}
  ProgramAddress = {}
  MaxIncrease = 1
  StackCapacity = 3
  TraceCapacity = 4
  ComputeUnits = 6
  NewOwners = {A, B}
  Touched = {d}
INVARIANTS NoStaleView MemoryFits
PROPERTIES OwnersOnly
