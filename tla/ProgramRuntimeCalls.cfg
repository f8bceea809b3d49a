SPECIFICATION FairSpec
CONSTANTS
  a = a
  d = d
  p = p
  A = A
  B = B
  Builtin = Builtin
  Native = Native
  Loader = Loader
  OldLoader = OldLoader
  PrecompiledProgram = PrecompiledProgram
  System = System
  NoKey = NoKey
  Incinerator = Incinerator
  Keys <- MCKeys
  Sizes = {0, 1}
  NonceSize = 1
  MinimumBalance <- MCMinimumBalance
  MaxDataLength = 1
  MaxGrowth = 1
  U64Max = 100
  CreateWithSeed = {}
  Transactions <- CallTxs
  Calls <- CallCalls
  Executable = {A, B, System, Builtin}
  NativeLoader = Native
  Loaders = {Loader, OldLoader}
  DeprecatedLoader = OldLoader
  Precompiles = {PrecompiledProgram}
  Unauthorized = {PrecompiledProgram, Native}
  ProgramAddress <- AddressOfA
  MaxIncrease = 1
  StackCapacity = 3
  TraceCapacity = 4
  ComputeUnits = 7
  NewOwners = {}
  Touched = {d}
INVARIANTS PrivilegesAreGranted CallsAreSound
PROPERTIES Terminates
