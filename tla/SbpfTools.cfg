SPECIFICATION Spec
CONSTANTS
  ByteBits = 3
  hash_symbol_name <- MCHash
  Builtins <- MCBuiltins
  Inputs <- MCInputs
INVARIANTS LoadedAsLinked EncodersAgree AnalysisIsSound
PROPERTIES CfgCoversExecution
CHECK_DEADLOCK FALSE
