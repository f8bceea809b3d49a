SPECIFICATION Spec
CONSTANTS
  NoKey = NoKey
  System = System
  Incinerator = NoKey
  UpgradeableLoaderId = UpgradeableLoaderId
  LoaderV4Id = LoaderV4Id
  w = w
  v = v
  P = P
  D = D
  B = B
  F = F
  R = R
  S = S
  Other = Other
  Keys <- MCKeys
  Sizes <- MCSizes
  NonceSize = 1
  MinimumBalance <- MCMinimumBalance
  MaxDataLength = 6
  MaxGrowth = 10
  U64Max = 100
  CreateWithSeed = {}
  Words <- MCWords
  Verified <- MCVerified
  SizeOf <- MCSizeOf
  ProgramDataOf <- MCProgramDataOf
  DeploymentCooldown = 1
  Genesis <- MCGenesis
  Instructions <- MCInstructions
  SignerSets <- MCSignerSets
  MaxInstructions = 2
  MaxSlot = 3
INVARIANTS ProgramsAreConsistent
PROPERTIES OneDeploymentPerSlot AuthoritySigns RetiredForever
