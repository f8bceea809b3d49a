SPECIFICATION MCSpec
CONSTANTS
  ByteBits = 1
  MaxCallDepth = 3
  StackFrameSize = 2
  CheckpointDistance = 3
  Families <- MCFamilies
  Debugged <- MCDebugged
  TextSectionOffset = 3
  XmlLen = 5
  MaxCommands = 4
INVARIANTS EnginesAgree VmIsBounded LookupsAreRight DebuggerIsFaithful HostIsSafe StatisticsAddUp
CHECK_DEADLOCK FALSE
