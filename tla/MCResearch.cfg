CONSTANTS
  Coupling = 260
  Rounds = 3
  Leading = 3
  MaxPaths = 3
  MaxSurfaces = 5
  MaxLinks = 16
  MaxNodes = 6
  MaxEdges = 17
  MaxReported = 4
  MaxInPacket = 2
  HotspotLimit = 2
  Delta = 8
  Stripped <- MCStripped
  Packets <- MCPackets
  Maps <- MCMaps
  Micro <- MCMicro
SPECIFICATION Spec
CHECK_DEADLOCK FALSE
INVARIANTS
  LinkOrderIrrelevant
  PressureStaysNear
  ControlsNeverHurt
  FrontierAnswersBudgets
  AnsweredIsStored
  TwinKeepsMap
  MapControlsNeverHurt
