SPECIFICATION TankSpec
CONSTANTS
  Slots <- TwoSlots
  Reports <- ChordReports
  Walls <- CorridorWalls
  Lane = 16
INVARIANT HullStaysInside
INVARIANT WedgedOnlyAlongside
