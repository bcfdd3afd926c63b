SPECIFICATION PathSpec
CONSTANTS
  Bullets = {b1}
  Limit = 4
  Frames = 40
  Walls <- PathWalls
  Shots <- PathShots
  Home <- PathHome
PROPERTY LooksFirst
PROPERTY StraightWallsHold
INVARIANT ShotsComeBack
