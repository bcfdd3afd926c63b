SPECIFICATION MazeSpec
CONSTANTS
  Cols = 2
  Rows = 2
INVARIANT BorderClosed
INVARIANT SharedWallsAgree
PROPERTY OneByteAtATime
