SPECIFICATION Spec
PROPERTY ImplementsMatch
PROPERTY PointsHaveACause
PROPERTY MatchEnds
