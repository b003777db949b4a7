\* Sessions of one or two environments.
CONSTANTS
  Sessions <- MCSessions
  MaxLevel = 3
  TERRAIN_LENGTH = 14
  TERRAIN_GRASS = 6
  TERRAIN_STARTPAD = 3
  Slopes <- MCSlopes
  Points = 5
  Float32 <- MCFloat32
SPECIFICATION FairSpec
CHECK_DEADLOCK FALSE
INVARIANT SpacesKept WorldSound
PROPERTY LevelsEarned EpisodesEnd
