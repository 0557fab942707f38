SPECIFICATION RacedSpec
CONSTANTS
  Conns = {c1, c2}
  MaxFd = 3
  Script <- Lifecycle
  Garbling = {c1, c2}
SYMMETRY Symmetry
INVARIANTS NothingFreedInUse StopLeavesNothing NoCrossTalk SoundBetweenStops IInv
PROPERTIES
  StartThrowsOnlyWhenLingering OnlyOwnSocketsClosed OwnAnswersBetweenStops
\* The script ends.
CHECK_DEADLOCK FALSE
