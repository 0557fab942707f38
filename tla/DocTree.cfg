CONSTANTS
  Rows <- MCRows
  Level <- MCLevel
  Under <- MCUnder
  First <- MCFirst
SPECIFICATION Spec
INVARIANTS TypeOK IconsTrue
