\* Rings of three to five corners on a grid of three columns about the seam and four rows,
\* the lowest row below the bottom of the map, the highest at its top.
CONSTANTS
  Turn <- MCTurn
  Seam <- MCSeam
  MinLatitude = 0
  MaxLatitude = 24
  Sources <- MCSources
  Tolerances <- MCTolerances
  Columns <- MCColumns
  Rows <- MCRows
  Corners = {3, 4, 5}
SPECIFICATION Spec
INVARIANTS AreaKept PiecesFit MarkersOnLand SimplifiedClose
CHECK_DEADLOCK FALSE
