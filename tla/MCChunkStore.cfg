SPECIFICATION Spec

CONSTANTS
  Volume = 4
  WordBits = 4
  MinBits = 1
  MaxBits = 1
  DirectBits = 2
  Width = 2
  Height = 2
  MaxLight <- MCMaxLight
  Emission <- MCEmission
  Opacity <- MCOpacity
  Coords <- MCCoords
  Fills <- MCFills
  Generated <- LampWest
  Limits <- MCLimits
  Unlimited <- MCUnlimited
  Sites <- MCSites
  MaxRounds = 8
  MaxOps = 4

INVARIANTS OrderIsLoaded
PROPERTIES LightsRight ImplementsTable

\* The operations are bounded by MaxOps.
CHECK_DEADLOCK FALSE
