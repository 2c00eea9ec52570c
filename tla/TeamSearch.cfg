CONSTANTS
  Segment <- HomeSegments
  Root <- HomeRoot
  TeamsDirs <- HomeTeamsDirs
  Places <- HomePlaces
  Checkouts <- HomeCheckouts
  Names <- HomeNames
  SearchDepth = 3
SPECIFICATION TreeSpec
INVARIANTS TreeTypeOK DiscoverIsDocumented ReachableIsListed
PROPERTIES NeverRedirected
