CONSTANTS
  na = na
  nb = nb
  nc = nc
  Names <- MCNames
  NoName = NoName
  MaxNodes = 5
  MaxChildren = 2
  PoolBytes = 2
  Paths <- MCPaths
  Targets <- MCTargets
  Contents <- MCContents
SPECIFICATION RamSpec
INVARIANTS LinksAgree ExtentsDisjoint NothingLost
 
