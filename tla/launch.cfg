CONSTANTS
  Callers = {a, b}
  MaxRequests = 2
  Kills = TRUE
SPECIFICATION FairSpec
INVARIANTS NoStaleSuccess  OwnImage 
 
