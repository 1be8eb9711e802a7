SPECIFICATION Spec
CONSTANTS
  NumPlayers = 3
  Viewer = 2
  Metrics = {"elo", "wins"}
  Limit = 1
  FirstStats <- MCStats
  FirstFriends = {1}
  Games <- MCGames
  MaxChanges = 2
  MaxVisits = 2
  MaxFaults = 1
INVARIANTS
  OneRanking
PROPERTIES
  ListCompletes
CHECK_DEADLOCK FALSE
