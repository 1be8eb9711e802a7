SPECIFICATION Spec
CONSTANTS
  a = a
  b = b
  c = c
  d = d
  Players <- MCPlayers
  Teams <- MCTeams
  MaxGames = 3
  MaxFaults = 2
  MaxOutages = 1
INVARIANTS NothingLost StatisticsInOrder
PROPERTIES AllWritten ImplementsAtomicLobby
