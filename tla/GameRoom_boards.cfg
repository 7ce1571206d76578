SPECIFICATION GameSpec
CONSTANTS
  MaxMoves = 3
  MaxInvites = 1
  MaxGameQueue = 2
  MaxGameMishaps = 0
INVARIANT SettledBoardsAgree
CHECK_DEADLOCK FALSE
