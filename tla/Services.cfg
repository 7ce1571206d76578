SPECIFICATION ServicesSpec
CONSTANTS
  WindowSize = 3
  Slots = 2
  Fragments = 2
  MaxFrames = 5
  MaxRepeats = 1
  MaxLosses = 1
  MaxQueued = 2
  MaxMoves = 3
  MaxInvites = 2
  MaxGameQueue = 2
  MaxGameMishaps = 1
  Phones = {p, q}
  AutoJoin = FALSE
  MaxSessionId = 2
  FourCols = 4
  FourRows = 3
  FourLength = 3
  GomokuSize = 3
  WinLength = 2
  ReversiSize = 4
  Dots = 3
  PuzzleSize = 2
  ShuffleMoves = 5
  MoveLimit = 6
  MemoryGrid = 2
  FlipLimit = 6
  Rounds = 3
  WinsNeeded = 2
  Prompts = 2
  CodeLength = 3
  Colours = 2
  MaxGuesses = 2
  Questions = 2
  Options = 2
  MaxAnswerMs = 1
  BasePoints = 100
  MaxSpeedBonus = 50
  Dictionary <- MCDictionary
  WordLimit = 4
  GridSide = 3
  Grids <- MCGrids
  MaxSubmissions = 2
  Artists = 3
  DrawRounds = 2
  Vocabulary <- MCVocabulary
  Glyphs <- MCGlyphs
  Folded <- MCFolded
  Typed <- MCTyped
  MaxStrokes = 2
  MaxGuessesPerRound = 3
  FeedLimit = 2
  TapRounds = 3
  TapWins = 2
  MaxTaps = 1
  Racers = 3
  RaceRounds = 2
  RaceWins = 2
  MinWait = 1
  MaxWait = 1
  HumanFloor = 1
  MaxTapMs = 3
  Throwers = 2
  StartScore = 6
  DartsPerTurn = 2
  MaxTurns = 2
  Sectors = {1, 2}
  BoardSize = 2
  Fleet <- MCFleet
  Layouts <- MCLayouts
  Liars = {2}
  Openings <- MCOpenings
  HalfmoveLimit = 5
  Repetitions = 2
  HistoryLimit = 6
  FewMen = 6
  MaxFullmoves = 42
INVARIANTS
  WindowIsExact
  WholeIsOpened
  BooksAreRight
  GameIsKept
  SnapshotRoundTrips
  NobodyIsStuck
  ResultIsRight
  
PROPERTY
  ScoreStands
CHECK_DEADLOCK FALSE
