----------------------------- MODULE GameTable ------------------------------
(***************************************************************************)
(* The games of registry.ts behind the interface of engine.ts: a table     *)
(* carries one game, named in its state, and every operator hands it to    *)
(* the rules of that game.  The properties are those conformance.ts tries  *)
(* on a random line of play: snapshots survive the wire, play never        *)
(* stalls, results are right, and acts that two phones may take at once    *)
(* lead both to the same state.                                            *)
(***************************************************************************)
EXTENDS GridGames, ChoiceGames, QuizGames, WordGames, RaceGames, Battleship, Chess

\* The games of each rule module.
GridNames   == {"ticTacToe", "connectFour", "gomoku", "reversi", "dotsAndBoxes",
                "slidingPuzzle", "memoryDuel"}
ChoiceNames == {"rockPaperScissors", "secretChoice", "codeBreaker"}
QuizNames   == {"trivia", "quizDuel", "quickMath"}
WordNames   == {"wordChain", "wordDuel", "drawAndGuess"}
RaceNames   == {"tapRace", "reaction", "darts"}

\* setup.players
PlayersOf(s) ==
  CASE s.game = "drawAndGuess" -> ArtSeats
    [] s.game = "reaction"     -> RaceSeats
    [] s.game = "darts"        -> DartSeats
    [] OTHER                   -> Seats

GameNew ==
  GridNew \cup ChoiceNew \cup QuizNew \cup WordNew \cup RaceNew \cup BattleshipNew \cup ChessNew

GameChoices(s, p) ==
  CASE s.game \in GridNames   -> GridChoices(s, p)
    [] s.game \in ChoiceNames -> ChoiceChoices(s, p)
    [] s.game \in QuizNames   -> QuizChoices(s, p)
    [] s.game \in WordNames   -> WordChoices(s, p)
    [] s.game \in RaceNames   -> RaceChoices(s, p)
    [] s.game = "battleship"  -> BattleshipChoices(s, p)
    [] s.game = "chess"       -> ChessChoices(s, p)

GameApply(s, p, c) ==
  CASE s.game \in GridNames   -> GridApply(s, p, c)
    [] s.game \in ChoiceNames -> ChoiceApply(s, p, c)
    [] s.game \in QuizNames   -> QuizApply(s, p, c)
    [] s.game \in WordNames   -> WordApply(s, p, c)
    [] s.game \in RaceNames   -> RaceApply(s, p, c)
    [] s.game = "battleship"  -> BattleshipApply(s, p, c)
    [] s.game = "chess"       -> ChessApply(s, p, c)

GameStatus(s) ==
  CASE s.game \in GridNames   -> GridStatus(s)
    [] s.game \in ChoiceNames -> ChoiceStatus(s)
    [] s.game \in QuizNames   -> QuizStatus(s)
    [] s.game \in WordNames   -> WordStatus(s)
    [] s.game \in RaceNames   -> RaceStatus(s)
    [] s.game = "battleship"  -> BattleshipStatus(s)
    [] s.game = "chess"       -> ChessStatus(s)

GameTurn(s) ==
  CASE s.game \in GridNames   -> GridTurn(s)
    [] s.game \in ChoiceNames -> ChoiceTurn(s)
    [] s.game \in QuizNames   -> QuizTurn(s)
    [] s.game \in WordNames   -> WordTurn(s)
    [] s.game \in RaceNames   -> RaceTurn(s)
    [] s.game = "battleship"  -> BattleshipTurn(s)
    [] s.game = "chess"       -> ChessTurn(s)

GameDecoded(s) ==
  CASE s.game \in GridNames   -> GridDecoded(s)
    [] s.game \in ChoiceNames -> ChoiceDecoded(s)
    [] s.game \in QuizNames   -> QuizDecoded(s)
    [] s.game \in WordNames   -> WordDecoded(s)
    [] s.game \in RaceNames   -> RaceDecoded(s)
    [] s.game = "battleship"  -> BattleshipDecoded(s)
    [] s.game = "chess"       -> ChessDecoded(s)

TableInit == table \in GameNew

\* applyInternal() of runtime.ts: an action validateAction() lets through is applied.
Act ==
  /\ table.game = "chess" => ChessExplored(table)
  /\ \E p \in PlayersOf(table) : \E c \in GameChoices(table, p) :
       table' = GameApply(table, p, c)

TableSpec == TableInit /\ [][Act]_table

-----------------------------------------------------------------------------
(* Properties. *)

\* encodeState() and decodeState() are the repair of a game whose phones disagree
\* (runtime.ts, applySnapshot): the cross-checks that refuse a forged snapshot refuse
\* no state that play reaches, and what is worked out again comes out the same.
SnapshotRoundTrips == GameDecoded(table) = table

\* While a game goes on somebody can act, and whoever currentTurn() names can; once it
\* is decided nobody can.  A turn-based game has no clock that would end it.
NobodyIsStuck ==
  /\ GameStatus(table) = InProgress <=> \E p \in PlayersOf(table) : GameChoices(table, p) # {}
  /\ GameTurn(table) # Nobody => GameChoices(table, GameTurn(table)) # {}

\* What the rules work out from the last move, move by move, is what the whole game
\* says: lines on the board, pegs and hints of a guess, wins, scores, audited fleets
\* and the rights of a chess position.
ResultIsRight ==
  CASE table.game \in GridNames     -> GridRight(table)
    [] table.game = "codeBreaker"   -> FeedbackIsRight(table)
    [] table.game = "reaction"      -> RaceAddsUp(table)
    [] table.game = "darts"         -> DartsAddsUp(table)
    [] table.game = "battleship"    -> AuditIsRight(table)
    [] table.game = "chess"         -> RightsAreEarned(table)
    [] table.game = "drawAndGuess"  -> HintsAreRight(table)
    [] OTHER                        -> TRUE

\* Two taps of reaction of which neither is a false start.
Honest(s, c) == s.game = "reaction" /\ c.type = "tap" => ~IsFalseStart(s.greenAt, c.at)

\* Games in which both phones act without waiting for the other.
Simultaneous ==
  {"rockPaperScissors", "secretChoice", "quizDuel", "quickMath", "tapRace", "reaction", "battleship"}

\* Each phone applies its own act first and the other's when it arrives: where nobody
\* waits for a turn, both orders are legal and end in the same state.
ActsCommute ==
  table.game \in Simultaneous =>
    \A p, q \in PlayersOf(table) : p < q =>
      \A a \in GameChoices(table, p), b \in GameChoices(table, q) :
        LET mine   == GameApply(table, p, a)
            theirs == GameApply(table, q, b)
        IN  Honest(table, a) /\ Honest(table, b) =>
              /\ b \in GameChoices(mine, q) /\ a \in GameChoices(theirs, p)
              /\ GameApply(mine, q, b) = GameApply(theirs, p, a)

\* A player who has finished a word hunt can rely on the score (wordDuel.ts, openUntil):
\* whatever the other still does, it never falls.
ScoreStands ==
  [][table.game = "wordDuel" =>
       \A p \in Range(table.finishedBy) : DuelScore(table', p) >= DuelScore(table, p)]_table

=============================================================================
