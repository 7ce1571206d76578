------------------------------ MODULE GridGames ------------------------------
(***************************************************************************)
(* The games played on a grid: tic-tac-toe, four in a row, gomoku,         *)
(* reversi, dots and boxes, the sliding puzzle and the memory duel.  The   *)
(* measures of every board but the first are constants.                    *)
(***************************************************************************)
EXTENDS GameContract

CONSTANTS
  FourCols, FourRows, FourLength,   \* connectFour.ts: 7, 6, 4
  GomokuSize, WinLength,         \* gomoku.ts: 15, 5
  ReversiSize,                   \* reversi.ts: 8
  Dots,                          \* dotsAndBoxes.ts: 6
  PuzzleSize, ShuffleMoves, MoveLimit,   \* slidingPuzzle.ts: 4, 160, 400
  MemoryGrid, FlipLimit          \* memoryDuel.ts: 4, 240

ASSUME GridAssumption ==
  /\ {FourCols, FourRows, FourLength, GomokuSize, WinLength, Dots, ShuffleMoves, MoveLimit, FlipLimit}
       \subseteq Nat \ {0}
  /\ \A n \in {ReversiSize, PuzzleSize, MemoryGrid} : n \in Nat /\ n > 0 /\ n % 2 = 0
  /\ FlipLimit % 2 = 0

-----------------------------------------------------------------------------
(* Rows, columns and rays of a grid. *)

Row(i, cols) == i \div cols
Col(i, cols) == i % cols

\* k cells from i along d, and whether that is still on the grid.
OnGrid(i, d, k, cols, rows) ==
  /\ Row(i, cols) + k * d[1] \in Cells(rows)
  /\ Col(i, cols) + k * d[2] \in Cells(cols)
Step(i, d, k, cols) == i + k * (d[1] * cols + d[2])

Directions == <<<<0, 1>>, <<1, 0>>, <<1, 1>>, <<1, -1>>>>
Rays       == (-1..1) \X (-1..1) \ {<<0, 0>>}

\* How far the stone at i is followed by its like along d, up to limit.
Run(board, i, d, limit, cols, rows) ==
  Max({n \in 0..limit : \A k \in 1..n :
         OnGrid(i, d, k, cols, rows) /\ board[Step(i, d, k, cols)] = board[i]})

\* findWinThrough(): the window of need cells through i in the first direction with
\* a run that long, <<>> without one.
WinThrough(board, i, need, cols, rows) ==
  LET back(d)    == Run(board, i, <<-d[1], -d[2]>>, need - 1, cols, rows)
      length(d)  == back(d) + 1 + Run(board, i, d, need - 1, cols, rows)
      winning    == {n \in DOMAIN Directions : length(Directions[n]) >= need}
      dir        == Directions[Min(winning)]
      start      == Min({back(dir), length(dir) - need})
  IN  IF winning = {} THEN <<>>
      ELSE [k \in 1..need |-> Step(i, dir, start + k - 1 - back(dir), cols)]

\* Reference: whether p has need stones in a line anywhere on the board.
Aligned(board, p, need, cols, rows) ==
  \E i \in DOMAIN board, n \in DOMAIN Directions :
    \A k \in 0..(need - 1) :
      /\ OnGrid(i, Directions[n], k, cols, rows)
      /\ board[Step(i, Directions[n], k, cols)] = p

-----------------------------------------------------------------------------
(* Tic-tac-toe, four in a row, gomoku: a stone a turn, a line wins. *)

NewLines(game, cells) ==
  [game |-> game, board |-> [i \in Cells(cells) |-> Nobody], turn |-> 1, moveCount |-> 0,
   winner |-> Nobody, winningLine |-> <<>>]

LinesOver(s) == s.winner # Nobody \/ s.moveCount >= Cardinality(DOMAIN s.board)

\* The state once the player to move has a stone at i and line is what it won with.
Placed(s, i, line) ==
  [s EXCEPT !.board[i] = s.turn, !.turn = Rival(s.turn), !.moveCount = @ + 1,
            !.winner = IF line = <<>> THEN Nobody ELSE s.turn, !.winningLine = line]

\* What decodeState() asks of such a state; a winning line has one of the lengths.
LinesDecode(s, lengths) ==
  LET cells == DOMAIN s.board IN
  /\ Range(s.board) \subseteq {Nobody} \cup Seats
  /\ s.turn \in Seats
  /\ s.moveCount \in 0..Cardinality(cells)
  /\ s.winner \in {Nobody} \cup Seats
  /\ s.winningLine # <<>> => Len(s.winningLine) \in lengths /\ Range(s.winningLine) \subseteq cells

TicTacToeLines ==
  <<<<0, 1, 2>>, <<3, 4, 5>>, <<6, 7, 8>>, <<0, 3, 6>>, <<1, 4, 7>>, <<2, 5, 8>>,
    <<0, 4, 8>>, <<2, 4, 6>>>>

\* findWin(): the first line whose cells hold one mark.
FindWin(board) ==
  LET full == {n \in DOMAIN TicTacToeLines : \E p \in Seats :
                 \A k \in 1..3 : board[TicTacToeLines[n][k]] = p}
  IN  IF full = {} THEN <<>> ELSE TicTacToeLines[Min(full)]

TicTacToeNew == {NewLines("ticTacToe", 9)}
TicTacToeChoices(s, p) ==
  IF LinesOver(s) \/ p # s.turn THEN {} ELSE Owned(s.board, Nobody)
TicTacToeApply(s, p, i) == Placed(s, i, FindWin([s.board EXCEPT ![i] = p]))
TicTacToeStatus(s) ==
  IF s.winner # Nobody THEN Won({s.winner}) ELSE IF LinesOver(s) THEN Drawn ELSE InProgress
TicTacToeDecoded(s) == Decoded(s, LinesDecode(s, 0..3))

\* landingRow(): where a disc in the column comes to rest.
FreeRows(board, c) == {r \in Cells(FourRows) : board[r * FourCols + c] = Nobody}

ConnectFourNew == {NewLines("connectFour", FourCols * FourRows)}
ConnectFourChoices(s, p) ==
  IF LinesOver(s) \/ p # s.turn THEN {} ELSE {c \in Cells(FourCols) : FreeRows(s.board, c) # {}}
FourLine(board, i) == WinThrough(board, i, FourLength, FourCols, FourRows)
ConnectFourApply(s, p, c) ==
  LET i == Max(FreeRows(s.board, c)) * FourCols + c
  IN  Placed(s, i, FourLine([s.board EXCEPT ![i] = p], i))
ConnectFourStatus(s)  == TicTacToeStatus(s)
ConnectFourDecoded(s) == Decoded(s, LinesDecode(s, {FourLength}))

GomokuNew ==
  {[game |-> "gomoku", board |-> [i \in Cells(GomokuSize * GomokuSize) |-> Nobody], turn |-> 1,
    moveCount |-> 0, winner |-> Nobody, winningLine |-> <<>>, lastMove |-> -1]}
GomokuChoices(s, p) ==
  IF LinesOver(s) \/ p # s.turn THEN {} ELSE Owned(s.board, Nobody)
GomokuLine(board, i) == WinThrough(board, i, WinLength, GomokuSize, GomokuSize)
GomokuApply(s, p, i) ==
  [Placed(s, i, GomokuLine([s.board EXCEPT ![i] = p], i)) EXCEPT !.lastMove = i]
GomokuStatus(s)  == TicTacToeStatus(s)
GomokuDecoded(s) ==
  Decoded(s, LinesDecode(s, {WinLength}) /\ s.lastMove \in (-1)..(GomokuSize * GomokuSize - 1))

\* The winner is the one player with a line, who moved last and whose line is shown.
LinesAreRight(s, need, cols, rows) ==
  /\ \A p \in Seats : s.winner = p <=> Aligned(s.board, p, need, cols, rows)
  /\ s.winner # Nobody => s.turn = Rival(s.winner) /\ \A i \in Range(s.winningLine) : s.board[i] = s.winner
  /\ CountOf(s.board, 1) - CountOf(s.board, 2) = IF s.turn = 1 THEN 0 ELSE 1

-----------------------------------------------------------------------------
(* Reversi: a stone must capture, and captures along every ray it closes. *)

\* capturesFor() along one ray: the rival's stones up to one of p's own.
Bracketed(board, i, d, p) ==
  LET n == ReversiSize
      closed(k) == /\ OnGrid(i, d, k + 1, n, n)
                   /\ board[Step(i, d, k + 1, n)] = p
                   /\ \A j \in 1..k : board[Step(i, d, j, n)] = Rival(p)
  IN  {Step(i, d, j, n) : j \in UNION {1..k : k \in {k \in 1..(n - 2) : closed(k)}}}

Captures(board, i, p) ==
  IF board[i] # Nobody THEN {} ELSE UNION {Bracketed(board, i, d, p) : d \in Rays}

ReversiMoves(board, p) == {i \in DOMAIN board : Captures(board, i, p) # {}}

Scores(board) == [p \in Seats |-> CountOf(board, p)]

ReversiNew ==
  LET n == ReversiSize
      h == n \div 2
      at(r, c) == r * n + c
  IN  {[game |-> "reversi", turn |-> 1, scores |-> [p \in Seats |-> 2], moveCount |-> 0,
        over |-> FALSE, skipped |-> FALSE,
        board |-> [i \in Cells(n * n) |->
                     CASE i \in {at(h - 1, h), at(h, h - 1)} -> 1
                       [] i \in {at(h - 1, h - 1), at(h, h)} -> 2
                       [] OTHER -> Nobody]]}

ReversiChoices(s, p) == IF s.over \/ p # s.turn THEN {} ELSE ReversiMoves(s.board, p)

\* Mutant of applyAction(): the turn always passes.
MutantToMove(board, p) == Rival(p)

\* Who is to move after p: the rival if it can capture, p again if not.
ToMove(board, p) == IF ReversiMoves(board, Rival(p)) # {} THEN Rival(p) ELSE p

ReversiApply(s, p, i) ==
  LET taken == Captures(s.board, i, p) \cup {i}
      board == [j \in DOMAIN s.board |-> IF j \in taken THEN p ELSE s.board[j]]
      rivalCan == ReversiMoves(board, Rival(p)) # {}
      moverCan == ReversiMoves(board, p) # {}
  IN  [s EXCEPT !.board = board, !.turn = ToMove(board, p), !.scores = Scores(board),
                !.moveCount = @ + 1, !.over = ~rivalCan /\ ~moverCan,
                !.skipped = ~rivalCan /\ moverCan]

ReversiStatus(s) == IF s.over THEN ByScore(s.scores) ELSE InProgress

\* Scores and the end are worked out again from the board.
ReversiDecoded(s) ==
  LET moverCan == ReversiMoves(s.board, s.turn) # {}
      rivalCan == ReversiMoves(s.board, Rival(s.turn)) # {}
  IN  Decoded([s EXCEPT !.scores = Scores(s.board), !.over = ~moverCan /\ ~rivalCan],
              /\ s.moveCount \in 0..(ReversiSize * ReversiSize)
              /\ moverCan \/ ~rivalCan
              /\ s.skipped => ~rivalCan /\ moverCan)

-----------------------------------------------------------------------------
(* Dots and boxes: an edge a turn, and another for whoever closes a box. *)

Boxes  == Dots - 1
HEdges == {<<"h", i>> : i \in Cells(Dots * Boxes)}
VEdges == {<<"v", i>> : i \in Cells(Boxes * Dots)}
Edges  == HEdges \cup VEdges

SidesOf(box) ==
  LET r == Row(box, Boxes)
      c == Col(box, Boxes)
  IN  {<<"h", r * Boxes + c>>, <<"h", (r + 1) * Boxes + c>>,
       <<"v", r * Dots + c>>, <<"v", r * Dots + c + 1>>}

IsClosed(drawn, box) == SidesOf(box) \subseteq drawn

BoxesTouching(e) ==
  IF e[1] = "h"
    THEN LET r == Row(e[2], Boxes)  c == Col(e[2], Boxes)
         IN  {q * Boxes + c : q \in {r - 1, r} \cap Cells(Boxes)}
    ELSE LET r == Row(e[2], Dots)  c == Col(e[2], Dots)
         IN  {r * Boxes + q : q \in {c - 1, c} \cap Cells(Boxes)}

DotsAndBoxesNew ==
  {[game |-> "dotsAndBoxes", edges |-> {}, boxes |-> [b \in Cells(Boxes * Boxes) |-> Nobody],
    scores |-> [p \in Seats |-> 0], turn |-> 1, drawn |-> 0, lastClaimed |-> {}]}

DotsAndBoxesChoices(s, p) ==
  IF s.drawn >= Cardinality(Edges) \/ p # s.turn THEN {} ELSE Edges \ s.edges

\* The boxes an edge closes.
Claimed(s, e) ==
  {b \in BoxesTouching(e) : s.boxes[b] = Nobody /\ IsClosed(s.edges \cup {e}, b)}

DotsAndBoxesApply(s, p, e) ==
  LET claimed == Claimed(s, e)
  IN  [s EXCEPT !.edges = @ \cup {e}, !.drawn = @ + 1, !.lastClaimed = claimed,
                !.boxes = [b \in DOMAIN @ |-> IF b \in claimed THEN p ELSE @[b]],
                !.scores[p] = @ + Cardinality(claimed),
                !.turn = IF claimed # {} THEN p ELSE Rival(p)]

DotsAndBoxesStatus(s) ==
  IF s.drawn < Cardinality(Edges) THEN InProgress ELSE ByScore(s.scores)

DotsAndBoxesDecoded(s) ==
  Decoded(s, /\ \A p \in Seats : s.scores[p] = CountOf(s.boxes, p)
             /\ s.drawn = Cardinality(s.edges)
             /\ \A b \in DOMAIN s.boxes : IsClosed(s.edges, b) <=> s.boxes[b] # Nobody
             /\ Cardinality(s.lastClaimed) <= 2)

-----------------------------------------------------------------------------
(* The sliding puzzle: both players race on the same deal, out of turn. *)

Gap == 0
Solved == [i \in Cells(PuzzleSize * PuzzleSize) |-> (i + 1) % (PuzzleSize * PuzzleSize)]
Whereabouts(board, tile) == CHOOSE i \in DOMAIN board : board[i] = tile

Neighbours(i) ==
  {Step(i, d, 1, PuzzleSize) :
     d \in {d \in Rays : d[1] * d[2] = 0 /\ OnGrid(i, d, 1, PuzzleSize, PuzzleSize)}}

TileSlid(board, into) ==
  [board EXCEPT ![Whereabouts(board, Gap)] = board[into], ![into] = Gap]

\* shuffledBoard(): the boards a walk of the gap may end on, each with the cell the
\* gap came from, as the walk never turns straight back.
SlidOn(w) ==
  {<<TileSlid(w[1], i), Whereabouts(w[1], Gap)>> :
     i \in Neighbours(Whereabouts(w[1], Gap)) \ {w[2]}}

Walks[n \in Nat] ==
  IF n = 0 THEN {<<Solved, -1>>} ELSE UNION {SlidOn(w) : w \in Walks[n - 1]}

\* A walk that came home takes one more slide.
ShuffledBoards ==
  {w[1] : w \in UNION {IF w[1] = Solved THEN SlidOn(w) ELSE {w} :
                         w \in Walks[ShuffleMoves] \cup Walks[ShuffleMoves + 1]}}

\* isSolvable(): inversions and the gap's row, for a grid of even width.
IsSolvable(board) ==
  LET tiles == SelectSeq([k \in 1..(PuzzleSize * PuzzleSize) |-> board[k - 1]],
                         LAMBDA t : t # Gap)
      inversions == {e \in (DOMAIN tiles) \X (DOMAIN tiles) :
                       e[1] < e[2] /\ tiles[e[1]] > tiles[e[2]]}
      rowFromBottom == PuzzleSize - Row(Whereabouts(board, Gap), PuzzleSize)
  IN  (Cardinality(inversions) + rowFromBottom) % 2 = 1

SlidingPuzzleNew ==
  {[game |-> "slidingPuzzle", boards |-> [p \in Seats |-> b], moves |-> [p \in Seats |-> 0]] :
     b \in ShuffledBoards}

SolvedBy(s) == {p \in Seats : s.boards[p] = Solved}
RaceOver(s) == SolvedBy(s) # {} \/ \E p \in Seats : s.moves[p] >= MoveLimit

SlidingPuzzleChoices(s, p) ==
  IF RaceOver(s) THEN {}
  ELSE {s.boards[p][i] : i \in Neighbours(Whereabouts(s.boards[p], Gap))}

SlidingPuzzleApply(s, p, tile) ==
  [s EXCEPT !.boards[p] = TileSlid(@, Whereabouts(@, tile)), !.moves[p] = @ + 1]

SlidingPuzzleStatus(s) ==
  IF SolvedBy(s) # {} THEN Won({Min(SolvedBy(s))})
  ELSE IF RaceOver(s) THEN Drawn ELSE InProgress

SlidingPuzzleDecoded(s) ==
  Decoded(s, /\ \A p \in Seats : /\ IsInjective(s.boards[p])
                                 /\ IsSolvable(s.boards[p])
                                 /\ s.moves[p] \in 0..MoveLimit
                                 /\ s.boards[p] = Solved => s.moves[p] # 0
             /\ SolvedBy(s) # Seats)

-----------------------------------------------------------------------------
(* The memory duel: two cards a turn, and another turn for a pair. *)

Cards == Cells(MemoryGrid * MemoryGrid)
Pairs == Cardinality(Cards) \div 2

\* deal(): every way to lay out two cards of each face.
Deals == {d \in [Cards -> Cells(Pairs)] : \A f \in Cells(Pairs) : CountOf(d, f) = 2}

MemoryDuelNew ==
  {[game |-> "memoryDuel", cards |-> d, matchedBy |-> [i \in Cards |-> Nobody], revealed |-> <<>>,
    turn |-> 1, scores |-> [p \in Seats |-> 0], flips |-> 0] : d \in Deals}

PairsFound(s) == s.scores[1] + s.scores[2]
DuelOver(s)   == PairsFound(s) >= Pairs \/ s.flips >= FlipLimit

\* Two cards face up are the last turn's mismatch, not part of this one.
LiveTurn(s) == IF Len(s.revealed) = 2 THEN <<>> ELSE s.revealed

MemoryDuelChoices(s, p) ==
  IF DuelOver(s) \/ p # s.turn THEN {}
  ELSE Owned(s.matchedBy, Nobody) \ Range(LiveTurn(s))

MemoryDuelApply(s, p, i) ==
  LET flipped == [s EXCEPT !.flips = @ + 1]
      first   == LiveTurn(s)[1]
  IN  IF LiveTurn(s) = <<>> THEN [flipped EXCEPT !.revealed = <<i>>]
      ELSE IF s.cards[first] # s.cards[i]
        THEN [flipped EXCEPT !.revealed = <<first, i>>, !.turn = Rival(p)]
        ELSE [flipped EXCEPT !.matchedBy[first] = p, !.matchedBy[i] = p,
                             !.revealed = <<>>, !.scores[p] = @ + 1]

MemoryDuelStatus(s) == IF DuelOver(s) THEN ByScore(s.scores) ELSE InProgress

MemoryDuelDecoded(s) ==
  Decoded(s, /\ s.cards \in Deals
             /\ \A i, j \in Cards : s.cards[i] = s.cards[j] => s.matchedBy[i] = s.matchedBy[j]
             /\ Len(s.revealed) <= 2
             /\ \A i \in Range(s.revealed) : s.matchedBy[i] = Nobody
             /\ Len(s.revealed) = 2 => s.cards[s.revealed[1]] # s.cards[s.revealed[2]]
             /\ \A p \in Seats : CountOf(s.matchedBy, p) = 2 * s.scores[p]
             /\ s.flips \in 0..FlipLimit
             /\ s.flips % 2 = 1 <=> Len(s.revealed) = 1
             /\ s.flips >= 2 * PairsFound(s))

-----------------------------------------------------------------------------
(* The games on the table. *)

GridNew ==
  TicTacToeNew \cup ConnectFourNew \cup GomokuNew \cup ReversiNew \cup DotsAndBoxesNew
    \cup SlidingPuzzleNew \cup MemoryDuelNew

GridChoices(s, p) ==
  CASE s.game = "ticTacToe"      -> TicTacToeChoices(s, p)
    [] s.game = "connectFour"    -> ConnectFourChoices(s, p)
    [] s.game = "gomoku"         -> GomokuChoices(s, p)
    [] s.game = "reversi"        -> ReversiChoices(s, p)
    [] s.game = "dotsAndBoxes"   -> DotsAndBoxesChoices(s, p)
    [] s.game = "slidingPuzzle"  -> SlidingPuzzleChoices(s, p)
    [] s.game = "memoryDuel"     -> MemoryDuelChoices(s, p)

GridApply(s, p, c) ==
  CASE s.game = "ticTacToe"      -> TicTacToeApply(s, p, c)
    [] s.game = "connectFour"    -> ConnectFourApply(s, p, c)
    [] s.game = "gomoku"         -> GomokuApply(s, p, c)
    [] s.game = "reversi"        -> ReversiApply(s, p, c)
    [] s.game = "dotsAndBoxes"   -> DotsAndBoxesApply(s, p, c)
    [] s.game = "slidingPuzzle"  -> SlidingPuzzleApply(s, p, c)
    [] s.game = "memoryDuel"     -> MemoryDuelApply(s, p, c)

GridStatus(s) ==
  CASE s.game = "ticTacToe"     -> TicTacToeStatus(s)
    [] s.game = "connectFour"   -> ConnectFourStatus(s)
    [] s.game = "gomoku"        -> GomokuStatus(s)
    [] s.game = "reversi"       -> ReversiStatus(s)
    [] s.game = "dotsAndBoxes"  -> DotsAndBoxesStatus(s)
    [] s.game = "slidingPuzzle" -> SlidingPuzzleStatus(s)
    [] s.game = "memoryDuel"    -> MemoryDuelStatus(s)

\* currentTurn(): both race in the puzzle.
GridTurn(s) ==
  IF s.game = "slidingPuzzle" \/ GridStatus(s) # InProgress THEN Nobody ELSE s.turn

GridDecoded(s) ==
  CASE s.game = "ticTacToe"     -> TicTacToeDecoded(s)
    [] s.game = "connectFour"   -> ConnectFourDecoded(s)
    [] s.game = "gomoku"        -> GomokuDecoded(s)
    [] s.game = "reversi"       -> ReversiDecoded(s)
    [] s.game = "dotsAndBoxes"  -> DotsAndBoxesDecoded(s)
    [] s.game = "slidingPuzzle" -> SlidingPuzzleDecoded(s)
    [] s.game = "memoryDuel"    -> MemoryDuelDecoded(s)

\* Results against the whole board, where the rules look at the last move only.
GridRight(s) ==
  CASE s.game = "ticTacToe"   -> LinesAreRight(s, 3, 3, 3)
    [] s.game = "connectFour" -> LinesAreRight(s, FourLength, FourCols, FourRows)
    [] s.game = "gomoku"      -> LinesAreRight(s, WinLength, GomokuSize, GomokuSize)
    [] OTHER -> TRUE
=============================================================================
