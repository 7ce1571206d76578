------------------------------- MODULE Chess --------------------------------
(***************************************************************************)
(* Chess (chess.ts).  A board is a function whose domain is the occupied   *)
(* squares, 0 (a1) to 63 (h8); the hash of a position is the position.     *)
(* Games start from Openings: the initial position, and positions a game   *)
(* reaches later, so that castling, en passant, promotion, mates and draws *)
(* all come within a few moves.                                            *)
(***************************************************************************)
EXTENDS GameContract

CONSTANTS
  Openings,          \* [board, turn, castling, ep, fullmove] played from
  HalfmoveLimit,     \* plies of the fifty-move rule, 100
  Repetitions,       \* 3
  HistoryLimit,      \* hashes decodeState() takes, 256
  FewMen,            \* a board with no more men than this is an endgame
  MaxFullmoves       \* the last move number of an endgame that is explored

ASSUME ChessAssumption ==
  /\ {HalfmoveLimit, Repetitions, HistoryLimit} \subseteq Nat \ {0}
  /\ HalfmoveLimit < HistoryLimit

White == 1
Black == 2

File(i) == i % 8
Rank(i) == i \div 8
Square(file, rank) == rank * 8 + file
Squares == 0..63
NoSquare == -1

Apart(m, n) == IF m > n THEN m - n ELSE n - m
Men(board, c) == {i \in DOMAIN board : board[i].color = c}
KingOf(board, c) == CHOOSE i \in Men(board, c) : board[i].type = "king"

-----------------------------------------------------------------------------
(* Attacks. *)

\* Squares strictly between two that share a rank, a file or a diagonal.
Between(i, j) ==
  LET n == Max({Apart(File(i), File(j)), Apart(Rank(i), Rank(j))})
      df == (File(j) - File(i)) \div n
      dr == (Rank(j) - Rank(i)) \div n
  IN  {Square(File(i) + k * df, Rank(i) + k * dr) : k \in 1..(n - 1)}

Forward(c) == IF c = White THEN 1 ELSE -1

\* Does the man on i attack j?  (the deltas and rays of isAttacked, pushSliding)
Attacks(board, i, j) ==
  LET man      == board[i]
      df       == Apart(File(i), File(j))
      dr       == Apart(Rank(i), Rank(j))
      open     == Between(i, j) \cap DOMAIN board = {}
      straight == (df = 0 \/ dr = 0) /\ open
      diagonal == df = dr /\ open
  IN  /\ i # j
      /\ CASE man.type = "pawn"   -> df = 1 /\ Rank(j) - Rank(i) = Forward(man.color)
           [] man.type = "knight" -> {df, dr} = {1, 2}
           [] man.type = "king"   -> df <= 1 /\ dr <= 1
           [] man.type = "bishop" -> diagonal
           [] man.type = "rook"   -> straight
           [] man.type = "queen"  -> straight \/ diagonal

IsAttacked(board, target, by) == \E i \in Men(board, by) : Attacks(board, i, target)

IsInCheck(board, c) == IsAttacked(board, KingOf(board, c), Rival(c))

-----------------------------------------------------------------------------
(* Moves. *)

HomeRank(c)  == IF c = White THEN 0 ELSE 7
PawnRank(c)  == IF c = White THEN 1 ELSE 6
KingHome(c)  == Square(4, HomeRank(c))
RookHome(right) == Square(IF right.side = "king" THEN 7 ELSE 0, HomeRank(right.color))
Rights == [color : {White, Black}, side : {"king", "queen"}]

\* Where a pawn goes: ahead if the way is free, aside to capture.
PawnTargets(pos, i) ==
  LET c     == pos.turn
      ahead == i + 8 * Forward(c)
      two   == i + 16 * Forward(c)
      free(j) == j \notin DOMAIN pos.board
  IN  {j \in Squares : \/ j = ahead /\ free(j)
                       \/ j = two /\ Rank(i) = PawnRank(c) /\ free(ahead) /\ free(j)
                       \/ /\ Attacks(pos.board, i, j)
                          /\ j \in Men(pos.board, Rival(c)) \/ (free(j) /\ j = pos.ep)}

\* The king goes two files towards its rook, over squares that are not attacked.
CastleTargets(pos, i) ==
  LET c == pos.turn
      step(right)  == IF right.side = "king" THEN 1 ELSE -1
      rook(right)  == RookHome(right)
      allowed(right) ==
        /\ right.color = c /\ right \in pos.castling
        /\ i = KingHome(c)
        /\ rook(right) \in Men(pos.board, c) /\ pos.board[rook(right)].type = "rook"
        /\ Between(i, rook(right)) \cap DOMAIN pos.board = {}
        /\ \A k \in 0..2 : ~IsAttacked(pos.board, i + k * step(right), Rival(c))
  IN  {i + 2 * step(right) : right \in {r \in Rights : allowed(r)}}

\* pseudoMoves()
Targets(pos, i) ==
  IF pos.board[i].type = "pawn" THEN PawnTargets(pos, i)
  ELSE {j \in Squares \ Men(pos.board, pos.turn) : Attacks(pos.board, i, j)}
       \cup (IF pos.board[i].type = "king" THEN CastleTargets(pos, i) ELSE {})

Promotes(board, i, j) == board[i].type = "pawn" /\ Rank(j) \in {0, 7}

\* applyMoveToBoard(): en passant takes the pawn beside, castling brings the rook.
BoardAfter(board, m) ==
  LET man     == board[m.from]
      passed  == IF /\ man.type = "pawn" /\ File(m.from) # File(m.to) /\ m.to \notin DOMAIN board
                   THEN {Square(File(m.to), Rank(m.from))} ELSE {}
      castles == man.type = "king" /\ Apart(File(m.from), File(m.to)) = 2
      corner  == Square(IF File(m.to) = 6 THEN 7 ELSE 0, Rank(m.from))
      beside  == Square(IF File(m.to) = 6 THEN 5 ELSE 3, Rank(m.from))
      gone    == {m.from} \cup passed \cup (IF castles THEN {corner} ELSE {})
      there   == IF Promotes(board, m.from, m.to) THEN [man EXCEPT !.type = m.promotion] ELSE man
  IN  [i \in ((DOMAIN board) \ gone) \cup {m.to} \cup (IF castles THEN {beside} ELSE {}) |->
         IF i = m.to THEN there ELSE IF castles /\ i = beside THEN board[corner] ELSE board[i]]

\* Mutant of leavesKingSafe(): a move may leave the king attacked.
MutantLeavesKingSafe(pos, m) == TRUE

LeavesKingSafe(pos, m) == ~IsInCheck(BoardAfter(pos.board, m), pos.turn)

Unpromoted == "none"

\* legalMoves()
ChessMoves(pos) ==
  UNION {UNION {
      {m \in {[from |-> i, to |-> j, promotion |-> t] :
                t \in IF Promotes(pos.board, i, j) THEN {"queen", "rook", "bishop", "knight"}
                                                    ELSE {Unpromoted}} : LeavesKingSafe(pos, m)} :
      j \in Targets(pos, i)} : i \in Men(pos.board, pos.turn)}

\* hasAnyLegalMove()
CanMove(pos) ==
  \E i \in Men(pos.board, pos.turn) : \E j \in Targets(pos, i) :
    LeavesKingSafe(pos, [from |-> i, to |-> j, promotion |-> "queen"])

-----------------------------------------------------------------------------
(* Ends. *)

IsInsufficientMaterial(board) ==
  LET rest  == {i \in DOMAIN board : board[i].type # "king"}
      shade(i) == (File(i) + Rank(i)) % 2
      minor == {"knight", "bishop"}
  IN  /\ \A i \in rest : board[i].type \in minor
      /\ \/ Cardinality(rest) <= 1
         \/ /\ Cardinality(rest) = 2
            /\ \A i \in rest : board[i].type = "bishop"
            /\ {board[i].color : i \in rest} = {White, Black}
            /\ Cardinality({shade(i) : i \in rest}) = 1

PositionOf(s) == <<s.board, s.turn, s.castling, s.ep>>

RepetitionCount(history) ==
  Cardinality({k \in DOMAIN history : history[k] = Last(history)})

\* evaluate(), withResult(): mate and stalemate come first.
Evaluated(s) ==
  [s EXCEPT !.result =
     IF ~CanMove(s) THEN IF IsInCheck(s.board, s.turn) THEN "checkmate" ELSE "stalemate"
     ELSE IF IsInsufficientMaterial(s.board) THEN "insufficientMaterial"
     ELSE IF s.halfmove >= HalfmoveLimit THEN "fiftyMove"
     ELSE IF RepetitionCount(s.history) >= Repetitions THEN "threefold" ELSE "inProgress"]

ChessNew ==
  {Evaluated([game |-> "chess", board |-> o.board, turn |-> o.turn, castling |-> o.castling,
              ep |-> o.ep, halfmove |-> 0, fullmove |-> o.fullmove,
              history |-> <<PositionOf(o)>>, result |-> "inProgress"]) : o \in Openings}

ChessChoices(s, p) ==
  IF s.result # "inProgress" \/ p # s.turn THEN {} ELSE ChessMoves(s)

\* applyMove()
ChessApply(s, p, m) ==
  LET man      == s.board[m.from]
      pawn     == man.type = "pawn"
      captured == m.to \in DOMAIN s.board \/ (pawn /\ File(m.from) # File(m.to))
      rank     == Apart(Rank(m.from), Rank(m.to))
      next     == [s EXCEPT
        !.board    = BoardAfter(s.board, m),
        !.turn     = Rival(s.turn),
        !.castling = {r \in @ : /\ man.type = "king" => r.color # s.turn
                                /\ RookHome(r) \notin {m.from, m.to}},
        !.ep       = IF pawn /\ rank = 2 THEN (m.from + m.to) \div 2 ELSE NoSquare,
        !.halfmove = IF pawn \/ captured THEN 0 ELSE @ + 1,
        !.fullmove = @ + IF s.turn = Black THEN 1 ELSE 0]
  IN  Evaluated([next EXCEPT !.history =
        IF next.halfmove = 0 THEN <<PositionOf(next)>> ELSE Append(@, PositionOf(next))])

ChessStatus(s) ==
  CASE s.result = "inProgress" -> InProgress
    [] s.result = "checkmate"  -> Won({Rival(s.turn)})
    [] OTHER                   -> Drawn

\* How far games are explored: an endgame to MaxFullmoves, others one move.
ChessExplored(s) ==
  s.fullmove <= IF Cardinality(DOMAIN s.board) <= FewMen THEN MaxFullmoves ELSE 1

ChessTurn(s) == IF s.result = "inProgress" THEN s.turn ELSE Nobody

\* The result is worked out again.
ChessDecoded(s) ==
  Decoded(Evaluated(s),
    /\ \A c \in Seats : Cardinality({i \in Men(s.board, c) : s.board[i].type = "king"}) = 1
    /\ \A i \in DOMAIN s.board : s.board[i].type = "pawn" => Rank(i) \notin {0, 7}
    /\ s.ep # NoSquare => Rank(s.ep) = IF s.turn = White THEN 5 ELSE 2
    /\ ~IsInCheck(s.board, Rival(s.turn))
    /\ Len(s.history) <= HistoryLimit
    /\ Last(s.history) = PositionOf(s))

-----------------------------------------------------------------------------
(* Positions. *)

Man == [color : Seats, type : {"pawn", "knight", "bishop", "rook", "queen", "king"}]

Kings(board, c) == {i \in Men(board, c) : board[i].type = "king"}

\* A position play can come to: each side has one king, the side that moved has not
\* left its king in check, and no right to castle or to take en passant is left
\* where the men no longer stand as it needs.
SoundPosition(pos) ==
  /\ pos.turn \in Seats
  /\ DOMAIN pos.board \subseteq Squares /\ pos.board \in [DOMAIN pos.board -> Man]
  /\ \A c \in Seats : \E k \in Squares : Kings(pos.board, c) = {k}
  /\ ~IsInCheck(pos.board, Rival(pos.turn))
  /\ pos.castling \subseteq Rights
  /\ \A r \in pos.castling :
       /\ KingOf(pos.board, r.color) = KingHome(r.color)
       /\ RookHome(r) \in Men(pos.board, r.color) /\ pos.board[RookHome(r)].type = "rook"
  /\ pos.ep # NoSquare =>
       LET pawn == pos.ep - 8 * Forward(pos.turn)
       IN  /\ pos.ep \in Squares \ DOMAIN pos.board
           /\ pawn \in Men(pos.board, Rival(pos.turn)) /\ pos.board[pawn].type = "pawn"

\* Games start from the initial position and from positions a game reaches later.
ASSUME OpeningAssumption == \A o \in Openings : SoundPosition(o)

\* A right to castle means that king and rook have not moved, and a square can be
\* taken en passant only behind a pawn that has just gone two; what counts as a
\* repetition has as many plies behind it as the fifty-move rule has counted.
RightsAreEarned(s) ==
  /\ \A r \in s.castling :
       /\ KingOf(s.board, r.color) = KingHome(r.color)
       /\ RookHome(r) \in Men(s.board, r.color) /\ s.board[RookHome(r)].type = "rook"
  /\ s.ep # NoSquare =>
       LET pawn == s.ep - 8 * Forward(s.turn)
       IN  /\ s.halfmove = 0 /\ s.ep \notin DOMAIN s.board
           /\ pawn \in Men(s.board, Rival(s.turn)) /\ s.board[pawn].type = "pawn"
  /\ Len(s.history) = s.halfmove + 1

=============================================================================
