---------------------------- MODULE MCServices ----------------------------
(***************************************************************************)
(* Services around a session, for TLC: the datagrams beneath it, the dials *)
(* that lead to it, a game between two phones above it and the rules of    *)
(* the games.  They share no state, so a behaviour follows one of them,    *)
(* drawn in the initial state, and leaves the others alone.                *)
(***************************************************************************)
EXTENDS SecureDatagrams, DialArbitration, GameRoom, GameTable, TLC

-----------------------------------------------------------------------------
(* What the games are played with. *)

\* wordChain and wordDuel
MCDictionary ==
  {<<"a", "b", "a">>, <<"a", "a", "b">>, <<"b", "a", "b">>, <<"b", "b", "a">>}

MCGrids ==
  {[c \in 0..8 |-> IF c \in {0, 8} THEN "a" ELSE IF c \in {1, 4} THEN "b" ELSE "x"]}

\* drawAndGuess: an accent and signs to fold, one letter wrong, one too many
MCVocabulary == {<<"a", "b">>, <<"b", "a", "E">>}
MCGlyphs     == {"a", "b", "x", "e", "E", "!", " "}
MCFolded     == [g \in MCGlyphs |-> CASE g = "E" -> "e" [] g \in {"!", " "} -> Break [] OTHER -> g]
MCTyped      == {<<"!", "a", "b", " ">>, <<"a", " ", "b">>, <<"b", "a", "e">>, <<"!">>}

\* battleship: a fleet that is legal and one that is half off the board
Boat(row, col, length) == [row |-> row, col |-> col, vertical |-> FALSE, length |-> length]
MCFleet   == <<2>>
MCLayouts == {<<Boat(0, 0, 2)>>, <<Boat(1, 1, 2)>>}

\* chess
FirstRank == <<"rook", "knight", "bishop", "queen", "king", "bishop", "knight", "rook">>

InitialBoard ==
  [i \in {j \in Squares : Rank(j) \in {0, 1, 6, 7}} |->
     [color |-> IF Rank(i) <= 1 THEN White ELSE Black,
      type  |-> IF Rank(i) \in {1, 6} THEN "pawn" ELSE FirstRank[File(i) + 1]]]

Board(white, black) ==
  [i \in DOMAIN white \cup DOMAIN black |->
     IF i \in DOMAIN white THEN [color |-> White, type |-> white[i]]
                            ELSE [color |-> Black, type |-> black[i]]]

Position(board, turn, castling, fullmove) ==
  [board |-> board, turn |-> turn, castling |-> castling, ep |-> NoSquare, fullmove |-> fullmove]

MCOpenings ==
  {Position(InitialBoard, White, Rights, 1),
   \* everybody may castle, and every rook attacks one
   Position(Board(0 :> "rook" @@ 4 :> "king" @@ 7 :> "rook",
                  56 :> "rook" @@ 60 :> "king" @@ 63 :> "rook"), White, Rights, 42),
   \* c7-c5 may be taken en passant unless that uncovers the rook on h5
   Position(Board(32 :> "king" @@ 33 :> "pawn", 39 :> "rook" @@ 50 :> "pawn" @@ 63 :> "king"),
            Black, {}, 41),
   \* f8 promotes: mate, or too little to mate with
   Position(Board(46 :> "king" @@ 53 :> "pawn", 63 :> "king"), White, {}, 42),
   \* Ke6 is stalemate
   Position(Board(43 :> "king" @@ 52 :> "pawn", 60 :> "king"), White, {}, 42),
   \* blocked pawns: only the kings move
   Position(Board(0 :> "king" @@ 8 :> "pawn" @@ 47 :> "pawn",
                  16 :> "pawn" @@ 55 :> "pawn" @@ 63 :> "king"), White, {}, 40)}

-----------------------------------------------------------------------------
VARIABLE service     \* which of the four this behaviour follows

serviceVars == <<datagramVars, dialVars, gameVars, table, service>>

ServicesInit ==
  /\ service \in {"datagrams", "dial", "game", "table"}
  /\ DatagramInit /\ DialInit /\ GameInit
  /\ service # "dial" => recognised = {}
  /\ IF service = "table" THEN TableInit ELSE table = CHOOSE t \in TriviaNew : TRUE

DatagramStep ==
  /\ service = "datagrams" /\ DatagramNext
  /\ UNCHANGED <<dialVars, gameVars, table, service>>

DialStep ==
  /\ service = "dial" /\ DialNext
  /\ UNCHANGED <<datagramVars, gameVars, table, service>>

GameStep ==
  /\ service = "game" /\ GameNext
  /\ UNCHANGED <<datagramVars, dialVars, table, service>>

TableStep ==
  /\ service = "table" /\ Act
  /\ UNCHANGED <<datagramVars, dialVars, gameVars, service>>

ServicesNext == DatagramStep \/ DialStep \/ GameStep \/ TableStep

ServicesSpec == ServicesInit /\ [][ServicesNext]_serviceVars

=============================================================================
