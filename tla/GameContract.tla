---------------------------- MODULE GameContract ----------------------------
(***************************************************************************)
(* What every game of packages/games promises (engine.ts): a state that is *)
(* a value, the actions a player may take in it, the state an action leads *)
(* to, who has won, and the snapshots a peer adopts.  The rules of a game  *)
(* G are operators on its state:                                           *)
(*                                                                         *)
(*   GNew            the states a game starts in (createInitialState): one *)
(*                   for every outcome of the shared seed;                 *)
(*   GChoices(s, p)  the payloads validateAction() lets player p send;     *)
(*   GApply(s, p, c) the state after p's action c (applyAction);           *)
(*   GStatus(s)      status();                                             *)
(*   GDecoded(s)     what decodeState() makes of s on the wire, Refused    *)
(*                   when it throws.                                       *)
(*                                                                         *)
(* Players are numbered from 1 in the order of setup.players.  Player ids, *)
(* CBOR shapes and texts are left out.                                     *)
(***************************************************************************)
EXTENDS Integers, Sequences, FiniteSets, FiniteSetsExt, SequencesExt, Functions

VARIABLE table       \* the state of the game that is played

Refused == [game |-> "refused"]

Seats    == {1, 2}
Nobody   == 0
Rival(p) == 3 - p

InProgress == [kind |-> "inProgress", winners |-> {}]
Drawn      == [kind |-> "draw", winners |-> {}]
Won(ps)    == [kind |-> "won", winners |-> ps]

\* The end of a game of two that counts something.
ByScore(score) ==
  IF score[1] = score[2] THEN Drawn
  ELSE Won({IF score[1] > score[2] THEN 1 ELSE 2})

\* asInt(), asNumber(): a field that is not in its range is refused.
Decoded(s, checks) == IF checks THEN s ELSE Refused

\* Cells of a grid are numbered row by row from 0.
Cells(n)         == 0..(n - 1)
Owned(board, p)  == {i \in DOMAIN board : board[i] = p}
CountOf(board, p) == Cardinality(Owned(board, p))

=============================================================================
