----------------------------- MODULE Battleship -----------------------------
(***************************************************************************)
(* Battleship (battleship.ts): hidden fleets on a link with no referee.    *)
(* Each player commits to a fleet, the owner of a grid answers every shot  *)
(* at it, and when a fleet is down, or a grid used up, both reveal and the *)
(* answers are audited.                                                    *)
(*                                                                         *)
(* A commitment is the fleet it hashes (salts are left out).  A player who *)
(* is not one of Liars runs our app: a legal fleet, answers worked out by  *)
(* resolveReport(), the fleet of the commitment revealed.  A liar sends    *)
(* anything validateAction() accepts.                                      *)
(***************************************************************************)
EXTENDS GameContract

CONSTANTS
  BoardSize,          \* BOARD_SIZE, 10
  Fleet,              \* FLEET: the lengths of the ships
  Layouts,            \* the fleets that may be placed or revealed
  Liars               \* players whose app is not ours

BoatCells == Cells(BoardSize * BoardSize)
Boats     == 1..Len(Fleet)

ASSUME BattleshipAssumption ==
  /\ BoardSize \in Nat \ {0} /\ Fleet \in Seq(Nat \ {0}) /\ Fleet # <<>>
  /\ Liars \subseteq Seats
  /\ Layouts \subseteq [Boats -> [row : Cells(BoardSize), col : Cells(BoardSize),
                                  vertical : BOOLEAN, length : 1..BoardSize]]

-----------------------------------------------------------------------------
(* Fleets. *)

ShipFits(ship) ==
  /\ ship.row + (IF ship.vertical THEN ship.length - 1 ELSE 0) < BoardSize
  /\ ship.col + (IF ship.vertical THEN 0 ELSE ship.length - 1) < BoardSize

\* shipCells()
ShipCells(ship) ==
  {IF ship.vertical THEN (ship.row + i) * BoardSize + ship.col
                    ELSE ship.row * BoardSize + ship.col + i : i \in Cells(ship.length)}

\* fleetLayout(), isLegalLayout()
IsLegalLayout(ships) ==
  /\ \A i \in Boats : ships[i].length = Fleet[i] /\ ShipFits(ships[i])
  /\ \A i, j \in Boats : i # j => ShipCells(ships[i]) \cap ShipCells(ships[j]) = {}

NoShip == 0
ShipAt(ships, cell) ==
  LET there == {i \in Boats : cell \in ShipCells(ships[i])}
  IN  IF there = {} THEN NoShip ELSE Min(there)

\* Hits on the ship that shot k found, counting that shot.
HitsUpTo(ships, shots, k) ==
  Cardinality({j \in 1..k : ShipAt(ships, shots[j].cell) = ShipAt(ships, shots[k].cell)})

\* resolveReport(): what our app answers.
ResolveReport(ships, prior, cell) ==
  LET ship == ShipAt(ships, cell)
      hits == HitsUpTo(ships, Append(prior, [cell |-> cell]), Len(prior) + 1)
  IN  [cell |-> cell, hit |-> ship # NoShip,
       sunk |-> IF ship # NoShip /\ hits >= Fleet[ship] THEN ship ELSE NoShip]

-----------------------------------------------------------------------------
(* The audit. *)

\* Mutant of reportsMatchLayout(): the ship that sank is not compared.
MutantReportsMatchLayout(ships, shots) ==
  \A k \in DOMAIN shots : shots[k].hit <=> ShipAt(ships, shots[k].cell) # NoShip

ReportsMatchLayout(ships, shots) ==
  \A k \in DOMAIN shots :
    LET ship == ShipAt(ships, shots[k].cell)
        sank == ship # NoShip /\ HitsUpTo(ships, shots, k) = Fleet[ship]
    IN  /\ \A j \in 1..(k - 1) : shots[j].cell # shots[k].cell
        /\ shots[k].hit <=> ship # NoShip
        /\ shots[k].sunk = IF sank THEN ship ELSE NoShip

NoFleet == <<>>

RevealIsHonest(commitment, fleet, shots) ==
  commitment = fleet /\ IsLegalLayout(fleet) /\ ReportsMatchLayout(fleet, shots)

SunkCount(shots)   == Cardinality({k \in DOMAIN shots : shots[k].sunk # NoShip})
FleetIsSunk(shots) == SunkCount(shots) >= Len(Fleet)

-----------------------------------------------------------------------------
(* The game. *)

NoShot == [shooter |-> Nobody]

BattleshipNew ==
  {[game |-> "battleship", phase |-> "placement", commitments |-> [p \in Seats |-> NoFleet],
    shots |-> [p \in Seats |-> <<>>], pending |-> NoShot, turn |-> 1,
    reveals |-> [p \in Seats |-> NoFleet], cheated |-> [p \in Seats |-> FALSE],
    ending |-> "none", winner |-> Nobody]}

\* What a report may claim: a ship sinks once, and only on a hit.
Claims(s, p) ==
  {r \in [cell : {s.pending.cell}, hit : BOOLEAN, sunk : {NoShip} \cup Boats] :
     r.sunk # NoShip => r.hit /\ \A k \in DOMAIN s.shots[p] : s.shots[p][k].sunk # r.sunk}

FleetsOf(p) == {f \in Layouts : p \in Liars \/ IsLegalLayout(f)}

BattleshipChoices(s, p) ==
  CASE s.phase = "placement" ->
         {[type |-> "place", fleet |-> f] : f \in {f \in FleetsOf(p) : s.commitments[p] = NoFleet}}
    [] s.phase = "firing" /\ s.pending = NoShot ->
         {[type |-> "fire", cell |-> c] :
            c \in {c \in BoatCells : /\ s.turn = p
                                     /\ \A k \in DOMAIN s.shots[Rival(p)] :
                                          s.shots[Rival(p)][k].cell # c}}
    [] s.phase = "firing" /\ s.pending # NoShot ->
         {[type |-> "report", shot |-> r] :
            r \in {r \in Claims(s, p) :
                     /\ s.pending.shooter # p
                     /\ p \notin Liars => r = ResolveReport(s.commitments[p], s.shots[p], r.cell)}}
    [] s.phase = "reveal" ->
         {[type |-> "reveal", fleet |-> f] :
            f \in {f \in Layouts : /\ s.reveals[p] = NoFleet
                                   /\ p \notin Liars => f = s.commitments[p]}}
    [] OTHER -> {}

\* The second reveal settles the game.
Settled(s) ==
  LET liars == {p \in Seats : s.cheated[p]}
      down  == {p \in Seats : FleetIsSunk(s.shots[p])}
      end(how, who) == [s EXCEPT !.phase = "finished", !.ending = how, !.winner = who]
      other(ps) == Rival(Min(ps))
  IN  IF liars = Seats THEN end("bothCheated", Nobody)
      ELSE IF liars # {} THEN end("cheat", other(liars))
      ELSE IF Cardinality(down) = 1 THEN end("fleetSunk", other(down))
      ELSE end("stalemate", Nobody)

BattleshipApply(s, p, a) ==
  CASE a.type = "place" ->
         LET commitments == [s.commitments EXCEPT ![p] = a.fleet]
         IN  [s EXCEPT !.commitments = commitments,
                       !.phase = IF NoFleet \in Range(commitments) THEN @ ELSE "firing"]
    [] a.type = "fire" -> [s EXCEPT !.pending = [shooter |-> p, cell |-> a.cell]]
    [] a.type = "report" ->
         LET mine == Append(s.shots[p], a.shot)
         IN  [s EXCEPT !.shots[p] = mine, !.pending = NoShot, !.turn = Rival(s.pending.shooter),
                       !.phase = IF FleetIsSunk(mine) \/ Len(mine) >= BoardSize * BoardSize
                                   THEN "reveal" ELSE @]
    [] a.type = "reveal" ->
         LET shown == [s EXCEPT !.reveals[p] = a.fleet,
                                !.cheated[p] = ~RevealIsHonest(s.commitments[p], a.fleet, s.shots[p])]
         IN  IF NoFleet \in Range(shown.reveals) THEN shown ELSE Settled(shown)

BattleshipStatus(s) ==
  CASE s.ending = "none" -> InProgress
    [] s.ending \in {"fleetSunk", "cheat"} /\ s.winner # Nobody -> Won({s.winner})
    [] OTHER -> Drawn

BattleshipTurn(s) ==
  LET first(ps) == IF ps = {} THEN Nobody ELSE Min(ps)
  IN  CASE s.phase = "placement" -> first({p \in Seats : s.commitments[p] = NoFleet})
        [] s.phase = "firing"    -> IF s.pending = NoShot THEN s.turn ELSE Rival(s.pending.shooter)
        [] s.phase = "reveal"    -> first({p \in Seats : s.reveals[p] = NoFleet})
        [] OTHER                 -> Nobody

\* A shot travels as one number, cell * 8 + outcome.
DecodedShot(shot) ==
  LET outcome == IF ~shot.hit THEN 0 ELSE IF shot.sunk = NoShip THEN 1 ELSE shot.sunk + 1
      code    == shot.cell * 8 + outcome
  IN  [cell |-> code \div 8, hit |-> code % 8 # 0,
       sunk |-> IF code % 8 >= 2 THEN (code % 8) - 1 ELSE NoShip]

BattleshipDecoded(s) ==
  Decoded([s EXCEPT !.shots = [p \in Seats |-> [k \in DOMAIN @[p] |-> DecodedShot(@[p][k])]]],
          /\ Len(Fleet) <= 6
          /\ \A p \in Seats : Len(s.shots[p]) <= BoardSize * BoardSize)

\* The audit finds out exactly the players who answered a shot wrongly, or did
\* not keep to a legal fleet; honest players lose only a fleet that was sunk.
AuditIsRight(s) ==
  LET truthful(p) ==
        /\ IsLegalLayout(s.commitments[p]) /\ s.reveals[p] = s.commitments[p]
        /\ \A k \in DOMAIN s.shots[p] :
             s.shots[p][k] = ResolveReport(s.commitments[p], SubSeq(s.shots[p], 1, k - 1), s.shots[p][k].cell)
  IN  /\ \A p \in Seats : s.reveals[p] # NoFleet => (s.cheated[p] <=> ~truthful(p))
      /\ \A p \in Seats \ Liars : ~s.cheated[p] /\ (s.winner = Rival(p) => FleetIsSunk(s.shots[p]))
      /\ s.ending # "stalemate"

=============================================================================
