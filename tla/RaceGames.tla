----------------------------- MODULE RaceGames ------------------------------
(***************************************************************************)
(* Games of speed and aim: tap race, reaction, darts.                      *)
(*                                                                         *)
(* Times and tap counts are measured by the player's own phone and sent as *)
(* a claim.  Reaction's waits are drawn from the shared generator, one a   *)
(* round, and are fixed when the game starts.  Where a dart lands is drawn *)
(* too: a throw may hit any bed; board geometry (scoreDart, sectorIndex)   *)
(* is reduced to the beds and what they are worth.                         *)
(***************************************************************************)
EXTENDS GameContract

CONSTANTS
  TapRounds, TapWins, MaxTaps,                   \* tapRace.ts: 3, 2, 2000
  Racers, RaceRounds, RaceWins,                  \* reaction.ts: 2 to 6 players, 5, 3
  MinWait, MaxWait, HumanFloor, MaxTapMs,        \* reaction.ts: 1000, 4000, 80, 10000
  Throwers, StartScore, DartsPerTurn, MaxTurns,  \* darts.ts: 2 to 4 players, 501, 3, 40
  Sectors                                        \* darts.ts: SECTOR_ORDER

ASSUME RaceAssumption ==
  /\ {TapRounds, TapWins, MaxTaps, RaceRounds, RaceWins, HumanFloor, StartScore, DartsPerTurn,
      MaxTurns, MinWait} \subseteq Nat \ {0}
  /\ MaxWait \in Nat /\ MinWait <= MaxWait
  /\ MaxTapMs \in Nat /\ MaxWait <= MaxTapMs
  /\ Racers \in 2..6 /\ Throwers \in 2..4 /\ StartScore >= 2 /\ Sectors \subseteq 1..20

-----------------------------------------------------------------------------
(* Tap race: one count per player and round; everything else is derived. *)

NotReported == -1
TapRaceNew ==
  {[game |-> "tapRace",
    counts |-> [r \in Cells(TapRounds) |-> [p \in Seats |-> NotReported]]]}

Reported(s, r) == NotReported \notin Range(s.counts[r])

\* winCounts()
RoundsWon(s, p) ==
  Cardinality({r \in Cells(TapRounds) : Reported(s, r) /\ s.counts[r][p] > s.counts[r][Rival(p)]})

\* currentRound()
TapRound(s) == Min({TapRounds} \cup {r \in Cells(TapRounds) : ~Reported(s, r)})

TapRaceOver(s) == (\E p \in Seats : RoundsWon(s, p) >= TapWins) \/ TapRound(s) >= TapRounds

TapRaceChoices(s, p) ==
  IF TapRaceOver(s) THEN {}
  ELSE {[round |-> TapRound(s), count |-> n] :
          n \in {n \in 0..MaxTaps : s.counts[TapRound(s)][p] = NotReported}}

TapRaceApply(s, p, a) == [s EXCEPT !.counts[a.round][p] = a.count]

TapRaceStatus(s) ==
  IF TapRaceOver(s) THEN ByScore([p \in Seats |-> RoundsWon(s, p)]) ELSE InProgress

TapRaceTurn(s) ==
  IF TapRaceOver(s) THEN Nobody
  ELSE Min({p \in Seats : s.counts[TapRound(s)][p] = NotReported})

\* isReachable(): rounds fill in order, and nothing follows the one that settled it.
TapRaceDecoded(s) ==
  LET wonBefore(r, p) == Cardinality({q \in 0..(r - 1) : s.counts[q][p] > s.counts[q][Rival(p)]})
      empty(r)  == Range(s.counts[r]) = {NotReported}
      closed(r) == \/ \E q \in 0..(r - 1) : ~Reported(s, q)
                   \/ \E p \in Seats : wonBefore(r, p) >= TapWins
  IN  Decoded(s, \A r \in Cells(TapRounds) : closed(r) => empty(r))

-----------------------------------------------------------------------------
(* Reaction: all arm, then each taps once. *)

NotTapped  == -1
NoTime     == -1
NoRoundYet == -1
RaceSeats  == 1..Racers
ForAll(x)  == [p \in RaceSeats |-> x]

ReactionNew ==
  {[game |-> "reaction", waits |-> ws, round |-> 0, ready |-> ForAll(FALSE), greenAt |-> 0,
    taps |-> ForAll(NotTapped), wins |-> ForAll(0), best |-> ForAll(NoTime), total |-> ForAll(0),
    honest |-> ForAll(0), falseStarts |-> ForAll(0), lastWinner |-> NoRoundYet,
    lastReactions |-> ForAll(NoTime)] : ws \in [Cells(RaceRounds) -> MinWait..MaxWait]}

ReactionOver(s) == s.round >= RaceRounds \/ \E p \in RaceSeats : s.wins[p] >= RaceWins

\* Early, or faster than a human can be.
IsFalseStart(greenAt, at) == at - greenAt < HumanFloor

ReactionChoices(s, p) ==
  IF ReactionOver(s) THEN {}
  ELSE IF s.greenAt = 0 THEN {[type |-> "ready"] : q \in {q \in {p} : ~s.ready[q]}}
  ELSE {[type |-> "tap", at |-> t] : t \in {t \in 0..MaxTapMs : s.taps[p] = NotTapped}}

\* The fastest honest tap, unless it is shared.
Fastest(reactions) ==
  LET times == {reactions[p] : p \in RaceSeats} \ {NoTime}
      quick == {p \in RaceSeats : times # {} /\ reactions[p] = Min(times)}
  IN  IF Cardinality(quick) = 1 THEN CHOOSE p \in quick : TRUE ELSE Nobody

\* resolveRound()
RaceResolved(s, taps, walkover) ==
  LET reactions == [p \in RaceSeats |->
        IF taps[p] = NotTapped \/ IsFalseStart(s.greenAt, taps[p]) THEN NoTime ELSE taps[p] - s.greenAt]
      timed(p)  == reactions[p] # NoTime
      winner    == IF walkover # Nobody THEN walkover ELSE Fastest(reactions)
  IN  [s EXCEPT
         !.round = @ + 1, !.ready = ForAll(FALSE), !.greenAt = 0, !.taps = ForAll(NotTapped),
         !.wins   = [p \in RaceSeats |-> @[p] + IF p = winner THEN 1 ELSE 0],
         !.honest = [p \in RaceSeats |-> @[p] + IF timed(p) THEN 1 ELSE 0],
         !.total  = [p \in RaceSeats |-> @[p] + IF timed(p) THEN reactions[p] ELSE 0],
         !.best   = [p \in RaceSeats |-> IF ~timed(p) THEN @[p]
                                         ELSE IF @[p] = NoTime THEN reactions[p]
                                         ELSE Min({@[p], reactions[p]})],
         !.falseStarts = [p \in RaceSeats |->
                            @[p] + IF ~timed(p) /\ taps[p] # NotTapped THEN 1 ELSE 0],
         !.lastWinner = winner, !.lastReactions = reactions]

\* Mutant of applyAction(): whoever is last has lost the round.
MutantIsAwaited(pending, honest) == Cardinality(pending) > 1

\* A round waits for everybody, but nobody waits for the last of false starters.
IsAwaited(pending, honest) ==
  Cardinality(pending) > 1 \/ (pending # {} /\ honest # {})

ReactionApply(s, p, a) ==
  LET ready   == [s.ready EXCEPT ![p] = TRUE]
      taps    == [s.taps EXCEPT ![p] = a.at]
      pending == {q \in RaceSeats : taps[q] = NotTapped}
      honest  == {q \in RaceSeats \ pending : ~IsFalseStart(s.greenAt, taps[q])}
  IN  IF a.type = "ready"
        THEN [s EXCEPT !.ready = ready,
                       !.greenAt = IF FALSE \in Range(ready) THEN 0 ELSE s.waits[s.round]]
      ELSE IF IsAwaited(pending, honest) THEN [s EXCEPT !.taps = taps]
      ELSE RaceResolved(s, taps, IF pending = {} THEN Nobody ELSE CHOOSE q \in pending : TRUE)

\* The unique leader, if any round was won.
ReactionStatus(s) ==
  LET top     == Max(Range(s.wins))
      leaders == {p \in RaceSeats : s.wins[p] = top}
  IN  IF ~ReactionOver(s) THEN InProgress
      ELSE IF top = 0 \/ Cardinality(leaders) # 1 THEN Drawn ELSE Won(leaders)

ReactionTurn(s) ==
  LET owing == {p \in RaceSeats : IF s.greenAt = 0 THEN ~s.ready[p] ELSE s.taps[p] = NotTapped}
  IN  IF ReactionOver(s) \/ owing = {} THEN Nobody ELSE Min(owing)

ReactionDecoded(s) ==
  Decoded(s, /\ s.greenAt \in {0} \cup MinWait..MaxWait
             /\ s.round \in 0..RaceRounds
             /\ \A p \in RaceSeats :
                  /\ {s.taps[p], s.best[p], s.lastReactions[p]} \subseteq -1..MaxTapMs
                  /\ {s.wins[p], s.honest[p], s.falseStarts[p]} \subseteq 0..RaceRounds
                  /\ s.total[p] \in 0..(RaceRounds * MaxTapMs))

\* Reference: every round is won by at most one player, and each player tapped
\* honestly, started falsely or was spared in it.
RaceAddsUp(s) ==
  /\ SumFunction(s.wins) <= s.round
  /\ \A p \in RaceSeats :
       /\ s.honest[p] + s.falseStarts[p] <= s.round
       /\ s.honest[p] > 0 => s.total[p] >= s.honest[p] * s.best[p]
       /\ s.best[p] = NoTime <=> s.honest[p] = 0
  /\ s.lastWinner \in RaceSeats =>
       \A q \in RaceSeats \ {s.lastWinner} :
         \/ s.lastReactions[q] = NoTime
         \/ s.lastReactions[s.lastWinner] # NoTime /\ s.lastReactions[s.lastWinner] < s.lastReactions[q]

-----------------------------------------------------------------------------
(* Darts: down to zero, ending on a double; a bust voids the turn. *)

DartSeats == 1..Throwers

\* scoreDart(): the beds a dart may land in.
Beds == {[ring |-> "miss", points |-> 0], [ring |-> "outerBull", points |-> 25],
         [ring |-> "innerBull", points |-> 50]}
        \cup {[ring |-> "single", points |-> n] : n \in Sectors}
        \cup {[ring |-> "double", points |-> 2 * n] : n \in Sectors}
        \cup {[ring |-> "treble", points |-> 3 * n] : n \in Sectors}

DartsNew ==
  {[game |-> "darts", scores |-> [p \in DartSeats |-> StartScore], turn |-> 1, thrown |-> 0,
    turnStart |-> StartScore, turns |-> 0, winner |-> Nobody,
    last |-> [ring |-> "none", points |-> 0], bust |-> FALSE, thrower |-> Nobody]}

DartsOver(s) == s.winner # Nobody \/ s.turns >= MaxTurns * Throwers

DartsChoices(s, p) ==
  IF DartsOver(s) \/ p # s.turn \/ s.thrown >= DartsPerTurn THEN {} ELSE Beds

DartsApply(s, p, hit) ==
  LET after    == s.scores[p] - hit.points
      won      == after = 0 /\ hit.ring \in {"double", "innerBull"}
      bust     == ~won /\ after <= 1
      scores   == [s.scores EXCEPT ![p] = IF won THEN 0 ELSE IF bust THEN s.turnStart ELSE after]
      turnOver == won \/ bust \/ s.thrown + 1 >= DartsPerTurn
      passes   == turnOver /\ ~won
      next     == IF passes THEN 1 + (p % Throwers) ELSE p
  IN  [s EXCEPT !.scores = scores, !.turn = next,
                !.thrown    = IF turnOver THEN 0 ELSE @ + 1,
                !.turnStart = IF passes THEN scores[next] ELSE @,
                !.turns     = @ + IF turnOver THEN 1 ELSE 0,
                !.winner    = IF won THEN p ELSE @,
                !.last = hit, !.bust = bust, !.thrower = p]

DartsStatus(s) ==
  IF s.winner # Nobody THEN Won({s.winner})
  ELSE IF s.turns >= MaxTurns * Throwers THEN Drawn ELSE InProgress

DartsTurn(s) == IF DartsOver(s) THEN Nobody ELSE s.turn

DartsDecoded(s) ==
  Decoded(s, /\ \A p \in DartSeats : s.scores[p] >= 0
             /\ s.thrown \in Cells(DartsPerTurn)
             /\ s.turnStart >= 0
             /\ s.turns \in 0..(MaxTurns * Throwers))

\* Reference: nobody is left on one, zero is the winner's alone, and what a bust
\* gives back is never less than what is on the board.
DartsAddsUp(s) ==
  /\ \A p \in DartSeats : s.scores[p] # 1 /\ (s.scores[p] = 0 <=> s.winner = p)
  /\ s.winner # Nobody => s.last.ring \in {"double", "innerBull"} /\ s.thrower = s.winner
  /\ s.scores[s.turn] <= s.turnStart
  /\ s.thrown = 0 /\ s.winner = Nobody => s.scores[s.turn] = s.turnStart

-----------------------------------------------------------------------------
(* The games on the table. *)

RaceNew == TapRaceNew \cup ReactionNew \cup DartsNew

RaceChoices(s, p) ==
  CASE s.game = "tapRace"  -> TapRaceChoices(s, p)
    [] s.game = "reaction" -> ReactionChoices(s, p)
    [] s.game = "darts"    -> DartsChoices(s, p)

RaceApply(s, p, c) ==
  CASE s.game = "tapRace"  -> TapRaceApply(s, p, c)
    [] s.game = "reaction" -> ReactionApply(s, p, c)
    [] s.game = "darts"    -> DartsApply(s, p, c)

RaceStatus(s) ==
  CASE s.game = "tapRace"  -> TapRaceStatus(s)
    [] s.game = "reaction" -> ReactionStatus(s)
    [] s.game = "darts"    -> DartsStatus(s)

RaceTurn(s) ==
  CASE s.game = "tapRace"  -> TapRaceTurn(s)
    [] s.game = "reaction" -> ReactionTurn(s)
    [] s.game = "darts"    -> DartsTurn(s)

RaceDecoded(s) ==
  CASE s.game = "tapRace"  -> TapRaceDecoded(s)
    [] s.game = "reaction" -> ReactionDecoded(s)
    [] s.game = "darts"    -> DartsDecoded(s)

=============================================================================
