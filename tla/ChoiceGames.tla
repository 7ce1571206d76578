----------------------------- MODULE ChoiceGames -----------------------------
(***************************************************************************)
(* Games of hidden choices: rock paper scissors with its commitments, the  *)
(* prompts two people answer without seeing each other's answer            *)
(* (secretChoice.ts), and the code breaker.                                *)
(*                                                                         *)
(* A commitment is the four things that are hashed; the players' own apps  *)
(* make them, so it names the player and the round it was made in.  Nonces *)
(* differ and are left out.                                                *)
(***************************************************************************)
EXTENDS GameContract

CONSTANTS
  Rounds, WinsNeeded,                \* rockPaperScissors.ts: 5, 3
  Prompts,                           \* secretChoice.ts: PROMPTS_PER_GAME, 10
  CodeLength, Colours, MaxGuesses    \* codeBreaker.ts: 4, 6, 10

ASSUME ChoiceAssumption ==
  {Rounds, WinsNeeded, Prompts, CodeLength, Colours, MaxGuesses} \subseteq Nat \ {0}

-----------------------------------------------------------------------------
(* Rock paper scissors: both commit before either reveals. *)

Hands == 1..3                        \* ROCK, PAPER, SCISSORS
NoCommitment == [player |-> Nobody]
Commitment(p, round, hand) == [player |-> p, round |-> round, hand |-> hand]

RoundWinner(first, second) ==
  IF first = second THEN Nobody ELSE IF (first - second + 3) % 3 = 1 THEN 1 ELSE 2

MatchOver(s) == s.round >= Rounds \/ \E p \in Seats : s.scores[p] >= WinsNeeded

RockPaperScissorsNew ==
  {[game |-> "rockPaperScissors", round |-> 0, commits |-> [p \in Seats |-> NoCommitment],
    reveals |-> [p \in Seats |-> 0], scores |-> [p \in Seats |-> 0], outcomes |-> <<>>]}

RockPaperScissorsChoices(s, p) ==
  IF MatchOver(s) THEN {}
  ELSE {[type |-> "commit", hash |-> Commitment(p, s.round, h)] :
          h \in {h \in Hands : s.commits[p] = NoCommitment}}
    \cup {[type |-> "reveal", hand |-> h] :
          h \in {h \in Hands : /\ s.commits[p] = Commitment(p, s.round, h)
                               /\ s.commits[Rival(p)] # NoCommitment
                               /\ s.reveals[p] = 0}}

\* The next round starts with clean slates.
NextRound(s) ==
  [s EXCEPT !.round = @ + 1, !.commits = [p \in Seats |-> NoCommitment],
            !.reveals = [p \in Seats |-> 0]]

RockPaperScissorsApply(s, p, a) ==
  IF a.type = "commit" THEN [s EXCEPT !.commits[p] = a.hash]
  ELSE LET shown  == [s EXCEPT !.reveals[p] = a.hand]
           hands  == <<shown.reveals[1], shown.reveals[2]>>
           winner == RoundWinner(hands[1], hands[2])
       IN  IF 0 \in Range(hands) THEN shown
           ELSE [NextRound(shown) EXCEPT
                   !.scores = [q \in Seats |-> @[q] + IF q = winner THEN 1 ELSE 0],
                   !.outcomes = Append(@, hands)]

RockPaperScissorsStatus(s) ==
  LET ahead(p) == s.scores[p] >= WinsNeeded
                  \/ (s.round >= Rounds /\ s.scores[p] > s.scores[Rival(p)])
  IN  IF ahead(1) THEN Won({1}) ELSE IF ahead(2) THEN Won({2})
      ELSE IF s.round >= Rounds THEN Drawn ELSE InProgress

\* currentTurn(): the first who has yet to commit, or else to reveal.
RockPaperScissorsTurn(s) ==
  LET waiting == {p \in Seats : s.commits[p] = NoCommitment}
      hidden  == {p \in Seats : s.reveals[p] = 0}
  IN  IF MatchOver(s) THEN Nobody
      ELSE IF waiting # {} THEN Min(waiting)
      ELSE IF hidden # {} THEN Min(hidden) ELSE Nobody

RockPaperScissorsDecoded(s) ==
  LET wins(p) == {i \in DOMAIN s.outcomes : RoundWinner(s.outcomes[i][1], s.outcomes[i][2]) = p}
      shown   == {p \in Seats : s.reveals[p] # 0}
  IN  Decoded(s, /\ s.round \in 0..Rounds
                 /\ Len(s.outcomes) = s.round
                 /\ \A p \in Seats : s.scores[p] = Cardinality(wins(p))
                 /\ shown # {} => \A p \in Seats : s.commits[p] # NoCommitment
                 /\ shown # Seats)

-----------------------------------------------------------------------------
(* Secret choices: a round opens when both have chosen. *)

Unchosen == -1
PromptRounds == Cells(Prompts)

SecretChoiceNew ==
  {[game |-> "secretChoice", picks |-> [r \in PromptRounds |-> [p \in Seats |-> Unchosen]],
    revealed |-> [r \in PromptRounds |-> FALSE], agreed |-> 0]}

\* currentRound()
PromptInPlay(s) == Min({Prompts} \cup {r \in PromptRounds : ~s.revealed[r]})

SecretChoiceChoices(s, p) ==
  LET r == PromptInPlay(s)
  IN  IF r >= Prompts THEN {} ELSE IF s.picks[r][p] # Unchosen THEN {} ELSE {r} \X {0, 1}

SecretChoiceApply(s, p, a) ==
  LET r      == PromptInPlay(s)
      picked == [s EXCEPT !.picks[r][p] = a[2]]
      pair   == picked.picks[r]
  IN  IF \E q \in Seats : pair[q] = Unchosen THEN picked
      ELSE [picked EXCEPT !.revealed[r] = TRUE,
                          !.agreed = @ + IF pair[1] = pair[2] THEN 1 ELSE 0]

SecretChoiceStatus(s) == IF PromptInPlay(s) < Prompts THEN InProgress ELSE Drawn

SecretChoiceTurn(s) ==
  IF PromptInPlay(s) >= Prompts THEN Nobody
  ELSE IF s.picks[PromptInPlay(s)][1] = Unchosen THEN 1 ELSE 2

SecretChoiceDecoded(s) ==
  LET agreements == {r \in PromptRounds : s.revealed[r] /\ s.picks[r][1] = s.picks[r][2]}
  IN  Decoded(s, /\ \A r \in PromptRounds :
                      /\ s.revealed[r] => \A q \in 0..r : s.revealed[q]
                      /\ s.revealed[r] <=> Unchosen \notin Range(s.picks[r])
                      /\ r > PromptInPlay(s) => Range(s.picks[r]) = {Unchosen}
                 /\ s.agreed = Cardinality(agreements))

-----------------------------------------------------------------------------
(* The code breaker: player two answers every guess of player one. *)

Codes == [1..CodeLength -> Cells(Colours)]

\* Pegs of colour c in code that are not in their place.
PegsLeft(code, other, c) == Cardinality({i \in 1..CodeLength : code[i] # other[i] /\ code[i] = c})

ScoreGuess(secret, guess) ==
  [guess |-> guess,
   exact |-> Cardinality({i \in 1..CodeLength : secret[i] = guess[i]}),
   colour |-> SumFunction([c \in Cells(Colours) |->
                 Min({PegsLeft(secret, guess, c), PegsLeft(guess, secret, c)})])]

HasBroken(board) == \E i \in DOMAIN board : board[i].exact = CodeLength

CodeBreakerNew ==
  {[game |-> "codeBreaker", secret |-> code, boards |-> [p \in Seats |-> <<>>]] : code \in Codes}

\* turnIndexOf(): never stored.
ToGuess(s) == IF Len(s.boards[1]) = Len(s.boards[2]) THEN 1 ELSE 2

CodeBreakerStatus(s) ==
  LET broke == {p \in Seats : HasBroken(s.boards[p])}
  IN  IF Len(s.boards[1]) # Len(s.boards[2]) THEN InProgress
      ELSE IF broke = Seats THEN Drawn
      ELSE IF broke # {} THEN Won(broke)
      ELSE IF Len(s.boards[1]) >= MaxGuesses THEN Drawn ELSE InProgress

CodeBreakerChoices(s, p) ==
  IF CodeBreakerStatus(s) # InProgress \/ p # ToGuess(s) \/ Len(s.boards[p]) >= MaxGuesses
    THEN {} ELSE Codes

CodeBreakerApply(s, p, guess) ==
  [s EXCEPT !.boards[p] = Append(@, ScoreGuess(s.secret, guess))]

CodeBreakerTurn(s) == IF CodeBreakerStatus(s) = InProgress THEN ToGuess(s) ELSE Nobody

\* The feedback is worked out again: only the guesses travel.
CodeBreakerDecoded(s) ==
  LET rebuilt(board) == [i \in DOMAIN board |-> ScoreGuess(s.secret, board[i].guess)]
      boards == [p \in Seats |-> rebuilt(s.boards[p])]
  IN  Decoded([s EXCEPT !.boards = boards],
              /\ \A p \in Seats :
                   /\ Len(boards[p]) <= MaxGuesses
                   /\ \A i \in DOMAIN boards[p] :
                        boards[p][i].exact = CodeLength => i = Len(boards[p])
              /\ Len(boards[1]) - Len(boards[2]) \in {0, 1})

\* Reference: a peg scores when its colour is matched one to one, in place or not.
FeedbackIsRight(s) ==
  \A p \in Seats : \A i \in DOMAIN s.boards[p] :
    LET a == s.boards[p][i]
        pegs(code, c) == Cardinality({k \in 1..CodeLength : code[k] = c})
    IN  a.exact + a.colour = SumFunction([c \in Cells(Colours) |->
                                Min({pegs(s.secret, c), pegs(a.guess, c)})])

-----------------------------------------------------------------------------
(* The games on the table. *)

ChoiceNew == RockPaperScissorsNew \cup SecretChoiceNew \cup CodeBreakerNew

ChoiceChoices(s, p) ==
  CASE s.game = "rockPaperScissors" -> RockPaperScissorsChoices(s, p)
    [] s.game = "secretChoice"      -> SecretChoiceChoices(s, p)
    [] s.game = "codeBreaker"       -> CodeBreakerChoices(s, p)

ChoiceApply(s, p, c) ==
  CASE s.game = "rockPaperScissors" -> RockPaperScissorsApply(s, p, c)
    [] s.game = "secretChoice"      -> SecretChoiceApply(s, p, c)
    [] s.game = "codeBreaker"       -> CodeBreakerApply(s, p, c)

ChoiceStatus(s) ==
  CASE s.game = "rockPaperScissors" -> RockPaperScissorsStatus(s)
    [] s.game = "secretChoice"      -> SecretChoiceStatus(s)
    [] s.game = "codeBreaker"       -> CodeBreakerStatus(s)

ChoiceTurn(s) ==
  CASE s.game = "rockPaperScissors" -> RockPaperScissorsTurn(s)
    [] s.game = "secretChoice"      -> SecretChoiceTurn(s)
    [] s.game = "codeBreaker"       -> CodeBreakerTurn(s)

ChoiceDecoded(s) ==
  CASE s.game = "rockPaperScissors" -> RockPaperScissorsDecoded(s)
    [] s.game = "secretChoice"      -> SecretChoiceDecoded(s)
    [] s.game = "codeBreaker"       -> CodeBreakerDecoded(s)

=============================================================================
