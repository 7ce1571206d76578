----------------------------- MODULE QuizGames ------------------------------
(***************************************************************************)
(* Quizzes: trivia, the duels of quizDuel.ts (capitals, flags, spelling)   *)
(* and quick math.  The questions are never sent: both phones derive them  *)
(* from the seed, so a game starts with the right option of each question  *)
(* (keys), any function of its rounds.  Answer times are measured by the   *)
(* phone that answers and travel with the answer.                          *)
(***************************************************************************)
EXTENDS GameContract

CONSTANTS
  Questions,     \* trivia.ts: options.questions; quizDuel.ts, quickMath.ts: ROUNDS
  Options,       \* answers a question offers, 4; quickMath.ts: values in range
  MaxAnswerMs,   \* the slowest time that is accepted
  BasePoints, MaxSpeedBonus          \* trivia.ts: 100, 50

ASSUME QuizAssumption ==
  /\ {Questions, Options, MaxAnswerMs, BasePoints} \subseteq Nat \ {0}
  /\ MaxSpeedBonus \in Nat

Unanswered == -1
Asked      == Cells(Questions)
AnswerKeys       == [Asked -> Cells(Options)]
Answers    == Cells(Options) \X (0..MaxAnswerMs)

-----------------------------------------------------------------------------
(* Trivia: the last answer closes a question; so may the host, who also    *)
(* asks for the next one.                                                  *)

Host == 1

TriviaNew ==
  {[game |-> "trivia", keys |-> k, position |-> 0, revealed |-> FALSE, finished |-> FALSE,
    choices |-> [p \in Seats |-> Unanswered], times |-> [p \in Seats |-> 0],
    scores |-> [p \in Seats |-> 0], correct |-> [p \in Seats |-> 0]] : k \in AnswerKeys}

SpeedBonus(ms) == (MaxSpeedBonus * (MaxAnswerMs - ms)) \div MaxAnswerMs

IsLast(s) == s.position >= Questions - 1

\* resolve(): every answer is scored at once.
TriviaResolved(s) ==
  LET right(p) == s.choices[p] = s.keys[s.position]
  IN  [s EXCEPT !.scores   = [p \in Seats |-> @[p] +
                                IF right(p) THEN BasePoints + SpeedBonus(s.times[p]) ELSE 0],
                !.correct  = [p \in Seats |-> @[p] + IF right(p) THEN 1 ELSE 0],
                !.revealed = TRUE,
                !.finished = IsLast(s)]

\* advance()
TriviaAdvanced(s) ==
  [s EXCEPT !.position = @ + 1, !.revealed = FALSE,
            !.choices = [p \in Seats |-> Unanswered], !.times = [p \in Seats |-> 0]]

TriviaChoices(s, p) ==
  IF s.finished THEN {}
  ELSE {[type |-> "answer", answer |-> a] :
          a \in {a \in Answers : ~s.revealed /\ s.choices[p] = Unanswered}}
       \cup {[type |-> "next"] : q \in {p} \cap {Host}}

TriviaApply(s, p, a) ==
  IF a.type = "next" THEN IF s.revealed THEN TriviaAdvanced(s) ELSE TriviaResolved(s)
  ELSE LET answered == [s EXCEPT !.choices[p] = a.answer[1], !.times[p] = a.answer[2]]
       IN  IF \A q \in Seats : answered.choices[q] # Unanswered
             THEN TriviaResolved(answered) ELSE answered

TriviaStatus(s) == IF s.finished THEN ByScore(s.scores) ELSE InProgress

\* currentTurn(): whoever owes an answer; the host between questions.
TriviaTurn(s) ==
  LET waiting == {p \in Seats : s.choices[p] = Unanswered}
  IN  IF s.finished THEN Nobody ELSE IF s.revealed \/ waiting = {} THEN Host ELSE Min(waiting)

TriviaDecoded(s) ==
  Decoded(s, /\ s.position \in Asked
             /\ \A p \in Seats :
                  /\ s.choices[p] \in Unanswered..(Options - 1)
                  /\ s.times[p] \in 0..MaxAnswerMs
                  /\ s.scores[p] \in 0..(Questions * (BasePoints + MaxSpeedBonus))
                  /\ s.correct[p] \in 0..Questions)

-----------------------------------------------------------------------------
(* The duels: an answer names its round, both answers resolve it. *)

QuizDuelNew ==
  {[game |-> "quizDuel", keys |-> k, round |-> 0,
    picks |-> [r \in Asked |-> [p \in Seats |-> Unanswered]],
    times |-> [r \in Asked |-> [p \in Seats |-> 0]],
    scores |-> [p \in Seats |-> 0]] : k \in AnswerKeys}

\* roundPoints(): for being right, and for being the faster of two who are.
RoundPoints(p, right, ms, worth, bonus) ==
  (IF right[p] THEN worth ELSE 0)
    + (IF right[p] /\ right[Rival(p)] /\ ms[p] < ms[Rival(p)] THEN bonus ELSE 0)

DuelPoints(s, r, p) ==
  RoundPoints(p, [q \in Seats |-> s.picks[r][q] = s.keys[r]], s.times[r], 1, 1)

QuizDuelChoices(s, p) ==
  IF s.round >= Questions THEN {}
  ELSE {[round |-> s.round, answer |-> a] : a \in {a \in Answers : s.picks[s.round][p] = Unanswered}}

QuizDuelApply(s, p, a) ==
  LET r     == s.round
      given == [s EXCEPT !.picks[r][p] = a.answer[1], !.times[r][p] = a.answer[2]]
  IN  IF Unanswered \in Range(given.picks[r]) THEN given
      ELSE [given EXCEPT !.scores = [q \in Seats |-> @[q] + DuelPoints(given, r, q)],
                         !.round = @ + 1]

QuizDuelStatus(s) == IF s.round < Questions THEN InProgress ELSE ByScore(s.scores)

QuizDuelTurn(s) ==
  IF s.round >= Questions THEN Nobody
  ELSE Min({p \in Seats : s.picks[s.round][p] = Unanswered} \cup {3}) % 3

QuizDuelDecoded(s) ==
  LET both(r)   == Unanswered \notin Range(s.picks[r])
      earned(p) == SumFunction([r \in Asked |-> IF r < s.round THEN DuelPoints(s, r, p) ELSE 0])
  IN  Decoded(s, /\ s.round \in 0..Questions
                 /\ \A r \in Asked, p \in Seats :
                      s.picks[r][p] = Unanswered => s.times[r][p] = 0
                 /\ \A r \in Asked : r < s.round => both(r)
                 /\ \A r \in Asked : r = s.round => ~both(r)
                 /\ \A r \in Asked : r > s.round => Range(s.picks[r]) = {Unanswered}
                 /\ \A p \in Seats : s.scores[p] = earned(p))

-----------------------------------------------------------------------------
(* Quick math: the same duel, with only the open round kept. *)

CorrectPoints == 2
QuickBonus    == 1                   \* SPEED_BONUS
NoAnswer      == <<>>

QuickMathNew ==
  {[game |-> "quickMath", keys |-> k, round |-> 0, answers |-> [p \in Seats |-> NoAnswer],
    scores |-> [p \in Seats |-> 0], correct |-> [p \in Seats |-> 0]] : k \in AnswerKeys}

QuickMathChoices(s, p) ==
  IF s.round >= Questions \/ s.answers[p] # NoAnswer THEN {}
  ELSE {[round |-> s.round, answer |-> a] : a \in Answers}

QuickMathApply(s, p, a) ==
  LET given == [s EXCEPT !.answers[p] = a.answer]
      right == [q \in Seats |-> given.answers[q][1] = s.keys[s.round]]
      ms    == [q \in Seats |-> given.answers[q][2]]
  IN  IF NoAnswer \in Range(given.answers) THEN given
      ELSE [given EXCEPT
              !.round   = @ + 1,
              !.answers = [q \in Seats |-> NoAnswer],
              !.scores  = [q \in Seats |-> @[q] + RoundPoints(q, right, ms, CorrectPoints, QuickBonus)],
              !.correct = [q \in Seats |-> @[q] + IF right[q] THEN 1 ELSE 0]]

QuickMathStatus(s) == IF s.round < Questions THEN InProgress ELSE ByScore(s.scores)

QuickMathTurn(s) ==
  IF s.round >= Questions THEN Nobody
  ELSE Min({p \in Seats : s.answers[p] = NoAnswer} \cup {3}) % 3

QuickMathDecoded(s) ==
  Decoded(s, /\ s.round \in 0..Questions
             /\ NoAnswer \in Range(s.answers)
             /\ s.round = Questions => Range(s.answers) = {NoAnswer}
             /\ \A p \in Seats :
                  /\ s.correct[p] <= s.round
                  /\ s.scores[p] \in (s.correct[p] * CorrectPoints)
                                       ..(s.correct[p] * (CorrectPoints + QuickBonus)))

-----------------------------------------------------------------------------
(* The games on the table. *)

QuizNew == TriviaNew \cup QuizDuelNew \cup QuickMathNew

QuizChoices(s, p) ==
  CASE s.game = "trivia"    -> TriviaChoices(s, p)
    [] s.game = "quizDuel"  -> QuizDuelChoices(s, p)
    [] s.game = "quickMath" -> QuickMathChoices(s, p)

QuizApply(s, p, c) ==
  CASE s.game = "trivia"    -> TriviaApply(s, p, c)
    [] s.game = "quizDuel"  -> QuizDuelApply(s, p, c)
    [] s.game = "quickMath" -> QuickMathApply(s, p, c)

QuizStatus(s) ==
  CASE s.game = "trivia"    -> TriviaStatus(s)
    [] s.game = "quizDuel"  -> QuizDuelStatus(s)
    [] s.game = "quickMath" -> QuickMathStatus(s)

QuizTurn(s) ==
  CASE s.game = "trivia"    -> TriviaTurn(s)
    [] s.game = "quizDuel"  -> QuizDuelTurn(s)
    [] s.game = "quickMath" -> QuickMathTurn(s)

QuizDecoded(s) ==
  CASE s.game = "trivia"    -> TriviaDecoded(s)
    [] s.game = "quizDuel"  -> QuizDuelDecoded(s)
    [] s.game = "quickMath" -> QuickMathDecoded(s)

=============================================================================
