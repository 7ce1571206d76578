---------------------------- MODULE GameTableProofs ----------------------------
(***************************************************************************)
(* The games, for every board, length and number of players: two acts that *)
(* are open at once lead to one state, whichever comes first, and the      *)
(* score of whoever has finished stands.                                   *)
(*                                                                         *)
(* Neither depends on how play got to where it is.  In any state with the  *)
(* fields of its game (TableShape), what two players write at once goes to *)
(* entries of their own, neither closes what the other has open, and the   *)
(* second of them, whoever that is, ends the round with both.              *)
(***************************************************************************)
EXTENDS GameTable, SequenceTheorems, FiniteSetTheorems, NaturalsInduction, WellFoundedInduction,
        TLAPS

-----------------------------------------------------------------------------
(* The states of the games in which both act. *)

RockShape(s) ==
  /\ DOMAIN s = {"game", "round", "commits", "reveals", "scores", "outcomes"}
  /\ DOMAIN s.commits = Seats /\ DOMAIN s.reveals = Seats

SecretShape(s) ==
  /\ DOMAIN s = {"game", "picks", "revealed", "agreed"}
  /\ DOMAIN s.picks = PromptRounds
  /\ \A r \in PromptRounds : DOMAIN s.picks[r] = Seats

QuizShape(s) ==
  /\ DOMAIN s = {"game", "keys", "round", "picks", "times", "scores"}
  /\ s.round \in Nat
  /\ DOMAIN s.picks = Asked /\ DOMAIN s.times = Asked
  /\ \A r \in Asked : DOMAIN s.picks[r] = Seats /\ DOMAIN s.times[r] = Seats

MathShape(s) ==
  /\ DOMAIN s = {"game", "keys", "round", "answers", "scores", "correct"}
  /\ DOMAIN s.answers = Seats

TapShape(s) ==
  /\ DOMAIN s = {"game", "counts"}
  /\ DOMAIN s.counts = Cells(TapRounds)
  /\ \A r \in Cells(TapRounds) : DOMAIN s.counts[r] = Seats

ReactionShape(s) ==
  /\ DOMAIN s = {"game", "waits", "round", "ready", "greenAt", "taps", "wins", "best", "total",
                 "honest", "falseStarts", "lastWinner", "lastReactions"}
  /\ s.ready \in [RaceSeats -> BOOLEAN] /\ DOMAIN s.taps = RaceSeats

FleetShape(s) ==
  /\ DOMAIN s = {"game", "phase", "commitments", "shots", "pending", "turn", "reveals", "cheated",
                 "ending", "winner"}
  /\ DOMAIN s.commitments = Seats /\ DOMAIN s.reveals = Seats /\ DOMAIN s.cheated = Seats
  /\ s.pending # NoShot => s.pending.shooter \in Seats

\* The hunt is open up to one of its finds, once somebody has finished.
HuntShape(s) ==
  /\ DOMAIN s = {"game", "grid", "submissions", "finishedBy", "openUntil"}
  /\ \E Finds : s.submissions \in Seq(Finds)
  /\ s.finishedBy \in Seq(Seats)
  /\ s.finishedBy # <<>> => s.openUntil \in 0..Len(s.submissions)

-----------------------------------------------------------------------------
(* Writing. *)

\* Two seats.
LEMMA TwoSeats ==
  /\ Seats = {1, 2} /\ Nobody \notin Seats
  /\ \A p, q \in Seats : p # q => q = Rival(p) /\ p = Rival(q) /\ Seats = {p, q}
  /\ \A p \in Seats : Rival(p) \in Seats /\ Rival(p) # p
  BY DEF Seats, Nobody, Rival

\* What two players write into entries of their own may be written in either order.
LEMMA Swapped ==
  ASSUME NEW f, NEW i, NEW j, NEW x, NEW y, i # j
  PROVE  [[f EXCEPT ![i] = x] EXCEPT ![j] = y] = [[f EXCEPT ![j] = y] EXCEPT ![i] = x]
  OBVIOUS

\* The state with another field.
With(s, k, x) == [r \in DOMAIN s |-> IF r = k THEN x ELSE s[r]]

\* A field that is written can be read, the others are as before, and the last write stays.
LEMMA WithField ==
  ASSUME NEW s, NEW k \in DOMAIN s, NEW x
  PROVE  /\ With(s, k, x)[k] = x /\ DOMAIN With(s, k, x) = DOMAIN s
         /\ \A r \in DOMAIN s : r # k => With(s, k, x)[r] = s[r]
         /\ \A y : With(With(s, k, x), k, y) = With(s, k, y)
  BY DEF With

-----------------------------------------------------------------------------

\* Rock paper scissors: two commitments, in either order.
LEMMA RockCommits ==
  ASSUME NEW s, RockShape(s), NEW p \in Seats, NEW q \in Seats, p # q,
         NEW a \in RockPaperScissorsChoices(s, p), NEW b \in RockPaperScissorsChoices(s, q),
         a.type = "commit"
  PROVE  /\ b \in RockPaperScissorsChoices(RockPaperScissorsApply(s, p, a), q)
         /\ RockPaperScissorsApply(RockPaperScissorsApply(s, p, a), q, b)
              = RockPaperScissorsApply(RockPaperScissorsApply(s, q, b), p, a)
<1> DEFINE t == RockPaperScissorsApply(s, p, a)
           u == RockPaperScissorsApply(s, q, b)
<1>1. /\ ~MatchOver(s) /\ s.commits[p] = NoCommitment
      /\ \E h \in Hands : a = [type |-> "commit", hash |-> Commitment(p, s.round, h)]
  BY DEF RockPaperScissorsChoices
<1>2. /\ b.type = "commit"  /\ s.commits[q] = NoCommitment
      /\ \E h \in Hands : b = [type |-> "commit", hash |-> Commitment(q, s.round, h)]
  BY <1>1, TwoSeats DEF RockPaperScissorsChoices
<1>3. t = [s EXCEPT !.commits[p] = a.hash] /\ u = [s EXCEPT !.commits[q] = b.hash]
  BY <1>2 DEF RockPaperScissorsApply
<1>4. b \in RockPaperScissorsChoices(t, q)
  <2>1. t.round = s.round /\ t.scores = s.scores /\ t.commits[q] = NoCommitment
    BY <1>2, <1>3, TwoSeats DEF RockShape
  <2>2. ~MatchOver(t)
    BY <1>1, <2>1 DEF MatchOver
  <2> QED BY <1>2, <2>1, <2>2 DEF RockPaperScissorsChoices
<1>5. /\ RockPaperScissorsApply(t, q, b) = [t EXCEPT !.commits[q] = b.hash]
      /\ RockPaperScissorsApply(u, p, a) = [u EXCEPT !.commits[p] = a.hash]
  BY <1>2 DEF RockPaperScissorsApply
<1>6. [t EXCEPT !.commits[q] = b.hash] = [u EXCEPT !.commits[p] = a.hash]
  <2>1. /\ t = With(s, "commits", [s.commits EXCEPT ![p] = a.hash])
        /\ u = With(s, "commits", [s.commits EXCEPT ![q] = b.hash])
    BY <1>3 DEF With
  <2>2. /\ [t EXCEPT !.commits[q] = b.hash] = With(t, "commits", [t.commits EXCEPT ![q] = b.hash])
        /\ [u EXCEPT !.commits[p] = a.hash] = With(u, "commits", [u.commits EXCEPT ![p] = a.hash])
    BY DEF With
  <2> HIDE DEF t, u
  <2>3. /\ t.commits = [s.commits EXCEPT ![p] = a.hash]
        /\ u.commits = [s.commits EXCEPT ![q] = b.hash]
    BY <1>3 DEF RockShape
  <2>4. [t.commits EXCEPT ![q] = b.hash] = [u.commits EXCEPT ![p] = a.hash]
    BY <2>3
  <2>5. "commits" \in DOMAIN s
    BY DEF RockShape
  <2> QED BY <2>1, <2>2, <2>4, <2>5, WithField
<1> QED BY <1>2, <1>4, <1>5, <1>6

\* Rock paper scissors: two reveals; the second, whoever's it is, scores the round.
LEMMA RockReveals ==
  ASSUME NEW s, RockShape(s), NEW p \in Seats, NEW q \in Seats, p # q,
         NEW a \in RockPaperScissorsChoices(s, p), NEW b \in RockPaperScissorsChoices(s, q),
         a.type # "commit"
  PROVE  /\ b \in RockPaperScissorsChoices(RockPaperScissorsApply(s, p, a), q)
         /\ RockPaperScissorsApply(RockPaperScissorsApply(s, p, a), q, b)
              = RockPaperScissorsApply(RockPaperScissorsApply(s, q, b), p, a)
<1> DEFINE t == [s EXCEPT !.reveals[p] = a.hand]
           u == [s EXCEPT !.reveals[q] = b.hand]
           Shown(v) == LET hands  == <<v.reveals[1], v.reveals[2]>>
                           winner == RoundWinner(hands[1], hands[2])
                       IN  IF 0 \in Range(hands) THEN v
                           ELSE [NextRound(v) EXCEPT
                                   !.scores = [r \in Seats |-> @[r] + IF r = winner THEN 1 ELSE 0],
                                   !.outcomes = Append(@, hands)]
<1>1. /\ ~MatchOver(s) /\ s.commits[q] # NoCommitment /\ s.reveals[p] = 0
      /\ \E h \in Hands : a = [type |-> "reveal", hand |-> h]
  BY TwoSeats DEF RockPaperScissorsChoices
<1>2. /\ b.type # "commit"  /\ s.reveals[q] = 0
      /\ \E h \in Hands : b = [type |-> "reveal", hand |-> h] /\ s.commits[q] = Commitment(q, s.round, h)
      /\ s.commits[p] # NoCommitment
  BY <1>1, TwoSeats DEF RockPaperScissorsChoices
<1>3. /\ RockPaperScissorsApply(s, p, a) = Shown(t)
      /\ RockPaperScissorsApply(s, q, b) = Shown(u)
  BY <1>2 DEF RockPaperScissorsApply
<1>4. /\ RockPaperScissorsApply(t, q, b) = Shown([t EXCEPT !.reveals[q] = b.hand])
      /\ RockPaperScissorsApply(u, p, a) = Shown([u EXCEPT !.reveals[p] = a.hand])
  BY <1>2 DEF RockPaperScissorsApply
<1>5. /\ t.reveals = [s.reveals EXCEPT ![p] = a.hand] /\ u.reveals = [s.reveals EXCEPT ![q] = b.hand]
      /\ t.reveals[q] = 0 /\ u.reveals[p] = 0
  BY <1>1, <1>2 DEF RockShape
<1>6. Shown(t) = t /\ Shown(u) = u
  <2>1. \A v : v.reveals[p] = 0 \/ v.reveals[q] = 0 => Shown(v) = v
    <3> SUFFICES ASSUME NEW v, v.reveals[p] = 0 \/ v.reveals[q] = 0 PROVE 0 \in Range(<<v.reveals[1], v.reveals[2]>>)
      OBVIOUS
    <3> QED BY TwoSeats DEF Range
  <2> HIDE DEF t, u, Shown
  <2> QED BY <1>5, <2>1
<1>7. b \in RockPaperScissorsChoices(t, q)
  <2>1. t.round = s.round /\ t.scores = s.scores /\ t.commits = s.commits /\ t.reveals[q] = s.reveals[q]
    BY <1>2, <1>3, TwoSeats DEF RockShape
  <2>2. ~MatchOver(t)
    BY <1>1, <2>1 DEF MatchOver
  <2> HIDE DEF t
  <2> QED BY <1>2, <2>1, <2>2, TwoSeats DEF RockPaperScissorsChoices
<1>8. [t EXCEPT !.reveals[q] = b.hand] = [u EXCEPT !.reveals[p] = a.hand]
  <2>1. /\ t = With(s, "reveals", [s.reveals EXCEPT ![p] = a.hand])
        /\ u = With(s, "reveals", [s.reveals EXCEPT ![q] = b.hand])
    BY DEF With
  <2>2. /\ [t EXCEPT !.reveals[q] = b.hand] = With(t, "reveals", [t.reveals EXCEPT ![q] = b.hand])
        /\ [u EXCEPT !.reveals[p] = a.hand] = With(u, "reveals", [u.reveals EXCEPT ![p] = a.hand])
    BY DEF With
  <2> HIDE DEF t, u
  <2>4. [t.reveals EXCEPT ![q] = b.hand] = [u.reveals EXCEPT ![p] = a.hand]
    BY <1>5
  <2>5. "reveals" \in DOMAIN s
    BY DEF RockShape
  <2> QED BY <2>1, <2>2, <2>4, <2>5, WithField
<1> HIDE DEF t, u, Shown
<1> QED BY <1>2, <1>3, <1>4, <1>6, <1>7, <1>8

\* A set of numbers has a least element.
LEMMA LeastElement ==
  ASSUME NEW T, T \subseteq Nat, T # {}
  PROVE  \E x \in T : \A y \in T : x <= y
<1> DEFINE R == OpToRel(<, Nat)
<1>1. IsWellFoundedOn(R, Nat)
  BY NatLessThanWellFounded
<1>2. \A x, y \in Nat : x < y => <<x, y>> \in R
  BY DEF OpToRel
<1> HIDE DEF R
<1>3. PICK x \in T : \A y \in T : ~(<<y, x>> \in R)
  BY <1>1, WFMin
<1>4. \A y \in T : x <= y
  <2> TAKE y \in T
  <2>1. x \in Nat /\ y \in Nat /\ ~(y < x)
    BY <1>2, <1>3
  <2> QED BY <2>1
<1> QED BY <1>4

\* Min() of a set of numbers is that element.
LEMMA MinIsLeast ==
  ASSUME NEW T, T \subseteq Nat, T # {}
  PROVE  Min(T) \in T /\ \A y \in T : Min(T) <= y
  BY LeastElement DEF Min

\* The prompt in play is one of them, or there is none left.
LEMMA PromptFacts ==
  ASSUME NEW s
  PROVE  Prompts \in Nat /\ PromptInPlay(s) \in {Prompts} \cup PromptRounds
<1> DEFINE T == {Prompts} \cup {r \in PromptRounds : ~s.revealed[r]}
<1>1. T \subseteq Nat /\ T # {}
  BY ChoiceAssumption DEF PromptRounds, Cells
<1>2. Min(T) \in T
  BY <1>1, MinIsLeast
<1> QED BY <1>2, ChoiceAssumption DEF PromptInPlay

\* Secret choices: two answers to a prompt; the second reveals them.
LEMMA SecretsCommute ==
  ASSUME NEW s, SecretShape(s), NEW p \in Seats, NEW q \in Seats, p # q,
         NEW a \in SecretChoiceChoices(s, p), NEW b \in SecretChoiceChoices(s, q)
  PROVE  /\ b \in SecretChoiceChoices(SecretChoiceApply(s, p, a), q)
         /\ SecretChoiceApply(SecretChoiceApply(s, p, a), q, b)
              = SecretChoiceApply(SecretChoiceApply(s, q, b), p, a)
<1> DEFINE r == PromptInPlay(s)
           t == [s EXCEPT !.picks[r][p] = a[2]]
           u == [s EXCEPT !.picks[r][q] = b[2]]
           Opened(k, v) == IF \E x \in Seats : v.picks[k][x] = Unchosen THEN v
                           ELSE [v EXCEPT !.revealed[k] = TRUE,
                                          !.agreed = @ + IF v.picks[k][1] = v.picks[k][2] THEN 1 ELSE 0]
<1>1. /\ r \in PromptRounds /\ ~(r >= Prompts)
      /\ s.picks[r][p] = Unchosen /\ s.picks[r][q] = Unchosen
      /\ a \in {r} \X {0, 1} /\ b \in {r} \X {0, 1}
  <2>1. ~(r >= Prompts)
    BY DEF SecretChoiceChoices
  <2>2. r \in PromptRounds
    BY <2>1, PromptFacts
  <2> QED BY <2>1, <2>2 DEF SecretChoiceChoices
<1>2. /\ t.picks[r] = [s.picks[r] EXCEPT ![p] = a[2]] /\ t.revealed = s.revealed
      /\ u.picks[r] = [s.picks[r] EXCEPT ![q] = b[2]] /\ u.revealed = s.revealed
      /\ PromptInPlay(t) = r /\ PromptInPlay(u) = r
  BY <1>1 DEF SecretShape, PromptInPlay
<1>3. /\ SecretChoiceApply(s, p, a) = Opened(r, t)
      /\ SecretChoiceApply(s, q, b) = Opened(r, u)
  BY DEF SecretChoiceApply
<1>4. t.picks[r][q] = Unchosen /\ u.picks[r][p] = Unchosen
  BY <1>1, <1>2 DEF SecretShape
<1>5. Opened(r, t) = t /\ Opened(r, u) = u
  <2> HIDE DEF t, u, r
  <2> QED BY <1>4
<1>6. b \in SecretChoiceChoices(t, q)
  <2> HIDE DEF t, u, r
  <2> QED BY <1>1, <1>2, <1>4 DEF SecretChoiceChoices
<1>7. /\ SecretChoiceApply(t, q, b) = Opened(r, [t EXCEPT !.picks[r][q] = b[2]])
      /\ SecretChoiceApply(u, p, a) = Opened(r, [u EXCEPT !.picks[r][p] = a[2]])
  <2>1. /\ SecretChoiceApply(t, q, b)
             = Opened(PromptInPlay(t), [t EXCEPT !.picks[PromptInPlay(t)][q] = b[2]])
        /\ SecretChoiceApply(u, p, a)
             = Opened(PromptInPlay(u), [u EXCEPT !.picks[PromptInPlay(u)][p] = a[2]])
    <3> HIDE DEF t, u, r
    <3> QED BY DEF SecretChoiceApply
  <2> HIDE DEF t, u, r, Opened
  <2> QED BY <1>2, <2>1
<1>8. [t EXCEPT !.picks[r][q] = b[2]] = [u EXCEPT !.picks[r][p] = a[2]]
  <2> DEFINE last == [[s.picks[r] EXCEPT ![p] = a[2]] EXCEPT ![q] = b[2]]
  <2>1. last = [[s.picks[r] EXCEPT ![q] = b[2]] EXCEPT ![p] = a[2]]
    BY Swapped
  <2>2. /\ [t EXCEPT !.picks[r][q] = b[2]] = With(t, "picks", [t.picks EXCEPT ![r] = [t.picks[r] EXCEPT ![q] = b[2]]])
        /\ [u EXCEPT !.picks[r][p] = a[2]] = With(u, "picks", [u.picks EXCEPT ![r] = [u.picks[r] EXCEPT ![p] = a[2]]])
    BY DEF With
  <2>3. /\ t = With(s, "picks", [s.picks EXCEPT ![r] = t.picks[r]])
        /\ u = With(s, "picks", [s.picks EXCEPT ![r] = u.picks[r]])
    BY <1>2 DEF With
  <2>4. /\ t.picks = [s.picks EXCEPT ![r] = t.picks[r]] /\ u.picks = [s.picks EXCEPT ![r] = u.picks[r]]
    BY <1>2 DEF SecretShape
  <2> HIDE DEF t, u, r
  <2>5. [t.picks EXCEPT ![r] = last] = [u.picks EXCEPT ![r] = last]
    BY <2>4
  <2>6. [t.picks[r] EXCEPT ![q] = b[2]] = last /\ [u.picks[r] EXCEPT ![p] = a[2]] = last
    BY <1>2, <2>1
  <2>7. "picks" \in DOMAIN s
    BY DEF SecretShape
  <2> HIDE DEF last
  <2> QED BY <2>2, <2>3, <2>5, <2>6, <2>7, WithField
<1> HIDE DEF t, u, r, Opened
<1> QED BY <1>3, <1>5, <1>6, <1>7, <1>8

\* Quiz duel: two answers to a question; the second is what scores it.
LEMMA QuizzesCommute ==
  ASSUME NEW s, QuizShape(s), NEW p \in Seats, NEW q \in Seats, p # q,
         NEW a \in QuizDuelChoices(s, p), NEW b \in QuizDuelChoices(s, q)
  PROVE  /\ b \in QuizDuelChoices(QuizDuelApply(s, p, a), q)
         /\ QuizDuelApply(QuizDuelApply(s, p, a), q, b) = QuizDuelApply(QuizDuelApply(s, q, b), p, a)
<1> DEFINE r == s.round
           Given(v, x, c) == [v EXCEPT !.picks[r][x] = c.answer[1], !.times[r][x] = c.answer[2]]
           t == Given(s, p, a)
           u == Given(s, q, b)
           Scored(v) == IF Unanswered \in Range(v.picks[r]) THEN v
                        ELSE [v EXCEPT !.scores = [x \in Seats |-> @[x] + DuelPoints(v, r, x)],
                                       !.round = @ + 1]
<1>1. /\ r \in Asked /\ ~(r >= Questions)
      /\ s.picks[r][p] = Unanswered /\ s.picks[r][q] = Unanswered
  BY QuizAssumption DEF QuizDuelChoices, QuizShape, Asked, Cells
<1>2. /\ t.picks = [s.picks EXCEPT ![r] = [s.picks[r] EXCEPT ![p] = a.answer[1]]]
      /\ t.times = [s.times EXCEPT ![r] = [s.times[r] EXCEPT ![p] = a.answer[2]]]
      /\ u.picks = [s.picks EXCEPT ![r] = [s.picks[r] EXCEPT ![q] = b.answer[1]]]
      /\ u.times = [s.times EXCEPT ![r] = [s.times[r] EXCEPT ![q] = b.answer[2]]]
      /\ t.round = r /\ u.round = r
  BY DEF QuizShape
<1>3. /\ t.picks[r] = [s.picks[r] EXCEPT ![p] = a.answer[1]]
      /\ t.times[r] = [s.times[r] EXCEPT ![p] = a.answer[2]]
      /\ u.picks[r] = [s.picks[r] EXCEPT ![q] = b.answer[1]]
      /\ u.times[r] = [s.times[r] EXCEPT ![q] = b.answer[2]]
  <2> HIDE DEF t, u, r
  <2> QED BY <1>1, <1>2 DEF QuizShape
<1>4. /\ t.picks[r][q] = Unanswered /\ u.picks[r][p] = Unanswered
      /\ q \in DOMAIN t.picks[r] /\ p \in DOMAIN u.picks[r]
  <2> HIDE DEF t, u, r
  <2> QED BY <1>1, <1>3 DEF QuizShape
<1>5. Scored(t) = t /\ Scored(u) = u
  <2>1. Unanswered \in Range(t.picks[r]) /\ Unanswered \in Range(u.picks[r])
    <3> HIDE DEF t, u, r
    <3> QED BY <1>4 DEF Range
  <2> HIDE DEF t, u, r
  <2> QED BY <2>1
<1>6. /\ QuizDuelApply(s, p, a) = Scored(t) /\ QuizDuelApply(s, q, b) = Scored(u)
  BY DEF QuizDuelApply
<1>7. \A v, x, c : v.round = r => QuizDuelApply(v, x, c) = Scored(Given(v, x, c))
  <2> SUFFICES ASSUME NEW v, NEW x, NEW c, v.round = r PROVE QuizDuelApply(v, x, c) = Scored(Given(v, x, c))
    OBVIOUS
  <2> HIDE DEF r
  <2> QED BY DEF QuizDuelApply
<1>8. b \in QuizDuelChoices(t, q)
  <2> HIDE DEF t, u
  <2> QED BY <1>1, <1>2, <1>4 DEF QuizDuelChoices
<1>9. Given(t, q, b) = Given(u, p, a)
  <2> DEFINE picks == [[s.picks[r] EXCEPT ![p] = a.answer[1]] EXCEPT ![q] = b.answer[1]]
             times == [[s.times[r] EXCEPT ![p] = a.answer[2]] EXCEPT ![q] = b.answer[2]]
  <2>1. \A v, x, c : Given(v, x, c) =
          With(With(v, "picks", [v.picks EXCEPT ![r] = [v.picks[r] EXCEPT ![x] = c.answer[1]]]),
                       "times", [v.times EXCEPT ![r] = [v.times[r] EXCEPT ![x] = c.answer[2]]])
    <3> SUFFICES ASSUME NEW v, NEW x, NEW c
                 PROVE Given(v, x, c) =
          With(With(v, "picks", [v.picks EXCEPT ![r] = [v.picks[r] EXCEPT ![x] = c.answer[1]]]),
                       "times", [v.times EXCEPT ![r] = [v.times[r] EXCEPT ![x] = c.answer[2]]])
      OBVIOUS
    <3> HIDE DEF r
    <3> QED BY DEF With
  <2>2. /\ [t.picks EXCEPT ![r] = [t.picks[r] EXCEPT ![q] = b.answer[1]]]
             = [u.picks EXCEPT ![r] = [u.picks[r] EXCEPT ![p] = a.answer[1]]]
        /\ [t.times EXCEPT ![r] = [t.times[r] EXCEPT ![q] = b.answer[2]]]
             = [u.times EXCEPT ![r] = [u.times[r] EXCEPT ![p] = a.answer[2]]]
    <3> HIDE DEF t, u, r
    <3> QED BY <1>2, <1>3
  <2>3. \A x, y : With(With(t, "picks", x), "times", y) = With(With(u, "picks", x), "times", y)
    <3>1. DOMAIN t = DOMAIN s /\ DOMAIN u = DOMAIN s
      OBVIOUS
    <3>2. \A f \in DOMAIN s : f # "picks" /\ f # "times" => t[f] = s[f] /\ u[f] = s[f]
      OBVIOUS
    <3> HIDE DEF t, u, r
    <3> QED BY <3>1, <3>2 DEF With
  <2> HIDE DEF t, u, r, Given
  <2> QED BY <2>1, <2>2, <2>3
<1> HIDE DEF t, u, r, Scored, Given
<1> QED BY <1>2, <1>5, <1>6, <1>7, <1>8, <1>9

\* Quick math: two answers to a sum; the second is what scores it.
LEMMA SumsCommute ==
  ASSUME NEW s, MathShape(s), NEW p \in Seats, NEW q \in Seats, p # q,
         NEW a \in QuickMathChoices(s, p), NEW b \in QuickMathChoices(s, q)
  PROVE  /\ b \in QuickMathChoices(QuickMathApply(s, p, a), q)
         /\ QuickMathApply(QuickMathApply(s, p, a), q, b) = QuickMathApply(QuickMathApply(s, q, b), p, a)
<1> DEFINE Given(v, x, c) == [v EXCEPT !.answers[x] = c.answer]
           t == Given(s, p, a)
           u == Given(s, q, b)
           Scored(key, v) ==
             LET right == [x \in Seats |-> v.answers[x][1] = key]
                 ms    == [x \in Seats |-> v.answers[x][2]]
             IN  IF NoAnswer \in Range(v.answers) THEN v
                 ELSE [v EXCEPT
                         !.round   = @ + 1,
                         !.answers = [x \in Seats |-> NoAnswer],
                         !.scores  = [x \in Seats |-> @[x] + RoundPoints(x, right, ms, CorrectPoints, QuickBonus)],
                         !.correct = [x \in Seats |-> @[x] + IF right[x] THEN 1 ELSE 0]]
<1>1. /\ ~(s.round >= Questions) /\ s.answers[p] = NoAnswer /\ s.answers[q] = NoAnswer
      /\ b \in {[round |-> s.round, answer |-> x] : x \in Answers}
  BY DEF QuickMathChoices
<1>2. /\ t.answers = [s.answers EXCEPT ![p] = a.answer] /\ t.round = s.round
      /\ u.answers = [s.answers EXCEPT ![q] = b.answer] /\ u.round = s.round
  BY DEF MathShape
<1>3. /\ t.answers[q] = NoAnswer /\ q \in DOMAIN t.answers
      /\ u.answers[p] = NoAnswer /\ p \in DOMAIN u.answers
  <2> HIDE DEF t, u
  <2> QED BY <1>1, <1>2 DEF MathShape
<1>4. \A key : Scored(key, t) = t /\ Scored(key, u) = u
  <2>1. NoAnswer \in Range(t.answers) /\ NoAnswer \in Range(u.answers)
    <3> HIDE DEF t, u
    <3> QED BY <1>3 DEF Range
  <2> HIDE DEF t, u
  <2> QED BY <2>1
<1>5. \A v, x, c : QuickMathApply(v, x, c) = Scored(v.keys[v.round], Given(v, x, c))
  BY DEF QuickMathApply
<1>6. t.keys = s.keys /\ u.keys = s.keys
  BY DEF MathShape
<1>7. b \in QuickMathChoices(t, q)
  <2> HIDE DEF t, u
  <2> QED BY <1>1, <1>2, <1>3 DEF QuickMathChoices
<1>8. Given(t, q, b) = Given(u, p, a)
  <2>1. [t.answers EXCEPT ![q] = b.answer] = [u.answers EXCEPT ![p] = a.answer]
    <3> HIDE DEF t, u
    <3> QED BY <1>2
  <2>2. \A v, x, c : Given(v, x, c) = With(v, "answers", [v.answers EXCEPT ![x] = c.answer])
    BY DEF With
  <2>3. /\ t = With(s, "answers", [s.answers EXCEPT ![p] = a.answer])
        /\ u = With(s, "answers", [s.answers EXCEPT ![q] = b.answer])
    BY DEF With
  <2>4. "answers" \in DOMAIN s
    BY DEF MathShape
  <2>5. /\ Given(t, q, b) = With(t, "answers", [t.answers EXCEPT ![q] = b.answer])
        /\ Given(u, p, a) = With(u, "answers", [u.answers EXCEPT ![p] = a.answer])
    BY <2>2
  <2> HIDE DEF t, u, Given
  <2> QED BY <2>1, <2>3, <2>4, <2>5, WithField
<1>9. /\ QuickMathApply(s, p, a) = t /\ QuickMathApply(s, q, b) = u
      /\ QuickMathApply(t, q, b) = Scored(s.keys[s.round], Given(t, q, b))
      /\ QuickMathApply(u, p, a) = Scored(s.keys[s.round], Given(u, p, a))
  <2>1. /\ QuickMathApply(s, p, a) = Scored(s.keys[s.round], t)
        /\ QuickMathApply(s, q, b) = Scored(s.keys[s.round], u)
        /\ QuickMathApply(t, q, b) = Scored(t.keys[t.round], Given(t, q, b))
        /\ QuickMathApply(u, p, a) = Scored(u.keys[u.round], Given(u, p, a))
    BY <1>5
  <2> HIDE DEF t, u, Scored, Given
  <2> QED BY <1>2, <1>4, <1>6, <2>1
<1> HIDE DEF t, u, Scored, Given
<1> QED BY <1>7, <1>8, <1>9

\* Tap race: the counts of a round go to entries of their own.
LEMMA TapsCommute ==
  ASSUME NEW s, TapShape(s), NEW p \in Seats, NEW q \in Seats, p # q,
         NEW a \in TapRaceChoices(s, p), NEW b \in TapRaceChoices(s, q)
  PROVE  /\ b \in TapRaceChoices(TapRaceApply(s, p, a), q)
         /\ TapRaceApply(TapRaceApply(s, p, a), q, b) = TapRaceApply(TapRaceApply(s, q, b), p, a)
<1> DEFINE r == TapRound(s)
           t == TapRaceApply(s, p, a)
           u == TapRaceApply(s, q, b)
<1>1. /\ ~TapRaceOver(s) /\ a.round = r /\ b.round = r
      /\ s.counts[r][p] = NotReported /\ s.counts[r][q] = NotReported
      /\ b \in {[round |-> r, count |-> n] : n \in 0..MaxTaps}
  BY DEF TapRaceChoices
<1>2. r \in Cells(TapRounds)
  <2> DEFINE T == {TapRounds} \cup {x \in Cells(TapRounds) : ~Reported(s, x)}
  <2>1. T \subseteq Nat /\ T # {} /\ TapRounds \in Nat
    BY RaceAssumption DEF Cells
  <2>2. Min(T) \in T
    BY <2>1, MinIsLeast
  <2>3. ~(r >= TapRounds)
    BY <1>1 DEF TapRaceOver
  <2> QED BY <2>1, <2>2, <2>3 DEF TapRound
<1>3. /\ t.counts = [s.counts EXCEPT ![r] = [s.counts[r] EXCEPT ![p] = a.count]]
      /\ u.counts = [s.counts EXCEPT ![r] = [s.counts[r] EXCEPT ![q] = b.count]]
  BY <1>1 DEF TapRaceApply, TapShape
<1>4. /\ t.counts[r] = [s.counts[r] EXCEPT ![p] = a.count]
      /\ u.counts[r] = [s.counts[r] EXCEPT ![q] = b.count]
      /\ t.counts[r][q] = NotReported
      /\ \A x \in Cells(TapRounds) : x # r => t.counts[x] = s.counts[x]
  <2> HIDE DEF t, u, r
  <2> QED BY <1>1, <1>2, <1>3 DEF TapShape
<1>5. \A x \in Cells(TapRounds) : Reported(t, x) <=> Reported(s, x)
  <2>1. ~Reported(s, r) /\ ~Reported(t, r)
    <3> HIDE DEF t, u, r
    <3> QED BY <1>1, <1>2, <1>4 DEF Reported, Range, TapShape
  <2> HIDE DEF t, u, r
  <2> QED BY <1>4, <2>1 DEF Reported
<1>6. TapRound(t) = r
  <2> HIDE DEF t
  <2> QED BY <1>5 DEF TapRound
<1>7. \A x \in Seats : RoundsWon(t, x) = RoundsWon(s, x)
  <2> TAKE x \in Seats
  <2>1. \A k \in Cells(TapRounds) : Reported(t, k) /\ t.counts[k][x] > t.counts[k][Rival(x)]
                                <=> Reported(s, k) /\ s.counts[k][x] > s.counts[k][Rival(x)]
    <3>1. ~Reported(s, r)
      <4> HIDE DEF r
      <4> QED BY <1>1, <1>2 DEF Reported, Range, TapShape
    <3> HIDE DEF t, u, r
    <3> QED BY <1>4, <1>5, <3>1
  <2> HIDE DEF t
  <2> QED BY <2>1 DEF RoundsWon
<1>8. b \in TapRaceChoices(t, q)
  <2>1. ~TapRaceOver(t)
    <3> HIDE DEF t
    <3> QED BY <1>1, <1>6, <1>7 DEF TapRaceOver
  <2> HIDE DEF t, r
  <2> QED BY <1>1, <1>4, <1>6, <2>1 DEF TapRaceChoices
<1>9. TapRaceApply(t, q, b) = TapRaceApply(u, p, a)
  <2>1. [t.counts EXCEPT ![r] = [t.counts[r] EXCEPT ![q] = b.count]]
          = [u.counts EXCEPT ![r] = [u.counts[r] EXCEPT ![p] = a.count]]
    <3> HIDE DEF t, u, r
    <3> QED BY <1>3, <1>4
  <2>2. \A v, x, c : TapRaceApply(v, x, c)
          = With(v, "counts", [v.counts EXCEPT ![c.round] = [v.counts[c.round] EXCEPT ![x] = c.count]])
    BY DEF TapRaceApply, With
  <2>3. "counts" \in DOMAIN s
    BY DEF TapShape
  <2>4. TapRaceApply(t, q, b) = With(t, "counts", [t.counts EXCEPT ![r] = [t.counts[r] EXCEPT ![q] = b.count]])
    <3> HIDE DEF t, u, r
    <3> QED BY <1>1, <2>2
  <2>5. TapRaceApply(u, p, a) = With(u, "counts", [u.counts EXCEPT ![r] = [u.counts[r] EXCEPT ![p] = a.count]])
    <3> HIDE DEF t, u, r
    <3> QED BY <1>1, <2>2
  <2>6. /\ t = With(s, "counts", t.counts) /\ u = With(s, "counts", u.counts)
    <3> HIDE DEF r
    <3>1. /\ t = With(s, "counts", [s.counts EXCEPT ![r] = [s.counts[r] EXCEPT ![p] = a.count]])
          /\ u = With(s, "counts", [s.counts EXCEPT ![r] = [s.counts[r] EXCEPT ![q] = b.count]])
      BY <1>1, <2>2
    <3> HIDE DEF t, u
    <3> QED BY <1>3, <3>1
  <2> HIDE DEF t, u, r
  <2> QED BY <2>1, <2>3, <2>4, <2>5, <2>6, WithField
<1> QED BY <1>8, <1>9

\* Reaction: two players arm; the light is set when all have.
LEMMA ReadiesCommute ==
  ASSUME NEW s, ReactionShape(s), NEW p \in RaceSeats, NEW q \in RaceSeats, p # q,
         NEW a \in ReactionChoices(s, p), NEW b \in ReactionChoices(s, q),
         s.greenAt = 0
  PROVE  /\ b \in ReactionChoices(ReactionApply(s, p, a), q)
         /\ ReactionApply(ReactionApply(s, p, a), q, b) = ReactionApply(ReactionApply(s, q, b), p, a)
<1> DEFINE Green(v, ready) == IF FALSE \in Range(ready) THEN 0 ELSE v.waits[v.round]
           Armed(v, x) == [v EXCEPT !.ready = [v.ready EXCEPT ![x] = TRUE],
                                    !.greenAt = Green(v, [v.ready EXCEPT ![x] = TRUE])]
           t == Armed(s, p)
           u == Armed(s, q)
<1>1. /\ ~ReactionOver(s) /\ ~s.ready[p] /\ ~s.ready[q]
      /\ a = [type |-> "ready"] /\ b = [type |-> "ready"]
  BY DEF ReactionChoices
<1>2. \A v, x, c : c.type = "ready" => ReactionApply(v, x, c) = Armed(v, x)
  BY DEF ReactionApply
<1>3. /\ FALSE \in Range([s.ready EXCEPT ![p] = TRUE]) /\ FALSE \in Range([s.ready EXCEPT ![q] = TRUE])
  BY <1>1 DEF ReactionShape, Range
<1>4. /\ t.ready = [s.ready EXCEPT ![p] = TRUE] /\ t.greenAt = 0
      /\ u.ready = [s.ready EXCEPT ![q] = TRUE] /\ u.greenAt = 0
      /\ DOMAIN t = DOMAIN s /\ DOMAIN u = DOMAIN s
      /\ \A f \in DOMAIN s : f # "ready" /\ f # "greenAt" => t[f] = s[f] /\ u[f] = s[f]
  <2>1. Green(s, [s.ready EXCEPT ![p] = TRUE]) = 0 /\ Green(s, [s.ready EXCEPT ![q] = TRUE]) = 0
    BY <1>3
  <2> HIDE DEF Green
  <2> QED BY <2>1 DEF ReactionShape
<1>5. b \in ReactionChoices(t, q)
  <2>1. t.round = s.round /\ t.wins = s.wins /\ ~t.ready[q]
    BY <1>1, <1>4 DEF ReactionShape
  <2> HIDE DEF t
  <2> QED BY <1>1, <1>4, <2>1 DEF ReactionChoices, ReactionOver
<1>6. Armed(t, q) = Armed(u, p)
  <2>1. [t.ready EXCEPT ![q] = TRUE] = [u.ready EXCEPT ![p] = TRUE]
    <3> HIDE DEF t, u
    <3> QED BY <1>4
  <2>2. t.waits = s.waits /\ u.waits = s.waits /\ t.round = s.round /\ u.round = s.round
    BY <1>4 DEF ReactionShape
  <2>3. \A v, x : Armed(v, x) =
          With(With(v, "ready", [v.ready EXCEPT ![x] = TRUE]), "greenAt", Green(v, [v.ready EXCEPT ![x] = TRUE]))
    <3> HIDE DEF Green
    <3> QED BY DEF With
  <2>4. \A y, z : With(With(t, "ready", y), "greenAt", z) = With(With(u, "ready", y), "greenAt", z)
    <3> HIDE DEF t, u
    <3> QED BY <1>4 DEF With
  <2>5. /\ Armed(t, q) = With(With(t, "ready", [t.ready EXCEPT ![q] = TRUE]), "greenAt", Green(t, [t.ready EXCEPT ![q] = TRUE]))
        /\ Armed(u, p) = With(With(u, "ready", [u.ready EXCEPT ![p] = TRUE]), "greenAt", Green(u, [u.ready EXCEPT ![p] = TRUE]))
    <3> HIDE DEF t, u, Armed, Green
    <3> QED BY <2>3
  <2>6. \A y : Green(t, y) = Green(u, y)
    <3> HIDE DEF t, u
    <3> QED BY <2>2
  <2> HIDE DEF t, u, Armed, Green
  <2> QED BY <2>1, <2>4, <2>5, <2>6
<1>7. /\ ReactionApply(s, p, a) = t /\ ReactionApply(s, q, b) = u
      /\ ReactionApply(t, q, b) = Armed(t, q) /\ ReactionApply(u, p, a) = Armed(u, p)
  <2> HIDE DEF Armed
  <2> QED BY <1>1, <1>2
<1> HIDE DEF t, u, Armed
<1> QED BY <1>5, <1>6, <1>7

\* A round that is over, with what it leaves in each field.
Closed(v, round, ready, green, taps, wins, honest, total, best, falseStarts, winner, reactions) ==
  [v EXCEPT !.round = round, !.ready = ready, !.greenAt = green, !.taps = taps, !.wins = wins,
            !.honest = honest, !.total = total, !.best = best, !.falseStarts = falseStarts,
            !.lastWinner = winner, !.lastReactions = reactions]

\* Nothing but the taps of a round that is over is read from them.
LEMMA ResolvedAlike ==
  ASSUME NEW s, ReactionShape(s), NEW x, NEW y, NEW taps, NEW w
  PROVE  RaceResolved([s EXCEPT !.taps = x], taps, w) = RaceResolved([s EXCEPT !.taps = y], taps, w)
<1> DEFINE t == [s EXCEPT !.taps = x]
           u == [s EXCEPT !.taps = y]
           React(g) == [r \in RaceSeats |->
             IF taps[r] = NotTapped \/ IsFalseStart(g, taps[r]) THEN NoTime ELSE taps[r] - g]
           First(g) == IF w # Nobody THEN w ELSE Fastest(React(g))
           Timed(g, r) == React(g)[r] # NoTime
           Wins(ws, g) == [r \in RaceSeats |-> ws[r] + IF r = First(g) THEN 1 ELSE 0]
           Times(hs, g) == [r \in RaceSeats |-> hs[r] + IF Timed(g, r) THEN 1 ELSE 0]
           Totals(ts, g) == [r \in RaceSeats |-> ts[r] + IF Timed(g, r) THEN React(g)[r] ELSE 0]
           Bests(bs, g) == [r \in RaceSeats |-> IF ~Timed(g, r) THEN bs[r]
                                                ELSE IF bs[r] = NoTime THEN React(g)[r]
                                                ELSE Min({bs[r], React(g)[r]})]
           Falses(fs, g) == [r \in RaceSeats |->
                               fs[r] + IF ~Timed(g, r) /\ taps[r] # NotTapped THEN 1 ELSE 0]
           After(v, o) ==
             Closed(v, o.round + 1, ForAll(FALSE), 0, ForAll(NotTapped), Wins(o.wins, o.greenAt),
                    Times(o.honest, o.greenAt), Totals(o.total, o.greenAt), Bests(o.best, o.greenAt),
                    Falses(o.falseStarts, o.greenAt), First(o.greenAt), React(o.greenAt))
<1>1. \A v : RaceResolved(v, taps, w) = After(v, v)
  BY DEF RaceResolved, Closed
<1>2. /\ t.round = s.round /\ t.greenAt = s.greenAt /\ t.wins = s.wins /\ t.honest = s.honest
      /\ t.total = s.total /\ t.best = s.best /\ t.falseStarts = s.falseStarts
      /\ u.round = s.round /\ u.greenAt = s.greenAt /\ u.wins = s.wins /\ u.honest = s.honest
      /\ u.total = s.total /\ u.best = s.best /\ u.falseStarts = s.falseStarts
  BY DEF ReactionShape
<1>3. After(t, t) = After(t, s) /\ After(u, u) = After(u, s)
  <2> HIDE DEF t, u, React, First, Wins, Times, Totals, Bests, Falses
  <2> QED BY <1>2
<1>4. After(t, s) = After(u, s)
  <2>1. ASSUME NEW r1, NEW r2, NEW r3, NEW r4, NEW r5, NEW r6, NEW r7, NEW r8, NEW r9, NEW r10, NEW r11
        PROVE  Closed(t, r1, r2, r3, r4, r5, r6, r7, r8, r9, r10, r11)
                 = Closed(u, r1, r2, r3, r4, r5, r6, r7, r8, r9, r10, r11)
    BY DEF Closed
  <2> HIDE DEF t, u, React, First, Wins, Times, Totals, Bests, Falses
  <2> QED BY <2>1
<1>5. RaceResolved(t, taps, w) = After(t, t) /\ RaceResolved(u, taps, w) = After(u, u)
  <2> HIDE DEF t, u, After
  <2> QED BY <1>1
<1>6. RaceResolved(t, taps, w) = RaceResolved(u, taps, w)
  <2> HIDE DEF t, u, After
  <2> QED BY <1>3, <1>4, <1>5
<1> QED BY <1>6

\* Reaction: two honest taps, of which the second may end the round.
LEMMA TimedTapsCommute ==
  ASSUME NEW s, ReactionShape(s), NEW p \in RaceSeats, NEW q \in RaceSeats, p # q,
         NEW a \in ReactionChoices(s, p), NEW b \in ReactionChoices(s, q),
         s.greenAt # 0, Honest(s, a), Honest(s, b), s.game = "reaction"
  PROVE  /\ b \in ReactionChoices(ReactionApply(s, p, a), q)
         /\ ReactionApply(ReactionApply(s, p, a), q, b) = ReactionApply(ReactionApply(s, q, b), p, a)
<1> DEFINE Pending(taps) == {r \in RaceSeats : taps[r] = NotTapped}
           HonestOf(g, taps) == {r \in RaceSeats \ Pending(taps) : ~IsFalseStart(g, taps[r])}
           LastOf(taps) == IF Pending(taps) = {} THEN Nobody ELSE CHOOSE r \in Pending(taps) : TRUE
           After(v, taps, g) == IF IsAwaited(Pending(taps), HonestOf(g, taps)) THEN [v EXCEPT !.taps = taps]
                             ELSE RaceResolved(v, taps, LastOf(taps))
           x == [s.taps EXCEPT ![p] = a.at]
           y == [s.taps EXCEPT ![q] = b.at]
           z == [x EXCEPT ![q] = b.at]
           t == [s EXCEPT !.taps = x]
           u == [s EXCEPT !.taps = y]
<1>1. /\ ~ReactionOver(s) /\ s.taps[p] = NotTapped /\ s.taps[q] = NotTapped
      /\ a \in {[type |-> "tap", at |-> i] : i \in 0..MaxTapMs}
      /\ b \in {[type |-> "tap", at |-> i] : i \in 0..MaxTapMs}
  BY DEF ReactionChoices
<1>2. /\ a.type = "tap" /\ b.type = "tap" /\ a.at # NotTapped /\ b.at # NotTapped
      /\ ~IsFalseStart(s.greenAt, a.at) /\ ~IsFalseStart(s.greenAt, b.at)
  BY <1>1 DEF Honest, NotTapped
<1>3. \A v, r, c : c.type = "tap" => ReactionApply(v, r, c) = After(v, [v.taps EXCEPT ![r] = c.at], v.greenAt)
  BY DEF ReactionApply
<1>4. IsAwaited(Pending(x), HonestOf(s.greenAt, x)) /\ IsAwaited(Pending(y), HonestOf(s.greenAt, y))
  <2>1. q \in Pending(x) /\ p \in HonestOf(s.greenAt, x)
    BY <1>1, <1>2 DEF ReactionShape
  <2>2. p \in Pending(y) /\ q \in HonestOf(s.greenAt, y)
    BY <1>1, <1>2 DEF ReactionShape
  <2> HIDE DEF Pending, HonestOf
  <2> QED BY <2>1, <2>2 DEF IsAwaited
<1>5. /\ t.taps = x /\ t.greenAt = s.greenAt /\ t.round = s.round /\ t.wins = s.wins
      /\ u.taps = y /\ u.greenAt = s.greenAt
  BY DEF ReactionShape
<1>6. b \in ReactionChoices(t, q)
  <2>1. t.taps[q] = NotTapped
    BY <1>1, <1>5
  <2> HIDE DEF t
  <2> QED BY <1>1, <1>5, <2>1 DEF ReactionChoices, ReactionOver
<1>7. [t.taps EXCEPT ![q] = b.at] = z /\ [u.taps EXCEPT ![p] = a.at] = z
  BY <1>5, Swapped
<1>8. After(t, z, s.greenAt) = After(u, z, s.greenAt)
  <2>1. RaceResolved(t, z, LastOf(z)) = RaceResolved(u, z, LastOf(z))
    <3> HIDE DEF x, y, z, LastOf
    <3> QED BY ResolvedAlike
  <2>2. [t EXCEPT !.taps = z] = [u EXCEPT !.taps = z]
    <3> HIDE DEF x, y, z
    <3> QED OBVIOUS
  <2> HIDE DEF t, u, z, LastOf, Pending, HonestOf
  <2> QED BY <2>1, <2>2
<1>9. /\ ReactionApply(s, p, a) = After(s, x, s.greenAt) /\ ReactionApply(s, q, b) = After(s, y, s.greenAt)
      /\ ReactionApply(t, q, b) = After(t, z, s.greenAt) /\ ReactionApply(u, p, a) = After(u, z, s.greenAt)
  <2>1. /\ ReactionApply(t, q, b) = After(t, [t.taps EXCEPT ![q] = b.at], t.greenAt)
        /\ ReactionApply(u, p, a) = After(u, [u.taps EXCEPT ![p] = a.at], u.greenAt)
        /\ ReactionApply(s, p, a) = After(s, x, s.greenAt)
        /\ ReactionApply(s, q, b) = After(s, y, s.greenAt)
    <3> HIDE DEF t, u, After
    <3> QED BY <1>2, <1>3
  <2> HIDE DEF t, u, z, After
  <2> QED BY <1>5, <1>7, <2>1
<1>10. After(s, x, s.greenAt) = t /\ After(s, y, s.greenAt) = u
  <2> HIDE DEF Pending, HonestOf, LastOf
  <2> QED BY <1>4
<1> HIDE DEF t, u, x, y, z, After
<1> QED BY <1>6, <1>8, <1>9, <1>10

\* Battleship: two commitments to a fleet; the second opens fire.
LEMMA PlacementsCommute ==
  ASSUME NEW s, FleetShape(s), NEW p \in Seats, NEW q \in Seats, p # q,
         NEW a \in BattleshipChoices(s, p), NEW b \in BattleshipChoices(s, q),
         s.phase = "placement"
  PROVE  /\ b \in BattleshipChoices(BattleshipApply(s, p, a), q)
         /\ BattleshipApply(BattleshipApply(s, p, a), q, b) = BattleshipApply(BattleshipApply(s, q, b), p, a)
<1> DEFINE Phase(v, fleets) == IF NoFleet \in Range(fleets) THEN v.phase ELSE "firing"
           After(v, fleets) == [v EXCEPT !.commitments = fleets, !.phase = Phase(v, fleets)]
           x == [s.commitments EXCEPT ![p] = a.fleet]
           y == [s.commitments EXCEPT ![q] = b.fleet]
           z == [x EXCEPT ![q] = b.fleet]
           t == After(s, x)
           u == After(s, y)
<1>1. /\ s.commitments[p] = NoFleet /\ s.commitments[q] = NoFleet
      /\ a \in {[type |-> "place", fleet |-> f] : f \in FleetsOf(p)}
      /\ b \in {[type |-> "place", fleet |-> f] : f \in FleetsOf(q)}
  BY DEF BattleshipChoices
<1>2. \A v, r, c : c.type = "place" => BattleshipApply(v, r, c) = After(v, [v.commitments EXCEPT ![r] = c.fleet])
  BY DEF BattleshipApply
<1>3. NoFleet \in Range(x) /\ NoFleet \in Range(y)
  BY <1>1 DEF Range, FleetShape
<1>4. /\ t.commitments = x /\ u.commitments = y /\ t.phase = s.phase /\ u.phase = s.phase
      /\ DOMAIN t = DOMAIN s /\ DOMAIN u = DOMAIN s
      /\ \A f \in DOMAIN s : f # "commitments" /\ f # "phase" => t[f] = s[f] /\ u[f] = s[f]
  <2>1. Phase(s, x) = s.phase /\ Phase(s, y) = s.phase
    <3> HIDE DEF x, y
    <3> QED BY <1>3
  <2> HIDE DEF x, y, Phase
  <2> QED BY <2>1 DEF FleetShape
<1>5. b \in BattleshipChoices(t, q)
  <2>1. t.commitments[q] = NoFleet
    <3> HIDE DEF t
    <3> QED BY <1>1, <1>4
  <2> HIDE DEF t
  <2> QED BY <1>1, <1>4, <2>1 DEF BattleshipChoices
<1>6. [t.commitments EXCEPT ![q] = b.fleet] = z /\ [u.commitments EXCEPT ![p] = a.fleet] = z
  <2> HIDE DEF t, u
  <2> QED BY <1>4, Swapped
<1>7. After(t, z) = After(u, z)
  <2>1. Phase(t, z) = Phase(u, z)
    <3> HIDE DEF t, u, z
    <3> QED BY <1>4
  <2>2. \A v : After(v, z) = With(With(v, "commitments", z), "phase", Phase(v, z))
    <3> HIDE DEF Phase, z
    <3> QED BY DEF With
  <2>3. \A c, d : With(With(t, "commitments", c), "phase", d) = With(With(u, "commitments", c), "phase", d)
    <3> HIDE DEF t, u
    <3> QED BY <1>4 DEF With
  <2> HIDE DEF t, u, z, After, Phase
  <2> QED BY <2>1, <2>2, <2>3
<1>8. /\ BattleshipApply(s, p, a) = t /\ BattleshipApply(s, q, b) = u
      /\ BattleshipApply(t, q, b) = After(t, z) /\ BattleshipApply(u, p, a) = After(u, z)
  <2>1. a.type = "place" /\ b.type = "place"
    BY <1>1
  <2> HIDE DEF After
  <2> QED BY <1>2, <1>6, <2>1
<1> HIDE DEF t, u, After
<1> QED BY <1>5, <1>7, <1>8

\* Battleship: two fleets revealed; the second settles the game.
LEMMA RevealsCommute ==
  ASSUME NEW s, FleetShape(s), NEW p \in Seats, NEW q \in Seats, p # q,
         NEW a \in BattleshipChoices(s, p), NEW b \in BattleshipChoices(s, q),
         s.phase = "reveal"
  PROVE  /\ b \in BattleshipChoices(BattleshipApply(s, p, a), q)
         /\ BattleshipApply(BattleshipApply(s, p, a), q, b) = BattleshipApply(BattleshipApply(s, q, b), p, a)
<1> DEFINE Lied(v, r, f) == ~RevealIsHonest(v.commitments[r], f, v.shots[r])
           Shown(v, r, f) == [v EXCEPT !.reveals[r] = f, !.cheated[r] = Lied(v, r, f)]
           After(v) == IF NoFleet \in Range(v.reveals) THEN v ELSE Settled(v)
           t == Shown(s, p, a.fleet)
           u == Shown(s, q, b.fleet)
<1>1. /\ s.reveals[p] = NoFleet /\ s.reveals[q] = NoFleet
      /\ a.type = "reveal"
      /\ b \in {[type |-> "reveal", fleet |-> f] :
                  f \in {f \in Layouts : q \notin Liars => f = s.commitments[q]}}
  BY DEF BattleshipChoices
<1>2. \A v, r, c : c.type = "reveal" => BattleshipApply(v, r, c) = After(Shown(v, r, c.fleet))
  BY DEF BattleshipApply
<1>3. /\ t.reveals = [s.reveals EXCEPT ![p] = a.fleet]
      /\ t.cheated = [s.cheated EXCEPT ![p] = Lied(s, p, a.fleet)]
      /\ u.reveals = [s.reveals EXCEPT ![q] = b.fleet]
      /\ u.cheated = [s.cheated EXCEPT ![q] = Lied(s, q, b.fleet)]
      /\ t.phase = s.phase /\ t.commitments = s.commitments /\ t.shots = s.shots
      /\ u.commitments = s.commitments /\ u.shots = s.shots
      /\ DOMAIN t = DOMAIN s /\ DOMAIN u = DOMAIN s
      /\ \A f \in DOMAIN s : f # "reveals" /\ f # "cheated" => t[f] = s[f] /\ u[f] = s[f]
  <2> HIDE DEF Lied
  <2> QED BY DEF FleetShape
<1>4. t.reveals[q] = NoFleet /\ u.reveals[p] = NoFleet
  <2> HIDE DEF t, u
  <2> QED BY <1>1, <1>3
<1>5. After(t) = t /\ After(u) = u
  <2>1. DOMAIN t.reveals = Seats /\ DOMAIN u.reveals = Seats
    <3> HIDE DEF t, u
    <3> QED BY <1>3 DEF FleetShape
  <2> HIDE DEF t, u
  <2> QED BY <1>4, <2>1 DEF Range
<1>6. b \in BattleshipChoices(t, q)
  <2> HIDE DEF t, u
  <2> QED BY <1>1, <1>3, <1>4 DEF BattleshipChoices
<1>7. Shown(t, q, b.fleet) = Shown(u, p, a.fleet)
  <2>1. /\ Lied(t, q, b.fleet) = Lied(s, q, b.fleet) /\ Lied(u, p, a.fleet) = Lied(s, p, a.fleet)
    <3> HIDE DEF t, u
    <3> QED BY <1>3
  <2>2. \A v, r, f : Shown(v, r, f) = With(With(v, "reveals", [v.reveals EXCEPT ![r] = f]),
                                         "cheated", [v.cheated EXCEPT ![r] = Lied(v, r, f)])
    <3> HIDE DEF Lied
    <3> QED BY DEF With
  <2>3. \A c, d : With(With(t, "reveals", c), "cheated", d) = With(With(u, "reveals", c), "cheated", d)
    <3> HIDE DEF t, u
    <3> QED BY <1>3 DEF With
  <2>4. [t.reveals EXCEPT ![q] = b.fleet] = [u.reveals EXCEPT ![p] = a.fleet]
    <3> HIDE DEF t, u
    <3> QED BY <1>3
  <2>5. [t.cheated EXCEPT ![q] = Lied(t, q, b.fleet)] = [u.cheated EXCEPT ![p] = Lied(u, p, a.fleet)]
    <3> HIDE DEF t, u, Lied
    <3> QED BY <1>3, <2>1
  <2>6. /\ Shown(t, q, b.fleet) = With(With(t, "reveals", [t.reveals EXCEPT ![q] = b.fleet]),
                                         "cheated", [t.cheated EXCEPT ![q] = Lied(t, q, b.fleet)])
        /\ Shown(u, p, a.fleet) = With(With(u, "reveals", [u.reveals EXCEPT ![p] = a.fleet]),
                                         "cheated", [u.cheated EXCEPT ![p] = Lied(u, p, a.fleet)])
    <3> HIDE DEF t, u, Lied, Shown
    <3> QED BY <2>2
  <2> HIDE DEF t, u, Shown, Lied
  <2> QED BY <2>3, <2>4, <2>5, <2>6
<1>8. /\ BattleshipApply(s, p, a) = After(t) /\ BattleshipApply(s, q, b) = After(u)
      /\ BattleshipApply(t, q, b) = After(Shown(t, q, b.fleet))
      /\ BattleshipApply(u, p, a) = After(Shown(u, p, a.fleet))
  <2>1. b.type = "reveal"
    BY <1>1
  <2> HIDE DEF After, Shown
  <2> QED BY <1>1, <1>2, <2>1
<1> HIDE DEF t, u, After, Shown
<1> QED BY <1>5, <1>6, <1>7, <1>8

\* Shots and reports are the turn of one of them.
LEMMA FleetsCommute ==
  ASSUME NEW s, FleetShape(s), NEW p \in Seats, NEW q \in Seats, p # q,
         NEW a \in BattleshipChoices(s, p), NEW b \in BattleshipChoices(s, q)
  PROVE  /\ b \in BattleshipChoices(BattleshipApply(s, p, a), q)
         /\ BattleshipApply(BattleshipApply(s, p, a), q, b) = BattleshipApply(BattleshipApply(s, q, b), p, a)
<1>1. ~(s.phase = "firing" /\ s.pending = NoShot)
  BY DEF BattleshipChoices
<1>2. ~(s.phase = "firing" /\ s.pending # NoShot)
  BY TwoSeats DEF BattleshipChoices, FleetShape
<1>3. s.phase = "placement" \/ s.phase = "reveal"
  BY <1>1, <1>2 DEF BattleshipChoices
<1> QED BY <1>3, PlacementsCommute, RevealsCommute

-----------------------------------------------------------------------------
(* Every game keeps its shape. *)

TurnBased == {"ticTacToe", "connectFour", "gomoku", "reversi", "dotsAndBoxes", "slidingPuzzle",
              "memoryDuel", "codeBreaker", "trivia", "wordChain", "drawAndGuess", "darts", "chess"}

TableShape(s) ==
  /\ "game" \in DOMAIN s
  /\ s.game \in TurnBased \cup Simultaneous \cup {"wordDuel"}
  /\ s.game = "rockPaperScissors" => RockShape(s)
  /\ s.game = "secretChoice"      => SecretShape(s)
  /\ s.game = "quizDuel"          => QuizShape(s)
  /\ s.game = "quickMath"         => MathShape(s)
  /\ s.game = "tapRace"           => TapShape(s)
  /\ s.game = "reaction"          => ReactionShape(s)
  /\ s.game = "battleship"        => FleetShape(s)
  /\ s.game = "wordDuel"          => HuntShape(s)

\* Rock paper scissors keeps its shape.
LEMMA RockKeeps ==
  ASSUME NEW s, RockShape(s), NEW p \in Seats, NEW a \in RockPaperScissorsChoices(s, p)
  PROVE  RockShape(RockPaperScissorsApply(s, p, a)) /\ RockPaperScissorsApply(s, p, a).game = s.game
  BY DEF RockPaperScissorsApply, RockShape, NextRound

\* Secret choices keep their shape.
LEMMA SecretKeeps ==
  ASSUME NEW s, SecretShape(s), NEW p \in Seats, NEW a \in SecretChoiceChoices(s, p)
  PROVE  SecretShape(SecretChoiceApply(s, p, a)) /\ SecretChoiceApply(s, p, a).game = s.game
  BY DEF SecretChoiceApply, SecretShape

\* The quiz duel keeps its shape.
LEMMA QuizKeeps ==
  ASSUME NEW s, QuizShape(s), NEW p \in Seats, NEW a \in QuizDuelChoices(s, p)
  PROVE  QuizShape(QuizDuelApply(s, p, a)) /\ QuizDuelApply(s, p, a).game = s.game
  BY DEF QuizDuelApply, QuizShape

\* Quick math keeps its shape.
LEMMA MathKeeps ==
  ASSUME NEW s, MathShape(s), NEW p \in Seats, NEW a \in QuickMathChoices(s, p)
  PROVE  MathShape(QuickMathApply(s, p, a)) /\ QuickMathApply(s, p, a).game = s.game
  BY DEF QuickMathApply, MathShape

\* The tap race keeps its shape.
LEMMA TapKeeps ==
  ASSUME NEW s, TapShape(s), NEW p \in Seats, NEW a \in TapRaceChoices(s, p)
  PROVE  TapShape(TapRaceApply(s, p, a)) /\ TapRaceApply(s, p, a).game = s.game
  BY DEF TapRaceApply, TapShape

\* A round of reaction that is over keeps its shape.
LEMMA ClosedKeeps ==
  ASSUME NEW s, ReactionShape(s), NEW round, NEW green, NEW wins, NEW honest, NEW total, NEW best,
         NEW falseStarts, NEW winner, NEW reactions
  PROVE  /\ ReactionShape(Closed(s, round, ForAll(FALSE), green, ForAll(NotTapped), wins, honest, total,
                                 best, falseStarts, winner, reactions))
         /\ Closed(s, round, ForAll(FALSE), green, ForAll(NotTapped), wins, honest, total,
                   best, falseStarts, winner, reactions).game = s.game
<1> DEFINE ready == ForAll(FALSE)
           taps  == ForAll(NotTapped)
<1>1. ready \in [RaceSeats -> BOOLEAN] /\ DOMAIN taps = RaceSeats
  BY DEF ForAll
<1> HIDE DEF ready, taps
<1>2. /\ ReactionShape(Closed(s, round, ready, green, taps, wins, honest, total,
                              best, falseStarts, winner, reactions))
      /\ Closed(s, round, ready, green, taps, wins, honest, total,
                best, falseStarts, winner, reactions).game = s.game
  BY <1>1 DEF Closed, ReactionShape
<1> QED BY <1>2 DEF ready, taps

\* Reaction keeps its shape.
LEMMA ReactionKeeps ==
  ASSUME NEW s, ReactionShape(s), NEW p \in RaceSeats, NEW a \in ReactionChoices(s, p)
  PROVE  ReactionShape(ReactionApply(s, p, a)) /\ ReactionApply(s, p, a).game = s.game
<1>1. \A taps, w : ReactionShape(RaceResolved(s, taps, w)) /\ RaceResolved(s, taps, w).game = s.game
  <2> TAKE taps, w
  <2> DEFINE React(g) == [r \in RaceSeats |->
               IF taps[r] = NotTapped \/ IsFalseStart(g, taps[r]) THEN NoTime ELSE taps[r] - g]
             First(g) == IF w # Nobody THEN w ELSE Fastest(React(g))
             Timed(g, r) == React(g)[r] # NoTime
             Wins(ws, g) == [r \in RaceSeats |-> ws[r] + IF r = First(g) THEN 1 ELSE 0]
             Times(hs, g) == [r \in RaceSeats |-> hs[r] + IF Timed(g, r) THEN 1 ELSE 0]
             Totals(ts, g) == [r \in RaceSeats |-> ts[r] + IF Timed(g, r) THEN React(g)[r] ELSE 0]
             Bests(bs, g) == [r \in RaceSeats |-> IF ~Timed(g, r) THEN bs[r]
                                                  ELSE IF bs[r] = NoTime THEN React(g)[r]
                                                  ELSE Min({bs[r], React(g)[r]})]
             Falses(fs, g) == [r \in RaceSeats |->
                                 fs[r] + IF ~Timed(g, r) /\ taps[r] # NotTapped THEN 1 ELSE 0]
             After(v, o) ==
               Closed(v, o.round + 1, ForAll(FALSE), 0, ForAll(NotTapped), Wins(o.wins, o.greenAt),
                      Times(o.honest, o.greenAt), Totals(o.total, o.greenAt), Bests(o.best, o.greenAt),
                      Falses(o.falseStarts, o.greenAt), First(o.greenAt), React(o.greenAt))
  <2>1. \A v : RaceResolved(v, taps, w) = After(v, v)
    BY DEF RaceResolved, Closed
  <2>2. RaceResolved(s, taps, w) = After(s, s)
    <3> HIDE DEF After
    <3> QED BY <2>1
  <2>3. ReactionShape(After(s, s)) /\ After(s, s).game = s.game
    <3>1. \A round, green, wins, honest, total, best, falseStarts, winner, reactions :
            /\ ReactionShape(Closed(s, round, ForAll(FALSE), green, ForAll(NotTapped), wins, honest,
                                    total, best, falseStarts, winner, reactions))
            /\ Closed(s, round, ForAll(FALSE), green, ForAll(NotTapped), wins, honest,
                      total, best, falseStarts, winner, reactions).game = s.game
      BY ClosedKeeps
    <3> HIDE DEF Timed, React, First, Wins, Times, Totals, Bests, Falses
    <3> QED BY <3>1
  <2> HIDE DEF After
  <2> QED BY <2>2, <2>3
<1>2. ASSUME a.type = "ready"
      PROVE  ReactionShape(ReactionApply(s, p, a)) /\ ReactionApply(s, p, a).game = s.game
  BY <1>2 DEF ReactionApply, ReactionShape
<1>3. ASSUME a.type # "ready"
      PROVE  ReactionShape(ReactionApply(s, p, a)) /\ ReactionApply(s, p, a).game = s.game
  <2> DEFINE taps == [s.taps EXCEPT ![p] = a.at]
  <2>1. ReactionShape([s EXCEPT !.taps = taps]) /\ [s EXCEPT !.taps = taps].game = s.game
    BY DEF ReactionShape
  <2>2. \/ ReactionApply(s, p, a) = [s EXCEPT !.taps = taps]
        \/ \E w : ReactionApply(s, p, a) = RaceResolved(s, taps, w)
    BY <1>3 DEF ReactionApply
  <2> HIDE DEF taps
  <2> QED BY <1>1, <2>1, <2>2
<1> QED BY <1>2, <1>3

\* Battleship keeps its shape.
LEMMA FleetKeeps ==
  ASSUME NEW s, FleetShape(s), NEW p \in Seats, NEW a \in BattleshipChoices(s, p)
  PROVE  FleetShape(BattleshipApply(s, p, a)) /\ BattleshipApply(s, p, a).game = s.game
<1>1. a.type \in {"place", "fire", "report", "reveal"}
  BY DEF BattleshipChoices
<1>2. \A v : FleetShape(v) => FleetShape(Settled(v)) /\ Settled(v).game = v.game
  BY DEF Settled, FleetShape
<1>3. CASE a.type = "place"
  BY <1>3 DEF BattleshipApply, FleetShape
<1>4. CASE a.type = "fire"
  BY <1>4 DEF BattleshipApply, FleetShape
<1>5. CASE a.type = "report"
  BY <1>5 DEF BattleshipApply, FleetShape
<1>6. CASE a.type = "reveal"
  <2> DEFINE lied == ~RevealIsHonest(s.commitments[p], a.fleet, s.shots[p])
             shown == [s EXCEPT !.reveals[p] = a.fleet, !.cheated[p] = lied]
  <2>1. FleetShape(shown) /\ shown.game = s.game
    <3> HIDE DEF lied
    <3> QED BY DEF FleetShape
  <2>2. BattleshipApply(s, p, a) = shown \/ BattleshipApply(s, p, a) = Settled(shown)
    BY <1>6 DEF BattleshipApply
  <2> HIDE DEF shown
  <2> QED BY <1>2, <2>1, <2>2
<1> QED BY <1>1, <1>3, <1>4, <1>5, <1>6

\* The word duel keeps its shape: the boundary of the hunt is set once, at a find.
LEMMA HuntKeeps ==
  ASSUME NEW s, HuntShape(s), NEW p \in Seats, NEW a \in WordDuelChoices(s, p)
  PROVE  HuntShape(WordDuelApply(s, p, a)) /\ WordDuelApply(s, p, a).game = s.game
<1> PICK Finds : s.submissions \in Seq(Finds)
  BY DEF HuntShape
<1>1. CASE a.type = "finish"
  <2> DEFINE t == [s EXCEPT !.finishedBy = Append(@, p),
                            !.openUntil  = IF s.finishedBy = <<>> THEN Len(s.submissions) ELSE @]
  <2>1. WordDuelApply(s, p, a) = t
    BY <1>1 DEF WordDuelApply
  <2>2. /\ DOMAIN t = DOMAIN s /\ t.game = s.game /\ t.submissions = s.submissions
        /\ t.finishedBy = Append(s.finishedBy, p)
        /\ t.openUntil = IF s.finishedBy = <<>> THEN Len(s.submissions) ELSE s.openUntil
    BY DEF HuntShape
  <2>3. Len(s.submissions) \in Nat
    OBVIOUS
  <2> HIDE DEF t
  <2> QED BY <2>1, <2>2, <2>3 DEF HuntShape
<1>2. CASE a.type # "finish"
  <2> DEFINE find == [player |-> p, word |-> a.word, path |-> a.path]
             t == [s EXCEPT !.submissions = Append(@, find)]
  <2>1. WordDuelApply(s, p, a) = t
    BY <1>2 DEF WordDuelApply
  <2>2. /\ DOMAIN t = DOMAIN s /\ t.game = s.game /\ t.submissions = Append(s.submissions, find)
        /\ t.finishedBy = s.finishedBy /\ t.openUntil = s.openUntil
    <3> HIDE DEF find
    <3> QED BY DEF HuntShape
  <2> HIDE DEF find
  <2>3. /\ Append(s.submissions, find) \in Seq(Finds \cup {find})
        /\ Len(Append(s.submissions, find)) = Len(s.submissions) + 1 /\ Len(s.submissions) \in Nat
    <3>1. s.submissions \in Seq(Finds \cup {find})
      OBVIOUS
    <3> QED BY <3>1
  <2> HIDE DEF t
  <2> QED BY <2>1, <2>2, <2>3 DEF HuntShape
<1> QED BY <1>1, <1>2

\* A stone does not change what game it is.
LEMMA LinesKeep ==
  ASSUME NEW s, "game" \in DOMAIN s, NEW i, NEW line
  PROVE  "game" \in DOMAIN Placed(s, i, line) /\ Placed(s, i, line).game = s.game
  BY DEF Placed

\* The grid games stay the games they are.
LEMMA GridKeeps ==
  ASSUME NEW s, "game" \in DOMAIN s, s.game \in GridNames, NEW p, NEW c
  PROVE  "game" \in DOMAIN GridApply(s, p, c) /\ GridApply(s, p, c).game = s.game
<1>1. CASE s.game = "ticTacToe"
  BY <1>1, LinesKeep DEF GridApply, TicTacToeApply
<1>2. CASE s.game = "connectFour"
  BY <1>2, LinesKeep DEF GridApply, ConnectFourApply
<1>3. CASE s.game = "gomoku"
  <2> DEFINE t == Placed(s, c, GomokuLine([s.board EXCEPT ![c] = p], c))
  <2>1. GridApply(s, p, c) = [t EXCEPT !.lastMove = c]
    BY <1>3 DEF GridApply, GomokuApply
  <2>2. "game" \in DOMAIN t /\ t.game = s.game
    BY LinesKeep
  <2> HIDE DEF t
  <2> QED BY <2>1, <2>2
<1>4. CASE s.game = "reversi"
  BY <1>4 DEF GridApply, ReversiApply
<1>5. CASE s.game = "dotsAndBoxes"
  BY <1>5 DEF GridApply, DotsAndBoxesApply
<1>6. CASE s.game = "slidingPuzzle"
  BY <1>6 DEF GridApply, SlidingPuzzleApply
<1>7. CASE s.game = "memoryDuel"
  BY <1>7 DEF GridApply, MemoryDuelApply
<1> QED BY <1>1, <1>2, <1>3, <1>4, <1>5, <1>6, <1>7 DEF GridNames

\* The word games stay the games they are.
LEMMA WordKeeps ==
  ASSUME NEW s, "game" \in DOMAIN s, s.game \in WordNames, NEW p, NEW c \in WordChoices(s, p)
  PROVE  "game" \in DOMAIN WordApply(s, p, c) /\ WordApply(s, p, c).game = s.game
<1>1. CASE s.game = "wordChain"
  BY <1>1 DEF WordApply, WordChainApply
<1>2. CASE s.game = "wordDuel"
  BY <1>2 DEF WordApply, WordDuelApply
<1>3. CASE s.game = "drawAndGuess"
  <2>1. \A v : "game" \in DOMAIN v => "game" \in DOMAIN NextDrawing(v) /\ NextDrawing(v).game = v.game
    BY DEF NextDrawing
  <2>2. c.type \in {"stroke", "undo", "clear", "endRound", "guess"}
    BY <1>3 DEF WordChoices, DrawAndGuessChoices
  <2>3. ASSUME c.type # "guess"
        PROVE  "game" \in DOMAIN DrawAndGuessApply(s, p, c) /\ DrawAndGuessApply(s, p, c).game = s.game
    BY <2>1, <2>2, <2>3 DEF DrawAndGuessApply
  <2>4. \A text : "game" \in DOMAIN GuessApplied(s, p, text) /\ GuessApplied(s, p, text).game = s.game
    <3> TAKE text
    <3> DEFINE heard(kind, shown) ==
                 [s EXCEPT !.guesses = Fed(@, [player |-> p, kind |-> kind, text |-> shown]),
                           !.guessCount = @ + 1]
               already == Cardinality({q \in ArtSeats : s.solved[q]})
               reward(f) == [q \in ArtSeats |-> f[q] + (IF q = p THEN SolveReward(already) ELSE 0)
                                                     + (IF q = Drawer(s) THEN 1 ELSE 0)]
               right == [heard("correct", <<>>) EXCEPT !.solved[p] = TRUE, !.scores = reward(@)]
    <3>1. \/ \E kind, shown : GuessApplied(s, p, text) = heard(kind, shown)
          \/ GuessApplied(s, p, text) = right \/ GuessApplied(s, p, text) = NextDrawing(right)
      BY DEF GuessApplied
    <3>2. \A kind, shown : "game" \in DOMAIN heard(kind, shown) /\ heard(kind, shown).game = s.game
      OBVIOUS
    <3>3. "game" \in DOMAIN right /\ right.game = s.game
      <4> HIDE DEF heard, reward
      <4> QED BY <3>2
    <3> HIDE DEF heard, right
    <3> QED BY <2>1, <3>1, <3>2, <3>3
  <2>5. WordApply(s, p, c) = DrawAndGuessApply(s, p, c)
    BY <1>3 DEF WordApply
  <2>6. c.type = "guess" => DrawAndGuessApply(s, p, c) = GuessApplied(s, p, c.text)
    BY DEF DrawAndGuessApply
  <2> QED BY <2>3, <2>4, <2>5, <2>6
<1> QED BY <1>1, <1>2, <1>3 DEF WordNames

\* Chess stays chess.
LEMMA ChessKeeps ==
  ASSUME NEW s, "game" \in DOMAIN s, NEW p, NEW m
  PROVE  "game" \in DOMAIN ChessApply(s, p, m) /\ ChessApply(s, p, m).game = s.game
<1>1. \A v : "game" \in DOMAIN v => "game" \in DOMAIN Evaluated(v) /\ Evaluated(v).game = v.game
  BY DEF Evaluated
<1> DEFINE man      == s.board[m.from]
           pawn     == man.type = "pawn"
           captured == m.to \in DOMAIN s.board \/ (pawn /\ File(m.from) # File(m.to))
           rank     == Apart(Rank(m.from), Rank(m.to))
           next     == [s EXCEPT
             !.board    = BoardAfter(s.board, m),
             !.turn     = Rival(s.turn),
             !.castling = {r \in @ : /\ man.type = "king" => r.color # s.turn
                                     /\ RookHome(r) \notin {m.from, m.to}},
             !.ep       = IF pawn /\ rank = 2 THEN (m.from + m.to) \div 2 ELSE NoSquare,
             !.halfmove = IF pawn \/ captured THEN 0 ELSE @ + 1,
             !.fullmove = @ + IF s.turn = Black THEN 1 ELSE 0]
           seen     == IF next.halfmove = 0 THEN <<PositionOf(next)>>
                       ELSE Append(next.history, PositionOf(next))
<1>2. ChessApply(s, p, m) = Evaluated([next EXCEPT !.history = seen])
  BY Zenon DEF ChessApply
<1>3. "game" \in DOMAIN next /\ next.game = s.game
  OBVIOUS
<1>4. "game" \in DOMAIN [next EXCEPT !.history = seen] /\ [next EXCEPT !.history = seen].game = s.game
  <2> HIDE DEF next, seen
  <2> QED BY <1>3
<1> HIDE DEF next, seen
<1> QED BY <1>1, <1>2, <1>4

\* Trivia stays trivia.
LEMMA TriviaKeeps ==
  ASSUME NEW s, "game" \in DOMAIN s, NEW p, NEW a
  PROVE  "game" \in DOMAIN TriviaApply(s, p, a) /\ TriviaApply(s, p, a).game = s.game
<1>1. \A v : "game" \in DOMAIN v => /\ "game" \in DOMAIN TriviaResolved(v) /\ TriviaResolved(v).game = v.game
                                   /\ "game" \in DOMAIN TriviaAdvanced(v) /\ TriviaAdvanced(v).game = v.game
  BY DEF TriviaResolved, TriviaAdvanced
<1> DEFINE answered == [s EXCEPT !.choices[p] = a.answer[1], !.times[p] = a.answer[2]]
<1>2. "game" \in DOMAIN answered /\ answered.game = s.game
  OBVIOUS
<1>3. TriviaApply(s, p, a) \in {TriviaAdvanced(s), TriviaResolved(s), TriviaResolved(answered), answered}
  BY DEF TriviaApply
<1> HIDE DEF answered
<1> QED BY <1>1, <1>2, <1>3

\* Darts stays darts.
LEMMA DartsKeeps ==
  ASSUME NEW s, "game" \in DOMAIN s, NEW p, NEW hit
  PROVE  "game" \in DOMAIN DartsApply(s, p, hit) /\ DartsApply(s, p, hit).game = s.game
  BY DEF DartsApply

\* The code breaker stays the code breaker.
LEMMA CodeKeeps ==
  ASSUME NEW s, "game" \in DOMAIN s, NEW p, NEW guess
  PROVE  "game" \in DOMAIN CodeBreakerApply(s, p, guess) /\ CodeBreakerApply(s, p, guess).game = s.game
  BY DEF CodeBreakerApply

\* Which rules a table is handed to.
LEMMA Dispatched ==
  ASSUME NEW s, NEW p, NEW c
  PROVE  /\ s.game = "rockPaperScissors" =>
              /\ PlayersOf(s) = Seats /\ GameChoices(s, p) = RockPaperScissorsChoices(s, p)
              /\ GameApply(s, p, c) = RockPaperScissorsApply(s, p, c)
         /\ s.game = "secretChoice" =>
              /\ PlayersOf(s) = Seats /\ GameChoices(s, p) = SecretChoiceChoices(s, p)
              /\ GameApply(s, p, c) = SecretChoiceApply(s, p, c)
         /\ s.game = "quizDuel" =>
              /\ PlayersOf(s) = Seats /\ GameChoices(s, p) = QuizDuelChoices(s, p)
              /\ GameApply(s, p, c) = QuizDuelApply(s, p, c)
         /\ s.game = "quickMath" =>
              /\ PlayersOf(s) = Seats /\ GameChoices(s, p) = QuickMathChoices(s, p)
              /\ GameApply(s, p, c) = QuickMathApply(s, p, c)
         /\ s.game = "tapRace" =>
              /\ PlayersOf(s) = Seats /\ GameChoices(s, p) = TapRaceChoices(s, p)
              /\ GameApply(s, p, c) = TapRaceApply(s, p, c)
         /\ s.game = "reaction" =>
              /\ PlayersOf(s) = RaceSeats /\ GameChoices(s, p) = ReactionChoices(s, p)
              /\ GameApply(s, p, c) = ReactionApply(s, p, c)
         /\ s.game = "battleship" =>
              /\ PlayersOf(s) = Seats /\ GameChoices(s, p) = BattleshipChoices(s, p)
              /\ GameApply(s, p, c) = BattleshipApply(s, p, c)
         /\ s.game = "wordDuel" =>
              /\ PlayersOf(s) = Seats /\ GameChoices(s, p) = WordDuelChoices(s, p)
              /\ GameApply(s, p, c) = WordDuelApply(s, p, c)
  BY DEF PlayersOf, GameChoices, GameApply, GridNames, ChoiceNames, QuizNames, WordNames, RaceNames,
         ChoiceChoices, ChoiceApply, QuizChoices, QuizApply, WordChoices, WordApply, RaceChoices,
         RaceApply

\* A turn-based game stays the game it is.
LEMMA TurnBasedKeeps ==
  ASSUME NEW s, "game" \in DOMAIN s, s.game \in TurnBased, NEW p, NEW c \in GameChoices(s, p)
  PROVE  "game" \in DOMAIN GameApply(s, p, c) /\ GameApply(s, p, c).game = s.game
<1>1. CASE s.game \in GridNames
  <2>1. GameApply(s, p, c) = GridApply(s, p, c)
    BY <1>1 DEF GameApply, GridNames, ChoiceNames, QuizNames, WordNames, RaceNames
  <2> QED BY <1>1, <2>1, GridKeeps
<1>2. CASE s.game \in WordNames
  <2>1. GameApply(s, p, c) = WordApply(s, p, c) /\ GameChoices(s, p) = WordChoices(s, p)
    BY <1>2 DEF GameApply, GameChoices, GridNames, ChoiceNames, QuizNames, WordNames, RaceNames
  <2> QED BY <1>2, <2>1, WordKeeps
<1>3. CASE s.game = "codeBreaker"
  <2>1. GameApply(s, p, c) = CodeBreakerApply(s, p, c)
    BY <1>3 DEF GameApply, GridNames, ChoiceNames, QuizNames, WordNames, RaceNames, ChoiceApply
  <2> QED BY <2>1, CodeKeeps
<1>4. CASE s.game = "trivia"
  <2>1. GameApply(s, p, c) = TriviaApply(s, p, c)
    BY <1>4 DEF GameApply, GridNames, ChoiceNames, QuizNames, WordNames, RaceNames, QuizApply
  <2> QED BY <2>1, TriviaKeeps
<1>5. CASE s.game = "darts"
  <2>1. GameApply(s, p, c) = DartsApply(s, p, c)
    BY <1>5 DEF GameApply, GridNames, ChoiceNames, QuizNames, WordNames, RaceNames, RaceApply
  <2> QED BY <2>1, DartsKeeps
<1>6. CASE s.game = "chess"
  <2>1. GameApply(s, p, c) = ChessApply(s, p, c)
    BY <1>6 DEF GameApply, GridNames, ChoiceNames, QuizNames, WordNames, RaceNames
  <2> QED BY <2>1, ChessKeeps
<1> QED BY <1>1, <1>2, <1>3, <1>4, <1>5, <1>6 DEF TurnBased, GridNames, WordNames

\* What is played keeps the shape of its game.
LEMMA PlayKeepsShape ==
  ASSUME NEW s, TableShape(s), NEW p \in PlayersOf(s), NEW c \in GameChoices(s, p)
  PROVE  TableShape(GameApply(s, p, c)) /\ GameApply(s, p, c).game = s.game
<1> DEFINE t == GameApply(s, p, c)
<1> SUFFICES TableShape(t) /\ t.game = s.game
  OBVIOUS
<1>1. CASE s.game = "rockPaperScissors"
  <2>1. RockShape(t) /\ t.game = s.game
    BY <1>1, Dispatched, RockKeeps DEF TableShape
  <2> HIDE DEF t
  <2> QED BY <1>1, <2>1 DEF TableShape, RockShape, Simultaneous
<1>2. CASE s.game = "secretChoice"
  <2>1. SecretShape(t) /\ t.game = s.game
    BY <1>2, Dispatched, SecretKeeps DEF TableShape
  <2> HIDE DEF t
  <2> QED BY <1>2, <2>1 DEF TableShape, SecretShape, Simultaneous
<1>3. CASE s.game = "quizDuel"
  <2>1. QuizShape(t) /\ t.game = s.game
    BY <1>3, Dispatched, QuizKeeps DEF TableShape
  <2> HIDE DEF t
  <2> QED BY <1>3, <2>1 DEF TableShape, QuizShape, Simultaneous
<1>4. CASE s.game = "quickMath"
  <2>1. MathShape(t) /\ t.game = s.game
    BY <1>4, Dispatched, MathKeeps DEF TableShape
  <2> HIDE DEF t
  <2> QED BY <1>4, <2>1 DEF TableShape, MathShape, Simultaneous
<1>5. CASE s.game = "tapRace"
  <2>1. TapShape(t) /\ t.game = s.game
    BY <1>5, Dispatched, TapKeeps DEF TableShape
  <2> HIDE DEF t
  <2> QED BY <1>5, <2>1 DEF TableShape, TapShape, Simultaneous
<1>6. CASE s.game = "reaction"
  <2>1. ReactionShape(t) /\ t.game = s.game
    BY <1>6, Dispatched, ReactionKeeps DEF TableShape
  <2> HIDE DEF t
  <2> QED BY <1>6, <2>1 DEF TableShape, ReactionShape, Simultaneous
<1>7. CASE s.game = "battleship"
  <2>1. FleetShape(t) /\ t.game = s.game
    BY <1>7, Dispatched, FleetKeeps DEF TableShape
  <2> HIDE DEF t
  <2> QED BY <1>7, <2>1 DEF TableShape, FleetShape, Simultaneous
<1>8. CASE s.game \in TurnBased
  <2>1. "game" \in DOMAIN t /\ t.game = s.game
    BY <1>8, TurnBasedKeeps DEF TableShape
  <2> HIDE DEF t
  <2> QED BY <1>8, <2>1 DEF TableShape, TurnBased, Simultaneous
<1>9. CASE s.game = "wordDuel"
  <2>1. HuntShape(t) /\ t.game = s.game
    BY <1>9, Dispatched, HuntKeeps DEF TableShape
  <2> HIDE DEF t
  <2> QED BY <1>9, <2>1 DEF TableShape, HuntShape, Simultaneous
<1> QED BY <1>1, <1>2, <1>3, <1>4, <1>5, <1>6, <1>7, <1>8, <1>9 DEF TableShape, Simultaneous

\* Both orders of what two players may do at once.
BothOrders(s, p, q, a, b) ==
  /\ b \in GameChoices(GameApply(s, p, a), q) /\ a \in GameChoices(GameApply(s, q, b), p)
  /\ GameApply(GameApply(s, p, a), q, b) = GameApply(GameApply(s, q, b), p, a)

\* One of the two orders, whoever comes first.
OneOrder(s, p, q, a, b) ==
  /\ b \in GameChoices(GameApply(s, p, a), q)
  /\ GameApply(GameApply(s, p, a), q, b) = GameApply(GameApply(s, q, b), p, a)

\* Whoever acts first, the other still may, and the state is that of the other order.
LEMMA EitherFirst ==
  ASSUME NEW s, TableShape(s), s.game \in Simultaneous,
         NEW p \in PlayersOf(s), NEW q \in PlayersOf(s), p # q,
         NEW a \in GameChoices(s, p), NEW b \in GameChoices(s, q), Honest(s, a), Honest(s, b)
  PROVE  OneOrder(s, p, q, a, b)
<1> DEFINE t == GameApply(s, p, a)
           u == GameApply(s, q, b)
<1> SUFFICES b \in GameChoices(t, q) /\ GameApply(t, q, b) = GameApply(u, p, a)
  BY DEF OneOrder
<1>1. t.game = s.game /\ u.game = s.game
  BY PlayKeepsShape
<1>2. CASE s.game = "rockPaperScissors"
  <2>1. /\ RockShape(s) /\ p \in Seats /\ q \in Seats
        /\ a \in RockPaperScissorsChoices(s, p) /\ b \in RockPaperScissorsChoices(s, q)
        /\ t = RockPaperScissorsApply(s, p, a) /\ u = RockPaperScissorsApply(s, q, b)
    BY <1>2, Dispatched DEF TableShape
  <2>2. /\ GameChoices(t, q) = RockPaperScissorsChoices(t, q)
        /\ GameApply(t, q, b) = RockPaperScissorsApply(t, q, b)
        /\ GameApply(u, p, a) = RockPaperScissorsApply(u, p, a)
    <3> HIDE DEF t, u
    <3> QED BY <1>1, <1>2, Dispatched
  <2>3. /\ b \in RockPaperScissorsChoices(RockPaperScissorsApply(s, p, a), q)
        /\ RockPaperScissorsApply(RockPaperScissorsApply(s, p, a), q, b)
             = RockPaperScissorsApply(RockPaperScissorsApply(s, q, b), p, a)
    BY <2>1, RockCommits, RockReveals DEF RockPaperScissorsChoices
  <2> HIDE DEF t, u
  <2> QED BY <2>1, <2>2, <2>3
<1>3. CASE s.game = "secretChoice"
  <2>1. /\ SecretShape(s) /\ p \in Seats /\ q \in Seats
        /\ a \in SecretChoiceChoices(s, p) /\ b \in SecretChoiceChoices(s, q)
        /\ t = SecretChoiceApply(s, p, a) /\ u = SecretChoiceApply(s, q, b)
    BY <1>3, Dispatched DEF TableShape
  <2>2. /\ GameChoices(t, q) = SecretChoiceChoices(t, q)
        /\ GameApply(t, q, b) = SecretChoiceApply(t, q, b)
        /\ GameApply(u, p, a) = SecretChoiceApply(u, p, a)
    <3> HIDE DEF t, u
    <3> QED BY <1>1, <1>3, Dispatched
  <2>3. /\ b \in SecretChoiceChoices(SecretChoiceApply(s, p, a), q)
        /\ SecretChoiceApply(SecretChoiceApply(s, p, a), q, b) = SecretChoiceApply(SecretChoiceApply(s, q, b), p, a)
    BY <1>3, <2>1, SecretsCommute
  <2> HIDE DEF t, u
  <2> QED BY <2>1, <2>2, <2>3
<1>4. CASE s.game = "quizDuel"
  <2>1. /\ QuizShape(s) /\ p \in Seats /\ q \in Seats
        /\ a \in QuizDuelChoices(s, p) /\ b \in QuizDuelChoices(s, q)
        /\ t = QuizDuelApply(s, p, a) /\ u = QuizDuelApply(s, q, b)
    BY <1>4, Dispatched DEF TableShape
  <2>2. /\ GameChoices(t, q) = QuizDuelChoices(t, q)
        /\ GameApply(t, q, b) = QuizDuelApply(t, q, b)
        /\ GameApply(u, p, a) = QuizDuelApply(u, p, a)
    <3> HIDE DEF t, u
    <3> QED BY <1>1, <1>4, Dispatched
  <2>3. /\ b \in QuizDuelChoices(QuizDuelApply(s, p, a), q)
        /\ QuizDuelApply(QuizDuelApply(s, p, a), q, b) = QuizDuelApply(QuizDuelApply(s, q, b), p, a)
    BY <1>4, <2>1, QuizzesCommute
  <2> HIDE DEF t, u
  <2> QED BY <2>1, <2>2, <2>3
<1>5. CASE s.game = "quickMath"
  <2>1. /\ MathShape(s) /\ p \in Seats /\ q \in Seats
        /\ a \in QuickMathChoices(s, p) /\ b \in QuickMathChoices(s, q)
        /\ t = QuickMathApply(s, p, a) /\ u = QuickMathApply(s, q, b)
    BY <1>5, Dispatched DEF TableShape
  <2>2. /\ GameChoices(t, q) = QuickMathChoices(t, q)
        /\ GameApply(t, q, b) = QuickMathApply(t, q, b)
        /\ GameApply(u, p, a) = QuickMathApply(u, p, a)
    <3> HIDE DEF t, u
    <3> QED BY <1>1, <1>5, Dispatched
  <2>3. /\ b \in QuickMathChoices(QuickMathApply(s, p, a), q)
        /\ QuickMathApply(QuickMathApply(s, p, a), q, b) = QuickMathApply(QuickMathApply(s, q, b), p, a)
    BY <1>5, <2>1, SumsCommute
  <2> HIDE DEF t, u
  <2> QED BY <2>1, <2>2, <2>3
<1>6. CASE s.game = "tapRace"
  <2>1. /\ TapShape(s) /\ p \in Seats /\ q \in Seats
        /\ a \in TapRaceChoices(s, p) /\ b \in TapRaceChoices(s, q)
        /\ t = TapRaceApply(s, p, a) /\ u = TapRaceApply(s, q, b)
    BY <1>6, Dispatched DEF TableShape
  <2>2. /\ GameChoices(t, q) = TapRaceChoices(t, q)
        /\ GameApply(t, q, b) = TapRaceApply(t, q, b)
        /\ GameApply(u, p, a) = TapRaceApply(u, p, a)
    <3> HIDE DEF t, u
    <3> QED BY <1>1, <1>6, Dispatched
  <2>3. /\ b \in TapRaceChoices(TapRaceApply(s, p, a), q)
        /\ TapRaceApply(TapRaceApply(s, p, a), q, b) = TapRaceApply(TapRaceApply(s, q, b), p, a)
    BY <1>6, <2>1, TapsCommute
  <2> HIDE DEF t, u
  <2> QED BY <2>1, <2>2, <2>3
<1>7. CASE s.game = "reaction"
  <2>1. /\ ReactionShape(s) /\ p \in RaceSeats /\ q \in RaceSeats
        /\ a \in ReactionChoices(s, p) /\ b \in ReactionChoices(s, q)
        /\ t = ReactionApply(s, p, a) /\ u = ReactionApply(s, q, b)
    BY <1>7, Dispatched DEF TableShape
  <2>2. /\ GameChoices(t, q) = ReactionChoices(t, q)
        /\ GameApply(t, q, b) = ReactionApply(t, q, b)
        /\ GameApply(u, p, a) = ReactionApply(u, p, a)
    <3> HIDE DEF t, u
    <3> QED BY <1>1, <1>7, Dispatched
  <2>3. /\ b \in ReactionChoices(ReactionApply(s, p, a), q)
        /\ ReactionApply(ReactionApply(s, p, a), q, b) = ReactionApply(ReactionApply(s, q, b), p, a)
    BY <1>7, <2>1, ReadiesCommute, TimedTapsCommute
  <2> HIDE DEF t, u
  <2> QED BY <2>1, <2>2, <2>3
<1>8. CASE s.game = "battleship"
  <2>1. /\ FleetShape(s) /\ p \in Seats /\ q \in Seats
        /\ a \in BattleshipChoices(s, p) /\ b \in BattleshipChoices(s, q)
        /\ t = BattleshipApply(s, p, a) /\ u = BattleshipApply(s, q, b)
    BY <1>8, Dispatched DEF TableShape
  <2>2. /\ GameChoices(t, q) = BattleshipChoices(t, q)
        /\ GameApply(t, q, b) = BattleshipApply(t, q, b)
        /\ GameApply(u, p, a) = BattleshipApply(u, p, a)
    <3> HIDE DEF t, u
    <3> QED BY <1>1, <1>8, Dispatched
  <2>3. /\ b \in BattleshipChoices(BattleshipApply(s, p, a), q)
        /\ BattleshipApply(BattleshipApply(s, p, a), q, b) = BattleshipApply(BattleshipApply(s, q, b), p, a)
    BY <1>8, <2>1, FleetsCommute
  <2> HIDE DEF t, u
  <2> QED BY <2>1, <2>2, <2>3
<1> QED BY <1>2, <1>3, <1>4, <1>5, <1>6, <1>7, <1>8 DEF Simultaneous

-----------------------------------------------------------------------------
(* Where a game starts. *)

\* The board of a game of lines.
LEMMA LinesStart ==
  \A game, cells : "game" \in DOMAIN NewLines(game, cells) /\ NewLines(game, cells).game = game
  BY DEF NewLines

\* The grid games start as themselves.
LEMMA GridStarts ==
  ASSUME NEW s \in GridNew
  PROVE  "game" \in DOMAIN s /\ s.game \in GridNames
<1>1. CASE s \in TicTacToeNew
  BY <1>1, LinesStart DEF TicTacToeNew, GridNames
<1>2. CASE s \in ConnectFourNew
  BY <1>2, LinesStart DEF ConnectFourNew, GridNames
<1>3. CASE s \in GomokuNew
  BY <1>3 DEF GomokuNew, GridNames
<1>4. CASE s \in ReversiNew
  BY <1>4 DEF ReversiNew, GridNames
<1>5. CASE s \in DotsAndBoxesNew
  BY <1>5 DEF DotsAndBoxesNew, GridNames
<1>6. CASE s \in SlidingPuzzleNew
  BY <1>6 DEF SlidingPuzzleNew, GridNames
<1>7. CASE s \in MemoryDuelNew
  BY <1>7 DEF MemoryDuelNew, GridNames
<1> QED BY <1>1, <1>2, <1>3, <1>4, <1>5, <1>6, <1>7 DEF GridNew

\* So do the others in which players take turns.
LEMMA RestStarts ==
  /\ \A s \in TriviaNew \cup CodeBreakerNew \cup WordChainNew \cup DrawAndGuessNew \cup DartsNew :
       "game" \in DOMAIN s /\ s.game \in TurnBased
  /\ \A s \in ChessNew : "game" \in DOMAIN s /\ s.game = "chess"
<1>1. \A s \in TriviaNew : "game" \in DOMAIN s /\ s.game = "trivia"
  BY DEF TriviaNew
<1>2. \A s \in CodeBreakerNew : "game" \in DOMAIN s /\ s.game = "codeBreaker"
  BY DEF CodeBreakerNew
<1>3. \A s \in WordChainNew : "game" \in DOMAIN s /\ s.game = "wordChain"
  BY DEF WordChainNew
<1>5. \A s \in DrawAndGuessNew : "game" \in DOMAIN s /\ s.game = "drawAndGuess"
  BY DEF DrawAndGuessNew
<1>6. \A s \in DartsNew : "game" \in DOMAIN s /\ s.game = "darts"
  BY DEF DartsNew
<1>7. \A s \in ChessNew : "game" \in DOMAIN s /\ s.game = "chess"
  BY DEF ChessNew, Evaluated
<1> QED BY <1>1, <1>2, <1>3, <1>5, <1>6, <1>7 DEF TurnBased

\* The games in which both act start in their shapes.
LEMMA BothStart ==
  /\ \A s \in RockPaperScissorsNew : RockShape(s) /\ s.game = "rockPaperScissors"
  /\ \A s \in SecretChoiceNew : SecretShape(s) /\ s.game = "secretChoice"
  /\ \A s \in QuizDuelNew : QuizShape(s) /\ s.game = "quizDuel"
  /\ \A s \in QuickMathNew : MathShape(s) /\ s.game = "quickMath"
  /\ \A s \in TapRaceNew : TapShape(s) /\ s.game = "tapRace"
  /\ \A s \in ReactionNew : ReactionShape(s) /\ s.game = "reaction"
  /\ \A s \in BattleshipNew : FleetShape(s) /\ s.game = "battleship"
  /\ \A s \in WordDuelNew : HuntShape(s) /\ s.game = "wordDuel"
<1>1. \A s \in RockPaperScissorsNew : RockShape(s) /\ s.game = "rockPaperScissors"
  BY DEF RockPaperScissorsNew, RockShape
<1>2. \A s \in SecretChoiceNew : SecretShape(s) /\ s.game = "secretChoice"
  BY DEF SecretChoiceNew, SecretShape
<1>3. \A s \in QuizDuelNew : QuizShape(s) /\ s.game = "quizDuel"
  BY DEF QuizDuelNew, QuizShape
<1>4. \A s \in QuickMathNew : MathShape(s) /\ s.game = "quickMath"
  BY DEF QuickMathNew, MathShape
<1>5. \A s \in TapRaceNew : TapShape(s) /\ s.game = "tapRace"
  BY DEF TapRaceNew, TapShape
<1>6. \A s \in ReactionNew : ReactionShape(s) /\ s.game = "reaction"
  <2> DEFINE ready == ForAll(FALSE)
             taps  == ForAll(NotTapped)
             New(ws, a, b, c, d, e, f) ==
               [game |-> "reaction", waits |-> ws, round |-> 0, ready |-> ready, greenAt |-> 0,
                taps |-> taps, wins |-> a, best |-> b, total |-> c, honest |-> d, falseStarts |-> e,
                lastWinner |-> NoRoundYet, lastReactions |-> f]
  <2>1. ready \in [RaceSeats -> BOOLEAN] /\ DOMAIN taps = RaceSeats
    BY DEF ForAll
  <2>2. \A ws, a, b, c, d, e, f : /\ ReactionShape(New(ws, a, b, c, d, e, f))
                                 /\ New(ws, a, b, c, d, e, f).game = "reaction"
    <3> HIDE DEF ready, taps
    <3> QED BY <2>1 DEF ReactionShape
  <2>3. \A s \in ReactionNew : \E ws, a, b, c, d, e, f : s = New(ws, a, b, c, d, e, f)
    BY DEF ReactionNew
  <2> HIDE DEF New
  <2> QED BY <2>2, <2>3
<1>7. \A s \in BattleshipNew : FleetShape(s) /\ s.game = "battleship"
  BY DEF BattleshipNew, FleetShape, NoShot
<1>8. \A s \in WordDuelNew : HuntShape(s) /\ s.game = "wordDuel"
  <2> TAKE s \in WordDuelNew
  <2>1. PICK g : s = [game |-> "wordDuel", grid |-> g, submissions |-> <<>>, finishedBy |-> <<>>,
                      openUntil |-> -1]
    BY DEF WordDuelNew
  <2>2. <<>> \in Seq(Seats)
    OBVIOUS
  <2> QED BY <2>1, <2>2 DEF HuntShape
<1> QED BY <1>1, <1>2, <1>3, <1>4, <1>5, <1>6, <1>7, <1>8

\* Every game starts in its shape.
LEMMA TableStarts ==
  ASSUME NEW s \in GameNew
  PROVE  TableShape(s)
<1>1. CASE s \in GridNew \cup TriviaNew \cup CodeBreakerNew \cup WordChainNew \cup DrawAndGuessNew
                \cup DartsNew \cup ChessNew
  <2>1. "game" \in DOMAIN s /\ s.game \in TurnBased
    BY <1>1, GridStarts, RestStarts DEF TurnBased, GridNames
  <2> QED BY <2>1 DEF TableShape, TurnBased
<1>2. CASE s \in RockPaperScissorsNew
  BY <1>2, BothStart DEF TableShape, RockShape, Simultaneous
<1>3. CASE s \in SecretChoiceNew
  BY <1>3, BothStart DEF TableShape, SecretShape, Simultaneous
<1>4. CASE s \in QuizDuelNew
  BY <1>4, BothStart DEF TableShape, QuizShape, Simultaneous
<1>5. CASE s \in QuickMathNew
  BY <1>5, BothStart DEF TableShape, MathShape, Simultaneous
<1>6. CASE s \in TapRaceNew
  BY <1>6, BothStart DEF TableShape, TapShape, Simultaneous
<1>7. CASE s \in ReactionNew
  BY <1>7, BothStart DEF TableShape, ReactionShape, Simultaneous
<1>8. CASE s \in BattleshipNew
  BY <1>8, BothStart DEF TableShape, FleetShape, Simultaneous
<1>9. CASE s \in WordDuelNew
  BY <1>9, BothStart DEF TableShape, HuntShape, Simultaneous
<1> QED BY <1>1, <1>2, <1>3, <1>4, <1>5, <1>6, <1>7, <1>8, <1>9
        DEF GameNew, ChoiceNew, QuizNew, WordNew, RaceNew

-----------------------------------------------------------------------------

\* Players are numbers, so that two of them are in an order.
LEMMA PlayersAreNumbers ==
  ASSUME NEW s
  PROVE  PlayersOf(s) \subseteq Nat
<1>1. PlayersOf(s) \in {Seats, ArtSeats, RaceSeats, DartSeats}
  BY DEF PlayersOf
<1>2. \A n : 1..n \subseteq Nat
  OBVIOUS
<1>3. ArtSeats \subseteq Nat /\ RaceSeats \subseteq Nat /\ DartSeats \subseteq Nat
  BY <1>2 DEF ArtSeats, RaceSeats, DartSeats
<1>4. Seats \subseteq Nat
  BY DEF Seats
<1> QED BY <1>1, <1>3, <1>4

\* In a state of its shape, acts of two players commute.
LEMMA CommuteAlways ==
  ASSUME TableShape(table)
  PROVE  ActsCommute
<1> SUFFICES ASSUME table.game \in Simultaneous,
                    NEW p \in PlayersOf(table), NEW q \in PlayersOf(table), p < q,
                    NEW a \in GameChoices(table, p), NEW b \in GameChoices(table, q),
                    Honest(table, a), Honest(table, b)
             PROVE  BothOrders(table, p, q, a, b)
  BY DEF ActsCommute, BothOrders
<1>1. p # q
  BY PlayersAreNumbers
<1>2. OneOrder(table, p, q, a, b) /\ OneOrder(table, q, p, b, a)
  BY <1>1, EitherFirst
<1> QED BY <1>2 DEF OneOrder, BothOrders

\* The shapes are inductive.
LEMMA ShapeIsKept ==
  TableShape(table) /\ [Act]_table => TableShape(table)'
<1> SUFFICES ASSUME TableShape(table), [Act]_table
             PROVE  TableShape(table')
  BY DEF TableShape, RockShape, SecretShape, QuizShape, MathShape, TapShape, ReactionShape, FleetShape,
         HuntShape
<1>1. CASE Act
  BY <1>1, PlayKeepsShape DEF Act
<1>2. CASE UNCHANGED table
  BY <1>2
<1> QED BY <1>1, <1>2

\* THEOREM: in the games in which both act at once, two acts that are both open
\* are each still open after the other, and lead to the same state in either order
\* (conformance.ts; false starts of reaction excepted).
THEOREM ActsAlwaysCommute == TableSpec => []ActsCommute
<1>1. TableInit => TableShape(table)
  BY TableStarts DEF TableInit
<1>2. TableShape(table) /\ [Act]_table => TableShape(table)'
  BY ShapeIsKept
<1>3. TableShape(table) => ActsCommute
  BY CommuteAlways
<1> QED BY <1>1, <1>2, <1>3, PTL DEF TableSpec

-----------------------------------------------------------------------------
(* Scores. *)

\* What SumFunction() adds up, given what it makes of smaller sets.
Summed(f, g) ==
  [s \in SUBSET DOMAIN f |-> IF s = {} THEN 0
                             ELSE f[CHOOSE x \in s : TRUE] + g[s \ {CHOOSE x \in s : TRUE}]]

\* Taking one element out of a finite set.
LEMMA OneLess ==
  ASSUME NEW S, IsFiniteSet(S), NEW s \in SUBSET S, s # {}
  PROVE  LET r == s \ {CHOOSE x \in s : TRUE}
         IN  /\ (CHOOSE x \in s : TRUE) \in S /\ r \in SUBSET S
             /\ Cardinality(s) \in Nat /\ Cardinality(r) = Cardinality(s) - 1 /\ Cardinality(r) \in Nat
<1> DEFINE x == CHOOSE x \in s : TRUE
<1>1. x \in s
  OBVIOUS
<1>2. IsFiniteSet(s) /\ IsFiniteSet(s \ {x})
  BY FS_Subset
<1>3. Cardinality(s \ {x}) = Cardinality(s) - 1 /\ Cardinality(s) \in Nat /\ Cardinality(s \ {x}) \in Nat
  <2> HIDE DEF x
  <2> QED BY <1>1, <1>2, FS_RemoveElement, FS_CardinalityType
<1> QED BY <1>1, <1>3

\* The function behind SumFunction() exists.
LEMMA SumsExist ==
  ASSUME NEW f, IsFiniteSet(DOMAIN f), \A i \in DOMAIN f : f[i] \in Nat
  PROVE  \E g : g = Summed(f, g)
<1> DEFINE S == DOMAIN f
           Upto(n) == \E g : /\ g = [s \in SUBSET S |-> g[s]]
                             /\ \A s \in SUBSET S : Cardinality(s) <= n => g[s] = Summed(f, g)[s]
           Short == {n \in Nat : ~Upto(n)}
<1>1. \A s \in SUBSET S : Cardinality(s) \in Nat /\ (Cardinality(s) = 0 <=> s = {})
  BY FS_Subset, FS_CardinalityType, FS_EmptySet
<1>2. ASSUME Short # {}
      PROVE  FALSE
  <2>1. PICK n \in Short : \A m \in Short : n <= m
    BY <1>2, LeastElement
  <2>2. n # 0
    <3>1. Upto(0)
      <4> DEFINE g == [s \in SUBSET S |-> 0]
      <4>1. \A s \in SUBSET S : Cardinality(s) <= 0 => g[s] = Summed(f, g)[s]
        BY <1>1 DEF Summed
      <4> QED BY <4>1
    <3> HIDE DEF Upto
    <3> QED BY <2>1, <3>1
  <2>3. Upto(n - 1)
    <3> HIDE DEF Upto
    <3>1. n \in Nat /\ n - 1 \in Nat /\ ~(n <= n - 1)
      BY <2>1, <2>2
    <3> QED BY <2>1, <3>1
  <2>4. PICK g : /\ g = [s \in SUBSET S |-> g[s]]
                 /\ \A s \in SUBSET S : Cardinality(s) <= n - 1 => g[s] = Summed(f, g)[s]
    BY <2>3
  <2> DEFINE h == Summed(f, g)
  <2>5. \A s \in SUBSET S : Cardinality(s) <= n - 1 => h[s] = g[s]
    BY <2>4
  <2>6. ASSUME NEW s \in SUBSET S, Cardinality(s) <= n
        PROVE  h[s] = Summed(f, h)[s]
    <3> DEFINE x == CHOOSE x \in s : TRUE
    <3>1. CASE s = {}
      BY <3>1 DEF Summed
    <3>2. CASE s # {}
      <4>1. s \ {x} \in SUBSET S /\ Cardinality(s \ {x}) <= n - 1
        BY <2>1, <2>6, <3>2, OneLess
      <4>2. h[s \ {x}] = g[s \ {x}]
        <5> HIDE DEF h, x
        <5> QED BY <2>5, <4>1
      <4>3. h[s] = f[x] + g[s \ {x}]
        BY <3>2 DEF Summed
      <4>4. Summed(f, h)[s] = f[x] + h[s \ {x}]
        <5> HIDE DEF h
        <5> QED BY <3>2 DEF Summed
      <4> HIDE DEF h, x
      <4> QED BY <4>2, <4>3, <4>4
    <3> QED BY <3>1, <3>2
  <2>7. h = [s \in SUBSET S |-> h[s]]
    BY DEF Summed
  <2>8. Upto(n)
    <3> HIDE DEF h
    <3> QED BY <2>6, <2>7
  <2> HIDE DEF Upto
  <2> QED BY <2>1, <2>8
<1>3. Upto(Cardinality(S))
  <2>1. Cardinality(S) \in Nat
    BY <1>1
  <2> HIDE DEF Upto
  <2> QED BY <1>2, <2>1
<1>4. PICK g : /\ g = [s \in SUBSET S |-> g[s]]
               /\ \A s \in SUBSET S : Cardinality(s) <= Cardinality(S) => g[s] = Summed(f, g)[s]
  BY <1>3
<1>5. \A s \in SUBSET S : Cardinality(s) <= Cardinality(S)
  BY FS_Subset
<1>6. g = Summed(f, g)
  <2>1. DOMAIN Summed(f, g) = SUBSET S /\ Summed(f, g) = [s \in SUBSET S |-> Summed(f, g)[s]]
    BY DEF Summed
  <2>2. \A s \in SUBSET S : g[s] = Summed(f, g)[s]
    BY <1>4, <1>5
  <2>3. g = [s \in SUBSET S |-> g[s]]
    BY <1>4
  <2> QED BY <2>1, <2>2, <2>3
<1> QED BY <1>6

\* A sum of finitely many numbers is a number.
LEMMA SumIsNat ==
  ASSUME NEW f, IsFiniteSet(DOMAIN f), \A i \in DOMAIN f : f[i] \in Nat
  PROVE  SumFunction(f) \in Nat
<1> DEFINE S == DOMAIN f
           iter == CHOOSE g : g = Summed(f, g)
           Odd == {n \in Nat : \E s \in SUBSET S : Cardinality(s) = n /\ iter[s] \notin Nat}
<1>1. SumFunction(f) = iter[S]
  BY DEF SumFunction, SumFunctionOnSet, FoldFunctionOnSet, MapThenFoldSet, Summed
<1>2. iter = Summed(f, iter)
  BY SumsExist
<1> HIDE DEF iter
<1>3. ASSUME Odd # {}
      PROVE  FALSE
  <2>1. PICK n \in Odd : \A m \in Odd : n <= m
    BY <1>3, LeastElement
  <2>2. PICK s \in SUBSET S : Cardinality(s) = n /\ iter[s] \notin Nat
    BY <2>1
  <2> DEFINE x == CHOOSE x \in s : TRUE
  <2>3. s # {}
    <3>1. s = {} => Summed(f, iter)[s] = 0
      BY DEF Summed
    <3> QED BY <1>2, <2>2, <3>1
  <2>4. /\ x \in S /\ s \ {x} \in SUBSET S
        /\ Cardinality(s \ {x}) = n - 1 /\ Cardinality(s \ {x}) \in Nat
    BY <2>2, <2>3, OneLess
  <2>5. iter[s] = f[x] + iter[s \ {x}]
    <3>1. Summed(f, iter)[s] = f[x] + iter[s \ {x}]
      BY <2>3 DEF Summed
    <3> HIDE DEF x
    <3> QED BY <1>2, <3>1
  <2> HIDE DEF x
  <2>6. iter[s \ {x}] \notin Nat
    BY <2>2, <2>4, <2>5
  <2>7. Cardinality(s \ {x}) \in Odd /\ ~(n <= Cardinality(s \ {x}))
    BY <2>1, <2>4, <2>6
  <2> QED BY <2>1, <2>7
<1>4. Cardinality(S) \in Nat
  BY FS_CardinalityType
<1> QED BY <1>1, <1>3, <1>4

-----------------------------------------------------------------------------
(* The word duel. *)

\* A score is a number.
LEMMA ScoreIsNat ==
  ASSUME NEW s, HuntShape(s), NEW p
  PROVE  DuelScore(s, p) \in Nat
<1> DEFINE holders(w) == {s.submissions[i].player : i \in {i \in 1..HuntBoundary(s) : s.submissions[i].word = w}}
           counts(i)  == i > HuntBoundary(s) \/ holders(s.submissions[i].word) # Seats
           f == [i \in FoundBy(s, p) |->
                   IF counts(i) THEN ScoreForLength(Len(s.submissions[i].word)) ELSE 0]
<1>1. DuelScore(s, p) = SumFunction(f)
  BY DEF DuelScore
<1>2. DOMAIN f = FoundBy(s, p) /\ IsFiniteSet(FoundBy(s, p))
  <2>1. PICK Finds : s.submissions \in Seq(Finds)
    BY DEF HuntShape
  <2>2. FoundBy(s, p) \subseteq 1..Len(s.submissions) /\ Len(s.submissions) \in Nat
    BY <2>1 DEF FoundBy
  <2>3. IsFiniteSet(FoundBy(s, p))
    <3>1. IsFiniteSet(1..Len(s.submissions))
      BY <2>2, FS_Interval
    <3> QED BY <2>2, <3>1, FS_Subset
  <2> QED BY <2>3
<1>3. \A n : ScoreForLength(n) \in Nat
  BY DEF ScoreForLength
<1>4. \A i \in DOMAIN f : f[i] \in Nat
  BY <1>3
<1> HIDE DEF f
<1> QED BY <1>1, <1>2, <1>4, SumIsNat

\* Whoever has finished scores what it scored: its finds are all made, and what the other
\* finds from now on lies beyond the boundary.
LEMMA ScoreIsKept ==
  ASSUME NEW s, HuntShape(s), NEW p \in Range(s.finishedBy),
         NEW q \in Seats, NEW c \in WordDuelChoices(s, q)
  PROVE  DuelScore(WordDuelApply(s, q, c), p) = DuelScore(s, p)
<1> PICK Finds : s.submissions \in Seq(Finds)
  BY DEF HuntShape
<1> DEFINE t == WordDuelApply(s, q, c)
           n == Len(s.submissions)
           Holders(v, w) == {v.submissions[i].player : i \in {i \in 1..HuntBoundary(v) : v.submissions[i].word = w}}
           Counts(v, i)  == i > HuntBoundary(v) \/ Holders(v, v.submissions[i].word) # Seats
           F(v) == [i \in FoundBy(v, p) |->
                      IF Counts(v, i) THEN ScoreForLength(Len(v.submissions[i].word)) ELSE 0]
<1>1. p # q /\ s.finishedBy # <<>>
  BY DEF WordDuelChoices, Range
<1>2. /\ t.openUntil = s.openUntil
      /\ \/ t.submissions = s.submissions
         \/ \E w, x : t.submissions = Append(s.submissions, [player |-> q, word |-> w, path |-> x])
  <2>1. CASE c.type = "finish"
    BY <1>1, <2>1 DEF WordDuelApply, HuntShape
  <2>2. CASE c.type # "finish"
    BY <2>2 DEF WordDuelApply, HuntShape
  <2> QED BY <2>1, <2>2
<1> HIDE DEF t
<1>3. HuntBoundary(t) = HuntBoundary(s) /\ HuntBoundary(s) \in 0..n /\ n \in Nat
  BY <1>1, <1>2 DEF HuntBoundary, HuntShape
<1>4. /\ \A i \in 1..n : t.submissions[i] = s.submissions[i]
      /\ DOMAIN s.submissions = 1..n
      /\ \/ DOMAIN t.submissions = 1..n
         \/ DOMAIN t.submissions = 1..(n + 1) /\ t.submissions[n + 1].player = q
  <2>1. CASE t.submissions = s.submissions
    BY <2>1
  <2>2. ASSUME NEW w, NEW x, t.submissions = Append(s.submissions, [player |-> q, word |-> w, path |-> x])
        PROVE  /\ \A i \in 1..n : t.submissions[i] = s.submissions[i]
               /\ DOMAIN s.submissions = 1..n
               /\ DOMAIN t.submissions = 1..(n + 1) /\ t.submissions[n + 1].player = q
    <3> DEFINE find == [player |-> q, word |-> w, path |-> x]
    <3>1. s.submissions \in Seq(Finds \cup {find}) /\ find \in Finds \cup {find}
      OBVIOUS
    <3>2. find.player = q
      OBVIOUS
    <3> HIDE DEF find
    <3>3. /\ DOMAIN Append(s.submissions, find) = 1..(n + 1)
          /\ Append(s.submissions, find)[n + 1] = find
          /\ \A i \in 1..n : Append(s.submissions, find)[i] = s.submissions[i]
          /\ DOMAIN s.submissions = 1..n
      BY <3>1
    <3>4. t.submissions = Append(s.submissions, find)
      BY <2>2 DEF find
    <3> HIDE DEF n
    <3> QED BY <3>2, <3>3, <3>4
  <2> QED BY <1>2, <2>1, <2>2
<1>5. FoundBy(t, p) = FoundBy(s, p) /\ FoundBy(s, p) \subseteq 1..n
  BY <1>1, <1>3, <1>4 DEF FoundBy
<1>6. \A w : Holders(t, w) = Holders(s, w)
  BY <1>3, <1>4
<1>7. \A i \in 1..n : Counts(t, i) <=> Counts(s, i)
  <2> HIDE DEF Holders, n
  <2> QED BY <1>3, <1>4, <1>6
<1>8. F(t) = F(s)
  <2> HIDE DEF Counts, n
  <2> QED BY <1>4, <1>5, <1>7
<1>9. \A v : DuelScore(v, p) = SumFunction(F(v))
  BY DEF DuelScore
<1> HIDE DEF F
<1> QED BY <1>8, <1>9 DEF t

\* THEOREM: the score of a player who has finished a word hunt never falls again
\* (wordDuel.ts, openUntil).
THEOREM ScoresStand == TableSpec => ScoreStands
<1>1. TableInit => TableShape(table)
  BY TableStarts DEF TableInit
<1>2. TableShape(table) /\ [Act]_table => TableShape(table)'
  BY ShapeIsKept
<1>3. TableShape(table) /\ [Act]_table =>
        [table.game = "wordDuel" =>
           \A p \in Range(table.finishedBy) : DuelScore(table', p) >= DuelScore(table, p)]_table
  <2> SUFFICES ASSUME TableShape(table), Act, table.game = "wordDuel", NEW p \in Range(table.finishedBy)
               PROVE  DuelScore(table', p) >= DuelScore(table, p)
    OBVIOUS
  <2>1. PICK q \in Seats : \E c \in WordDuelChoices(table, q) : table' = WordDuelApply(table, q, c)
    BY Dispatched DEF Act
  <2>2. HuntShape(table)
    BY DEF TableShape
  <2>3. DuelScore(table', p) = DuelScore(table, p) /\ DuelScore(table, p) \in Nat
    BY <2>1, <2>2, ScoreIsKept, ScoreIsNat
  <2> QED BY <2>3
<1> QED BY <1>1, <1>2, <1>3, PTL DEF TableSpec, ScoreStands
=============================================================================
