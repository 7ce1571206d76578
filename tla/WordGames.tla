----------------------------- MODULE WordGames ------------------------------
(***************************************************************************)
(* Word games: word chain, word duel, and draw & guess with its spelling   *)
(* rules (normaliseGuess, levenshtein).  A word is the sequence of its     *)
(* letters; the dictionary and the letters of a grid are parameters.  A    *)
(* stroke is only counted: nothing in the rules reads its points.          *)
(***************************************************************************)
EXTENDS GameContract

CONSTANTS
  Dictionary,               \* wordList.ts
  WordLimit,                \* wordChain.ts: WORD_LIMIT, 30
  GridSide, Grids,          \* wordDuel.ts: GRID_SIZE, 4; what drawLetter() may deal
  MaxSubmissions,           \* wordDuel.ts: MAX_SUBMISSIONS_PER_PLAYER, 60
  Artists,                  \* players of draw & guess, 2 to 6
  DrawRounds, Vocabulary,   \* drawAndGuess.ts: rounds, WORDS
  Glyphs, Folded,           \* what may be typed; the letter a glyph folds to, or Break
  Typed,                    \* the guesses that are typed
  MaxStrokes, MaxGuessesPerRound, FeedLimit   \* drawAndGuess.ts: 400, 200, 40

Break == "break"

ASSUME WordAssumption ==
  /\ {WordLimit, GridSide, MaxSubmissions, DrawRounds, MaxStrokes, MaxGuessesPerRound, FeedLimit}
       \subseteq Nat \ {0}
  /\ Artists \in 2..6
  /\ \A w \in Dictionary \cup Vocabulary : w \in Seq(Glyphs) /\ w # <<>>
  /\ Grids \subseteq [Cells(GridSide * GridSide) -> Glyphs]
  /\ Folded \in [Glyphs -> Glyphs \cup {Break}]
  /\ Typed \subseteq Seq(Glyphs)

-----------------------------------------------------------------------------
(* Word chain: a word starts with the letter the last one ended on; a pass *)
(* loses.                                                                  *)

WordChainNew == {[game |-> "wordChain", words |-> <<>>, turn |-> 1, loser |-> Nobody]}

ChainOver(s) == s.loser # Nobody \/ Len(s.words) >= WordLimit

\* requiredLetter(), findPlayableWord(): what may follow the chain.
Playable(words) ==
  {w \in Dictionary : /\ w \notin Range(words)
                      /\ words # <<>> => Head(w) = Last(Last(words))}

WordChainChoices(s, p) ==
  IF ChainOver(s) \/ p # s.turn THEN {} ELSE Playable(s.words) \cup {<<>>}

\* <<>> is a pass.
WordChainApply(s, p, w) ==
  IF w = <<>> THEN [s EXCEPT !.loser = p]
  ELSE [s EXCEPT !.words = Append(@, w), !.turn = Rival(p)]

WordChainStatus(s) ==
  IF s.loser # Nobody THEN Won({Rival(s.loser)})
  ELSE IF Len(s.words) >= WordLimit THEN Drawn ELSE InProgress

WordChainTurn(s) == IF ChainOver(s) THEN Nobody ELSE s.turn

WordChainDecoded(s) ==
  Decoded(s, /\ Len(s.words) <= WordLimit
             /\ \A i \in DOMAIN s.words : s.words[i] \in Playable(SubSeq(s.words, 1, i - 1))
             /\ s.turn = 1 + (Len(s.words) % 2))

-----------------------------------------------------------------------------
(* Word duel: both hunt the same grid at once; a word both found while     *)
(* both were hunting counts for neither.                                   *)

WordDuelNew ==
  {[game |-> "wordDuel", grid |-> g, submissions |-> <<>>, finishedBy |-> <<>>,
    openUntil |-> -1] : g \in Grids}

\* neighbours()
Touching(i, j) ==
  LET away(m, n) == IF m > n THEN m - n ELSE n - m
  IN  /\ i # j
      /\ away(i \div GridSide, j \div GridSide) <= 1
      /\ away(i % GridSide, j % GridSide) <= 1

\* pathSpells()
PathSpells(grid, word, path) ==
  /\ IsInjective(path)
  /\ \A i \in DOMAIN path : grid[path[i]] = word[i]
  /\ \A i \in 1..(Len(path) - 1) : Touching(path[i], path[i + 1])

PathsOf(grid, word) ==
  {path \in [1..Len(word) -> Cells(GridSide * GridSide)] : PathSpells(grid, word, path)}

FoundBy(s, p) == {i \in DOMAIN s.submissions : s.submissions[i].player = p}

WordDuelChoices(s, p) ==
  IF p \in Range(s.finishedBy) THEN {}
  ELSE {[type |-> "finish"]}
    \cup UNION {{[type |-> "submit", word |-> w, path |-> path] : path \in PathsOf(s.grid, w)} :
           w \in {w \in Dictionary : /\ \A i \in FoundBy(s, p) : s.submissions[i].word # w
                                     /\ Cardinality(FoundBy(s, p)) < MaxSubmissions}}

WordDuelApply(s, p, a) ==
  IF a.type = "finish"
    THEN [s EXCEPT !.finishedBy = Append(@, p),
                   !.openUntil  = IF s.finishedBy = <<>> THEN Len(s.submissions) ELSE @]
    ELSE [s EXCEPT !.submissions = Append(@, [player |-> p, word |-> a.word, path |-> a.path])]

\* scoreForLength()
ScoreForLength(n) ==
  CASE n <= 4 -> 1 [] n = 5 -> 2 [] n = 6 -> 3 [] n = 7 -> 5 [] OTHER -> 11

\* Mutant of scores(): the words found after a player stopped cancel too.
MutantHuntBoundary(s) == Len(s.submissions)

\* Only words found while everybody was hunting cancel.
HuntBoundary(s) == IF s.openUntil < 0 THEN Len(s.submissions) ELSE s.openUntil

\* scores()
DuelScore(s, p) ==
  LET holders(w) == {s.submissions[i].player : i \in {i \in 1..HuntBoundary(s) : s.submissions[i].word = w}}
      counts(i)  == i > HuntBoundary(s) \/ holders(s.submissions[i].word) # Seats
  IN  SumFunction([i \in FoundBy(s, p) |->
                     IF counts(i) THEN ScoreForLength(Len(s.submissions[i].word)) ELSE 0])

WordDuelStatus(s) ==
  IF Len(s.finishedBy) < 2 THEN InProgress ELSE ByScore([p \in Seats |-> DuelScore(s, p)])

WordDuelDecoded(s) ==
  Decoded(s, /\ Len(s.submissions) <= 2 * MaxSubmissions
             /\ Len(s.finishedBy) <= 2
             /\ s.openUntil \in -1..(2 * MaxSubmissions))

-----------------------------------------------------------------------------
(* Spelling: two phones must fold a guess to the same letters, and agree   *)
(* on how far it is from the word.                                         *)

\* normaliseGuess(): runs of what is not a letter become one space, none at the ends.
NormaliseGuess(raw) ==
  FoldLeft(LAMBDA acc, g :
             IF Folded[g] = Break THEN [acc EXCEPT !.pending = TRUE]
             ELSE [out |-> acc.out \o (IF acc.pending /\ acc.out # <<>> THEN <<" ">> ELSE <<>>)
                                   \o <<Folded[g]>>,
                   pending |-> FALSE],
           [out |-> <<>>, pending |-> FALSE], raw).out

\* One row of the table of levenshtein(), after the i-th letter of a.
EditRow(a, b, i, previous) ==
  LET row[j \in 0..Len(b)] ==
        IF j = 0 THEN i
        ELSE Min({previous[j - 1] + (IF a[i] = b[j] THEN 0 ELSE 1), previous[j] + 1, row[j - 1] + 1})
  IN  row

Levenshtein(a, b) ==
  FoldLeft(LAMBDA previous, i : EditRow(a, b, i, previous),
           [j \in 0..Len(b) |-> j], [i \in DOMAIN a |-> i])[Len(b)]

IsCloseGuess(guess, answer) ==
  /\ guess # answer
  /\ Len(guess) - Len(answer) \in -1..1
  /\ Levenshtein(guess, answer) = 1

\* Reference: one letter changed, left out or put in.
OneEditAway(a, b) ==
  LET shorter(x, y) == \E i \in DOMAIN y : RemoveAt(y, i) = x
  IN  \/ shorter(a, b) \/ shorter(b, a)
      \/ Len(a) = Len(b) /\ Cardinality({i \in DOMAIN a : a[i] # b[i]}) = 1

-----------------------------------------------------------------------------
(* Draw & guess: one draws, the others guess, all at the same time. *)

ArtSeats  == 1..Artists
Unsolved  == [p \in ArtSeats |-> FALSE]

DrawAndGuessNew ==
  {[game |-> "drawAndGuess", round |-> 0, words |-> ws, strokes |-> 0, guesses |-> <<>>,
    solved |-> Unsolved, guessCount |-> 0, scores |-> [p \in ArtSeats |-> 0]] :
      ws \in {ws \in [Cells(DrawRounds) -> Vocabulary] :
                DrawRounds <= Cardinality(Vocabulary) => IsInjective(ws)}}

DrawFinished(s) == s.round >= DrawRounds
Drawer(s)       == 1 + (s.round % Artists)

DrawAndGuessChoices(s, p) ==
  IF DrawFinished(s) THEN {}
  ELSE IF p = Drawer(s)
    THEN {[type |-> t] : t \in {"endRound"}
                              \cup (IF s.strokes < MaxStrokes THEN {"stroke"} ELSE {})
                              \cup (IF s.strokes > 0 THEN {"undo", "clear"} ELSE {})}
  ELSE {[type |-> "guess", text |-> t] :
          t \in {t \in Typed : /\ ~s.solved[p]
                               /\ s.guessCount < MaxGuessesPerRound
                               /\ NormaliseGuess(t) # <<>>}}

\* startNextRound()
NextDrawing(s) ==
  [s EXCEPT !.round = @ + 1, !.strokes = 0, !.guesses = <<>>, !.solved = Unsolved,
            !.guessCount = 0]

\* solveReward()
SolveReward(already) == IF already = 0 THEN 3 ELSE IF already = 1 THEN 2 ELSE 1

\* The feed keeps the latest guesses; only a wrong one shows its text.
Fed(feed, entry) ==
  LET all == Append(feed, entry)
  IN  SubSeq(all, Max({1, Len(all) - FeedLimit + 1}), Len(all))

GuessApplied(s, p, text) ==
  LET answer  == NormaliseGuess(s.words[s.round])
      guess   == NormaliseGuess(text)
      close   == IsCloseGuess(guess, answer)
      heard(kind, shown) ==
        [s EXCEPT !.guesses = Fed(@, [player |-> p, kind |-> kind, text |-> shown]),
                  !.guessCount = @ + 1]
      already == Cardinality({q \in ArtSeats : s.solved[q]})
      right   == [heard("correct", <<>>) EXCEPT
                    !.solved[p] = TRUE,
                    !.scores = [q \in ArtSeats |->
                                  @[q] + (IF q = p THEN SolveReward(already) ELSE 0)
                                       + (IF q = Drawer(s) THEN 1 ELSE 0)]]
  IN  IF guess # answer THEN IF close THEN heard("close", <<>>) ELSE heard("wrong", text)
      ELSE IF \A q \in ArtSeats \ {Drawer(s)} : right.solved[q] THEN NextDrawing(right) ELSE right

DrawAndGuessApply(s, p, a) ==
  CASE a.type = "stroke"   -> [s EXCEPT !.strokes = @ + 1]
    [] a.type = "undo"     -> [s EXCEPT !.strokes = @ - 1]
    [] a.type = "clear"    -> [s EXCEPT !.strokes = 0]
    [] a.type = "endRound" -> NextDrawing(s)
    [] a.type = "guess"    -> GuessApplied(s, p, a.text)

\* Level only when everybody is.
DrawAndGuessStatus(s) ==
  LET best == {p \in ArtSeats : \A q \in ArtSeats : s.scores[q] <= s.scores[p]}
  IN  IF ~DrawFinished(s) THEN InProgress ELSE IF best = ArtSeats THEN Drawn ELSE Won(best)

DrawAndGuessDecoded(s) ==
  Decoded(s, /\ s.round \in 0..DrawRounds
             /\ s.strokes <= MaxStrokes
             /\ Len(s.guesses) <= FeedLimit
             /\ \A i \in DOMAIN s.guesses : s.guesses[i].kind # "wrong" => s.guesses[i].text = <<>>
             /\ s.guessCount <= MaxGuessesPerRound)

\* The feed shows no guess that is a letter away from the word: it would give it away.
HintsAreRight(s) ==
  \A i \in DOMAIN s.guesses :
    LET heard == s.guesses[i]
    IN  heard.kind = "wrong" =>
          ~OneEditAway(NormaliseGuess(heard.text), NormaliseGuess(s.words[s.round]))

-----------------------------------------------------------------------------
(* The games on the table. *)

WordNew == WordChainNew \cup WordDuelNew \cup DrawAndGuessNew

WordChoices(s, p) ==
  CASE s.game = "wordChain"    -> WordChainChoices(s, p)
    [] s.game = "wordDuel"     -> WordDuelChoices(s, p)
    [] s.game = "drawAndGuess" -> DrawAndGuessChoices(s, p)

WordApply(s, p, c) ==
  CASE s.game = "wordChain"    -> WordChainApply(s, p, c)
    [] s.game = "wordDuel"     -> WordDuelApply(s, p, c)
    [] s.game = "drawAndGuess" -> DrawAndGuessApply(s, p, c)

WordStatus(s) ==
  CASE s.game = "wordChain"    -> WordChainStatus(s)
    [] s.game = "wordDuel"     -> WordDuelStatus(s)
    [] s.game = "drawAndGuess" -> DrawAndGuessStatus(s)

\* currentTurn() names nobody while several may act.
WordTurn(s) == IF s.game = "wordChain" THEN WordChainTurn(s) ELSE Nobody

WordDecoded(s) ==
  CASE s.game = "wordChain"    -> WordChainDecoded(s)
    [] s.game = "wordDuel"     -> WordDuelDecoded(s)
    [] s.game = "drawAndGuess" -> DrawAndGuessDecoded(s)

=============================================================================
