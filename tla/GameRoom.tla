------------------------------ MODULE GameRoom ------------------------------
(***************************************************************************)
(* A turn-based game between two phones: the game session each of them     *)
(* replays (packages/games/src/runtime.ts), the room around it             *)
(* (apps/mobile/src/screens/play/useGameRoom.ts), the invitation centre of *)
(* the invited phone (inviteCentre.ts) and the game tables of each phone's *)
(* database (packages/db/src/repositories.ts).                             *)
(*                                                                         *)
(* The rules of the game are what turn-based games share: a move hands the *)
(* turn over or earns another one, and the game is over after MaxMoves     *)
(* moves.  A position is the sequence of the moves that led to it.  One    *)
(* game is followed from its first invitation; a rematch is another game   *)
(* with another id.                                                        *)
(*                                                                         *)
(* Moves and questions travel on the reliable channel, in order and once,  *)
(* unless the channel gives up.  A snapshot travels on the realtime        *)
(* channel: it may be lost, and it may overtake messages sent before it    *)
(* that are still being retransmitted.                                     *)
(***************************************************************************)
EXTENDS Integers, Sequences, FiniteSets, SequencesExt

CONSTANTS
  MaxMoves,       \* moves until the game is decided
  MaxInvites,     \* invitations the host's rooms may make
  MaxGameQueue,      \* messages in flight beyond which users take no action
  MaxGameMishaps  \* give-ups, outages, lost sessions and killed apps

ASSUME GameAssumption ==
  /\ {MaxMoves, MaxInvites, MaxGameQueue, MaxGameMishaps} \subseteq Nat
  /\ MaxMoves > 0

VARIABLES
  room,        \* per phone: phase, bound, diverged, asked and event index
  game,        \* per phone: the GameSession its room holds
  gameRow,     \* per phone: the state column of its game_sessions row
  gameLog,     \* per phone: its game_events rows, by index
  inviteId,    \* the host's latest invitation
  question,    \* the invitation the guest's phone is asking about, or 0
  settled,     \* the invitations the guest's phone has had answered
  gameWire,        \* per phone: the messages under way from it
  sessionOn,   \* a session between the phones exists
  linkUp,      \* and is CONNECTED
  gameMishaps

gameVars == <<room, game, gameRow, gameLog, inviteId, question, settled, gameWire,
              sessionOn, linkUp, gameMishaps>>

Sides == {"host", "guest"}

Other(s) == IF s = "host" THEN "guest" ELSE "host"

----------------------------------------------------------------------------
(* The game session.                                                       *)

NewGame == [board |-> <<>>, seq |-> [s \in Sides |-> 0], localSeq |-> 0,
            version |-> 0, adopted |-> -1, abandoned |-> FALSE]

\* What a move may do with the turn.
Picks == {"over", "again"}

\* currentTurn: players[0], the host, begins.
TurnOf(board) ==
  IF board = <<>> THEN "host"
  ELSE IF Last(board).pick = "again" THEN Last(board).player
  ELSE Other(Last(board).player)

IsOver(g) == g.abandoned \/ Len(g.board) >= MaxMoves

\* What applyInternal answers to the action numbered n of player p.
Outcome(g, p, n) ==
  IF IsOver(g) THEN "gameOver"
  ELSE IF n < g.seq[p] THEN "duplicate"
  ELSE IF n > g.seq[p] THEN "outOfOrder"
  ELSE IF p # TurnOf(g.board) THEN "invalid"
  ELSE "accepted"

Moved(g, p, pick) ==
  [g EXCEPT !.board = Append(@, [player |-> p, pick |-> pick]),
            !.seq[p] = @ + 1,
            !.version = @ + 1]

Submitted(g, p, pick) == [Moved(g, p, pick) EXCEPT !.localSeq = @ + 1]

SnapshotEnvelope(g) ==
  [type |-> "state", board |-> g.board, seq |-> g.seq, version |-> g.version]

\* A bug: the position is repaired and the counters are left behind.
MutantAdopted(g, e) ==
  IF e.version < g.adopted
    THEN g
    ELSE [g EXCEPT !.board = e.board, !.version = e.version,
                   !.adopted = e.version]

\* applySnapshotEnvelope on the guest: the board with its counters, unless a
\* later position of the host's has been adopted already.
Adopted(g, e) ==
  IF e.version < g.adopted
    THEN g
    ELSE [g EXCEPT !.board = e.board, !.version = e.version,
                   !.adopted = e.version, !.seq = e.seq,
                   !.localSeq = e.seq["guest"]]

----------------------------------------------------------------------------
(* The log: written at the room's event index, read back when a room opens. *)

\* appendEvent: INSERT OR REPLACE at index i.
Logged(l, i, event) ==
  IF i < Len(l) THEN [l EXCEPT ![i + 1] = event] ELSE Append(l, event)

Persisted(s, move, n) ==
  Logged(gameLog[s], room[s].index,
         [player |-> move.player, pick |-> move.pick, seq |-> n])

\* One event of replayLog on phone s; the first one refused ends the replay.
ReplayStep(s, r, event) ==
  LET own == event.player = s
      n   == IF own THEN r.game.localSeq ELSE event.seq
  IN  IF r.stopped \/ Outcome(r.game, event.player, n) # "accepted"
        THEN [r EXCEPT !.stopped = TRUE]
        ELSE [r EXCEPT !.game = IF own
                                  THEN Submitted(@, event.player, event.pick)
                                  ELSE Moved(@, event.player, event.pick),
                       !.index = @ + 1]

\* The whole log, from its first event on.
ReplayLog(s) ==
  LET upTo[n \in 0..Len(gameLog[s])] ==
        IF n = 0 THEN [game |-> NewGame, index |-> 0, stopped |-> FALSE]
                 ELSE ReplayStep(s, upTo[n - 1], gameLog[s][n])
  IN  upTo[Len(gameLog[s])]

----------------------------------------------------------------------------
NoRoom == [phase |-> "closed", bound |-> FALSE, diverged |-> FALSE,
           asked |-> FALSE, index |-> 0]

GameInit ==
  /\ room = [s \in Sides |-> NoRoom]
  /\ game = [s \in Sides |-> NewGame]
  /\ gameRow = [s \in Sides |-> "none"]
  /\ gameLog = [s \in Sides |-> <<>>]
  /\ inviteId = 0 /\ question = 0 /\ settled = {}
  /\ gameWire = [s \in Sides |-> <<>>]
  /\ sessionOn = TRUE /\ linkUp = TRUE
  /\ gameMishaps = 0

Invite(i) == [type |-> "invite", id |-> i]
InviteAck(i) == [type |-> "inviteAck", id |-> i]
Message(t) == [type |-> t]

InRoom(s) == room[s].phase # "closed"
Listening(s) == InRoom(s) /\ room[s].bound

\* The messages the effects of the room send on entering phase p.
Announced(s, p, id) ==
  CASE p = "inviting"                          -> <<Invite(id)>>
    [] p = "playing" /\ linkUp /\ s = "host"   -> <<Invite(id)>>
    [] p = "playing" /\ linkUp /\ s = "guest"  ->
         <<Message("accept"), Message("syncRequest")>>
    [] OTHER                                   -> <<>>

\* requestResync of a room in state r: at most once a second, the host sends
\* its position and the guest asks for it.
Asks(r) == ~r.asked
Resync(s, g, asks) ==
  CASE ~asks                   -> <<>>
    [] asks /\ s = "guest"     -> <<Message("syncRequest")>>
    [] asks /\ s = "host"      -> <<SnapshotEnvelope(g)>>

Mishap == gameMishaps < MaxGameMishaps /\ gameMishaps' = gameMishaps + 1

MayAct == \A s \in Sides : Len(gameWire[s]) < MaxGameQueue

----------------------------------------------------------------------------
(* Opening, building and leaving a room.                                    *)

\* The room is built on the session there is: the row is read (the host's is
\* created), the board comes from the log, and the phase from the row.
Built(s, r, id) ==
  LET row    == IF gameRow[s] = "none" THEN "invited" ELSE gameRow[s]
      phase  == IF row = "active" \/ s = "guest" THEN "playing" ELSE "inviting"
      replay == ReplayLog(s)
      repair == linkUp /\ r.diverged
  IN  /\ room' = [room EXCEPT ![s] =
                    [phase |-> phase, bound |-> TRUE,
                     diverged |-> r.diverged /\ ~linkUp,
                     asked |-> r.asked \/ repair, index |-> replay.index]]
      /\ game' = [game EXCEPT ![s] = replay.game]
      /\ gameRow' = [gameRow EXCEPT ![s] =
                       IF phase = "playing" /\ linkUp THEN "active" ELSE row]
      /\ gameWire' = [gameWire EXCEPT ![s] =
                    @ \o Resync(s, replay.game, repair /\ Asks(r))
                      \o Announced(s, phase, id)]

\* The host starts the game or takes it from the shelf of games in progress;
\* the guest takes it from the shelf.
OpenRoom(s) ==
  /\ ~InRoom(s) /\ MayAct
  /\ gameRow[s] \in (IF s = "host" THEN {"none", "active"} ELSE {"active"})
  /\ IF sessionOn
       THEN /\ Built(s, NoRoom, inviteId + 1)
            /\ IF s = "host" THEN /\ inviteId < MaxInvites
                                  /\ inviteId' = inviteId + 1
                             ELSE UNCHANGED inviteId
       ELSE /\ room' = [room EXCEPT ![s] = [NoRoom EXCEPT !.phase = "unavailable"]]
            /\ UNCHANGED <<game, gameRow, gameWire, inviteId>>
  /\ UNCHANGED <<gameLog, question, settled, sessionOn, linkUp, gameMishaps>>

\* The session went away under the room: its board goes with it.
RoomVanishes(s) ==
  /\ InRoom(s) /\ ~sessionOn /\ room[s].phase # "unavailable"
  /\ room' = [room EXCEPT ![s].phase = "unavailable"]
  /\ game' = [game EXCEPT ![s] = NewGame]
  /\ UNCHANGED <<gameRow, gameLog, inviteId, question, settled, gameWire,
                 sessionOn, linkUp, gameMishaps>>

\* A new session for the friend of an open room builds the room again.
RoomRebuilt(s) ==
  /\ InRoom(s) /\ sessionOn /\ ~room[s].bound
  /\ LET invites == s = "host" /\ gameRow[s] # "active" IN
     /\ invites => inviteId < MaxInvites
     /\ inviteId' = IF invites THEN inviteId + 1 ELSE inviteId
     /\ Built(s, room[s], inviteId')
  /\ UNCHANGED <<gameLog, question, settled, sessionOn, linkUp, gameMishaps>>

\* A game that reached a result keeps its row; one left in the middle stays on
\* the shelf; any other room is written off.
Leave(s) ==
  LET finished == room[s].phase # "unavailable" /\ IsOver(game[s])
      shelved  == IF room[s].phase = "playing" THEN "active" ELSE "abandoned"
  IN  /\ InRoom(s) /\ MayAct
      /\ gameWire' = [gameWire EXCEPT ![s] = IF Listening(s) /\ sessionOn
                                       THEN Append(@, Message("leave")) ELSE @]
      /\ gameRow' = [gameRow EXCEPT ![s] =
                       IF finished \/ @ = "none" THEN @ ELSE shelved]
      /\ room' = [room EXCEPT ![s] = NoRoom]
      /\ game' = [game EXCEPT ![s] = NewGame]
      /\ UNCHANGED <<gameLog, inviteId, question, settled, sessionOn,
                     linkUp, gameMishaps>>

----------------------------------------------------------------------------
(* The invitation.                                                          *)

AskAgain ==
  /\ Listening("host") /\ room["host"].phase = "inviting"
  /\ gameWire["host"] = <<>> /\ MayAct
  /\ gameWire' = [gameWire EXCEPT !["host"] = <<Invite(inviteId)>>]
  /\ UNCHANGED <<room, game, gameRow, gameLog, inviteId, question, settled,
                 sessionOn, linkUp, gameMishaps>>

InviteExpires ==
  /\ room["host"].phase \in {"inviting", "delivered"}
  /\ room' = [room EXCEPT !["host"].phase = "unanswered"]
  /\ UNCHANGED <<game, gameRow, gameLog, inviteId, question, settled, gameWire,
                 sessionOn, linkUp, gameMishaps>>

RetryInvite ==
  /\ Listening("host") /\ room["host"].phase = "unanswered" /\ MayAct
  /\ inviteId < MaxInvites
  /\ inviteId' = inviteId + 1
  /\ room' = [room EXCEPT !["host"].phase = "inviting"]
  /\ gameWire' = [gameWire EXCEPT !["host"] = IF sessionOn
                                        THEN Append(@, Invite(inviteId')) ELSE @]
  /\ UNCHANGED <<game, gameRow, gameLog, question, settled, sessionOn,
                 linkUp, gameMishaps>>

\* onInvite of the guest's invitation centre: a receipt for every copy, one
\* question for a game whose row is not there yet.
TakeInvite(m) ==
  LET new == m.id \notin settled /\ question # m.id /\ gameRow["guest"] = "none"
  IN  /\ gameWire' = [host |-> Tail(gameWire["host"]),
                  guest |-> Append(gameWire["guest"], InviteAck(m.id))]
      /\ question' = IF new THEN m.id ELSE question
      /\ gameRow' = IF new THEN [gameRow EXCEPT !["guest"] = "invited"] ELSE gameRow
      /\ UNCHANGED <<room, game>>

\* The guest answers: accepting opens the room on the row already written.
AcceptInvite ==
  /\ question # 0 /\ ~InRoom("guest") /\ sessionOn /\ MayAct
  /\ settled' = settled \cup {question} /\ question' = 0
  /\ Built("guest", NoRoom, 0)
  /\ UNCHANGED <<gameLog, inviteId, sessionOn, linkUp, gameMishaps>>

DeclineInvite ==
  /\ question # 0 /\ MayAct
  /\ settled' = settled \cup {question} /\ question' = 0
  /\ gameWire' = [gameWire EXCEPT !["guest"] = IF sessionOn
                THEN Append(@, Message("decline")) ELSE @]
  /\ UNCHANGED <<room, game, gameRow, gameLog, inviteId, sessionOn,
                 linkUp, gameMishaps>>

----------------------------------------------------------------------------
(* Playing.                                                                 *)

\* The phase and the row once a move has been applied.
PhaseAfter(s, g) == IF IsOver(g) THEN "ended" ELSE room[s].phase
RowAfter(s, g) == IF IsOver(g) THEN "finished" ELSE gameRow[s]

Dispatch(s, pick) ==
  LET g    == game[s]
      next == Submitted(g, s, pick)
      sent == room[s].bound /\ sessionOn
  IN  /\ room[s].phase = "playing" /\ MayAct
      /\ Outcome(g, s, g.localSeq) = "accepted"
      /\ game' = [game EXCEPT ![s] = next]
      /\ gameLog' = [gameLog EXCEPT ![s] =
                       Persisted(s, [player |-> s, pick |-> pick], g.localSeq)]
      /\ room' = [room EXCEPT ![s].index = @ + 1,
                              ![s].diverged = @ \/ ~sent,
                              ![s].phase = PhaseAfter(s, next)]
      /\ gameRow' = [gameRow EXCEPT ![s] = RowAfter(s, next)]
      /\ gameWire' = [gameWire EXCEPT ![s] =
           IF sent THEN Append(@, [type |-> "event", pick |-> pick,
                                   seq |-> g.localSeq]) ELSE @]
      /\ UNCHANGED <<inviteId, question, settled, sessionOn, linkUp,
                     gameMishaps>>

\* GAME_EVENT: applied, or ignored, or (out of order) answered with a resync.
TakeEvent(s, m) ==
  LET p       == Other(s)
      next    == Moved(game[s], p, m.pick)
      outcome == Outcome(game[s], p, m.seq)
      asks    == outcome = "outOfOrder" /\ Asks(room[s])
      rest    == [gameWire EXCEPT ![p] = Tail(@)]
  IN  \/ /\ outcome = "accepted"
         /\ game' = [game EXCEPT ![s] = next]
         /\ gameLog' = [gameLog EXCEPT ![s] =
                          Persisted(s, [player |-> p, pick |-> m.pick], m.seq)]
         /\ room' = [room EXCEPT ![s].index = @ + 1,
                                 ![s].phase = PhaseAfter(s, next)]
         /\ gameRow' = [gameRow EXCEPT ![s] = RowAfter(s, next)]
         /\ gameWire' = rest
      \/ /\ outcome # "accepted"
         /\ room' = [room EXCEPT ![s].asked = @ \/ asks]
         /\ gameWire' = [rest EXCEPT ![s] = @ \o Resync(s, game[s], asks)]
         /\ UNCHANGED <<game, gameLog, gameRow>>

TakeLeave(s) ==
  /\ game' = [game EXCEPT ![s].abandoned = ~IsOver(game[s]) \/ @]
  /\ gameRow' = [gameRow EXCEPT ![s] = IF IsOver(game[s]) THEN @ ELSE "abandoned"]
  /\ room' = [room EXCEPT ![s].phase = IF @ = "ended" THEN @ ELSE "left"]
  /\ gameWire' = [gameWire EXCEPT ![Other(s)] = Tail(@)]
  /\ UNCHANGED gameLog

\* What the host's room does with an answer to its invitation.
TakeAnswer(m) ==
  LET phase == room["host"].phase
      rest  == [gameWire EXCEPT !["guest"] = Tail(@)]
  IN  /\ \/ /\ m.type = "inviteAck"
            /\ room' = [room EXCEPT !["host"].phase =
                 IF @ = "inviting" /\ m.id = inviteId THEN "delivered" ELSE @]
            /\ gameWire' = rest /\ UNCHANGED gameRow
         \/ /\ m.type = "accept"
            /\ gameRow' = [gameRow EXCEPT !["host"] = "active"]
            /\ IF phase \in {"inviting", "delivered", "unanswered"}
                 THEN /\ room' = [room EXCEPT !["host"].phase = "playing"]
                      /\ gameWire' = [rest EXCEPT !["host"] =
                                    Append(@, Invite(inviteId))]
                 ELSE gameWire' = rest /\ UNCHANGED room
         \/ /\ m.type = "decline"
            /\ gameRow' = [gameRow EXCEPT !["host"] = "declined"]
            /\ room' = [room EXCEPT !["host"].phase = "declined"]
            /\ gameWire' = rest
      /\ UNCHANGED <<game, gameLog>>

TakeSyncRequest ==
  /\ gameWire' = [guest |-> Tail(gameWire["guest"]),
              host  |-> Append(gameWire["host"], SnapshotEnvelope(game["host"]))]
  /\ UNCHANGED <<room, game, gameRow, gameLog>>

\* The next reliable message for phone s, by whoever listens for it.
TakeMessage(s) ==
  LET p == Other(s)
      m == Head(gameWire[p])
  IN  /\ linkUp /\ gameWire[p] # <<>>
      /\ \/ m.type = "invite" /\ s = "guest" /\ TakeInvite(m) /\ UNCHANGED gameLog
         \/ m.type = "event" /\ Listening(s) /\ TakeEvent(s, m) /\ UNCHANGED question
         \/ m.type = "leave" /\ Listening(s) /\ TakeLeave(s) /\ UNCHANGED question
         \/ /\ m.type \in {"inviteAck", "accept", "decline"} /\ Listening(s)
            /\ TakeAnswer(m) /\ UNCHANGED question
         \/ /\ m.type = "syncRequest" /\ Listening(s)
            /\ TakeSyncRequest /\ UNCHANGED question
         \/ /\ m.type \notin {"invite", "state"} /\ ~Listening(s)
            /\ gameWire' = [gameWire EXCEPT ![p] = Tail(@)]
            /\ UNCHANGED <<room, game, gameRow, gameLog, question>>
      /\ UNCHANGED <<inviteId, settled, sessionOn, linkUp, gameMishaps>>

\* GAME_STATE: the guest of a turn-based game adopts the host's position.  Its
\* log is left as it is.
TakeBoard(i) ==
  LET e == gameWire["host"][i] IN
  /\ linkUp /\ e.type = "state"
  /\ gameWire' = [gameWire EXCEPT !["host"] = RemoveAt(@, i)]
  /\ IF Listening("guest")
       THEN /\ game' = [game EXCEPT !["guest"] = Adopted(@, e)]
            /\ room' = [room EXCEPT !["guest"].asked =
                          @ /\ e.version < game["guest"].adopted]
       ELSE UNCHANGED <<game, room>>
  /\ UNCHANGED <<gameRow, gameLog, inviteId, question, settled, sessionOn,
                 linkUp, gameMishaps>>

\* RESYNC_INTERVAL_MS passes.
SecondPasses(s) ==
  /\ room[s].asked
  /\ room' = [room EXCEPT ![s].asked = FALSE]
  /\ UNCHANGED <<game, gameRow, gameLog, inviteId, question, settled, gameWire,
                 sessionOn, linkUp, gameMishaps>>

----------------------------------------------------------------------------
(* What goes wrong.                                                         *)

BoardLost(i) ==
  /\ gameWire["host"][i].type = "state" /\ Mishap
  /\ gameWire' = [gameWire EXCEPT !["host"] = RemoveAt(@, i)]
  /\ UNCHANGED <<room, game, gameRow, gameLog, inviteId, question, settled,
                 sessionOn, linkUp>>

\* The reliable channel gives up on its oldest message; a move is reported to
\* the room, which asks for, or publishes, the position.
ChannelGivesUp(s) ==
  LET asks == Listening(s) /\ Head(gameWire[s]).type = "event" /\ Asks(room[s])
  IN  /\ linkUp /\ gameWire[s] # <<>> /\ Head(gameWire[s]).type # "state" /\ Mishap
      /\ room' = [room EXCEPT ![s].asked = @ \/ asks,
           ![s].diverged = @ \/ (Listening(s) /\ Head(gameWire[s]).type = "event")]
      /\ gameWire' = [gameWire EXCEPT ![s] = Tail(@) \o Resync(s, game[s], asks)]
      /\ UNCHANGED <<game, gameRow, gameLog, inviteId, question, settled,
                     sessionOn, linkUp>>

\* The messages of a queue that the reliable channel carries.
OnChannel(queue) ==
  LET upTo[n \in 0..Len(queue)] ==
        IF n = 0 THEN <<>>
                 ELSE upTo[n - 1] \o IF queue[n].type = "state" THEN <<>> ELSE <<queue[n]>>
  IN  upTo[Len(queue)]

LinkDrops ==
  /\ linkUp /\ Mishap
  /\ linkUp' = FALSE
  /\ gameWire' = [s \in Sides |-> OnChannel(gameWire[s])]
  /\ UNCHANGED <<room, game, gameRow, gameLog, inviteId, question, settled,
                 sessionOn>>

\* The link is back: a room that knows it has diverged repairs itself, and one
\* that is playing announces itself again.
LinkReturns ==
  LET repair == [s \in Sides |-> Listening(s) /\ room[s].diverged /\ Asks(room[s])]
      back(s) == IF ~Listening(s) \/ room[s].phase # "playing" THEN <<>>
                 ELSE IF s = "host" THEN <<Invite(inviteId)>>
                 ELSE <<Message("accept"), Message("syncRequest")>>
  IN  /\ sessionOn /\ ~linkUp
      /\ linkUp' = TRUE
      /\ room' = [s \in Sides |->
           IF Listening(s) THEN [room[s] EXCEPT !.diverged = FALSE,
                                                !.asked = @ \/ repair[s]]
                           ELSE room[s]]
      /\ gameWire' = [s \in Sides |-> gameWire[s] \o Resync(s, game[s], repair[s]) \o back(s)]
      /\ gameRow' = [s \in Sides |->
           IF Listening(s) /\ room[s].phase = "playing" THEN "active" ELSE gameRow[s]]
      /\ UNCHANGED <<game, gameLog, inviteId, question, settled, sessionOn,
                     gameMishaps>>

Cut(r) == [s \in Sides |-> [r[s] EXCEPT !.bound = FALSE]]

SessionCloses ==
  /\ sessionOn /\ Mishap
  /\ sessionOn' = FALSE /\ linkUp' = FALSE
  /\ gameWire' = [s \in Sides |-> <<>>]
  /\ room' = Cut(room)
  /\ UNCHANGED <<game, gameRow, gameLog, inviteId, question, settled>>

SessionOpens ==
  /\ ~sessionOn
  /\ sessionOn' = TRUE /\ linkUp' = TRUE
  /\ UNCHANGED <<room, game, gameRow, gameLog, inviteId, question, settled,
                 gameWire, gameMishaps>>

\* The operating system ends the app on one phone: only its database stays.
AppKilled(s) ==
  /\ Mishap
  /\ room' = Cut([room EXCEPT ![s] = NoRoom])
  /\ game' = [game EXCEPT ![s] = NewGame]
  /\ question' = IF s = "guest" THEN 0 ELSE question
  /\ settled' = IF s = "guest" THEN {} ELSE settled
  /\ sessionOn' = FALSE /\ linkUp' = FALSE
  /\ gameWire' = [q \in Sides |-> <<>>]
  /\ UNCHANGED <<gameRow, gameLog, inviteId>>

----------------------------------------------------------------------------
GameNext ==
  \/ \E s \in Sides :
       \/ OpenRoom(s) \/ RoomVanishes(s) \/ RoomRebuilt(s) \/ Leave(s)
       \/ \E pick \in Picks : Dispatch(s, pick)
       \/ TakeMessage(s) \/ SecondPasses(s)
       \/ ChannelGivesUp(s) \/ AppKilled(s)
  \/ AskAgain \/ InviteExpires \/ RetryInvite \/ AcceptInvite \/ DeclineInvite
  \/ \E i \in 1..Len(gameWire["host"]) : TakeBoard(i) \/ BoardLost(i)
  \/ LinkDrops \/ LinkReturns \/ SessionCloses \/ SessionOpens

GameSpec == GameInit /\ [][GameNext]_gameVars

----------------------------------------------------------------------------
(* Properties.                                                             *)

\* How many of the first n moves of a board, or of a log, are player p's.
MovesBy(moves, p, n) == Cardinality({i \in 1..n : moves[i].player = p})

\* The counters of a session say what is on its board, whatever it has been
\* through (snapshots, duplicates, a replay from the log): the next move of a
\* player is neither refused as a repeat nor as one from the future.
CountersFollowBoard ==
  \A s \in Sides :
    LET g == game[s] IN
    /\ g.version = Len(g.board)
    /\ \A p \in Sides : g.seq[p] = MovesBy(g.board, p, Len(g.board))
    /\ g.localSeq = g.seq[s]

\* The moves of the host that the guest's board shows are the ones the host
\* made, in that order, none skipped and none twice, across give-ups, resyncs
\* and rooms rebuilt from the guest's own log: the host's n-th move on that board
\* is the n-th in the host's own log.
GuestShowsHostMoves ==
  LET shown == game["guest"].board
      made  == gameLog["host"]
  IN  \A i \in DOMAIN shown : shown[i].player = "host" =>
        \E j \in DOMAIN made :
          /\ made[j].player = "host"
          /\ MovesBy(made, "host", j) = MovesBy(shown, "host", i)
          /\ made[j].pick = shown[i].pick

\* Reopening the host's room shows the position that was on its screen: the
\* log replays to the board, whether a session or the app went away.
HostReopensAsLeft ==
  InRoom("host") /\ room["host"].phase # "unavailable" =>
    ReplayLog("host").game.board = game["host"].board

\* Whatever is lost, repeated, closed or killed, the counters fit the board, the guest
\* shows the host's moves, and the host finds its game as it left it.
GameIsKept == CountersFollowBoard /\ GuestShowsHostMoves /\ HostReopensAsLeft

\* Two rooms that are playing over a live link with nothing under way, and
\* neither of which knows of a problem, show the same board.
SettledBoardsAgree ==
  /\ linkUp
  /\ \A s \in Sides : /\ Listening(s) /\ room[s].phase \in {"playing", "ended"}
                      /\ gameWire[s] = <<>> /\ ~room[s].diverged
  => game["host"].board = game["guest"].board

============================================================================
