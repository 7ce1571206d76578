---------------------------- MODULE WatchTogether ----------------------------
(***************************************************************************)
(* Watching a film together: the WatchTogetherSession of two phones        *)
(* (packages/core/src/sync/watchSession.ts, anchor.ts) and the screen that *)
(* drives it (apps/mobile/src/screens/sync/useWatchTogether.ts,            *)
(* WatchTogetherScreen.tsx).                                               *)
(*                                                                         *)
(* A line is the epoch of the host's anchor and whether it plays; where    *)
(* on the film it runs, at which rate, and the drift correction along it   *)
(* are not modelled.  When a follower gets a line that plays, its estimate *)
(* of the host's clock decides whether the start instant has passed: the   *)
(* model allows either answer.  Commands travel on the reliable channel,   *)
(* heartbeats on the realtime channel, where they are lost, or overtake    *)
(* commands still being retransmitted.                                     *)
(***************************************************************************)
EXTENDS Integers, Sequences, SequencesExt

CONSTANTS
  Phones,          \* the two phones
  AutoJoin,        \* accept a peer's session without asking (not in the app)
  MaxSessionId,    \* watch sessions that are ever created; smaller ids win
  MaxQueries,      \* content queries that are ever asked
  MaxEpoch,        \* commands of one session
  MaxInFlight,     \* messages under way beyond which users take no action
  MaxWatchLosses   \* give-ups of the reliable channel and lost heartbeats

ASSUME WatchAssumption ==
  /\ \E a, b \in Phones : a # b /\ Phones = {a, b}
  /\ AutoJoin \in BOOLEAN
  /\ {MaxSessionId, MaxQueries, MaxEpoch, MaxInFlight, MaxWatchLosses} \subseteq Nat

VARIABLES
  watch,        \* per phone: its WatchTogetherSession
  media,        \* per phone: the player runs
  air,          \* per phone: the messages under way from it
  usedIds,      \* session ids drawn so far
  queries,      \* content queries asked so far
  watchLosses

watchVars == <<watch, media, air, usedIds, queries, watchLosses>>

Peer(p) == CHOOSE q \in Phones : q # p

NoLine == [epoch |-> 0, playing |-> FALSE]
Line(e, playing) == [epoch |-> e, playing |-> playing]

\* A new WatchTogetherSession; "off" while the screen is not open.
NewWatch(state) ==
  [state |-> state, role |-> "none", sid |-> 0, anchor |-> NoLine, epoch |-> 0,
   query |-> 0, invite |-> 0, peerPresent |-> FALSE, timer |-> 0]

WatchInit ==
  /\ watch = [p \in Phones |-> NewWatch("idle")]
  /\ media = [p \in Phones |-> FALSE]
  /\ air = [p \in Phones |-> <<>>]
  /\ usedIds = {} /\ queries = 0 /\ watchLosses = 0

IsActive(w) == w.state \in {"hosting", "following"}

\* finish(): everything but the player goes back to where it was.
Finished(w) == NewWatch("ended")

Sent(p, m) == air' = [air EXCEPT ![p] = Append(@, m)]

MayWatch == \A p \in Phones : Len(air[p]) < MaxInFlight

----------------------------------------------------------------------------
(* Lines.                                                                   *)

Supersedes(next, current) == current = NoLine \/ next.epoch >= current.epoch

\* A bug: any line is taken for a fresher reading of the one held.
MutantSameLine(next, current) == current # NoLine

SameLine(next, current) == current # NoLine /\ next.epoch = current.epoch

\* applyAnchor: a heartbeat of the same line leaves the player alone; a line
\* that plays starts the player now, or parks it until its instant.
ApplyAnchor(p, w, a, started) ==
  IF SameLine(a, w.anchor)
    THEN /\ watch' = [watch EXCEPT ![p] = [w EXCEPT !.anchor = a]]
         /\ UNCHANGED media
    ELSE /\ watch' = [watch EXCEPT ![p] =
              [w EXCEPT !.anchor = a,
                        !.timer = IF a.playing /\ ~started THEN a.epoch ELSE 0]]
         /\ media' = [media EXCEPT ![p] = a.playing /\ started]

\* beginPlayback, if the line has not been replaced while the timer ran.
StartTimer(p) ==
  /\ watch[p].timer # 0
  /\ watch' = [watch EXCEPT ![p].timer = 0]
  /\ media' = [media EXCEPT ![p] = @ \/ watch[p].anchor.epoch = watch[p].timer]
  /\ UNCHANGED <<air, usedIds, queries, watchLosses>>

----------------------------------------------------------------------------
(* The screen: opening and closing it, looking for the same film.           *)

OpenScreen(p) ==
  /\ watch[p].state = "off"
  /\ watch' = [watch EXCEPT ![p] = NewWatch("idle")]
  /\ UNCHANGED <<media, air, usedIds, queries, watchLosses>>

QueryPeerContent(p) ==
  /\ watch[p].state \in {"idle", "ended"} /\ watch[p].invite = 0
  /\ MayWatch /\ queries < MaxQueries
  /\ queries' = queries + 1
  /\ watch' = [watch EXCEPT ![p].state = "matching", ![p].query = queries']
  /\ Sent(p, [type |-> "query", id |-> queries'])
  /\ UNCHANGED <<media, usedIds, watchLosses>>

QueryTimeout(p) ==
  /\ watch[p].query # 0
  /\ watch' = [watch EXCEPT ![p].query = 0,
                 ![p].state = IF @ = "matching" THEN "idle" ELSE @]
  /\ UNCHANGED <<media, air, usedIds, queries, watchLosses>>

\* end(): an invitation is declined, a query dropped, a session said goodbye
\* to.  It is what the screen calls when the user leaves, or leaves the party.
Ending(p) ==
  LET w == watch[p] IN
  CASE w.state = "invited" ->
         /\ watch' = [watch EXCEPT ![p].invite = 0, ![p].state = "idle"]
         /\ Sent(p, [type |-> "farewell", sid |-> w.invite])
    [] w.state \in {"matching", "ready"} ->
         /\ watch' = [watch EXCEPT ![p].query = 0, ![p].state = "idle"]
         /\ UNCHANGED air
    [] IsActive(w) ->
         /\ watch' = [watch EXCEPT ![p] = Finished(w)]
         /\ Sent(p, [type |-> "farewell", sid |-> w.sid])
    [] OTHER -> UNCHANGED <<watch, air>>

EndWatch(p) ==
  /\ IsActive(watch[p]) /\ MayWatch
  /\ Ending(p)
  /\ UNCHANGED <<media, usedIds, queries, watchLosses>>

\* The screen goes away: end(), then dispose().
CloseScreen(p) ==
  LET w == watch[p] IN
  /\ w.state # "off" /\ MayWatch
  /\ watch' = [watch EXCEPT ![p] = NewWatch("off")]
  /\ IF w.state = "invited" \/ IsActive(w)
       THEN Sent(p, [type |-> "farewell", sid |->
                       IF w.state = "invited" THEN w.invite ELSE w.sid])
       ELSE UNCHANGED air
  /\ media' = [media EXCEPT ![p] = FALSE]
  /\ UNCHANGED <<usedIds, queries, watchLosses>>

----------------------------------------------------------------------------
(* Creating and joining a session.                                          *)

\* The screen offers it when the peer has the film and no invitation waits.
CreateWatch(p, id) ==
  /\ watch[p].state = "ready" /\ watch[p].invite = 0 /\ MayWatch
  /\ usedIds' = usedIds \cup {id}
  /\ ApplyAnchor(p, [watch[p] EXCEPT !.state = "hosting", !.role = "host",
                       !.sid = id, !.epoch = 1, !.query = 0,
                       !.peerPresent = FALSE],
                 Line(1, FALSE), FALSE)
  /\ Sent(p, [type |-> "create", sid |-> id])
  /\ UNCHANGED <<queries, watchLosses>>

\* acceptInvite of session id, from a session in state w.
AcceptInvited(p, w, id, queue) ==
  /\ ApplyAnchor(p, [w EXCEPT !.state = "following", !.role = "guest",
                       !.sid = id, !.epoch = 1, !.invite = 0, !.timer = 0,
                       !.peerPresent = TRUE, !.anchor = NoLine],
                 Line(1, FALSE), FALSE)
  /\ air' = [queue EXCEPT ![p] = Append(@, [type |-> "join", sid |-> id])]

JoinWatch(p) ==
  /\ watch[p].invite # 0 /\ MayWatch
  /\ AcceptInvited(p, watch[p], watch[p].invite, air)
  /\ UNCHANGED <<usedIds, queries, watchLosses>>

DeclineWatch(p) ==
  /\ watch[p].invite # 0 /\ MayWatch
  /\ watch' = [watch EXCEPT ![p].invite = 0, ![p].state = "idle"]
  /\ Sent(p, [type |-> "farewell", sid |-> watch[p].invite])
  /\ UNCHANGED <<media, usedIds, queries, watchLosses>>

----------------------------------------------------------------------------
(* Commands.                                                                *)

Kinds == {"play", "pause", "seek", "rate"}

\* The host's next line: play and a seek while playing schedule a start, a
\* change of rate while playing runs on at once.
NextPlaying(w, kind) == kind = "play" \/ (kind \in {"seek", "rate"} /\ w.anchor.playing)

Publish(p, kind, queue) ==
  LET w == [watch[p] EXCEPT !.epoch = @ + 1]
      a == Line(w.epoch, NextPlaying(w, kind))
  IN  /\ ApplyAnchor(p, w, a, kind = "rate")
      /\ air' = [queue EXCEPT ![p] =
                   Append(@, [type |-> "command", sid |-> w.sid, anchor |-> a])]

Command(p, kind) ==
  /\ IsActive(watch[p]) /\ MayWatch
  /\ IF watch[p].role = "guest"
       THEN /\ Sent(p, [type |-> "request", sid |-> watch[p].sid, kind |-> kind])
            /\ UNCHANGED <<watch, media>>
       ELSE /\ watch[p].epoch < MaxEpoch
            /\ Publish(p, kind, air)
  /\ UNCHANGED <<usedIds, queries, watchLosses>>

\* tick(): the line has run past the end of the film, so the host stops it.
FilmEnds(p) ==
  /\ watch[p].role = "host" /\ watch[p].anchor.playing /\ watch[p].timer = 0
  /\ watch[p].epoch < MaxEpoch /\ MayWatch
  /\ Publish(p, "pause", air)
  /\ UNCHANGED <<usedIds, queries, watchLosses>>

\* heartbeat(): the line again, never one whose start is still scheduled.
Heartbeat(p) ==
  LET w == watch[p] IN
  /\ w.role = "host" /\ w.peerPresent /\ w.anchor # NoLine
  /\ w.timer = 0
  /\ \A i \in 1..Len(air[p]) : air[p][i].type # "beat"
  /\ Sent(p, [type |-> "beat", sid |-> w.sid, anchor |-> w.anchor])
  /\ UNCHANGED <<watch, media, usedIds, queries, watchLosses>>

----------------------------------------------------------------------------
(* Messages.  rest is what is under way once the message is taken.          *)

OnQuery(p, m, rest) ==
  /\ \E have \in BOOLEAN :
       air' = [rest EXCEPT ![p] =
                 Append(@, [type |-> "reply", id |-> m.id, have |-> have])]
  /\ UNCHANGED <<watch, media>>

OnReply(p, m, rest) ==
  /\ watch' = IF watch[p].query # m.id \/ watch[p].query = 0 THEN watch
              ELSE [watch EXCEPT ![p].query = 0,
                      ![p].state = IF m.have THEN "ready" ELSE "idle"]
  /\ air' = rest
  /\ UNCHANGED media

\* Two sessions were created at once: the smaller id wins, unless the peer has
\* already joined ours.
OnCreate(p, m, rest) ==
  LET w       == watch[p]
      hosting == w.role = "host" /\ IsActive(w)
      yielded == IF hosting THEN Finished(w) ELSE w
  IN  IF hosting /\ (w.peerPresent \/ m.sid >= w.sid)
        THEN air' = rest /\ UNCHANGED <<watch, media>>
        ELSE \/ AutoJoin /\ AcceptInvited(p, yielded, m.sid, rest)
             \/ /\ ~AutoJoin
                /\ watch' = [watch EXCEPT ![p] =
                     [yielded EXCEPT !.invite = m.sid, !.state = "invited"]]
                /\ air' = rest
                /\ UNCHANGED media

OnJoin(p, m, rest) ==
  LET w == watch[p] IN
  /\ watch' = [watch EXCEPT ![p].peerPresent =
                 @ \/ (w.role = "host" /\ IsActive(w) /\ m.sid = w.sid)]
  /\ air' = rest
  /\ UNCHANGED media

\* A withdrawn invitation, the end of the session, or neither.
OnFarewell(p, m, rest) ==
  LET w == watch[p] IN
  /\ watch' = [watch EXCEPT ![p] =
       IF w.invite = m.sid /\ w.sid = 0
         THEN [w EXCEPT !.invite = 0, !.state = "idle"]
         ELSE IF w.sid = m.sid THEN Finished(w) ELSE w]
  /\ air' = rest
  /\ UNCHANGED media

\* A request to the host is honoured, unless it comes too soon after another;
\* a line from the host is followed if it supersedes the one held.
OnCommand(p, m, rest) ==
  LET w == watch[p]
      heard == IsActive(w) /\ m.sid = w.sid
  IN  \/ /\ heard /\ w.role = "host" /\ m.type = "request" /\ w.epoch < MaxEpoch
         /\ Publish(p, m.kind, rest)
      \/ /\ heard /\ w.role = "guest" /\ m.type # "request"
         /\ Supersedes(m.anchor, w.anchor)
         /\ \E started \in BOOLEAN : ApplyAnchor(p, w, m.anchor, started)
         /\ air' = rest
      \/ /\ heard /\ w.role = "guest" =>
              IF m.type = "request" THEN TRUE ELSE ~Supersedes(m.anchor, w.anchor)
         /\ air' = rest /\ UNCHANGED <<watch, media>>

\* Phone p takes the i-th message from its peer: the oldest, or a heartbeat
\* that has overtaken the ones before it.
TakeWatch(p, i) ==
  LET q    == Peer(p)
      m    == air[q][i]
      rest == [air EXCEPT ![q] = RemoveAt(@, i)]
  IN  /\ i = 1 \/ m.type = "beat"
      /\ \/ watch[p].state = "off" /\ air' = rest /\ UNCHANGED <<watch, media>>
         \/ /\ watch[p].state # "off"
            /\ \/ m.type = "query" /\ OnQuery(p, m, rest)
               \/ m.type = "reply" /\ OnReply(p, m, rest)
               \/ m.type = "create" /\ OnCreate(p, m, rest)
               \/ m.type = "join" /\ OnJoin(p, m, rest)
               \/ m.type = "farewell" /\ OnFarewell(p, m, rest)
               \/ m.type \in {"command", "request", "beat"} /\ OnCommand(p, m, rest)
      /\ UNCHANGED <<usedIds, queries, watchLosses>>

WatchMessageLost(p, i) ==
  /\ watchLosses < MaxWatchLosses
  /\ watchLosses' = watchLosses + 1
  /\ i = 1 \/ air[p][i].type = "beat"
  /\ air' = [air EXCEPT ![p] = RemoveAt(@, i)]
  /\ UNCHANGED <<watch, media, usedIds, queries>>

\* The peer session closes for good: both sessions finish, and the screens
\* build new ones on the next peer session.
PeerSessionCloses ==
  /\ watchLosses < MaxWatchLosses
  /\ watchLosses' = watchLosses + 1
  /\ watch' = [p \in Phones |->
       IF watch[p].state = "off" THEN watch[p] ELSE NewWatch("idle")]
  /\ media' = [p \in Phones |-> FALSE]
  /\ air' = [p \in Phones |-> <<>>]
  /\ UNCHANGED <<usedIds, queries>>

----------------------------------------------------------------------------
TakesMessage(p) == \E i \in 1..Len(air[Peer(p)]) : TakeWatch(p, i)

WatchNext ==
  \/ \E p \in Phones :
       \/ TakesMessage(p) \/ StartTimer(p) \/ Heartbeat(p) \/ QueryTimeout(p)
       \/ FilmEnds(p) \/ OpenScreen(p) \/ CloseScreen(p) \/ QueryPeerContent(p)
       \/ EndWatch(p)
       \/ \E id \in 1..MaxSessionId \ usedIds : CreateWatch(p, id)
       \/ JoinWatch(p) \/ DeclineWatch(p)
       \/ \E kind \in Kinds : Command(p, kind)
       \/ \E i \in 1..Len(air[p]) : WatchMessageLost(p, i)
  \/ PeerSessionCloses

WatchSpec == WatchInit /\ [][WatchNext]_watchVars

\* Timers fire, heartbeats go out every two seconds, and what is under way
\* arrives; no user has to do anything.
WatchFairness ==
  \A p \in Phones : /\ WF_watchVars(TakesMessage(p))
                    /\ WF_watchVars(StartTimer(p))
                    /\ WF_watchVars(Heartbeat(p))

FairWatchSpec == WatchSpec /\ WatchFairness

----------------------------------------------------------------------------
(* Properties.                                                             *)

\* The player of a phone in a session does what the line it holds says: it
\* stands while the line is paused, and while the line plays it runs, or the
\* timer of that very line is still to start it; whatever order lines and
\* heartbeats come in, and whatever the clock estimate says.
PlayerFollowsLine ==
  \A p \in Phones :
    LET w == watch[p] IN
    IsActive(w) /\ w.anchor # NoLine =>
      IF w.anchor.playing THEN media[p] \/ w.timer = w.anchor.epoch
                          ELSE ~media[p]

InOneSession(p) ==
  /\ watch[p].state = "hosting" /\ watch[p].peerPresent
  /\ watch[Peer(p)].state = "following" /\ watch[Peer(p)].sid = watch[p].sid

\* A follower that has missed a command is brought back onto the host's line by
\* its heartbeats, or the session ends.
LineShared ==
  \A p \in Phones :
    InOneSession(p) => watch[Peer(p)].anchor.epoch = watch[p].anchor.epoch

============================================================================
