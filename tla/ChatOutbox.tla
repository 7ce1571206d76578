------------------------------ MODULE ChatOutbox ------------------------------
(***************************************************************************)
(* One direction of a conversation: packages/core/src/messaging/           *)
(* chatProtocol.ts, the bridge to the database in apps/mobile/src/screens/ *)
(* chat/chatCenter.ts, and the message table of packages/db.               *)
(*                                                                         *)
(* A message is a row of the sender's database.  What travels is a copy of *)
(* it under a wire id: the row's own id when a protocol instance composed  *)
(* it, a fresh one when it was composed with nobody in range.  A protocol  *)
(* instance lives as long as its session; the queue is written to the      *)
(* settings table and replayed into the next instance, so that the end of  *)
(* a session stands for the death of the process as well.                  *)
(*                                                                         *)
(* The session is what PeerSession and ReliableChannel make of it: within  *)
(* one session a channel delivers in order and at most once, and after a   *)
(* message that was given up, nothing more.                                *)
(***************************************************************************)
EXTENDS Naturals, Sequences, SequencesExt, FiniteSetsExt

CONSTANTS
  NumRows,            \* messages the user may compose
  MaxSendAttempts,    \* CHAT_LIMITS.maxSendAttempts
  MaxSessions,        \* bound on the sessions of the run
  MaxGiveUps,         \* bound on messages the reliability layer gives up
  MaxReconnects       \* bound on outages a session survives

ASSUME ChatAssumption ==
  /\ {NumRows, MaxSendAttempts, MaxSessions, MaxGiveUps, MaxReconnects} \subseteq Nat
  /\ MaxSendAttempts > 0

VARIABLES
  rows,       \* messages.status of each row of the sender, "none" before it is composed
  deleted,    \* rows the sender has deleted
  copies,     \* wire ids a row has been given besides its own
  stored,     \* the persisted queue: a sequence of outbox entries
  session,    \* "none", "opening", "identified", "connected" or "reconnecting"
  chat,       \* the sender's ChatProtocol (outbox, inFlight, sentStatus, the messages not
              \* confirmed by the channel), and whether lastPersistedSize is positive
  peerChat,   \* the receiver's ChatProtocol
  inbox,      \* wire ids in the receiver's message table
  toPeer,     \* the reliable channel to the receiver: wire ids
  toAuthor,   \* the reliable channel back: receipts
  gap,        \* a message to the receiver was given up in this session
  sessions, giveUps, reconnects

chatVars == <<rows, deleted, copies, stored, session, chat, peerChat, inbox,
              toPeer, toAuthor, gap, sessions, giveUps, reconnects>>

Rows == 1..NumRows

\* A wire id: the row, and which copy of it.
Row(w) == w[1]
OwnId(r) == <<r, 0>>

NewChat == [outbox |-> <<>>, inFlight |-> {}, status |-> <<>>, unacked |-> <<>>, wrote |-> FALSE]
NewPeerChat == [seen |-> {}, toAck |-> {}, toRead |-> {}, readSent |-> {}]

ChatInit ==
  /\ rows = [r \in Rows |-> "none"]
  /\ deleted = {}
  /\ copies = [r \in Rows |-> 0]
  /\ stored = <<>>
  /\ session = "none"
  /\ chat = NewChat
  /\ peerChat = NewPeerChat
  /\ inbox = {}
  /\ toPeer = <<>>
  /\ toAuthor = <<>>
  /\ gap = FALSE
  /\ sessions = 0
  /\ giveUps = 0
  /\ reconnects = 0

-----------------------------------------------------------------------------
Rank(status) ==
  CASE status = "failed" -> 0
    [] status = "pending" -> 1
    [] status = "sent" -> 2
    [] status = "delivered" -> 3
    [] status = "read" -> 4

\* MessageRepository.setStatus(): only forward, except to failed.
SetStatus(current, status) ==
  IF current # "none" /\ (status = "failed" \/ Rank(status) > Rank(current)) THEN status ELSE current

\* canSendMessages()
Live == session = "connected"

\* An outbox entry.
Entry(w) == [id |-> w, status |-> "pending", attempts |-> 0]
Queued(queue) == {queue[i].id : i \in DOMAIN queue}
Knows(c, w) == w \in DOMAIN c.status

\* The elements of a queue that stand at some places, in their order.
Only(queue, places) ==
  LET upTo[n \in 0..Len(queue)] ==
        IF n = 0 THEN <<>>
        ELSE IF n \in places THEN Append(upTo[n - 1], queue[n]) ELSE upTo[n - 1]
  IN  upTo[Len(queue)]

\* A queue without the entries of some wire ids.
Without(queue, gone) == Only(queue, {i \in DOMAIN queue : queue[i].id \notin gone})

\* flush() hands over what is neither in flight nor out of attempts.
Eligible(c, entry) == entry.id \notin c.inFlight /\ entry.attempts < MaxSendAttempts

\* transmit() and advanceStatus() on one entry.
Transmitted(entry) == [entry EXCEPT !.status = "sent", !.attempts = @ + 1]

\* The entries a flush() of instance c hands to the session, oldest first.
Flushable(c) == Only(c.outbox, {i \in DOMAIN c.outbox : Eligible(c, c.outbox[i])})

\* The instance after flush() on a CONNECTED session.
Flushed(c) ==
  [c EXCEPT
     !.outbox = [i \in DOMAIN c.outbox |-> IF Eligible(c, c.outbox[i]) THEN Transmitted(c.outbox[i])
                                                                       ELSE c.outbox[i]],
     !.inFlight = @ \union Queued(Flushable(c)),
     !.unacked = @ \o [i \in DOMAIN Flushable(c) |-> Flushable(c)[i].id],
     !.status = [w \in DOMAIN @ |-> IF w \in Queued(Flushable(c)) THEN "sent" ELSE @[w]]]

\* persistOutbox(): an empty queue is not written over an empty one.
PersistedBy(c) == IF c.outbox = <<>> /\ ~c.wrote THEN stored ELSE c.outbox
Persisting(c) == [c EXCEPT !.wrote = c.outbox # <<>>]

\* The instance becomes c and flushes if the session is live.  The queue is
\* written when the flush moves a status, or when the caller writes it anyway.
Settle(c, base, live, writes) ==
  LET sends == IF live THEN Flushable(c) ELSE <<>>
      after == IF live THEN Flushed(c) ELSE c
      moved == {Row(sends[i].id) : i \in {j \in DOMAIN sends : sends[j].status = "pending"}}
      write == writes \/ moved # {}
  IN  /\ chat' = IF write THEN Persisting(after) ELSE after
      /\ stored' = IF write THEN PersistedBy(after) ELSE stored
      /\ toPeer' = IF gap THEN toPeer ELSE toPeer \o [i \in DOMAIN sends |-> sends[i].id]
      /\ rows' = [r \in Rows |-> IF r \in moved THEN SetStatus(base[r], "sent") ELSE base[r]]

\* ChatProtocol.send(): the instance with one more message in its queue.
Composing(c, w) ==
  [c EXCEPT !.outbox = Append(@, Entry(w)),
            !.status = [v \in DOMAIN @ \union {w} |-> IF v = w THEN "pending" ELSE @[v]]]

-----------------------------------------------------------------------------
(* The sender's user. *)

\* ChatCenter.send(): through the protocol when there is one, else a pending row.
Compose(r) ==
  /\ rows[r] = "none"
  /\ \A s \in 1..(r - 1) : rows[s] # "none"
  /\ IF session = "none"
     THEN /\ rows' = [rows EXCEPT ![r] = "pending"]
          /\ UNCHANGED <<stored, chat, toPeer>>
     ELSE Settle(Composing(chat, OwnId(r)), [rows EXCEPT ![r] = "pending"],
                 Live, session # "opening")
  /\ UNCHANGED <<deleted, copies, session, peerChat, inbox, toAuthor, gap,
                 sessions, giveUps, reconnects>>

\* Mutant of handToProtocol(): a row whose copy is queued is composed again.
MutantCovered(queue) == {}

\* The rows a queue already carries.
Covered(queue) == {Row(w) : w \in Queued(queue)}

\* A wire id that row r has not been given yet.
FreshId(r) == <<r, copies[r] + 1>>

\* handToProtocol(): each of the rows is composed under a fresh wire id.
HandToProtocol(c, waiting) ==
  [c EXCEPT
     !.outbox = @ \o Only([r \in Rows |-> Entry(FreshId(r))], waiting),
     !.status = [w \in DOMAIN @ \union {FreshId(r) : r \in waiting} |->
                   IF w \in DOMAIN @ THEN @[w] ELSE "pending"]]

\* ChatCenter.retry(), offered under a failed message.
Retry(r) ==
  /\ rows[r] = "failed" /\ r \notin deleted
  /\ \/ /\ session = "none"
        /\ rows' = [rows EXCEPT ![r] = "pending"]
        /\ UNCHANGED <<stored, chat, toPeer, copies>>
     \/ /\ session # "none" /\ r \in Covered(chat.outbox)
        /\ Settle([chat EXCEPT !.outbox =
                     [i \in DOMAIN @ |-> IF Row(@[i].id) = r THEN [@[i] EXCEPT !.attempts = 0] ELSE @[i]]],
                  [rows EXCEPT ![r] = IF Live THEN "sent" ELSE "pending"], Live, FALSE)
        /\ UNCHANGED copies
     \/ /\ session # "none" /\ r \notin Covered(chat.outbox)
        /\ Settle(HandToProtocol(chat, {r}), [rows EXCEPT ![r] = "pending"], Live, session # "opening")
        /\ copies' = [copies EXCEPT ![r] = @ + 1]
  /\ UNCHANGED <<deleted, session, peerChat, inbox, toAuthor, gap,
                 sessions, giveUps, reconnects>>

\* ChatCenter.deleteForMe(): cancels a queued copy that is not in flight.  The
\* persisted queue is left as it was.
DeleteForMe(r) ==
  /\ rows[r] # "none" /\ r \notin deleted
  /\ deleted' = deleted \union {r}
  /\ LET gone == {w \in Queued(chat.outbox) : Row(w) = r} \ chat.inFlight
     IN  chat' = [chat EXCEPT !.outbox = Without(@, gone),
                              !.status = [w \in DOMAIN @ \ gone |-> @[w]]]
  /\ UNCHANGED <<rows, copies, stored, session, peerChat, inbox, toPeer, toAuthor,
                 gap, sessions, giveUps, reconnects>>

-----------------------------------------------------------------------------
(* Sessions. *)

\* createHandle(): both ends have a fresh protocol instance.
OpenSession ==
  /\ session = "none" /\ sessions < MaxSessions
  /\ session' = "opening"
  /\ sessions' = sessions + 1
  /\ UNCHANGED <<rows, deleted, copies, stored, chat, peerChat, inbox, toPeer,
                 toAuthor, gap, giveUps, reconnects>>

\* restoreOutbox(): a queue that was stored replaces the instance's own.
Restored(c) ==
  IF stored = <<>> THEN c
  ELSE [c EXCEPT !.outbox = stored,
                 !.inFlight = {},
                 !.status = [w \in DOMAIN @ \union Queued(stored) |->
                               IF w \in Queued(stored)
                               THEN stored[CHOOSE i \in DOMAIN stored : stored[i].id = w].status
                               ELSE @[w]]]

\* flushPending(): the pending rows that the queue does not carry.
Waiting(c) == {r \in Rows \ deleted : rows[r] = "pending"} \ Covered(c.outbox)

\* onIdentified(): the stored queue is replayed, then the pending rows handed over.
Identify ==
  /\ session = "opening"
  /\ session' = "identified"
  /\ LET restored == Restored(chat)
         waiting  == Waiting(restored)
     IN  /\ Settle(HandToProtocol(restored, waiting), rows, FALSE, waiting # {})
         /\ copies' = [r \in Rows |-> IF r \in waiting THEN copies[r] + 1 ELSE copies[r]]
  /\ UNCHANGED <<deleted, peerChat, inbox, toAuthor, gap, sessions, giveUps, reconnects>>

\* handleStateChange(CONNECTED): flush().
Connected ==
  /\ session \in {"identified", "reconnecting"}
  /\ session' = "connected"
  /\ Settle(chat, rows, TRUE, FALSE)
  /\ UNCHANGED <<deleted, copies, peerChat, inbox, toAuthor, gap, sessions,
                 giveUps, reconnects>>

\* The link is lost; the session and its channels survive.
LinkLost ==
  /\ session = "connected" /\ reconnects < MaxReconnects
  /\ session' = "reconnecting"
  /\ reconnects' = reconnects + 1
  /\ UNCHANGED <<rows, deleted, copies, stored, chat, peerChat, inbox, toPeer,
                 toAuthor, gap, sessions, giveUps>>

\* The session ends, or the process does: what was under way is gone.
SessionEnds ==
  /\ session # "none" /\ sessions < MaxSessions
  /\ session' = "none"
  /\ chat' = NewChat
  /\ peerChat' = NewPeerChat
  /\ toPeer' = <<>>
  /\ toAuthor' = <<>>
  /\ gap' = FALSE
  /\ UNCHANGED <<rows, deleted, copies, stored, inbox, sessions, giveUps, reconnects>>

-----------------------------------------------------------------------------
(* The receiver. *)

\* markRead(): the ids that have not been acknowledged as read yet.
MarkingRead(c, ids) == [c EXCEPT !.toRead = @ \union (ids \ c.readSent)]

\* flushReceipts(): both queues go out as one batch each.
ReceiptsOf(c) ==
  (IF c.toAck = {} THEN <<>> ELSE <<[status |-> "delivered", ids |-> c.toAck]>>)
    \o (IF c.toRead = {} THEN <<>> ELSE <<[status |-> "read", ids |-> c.toRead]>>)
ReceiptsSent(c) == [c EXCEPT !.toAck = {}, !.toRead = {}, !.readSent = @ \union c.toRead]

\* Mutant of onMessage(): a message acknowledges everything composed before it.
MutantAcknowledged(c, w) == c.toAck \union {w} \union ((1..Row(w)) \X {0, 1})

\* onMessage(): a duplicate is acknowledged as well.
Acknowledged(c, w) == c.toAck \union {w}

\* onMessage() and ChatCenter.onIncoming(): a message seen in this session goes no
\* further, and the table keeps one row per id.
ReceiveMessage ==
  /\ Live /\ toPeer # <<>>
  /\ LET w == Head(toPeer) IN
       /\ inbox' = inbox \union {w}
       /\ peerChat' = [peerChat EXCEPT !.toAck = Acknowledged(peerChat, w), !.seen = @ \union {w}]
  /\ toPeer' = Tail(toPeer)
  /\ UNCHANGED <<rows, deleted, copies, stored, session, chat, toAuthor, gap,
                 sessions, giveUps, reconnects>>

\* The receipt timer.
FlushReceipts ==
  /\ session \notin {"none", "opening"}
  /\ ReceiptsOf(peerChat) # <<>>
  /\ peerChat' = ReceiptsSent(peerChat)
  /\ toAuthor' = toAuthor \o ReceiptsOf(peerChat)
  /\ UNCHANGED <<rows, deleted, copies, stored, session, chat, inbox, toPeer, gap,
                 sessions, giveUps, reconnects>>

\* markRead(), on opening the conversation or on a message that arrives while it is
\* on screen: everything of theirs is read, and they are told if there is a session
\* to tell them on.
MarkRead ==
  /\ session # "none"
  /\ LET read == MarkingRead(peerChat, inbox) IN
       /\ read # peerChat
       /\ IF session = "opening"
          THEN peerChat' = read /\ UNCHANGED toAuthor
          ELSE peerChat' = ReceiptsSent(read) /\ toAuthor' = toAuthor \o ReceiptsOf(read)
  /\ UNCHANGED <<rows, deleted, copies, stored, session, chat, inbox, toPeer, gap,
                 sessions, giveUps, reconnects>>

-----------------------------------------------------------------------------
(* What comes back to the sender. *)

\* A receipt confirms to the channel what it answers.  onReceipt(): the ids this
\* instance has sent climb the ladder; what is delivered leaves the queue, and each
\* change is written.
ReceiveReceipt ==
  /\ Live /\ toAuthor # <<>>
  /\ LET receipt == Head(toAuthor)
         climb   == {w \in receipt.ids : Knows(chat, w) /\ Rank(receipt.status) > Rank(chat.status[w])}
         after   == [chat EXCEPT
                       !.outbox = Without(@, climb),
                       !.inFlight = @ \ climb,
                       !.unacked = FoldSet(LAMBDA w, q : RemoveFirst(q, w), @, receipt.ids),
                       !.status = [w \in DOMAIN @ |-> IF w \in climb THEN receipt.status ELSE @[w]]]
     IN  /\ chat' = IF climb = {} THEN after ELSE Persisting(after)
         /\ stored' = IF climb = {} THEN stored ELSE PersistedBy(after)
         /\ rows' = [r \in Rows |-> IF \E w \in climb : Row(w) = r
                                    THEN SetStatus(rows[r], receipt.status) ELSE rows[r]]
  /\ toAuthor' = Tail(toAuthor)
  /\ UNCHANGED <<deleted, copies, session, peerChat, inbox, toPeer, gap,
                 sessions, giveUps, reconnects>>

\* handleTransportFailure(): a message that has left the queue is nobody's concern.
Concerns(c, w) == w \in Queued(c.outbox)

\* isUndeliverable(): the queue has run out of attempts.
Undeliverable(c, w) ==
  \A i \in DOMAIN c.outbox : c.outbox[i].id = w => c.outbox[i].attempts >= MaxSendAttempts

\* deliveryFailed: the reliability layer gives up on a message.  Either only the
\* confirmations were lost, or the receiver never saw it, and will see nothing
\* that was sent after it either.
GiveUp(w) ==
  /\ session \in {"connected", "reconnecting"} /\ giveUps < MaxGiveUps
  /\ giveUps' = giveUps + 1
  /\ Contains(chat.unacked, w)
  /\ LET failed == [chat EXCEPT !.inFlight = @ \ {w}, !.unacked = RemoveFirst(@, w)]
     IN  IF Concerns(chat, w)
         THEN /\ chat' = Persisting(failed)
              /\ stored' = PersistedBy(failed)
              /\ rows' = [rows EXCEPT ![Row(w)] =
                            SetStatus(@, IF Undeliverable(failed, w) THEN "failed" ELSE "pending")]
         ELSE chat' = failed /\ UNCHANGED <<stored, rows>>
  /\ \/ ~Contains(toPeer, w) /\ UNCHANGED <<toPeer, gap>>
     \/ /\ Contains(toPeer, w)
        /\ gap' = TRUE
        /\ toPeer' = SubSeq(toPeer, 1, (CHOOSE i \in DOMAIN toPeer : toPeer[i] = w) - 1)
  /\ UNCHANGED <<deleted, copies, session, peerChat, inbox, toAuthor,
                 sessions, reconnects>>

-----------------------------------------------------------------------------
ChatNext ==
  \/ \E r \in Rows : Compose(r) \/ Retry(r) \/ DeleteForMe(r)
  \/ OpenSession
  \/ Identify
  \/ Connected
  \/ LinkLost
  \/ SessionEnds
  \/ ReceiveMessage
  \/ FlushReceipts
  \/ MarkRead
  \/ ReceiveReceipt
  \/ \E w \in ToSet(chat.unacked) : GiveUp(w)

ChatSpec == ChatInit /\ [][ChatNext]_chatVars

\* The channels deliver while the session is connected, and the receipt timer runs.
ChatFairness ==
  /\ WF_chatVars(Connected)
  /\ WF_chatVars(ReceiveMessage)
  /\ WF_chatVars(FlushReceipts)
  /\ WF_chatVars(ReceiveReceipt)

FairChatSpec == ChatSpec /\ ChatFairness

-----------------------------------------------------------------------------
(* Correctness. *)

\* However often a message is composed again, replayed from the stored queue or
\* sent twice, the peer's conversation shows it once.
StoredOnce == \A v, w \in inbox : Row(v) = Row(w) => v = w

\* Two ticks mean what they say: a row is delivered or read only when the peer has
\* stored the message, whichever session the receipt came in.
TickIsHonest ==
  \A r \in Rows : rows[r] \in {"delivered", "read"} => \E w \in inbox : Row(w) = r

\* Nothing composed is forgotten: while a session stays up, every message ends
\* delivered, unless it has failed for the user to see or its attempts are spent.
Spent(r) == \E i \in DOMAIN chat.outbox :
              Row(chat.outbox[i].id) = r /\ chat.outbox[i].attempts >= MaxSendAttempts
ChatSettled ==
  Live /\ ~gap =>
    \A r \in Rows \ deleted : rows[r] \in {"none", "failed", "delivered", "read"} \/ Spent(r)

=============================================================================
