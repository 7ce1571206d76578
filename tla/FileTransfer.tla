----------------------------- MODULE FileTransfer -----------------------------
(***************************************************************************)
(* One file on its way from one phone to the other: OutgoingTransfer and   *)
(* IncomingTransfer of packages/core/src/files/transfer.ts, the protocol   *)
(* that owns them (protocol.ts), and what survives a session: the records  *)
(* and the database row of apps/mobile/src/screens/share/transferCenter.ts *)
(* and the part files of fileStore.ts.                                     *)
(*                                                                         *)
(* The file is a grid of chunks.  One FILE_CHUNK carries a run of them, as *)
(* many as the link's datagram holds, and becomes one part file named by   *)
(* the offset of the run.                                                  *)
(*                                                                         *)
(* Control messages and chunks travel on two reliable channels of one      *)
(* session, each in order; after a chunk the channel gave up, no later one *)
(* arrives (see ReliableChannel).  A write that is outstanding when the    *)
(* session ends lands before the next one opens, or never.                 *)
(***************************************************************************)
EXTENDS Naturals, Sequences, FiniteSets, SequencesExt, FiniteSetsExt

CONSTANTS
  NumChunks,          \* offer.totalChunks
  RunLengths,         \* chooseRunLength() of the links the session may be on
  Window,             \* maxInFlightMessages, and the window the receiver grants
  AckEvery,           \* ackEveryMessages
  MaxChunkAttempts,   \* FILE_LIMITS.maxChunkAttempts
  MaxWrites,          \* maxWritesInFlight()
  MaxMishaps          \* bound on sessions that end, restarts of the receiving app, changes
                      \* of link, damaged chunks, failed writes, chunks given up, early timeouts

ASSUME FileAssumption ==
  /\ {NumChunks, Window, AckEvery, MaxChunkAttempts, MaxWrites,
      MaxMishaps} \subseteq Nat
  /\ {NumChunks, Window, AckEvery, MaxChunkAttempts, MaxWrites} \intersect {0} = {}
  /\ RunLengths # {} /\ RunLengths \subseteq 1..NumChunks

VARIABLES
  joined,     \* the two phones have a session, and a protocol each
  runLength,  \* what one chunk message may carry on the link in use
  sendRecord, \* the sender's TransferRecord.state, "none" before the file is offered
  recvRecord, \* the receiver's
  out,        \* the OutgoingTransfer
  in,         \* the IncomingTransfer
  disk,       \* length of the part file at each offset, 0 when there is none
  row,        \* the receiver's transfers row: its state and received bitmap
  opened,     \* the receiver holds an open part store (incomingStores)
  saved,      \* the chunks of the received file, in the order they were stitched
  chunks,     \* the bulk channel
  toReceiver, \* the control channel to the receiver
  toSender,   \* the control channel to the sender
  bulkGap,    \* a chunk of this session was given up
  moved,      \* the ends that have yet to hear that the session changed links
  agreed,     \* history: the user said yes to this file, and has not said no since
  mishaps

fileVars == <<joined, runLength, sendRecord, recvRecord, out, in, disk, row, opened, saved,
              chunks, toReceiver, toSender, bulkGap, moved, agreed, mishaps>>

Chunks == 0..(NumChunks - 1)
Ended == {"COMPLETED", "DECLINED", "CANCELLED", "FAILED"}

\* A run of the grid: its first chunk and how many there are.
RunOf(run) == run[1]..(run[1] + run[2] - 1)
ChunksOf(runs) == UNION {RunOf(r) : r \in runs}

\* A transfer that the protocol does not hold, or no longer.
NoOut == [state |-> "none", acked |-> {}, sent |-> {}, inFlight |-> {},
          attempts |-> [c \in Chunks |-> 0], reading |-> <<>>]
NoIn == [state |-> "none", received |-> {}, writes |-> <<>>, nak |-> {},
         sinceAck |-> 0, ackPending |-> FALSE]

NoParts == [c \in Chunks |-> 0]
\* The row before the first offer; a null bitmap is no bitmap at all.
NoRow == [state |-> "none", known |-> FALSE, bitmap |-> {}]

FileInit ==
  /\ joined = FALSE
  /\ runLength \in RunLengths
  /\ sendRecord = "none"
  /\ recvRecord = "none"
  /\ out = NoOut
  /\ in = NoIn
  /\ disk = NoParts
  /\ row = NoRow
  /\ opened = FALSE
  /\ saved = <<>>
  /\ chunks = <<>>
  /\ toReceiver = <<>>
  /\ toSender = <<>>
  /\ bulkGap = FALSE
  /\ moved = {}
  /\ agreed = FALSE
  /\ mishaps = 0

-----------------------------------------------------------------------------
(* The sender's window. *)

\* nextSendable(): neither acknowledged nor sent.  Whatever is reopened takes the
\* cursor back with it, so the first one from the cursor is the first one of all.
Sendable(o) == Chunks \ (o.acked \union o.sent)

\* pump(), up to the read it waits for: the run is chosen before the read.
PumpedOn(o, longest) ==
  IF o.state = "TRANSFERRING" /\ o.reading = <<>> /\ Cardinality(o.inFlight) < Window
       /\ Sendable(o) # {}
  THEN LET first == Min(Sendable(o))
           fits  == {n \in 1..longest : RunOf(<<first, n>>) \subseteq Sendable(o)}
       IN  [o EXCEPT !.reading = <<first, Max(fits)>>]
  ELSE o
Pumped(o) == PumpedOn(o, runLength)

\* reopen(): the unacknowledged chunks of these entries may be sent again.
Reopened(o, entries) ==
  [o EXCEPT !.inFlight = @ \ entries, !.sent = @ \ (ChunksOf(entries) \ o.acked)]

\* retireInFlight()
Retired(o) ==
  LET complete == {e \in o.inFlight : RunOf(e) \subseteq o.acked}
      broken   == {e \in o.inFlight : ~(RunOf(e) \subseteq o.acked \union o.sent)}
  IN  Reopened([o EXCEPT !.inFlight = @ \ complete,
                         !.attempts = [c \in Chunks |->
                            IF \E e \in complete : e[1] = c THEN 0 ELSE @[c]]],
               broken)

\* repairStrandedChunks()
Repaired(o) == IF o.inFlight = {} THEN [o EXCEPT !.sent = @ \intersect o.acked] ELSE o

\* A transfer that ends leaves the protocol, and takes the record with it.
SenderEnds(state) == out' = NoOut /\ sendRecord' = state

\* fail(): the peer is told.
SenderFails == SenderEnds("FAILED") /\ toReceiver' = Append(toReceiver, [type |-> "ERROR"])

-----------------------------------------------------------------------------
(* The receiver's books. *)

AckOf(i) == [type |-> "ACK", held |-> i.received, missing |-> i.nak]
Acked(i) == [i EXCEPT !.nak = {}, !.sinceAck = 0, !.ackPending = FALSE]

\* maybeFinish(), up to the hash it waits for.
Finishing(i) == i.state = "TRANSFERRING" /\ i.received = Chunks /\ i.writes = <<>>

\* The parts on disk after these writes: the last one of each offset stays.
Written(writes) ==
  [c \in Chunks |->
     LET at == {k \in DOMAIN writes : writes[k][1] = c}
     IN  IF at = {} THEN disk[c] ELSE writes[Max(at)][2]]

\* What can be read back: every chunk that lies inside some part.
HeldBy(parts) == ChunksOf({<<c, parts[c]>> : c \in Chunks})

\* The bytes of the part at an offset: the chunks of its run.
PartAt(c) == [n \in 1..disk[c] |-> c + n - 1]

\* Mutant of finalize(): the parts are taken in another order.
MutantStitched ==
  LET upTo[c \in 0..NumChunks] == IF c = 0 THEN <<>> ELSE PartAt(c - 1) \o upTo[c - 1]
  IN  upTo[NumChunks]

\* finalize(): every part, in offset order, one after the other.
Stitched ==
  LET upTo[c \in 0..NumChunks] == IF c = 0 THEN <<>> ELSE upTo[c - 1] \o PartAt(c - 1)
  IN  upTo[NumChunks]

\* dbStateFor() of a transfer that is running.
RowState(record) == IF record = "OFFERED" THEN "offered" ELSE "transferring"

\* finish() and releaseStores(): the row ends without a bitmap, the parts go with
\* the store that holds them.
ReceiverEnds(state) ==
  /\ in' = NoIn
  /\ recvRecord' = state
  /\ row' = [state |-> "over", known |-> FALSE, bitmap |-> {}]
  /\ opened' = FALSE
  /\ disk' = IF opened THEN NoParts ELSE disk

\* IncomingTransfer.accept() on a store that lists what is on disk, with the bitmap
\* the row has kept; the first progress of the transfer is written to the row.
Accepted ==
  LET held == IF row.known THEN row.bitmap ELSE {}
      i    == [NoIn EXCEPT !.state = "TRANSFERRING", !.received = held]
      said == <<[type |-> "ACCEPT"]>>
                \o (IF held = {} THEN <<>> ELSE <<[type |-> "RESUME", held |-> held]>>)
  IN  /\ opened' = TRUE
      /\ row' = [state |-> "transferring", known |-> TRUE, bitmap |-> held]
      /\ recvRecord' = IF Finishing(i) THEN "VERIFYING" ELSE "TRANSFERRING"
      /\ in' = IF Finishing(i) THEN [Acked(i) EXCEPT !.state = "VERIFYING"] ELSE i
      /\ toSender' = toSender \o said \o (IF Finishing(i) THEN <<AckOf(i)>> ELSE <<>>)

-----------------------------------------------------------------------------
(* Sessions. *)

Mishap == mishaps < MaxMishaps /\ mishaps' = mishaps + 1

Offering == [NoOut EXCEPT !.state = "OFFERED"]

\* TransferCenter.send()
SendFile ==
  /\ joined /\ sendRecord = "none"
  /\ sendRecord' = "OFFERED"
  /\ out' = Offering
  /\ toReceiver' = Append(toReceiver, [type |-> "OFFER"])
  /\ UNCHANGED <<joined, runLength, recvRecord, in, disk, row, opened, saved, chunks,
                 toSender, bulkGap, moved, agreed, mishaps>>

\* attach() and resumeOutgoingFor(): a send that was under way is offered again.
Join ==
  /\ ~joined
  /\ joined' = TRUE
  /\ runLength' \in RunLengths
  /\ IF sendRecord \in {"OFFERED", "TRANSFERRING"}
     THEN out' = Offering /\ toReceiver' = <<[type |-> "OFFER"]>>
     ELSE UNCHANGED <<out, toReceiver>>
  /\ UNCHANGED <<sendRecord, recvRecord, in, disk, row, opened, saved, chunks, toSender,
                 bulkGap, moved, agreed, mishaps>>

\* Both protocols are disposed of, and whatever the session carried is gone.  Of the
\* writes under way, some have landed.
Severed ==
  /\ joined' = FALSE
  /\ out' = NoOut
  /\ in' = NoIn
  /\ \E k \in 0..Len(in.writes) : disk' = Written(SubSeq(in.writes, 1, k))
  /\ chunks' = <<>>
  /\ toReceiver' = <<>>
  /\ toSender' = <<>>
  /\ bulkGap' = FALSE
  /\ moved' = {}

\* detach() and pausePeer(): the row is written when the protocol, and the bitmap
\* with it, is already gone.
Part ==
  /\ joined
  /\ Mishap
  /\ Severed
  /\ row' = IF recvRecord \in {"OFFERED", "TRANSFERRING"}
            THEN [state |-> "paused", known |-> FALSE, bitmap |-> {}] ELSE row
  /\ UNCHANGED <<runLength, sendRecord, recvRecord, opened, saved, agreed>>

\* The receiving app is killed; restoreInterrupted() brings back what was accepted.
Restart ==
  /\ recvRecord # "none"
  /\ Mishap
  /\ Severed
  /\ recvRecord' = IF row.state \in {"transferring", "paused"} THEN "TRANSFERRING" ELSE "none"
  /\ opened' = FALSE
  /\ UNCHANGED <<runLength, sendRecord, row, saved, agreed>>

\* The session moves to another link, or resumes on one: each end hears of it.
MoveLink ==
  /\ joined /\ moved = {}
  /\ Mishap
  /\ moved' = {"sender", "receiver"}
  /\ UNCHANGED <<joined, runLength, sendRecord, recvRecord, out, in, disk, row, opened,
                 saved, chunks, toReceiver, toSender, bulkGap, agreed>>

\* The receiver's progress is written, on the timer or when the app goes to the
\* background.
Persist ==
  /\ in.state # "none" /\ recvRecord \notin Ended
  /\ row' = [state |-> RowState(recvRecord), known |-> TRUE, bitmap |-> in.received]
  /\ row' # row
  /\ UNCHANGED <<joined, runLength, sendRecord, recvRecord, out, in, disk, opened, saved,
                 chunks, toReceiver, toSender, bulkGap, moved, agreed, mishaps>>

-----------------------------------------------------------------------------
(* The sender. *)

\* What only the sender's steps leave alone.
SenderKeeps == UNCHANGED <<joined, recvRecord, in, disk, row, opened, saved, agreed>>

\* onLinkChanged(): everything in flight is open again, with fresh attempts.
SenderMoves ==
  /\ "sender" \in moved
  /\ moved' = moved \ {"sender"}
  /\ runLength' \in RunLengths
  /\ out' = IF out.state # "TRANSFERRING" THEN out
            ELSE PumpedOn(Reopened([out EXCEPT !.attempts = NoParts], out.inFlight), runLength')
  /\ SenderKeeps
  /\ UNCHANGED <<sendRecord, chunks, toReceiver, toSender, bulkGap, mishaps>>

\* The tick, when it has nothing to time out: it mends the books and fills the window.
SenderTick ==
  /\ out.state = "TRANSFERRING"
  /\ out' = Pumped(Repaired(out))
  /\ out' # out
  /\ SenderKeeps
  /\ UNCHANGED <<runLength, sendRecord, chunks, toReceiver, toSender, bulkGap, moved, mishaps>>

\* The run, or the answer to it, is still on its way: twelve seconds were too short.
Late(entry) ==
  \/ Contains(chunks, entry)
  \/ Contains(in.writes, entry)
  \/ in.ackPending
  \/ in.state = "VERIFYING"
  \/ toSender # <<>>

\* The tick, when an entry has been in flight for too long.
ChunkTimeout(entry) ==
  /\ out.state = "TRANSFERRING" /\ entry \in out.inFlight
  /\ IF Late(entry) THEN Mishap ELSE UNCHANGED mishaps
  /\ IF out.attempts[entry[1]] >= MaxChunkAttempts
     THEN SenderFails
     ELSE /\ out' = Pumped(Repaired(Reopened(out, {entry})))
          /\ UNCHANGED <<sendRecord, toReceiver>>
  /\ SenderKeeps
  /\ UNCHANGED <<runLength, chunks, toSender, bulkGap, moved>>

\* pump(), from the end of the read: the run is sent as it was chosen, whatever
\* arrived meanwhile, and the next one is chosen.
ReadDone ==
  /\ out.reading # <<>>
  /\ LET run  == out.reading
         sent == [out EXCEPT
                    !.reading = <<>>,
                    !.sent = @ \union RunOf(run),
                    !.inFlight = {e \in @ : e[1] # run[1]} \union {run},
                    !.attempts[run[1]] = IF @ < MaxChunkAttempts THEN @ + 1 ELSE @]
     IN  /\ out' = Pumped(sent)
         /\ chunks' = IF bulkGap THEN chunks
                      ELSE Append(chunks, run)
  /\ SenderKeeps
  /\ UNCHANGED <<runLength, sendRecord, toReceiver, toSender, bulkGap, moved, mishaps>>

\* onOfferExpired(): nobody answered.
SenderExpires ==
  /\ out.state = "OFFERED"
  /\ SenderFails
  /\ SenderKeeps
  /\ UNCHANGED <<runLength, chunks, toSender, bulkGap, moved, mishaps>>

\* TransferCenter.cancel() on the sender's phone, with or without a session.
SenderCancels ==
  /\ sendRecord \in {"OFFERED", "TRANSFERRING"}
  /\ SenderEnds("CANCELLED")
  /\ toReceiver' = IF out.state = "none" THEN toReceiver
                   ELSE Append(toReceiver, [type |-> "CANCEL"])
  /\ SenderKeeps
  /\ UNCHANGED <<runLength, chunks, toSender, bulkGap, moved, mishaps>>

\* handleAck(): what is held is acknowledged, and what was refused is open again
\* with the rest of its run.
Acknowledging(o, ack) ==
  LET refused == {e \in o.inFlight : e[1] \in ack.missing}
      open    == ChunksOf(refused) \union ack.missing
  IN  Pumped(Retired([o EXCEPT !.acked = (@ \union ack.held) \ open,
                               !.sent = @ \ open,
                               !.inFlight = @ \ refused]))

\* handleResume(): the receiver's word replaces everything but the attempts.
Resuming(o, held) ==
  Pumped([o EXCEPT !.state = "TRANSFERRING", !.acked = held, !.sent = held, !.inFlight = {}])

\* handleMessage() on the sender's phone.
SenderReceives ==
  /\ toSender # <<>>
  /\ LET msg == Head(toSender) IN
       \/ /\ out.state = "none"
          /\ UNCHANGED <<out, sendRecord>>
       \/ /\ out.state # "none" /\ msg.type = "ACCEPT"
          /\ out' = IF out.state = "OFFERED" THEN Pumped([out EXCEPT !.state = "TRANSFERRING"]) ELSE out
          /\ sendRecord' = "TRANSFERRING"
       \/ /\ out.state # "none" /\ msg.type = "RESUME"
          /\ out' = Resuming(out, msg.held)
          /\ sendRecord' = "TRANSFERRING"
       \/ /\ out.state # "none" /\ msg.type = "ACK"
          /\ out' = Acknowledging(out, msg)
          /\ UNCHANGED sendRecord
       \/ /\ out.state # "none" /\ msg.type = "DECLINE" /\ SenderEnds("DECLINED")
       \/ /\ out.state # "none" /\ msg.type = "COMPLETE" /\ SenderEnds("COMPLETED")
       \/ /\ out.state # "none" /\ msg.type = "CANCEL" /\ SenderEnds("CANCELLED")
       \/ /\ out.state # "none" /\ msg.type = "ERROR" /\ SenderEnds("FAILED")
  /\ toSender' = Tail(toSender)
  /\ SenderKeeps
  /\ UNCHANGED <<runLength, chunks, toReceiver, bulkGap, moved, mishaps>>

-----------------------------------------------------------------------------
(* The receiver. *)

\* What the receiver's steps leave alone.
ReceiverKeeps == UNCHANGED <<joined, runLength, sendRecord, out, bulkGap>>

\* onOffer(): a file the row has a bitmap for, or whose record is past the question,
\* is accepted by itself.
Resumable == row.known \/ recvRecord \notin {"none", "OFFERED"}

\* handleOffer(), and the first row of a transfer (persistNew()).
ReceiveOffer ==
  /\ toReceiver # <<>> /\ Head(toReceiver).type = "OFFER"
  /\ IF Resumable
     THEN Accepted
     ELSE /\ in' = [NoIn EXCEPT !.state = "OFFERED"]
          /\ recvRecord' = "OFFERED"
          /\ row' = IF row.state = "none" THEN [state |-> "offered", known |-> TRUE, bitmap |-> {}]
                                          ELSE row
          /\ UNCHANGED <<opened, toSender>>
  /\ toReceiver' = Tail(toReceiver)
  /\ ReceiverKeeps
  /\ UNCHANGED <<disk, saved, chunks, moved, agreed, mishaps>>

\* cancelledByPeer() and failedByPeer()
ReceiveEnd ==
  /\ toReceiver # <<>> /\ Head(toReceiver).type # "OFFER"
  /\ IF in.state = "none"
     THEN UNCHANGED <<in, recvRecord, row, opened, disk>>
     ELSE ReceiverEnds(IF Head(toReceiver).type = "CANCEL" THEN "CANCELLED" ELSE "FAILED")
  /\ toReceiver' = Tail(toReceiver)
  /\ ReceiverKeeps
  /\ UNCHANGED <<saved, chunks, toSender, moved, agreed, mishaps>>

\* TransferCenter.accept(): with no session left the question ends unanswered.
UserAccepts ==
  /\ recvRecord = "OFFERED"
  /\ agreed' = TRUE
  /\ IF in.state = "OFFERED"
     THEN Accepted /\ UNCHANGED disk
     ELSE ReceiverEnds("CANCELLED") /\ UNCHANGED toSender
  /\ ReceiverKeeps
  /\ UNCHANGED <<saved, chunks, toReceiver, moved, mishaps>>

\* The receiver's end of the transfer is over, and the sender told if it can be.
ReceiverStops(state, type) ==
  /\ ReceiverEnds(state)
  /\ toSender' = IF in.state = "none" THEN toSender ELSE Append(toSender, [type |-> type])
  /\ ReceiverKeeps
  /\ UNCHANGED <<saved, chunks, toReceiver, moved>>

\* TransferCenter.decline()
UserDeclines ==
  /\ recvRecord = "OFFERED"
  /\ agreed' = FALSE
  /\ ReceiverStops("DECLINED", "DECLINE")
  /\ UNCHANGED mishaps

\* TransferCenter.cancel() on the receiver's phone.
UserStops ==
  /\ recvRecord \in {"TRANSFERRING", "VERIFYING"}
  /\ agreed' = FALSE
  /\ ReceiverStops("CANCELLED", "CANCEL")
  /\ UNCHANGED mishaps

\* onOfferExpired()
ReceiverExpires ==
  /\ in.state = "OFFERED"
  /\ ReceiverStops("DECLINED", "DECLINE")
  /\ UNCHANGED <<agreed, mishaps>>

\* Mutant of handleChunk(): the bits are set before the bytes are down.
MutantTaken(i, run) ==
  [i EXCEPT !.ackPending = TRUE, !.received = @ \union RunOf(run), !.writes = Append(@, run)]

\* handleChunk(): a run that brings nothing new is only acknowledged, and one too
\* many to write is dropped; the sender still owns it.
Taken(i, run) ==
  [i EXCEPT !.sinceAck = IF @ < AckEvery THEN @ + 1 ELSE @,
            !.ackPending = TRUE,
            !.writes = IF RunOf(run) \subseteq i.received \/ Len(@) >= MaxWrites THEN @
                       ELSE Append(@, run)]

\* A chunk arrives; only a transfer that is running takes it.
ReceiveChunk ==
  /\ chunks # <<>>
  /\ in' = IF in.state = "TRANSFERRING" THEN Taken(in, Head(chunks)) ELSE in
  /\ chunks' = Tail(chunks)
  /\ ReceiverKeeps
  /\ UNCHANGED <<recvRecord, disk, row, opened, saved, toReceiver, toSender, moved, agreed, mishaps>>

\* handleChunk(): a run whose digest does not match is asked for again.
ReceiveDamaged ==
  /\ chunks # <<>> /\ in.state = "TRANSFERRING"
  /\ Mishap
  /\ in' = [in EXCEPT !.nak = @ \union {Head(chunks)[1]}, !.ackPending = TRUE]
  /\ chunks' = Tail(chunks)
  /\ ReceiverKeeps
  /\ UNCHANGED <<recvRecord, disk, row, opened, saved, toReceiver, toSender, moved, agreed>>

\* writeRun(), once the bytes are down: the bits are set, and the transfer finished
\* if they were the last.
WriteDone(k) ==
  /\ k \in DOMAIN in.writes
  /\ LET run   == in.writes[k]
         wrote == [in EXCEPT !.writes = RemoveAt(@, k), !.received = @ \union RunOf(run),
                             !.nak = @ \ {run[1]}]
         acks  == wrote.sinceAck >= AckEvery
         after == IF acks THEN Acked(wrote) ELSE wrote
     IN  /\ disk' = Written(<<run>>)
         /\ in' = IF Finishing(after) THEN [Acked(after) EXCEPT !.state = "VERIFYING"] ELSE after
         /\ recvRecord' = IF Finishing(after) THEN "VERIFYING" ELSE recvRecord
         /\ toSender' = toSender \o (IF acks THEN <<AckOf(wrote)>> ELSE <<>>)
                                 \o (IF Finishing(after) THEN <<AckOf(after)>> ELSE <<>>)
  /\ ReceiverKeeps
  /\ UNCHANGED <<row, opened, saved, chunks, toReceiver, moved, agreed, mishaps>>

\* writeRun(), when the store refuses.
WriteFails ==
  /\ in.writes # <<>>
  /\ Mishap
  /\ ReceiverStops("FAILED", "ERROR")
  /\ UNCHANGED agreed

\* The receiver's tick.
ReceiverTick ==
  /\ in.state = "TRANSFERRING" /\ (in.ackPending \/ in.nak # {})
  /\ in' = Acked(in)
  /\ toSender' = Append(toSender, AckOf(in))
  /\ ReceiverKeeps
  /\ UNCHANGED <<recvRecord, disk, row, opened, saved, chunks, toReceiver, moved, agreed, mishaps>>

\* onLinkChanged(): the sender is told what is held.
ReceiverMoves ==
  /\ "receiver" \in moved
  /\ moved' = moved \ {"receiver"}
  /\ toSender' = IF in.state # "TRANSFERRING" THEN toSender
                 ELSE Append(toSender, [type |-> "RESUME", held |-> in.received])
  /\ ReceiverKeeps
  /\ UNCHANGED <<recvRecord, in, disk, row, opened, saved, chunks, toReceiver, agreed, mishaps>>

\* maybeFinish(), from the end of the hash, and onCompleted(): the file is read back,
\* then stitched together.
VerifyDone ==
  /\ in.state = "VERIFYING"
  /\ \/ /\ HeldBy(disk) = Chunks
        /\ saved' = Stitched
        /\ ReceiverEnds("COMPLETED")
        /\ toSender' = Append(toSender, [type |-> "COMPLETE"])
        /\ ReceiverKeeps
        /\ UNCHANGED <<chunks, toReceiver, moved>>
     \/ /\ HeldBy(disk) # Chunks
        /\ ReceiverStops("FAILED", "ERROR")
  /\ UNCHANGED <<agreed, mishaps>>

\* The bulk channel gives up on a chunk: none of the later ones arrive.
GiveUpChunk ==
  /\ Mishap
  /\ \E k \in DOMAIN chunks : chunks' = SubSeq(chunks, 1, k - 1)
  /\ bulkGap' = TRUE
  /\ UNCHANGED <<joined, runLength, sendRecord, recvRecord, out, in, disk, row, opened,
                 saved, toReceiver, toSender, moved, agreed>>

-----------------------------------------------------------------------------
\* What users, radios and the operating system do.
FileEnvironment ==
  \/ SendFile
  \/ Join
  \/ Part
  \/ Restart
  \/ MoveLink
  \/ Persist
  \/ SenderCancels
  \/ UserAccepts
  \/ UserDeclines
  \/ UserStops
  \/ ReceiveDamaged
  \/ WriteFails
  \/ GiveUpChunk

\* What the two protocols do: messages delivered, reads and writes done, timers.
FileProtocol ==
  \/ ReadDone
  \/ ReceiveChunk
  \/ ReceiverTick
  \/ SenderReceives
  \/ ReceiveOffer
  \/ ReceiveEnd
  \/ SenderExpires
  \/ ReceiverExpires
  \/ VerifyDone
  \/ ReceiverMoves
  \/ SenderMoves
  \/ SenderTick
  \/ \E k \in DOMAIN in.writes : WriteDone(k)
  \/ \E e \in out.inFlight : ChunkTimeout(e)

FileNext == FileEnvironment \/ FileProtocol

FileSpec == FileInit /\ [][FileNext]_fileVars

\* The protocols run while they have something to do; which step comes first, and
\* what users, radios and the operating system do, is not promised.
FileFairness == WF_fileVars(FileProtocol)

FairFileSpec == FileSpec /\ FileFairness

-----------------------------------------------------------------------------
(* Correctness. *)

\* "A bitmap persisted at any instant never claims more than the disk actually
\* holds": neither the receiver's bitmap nor the one in the row counts a chunk that
\* could not be read back, however writes, restarts and sessions interleave.
BitmapIsHonest == in.received \union row.bitmap \subseteq HeldBy(disk)

\* What the sender shows as completed is in the receiver's storage, and it is the
\* file: every chunk once, in its place.
SentIsSaved ==
  sendRecord = "COMPLETED" => saved = [k \in 1..NumChunks |-> k - 1]

\* While the two phones stay together, a transfer does not hang: it ends on both.
TransferEnded == joined => out.state = "none" /\ in.state = "none"

\* Only a file the user said yes to, and has not stopped since, is received.
OnlyAgreedIsReceived == in.state \in {"TRANSFERRING", "VERIFYING"} => agreed
=============================================================================
