--------------------------- MODULE ReliableChannel ---------------------------
(***************************************************************************)
(* packages/core/src/session/reliability.ts, class ReliableChannel: one    *)
(* direction of one reliable channel, as PeerSession drives it.            *)
(*                                                                         *)
(* The sending half lives on one phone, the receiving half on the other,   *)
(* and between them is a link that loses, delays, reorders and repeats     *)
(* packets and that is replaced under the channel (pause / resume).  An    *)
(* item stands for the whole envelope; clocks and RTT samples are          *)
(* abstracted to "some record's deadline has passed".                      *)
(***************************************************************************)
EXTENDS Integers, Sequences, FiniteSets, Functions

CONSTANTS
  Items,              \* what an application may send
  WindowSize,         \* unacknowledged packets allowed in flight (64; BULK 16)
  ReorderBufferSize,  \* out-of-order packets held on receive (256)
  SackWidth,          \* bits of the selective acknowledgement (32)
  MaxAttempts,        \* transmissions before a record is given up (8)
  Piggyback,          \* other envelopes carry this channel's ackState: TRUE for
                      \* RELIABLE, FALSE for BULK
  MaxSubmitted,       \* bound: items handed to send()
  MaxResumes          \* bound: times the link is lost or replaced

ASSUME ConstantsAssumption ==
  /\ WindowSize \in Nat \ {0}
  /\ ReorderBufferSize \in Nat \ {0}
  /\ SackWidth \in Nat
  /\ MaxAttempts \in Nat \ {0}
  /\ Piggyback \in BOOLEAN
  /\ MaxSubmitted \in Nat
  /\ MaxResumes \in Nat

VARIABLES
  \* sender
  nextSeq,             \* sequence number the next send() gets
  unacked,             \* seq -> [item, attempts, rttAmbiguous]
  pendingQueue,        \* records that did not fit in the window yet
  paused,              \* the link is down
  timer,               \* a retransmission timer is armed
  resumes,             \* bound counter: link replacements so far
  \* receiver
  deliveredThrough,    \* highest sequence number delivered in order
  reorderBuffer,       \* seq -> item held behind a gap
  seenAboveWatermark,  \* sequence numbers ackState() reports as held
  \* the link
  packets,             \* data packets that may still arrive
  acks,                \* acknowledgements that may still arrive
  \* what the two applications have been told
  submitted, delivered, confirmed, abandoned

senderVars   == <<nextSeq, unacked, pendingQueue, paused, timer, resumes>>
receiverVars == <<deliveredThrough, reorderBuffer, seenAboveWatermark>>
linkVars     == <<packets, acks>>
appVars      == <<submitted, delivered, confirmed, abandoned>>
vars         == <<senderVars, receiverVars, linkVars, appVars>>

-----------------------------------------------------------------------------
\* SELECTIVE_ACK_BASE_OFFSET: ack + 1 is the packet the receiver is missing, so
\* bit 0 names ack + 2.
SackBaseOffset == 2

EmptyMap == [s \in {} |-> {}]

Packet(seq, item) == [seq |-> seq, item |-> item]

\* Mutants of ackState(): the number expected next is sent in place of the last one
\* received, and one bit too many.
MutantAckStateNext(watermark, seen) ==
  [ack  |-> watermark + 1,
   bits |-> {b \in 0..(SackWidth - 1) : watermark + SackBaseOffset + b \in seen}]

\* ackState(): the cumulative watermark and the offsets of what is held above it.
AckState(watermark, seen) ==
  [ack  |-> watermark,
   bits |-> {b \in 0..(SackWidth - 1) : watermark + SackBaseOffset + b \in seen}]

\* Mutant of acknowledge(): numbers that are no longer in the window are reported
\* as well.
MutantAckedBy(a) ==
  1..a.ack \union {a.ack + SackBaseOffset + b : b \in a.bits}

\* The unacknowledged sequence numbers an acknowledgement confirms.
AckedBy(a) ==
  {s \in DOMAIN unacked :
     \/ s <= a.ack
     \/ \E b \in a.bits : s = a.ack + SackBaseOffset + b}

\* Mutant of pump(): `<=` for `<` in the test against windowSize.
MutantPumpCount(pause, size, queued) ==
  IF pause \/ size > WindowSize THEN 0
  ELSE IF queued <= WindowSize + 1 - size THEN queued
  ELSE WindowSize + 1 - size

\* pump(): how many queued records move into a window already holding `size`.
PumpCount(pause, size, queued) ==
  IF pause \/ size >= WindowSize THEN 0
  ELSE IF queued <= WindowSize - size THEN queued
  ELSE WindowSize - size

\* pump() from a window `open` and a queue `queue`, scheduleTimer() included.
\* `resent` are packets the caller has just put on the wire.
Pump(pause, open, queue, resent) ==
  LET k     == PumpCount(pause, Cardinality(DOMAIN open), Len(queue))
      moved == 1..k
      fresh == {queue[i].seq : i \in moved}
      ItemOf(s) == queue[CHOOSE i \in moved : queue[i].seq = s].item
  IN  /\ unacked' = [s \in DOMAIN open \union fresh |->
                       IF s \in DOMAIN open THEN open[s]
                       ELSE [item |-> ItemOf(s), attempts |-> 1, rttAmbiguous |-> FALSE]]
      /\ pendingQueue' = SubSeq(queue, k + 1, Len(queue))
      /\ packets' = packets \union resent
                            \union {Packet(queue[i].seq, queue[i].item) : i \in moved}
      /\ timer' = IF pause THEN timer ELSE DOMAIN unacked' # {}

\* Mutant of onTimeout(): the attempt is not counted.
MutantRetried(r) == [item |-> r.item, attempts |-> r.attempts, rttAmbiguous |-> TRUE]

\* What a retransmission does to a record.
Retried(r) == [item |-> r.item, attempts |-> r.attempts + 1, rttAmbiguous |-> TRUE]

Resent(S) == {Packet(s, unacked[s].item) : s \in S}

-----------------------------------------------------------------------------
Init ==
  /\ nextSeq = 1
  /\ unacked = EmptyMap
  /\ pendingQueue = <<>>
  /\ paused = FALSE
  /\ timer = FALSE
  /\ resumes = 0
  /\ deliveredThrough = 0
  /\ reorderBuffer = EmptyMap
  /\ seenAboveWatermark = {}
  /\ packets = {}
  /\ acks = {}
  /\ submitted = <<>>
  /\ delivered = <<>>
  /\ confirmed = {}
  /\ abandoned = {}

\* send(): number the item, queue it, pump.
Send ==
  /\ nextSeq <= MaxSubmitted
  /\ \E item \in Items :
       /\ submitted' = Append(submitted, item)
       /\ Pump(paused, unacked, Append(pendingQueue, Packet(nextSeq, item)), {})
  /\ nextSeq' = nextSeq + 1
  /\ UNCHANGED <<paused, resumes, receiverVars, acks, delivered, confirmed, abandoned>>

\* Mutant of pause(): stopTimer() forgotten.
MutantPause ==
  /\ ~paused
  /\ resumes < MaxResumes
  /\ paused' = TRUE
  /\ UNCHANGED <<timer, nextSeq, unacked, pendingQueue, resumes, receiverVars, linkVars, appVars>>

\* pause(): the link went away, or the peer stopped responding.
Pause ==
  /\ ~paused
  /\ resumes < MaxResumes
  /\ paused' = TRUE
  /\ timer' = FALSE
  /\ UNCHANGED <<nextSeq, unacked, pendingQueue, resumes, receiverVars, linkVars, appVars>>

\* resume(): a new link carries the session.  Everything unacknowledged is put
\* on it at once (and counted as an attempt), then the queue is pumped.
Resume ==
  /\ resumes < MaxResumes
  /\ resumes' = resumes + 1
  /\ paused' = FALSE
  /\ Pump(FALSE, [s \in DOMAIN unacked |-> Retried(unacked[s])], pendingQueue,
          Resent(DOMAIN unacked))
  /\ UNCHANGED <<nextSeq, receiverVars, acks, appVars>>

\* onTimeout(): of the records that are due, those with attempts left are sent
\* again and the rest are dropped and reported.  pump() is not called.
Timeout ==
  /\ timer
  /\ ~paused
  /\ \E due \in SUBSET DOMAIN unacked :
       LET failed == {s \in due : unacked[s].attempts >= MaxAttempts}
           retry  == due \ failed
       IN  /\ due # {}
           /\ unacked' = [s \in DOMAIN unacked \ failed |->
                            IF s \in retry THEN Retried(unacked[s]) ELSE unacked[s]]
           /\ packets' = packets \union Resent(retry)
           /\ abandoned' = abandoned \union failed
  /\ timer' = (DOMAIN unacked' # {})
  /\ UNCHANGED <<nextSeq, pendingQueue, paused, resumes, receiverVars, acks,
                 submitted, delivered, confirmed>>

\* handleAck(): drop and report every record the acknowledgement names, then
\* pump.
HandleAck ==
  /\ \E a \in acks :
       /\ confirmed' = confirmed \union AckedBy(a)
       /\ Pump(paused, Restrict(unacked, DOMAIN unacked \ AckedBy(a)), pendingQueue, {})
  /\ UNCHANGED <<nextSeq, paused, resumes, receiverVars, acks, submitted, delivered, abandoned>>

-----------------------------------------------------------------------------
\* The packet is a duplicate, or there is no room to hold it: receive() returns
\* nothing.
Refused(seq) ==
  \/ seq <= deliveredThrough
  \/ seq \in DOMAIN reorderBuffer
  \/ Cardinality(DOMAIN reorderBuffer) >= ReorderBufferSize

\* Mutants of receive(): what is released carries the arriving envelope instead
\* of its own, and the release loop runs once.
MutantAcceptPayload(p) ==
  LET held == DOMAIN reorderBuffer \union {p.seq}
  IN  \E n \in held \union {deliveredThrough} :
        LET ready == (deliveredThrough + 1)..n
        IN  /\ n >= deliveredThrough
            /\ ready \subseteq held
            /\ n + 1 \notin held
            /\ deliveredThrough' = n
            /\ reorderBuffer' = [s \in held \ ready |->
                                   IF s = p.seq THEN p.item ELSE reorderBuffer[s]]
            /\ seenAboveWatermark' = (seenAboveWatermark \union {p.seq}) \ ready
            /\ delivered' = delivered \o [i \in 1..(n - deliveredThrough) |-> p.item]

MutantAcceptOne(p) ==
  IF p.seq = deliveredThrough + 1
  THEN /\ deliveredThrough' = p.seq
       /\ delivered' = Append(delivered, p.item)
       /\ UNCHANGED <<reorderBuffer, seenAboveWatermark>>
  ELSE /\ reorderBuffer' = [s \in DOMAIN reorderBuffer \union {p.seq} |->
                              IF s = p.seq THEN p.item ELSE reorderBuffer[s]]
       /\ seenAboveWatermark' = seenAboveWatermark \union {p.seq}
       /\ UNCHANGED <<deliveredThrough, delivered>>

\* The packet is buffered and the run that is now complete is released.
Accept(p) ==
  LET held == DOMAIN reorderBuffer \union {p.seq}
      ItemAt(s) == IF s = p.seq THEN p.item ELSE reorderBuffer[s]
  IN  \E n \in held \union {deliveredThrough} :
        LET ready == (deliveredThrough + 1)..n
        IN  /\ n >= deliveredThrough
            /\ ready \subseteq held
            /\ n + 1 \notin held
            /\ deliveredThrough' = n
            /\ reorderBuffer' = [s \in held \ ready |-> ItemAt(s)]
            /\ seenAboveWatermark' = (seenAboveWatermark \union {p.seq}) \ ready
            /\ delivered' = delivered \o
                 [i \in 1..(n - deliveredThrough) |-> ItemAt(deliveredThrough + i)]

\* receive(), then the acknowledgement processEnvelope() sends for every packet,
\* duplicates included.
Receive ==
  /\ \E p \in packets :
       \/ /\ ~Refused(p.seq)
          /\ Accept(p)
       \/ /\ Refused(p.seq)
          /\ UNCHANGED <<receiverVars, delivered>>
  /\ acks' = acks \union {AckState(deliveredThrough', seenAboveWatermark')}
  /\ UNCHANGED <<senderVars, packets, submitted, confirmed, abandoned>>

\* Any other envelope of the receiving phone carries ackState() as well.
PiggybackAck ==
  /\ Piggyback
  /\ acks' = acks \union {AckState(deliveredThrough, seenAboveWatermark)}
  /\ UNCHANGED <<senderVars, receiverVars, packets, appVars>>

\* The link loses a packet, or an acknowledgement.
Lose ==
  /\ \/ \E p \in packets : packets' = packets \ {p} /\ acks' = acks
     \/ \E a \in acks : acks' = acks \ {a} /\ packets' = packets
  /\ UNCHANGED <<senderVars, receiverVars, appVars>>

Next ==
  \/ Send
  \/ Pause
  \/ Resume
  \/ Timeout
  \/ HandleAck
  \/ Receive
  \/ PiggybackAck
  \/ Lose

Spec == Init /\ [][Next]_vars

\* The retransmission timer fires (setTimeout), a paused session is resumed or
\* torn down by its reconnect policy, the peer's keepalives carry ackState(), and
\* a link on which no acknowledgement ever gets through is replaced by the
\* liveness timer.
Fairness ==
  /\ WF_vars(Timeout)
  /\ WF_vars(paused /\ Resume)
  /\ WF_vars(PiggybackAck)
  /\ SF_vars(HandleAck)

FairSpec == Spec /\ Fairness

\* The same on a link that keeps carrying packets.
FairLinkSpec == FairSpec /\ SF_vars(Receive)

-----------------------------------------------------------------------------
(***************************************************************************)
(* Correctness.                                                            *)
(***************************************************************************)
Record == [item : Items, attempts : Nat \ {0}, rttAmbiguous : BOOLEAN]

Acknowledgement == [ack : Nat, bits : SUBSET (0..(SackWidth - 1))]

\* The shape of the state: numbered records on the sending side, numbered items
\* on the receiving side, and packets and acknowledgements in between.
TypeOK ==
  /\ nextSeq \in Nat \ {0}
  /\ DOMAIN unacked \subseteq Nat
  /\ unacked \in [DOMAIN unacked -> Record]
  /\ pendingQueue \in Seq([seq : Nat, item : Items])
  /\ paused \in BOOLEAN
  /\ timer \in BOOLEAN
  /\ resumes \in Nat
  /\ deliveredThrough \in Nat
  /\ DOMAIN reorderBuffer \subseteq Nat
  /\ reorderBuffer \in [DOMAIN reorderBuffer -> Items]
  /\ seenAboveWatermark \subseteq Nat
  /\ packets \subseteq [seq : Nat, item : Items]
  /\ acks \subseteq Acknowledgement
  /\ submitted \in Seq(Items)
  /\ delivered \in Seq(Items)
  /\ confirmed \subseteq Nat
  /\ abandoned \subseteq Nat

\* The sequence numbers the receiver has taken in.
Received == 1..deliveredThrough \union DOMAIN reorderBuffer

\* Sequence numbers below this one have been handed to the link at least once.
FirstPending == nextSeq - Len(pendingQueue)

\* "A message handed to it is delivered exactly once and in order even if the
\* underlying connection is replaced": whatever was lost, repeated, reordered,
\* retransmitted or given up, the receiving application has been handed exactly
\* the first deliveredThrough items, each with its own payload.
InOrderExactlyOnce ==
  /\ deliveredThrough <= Len(submitted)
  /\ delivered = SubSeq(submitted, 1, deliveredThrough)

\* The sender is told `delivered` only of packets the receiver holds, and an
\* acknowledgement that is still in flight never names one it does not hold,
\* however late it arrives: the bits are read against the watermark they were
\* written with.
NoFalseAck ==
  /\ confirmed \subseteq Received
  /\ \A a \in acks :
       /\ a.ack <= deliveredThrough
       /\ \A b \in a.bits : a.ack + SackBaseOffset + b \in Received

\* Nothing handed to send() is ever lost track of or settled twice: each number
\* is in exactly one of the queue, the window, the confirmed and the abandoned,
\* and the queue holds the newest ones in order.
Conservation ==
  /\ nextSeq = Len(submitted) + 1
  /\ DOMAIN unacked \union confirmed \union abandoned = 1..(FirstPending - 1)
  /\ DOMAIN unacked \intersect (confirmed \union abandoned) = {}
  /\ confirmed \intersect abandoned = {}
  /\ \A i \in 1..Len(pendingQueue) :
       pendingQueue[i] = Packet(FirstPending - 1 + i, submitted[FirstPending - 1 + i])

\* A timer is pending exactly while the link is up and something is
\* unacknowledged: no path through pause, resume, pump, timeout or
\* acknowledgement leaves a record that nobody will retransmit.
RetransmitArmed == timer <=> (~paused /\ DOMAIN unacked # {})

\* The window is never exceeded, resume() included.
WindowRespected == IsFiniteSet(DOMAIN unacked) /\ Cardinality(DOMAIN unacked) <= WindowSize

\* receive() drops packets when its reorder buffer is full, on the ground that
\* "their retransmit timer will resend once the gap clears".  That is only right
\* if the packet that closes the gap is itself never refused.  While nothing has
\* been given up, a buffer as large as the window plus the selective bitfield
\* (256 >= 64 + 32) always has room for it.
GapNeverRefused ==
  (abandoned = {} /\ ReorderBufferSize >= WindowSize + SackWidth)
    => Cardinality(DOMAIN reorderBuffer) < ReorderBufferSize

\* The channel implements ReliableDelivery: the promise without the protocol.
Promise == INSTANCE ReliableDelivery WITH received <- Received

ImplementsPromise == Promise!Spec

\* Every message handed to send() is settled: the application was told that the
\* peer has it or that it was given up.
SendsSettled == 1..(nextSeq - 1) \subseteq confirmed \union abandoned

\* "Reliable delivery confirmed by the peer": what the sender was told is
\* delivered does reach the receiving application.
ConfirmedReachesApplication ==
  \A s \in 1..MaxSubmitted : (s \in confirmed) ~> (s <= deliveredThrough)

=============================================================================
