---------------------------- MODULE DeliveryProofs ----------------------------
(***************************************************************************)
(* Theorems about the two layers that deliver: the reliable channel of a   *)
(* session, for every set of items, window, buffer, bitfield width and     *)
(* attempt budget, and the chat outbox above it, for any number of         *)
(* messages, sessions, attempts, outages and give-ups.                     *)
(***************************************************************************)
EXTENDS ReliableChannel, ChatOutbox, FiniteSetTheorems, SequenceTheorems, WellFoundedInduction,
        TLAPS

-----------------------------------------------------------------------------
(* The reliable channel.  Its safety invariants are not inductive one by   *)
(* one.  What makes them so is Integrity: every copy of a message,         *)
(* wherever it is (window, wire, reorder buffer), carries the item that    *)
(* was submitted under its number, and the receiver never holds a number   *)
(* that was not yet transmitted.                                           *)

\* Every copy of a message carries its own item, and the receiver is never ahead
\* of the sender.
Integrity ==
  /\ deliveredThrough < FirstPending
  /\ \A s \in DOMAIN unacked : unacked[s].item = submitted[s]
  /\ \A p \in packets :
       /\ p.seq \in 1..(FirstPending - 1)
       /\ p.item = submitted[p.seq]
  /\ \A s \in DOMAIN reorderBuffer :
       /\ s \in (deliveredThrough + 2)..(FirstPending - 1)
       /\ reorderBuffer[s] = submitted[s]
  /\ seenAboveWatermark = DOMAIN reorderBuffer

\* A confirmed number lies within the reach of the selective bitfield.
SackBound == \A s \in confirmed : s <= deliveredThrough + 1 + SackWidth

IInv ==
  /\ TypeOK
  /\ Conservation
  /\ Integrity
  /\ InOrderExactlyOnce
  /\ NoFalseAck
  /\ RetransmitArmed
  /\ WindowRespected
  /\ SackBound

-----------------------------------------------------------------------------
\* The size of an interval that may be empty.
LEMMA IntervalSize ==
  ASSUME NEW a \in Int, NEW b \in Int, a <= b + 1
  PROVE  IsFiniteSet(a..b) /\ Cardinality(a..b) = b - a + 1
<1>1. IsFiniteSet(a..b) /\ Cardinality(a..b) = IF a > b THEN 0 ELSE b - a + 1
  BY FS_Interval
<1> QED BY <1>1

\* What pump() is given: a window and, behind it, a queue of consecutive numbers
\* from F on, both carrying the items of `sub`.
PumpInput(open, queue, F, sub) ==
  /\ queue \in Seq([seq : Nat, item : Items])
  /\ F \in Nat \ {0}
  /\ DOMAIN open \subseteq 1..(F - 1)
  /\ open \in [DOMAIN open -> Record]
  /\ \A s \in DOMAIN open : open[s].item = sub[s]
  /\ \A i \in 1..Len(queue) : queue[i] = Packet(F - 1 + i, sub[F - 1 + i])
  /\ IsFiniteSet(DOMAIN open)
  /\ Cardinality(DOMAIN open) <= WindowSize

\* What it does: the first k of the queue are now in the window and on the wire.
Pumped(k, pause, open, queue, resent, F, sub) ==
  /\ DOMAIN unacked' = DOMAIN open \union F..(F + k - 1)
  /\ unacked' \in [DOMAIN unacked' -> Record]
  /\ \A s \in DOMAIN unacked' : unacked'[s].item = sub[s]
  /\ IsFiniteSet(DOMAIN unacked')
  /\ Cardinality(DOMAIN unacked') <= WindowSize
  /\ pendingQueue' \in Seq([seq : Nat, item : Items])
  /\ Len(pendingQueue') = Len(queue) - k
  /\ \A i \in 1..(Len(queue) - k) :
       pendingQueue'[i] = Packet(F + k - 1 + i, sub[F + k - 1 + i])
  /\ packets' = packets \union resent
                        \union {Packet(s, sub[s]) : s \in F..(F + k - 1)}
  /\ timer' = IF pause THEN timer ELSE DOMAIN unacked' # {}
  /\ (pause => k = 0)

\* pump() moves a prefix of the queue into the window and onto the wire, without
\* exceeding the window.
LEMMA PumpMovesPrefix ==
  ASSUME NEW pause \in BOOLEAN,
         NEW open, NEW queue, NEW resent, NEW F, NEW sub,
         PumpInput(open, queue, F, sub),
         Pump(pause, open, queue, resent)
  PROVE  \E k \in 0..Len(queue) : Pumped(k, pause, open, queue, resent, F, sub)
<1> USE DEF PumpInput
<1> DEFINE size == Cardinality(DOMAIN open)
           k == PumpCount(pause, size, Len(queue))
           fresh == {queue[i].seq : i \in 1..k}
<1>1. size \in Nat /\ Len(queue) \in Nat
  BY FS_CardinalityType, LenProperties
<1>2. k \in 0..Len(queue) /\ size + k <= WindowSize /\ (pause => k = 0)
  BY <1>1, ConstantsAssumption DEF PumpCount
<1>3. \A i \in 1..k : /\ queue[i] = Packet(F - 1 + i, sub[F - 1 + i])
                      /\ queue[i] \in [seq : Nat, item : Items]
                      /\ queue[i].seq = F - 1 + i
                      /\ queue[i].item = sub[F - 1 + i]
  BY <1>1, <1>2, ElementOfSeq DEF Packet
<1>4. fresh = F..(F + k - 1)
  <2>1. ASSUME NEW s \in F..(F + k - 1) PROVE s \in fresh
    <3>1. s - F + 1 \in 1..k /\ F - 1 + (s - F + 1) = s
      BY <1>1, <1>2
    <3> QED BY <3>1, <1>3
  <2>2. ASSUME NEW s \in fresh PROVE s \in F..(F + k - 1)
    BY <1>1, <1>2, <1>3
  <2> QED BY <2>1, <2>2
<1> DEFINE ItemOf(s) == queue[CHOOSE i \in 1..k : queue[i].seq = s].item
<1>5. ASSUME NEW s \in F..(F + k - 1)
      PROVE  ItemOf(s) = sub[s] /\ ItemOf(s) \in Items
  <2> DEFINE i == CHOOSE i \in 1..k : queue[i].seq = s
  <2>1. i \in 1..k /\ queue[i].seq = s
    BY <1>4
  <2> HIDE DEF i
  <2>2. F - 1 + i = s
    BY <2>1, <1>3, <1>1, <1>2
  <2> QED BY <2>1, <2>2, <1>3 DEF i
<1>6. unacked' = [s \in DOMAIN open \union fresh |->
                    IF s \in DOMAIN open THEN open[s]
                    ELSE [item |-> ItemOf(s), attempts |-> 1, rttAmbiguous |-> FALSE]]
  BY DEF Pump
<1>7. pendingQueue' = SubSeq(queue, k + 1, Len(queue))
  BY DEF Pump
<1>8. packets' = packets \union resent \union {Packet(queue[i].seq, queue[i].item) : i \in 1..k}
  BY DEF Pump
<1>9. timer' = IF pause THEN timer ELSE DOMAIN unacked' # {}
  BY DEF Pump
<1> HIDE DEF k, fresh, ItemOf, size
<1>10. DOMAIN unacked' = DOMAIN open \union F..(F + k - 1)
  BY <1>4, <1>6
<1>11. ASSUME NEW s \in DOMAIN unacked'
       PROVE  unacked'[s].item = sub[s] /\ unacked'[s] \in Record
  BY <1>4, <1>5, <1>6, <1>10 DEF Record
<1>12. unacked' \in [DOMAIN unacked' -> Record]
  BY <1>6, <1>11
<1>13. /\ IsFiniteSet(DOMAIN unacked')
       /\ Cardinality(DOMAIN unacked') <= WindowSize
  <2>1. IsFiniteSet(F..(F + k - 1)) /\ Cardinality(F..(F + k - 1)) = k
    <3> DEFINE last == F + k - 1
    <3>1. F \in Int /\ last \in Int /\ F <= last + 1 /\ last - F + 1 = k
      BY <1>1, <1>2
    <3> HIDE DEF last
    <3>2. IsFiniteSet(F..last) /\ Cardinality(F..last) = last - F + 1
      BY <3>1, IntervalSize
    <3> QED BY <3>1, <3>2 DEF last
  <2>2. DOMAIN open \intersect F..(F + k - 1) = {}
    BY <1>1, <1>2
  <2>3. Cardinality(DOMAIN open \union F..(F + k - 1)) = size + k - Cardinality({})
    <3>1. Cardinality(DOMAIN open \union F..(F + k - 1)) =
            Cardinality(DOMAIN open) + Cardinality(F..(F + k - 1))
              - Cardinality(DOMAIN open \intersect F..(F + k - 1))
      BY <2>1, FS_Union
    <3> QED BY <3>1, <2>1, <2>2 DEF size
  <2>4. IsFiniteSet(DOMAIN open \union F..(F + k - 1))
    BY <2>1, FS_Union
  <2>5. Cardinality(DOMAIN open \union F..(F + k - 1)) <= WindowSize
    BY <2>3, <1>1, <1>2, FS_EmptySet
  <2> QED BY <2>4, <2>5, <1>10
<1>14. /\ pendingQueue' \in Seq([seq : Nat, item : Items])
       /\ Len(pendingQueue') = Len(queue) - k
       /\ \A i \in 1..(Len(queue) - k) : pendingQueue'[i] = queue[k + i]
  <2>1. \A i \in (k + 1)..Len(queue) : queue[i] \in [seq : Nat, item : Items]
    <3> TAKE i \in (k + 1)..Len(queue)
    <3>1. i \in 1..Len(queue)
      BY <1>1, <1>2
    <3> QED BY <3>1, ElementOfSeq
  <2>2. k + 1 \in Int /\ Len(queue) \in Int
    BY <1>1, <1>2
  <2>3. /\ SubSeq(queue, k + 1, Len(queue)) \in Seq([seq : Nat, item : Items])
        /\ Len(SubSeq(queue, k + 1, Len(queue))) =
             IF k + 1 <= Len(queue) THEN Len(queue) - (k + 1) + 1 ELSE 0
        /\ \A i \in 1..(Len(queue) - (k + 1) + 1) :
             SubSeq(queue, k + 1, Len(queue))[i] = queue[k + 1 + i - 1]
    BY <2>1, <2>2, SubSeqProperties
  <2>4. Len(queue) - (k + 1) + 1 = Len(queue) - k
    BY <1>1, <1>2
  <2>5. k + 1 <= Len(queue) \/ Len(queue) - k = 0
    BY <1>1, <1>2
  <2>6. ASSUME NEW i \in 1..(Len(queue) - k) PROVE k + 1 + i - 1 = k + i
    BY <1>1, <1>2
  <2> QED BY <2>3, <2>4, <2>5, <2>6, <1>7
<1>15. \A i \in 1..(Len(queue) - k) :
          pendingQueue'[i] = Packet(F + k - 1 + i, sub[F + k - 1 + i])
  <2> TAKE i \in 1..(Len(queue) - k)
  <2>1. k + i \in 1..Len(queue) /\ F - 1 + (k + i) = F + k - 1 + i
    BY <1>1, <1>2
  <2> QED BY <2>1, <1>14
<1>16. {Packet(queue[i].seq, queue[i].item) : i \in 1..k} = {Packet(s, sub[s]) : s \in F..(F + k - 1)}
  <2>1. ASSUME NEW i \in 1..k
        PROVE  Packet(queue[i].seq, queue[i].item) \in {Packet(s, sub[s]) : s \in F..(F + k - 1)}
    <3>1. F - 1 + i \in F..(F + k - 1)
      BY <1>1, <1>2
    <3> QED BY <3>1, <1>3
  <2>2. ASSUME NEW s \in F..(F + k - 1)
        PROVE  Packet(s, sub[s]) \in {Packet(queue[i].seq, queue[i].item) : i \in 1..k}
    <3>1. s - F + 1 \in 1..k /\ F - 1 + (s - F + 1) = s
      BY <1>1, <1>2
    <3> QED BY <3>1, <1>3
  <2> QED BY <2>1, <2>2
<1> QED
  BY <1>2, <1>8, <1>9, <1>10, <1>11, <1>12, <1>13, <1>14, <1>15, <1>16 DEF Pumped

-----------------------------------------------------------------------------
\* The arithmetic every step needs.
LEMMA Numbers ==
  ASSUME IInv
  PROVE  /\ nextSeq \in Nat /\ Len(pendingQueue) \in Nat /\ Len(submitted) \in Nat
         /\ FirstPending \in Nat \ {0}
         /\ nextSeq = Len(submitted) + 1
         /\ FirstPending - 1 <= Len(submitted)
         /\ deliveredThrough \in Nat
         /\ deliveredThrough < FirstPending
  BY LenProperties DEF IInv, TypeOK, Conservation, Integrity, FirstPending

\* The channel starts in a state satisfying the invariant.
LEMMA InitIInv == Init => IInv
<1> SUFFICES ASSUME Init PROVE IInv
  OBVIOUS
<1>1. /\ pendingQueue \in Seq([seq : Nat, item : Items]) /\ Len(pendingQueue) = 0
      /\ submitted \in Seq(Items) /\ Len(submitted) = 0
      /\ delivered \in Seq(Items) /\ Len(delivered) = 0
  BY EmptySeq DEF Init
<1>2. /\ DOMAIN unacked = {} /\ unacked \in [DOMAIN unacked -> Record]
      /\ DOMAIN reorderBuffer = {} /\ reorderBuffer \in [DOMAIN reorderBuffer -> Items]
  BY DEF Init, EmptyMap
<1>3. TypeOK
  <2>1. /\ nextSeq \in Nat \ {0} /\ resumes \in Nat /\ deliveredThrough \in Nat
        /\ seenAboveWatermark \subseteq Nat /\ packets = {} /\ acks = {}
        /\ confirmed \subseteq Nat /\ abandoned \subseteq Nat
    BY DEF Init
  <2>2. paused \in BOOLEAN /\ timer \in BOOLEAN
    BY Zenon DEF Init
  <2> QED BY <1>1, <1>2, <2>1, <2>2 DEF TypeOK
<1>4. FirstPending = 1 /\ Received = {}
  BY <1>1, <1>2 DEF Init, FirstPending, Received
<1>5. Conservation
  BY <1>1, <1>2, <1>4 DEF Init, Conservation
<1>6. Integrity
  BY <1>1, <1>2, <1>4 DEF Init, Integrity
<1>7. InOrderExactlyOnce
  <2>1. SubSeq(submitted, 1, 0) = <<>>
    BY SubSeqEmpty
  <2> QED BY <2>1, <1>1 DEF Init, InOrderExactlyOnce
<1>8. NoFalseAck
  BY DEF Init, NoFalseAck
<1>9. RetransmitArmed
  BY <1>2 DEF Init, RetransmitArmed
<1>10. WindowRespected
  BY <1>2, FS_EmptySet, ConstantsAssumption DEF WindowRespected
<1>11. SackBound
  BY DEF Init, SackBound
<1> QED BY <1>3, <1>5, <1>6, <1>7, <1>8, <1>9, <1>10, <1>11 DEF IInv

\* Steps that leave the whole state of the invariant alone except the link.
LEMMA LoseKeeps == IInv /\ Lose => IInv'
  BY DEF IInv, Lose, TypeOK, Conservation, Integrity, InOrderExactlyOnce, NoFalseAck,
         RetransmitArmed, WindowRespected, SackBound, FirstPending, Received,
         senderVars, receiverVars, appVars

\* pause() stops the timer and leaves the window.
LEMMA PauseKeeps == IInv /\ Pause => IInv'
<1> SUFFICES ASSUME IInv, Pause PROVE IInv'
  OBVIOUS
<1> USE DEF receiverVars, linkVars, appVars
<1>1. TypeOK'
  BY DEF IInv, Pause, TypeOK
<1>2. RetransmitArmed'
  BY DEF IInv, Pause, RetransmitArmed
<1>3. Conservation' /\ Integrity' /\ InOrderExactlyOnce' /\ NoFalseAck'
        /\ WindowRespected' /\ SackBound'
  BY DEF IInv, Pause, Conservation, Integrity, InOrderExactlyOnce, NoFalseAck,
         WindowRespected, SackBound, FirstPending, Received
<1> QED BY <1>1, <1>2, <1>3 DEF IInv

\* The invariant is about the variables of the channel only.
LEMMA StutterKeeps == IInv /\ UNCHANGED vars => IInv'
  BY DEF IInv, vars, TypeOK, Conservation, Integrity, InOrderExactlyOnce, NoFalseAck,
         RetransmitArmed, WindowRespected, SackBound, FirstPending, Received,
         senderVars, receiverVars, linkVars, appVars

\* An acknowledgement written from the receiver's state names only what it holds.
LEMMA AckStateTruthful ==
  ASSUME NEW w \in Nat, NEW seen
  PROVE  /\ AckState(w, seen) \in Acknowledgement
         /\ AckState(w, seen).ack = w
         /\ \A b \in AckState(w, seen).bits : w + SackBaseOffset + b \in seen
  BY DEF AckState, Acknowledgement

\* An acknowledgement rides on a packet of the other direction.
LEMMA PiggybackAckKeeps == IInv /\ PiggybackAck => IInv'
<1> SUFFICES ASSUME IInv, PiggybackAck PROVE IInv'
  OBVIOUS
<1> DEFINE a == AckState(deliveredThrough, seenAboveWatermark)
<1>1. acks' = acks \union {a}
  BY DEF PiggybackAck
<1>2. /\ a \in Acknowledgement /\ a.ack = deliveredThrough
      /\ \A b \in a.bits : a.ack + SackBaseOffset + b \in Received
  BY AckStateTruthful DEF IInv, TypeOK, Integrity, Received
<1> HIDE DEF a
<1>3. UNCHANGED <<senderVars, receiverVars, packets, appVars>>
  BY DEF PiggybackAck
<1>4. TypeOK'
  BY <1>1, <1>2, <1>3 DEF IInv, TypeOK, senderVars, receiverVars, appVars
<1>5. NoFalseAck'
  BY <1>1, <1>2, <1>3 DEF IInv, TypeOK, NoFalseAck, Received, senderVars, receiverVars, appVars
<1>6. Conservation' /\ Integrity' /\ InOrderExactlyOnce' /\ RetransmitArmed'
        /\ WindowRespected' /\ SackBound'
  BY <1>3 DEF IInv, Conservation, Integrity, InOrderExactlyOnce, RetransmitArmed,
              WindowRespected, SackBound, FirstPending, senderVars, receiverVars, appVars
<1> QED BY <1>4, <1>5, <1>6 DEF IInv

\* A timeout removes exactly what it reports, and keeps a timer for the rest.
LEMMA TimeoutKeeps == IInv /\ Timeout => IInv'
<1> SUFFICES ASSUME IInv, Timeout PROVE IInv'
  OBVIOUS
<1>1. PICK due \in SUBSET DOMAIN unacked :
        LET failed == {s \in due : unacked[s].attempts >= MaxAttempts}
            retry  == due \ failed
        IN  /\ unacked' = [s \in DOMAIN unacked \ failed |->
                             IF s \in retry THEN Retried(unacked[s]) ELSE unacked[s]]
            /\ packets' = packets \union Resent(retry)
            /\ abandoned' = abandoned \union failed
  BY DEF Timeout
<1> DEFINE failed == {s \in due : unacked[s].attempts >= MaxAttempts}
           retry == due \ failed
<1>2. /\ failed \subseteq DOMAIN unacked /\ retry \subseteq DOMAIN unacked
      /\ DOMAIN unacked' = DOMAIN unacked \ failed
      /\ abandoned' = abandoned \union failed
      /\ packets' = packets \union {Packet(s, unacked[s].item) : s \in retry}
      /\ \A s \in DOMAIN unacked' :
           unacked'[s] = IF s \in retry THEN Retried(unacked[s]) ELSE unacked[s]
      /\ unacked' = [s \in DOMAIN unacked' |-> unacked'[s]]
  BY <1>1 DEF Resent
<1> HIDE DEF failed, retry
<1>3. /\ timer' = (DOMAIN unacked' # {}) /\ paused = FALSE
      /\ UNCHANGED <<nextSeq, pendingQueue, paused, resumes, receiverVars, acks,
                     submitted, delivered, confirmed>>
  BY DEF Timeout, IInv, TypeOK
<1>4. \A s \in DOMAIN unacked' : unacked'[s] \in Record /\ unacked'[s].item = submitted[s]
  <2> TAKE s \in DOMAIN unacked'
  <2>1. unacked[s] \in Record /\ unacked[s].item = submitted[s]
    BY <1>2 DEF IInv, TypeOK, Integrity
  <2>2. Retried(unacked[s]) \in Record /\ Retried(unacked[s]).item = unacked[s].item
    BY <2>1 DEF Record, Retried
  <2> QED BY <1>2, <2>1, <2>2
<1>5. \A p \in packets' : /\ p \in [seq : Nat, item : Items]
                          /\ p.seq \in 1..(FirstPending - 1)
                          /\ p.item = submitted[p.seq]
  <2>1. ASSUME NEW s \in retry
        PROVE  /\ Packet(s, unacked[s].item) \in [seq : Nat, item : Items]
               /\ s \in 1..(FirstPending - 1)
               /\ unacked[s].item = submitted[s]
    BY <1>2 DEF IInv, TypeOK, Integrity, Conservation, Record, Packet
  <2> QED BY <1>2, <2>1 DEF IInv, TypeOK, Integrity, Packet
<1>6. FirstPending' = FirstPending
  BY <1>3 DEF FirstPending
<1>7. TypeOK'
  BY <1>2, <1>3, <1>4, <1>5 DEF IInv, TypeOK, receiverVars
<1>8. Conservation'
  BY <1>2, <1>3, <1>6 DEF IInv, Conservation
<1>9. Integrity'
  BY <1>2, <1>3, <1>4, <1>5, <1>6 DEF IInv, Integrity, receiverVars
<1>10. InOrderExactlyOnce' /\ NoFalseAck' /\ SackBound' /\ RetransmitArmed'
  BY <1>3 DEF IInv, InOrderExactlyOnce, NoFalseAck, SackBound, RetransmitArmed, Received,
              receiverVars
<1>11. WindowRespected'
  <2>1. IsFiniteSet(DOMAIN unacked) /\ DOMAIN unacked' \in SUBSET DOMAIN unacked
    BY <1>2 DEF IInv, WindowRespected
  <2>2. /\ IsFiniteSet(DOMAIN unacked')
        /\ Cardinality(DOMAIN unacked') <= Cardinality(DOMAIN unacked)
        /\ Cardinality(DOMAIN unacked) \in Nat /\ Cardinality(DOMAIN unacked') \in Nat
    BY <2>1, FS_Subset, FS_CardinalityType
  <2> QED BY <2>2, ConstantsAssumption DEF IInv, WindowRespected
<1> QED BY <1>7, <1>8, <1>9, <1>10, <1>11 DEF IInv

\* A record that the sender moves from the queue or keeps in the window is still
\* accounted for; this is what the three callers of pump() share.
LEMMA PumpKeeps ==
  ASSUME IInv,
         NEW open, NEW queue, NEW resent,
         NEW pause \in BOOLEAN,
         PumpInput(open, queue, FirstPending, submitted'),
         Pump(pause, open, queue, resent),
         resent \subseteq {Packet(s, submitted'[s]) : s \in 1..(FirstPending - 1)},
         submitted' \in Seq(Items),
         Len(submitted) <= Len(submitted'),
         \A s \in 1..Len(submitted) : submitted'[s] = submitted[s],
         nextSeq' = Len(submitted') + 1,
         nextSeq' - Len(queue) = FirstPending,
         paused' = pause, pause => timer = FALSE,
         UNCHANGED receiverVars, UNCHANGED acks, UNCHANGED delivered,
         UNCHANGED abandoned, resumes' \in Nat, confirmed' \subseteq Nat,
         DOMAIN open \union confirmed' \union abandoned = 1..(FirstPending - 1),
         DOMAIN open \intersect (confirmed' \union abandoned) = {},
         confirmed' \intersect abandoned = {},
         confirmed' \subseteq Received,
         \A s \in confirmed' : s <= deliveredThrough + 1 + SackWidth
  PROVE  IInv'
<1> DEFINE F == FirstPending
<1>0. /\ F \in Nat \ {0} /\ deliveredThrough \in Nat /\ deliveredThrough < F
      /\ Len(submitted) \in Nat /\ F - 1 <= Len(submitted)
      /\ Len(submitted') \in Nat /\ Len(queue) \in Nat
  BY Numbers, LenProperties DEF PumpInput
<1>p. PICK k \in 0..Len(queue) : Pumped(k, pause, open, queue, resent, F, submitted')
  BY PumpMovesPrefix
<1>1. /\ DOMAIN unacked' = DOMAIN open \union F..(F + k - 1)
      /\ unacked' \in [DOMAIN unacked' -> Record]
      /\ \A s \in DOMAIN unacked' : unacked'[s].item = submitted'[s]
      /\ IsFiniteSet(DOMAIN unacked')
      /\ Cardinality(DOMAIN unacked') <= WindowSize
      /\ pendingQueue' \in Seq([seq : Nat, item : Items])
      /\ Len(pendingQueue') = Len(queue) - k
      /\ \A i \in 1..(Len(queue) - k) :
           pendingQueue'[i] = Packet(F + k - 1 + i, submitted'[F + k - 1 + i])
      /\ packets' = packets \union resent
                            \union {Packet(s, submitted'[s]) : s \in F..(F + k - 1)}
      /\ timer' = IF pause THEN timer ELSE DOMAIN unacked' # {}
      /\ (pause => k = 0)
  BY <1>p DEF Pumped
<1>2. FirstPending' = F + k /\ F + k - 1 <= Len(submitted')
  <2>1. nextSeq' - Len(queue) = F
    OBVIOUS
  <2> HIDE DEF F
  <2>2. FirstPending' = nextSeq' - Len(pendingQueue')
    BY DEF FirstPending
  <2> QED BY ONLY <1>0, <1>1, <2>1, <2>2, nextSeq' = Len(submitted') + 1
<1> HIDE DEF F
<1>3. \A p \in packets' : /\ p \in [seq : Nat, item : Items]
                          /\ p.seq \in 1..(F + k - 1)
                          /\ p.item = submitted'[p.seq]
  <2> TAKE p \in packets'
  <2>1. CASE p \in packets
    <3>1. /\ p \in [seq : Nat, item : Items]
          /\ p.seq \in 1..(F - 1) /\ p.item = submitted[p.seq]
      BY <2>1 DEF IInv, TypeOK, Integrity, F
    <3>2. p.seq \in 1..(F + k - 1) /\ p.seq \in 1..Len(submitted)
      BY <3>1, <1>0
    <3> QED BY <3>1, <3>2
  <2>2. ASSUME NEW s \in 1..(F + k - 1), p = Packet(s, submitted'[s])
        PROVE  /\ p \in [seq : Nat, item : Items]
               /\ p.seq \in 1..(F + k - 1)
               /\ p.item = submitted'[p.seq]
    <3>1. s \in 1..Len(submitted')
      BY <1>0, <1>2
    <3>2. submitted'[s] \in Items
      BY <3>1, ElementOfSeq
    <3> QED BY <2>2, <3>2 DEF Packet
  <2>3. CASE p \in resent
    <3>1. PICK s \in 1..(F - 1) : p = Packet(s, submitted'[s])
      BY <2>3 DEF F
    <3>2. s \in 1..(F + k - 1)
      BY <1>0
    <3> QED BY <3>1, <3>2, <2>2
  <2>4. CASE \E s \in F..(F + k - 1) : p = Packet(s, submitted'[s])
    <3>1. PICK s \in F..(F + k - 1) : p = Packet(s, submitted'[s])
      BY <2>4
    <3>2. s \in 1..(F + k - 1)
      BY <1>0
    <3> QED BY <3>1, <3>2, <2>2
  <2> QED BY <2>1, <2>3, <2>4, <1>1
<1>4. TypeOK'
  <2>1. DOMAIN unacked' \subseteq Nat
    BY <1>0, <1>1 DEF F
  <2>2. timer' \in BOOLEAN /\ paused' \in BOOLEAN
    BY <1>1, Zenon DEF IInv, TypeOK
  <2>3. nextSeq' \in Nat \ {0}
    BY <1>0
  <2> QED BY <1>1, <1>3, <2>1, <2>2, <2>3 DEF IInv, TypeOK, receiverVars
<1>5. Conservation'
  <2>1. DOMAIN unacked' \union confirmed' \union abandoned' = 1..(F + k - 1)
    BY <1>0, <1>1 DEF F
  <2>2. DOMAIN unacked' \intersect (confirmed' \union abandoned') = {}
    BY <1>0, <1>1 DEF F
  <2>3. confirmed' \intersect abandoned' = {}
    OBVIOUS
  <2>4. \A i \in 1..Len(pendingQueue') :
          pendingQueue'[i] = Packet(FirstPending' - 1 + i, submitted'[FirstPending' - 1 + i])
    <3>1. \A i \in 1..(Len(queue) - k) : FirstPending' - 1 + i = F + k - 1 + i
      BY <1>0, <1>2
    <3> QED BY <1>1, <3>1
  <2>5. nextSeq' = Len(submitted') + 1
    OBVIOUS
  <2> QED BY ONLY <1>0, <1>2, <2>1, <2>2, <2>3, <2>4, <2>5 DEF Conservation
<1>6. Integrity'
  <2>1. deliveredThrough' < FirstPending'
    BY <1>0, <1>2 DEF receiverVars
  <2>2. ASSUME NEW s \in DOMAIN reorderBuffer'
        PROVE  /\ s \in (deliveredThrough' + 2)..(FirstPending' - 1)
               /\ reorderBuffer'[s] = submitted'[s]
    <3>1. /\ s \in (deliveredThrough + 2)..(F - 1)
          /\ reorderBuffer[s] = submitted[s]
      BY DEF IInv, Integrity, receiverVars, F
    <3>2. s \in (deliveredThrough + 2)..(F + k - 1) /\ s \in 1..Len(submitted)
      BY <3>1, <1>0
    <3>3. /\ deliveredThrough' = deliveredThrough /\ reorderBuffer' = reorderBuffer
          /\ submitted'[s] = submitted[s]
      BY <3>2 DEF receiverVars
    <3> QED BY ONLY <3>1, <3>2, <3>3, <1>0, <1>2
  <2>3. seenAboveWatermark' = DOMAIN reorderBuffer'
    BY DEF IInv, Integrity, receiverVars
  <2>4. \A p \in packets' : p.seq \in 1..(FirstPending' - 1) /\ p.item = submitted'[p.seq]
    BY ONLY <1>0, <1>2, <1>3
  <2> QED BY <1>1, <2>1, <2>2, <2>3, <2>4 DEF Integrity
<1>7. InOrderExactlyOnce'
  <2> DEFINE d == deliveredThrough
  <2>1. d \in Nat /\ d <= Len(submitted) /\ d <= Len(submitted')
    BY <1>0
  <2>2. \A i \in 1..d : submitted'[i] = submitted[i] /\ submitted[i] \in Items
    BY <2>1, <1>0, ElementOfSeq DEF IInv, TypeOK
  <2> HIDE DEF d
  <2>3. SubSeq(submitted', 1, d) = SubSeq(submitted, 1, d)
    <3>1. /\ SubSeq(submitted, 1, d) \in Seq(Items)
          /\ Len(SubSeq(submitted, 1, d)) = d
          /\ \A i \in 1..d : SubSeq(submitted, 1, d)[i] = submitted[i]
      BY <2>1, <2>2, SubSeqProperties
    <3>2. /\ SubSeq(submitted', 1, d) \in Seq(Items)
          /\ Len(SubSeq(submitted', 1, d)) = d
          /\ \A i \in 1..d : SubSeq(submitted', 1, d)[i] = submitted'[i]
      BY <2>1, <2>2, SubSeqProperties
    <3> QED BY <2>2, <3>1, <3>2, SeqEqual
  <2> QED BY <2>1, <2>3 DEF IInv, InOrderExactlyOnce, receiverVars, d
<1>8. NoFalseAck'
  BY DEF IInv, NoFalseAck, Received, receiverVars
<1>9. RetransmitArmed'
  BY <1>1 DEF RetransmitArmed
<1>10. WindowRespected'
  BY <1>1 DEF WindowRespected
<1>11. SackBound'
  BY DEF SackBound, receiverVars
<1> QED BY <1>4, <1>5, <1>6, <1>7, <1>8, <1>9, <1>10, <1>11 DEF IInv

\* The window as it is may be given to pump().
LEMMA WindowIsInput ==
  ASSUME IInv
  PROVE  PumpInput(unacked, pendingQueue, FirstPending, submitted)
  BY Numbers DEF IInv, TypeOK, Conservation, Integrity, WindowRespected, PumpInput

\* send() queues a message and fills the window.
LEMMA SendKeeps == IInv /\ Send => IInv'
<1> SUFFICES ASSUME IInv, Send PROVE IInv'
  OBVIOUS
<1>1. PICK item \in Items :
        /\ submitted' = Append(submitted, item)
        /\ Pump(paused, unacked, Append(pendingQueue, Packet(nextSeq, item)), {})
  BY DEF Send
<1> DEFINE queue == Append(pendingQueue, Packet(nextSeq, item))
<1>2. /\ nextSeq' = nextSeq + 1
      /\ UNCHANGED <<paused, resumes, receiverVars, acks, delivered, confirmed, abandoned>>
  BY DEF Send
<1>3. /\ nextSeq \in Nat /\ Len(pendingQueue) \in Nat /\ Len(submitted) \in Nat
      /\ FirstPending \in Nat \ {0} /\ FirstPending = nextSeq - Len(pendingQueue)
      /\ nextSeq = Len(submitted) + 1
      /\ submitted \in Seq(Items) /\ pendingQueue \in Seq([seq : Nat, item : Items])
  BY Numbers DEF IInv, TypeOK, FirstPending
<1>4. /\ submitted' \in Seq(Items) /\ Len(submitted') = Len(submitted) + 1
      /\ \A s \in 1..Len(submitted) : submitted'[s] = submitted[s]
      /\ submitted'[nextSeq] = item
  BY <1>1, <1>3, AppendProperties
<1>5. Packet(nextSeq, item) \in [seq : Nat, item : Items]
  BY <1>3 DEF Packet
<1>6. /\ queue \in Seq([seq : Nat, item : Items]) /\ Len(queue) = Len(pendingQueue) + 1
      /\ \A i \in 1..Len(pendingQueue) : queue[i] = pendingQueue[i]
      /\ queue[Len(pendingQueue) + 1] = Packet(nextSeq, item)
  BY <1>3, <1>5, AppendProperties
<1> HIDE DEF queue
<1>7. PumpInput(unacked, queue, FirstPending, submitted')
  <2>1. PumpInput(unacked, pendingQueue, FirstPending, submitted)
    BY WindowIsInput
  <2>2. ASSUME NEW i \in 1..Len(queue)
        PROVE  queue[i] = Packet(FirstPending - 1 + i, submitted'[FirstPending - 1 + i])
    <3>1. CASE i \in 1..Len(pendingQueue)
      <4>1. FirstPending - 1 + i \in 1..Len(submitted)
        BY <3>1, <1>3
      <4>2. pendingQueue[i] = Packet(FirstPending - 1 + i, submitted[FirstPending - 1 + i])
        BY <3>1, <2>1 DEF PumpInput
      <4> QED BY <3>1, <4>1, <4>2, <1>4, <1>6
    <3>2. CASE i = Len(pendingQueue) + 1
      <4>1. FirstPending - 1 + i = nextSeq
        BY <3>2, <1>3
      <4> QED BY <3>2, <4>1, <1>4, <1>6
    <3> QED BY <3>1, <3>2, <1>3, <1>6
  <2>3. \A s \in DOMAIN unacked : unacked[s].item = submitted'[s]
    <3> TAKE s \in DOMAIN unacked
    <3>1. s \in 1..(FirstPending - 1) /\ unacked[s].item = submitted[s]
      BY <2>1 DEF PumpInput
    <3>2. s \in 1..Len(submitted)
      BY <3>1, <1>3
    <3> QED BY <3>1, <3>2, <1>4
  <2> QED BY <2>1, <2>2, <2>3, <1>6 DEF PumpInput
<1>8. /\ Pump(paused, unacked, queue, {})
      /\ paused \in BOOLEAN /\ paused' = paused /\ (paused => timer = FALSE)
  BY <1>1, <1>2 DEF IInv, TypeOK, RetransmitArmed, queue
<1>9. /\ nextSeq' = Len(submitted') + 1 /\ nextSeq' - Len(queue) = FirstPending
      /\ Len(submitted) <= Len(submitted')
  BY <1>2, <1>3, <1>4, <1>6
<1>10. /\ DOMAIN unacked \union confirmed' \union abandoned = 1..(FirstPending - 1)
       /\ DOMAIN unacked \intersect (confirmed' \union abandoned) = {}
       /\ confirmed' \intersect abandoned = {}
       /\ confirmed' \subseteq Received /\ confirmed' \subseteq Nat
       /\ \A s \in confirmed' : s <= deliveredThrough + 1 + SackWidth
  BY <1>2 DEF IInv, TypeOK, Conservation, NoFalseAck, SackBound
<1>11. /\ UNCHANGED receiverVars /\ UNCHANGED acks /\ UNCHANGED delivered
       /\ UNCHANGED abandoned /\ resumes' \in Nat
  BY <1>2 DEF IInv, TypeOK
<1> QED BY ONLY IInv, <1>4, <1>7, <1>8, <1>9, <1>10, <1>11, PumpKeeps

\* resume() sends the window again and arms the timer.
LEMMA ResumeKeeps == IInv /\ Resume => IInv'
<1> SUFFICES ASSUME IInv, Resume PROVE IInv'
  OBVIOUS
<1> DEFINE open == [s \in DOMAIN unacked |-> Retried(unacked[s])]
           resent == Resent(DOMAIN unacked)
<1>1. /\ Pump(FALSE, open, pendingQueue, resent) /\ paused' = FALSE
      /\ resumes' = resumes + 1
      /\ UNCHANGED <<nextSeq, receiverVars, acks, appVars>>
  BY DEF Resume
<1>2. PumpInput(unacked, pendingQueue, FirstPending, submitted)
  BY WindowIsInput
<1>3. /\ submitted' = submitted /\ confirmed' = confirmed /\ nextSeq' = nextSeq
      /\ UNCHANGED receiverVars /\ UNCHANGED acks /\ UNCHANGED delivered
      /\ UNCHANGED abandoned /\ resumes' \in Nat
  BY <1>1 DEF IInv, TypeOK, appVars
<1>4. DOMAIN open = DOMAIN unacked
  OBVIOUS
<1>5. ASSUME NEW s \in DOMAIN unacked
      PROVE  open[s] \in Record /\ open[s].item = submitted[s]
  <2>1. unacked[s] \in Record /\ unacked[s].item = submitted[s]
    BY <1>2 DEF PumpInput
  <2>2. Retried(unacked[s]) \in Record /\ Retried(unacked[s]).item = unacked[s].item
    BY <2>1 DEF Record, Retried
  <2> QED BY <2>1, <2>2
<1>6. open \in [DOMAIN open -> Record]
  BY <1>5
<1>7. resent \subseteq {Packet(s, submitted'[s]) : s \in 1..(FirstPending - 1)}
  BY <1>2, <1>3 DEF PumpInput, Resent
<1> HIDE DEF open, resent
<1>8. PumpInput(open, pendingQueue, FirstPending, submitted')
  BY <1>2, <1>3, <1>4, <1>5, <1>6 DEF PumpInput
<1>9. /\ nextSeq' = Len(submitted') + 1 /\ nextSeq' - Len(pendingQueue) = FirstPending
      /\ submitted' \in Seq(Items)
      /\ Len(submitted) <= Len(submitted')
      /\ \A s \in 1..Len(submitted) : submitted'[s] = submitted[s]
  BY <1>3, Numbers DEF IInv, TypeOK, FirstPending
<1>10. /\ DOMAIN open \union confirmed' \union abandoned = 1..(FirstPending - 1)
       /\ DOMAIN open \intersect (confirmed' \union abandoned) = {}
       /\ confirmed' \intersect abandoned = {}
       /\ confirmed' \subseteq Received /\ confirmed' \subseteq Nat
       /\ \A s \in confirmed' : s <= deliveredThrough + 1 + SackWidth
  BY <1>3, <1>4 DEF IInv, TypeOK, Conservation, NoFalseAck, SackBound
<1> QED BY ONLY IInv, <1>1, <1>3, <1>7, <1>8, <1>9, <1>10, PumpKeeps

\* An acknowledgement settles what it covers and fills the window again.
LEMMA HandleAckKeeps == IInv /\ HandleAck => IInv'
<1> SUFFICES ASSUME IInv, HandleAck PROVE IInv'
  OBVIOUS
<1>1. PICK a \in acks :
        /\ confirmed' = confirmed \union AckedBy(a)
        /\ Pump(paused, Restrict(unacked, DOMAIN unacked \ AckedBy(a)), pendingQueue, {})
  BY DEF HandleAck
<1> DEFINE open == Restrict(unacked, DOMAIN unacked \ AckedBy(a))
<1>2. PumpInput(unacked, pendingQueue, FirstPending, submitted)
  BY WindowIsInput
<1>3. /\ submitted' = submitted /\ nextSeq' = nextSeq
      /\ UNCHANGED receiverVars /\ UNCHANGED acks /\ UNCHANGED delivered
      /\ UNCHANGED abandoned /\ resumes' \in Nat
      /\ paused \in BOOLEAN /\ paused' = paused /\ (paused => timer = FALSE)
  BY DEF HandleAck, IInv, TypeOK, RetransmitArmed
<1>4. /\ DOMAIN open = DOMAIN unacked \ AckedBy(a)
      /\ \A s \in DOMAIN open : open[s] = unacked[s]
      /\ open \in [DOMAIN open -> Record]
  BY <1>2 DEF Restrict, PumpInput
<1>5. /\ AckedBy(a) \subseteq DOMAIN unacked
      /\ AckedBy(a) \subseteq Received
      /\ \A s \in AckedBy(a) : s <= deliveredThrough + 1 + SackWidth
  <2>1. AckedBy(a) \subseteq DOMAIN unacked
    BY DEF AckedBy
  <2>2. /\ a.ack \in Nat /\ a.bits \subseteq 0..(SackWidth - 1)
        /\ a.ack <= deliveredThrough /\ deliveredThrough \in Nat
        /\ \A b \in a.bits : a.ack + SackBaseOffset + b \in Received
    BY DEF IInv, TypeOK, NoFalseAck, Acknowledgement
  <2>3. ASSUME NEW s \in AckedBy(a)
        PROVE  s \in Received /\ s <= deliveredThrough + 1 + SackWidth
    <3>1. s \in Nat /\ s >= 1
      BY <1>2, <2>1, Numbers DEF PumpInput
    <3>2. CASE s <= a.ack
      BY <3>1, <3>2, <2>2, ConstantsAssumption DEF Received
    <3>3. CASE \E b \in a.bits : s = a.ack + SackBaseOffset + b
      BY <3>1, <3>3, <2>2, ConstantsAssumption DEF SackBaseOffset
    <3> QED BY <3>2, <3>3 DEF AckedBy
  <2> QED BY <2>1, <2>3
<1> HIDE DEF open
<1>6. /\ IsFiniteSet(DOMAIN open)
      /\ Cardinality(DOMAIN open) <= WindowSize
  <2>1. IsFiniteSet(DOMAIN unacked) /\ DOMAIN open \in SUBSET DOMAIN unacked
    BY <1>2, <1>4 DEF PumpInput
  <2>2. /\ IsFiniteSet(DOMAIN open)
        /\ Cardinality(DOMAIN open) <= Cardinality(DOMAIN unacked)
        /\ Cardinality(DOMAIN unacked) \in Nat /\ Cardinality(DOMAIN open) \in Nat
    BY <2>1, FS_Subset, FS_CardinalityType
  <2> QED BY <2>2, <1>2, ConstantsAssumption DEF PumpInput
<1>7. PumpInput(open, pendingQueue, FirstPending, submitted')
  BY <1>2, <1>3, <1>4, <1>6 DEF PumpInput
<1>8. Pump(paused, open, pendingQueue, {})
  BY <1>1 DEF open
<1>9. /\ nextSeq' = Len(submitted') + 1 /\ nextSeq' - Len(pendingQueue) = FirstPending
      /\ submitted' \in Seq(Items)
      /\ Len(submitted) <= Len(submitted')
      /\ \A s \in 1..Len(submitted) : submitted'[s] = submitted[s]
  BY <1>3, Numbers DEF IInv, TypeOK, FirstPending
<1>10. /\ DOMAIN open \union confirmed' \union abandoned = 1..(FirstPending - 1)
       /\ DOMAIN open \intersect (confirmed' \union abandoned) = {}
       /\ confirmed' \intersect abandoned = {}
       /\ confirmed' \subseteq Received /\ confirmed' \subseteq Nat
       /\ \A s \in confirmed' : s <= deliveredThrough + 1 + SackWidth
  BY <1>1, <1>4, <1>5 DEF IInv, TypeOK, Conservation, NoFalseAck, SackBound
<1> QED BY ONLY IInv, <1>3, <1>7, <1>8, <1>9, <1>10, PumpKeeps

-----------------------------------------------------------------------------
\* Taking in a packet that is not refused: the watermark moves over the run that
\* is now complete, nothing the receiver held is lost, and the application is
\* handed exactly the items up to the new watermark.
LEMMA AcceptExtends ==
  ASSUME IInv, NEW p \in packets, ~Refused(p.seq), Accept(p)
  PROVE  /\ deliveredThrough' \in deliveredThrough..(FirstPending - 1)
         /\ p.seq \notin Received
         /\ Received' = Received \union {p.seq}
         /\ deliveredThrough' + 1 \notin Received'
         /\ \A s \in DOMAIN reorderBuffer' :
              /\ s \in (deliveredThrough' + 2)..(FirstPending - 1)
              /\ reorderBuffer'[s] = submitted[s]
         /\ reorderBuffer' \in [DOMAIN reorderBuffer' -> Items]
         /\ seenAboveWatermark' = DOMAIN reorderBuffer'
         /\ delivered' = SubSeq(submitted, 1, deliveredThrough')
<1> DEFINE d == deliveredThrough
           F == FirstPending
           held == DOMAIN reorderBuffer \union {p.seq}
           ItemAt(s) == IF s = p.seq THEN p.item ELSE reorderBuffer[s]
<1>1. /\ d \in Nat /\ F \in Nat \ {0} /\ d < F /\ Len(submitted) \in Nat
      /\ F - 1 <= Len(submitted) /\ submitted \in Seq(Items)
  BY Numbers DEF IInv, TypeOK
<1>2. /\ p.seq \in (d + 1)..(F - 1) /\ p.seq \notin DOMAIN reorderBuffer
      /\ p.item = submitted[p.seq]
  BY <1>1 DEF Refused, IInv, TypeOK, Integrity
<1>3. \A s \in DOMAIN reorderBuffer : s \in (d + 2)..(F - 1) /\ reorderBuffer[s] = submitted[s]
  BY DEF IInv, Integrity
<1>4. \A s \in held : s \in (d + 1)..(F - 1) /\ ItemAt(s) = submitted[s] /\ ItemAt(s) \in Items
  <2> TAKE s \in held
  <2>1. s \in (d + 1)..(F - 1) /\ ItemAt(s) = submitted[s]
    BY <1>1, <1>2, <1>3
  <2>2. s \in 1..Len(submitted)
    BY <2>1, <1>1
  <2> QED BY <2>1, <2>2, <1>1, ElementOfSeq
<1>5. PICK n \in held \union {d} :
            /\ n >= d
            /\ (d + 1)..n \subseteq held
            /\ n + 1 \notin held
            /\ deliveredThrough' = n
            /\ reorderBuffer' = [s \in held \ (d + 1)..n |-> ItemAt(s)]
            /\ seenAboveWatermark' = (seenAboveWatermark \union {p.seq}) \ (d + 1)..n
            /\ delivered' = delivered \o [i \in 1..(n - d) |-> ItemAt(d + i)]
  BY DEF Accept
<1>6. seenAboveWatermark = DOMAIN reorderBuffer /\ delivered = SubSeq(submitted, 1, d)
  BY DEF IInv, Integrity, InOrderExactlyOnce
<1>7. Received = 1..d \union DOMAIN reorderBuffer /\ Received' = 1..n \union DOMAIN reorderBuffer'
  BY <1>5 DEF Received
<1> HIDE DEF d, F, held, ItemAt
<1>8. n \in d..(F - 1)
  BY <1>1, <1>4, <1>5
<1>9. DOMAIN reorderBuffer' = held \ (d + 1)..n
  BY <1>5
<1>10. \A s \in DOMAIN reorderBuffer' : s \in (n + 2)..(F - 1) /\ reorderBuffer'[s] = submitted[s]
                                       /\ reorderBuffer'[s] \in Items
  <2> TAKE s \in DOMAIN reorderBuffer'
  <2>1. s \in held /\ s \notin (d + 1)..n /\ reorderBuffer'[s] = ItemAt(s)
    BY <1>5, <1>9
  <2>2. s # n + 1 /\ s \in (d + 1)..(F - 1)
    BY <2>1, <1>4, <1>5
  <2>3. s \in (n + 2)..(F - 1)
    BY <2>1, <2>2, <1>1, <1>8
  <2> QED BY <2>1, <2>3, <1>4
<1>11. reorderBuffer' \in [DOMAIN reorderBuffer' -> Items]
  BY <1>5, <1>10
<1>12. seenAboveWatermark' = DOMAIN reorderBuffer'
  BY <1>5, <1>6, <1>9 DEF held
<1>13. p.seq \notin Received
  BY <1>1, <1>2, <1>7
<1>14. Received' = Received \union {p.seq}
  <2>1. 1..n = 1..d \union (d + 1)..n
    BY <1>1, <1>8
  <2> QED BY <2>1, <1>5, <1>7, <1>9 DEF held
<1>15. n + 1 \notin Received'
  BY <1>1, <1>7, <1>8, <1>10
<1>16. delivered' = SubSeq(submitted, 1, n)
  <2> DEFINE run == [i \in 1..(n - d) |-> ItemAt(d + i)]
  <2>1. n - d \in Nat /\ \A i \in 1..(n - d) : d + i \in held
    <3>1. n - d \in Nat
      BY <1>1, <1>8
    <3>2. ASSUME NEW i \in 1..(n - d) PROVE d + i \in held
      <4>1. d + i \in (d + 1)..n
        BY <1>1, <1>8
      <4> QED BY <4>1, <1>5
    <3> QED BY <3>1, <3>2
  <2>2. run \in [1..(n - d) -> Items] /\ \A i \in 1..(n - d) : run[i] = submitted[d + i]
    BY <2>1, <1>4
  <2>3. run \in Seq(Items) /\ Len(run) = n - d
    <3>1. run \in Seq(Items)
      BY <2>1, <2>2, SeqDef
    <3>2. DOMAIN run = 1..(n - d) /\ DOMAIN run = 1..Len(run) /\ Len(run) \in Nat
      BY <2>1, <3>1, LenProperties
    <3> QED BY <3>1, <3>2, <2>1
  <2> HIDE DEF run
  <2> DEFINE tail == SubSeq(submitted, d + 1, n)
  <2>4. /\ tail \in Seq(Items) /\ Len(tail) = n - d
        /\ \A i \in 1..(n - d) : tail[i] = submitted[d + i]
    <3>1. \A i \in (d + 1)..n : submitted[i] \in Items
      <4> TAKE i \in (d + 1)..n
      <4>1. i \in 1..Len(submitted)
        BY <1>1, <1>8
      <4> QED BY <4>1, <1>1, ElementOfSeq
    <3>2. d + 1 \in Int /\ n \in Int
      BY <1>1, <1>8
    <3>3. /\ tail \in Seq(Items)
          /\ Len(tail) = IF d + 1 <= n THEN n - (d + 1) + 1 ELSE 0
          /\ \A i \in 1..(n - (d + 1) + 1) : tail[i] = submitted[d + 1 + i - 1]
      BY <3>1, <3>2, SubSeqProperties
    <3>4. n - (d + 1) + 1 = n - d /\ (d + 1 <= n \/ n - d = 0)
      BY <1>1, <1>8
    <3>5. ASSUME NEW i \in 1..(n - d) PROVE d + 1 + i - 1 = d + i
      BY <1>1, <1>8
    <3> HIDE DEF tail
    <3> QED BY <3>3, <3>4, <3>5
  <2>5. run = tail
    <3> HIDE DEF tail
    <3> QED BY <2>2, <2>3, <2>4, SeqEqual
  <2>6. SubSeq(submitted, 1, d) \o SubSeq(submitted, d + 1, n) = SubSeq(submitted, 1, n)
    <3>1. 1 \in 1..(Len(submitted) + 1) /\ d \in (1 - 1)..Len(submitted) /\ n \in d..Len(submitted)
      BY <1>1, <1>8
    <3> QED BY <3>1, <1>1, ConcatAdjacentSubSeq
  <2> QED BY <2>5, <2>6, <1>5, <1>6 DEF run
<1> QED
  BY <1>5, <1>8, <1>10, <1>11, <1>12, <1>13, <1>14, <1>15, <1>16 DEF d, F

\* receive() followed by its acknowledgement.
LEMMA ReceiveKeeps == IInv /\ Receive => IInv'
<1> SUFFICES ASSUME IInv, Receive PROVE IInv'
  OBVIOUS
<1> DEFINE F == FirstPending
<1>1. /\ UNCHANGED <<senderVars, packets, submitted, confirmed, abandoned>>
      /\ acks' = acks \union {AckState(deliveredThrough', seenAboveWatermark')}
  BY DEF Receive
<1>2. /\ F \in Nat \ {0} /\ deliveredThrough \in Nat /\ Len(submitted) \in Nat
      /\ F - 1 <= Len(submitted)
  BY Numbers
<1>3. /\ deliveredThrough' \in deliveredThrough..(F - 1)
      /\ Received \subseteq Received'
      /\ \A s \in DOMAIN reorderBuffer' :
           /\ s \in (deliveredThrough' + 2)..(F - 1)
           /\ reorderBuffer'[s] = submitted[s]
      /\ reorderBuffer' \in [DOMAIN reorderBuffer' -> Items]
      /\ seenAboveWatermark' = DOMAIN reorderBuffer'
      /\ delivered' = SubSeq(submitted, 1, deliveredThrough')
  <2>1. CASE \E p \in packets : ~Refused(p.seq) /\ Accept(p)
    BY <2>1, AcceptExtends
  <2>2. CASE UNCHANGED <<receiverVars, delivered>>
    BY <2>2, Numbers DEF IInv, TypeOK, Integrity, InOrderExactlyOnce, Received, receiverVars
  <2> QED BY <2>1, <2>2 DEF Receive
<1>4. FirstPending' = F
  BY <1>1 DEF FirstPending, senderVars
<1> HIDE DEF F
<1>5. /\ deliveredThrough' \in Nat /\ deliveredThrough <= deliveredThrough'
      /\ deliveredThrough' < F
  BY <1>2, <1>3
<1>6. DOMAIN reorderBuffer' \subseteq Nat
  BY <1>2, <1>3, <1>5
<1> DEFINE a == AckState(deliveredThrough', seenAboveWatermark')
<1>7. /\ a \in Acknowledgement /\ a.ack = deliveredThrough'
      /\ \A b \in a.bits : a.ack + SackBaseOffset + b \in Received'
  <2>1. /\ a \in Acknowledgement /\ a.ack = deliveredThrough'
        /\ \A b \in a.bits : deliveredThrough' + SackBaseOffset + b \in seenAboveWatermark'
    BY <1>5, AckStateTruthful
  <2> HIDE DEF a
  <2>2. Received' = 1..deliveredThrough' \union DOMAIN reorderBuffer'
    BY DEF Received
  <2> QED BY <2>1, <2>2, <1>3
<1>8. TypeOK'
  <2>1. acks' \subseteq Acknowledgement
    BY <1>1, <1>7 DEF IInv, TypeOK
  <2>2. delivered' \in Seq(Items)
    <3>1. \A i \in 1..deliveredThrough' : submitted[i] \in Items
      <4> TAKE i \in 1..deliveredThrough'
      <4>1. i \in 1..Len(submitted)
        BY <1>2, <1>5
      <4> QED BY <4>1, ElementOfSeq DEF IInv, TypeOK
    <3>2. SubSeq(submitted, 1, deliveredThrough') \in Seq(Items)
      BY <3>1, <1>5, SubSeqProperties
    <3> QED BY <3>2, <1>3
  <2> QED BY <1>1, <1>3, <1>5, <1>6, <2>1, <2>2 DEF IInv, TypeOK, senderVars
<1>9. Conservation' /\ RetransmitArmed' /\ WindowRespected'
  BY <1>1 DEF IInv, Conservation, RetransmitArmed, WindowRespected, FirstPending, senderVars
<1>10. Integrity'
  BY <1>1, <1>3, <1>4, <1>5 DEF IInv, Integrity, senderVars, F
<1>11. InOrderExactlyOnce'
  BY <1>1, <1>2, <1>3, <1>5 DEF InOrderExactlyOnce
<1>12. NoFalseAck'
  <2>1. confirmed' \subseteq Received'
    BY <1>1, <1>3 DEF IInv, NoFalseAck
  <2>2. ASSUME NEW x \in acks
        PROVE  /\ x.ack <= deliveredThrough'
               /\ \A b \in x.bits : x.ack + SackBaseOffset + b \in Received'
    <3>1. /\ x.ack \in Nat /\ x.ack <= deliveredThrough
          /\ \A b \in x.bits : x.ack + SackBaseOffset + b \in Received
      BY DEF IInv, TypeOK, NoFalseAck, Acknowledgement
    <3> QED BY <3>1, <1>2, <1>3, <1>5
  <2> HIDE DEF a
  <2>3. acks' = acks \union {a}
    BY <1>1 DEF a
  <2> QED BY <2>1, <2>2, <2>3, <1>5, <1>7 DEF NoFalseAck
<1>13. SackBound'
  <2>1. ASSUME NEW s \in confirmed
        PROVE  s <= deliveredThrough' + 1 + SackWidth
    BY <1>2, <1>5, ConstantsAssumption DEF IInv, TypeOK, SackBound
  <2> QED BY <2>1, <1>1 DEF SackBound
<1> QED BY <1>8, <1>9, <1>10, <1>11, <1>12, <1>13 DEF IInv

\* Every step keeps the inductive invariant.
LEMMA NextKeeps == IInv /\ [Next]_vars => IInv'
  BY SendKeeps, PauseKeeps, ResumeKeeps, TimeoutKeeps, HandleAckKeeps, ReceiveKeeps,
     PiggybackAckKeeps, LoseKeeps, StutterKeeps DEF Next

\* The invariant of the channel, in every reachable state.
LEMMA AlwaysIInv == Spec => []IInv
  BY InitIInv, NextKeeps, PTL DEF Spec

-----------------------------------------------------------------------------
(***************************************************************************)
(* The theorems.                                                           *)
(***************************************************************************)
\* The state of the channel always has its declared shape.
THEOREM TypeCorrect == Spec => []TypeOK
  BY AlwaysIInv, PTL DEF IInv

\* For every window, buffer and attempt budget, and whatever the link loses,
\* repeats or reorders, send() / receive() deliver in order and exactly once.
THEOREM DeliveryInOrderExactlyOnce == Spec => []InOrderExactlyOnce
  BY AlwaysIInv, PTL DEF IInv

\* No acknowledgement, however late, makes the sender report something the
\* receiver does not hold.
THEOREM AcksAreTruthful == Spec => []NoFalseAck
  BY AlwaysIInv, PTL DEF IInv

\* Every message is queued, in flight, confirmed or abandoned, never two of them.
THEOREM NothingLostOrSettledTwice == Spec => []Conservation
  BY AlwaysIInv, PTL DEF IInv

\* The retransmission timer is armed exactly when it is needed.
THEOREM TimerNeverForgotten == Spec => []RetransmitArmed
  BY AlwaysIInv, PTL DEF IInv

\* The window bound holds across pumping, resuming and giving up.
THEOREM WindowNeverExceeded == Spec => []WindowRespected
  BY AlwaysIInv, PTL DEF IInv

\* While nothing was given up, what is held above the gap is either within the
\* bitfield or still in the sender's window, which also holds the gap itself.
LEMMA RoomForTheGap == IInv => GapNeverRefused
<1> SUFFICES ASSUME IInv, abandoned = {}, ReorderBufferSize >= WindowSize + SackWidth
             PROVE  Cardinality(DOMAIN reorderBuffer) < ReorderBufferSize
  BY DEF GapNeverRefused
<1> DEFINE d == deliveredThrough
           held == DOMAIN reorderBuffer
           low == (d + 2)..(d + 1 + SackWidth)
           high == held \ low
<1>1. /\ d \in Nat /\ FirstPending \in Nat \ {0}
      /\ SackWidth \in Nat /\ WindowSize \in Nat \ {0} /\ ReorderBufferSize \in Nat \ {0}
  BY Numbers, ConstantsAssumption
<1>2. /\ held \subseteq (d + 2)..(FirstPending - 1)
      /\ DOMAIN unacked \union confirmed = 1..(FirstPending - 1)
      /\ confirmed \subseteq 1..d \union held
      /\ \A s \in confirmed : s <= d + 1 + SackWidth
      /\ IsFiniteSet(DOMAIN unacked) /\ Cardinality(DOMAIN unacked) <= WindowSize
  BY DEF IInv, Integrity, Conservation, NoFalseAck, SackBound, WindowRespected, Received
<1> HIDE DEF held, d
<1>3. CASE held = {}
  BY <1>1, <1>3, FS_EmptySet DEF held
<1>4. CASE held # {}
  <2>1. d + 1 \in DOMAIN unacked
    <3>1. PICK s : s \in held
      BY <1>4
    <3>2. s \in (d + 2)..(FirstPending - 1)
      BY <3>1, <1>2
    <3>3. d + 1 \in 1..(FirstPending - 1)
      BY <3>2, <1>1
    <3>4. d + 1 \notin 1..d \union held
      BY <1>1, <1>2
    <3> QED BY <3>3, <3>4, <1>2
  <2>2. high \subseteq DOMAIN unacked /\ d + 1 \notin high
    <3>1. ASSUME NEW s \in high PROVE s \in DOMAIN unacked /\ s # d + 1
      <4>1. s \in (d + 2)..(FirstPending - 1) /\ s \notin low
        BY <1>2
      <4>2. s \in 1..(FirstPending - 1) /\ ~(s <= d + 1 + SackWidth) /\ s # d + 1
        BY <4>1, <1>1
      <4> QED BY <4>2, <1>2
    <3> QED BY <3>1
  <2>3. IsFiniteSet(low) /\ Cardinality(low) = SackWidth
    <3> DEFINE first == d + 2
               last == d + 1 + SackWidth
    <3>1. first \in Int /\ last \in Int /\ first <= last + 1 /\ last - first + 1 = SackWidth
      BY <1>1
    <3> HIDE DEF first, last
    <3>2. IsFiniteSet(first..last) /\ Cardinality(first..last) = last - first + 1
      BY <3>1, IntervalSize
    <3> QED BY <3>1, <3>2 DEF first, last
  <2> HIDE DEF low, high
  <2>4. high \union {d + 1} \in SUBSET DOMAIN unacked
    BY <2>1, <2>2
  <2>5. IsFiniteSet(high) /\ Cardinality(high) \in Nat
    BY <2>2, <1>2, FS_Subset, FS_CardinalityType
  <2>6. Cardinality(high \union {d + 1}) = Cardinality(high) + 1
    BY <2>2, <2>5, FS_AddElement
  <2>7. Cardinality(high \union {d + 1}) <= Cardinality(DOMAIN unacked)
    BY <2>4, <1>2, FS_Subset
  <2>8. Cardinality(DOMAIN unacked) \in Nat
    BY <1>2, FS_CardinalityType
  <2>9. Cardinality(high) + 1 <= WindowSize
    BY <2>5, <2>6, <2>7, <2>8, <1>1, <1>2
  <2>10. /\ IsFiniteSet(low \union high) /\ held \in SUBSET (low \union high)
    BY <2>3, <2>5, FS_Union DEF high
  <2>11. /\ Cardinality(held) <= Cardinality(low \union high)
         /\ IsFiniteSet(held)
    BY <2>10, FS_Subset
  <2>12. Cardinality(low \union high) =
           Cardinality(low) + Cardinality(high) - Cardinality(low \intersect high)
    BY <2>3, <2>5, FS_Union
  <2>13. low \intersect high = {} /\ Cardinality({}) = 0
    BY FS_EmptySet DEF high
  <2>14. Cardinality(low \union high) = SackWidth + Cardinality(high)
    BY <2>3, <2>5, <2>12, <2>13, <1>1
  <2>15. Cardinality(held) \in Nat
    BY <2>11, FS_CardinalityType
  <2>16. Cardinality(held) < ReorderBufferSize
    BY <2>5, <2>9, <2>11, <2>14, <2>15, <1>1
  <2> QED BY <2>16 DEF held
<1> QED BY <1>3, <1>4

\* The packet that closes the gap is never refused for want of room, for every
\* buffer at least as large as the window and the bitfield together.
THEOREM GapAlwaysFindsRoom == Spec => []GapNeverRefused
  BY AlwaysIInv, RoomForTheGap, PTL

-----------------------------------------------------------------------------
\* Every step of the protocol is a step of the promise, or none.
LEMMA StepImplements == IInv /\ IInv' /\ [Next]_vars => [Promise!Next]_(Promise!vars)
<1> SUFFICES ASSUME IInv, IInv', [Next]_vars PROVE [Promise!Next]_(Promise!vars)
  OBVIOUS
<1> USE DEF Promise!vars, Promise!Next
<1>1. CASE Send
  <2>1. UNCHANGED <<Received, delivered, confirmed, abandoned>>
    BY <1>1 DEF Send, Received, receiverVars
  <2>2. \E item \in Items : submitted' = Append(submitted, item)
    BY <1>1 DEF Send
  <2> QED BY <2>1, <2>2 DEF Promise!Submit
<1>2. CASE Timeout
  <2>1. UNCHANGED <<submitted, Received, delivered, confirmed>>
    BY <1>2 DEF Timeout, Received, receiverVars
  <2>2. PICK S \in SUBSET DOMAIN unacked : abandoned' = abandoned \union S
    BY <1>2 DEF Timeout
  <2>3. S \in SUBSET (1..Len(submitted)) /\ S \intersect (confirmed \union abandoned) = {}
    <3>1. DOMAIN unacked \subseteq 1..(FirstPending - 1)
      BY DEF IInv, Conservation
    <3>2. 1..(FirstPending - 1) \subseteq 1..Len(submitted)
      BY Numbers
    <3>3. DOMAIN unacked \intersect (confirmed \union abandoned) = {}
      BY DEF IInv, Conservation
    <3> QED BY <3>1, <3>2, <3>3
  <2> QED BY <2>1, <2>2, <2>3 DEF Promise!Abandon
<1>3. CASE HandleAck
  <2>1. UNCHANGED <<submitted, Received, delivered, abandoned>>
    BY <1>3 DEF HandleAck, Received, receiverVars
  <2>2. PICK a \in acks : confirmed' = confirmed \union AckedBy(a)
    BY <1>3 DEF HandleAck
  <2>3. /\ AckedBy(a) \in SUBSET Received
        /\ AckedBy(a) \intersect (confirmed \union abandoned) = {}
    <3>1. AckedBy(a) \subseteq DOMAIN unacked
      BY DEF AckedBy
    <3>2. confirmed' \subseteq Received'
      BY DEF IInv, NoFalseAck
    <3>3. DOMAIN unacked \intersect (confirmed \union abandoned) = {}
      BY DEF IInv, Conservation
    <3> QED BY <2>1, <2>2, <3>1, <3>2, <3>3
  <2> QED BY <2>1, <2>2, <2>3 DEF Promise!Confirm
<1>4. CASE Receive
  <2>1. UNCHANGED <<submitted, confirmed, abandoned>>
    BY <1>4 DEF Receive
  <2>2. CASE UNCHANGED <<receiverVars, delivered>>
    BY <2>1, <2>2 DEF Received, receiverVars
  <2>3. ASSUME NEW p \in packets, ~Refused(p.seq), Accept(p)
        PROVE  Promise!TakeIn
    <3> DEFINE n == deliveredThrough'
    <3>1. /\ n \in deliveredThrough..(FirstPending - 1)
          /\ p.seq \notin Received
          /\ Received' = Received \union {p.seq}
          /\ n + 1 \notin Received'
          /\ delivered' = SubSeq(submitted, 1, n)
      BY <2>3, AcceptExtends
    <3>2. p.seq \in 1..Len(submitted)
      <4>1. p.seq \in 1..(FirstPending - 1)
        BY DEF IInv, Integrity
      <4> QED BY <4>1, Numbers
    <3>3. 1..n \subseteq Received'
      BY DEF Received
    <3>4. Len(delivered) = deliveredThrough
      <4>1. /\ deliveredThrough \in Nat /\ deliveredThrough <= Len(submitted)
            /\ Len(submitted) \in Nat /\ submitted \in Seq(Items)
            /\ delivered = SubSeq(submitted, 1, deliveredThrough)
        BY Numbers DEF IInv, TypeOK, InOrderExactlyOnce
      <4>2. \A i \in 1..deliveredThrough : submitted[i] \in Items
        BY <4>1, ElementOfSeq
      <4>3. Len(SubSeq(submitted, 1, deliveredThrough)) = deliveredThrough
        BY <4>1, <4>2, SubSeqProperties
      <4> QED BY <4>1, <4>3
    <3>5. n \in Len(delivered)..Len(submitted)
      BY <3>1, <3>4, Numbers
    <3> HIDE DEF n
    <3> QED BY <2>1, <3>1, <3>2, <3>3, <3>5 DEF Promise!TakeIn
  <2> QED BY <1>4, <2>2, <2>3 DEF Receive
<1>5. CASE Pause \/ Resume \/ PiggybackAck \/ Lose \/ UNCHANGED vars
  BY <1>5 DEF Pause, Resume, PiggybackAck, Lose, vars, Received, receiverVars, appVars
<1> QED BY <1>1, <1>2, <1>3, <1>4, <1>5 DEF Next

\* The protocol keeps the promise: windows, timers, bitfields and retransmissions
\* implement ReliableDelivery for every value of the constants.
THEOREM ChannelImplementsPromise == Spec => ImplementsPromise
<1>1. Init => Promise!Init
  <2> SUFFICES ASSUME Init PROVE Promise!Init
    OBVIOUS
  <2>1. Received = {}
    BY DEF Init, Received, EmptyMap
  <2> QED BY <2>1 DEF Init, Promise!Init
<1> QED
  BY <1>1, AlwaysIInv, StepImplements, PTL DEF Spec, ImplementsPromise, Promise!Spec

-----------------------------------------------------------------------------
(* The chat outbox.  That a message is shown once is a fact about its      *)
(* copies: no two of them with different wire ids are ever at large, which *)
(* the ledger of the copies keeps.  Its subtle part is that a copy which   *)
(* was sent, of a row that is still owed to the peer, is in the stored     *)
(* queue and, once that queue was replayed, in the instance's: so the row  *)
(* is never composed again.  A queue that was stored too late, or replayed *)
(* after the pending rows were handed over, would break it.                *)

Statuses == {"none", "failed", "pending", "sent", "delivered", "read"}
Wires    == Rows \X Nat
Entries  == [id : Wires, status : {"pending", "sent"}, attempts : Nat]
Receipts == [status : {"delivered", "read"}, ids : SUBSET inbox]

ChatTypeOK ==
  /\ rows \in [Rows -> Statuses]
  /\ copies \in [Rows -> Nat]
  /\ stored \in Seq(Entries)
  /\ session \in {"none", "opening", "identified", "connected", "reconnecting"}
  /\ DOMAIN chat = {"outbox", "inFlight", "status", "unacked", "wrote"}
  /\ chat.outbox \in Seq(Entries)
  /\ DOMAIN peerChat = {"seen", "toAck", "toRead", "readSent"}
  /\ deleted \subseteq Rows
  /\ inbox \subseteq Wires
  /\ toPeer \in Seq(Wires)
  /\ toAuthor \in Seq(Receipts)

\* Only what is stored is acknowledged, and so are two ticks.
ReceiptsAreTrue ==
  /\ peerChat.toAck \subseteq inbox /\ peerChat.toRead \subseteq inbox
  /\ TickIsHonest

\* The stored queue has been replayed into the instance.
Running == session \in {"identified", "connected", "reconnecting"}

\* The ids of the entries that were handed to the session before.
Tried(queue) == {queue[i].id : i \in {j \in DOMAIN queue : queue[j].status # "pending"}}

\* A row's message is with the peer, for all the author knows.
Settled(status) == status \in {"delivered", "read"}

\* The ledger of the copies, of an instance whose queue holds the ids queued, of which it
\* tried some, with the statuses sts, the stored ids kept, the ids at large sent, and the
\* deleted rows gone.
Ledger(queued, tried, sts, kept, sent, gone, running) ==
  /\ \A v, w \in sent \cup kept \cup (IF running THEN queued ELSE {}) : Row(v) = Row(w) => v = w
  /\ \A w \in sent \cup kept \cup queued : sts[Row(w)] # "none"
  /\ \A w \in sent \cup kept :
       \/ Row(w) \in gone
       \/ Settled(sts[Row(w)])
       \/ w \in kept /\ (running => w \in queued)
  /\ running => tried \subseteq kept

AtLarge == inbox \cup ToSet(toPeer)

CopiesInv ==
  Ledger(Queued(chat.outbox), Tried(chat.outbox), rows, Queued(stored), AtLarge,
         deleted, Running)

\* What is composed on a session that has not identified its peer waits, untried.
OpeningInv ==
  /\ \A r \in deleted : rows[r] # "none"
  /\ session = "none" => Queued(chat.outbox) = {}
  /\ ~Running => toPeer = <<>> /\ chat.inFlight = {} /\ Tried(chat.outbox) = {}
  /\ session = "opening" =>
       /\ \A w \in Queued(chat.outbox) : Row(w) \notin deleted /\ rows[Row(w)] = "pending"
       /\ \A v, w \in Queued(chat.outbox) : Row(v) = Row(w) => v = w

ChatInv == ChatTypeOK /\ ReceiptsAreTrue /\ CopiesInv /\ OpeningInv

-----------------------------------------------------------------------------
(* The elements of sequences. *)

\* The elements of nothing.
LEMMA ElementsOfEmpty == ToSet(<<>>) = {}
  BY DEF ToSet

\* The elements after one more.
LEMMA ElementsOfAppend ==
  ASSUME NEW S, NEW s \in Seq(S), NEW e \in S
  PROVE  ToSet(Append(s, e)) = ToSet(s) \cup {e}
<1>1. /\ Len(s) \in Nat /\ DOMAIN s = 1..Len(s)
      /\ DOMAIN Append(s, e) = 1..(Len(s) + 1)
      /\ \A i \in 1..Len(s) : Append(s, e)[i] = s[i]
      /\ Append(s, e)[Len(s) + 1] = e
  BY AppendProperties
<1> DEFINE t == Append(s, e)
<1> HIDE DEF t
<1>2. ASSUME NEW x \in ToSet(t)  PROVE x \in ToSet(s) \cup {e}
  <2>1. PICK i \in 1..(Len(s) + 1) : x = t[i]
    BY <1>1, <1>2 DEF ToSet, t
  <2>2. CASE i = Len(s) + 1
    BY <1>1, <2>1, <2>2 DEF t
  <2>3. CASE i # Len(s) + 1
    <3>1. i \in 1..Len(s)
      BY <1>1, <2>3
    <3> QED BY <1>1, <2>1, <3>1 DEF ToSet, t
  <2> QED BY <2>2, <2>3
<1>3. ASSUME NEW x \in ToSet(s)  PROVE x \in ToSet(t)
  <2>1. PICK i \in 1..Len(s) : x = s[i]
    BY <1>1 DEF ToSet
  <2>2. i \in 1..(Len(s) + 1) /\ x = t[i]
    BY <1>1, <2>1 DEF t
  <2> QED BY <1>1, <2>2 DEF ToSet, t
<1>4. e \in ToSet(t)
  <2>1. Len(s) + 1 \in 1..(Len(s) + 1)
    BY <1>1
  <2> QED BY <1>1, <2>1 DEF ToSet, t
<1> QED BY <1>2, <1>3, <1>4 DEF t

\* The elements of two queues together.
LEMMA ElementsOfConcat ==
  ASSUME NEW S, NEW s \in Seq(S), NEW t \in Seq(S)
  PROVE  s \o t \in Seq(S) /\ ToSet(s \o t) = ToSet(s) \cup ToSet(t)
<1>1. /\ Len(s) \in Nat /\ DOMAIN s = 1..Len(s) /\ Len(t) \in Nat /\ DOMAIN t = 1..Len(t)
      /\ s \o t \in Seq(S) /\ DOMAIN (s \o t) = 1..(Len(s) + Len(t))
      /\ \A i \in 1..(Len(s) + Len(t)) :
           (s \o t)[i] = IF i <= Len(s) THEN s[i] ELSE t[i - Len(s)]
  BY ConcatProperties
<1> DEFINE u == s \o t
<1> HIDE DEF u
<1>2. ASSUME NEW x \in ToSet(u)  PROVE x \in ToSet(s) \cup ToSet(t)
  <2>1. PICK i \in 1..(Len(s) + Len(t)) : x = u[i]
    BY <1>1, <1>2 DEF ToSet, u
  <2>2. CASE i <= Len(s)
    <3>1. i \in 1..Len(s) /\ x = s[i]
      BY <1>1, <2>1, <2>2 DEF u
    <3> QED BY <1>1, <3>1 DEF ToSet
  <2>3. CASE ~(i <= Len(s))
    <3>1. i - Len(s) \in 1..Len(t) /\ x = t[i - Len(s)]
      BY <1>1, <2>1, <2>3 DEF u
    <3> QED BY <1>1, <3>1 DEF ToSet
  <2> QED BY <2>2, <2>3
<1>3. ASSUME NEW x \in ToSet(s)  PROVE x \in ToSet(u)
  <2>1. PICK i \in 1..Len(s) : x = s[i]
    BY <1>1 DEF ToSet
  <2>2. i \in 1..(Len(s) + Len(t)) /\ x = u[i]
    BY <1>1, <2>1 DEF u
  <2> QED BY <1>1, <2>2 DEF ToSet, u
<1>4. ASSUME NEW x \in ToSet(t)  PROVE x \in ToSet(u)
  <2>1. PICK i \in 1..Len(t) : x = t[i]
    BY <1>1 DEF ToSet
  <2>2. i + Len(s) \in 1..(Len(s) + Len(t)) /\ x = u[i + Len(s)]
    BY <1>1, <2>1 DEF u
  <2> QED BY <1>1, <2>2 DEF ToSet, u
<1> QED BY <1>1, <1>2, <1>3, <1>4 DEF u

-----------------------------------------------------------------------------
(* Filtered queues.  Only is a recursive function, whose existence and whose *)
(* elements are shown at a least counterexample.                             *)

\* A set of numbers has a least element.
LEMMA LeastElement ==
  ASSUME NEW T, T \subseteq Nat, T # {}
  PROVE  \E x \in T : \A y \in T : x <= y
<1> DEFINE R == OpToRel(<, Nat)
<1>1. IsWellFoundedOn(R, Nat)
  BY NatLessThanWellFounded
<1>2. \A x, y \in Nat : x < y => <<x, y>> \in R
  BY DEF OpToRel
<1> HIDE DEF R
<1>3. PICK x \in T : \A y \in T : ~(<<y, x>> \in R)
  BY <1>1, WFMin
<1>4. \A y \in T : x <= y
  <2> TAKE y \in T
  <2>1. x \in Nat /\ y \in Nat /\ ~(y < x)
    BY <1>2, <1>3
  <2> QED BY <2>1
<1> QED BY <1>4

\* f filters the first n elements of q, for every n up to k.
Filters(f, q, places, k) ==
  f = [n \in 0..k |->
         IF n = 0 THEN <<>>
         ELSE IF n \in places THEN Append(f[n - 1], q[n]) ELSE f[n - 1]]

\* The recursive function of Only exists: a least argument without a value would have one.
LEMMA FilterExists ==
  ASSUME NEW q, NEW places, NEW N \in Nat
  PROVE  \E f : Filters(f, q, places, N)
<1> DEFINE T == {k \in Nat : ~\E f : Filters(f, q, places, k)}
<1>1. SUFFICES ASSUME T # {}  PROVE FALSE
  <2>1. T = {}
    BY <1>1
  <2> QED BY <2>1
<1>2. PICK k \in T : \A y \in T : k <= y
  <2> HIDE DEF T
  <2>1. T \subseteq Nat
    BY DEF T
  <2> QED BY <1>1, <2>1, LeastElement
<1>3. k # 0
  <2>1. Filters([n \in 0..0 |-> <<>>], q, places, 0)
    BY DEF Filters
  <2> QED BY <2>1
<1>4. PICK f : Filters(f, q, places, k - 1)
  <2>1. k - 1 \in Nat /\ k - 1 \notin T
    BY <1>2, <1>3
  <2> QED BY <2>1
<1> DEFINE e == IF k \in places THEN Append(f[k - 1], q[k]) ELSE f[k - 1]
           g == [n \in 0..k |-> IF n = k THEN e ELSE f[n]]
<1>5. Filters(g, q, places, k)
  <2>1. ASSUME NEW n \in 0..k
        PROVE  g[n] = IF n = 0 THEN <<>>
                      ELSE IF n \in places THEN Append(g[n - 1], q[n]) ELSE g[n - 1]
    <3>1. CASE n = k
      BY <3>1, <1>3
    <3>2. CASE n # k
      <4>1. n \in 0..(k - 1) /\ (n # 0 => n - 1 \in 0..(k - 1))
        BY <3>2
      <4>2. f[n] = IF n = 0 THEN <<>>
                   ELSE IF n \in places THEN Append(f[n - 1], q[n]) ELSE f[n - 1]
        BY <4>1, <1>4 DEF Filters
      <4>3. g[n] = f[n] /\ (n # 0 => g[n - 1] = f[n - 1])
        BY <4>1, <3>2
      <4> QED BY <4>2, <4>3
    <3> QED BY <3>1, <3>2
  <2>2. g = [n \in 0..k |-> g[n]]
    OBVIOUS
  <2> HIDE DEF g
  <2> QED BY <2>1, <2>2 DEF Filters
<1> QED BY <1>5

\* A filtered queue holds the elements at the places that are kept, and no others.
LEMMA OnlyKeeps ==
  ASSUME NEW S, NEW q \in Seq(S), NEW places
  PROVE  /\ Only(q, places) \in Seq(S)
         /\ \A x \in ToSet(Only(q, places)) : \E i \in DOMAIN q : i \in places /\ x = q[i]
         /\ \A i \in DOMAIN q : i \in places => q[i] \in ToSet(Only(q, places))
<1> DEFINE f == CHOOSE f : Filters(f, q, places, Len(q))
           Right(n) ==
             /\ f[n] \in Seq(S)
             /\ \A x \in ToSet(f[n]) : \E i \in 1..n : i \in places /\ x = q[i]
             /\ \A i \in 1..n : i \in places => q[i] \in ToSet(f[n])
           Wrong == {n \in 0..Len(q) : ~Right(n)}
<1>1. Len(q) \in Nat /\ DOMAIN q = 1..Len(q)
  OBVIOUS
<1>2. Only(q, places) = f[Len(q)]
  BY DEF Only, Filters
<1>3. Filters(f, q, places, Len(q))
  BY <1>1, FilterExists
<1>4. \A n \in 0..Len(q) :
        f[n] = IF n = 0 THEN <<>>
               ELSE IF n \in places THEN Append(f[n - 1], q[n]) ELSE f[n - 1]
  <2> HIDE DEF f
  <2> QED BY <1>3 DEF Filters
<1> HIDE DEF f
<1>5. Right(0)
  <2>1. f[0] = <<>>
    BY <1>1, <1>4
  <2> QED BY <2>1, ElementsOfEmpty
<1>6. ASSUME NEW n \in 1..Len(q), Right(n - 1)
      PROVE  Right(n)
  <2>1. q[n] \in S /\ n \in 0..Len(q) /\ n # 0
    BY <1>1
  <2>2. CASE n \in places
    <3>1. f[n] = Append(f[n - 1], q[n])
      BY <1>4, <2>1, <2>2
    <3>2. f[n] \in Seq(S)
      BY <1>6, <2>1, <3>1, AppendProperties
    <3>3. ToSet(f[n]) = ToSet(f[n - 1]) \cup {q[n]}
      BY <1>6, <2>1, <3>1, ElementsOfAppend
    <3> QED BY <1>1, <1>6, <2>2, <3>2, <3>3
  <2>3. CASE n \notin places
    <3>1. f[n] = f[n - 1]
      BY <1>4, <2>1, <2>3
    <3> QED BY <1>1, <1>6, <2>3, <3>1
  <2> QED BY <2>2, <2>3
<1>7. Wrong = {}
  <2> SUFFICES ASSUME Wrong # {}  PROVE FALSE
    OBVIOUS
  <2>1. Wrong \subseteq Nat
    OBVIOUS
  <2>2. PICK n \in Wrong : \A y \in Wrong : n <= y
    <3> HIDE DEF Wrong
    <3> QED BY <2>1, LeastElement
  <2> HIDE DEF Right
  <2>3. n # 0 /\ n \in 1..Len(q)
    BY <1>1, <1>5
  <2>4. n - 1 \in 0..Len(q) /\ n - 1 \notin Wrong
    BY <1>1, <2>2, <2>3
  <2> QED BY <1>6, <2>3, <2>4
<1>8. Right(Len(q))
  <2> HIDE DEF Right
  <2> QED BY <1>1, <1>7
<1> QED BY <1>1, <1>2, <1>8

-----------------------------------------------------------------------------
(* The ids of a queue. *)

\* The ids of a queue depend on its elements only.
LEMMA QueueIsItsElements ==
  ASSUME NEW q
  PROVE  /\ Queued(q) = {e.id : e \in ToSet(q)}
         /\ Tried(q) = {e.id : e \in {x \in ToSet(q) : x.status # "pending"}}
         /\ Tried(q) \subseteq Queued(q)
  BY DEF Queued, Tried, ToSet

\* The ids of nothing.
LEMMA EmptyQueue == Queued(<<>>) = {} /\ Tried(<<>>) = {}
<1>1. DOMAIN <<>> = {}
  OBVIOUS
<1> QED BY <1>1 DEF Queued, Tried

\* The ids of a queue are wire ids.
LEMMA QueueOfEntries ==
  ASSUME NEW q \in Seq(Entries)
  PROVE  Queued(q) \subseteq Wires /\ ToSet(q) \subseteq Entries
<1>1. ToSet(q) \subseteq Entries
  BY DEF ToSet
<1>2. Queued(q) \subseteq Wires
  BY <1>1, QueueIsItsElements DEF Entries
<1> QED BY <1>1, <1>2

\* What Without() leaves.
LEMMA WithoutIds ==
  ASSUME NEW q \in Seq(Entries), NEW gone
  PROVE  /\ Without(q, gone) \in Seq(Entries)
         /\ Queued(Without(q, gone)) = Queued(q) \ gone
         /\ Tried(Without(q, gone)) \subseteq Tried(q)
<1> DEFINE places == {i \in DOMAIN q : q[i].id \notin gone}
           t == Only(q, places)
<1>1. t = Without(q, gone)
  BY DEF Without
<1>2. /\ t \in Seq(Entries)
      /\ \A x \in ToSet(t) : \E i \in DOMAIN q : i \in places /\ x = q[i]
      /\ \A i \in DOMAIN q : i \in places => q[i] \in ToSet(t)
  <2> HIDE DEF places
  <2> QED BY OnlyKeeps
<1>3. ToSet(t) = {x \in ToSet(q) : x.id \notin gone}
  <2> HIDE DEF t
  <2> QED BY <1>2 DEF ToSet
<1> HIDE DEF t
<1>4. Queued(t) = Queued(q) \ gone
  BY <1>3, QueueIsItsElements
<1>5. Tried(t) \subseteq Tried(q)
  BY <1>3, QueueIsItsElements
<1> QED BY <1>1, <1>2, <1>4, <1>5

\* A new entry has not been tried.
LEMMA EntryIsUntried ==
  ASSUME NEW w \in Wires
  PROVE  Entry(w) \in Entries /\ Entry(w).id = w /\ Entry(w).status = "pending"
  BY DEF Entry, Entries

\* Untried entries come to a queue.
LEMMA LongerQueue ==
  ASSUME NEW q, NEW t, NEW U, ToSet(t) = ToSet(q) \cup U, \A x \in U : x.status = "pending"
  PROVE  Queued(t) = Queued(q) \cup {x.id : x \in U} /\ Tried(t) = Tried(q)
<1>1. ASSUME NEW w \in Queued(t)  PROVE w \in Queued(q) \cup {x.id : x \in U}
  <2>1. PICK x \in ToSet(t) : w = x.id
    BY <1>1, QueueIsItsElements
  <2>2. CASE x \in U
    BY <2>1, <2>2
  <2>3. CASE x \in ToSet(q)
    BY <2>1, <2>3, QueueIsItsElements
  <2> QED BY <2>2, <2>3
<1>2. ASSUME NEW w \in Queued(q) \cup {x.id : x \in U}  PROVE w \in Queued(t)
  <2>1. PICK x \in ToSet(q) \cup U : w = x.id
    BY <1>2, QueueIsItsElements
  <2> QED BY <2>1, QueueIsItsElements
<1>3. ASSUME NEW w \in Tried(t)  PROVE w \in Tried(q)
  <2>1. PICK x \in ToSet(t) : w = x.id /\ x.status # "pending"
    BY <1>3, QueueIsItsElements
  <2> QED BY <2>1, QueueIsItsElements
<1>4. ASSUME NEW w \in Tried(q)  PROVE w \in Tried(t)
  <2>1. PICK x \in ToSet(q) : w = x.id /\ x.status # "pending"
    BY <1>4, QueueIsItsElements
  <2> QED BY <2>1, QueueIsItsElements
<1> QED BY <1>1, <1>2, <1>3, <1>4

\* The ids of a queue with one more entry.
LEMMA AppendIds ==
  ASSUME NEW q \in Seq(Entries), NEW w \in Wires
  PROVE  /\ Append(q, Entry(w)) \in Seq(Entries)
         /\ Queued(Append(q, Entry(w))) = Queued(q) \cup {w}
         /\ Tried(Append(q, Entry(w))) = Tried(q)
<1> DEFINE t == Append(q, Entry(w))
<1>1. t \in Seq(Entries) /\ ToSet(t) = ToSet(q) \cup {Entry(w)}
  BY EntryIsUntried, ElementsOfAppend, AppendProperties
<1> HIDE DEF t
<1>2. Entry(w).id = w /\ Entry(w).status = "pending"
  BY EntryIsUntried
<1> DEFINE U == {Entry(w)}
<1>3. {x.id : x \in U} = {w} /\ \A x \in U : x.status = "pending"
  BY <1>2
<1>4. ToSet(t) = ToSet(q) \cup U
  BY <1>1
<1> HIDE DEF U
<1>5. Queued(t) = Queued(q) \cup {x.id : x \in U} /\ Tried(t) = Tried(q)
  <2>1. \A x \in U : x.status = "pending"
    BY <1>3
  <2> QED BY <1>4, <2>1, LongerQueue
<1>6. Queued(t) = Queued(q) \cup {w} /\ Tried(t) = Tried(q)
  BY <1>3, <1>5
<1> QED BY <1>1, <1>6 DEF t

\* A fresh id is a wire id of its row.
LEMMA FreshIsWire ==
  ASSUME copies \in [Rows -> Nat], NEW r \in Rows
  PROVE  FreshId(r) \in Wires /\ Row(FreshId(r)) = r
  BY DEF FreshId, Wires, Row

\* handToProtocol(): what the instance then holds.
LEMMA HandedIds ==
  ASSUME copies \in [Rows -> Nat], NEW c, "outbox" \in DOMAIN c, "status" \in DOMAIN c,
         c.outbox \in Seq(Entries), NEW waiting \in SUBSET Rows
  PROVE  LET h == HandToProtocol(c, waiting) IN
         /\ DOMAIN h = DOMAIN c /\ h.outbox \in Seq(Entries)
         /\ h.inFlight = c.inFlight
         /\ Queued(h.outbox) = Queued(c.outbox) \cup {FreshId(r) : r \in waiting}
         /\ Tried(h.outbox) = Tried(c.outbox)
<1> DEFINE all == [r \in Rows |-> Entry(FreshId(r))]
           new == Only(all, waiting)
           h == HandToProtocol(c, waiting)
<1>1. h.outbox = c.outbox \o new /\ DOMAIN h = DOMAIN c /\ h.inFlight = c.inFlight
  BY DEF HandToProtocol
<1>2. all \in Seq(Entries) /\ DOMAIN all = Rows
  <2>1. NumRows \in Nat /\ Rows = 1..NumRows
    BY ChatAssumption DEF Rows
  <2>2. \A r \in Rows : Entry(FreshId(r)) \in Entries
    BY FreshIsWire, EntryIsUntried
  <2>3. all \in [1..NumRows -> Entries]
    BY <2>1, <2>2
  <2> HIDE DEF all
  <2>4. all \in Seq(Entries)
    BY <2>1, <2>3
  <2> QED BY <2>1, <2>3, <2>4
<1>3. /\ new \in Seq(Entries)
      /\ \A x \in ToSet(new) : \E r \in Rows : r \in waiting /\ x = all[r]
      /\ \A r \in Rows : r \in waiting => all[r] \in ToSet(new)
  <2> HIDE DEF all
  <2> QED BY <1>2, OnlyKeeps
<1> HIDE DEF new
<1>4. \A r \in waiting : all[r] = Entry(FreshId(r))
  OBVIOUS
<1> HIDE DEF all
<1>5. ToSet(new) = {Entry(FreshId(r)) : r \in waiting}
  BY <1>3, <1>4
<1>6. h.outbox \in Seq(Entries) /\ ToSet(h.outbox) = ToSet(c.outbox) \cup ToSet(new)
  BY <1>1, <1>3, ElementsOfConcat
<1> HIDE DEF h
<1>7. \A r \in waiting : /\ Entry(FreshId(r)).id = FreshId(r)
                         /\ Entry(FreshId(r)).status = "pending"
  BY FreshIsWire, EntryIsUntried
<1>8. {x.id : x \in ToSet(new)} = {FreshId(r) : r \in waiting}
  BY <1>5, <1>7
<1>9. Queued(h.outbox) = Queued(c.outbox) \cup {x.id : x \in ToSet(new)}
      /\ Tried(h.outbox) = Tried(c.outbox)
  <2>1. \A x \in ToSet(new) : x.status = "pending"
    BY <1>5, <1>7
  <2> QED BY <1>6, <2>1, LongerQueue
<1> QED BY <1>1, <1>6, <1>8, <1>9 DEF h

\* What flush() does to the queue of an instance.
LEMMA FlushIds ==
  ASSUME NEW c, "outbox" \in DOMAIN c, "inFlight" \in DOMAIN c, c.outbox \in Seq(Entries)
  PROVE  /\ DOMAIN Flushed(c) = DOMAIN c
         /\ Flushed(c).outbox \in Seq(Entries)
         /\ Queued(Flushed(c).outbox) = Queued(c.outbox)
         /\ Tried(Flushed(c).outbox) = Tried(c.outbox) \cup Queued(Flushable(c))
         /\ Flushable(c) \in Seq(Entries)
         /\ ToSet(Flushable(c)) \subseteq ToSet(c.outbox)
<1> DEFINE q == c.outbox
           t == Flushed(c).outbox
           places == {i \in DOMAIN q : Eligible(c, q[i])}
           sends == Only(q, places)
<1>1. /\ DOMAIN Flushed(c) = DOMAIN c
      /\ t = [i \in DOMAIN q |-> IF Eligible(c, q[i]) THEN Transmitted(q[i]) ELSE q[i]]
  BY DEF Flushed
<1>2. sends = Flushable(c)
  BY DEF Flushable
<1>3. /\ sends \in Seq(Entries)
      /\ \A x \in ToSet(sends) : \E i \in DOMAIN q : i \in places /\ x = q[i]
      /\ \A i \in DOMAIN q : i \in places => q[i] \in ToSet(sends)
  <2> HIDE DEF places
  <2> QED BY OnlyKeeps
<1> HIDE DEF sends, t
<1>4. ASSUME NEW e \in Entries
      PROVE  /\ Transmitted(e) \in Entries /\ Transmitted(e).id = e.id
             /\ Transmitted(e).status = "sent"
  <2> DEFINE once == [e EXCEPT !.status = "sent"]
             twice == [once EXCEPT !.attempts = @ + 1]
  <2>1. once \in Entries /\ once.id = e.id /\ once.status = "sent"
    BY DEF Entries
  <2> HIDE DEF once
  <2>2. twice \in Entries /\ twice.id = e.id /\ twice.status = "sent"
    BY <2>1 DEF Entries
  <2>3. Transmitted(e) = twice
    BY DEF Transmitted, once
  <2> HIDE DEF twice
  <2> QED BY <2>2, <2>3
<1>5. t \in Seq(Entries) /\ DOMAIN t = DOMAIN q
  <2>1. Len(q) \in Nat /\ DOMAIN q = 1..Len(q) /\ \A i \in 1..Len(q) : q[i] \in Entries
    OBVIOUS
  <2>2. t \in [1..Len(q) -> Entries]
    BY <1>1, <1>4, <2>1
  <2> QED BY <2>1, <2>2
<1>6. \A i \in DOMAIN q : /\ q[i] \in Entries /\ t[i].id = q[i].id
                          /\ Eligible(c, q[i]) => t[i].status = "sent"
                          /\ ~Eligible(c, q[i]) => t[i] = q[i]
  BY <1>1, <1>4
<1>7. Queued(t) = Queued(q)
  BY <1>5, <1>6 DEF Queued
<1>8. Queued(sends) = {q[i].id : i \in places}
  <2>1. ToSet(sends) = {q[i] : i \in places}
    BY <1>3
  <2> HIDE DEF places
  <2> QED BY <2>1, QueueIsItsElements
<1>9. Tried(t) = Tried(q) \cup {q[i].id : i \in places}
  <2>1. ASSUME NEW w \in Tried(t)  PROVE w \in Tried(q) \cup {q[i].id : i \in places}
    BY <1>5, <1>6 DEF Tried
  <2>2. ASSUME NEW w \in Tried(q)  PROVE w \in Tried(t)
    BY <1>5, <1>6 DEF Tried
  <2>3. ASSUME NEW i \in places  PROVE q[i].id \in Tried(t)
    BY <1>5, <1>6 DEF Tried
  <2> QED BY <2>1, <2>2, <2>3
<1>10. ToSet(sends) \subseteq ToSet(q)
  BY <1>3 DEF ToSet
<1>11. Tried(t) = Tried(q) \cup Queued(sends)
  BY <1>8, <1>9
<1> HIDE DEF q
<1> QED BY <1>1, <1>2, <1>3, <1>5, <1>7, <1>10, <1>11 DEF t, q

\* A retry gives the entries of a row their attempts back.
LEMMA RenewedIds ==
  ASSUME NEW q \in Seq(Entries), NEW r
  PROVE  LET t == [i \in DOMAIN q |->
                     IF Row(q[i].id) = r THEN [q[i] EXCEPT !.attempts = 0] ELSE q[i]]
         IN  t \in Seq(Entries) /\ Queued(t) = Queued(q) /\ Tried(t) = Tried(q)
<1> DEFINE renewed(e) == [e EXCEPT !.attempts = 0]
           t == [i \in DOMAIN q |-> IF Row(q[i].id) = r THEN renewed(q[i]) ELSE q[i]]
<1>1. ASSUME NEW e \in Entries
      PROVE  renewed(e) \in Entries /\ renewed(e).id = e.id /\ renewed(e).status = e.status
  BY DEF Entries
<1>2. Len(q) \in Nat /\ DOMAIN q = 1..Len(q) /\ \A i \in 1..Len(q) : q[i] \in Entries
  OBVIOUS
<1>3. DOMAIN t = DOMAIN q /\ \A i \in DOMAIN q :
        t[i] \in Entries /\ t[i].id = q[i].id /\ t[i].status = q[i].status
  <2> HIDE DEF renewed
  <2> QED BY <1>1, <1>2
<1>4. t \in [1..Len(q) -> Entries]
  BY <1>2, <1>3
<1> HIDE DEF t
<1>5. t \in Seq(Entries)
  BY <1>2, <1>4
<1>6. Queued(t) = Queued(q) /\ Tried(t) = Tried(q)
  <2>1. Queued(t) = Queued(q)
    BY <1>3 DEF Queued
  <2>2. Tried(t) = Tried(q)
    BY <1>3 DEF Tried
  <2> QED BY <2>1, <2>2
<1> QED BY <1>5, <1>6 DEF t

-----------------------------------------------------------------------------
(* The ledger. *)

\* Statuses move, but nothing composed is forgotten and nothing settled is owed again.
LEMMA StatusesMove ==
  ASSUME NEW Q, NEW T, NEW sts, NEW S, NEW sent, NEW gone, NEW running,
         Ledger(Q, T, sts, S, sent, gone, running), NEW later,
         \A w \in sent \cup S \cup Q :
           \/ later[Row(w)] = sts[Row(w)]
           \/ /\ later[Row(w)] # "none"
              /\ Settled(sts[Row(w)]) => Settled(later[Row(w)])
  PROVE  Ledger(Q, T, later, S, sent, gone, running)
  BY DEF Ledger

\* Copies of rows that have none come to the queue.
LEMMA LedgerGrows ==
  ASSUME NEW Q, NEW T, NEW sts, NEW S, NEW sent, NEW gone, NEW running \in BOOLEAN,
         Ledger(Q, T, sts, S, sent, gone, running), NEW N,
         \A n \in N : sts[Row(n)] # "none",
         \A n \in N : \A w \in sent \cup S \cup (IF running THEN Q ELSE {}) : Row(w) # Row(n),
         \A m, n \in N : Row(m) = Row(n) => m = n
  PROVE  Ledger(Q \cup N, T, sts, S, sent, gone, running)
  BY DEF Ledger

\* Some of the queue is handed over, and is stored by then.
LEMMA LedgerFlushes ==
  ASSUME NEW Q, NEW T, NEW sts, NEW S, NEW sent, NEW gone, T \subseteq Q,
         Ledger(Q, T, sts, S, sent, gone, TRUE),
         NEW F, F \subseteq Q, NEW S2, S2 = S \/ S2 = Q, F \subseteq S2,
         NEW sent2, sent2 \subseteq sent \cup F
  PROVE  Ledger(Q, T \cup F, sts, S2, sent2, gone, TRUE)
  BY DEF Ledger

-----------------------------------------------------------------------------
(* Flushing and storing. *)

\* setStatus() takes the new status or keeps the old; sending does not unsettle a row.
LEMMA SetStatusMoves ==
  ASSUME NEW x \in Statuses, NEW y \in {"failed", "pending", "sent", "delivered", "read"}
  PROVE  /\ SetStatus(x, y) \in {x, y}
         /\ SetStatus(x, y) = "none" <=> x = "none"
         /\ y \in {"delivered", "read"} /\ x # "none" => Settled(SetStatus(x, y))
         /\ y \in {"pending", "sent"} /\ Settled(x) => SetStatus(x, y) = x
  BY DEF SetStatus, Rank, Statuses, Settled

InstanceOK(c) ==
  /\ DOMAIN c = {"outbox", "inFlight", "status", "unacked", "wrote"}
  /\ c.outbox \in Seq(Entries)

\* Settle() on an instance whose queue was replayed.
LEMMA SettleKeeps ==
  ASSUME ChatTypeOK, NEW c, InstanceOK(c), NEW base \in [Rows -> Statuses],
         NEW live \in BOOLEAN, NEW writes \in BOOLEAN, Settle(c, base, live, writes),
         Ledger(Queued(c.outbox), Tried(c.outbox), base, Queued(stored), AtLarge, deleted, TRUE)
  PROVE  /\ InstanceOK(chat') /\ stored' \in Seq(Entries) /\ toPeer' \in Seq(Wires)
         /\ rows' \in [Rows -> Statuses]
         /\ \A r \in Rows : /\ Settled(rows'[r]) => Settled(base[r])
                            /\ rows'[r] = "none" => base[r] = "none"
         /\ Ledger(Queued(chat'.outbox), Tried(chat'.outbox), rows', Queued(stored'),
                   inbox \cup ToSet(toPeer'), deleted, TRUE)
<1> DEFINE sends == IF live THEN Flushable(c) ELSE <<>>
           after == IF live THEN Flushed(c) ELSE c
           moved == {Row(sends[i].id) : i \in {j \in DOMAIN sends : sends[j].status = "pending"}}
           write == writes \/ moved # {}
           ids   == [i \in DOMAIN sends |-> sends[i].id]
           Q == Queued(c.outbox)
           T == Tried(c.outbox)
           F == Queued(sends)
<1>1. /\ chat' = IF write THEN Persisting(after) ELSE after
      /\ stored' = IF write THEN PersistedBy(after) ELSE stored
      /\ toPeer' = IF gap THEN toPeer ELSE toPeer \o ids
      /\ rows' = [r \in Rows |-> IF r \in moved THEN SetStatus(base[r], "sent") ELSE base[r]]
  BY DEF Settle
<1>2. /\ InstanceOK(after) /\ Queued(after.outbox) = Q /\ Tried(after.outbox) = T \cup F
      /\ sends \in Seq(Entries) /\ ToSet(sends) \subseteq ToSet(c.outbox)
  <2>1. CASE live
    BY <2>1, FlushIds DEF InstanceOK
  <2>2. CASE ~live
    <3>1. sends = <<>> /\ after = c
      BY <2>2
    <3> HIDE DEF sends, after
    <3>2. F = {} /\ ToSet(sends) = {} /\ sends \in Seq(Entries)
      BY <3>1, ElementsOfEmpty, EmptyQueue
    <3> QED BY <3>1, <3>2
  <2> QED BY <2>1, <2>2
<1> HIDE DEF sends, after
<1>3. F \subseteq Q /\ F \subseteq Wires /\ T \subseteq Q
  BY <1>2, QueueIsItsElements, QueueOfEntries
<1>4. ~write => F \subseteq T
  <2> SUFFICES ASSUME ~write, NEW w \in F  PROVE w \in T
    OBVIOUS
  <2>1. PICK i \in DOMAIN sends : w = sends[i].id
    BY DEF Queued
  <2>2. sends[i].status # "pending"
    OBVIOUS
  <2>3. sends[i] \in ToSet(c.outbox)
    BY <1>2 DEF ToSet
  <2> QED BY <2>1, <2>2, <2>3, QueueIsItsElements
<1>5. /\ InstanceOK(chat') /\ chat'.outbox = after.outbox
      /\ stored' \in {stored, after.outbox}
      /\ write => stored' = after.outbox \/ after.outbox = <<>>
  <2> HIDE DEF write
  <2> QED BY <1>1, <1>2 DEF InstanceOK, Persisting, PersistedBy
<1>6. stored' \in Seq(Entries)
  BY <1>2, <1>5 DEF ChatTypeOK, InstanceOK
<1>7. F \subseteq Queued(stored')
  <2>1. CASE write /\ stored' = after.outbox
    BY <1>2, <1>3, <2>1
  <2>2. CASE write /\ after.outbox = <<>>
    <3>1. Q = {}
      BY <1>2, <2>2, EmptyQueue
    <3> HIDE DEF Q, F
    <3> QED BY <1>3, <3>1
  <2>3. CASE ~write
    BY <1>1, <1>4, <2>3 DEF Ledger
  <2> QED BY <1>5, <2>1, <2>2, <2>3
<1>8. ids \in Seq(Wires) /\ ToSet(ids) = F
  <2>1. Len(sends) \in Nat /\ DOMAIN sends = 1..Len(sends) /\ \A i \in 1..Len(sends) : sends[i] \in Entries
    BY <1>2
  <2>2. ids \in [1..Len(sends) -> Wires]
    BY <2>1 DEF Entries
  <2>3. ToSet(ids) = F
    BY <2>1 DEF ToSet, Queued
  <2> HIDE DEF ids
  <2> QED BY <2>1, <2>2, <2>3
<1>9. toPeer' \in Seq(Wires) /\ ToSet(toPeer') \subseteq ToSet(toPeer) \cup F
  <2> HIDE DEF ids, F
  <2>1. toPeer \in Seq(Wires)
    BY DEF ChatTypeOK
  <2> QED BY <1>1, <1>8, <2>1, ElementsOfConcat
<1>10. rows' \in [Rows -> Statuses] /\ \A r \in Rows :
         \/ rows'[r] = base[r]
         \/ rows'[r] = SetStatus(base[r], "sent")
  <2>1. \A r \in Rows : SetStatus(base[r], "sent") \in Statuses
    BY SetStatusMoves DEF Statuses
  <2> HIDE DEF moved
  <2> QED BY <1>1, <2>1
<1>11. \A r \in Rows : /\ rows'[r] = "none" <=> base[r] = "none"
                       /\ Settled(rows'[r]) <=> Settled(base[r])
  <2> TAKE r \in Rows
  <2>1. CASE rows'[r] = SetStatus(base[r], "sent")
    BY <2>1, SetStatusMoves DEF Settled
  <2> QED BY <1>10, <2>1
<1>12. Ledger(Q, T \cup F, base, Queued(stored'), inbox \cup ToSet(toPeer'), deleted, TRUE)
  <2>1. Queued(stored') = Queued(stored) \/ Queued(stored') = Q
    BY <1>2, <1>5
  <2>2. inbox \cup ToSet(toPeer') \subseteq AtLarge \cup F
    BY <1>9 DEF AtLarge
  <2> HIDE DEF Q, T, F
  <2>3. Ledger(Q, T, base, Queued(stored), AtLarge, deleted, TRUE)
    BY DEF Q, T
  <2> QED BY <1>3, <1>7, <2>1, <2>2, <2>3, LedgerFlushes
<1>13. Ledger(Q, T \cup F, rows', Queued(stored'), inbox \cup ToSet(toPeer'), deleted, TRUE)
  <2>1. inbox \cup ToSet(toPeer') \subseteq Wires /\ Queued(stored') \subseteq Wires /\ Q \subseteq Wires
    BY <1>6, <1>9, QueueOfEntries DEF ChatTypeOK, InstanceOK, ToSet
  <2>2. \A w \in Wires : Row(w) \in Rows
    BY DEF Wires, Row
  <2>3. \A w \in (inbox \cup ToSet(toPeer')) \cup Queued(stored') \cup Q :
          \/ rows'[Row(w)] = base[Row(w)]
          \/ /\ rows'[Row(w)] # "none"
             /\ Settled(base[Row(w)]) => Settled(rows'[Row(w)])
    <3> HIDE DEF Q
    <3>1. \A w \in (inbox \cup ToSet(toPeer')) \cup Queued(stored') \cup Q : Row(w) \in Rows
      BY <2>1, <2>2
    <3>2. \A w \in (inbox \cup ToSet(toPeer')) \cup Queued(stored') \cup Q :
            /\ rows'[Row(w)] = "none" <=> base[Row(w)] = "none"
            /\ Settled(rows'[Row(w)]) <=> Settled(base[Row(w)])
      BY <1>11, <3>1
    <3>3. \A w \in (inbox \cup ToSet(toPeer')) \cup Queued(stored') \cup Q : base[Row(w)] # "none"
      BY <1>12 DEF Ledger
    <3> QED BY <3>2, <3>3
  <2> HIDE DEF Q, T, F
  <2> QED BY <1>12, <2>3, StatusesMove
<1> QED BY <1>2, <1>5, <1>6, <1>9, <1>10, <1>11, <1>13

\* Settle() on an instance that waits for its peer's name.
LEMMA SettleWaits ==
  ASSUME NEW c, NEW base, Settle(c, base, FALSE, FALSE), base \in [Rows -> Statuses],
         toPeer \in Seq(Wires)
  PROVE  chat' = c /\ stored' = stored /\ toPeer' = toPeer /\ rows' = base
<1> DEFINE moved == {Row(<<>>[i].id) : i \in {j \in DOMAIN <<>> : <<>>[j].status = "pending"}}
           ids == [i \in DOMAIN <<>> |-> <<>>[i].id]
<1>1. moved = {} /\ ids = <<>>
  OBVIOUS
<1>2. /\ chat' = c /\ stored' = stored
      /\ toPeer' = IF gap THEN toPeer ELSE toPeer \o ids
      /\ rows' = [r \in Rows |-> IF r \in moved THEN SetStatus(base[r], "sent") ELSE base[r]]
  BY <1>1 DEF Settle
<1> HIDE DEF moved, ids
<1>3. toPeer \o <<>> = toPeer
  BY ConcatEmptySeq
<1> QED BY <1>1, <1>2, <1>3

-----------------------------------------------------------------------------
(* The author's side. *)

\* Every copy belongs to a row.
LEMMA WiresHaveRows ==
  ASSUME ChatTypeOK
  PROVE  /\ \A w \in Wires : Row(w) \in Rows
         /\ AtLarge \subseteq Wires /\ Queued(stored) \subseteq Wires
         /\ Queued(chat.outbox) \subseteq Wires /\ Tried(chat.outbox) \subseteq Queued(chat.outbox)
<1>1. \A w \in Wires : Row(w) \in Rows
  BY DEF Wires, Row
<1>2. AtLarge \subseteq Wires
  BY DEF ChatTypeOK, AtLarge, ToSet
<1>3. Queued(stored) \subseteq Wires /\ Queued(chat.outbox) \subseteq Wires
  BY QueueOfEntries DEF ChatTypeOK
<1> QED BY <1>1, <1>2, <1>3, QueueIsItsElements

\* What the author does leaves the receipts true.
LEMMA AuthorKeeps ==
  ASSUME ChatInv, UNCHANGED <<inbox, peerChat, toAuthor, deleted>>,
         InstanceOK(chat'), stored' \in Seq(Entries), toPeer' \in Seq(Wires),
         rows' \in [Rows -> Statuses], copies' \in [Rows -> Nat],
         session' \in {"none", "opening", "identified", "connected", "reconnecting"},
         \A r \in Rows : /\ Settled(rows'[r]) => Settled(rows[r])
                         /\ rows'[r] = "none" => rows[r] = "none"
  PROVE  ChatTypeOK' /\ ReceiptsAreTrue' /\ \A r \in deleted' : rows'[r] # "none"
<1>1. ChatTypeOK'
  BY DEF ChatInv, ChatTypeOK, InstanceOK, Receipts
<1>2. ReceiptsAreTrue'
  BY DEF ChatInv, ReceiptsAreTrue, TickIsHonest, Settled
<1>3. \A r \in deleted' : rows'[r] # "none"
  BY DEF ChatInv, OpeningInv, ChatTypeOK
<1> QED BY <1>1, <1>2, <1>3

\* Settle() in a session that runs, on an instance whose ledger is kept.
LEMMA RunningSettles ==
  ASSUME ChatInv, UNCHANGED <<inbox, peerChat, toAuthor, deleted>>,
         NEW c, InstanceOK(c), NEW base \in [Rows -> Statuses],
         NEW live \in BOOLEAN, NEW writes \in BOOLEAN, Settle(c, base, live, writes),
         Ledger(Queued(c.outbox), Tried(c.outbox), base, Queued(stored), AtLarge, deleted, TRUE),
         \A r \in Rows : /\ Settled(base[r]) => Settled(rows[r])
                         /\ base[r] = "none" => rows[r] = "none",
         copies' \in [Rows -> Nat], session' \in {"identified", "connected", "reconnecting"}
  PROVE  ChatInv'
<1>1. ChatTypeOK
  BY DEF ChatInv
<1>2. /\ InstanceOK(chat') /\ stored' \in Seq(Entries) /\ toPeer' \in Seq(Wires)
      /\ rows' \in [Rows -> Statuses]
      /\ \A r \in Rows : /\ Settled(rows'[r]) => Settled(base[r])
                         /\ rows'[r] = "none" => base[r] = "none"
      /\ Ledger(Queued(chat'.outbox), Tried(chat'.outbox), rows', Queued(stored'),
                inbox \cup ToSet(toPeer'), deleted, TRUE)
  BY <1>1, SettleKeeps
<1>3. ChatTypeOK' /\ ReceiptsAreTrue' /\ \A r \in deleted' : rows'[r] # "none"
  BY <1>2, AuthorKeeps
<1>4. Running' /\ session' # "none" /\ session' # "opening"
  BY DEF Running
<1>5. CopiesInv'
  <2>1. Running' = TRUE
    BY <1>4 DEF Running
  <2> QED BY <1>2, <2>1 DEF CopiesInv, AtLarge, Queued, Tried, ToSet
<1>6. OpeningInv'
  BY <1>3, <1>4 DEF OpeningInv
<1> QED BY <1>3, <1>5, <1>6 DEF ChatInv

\* A step that leaves the copies where they are.
LEMMA CopiesStay ==
  ASSUME ChatInv, UNCHANGED <<rows, deleted, stored, chat>>, Running' = Running,
         inbox' \cup ToSet(toPeer') \subseteq AtLarge
  PROVE  CopiesInv'
<1>1. Ledger(Queued(chat.outbox), Tried(chat.outbox), rows, Queued(stored), AtLarge, deleted, Running)
  BY DEF ChatInv, CopiesInv
<1>2. Ledger(Queued(chat.outbox), Tried(chat.outbox), rows, Queued(stored),
             inbox' \cup ToSet(toPeer'), deleted, Running)
  BY <1>1 DEF Ledger
<1> QED BY <1>2 DEF CopiesInv, AtLarge, Queued, Tried, ToSet

\* send(): what the instance then holds.
LEMMA ComposingIds ==
  ASSUME NEW c, InstanceOK(c), NEW w \in Wires
  PROVE  /\ InstanceOK(Composing(c, w)) /\ Composing(c, w).inFlight = c.inFlight
         /\ Queued(Composing(c, w).outbox) = Queued(c.outbox) \cup {w}
         /\ Tried(Composing(c, w).outbox) = Tried(c.outbox)
<1>1. /\ Composing(c, w).outbox = Append(c.outbox, Entry(w))
      /\ DOMAIN Composing(c, w) = DOMAIN c /\ Composing(c, w).inFlight = c.inFlight
  BY DEF InstanceOK, Composing
<1> QED BY <1>1, AppendIds DEF InstanceOK

\* The first copy of a row, under the row's own id.
LEMMA ComposeKeeps ==
  ASSUME ChatInv, NEW r \in Rows, Compose(r)
  PROVE  ChatInv'
<1> DEFINE base == [rows EXCEPT ![r] = "pending"]
           c == Composing(chat, OwnId(r))
<1>1. ChatTypeOK /\ InstanceOK(chat) /\ rows[r] = "none" /\ copies' \in [Rows -> Nat]
      /\ UNCHANGED <<inbox, peerChat, toAuthor, deleted, session, gap>>
  BY DEF ChatInv, ChatTypeOK, InstanceOK, Compose
<1>2. OwnId(r) \in Wires /\ Row(OwnId(r)) = r
  BY DEF OwnId, Wires, Row
<1>3. /\ base \in [Rows -> Statuses]
      /\ \A s \in Rows : /\ Settled(base[s]) => Settled(rows[s])
                         /\ base[s] # "none" <=> rows[s] # "none" \/ s = r
                         /\ s # r => base[s] = rows[s]
  BY <1>1 DEF ChatTypeOK, Statuses, Settled
<1>4. \A w \in AtLarge \cup Queued(stored) \cup Queued(chat.outbox) : Row(w) # r /\ Row(w) \in Rows
  <2>1. \A w \in AtLarge \cup Queued(stored) \cup Queued(chat.outbox) : rows[Row(w)] # "none"
    BY DEF ChatInv, CopiesInv, Ledger
  <2> QED BY <1>1, <2>1, WiresHaveRows
<1>5. Ledger(Queued(chat.outbox), Tried(chat.outbox), base, Queued(stored), AtLarge, deleted, Running)
  <2>1. \A w \in AtLarge \cup Queued(stored) \cup Queued(chat.outbox) : base[Row(w)] = rows[Row(w)]
    BY <1>3, <1>4
  <2> HIDE DEF base
  <2> QED BY <2>1, StatusesMove DEF ChatInv, CopiesInv
<1>6. /\ InstanceOK(c) /\ c.inFlight = chat.inFlight
      /\ Queued(c.outbox) = Queued(chat.outbox) \cup {OwnId(r)}
      /\ Tried(c.outbox) = Tried(chat.outbox)
  BY <1>1, <1>2, ComposingIds
<1> HIDE DEF c, base
<1>7. Ledger(Queued(c.outbox), Tried(c.outbox), base, Queued(stored), AtLarge, deleted, Running)
  <2> DEFINE N == {OwnId(r)}
  <2>1. /\ \A n \in N : base[Row(n)] # "none"
        /\ \A n \in N : \A w \in AtLarge \cup Queued(stored) \cup (IF Running THEN Queued(chat.outbox) ELSE {}) :
             Row(w) # Row(n)
        /\ \A m, n \in N : Row(m) = Row(n) => m = n
    BY <1>2, <1>3, <1>4
  <2> HIDE DEF N
  <2>2. Ledger(Queued(chat.outbox) \cup N, Tried(chat.outbox), base, Queued(stored), AtLarge,
               deleted, Running)
    <3>1. Running \in BOOLEAN
      BY DEF Running
    <3> QED BY <1>5, <2>1, <3>1, LedgerGrows
  <2> QED BY <1>6, <2>2 DEF N
<1>8. CASE session = "none"
  <2>1. rows' = base /\ UNCHANGED <<stored, chat, toPeer>>
    BY <1>8 DEF Compose, base
  <2>2. ChatTypeOK' /\ ReceiptsAreTrue' /\ \A s \in deleted' : rows'[s] # "none"
    BY <1>1, <1>3, <2>1, AuthorKeeps DEF ChatTypeOK, InstanceOK
  <2>3. CopiesInv'
    BY <1>1, <1>5, <2>1 DEF CopiesInv, AtLarge, Running, Queued, Tried, ToSet
  <2>4. OpeningInv'
    BY <1>1, <1>8, <2>1, <2>2 DEF ChatInv, OpeningInv, Running, Tried, Queued
  <2> QED BY <2>2, <2>3, <2>4 DEF ChatInv
<1>9. CASE session = "opening"
  <2>1. Settle(c, base, FALSE, FALSE)
    BY <1>9 DEF Compose, base, c, Live
  <2>2. chat' = c /\ stored' = stored /\ toPeer' = toPeer /\ rows' = base
    BY <1>1, <1>3, <2>1, SettleWaits DEF ChatTypeOK
  <2>3. ChatTypeOK' /\ ReceiptsAreTrue' /\ \A s \in deleted' : rows'[s] # "none"
    BY <1>1, <1>3, <1>6, <2>2, AuthorKeeps DEF ChatTypeOK
  <2>4. CopiesInv'
    BY <1>1, <1>7, <2>2 DEF CopiesInv, AtLarge, Running, Queued, Tried, ToSet
  <2>5. OpeningInv'
    <3>1. r \notin deleted
      BY <1>1 DEF ChatInv, OpeningInv
    <3>2. /\ \A w \in Queued(chat.outbox) : Row(w) \notin deleted /\ rows[Row(w)] = "pending"
          /\ \A v, w \in Queued(chat.outbox) : Row(v) = Row(w) => v = w
          /\ toPeer = <<>> /\ chat.inFlight = {} /\ Tried(chat.outbox) = {}
      BY <1>9 DEF ChatInv, OpeningInv, Running
    <3>3. base[r] = "pending"
      BY <1>1 DEF base, ChatTypeOK
    <3>4. /\ \A w \in Queued(c.outbox) : Row(w) \notin deleted /\ base[Row(w)] = "pending"
          /\ \A v, w \in Queued(c.outbox) : Row(v) = Row(w) => v = w
      BY <1>2, <1>3, <1>4, <1>6, <3>1, <3>2, <3>3
    <3>5. session' = "opening" /\ deleted' = deleted /\ chat' = c /\ rows' = base
      BY <1>1, <1>9, <2>2
    <3>6. /\ \A w \in Queued(chat'.outbox) : Row(w) \notin deleted' /\ rows'[Row(w)] = "pending"
          /\ \A v, w \in Queued(chat'.outbox) : Row(v) = Row(w) => v = w
      BY <3>4, <3>5
    <3>7. toPeer' = <<>> /\ chat'.inFlight = {} /\ Tried(chat'.outbox) = {}
      BY <1>6, <2>2, <3>2
    <3> QED BY <2>3, <3>5, <3>6, <3>7 DEF OpeningInv, Queued, Tried, Row
  <2> QED BY <2>3, <2>4, <2>5 DEF ChatInv
<1>10. CASE Running
  <2>1. Settle(c, base, Live, TRUE)
    BY <1>10 DEF Compose, Running, base, c
  <2>2. Live \in BOOLEAN /\ session' \in {"identified", "connected", "reconnecting"}
    BY <1>1, <1>10 DEF Live, Running
  <2>3. Ledger(Queued(c.outbox), Tried(c.outbox), base, Queued(stored), AtLarge, deleted, TRUE)
    <3>1. Running = TRUE
      BY <1>10 DEF Running
    <3> QED BY <1>7, <3>1
  <2> QED BY <1>1, <1>3, <1>6, <2>1, <2>2, <2>3, RunningSettles
<1> QED BY <1>1, <1>8, <1>9, <1>10 DEF ChatTypeOK, Running

\* A row that failed is owed, so its copy, if one is at large, is queued: what has no
\* copy in the queue may be composed again.
LEMMA RetryKeeps ==
  ASSUME ChatInv, NEW r \in Rows, Retry(r)
  PROVE  ChatInv'
<1> DEFINE owed == [rows EXCEPT ![r] = "pending"]
           again == [rows EXCEPT ![r] = IF Live THEN "sent" ELSE "pending"]
           queue == [i \in DOMAIN chat.outbox |->
                       IF Row(chat.outbox[i].id) = r THEN [chat.outbox[i] EXCEPT !.attempts = 0]
                       ELSE chat.outbox[i]]
           c == [chat EXCEPT !.outbox = queue]
           h == HandToProtocol(chat, {r})
<1>1. /\ ChatTypeOK /\ InstanceOK(chat) /\ rows[r] = "failed" /\ r \notin deleted
      /\ UNCHANGED <<inbox, peerChat, toAuthor, deleted, session, gap>>
  BY DEF ChatInv, ChatTypeOK, InstanceOK, Retry
<1>2. \A base \in {owed, again} :
        /\ base \in [Rows -> Statuses]
        /\ \A s \in Rows : /\ Settled(base[s]) => Settled(rows[s])
                           /\ base[s] # "none" <=> rows[s] # "none"
                           /\ s # r => base[s] = rows[s]
  BY <1>1 DEF ChatTypeOK, Statuses, Settled
<1>3. \A w \in AtLarge \cup Queued(stored) \cup Queued(chat.outbox) : Row(w) \in Rows
  BY <1>1, WiresHaveRows
<1>4. \A base \in {owed, again} :
        Ledger(Queued(chat.outbox), Tried(chat.outbox), base, Queued(stored), AtLarge, deleted, Running)
  <2> TAKE base \in {owed, again}
  <2>1. \A w \in AtLarge \cup Queued(stored) \cup Queued(chat.outbox) :
          \/ base[Row(w)] = rows[Row(w)]
          \/ /\ base[Row(w)] # "none"
             /\ Settled(rows[Row(w)]) => Settled(base[Row(w)])
    BY <1>1, <1>2, <1>3 DEF Settled
  <2> HIDE DEF owed, again
  <2> QED BY <2>1, StatusesMove DEF ChatInv, CopiesInv
<1> HIDE DEF owed, again
<1>5. CASE session = "none"
  <2>1. rows' = owed /\ UNCHANGED <<stored, chat, toPeer, copies>>
    BY <1>5 DEF Retry, owed
  <2>2. ChatTypeOK' /\ ReceiptsAreTrue' /\ \A s \in deleted' : rows'[s] # "none"
    BY <1>1, <1>2, <2>1, AuthorKeeps DEF ChatTypeOK, InstanceOK
  <2>3. CopiesInv'
    BY <1>1, <1>4, <2>1 DEF CopiesInv, AtLarge, Running, Queued, Tried, ToSet
  <2>4. OpeningInv'
    BY <1>1, <1>5, <2>1, <2>2 DEF ChatInv, OpeningInv, Running, Tried, Queued
  <2> QED BY <2>2, <2>3, <2>4 DEF ChatInv
<1>6. CASE session # "none" /\ r \in Covered(chat.outbox)
  <2>1. Settle(c, again, Live, FALSE) /\ copies' = copies
    BY <1>6 DEF Retry, again
  <2>2. PICK w \in Queued(chat.outbox) : Row(w) = r
    BY <1>6 DEF Covered
  <2>3. session # "opening"
    BY <1>1, <2>2 DEF ChatInv, OpeningInv
  <2>4. Running /\ Running = TRUE
    BY <1>1, <1>6, <2>3 DEF Running, ChatTypeOK
  <2>5. /\ InstanceOK(c) /\ Queued(c.outbox) = Queued(chat.outbox)
        /\ Tried(c.outbox) = Tried(chat.outbox)
    <3>1. queue \in Seq(Entries) /\ Queued(queue) = Queued(chat.outbox) /\ Tried(queue) = Tried(chat.outbox)
      BY <1>1, RenewedIds DEF InstanceOK
    <3> HIDE DEF queue
    <3>2. c.outbox = queue /\ DOMAIN c = DOMAIN chat
      BY <1>1 DEF InstanceOK
    <3> QED BY <1>1, <3>1, <3>2 DEF InstanceOK
  <2> HIDE DEF c
  <2>6. Ledger(Queued(c.outbox), Tried(c.outbox), again, Queued(stored), AtLarge, deleted, TRUE)
    BY <1>4, <2>4, <2>5
  <2>7. Live \in BOOLEAN /\ session' \in {"identified", "connected", "reconnecting"}
        /\ copies' \in [Rows -> Nat]
    BY <1>1, <2>1, <2>4 DEF Live, Running, ChatTypeOK
  <2> QED BY <1>1, <1>2, <2>1, <2>5, <2>6, <2>7, RunningSettles
<1>7. CASE session # "none" /\ r \notin Covered(chat.outbox)
  <2>1. /\ Settle(h, owed, Live, session # "opening")
        /\ copies' = [copies EXCEPT ![r] = @ + 1]
    BY <1>7 DEF Retry, owed
  <2>2. copies' \in [Rows -> Nat]
    BY <1>1, <2>1 DEF ChatTypeOK
  <2>3. FreshId(r) \in Wires /\ Row(FreshId(r)) = r
    BY <1>1, FreshIsWire DEF ChatTypeOK
  <2>4. /\ InstanceOK(h) /\ h.inFlight = chat.inFlight
        /\ Queued(h.outbox) = Queued(chat.outbox) \cup {FreshId(r)}
        /\ Tried(h.outbox) = Tried(chat.outbox)
    <3> DEFINE waiting == {r}
    <3>1. {FreshId(s) : s \in waiting} = {FreshId(r)} /\ waiting \in SUBSET Rows
      OBVIOUS
    <3> HIDE DEF waiting
    <3>2. LET g == HandToProtocol(chat, waiting) IN
          /\ DOMAIN g = DOMAIN chat /\ g.outbox \in Seq(Entries) /\ g.inFlight = chat.inFlight
          /\ Queued(g.outbox) = Queued(chat.outbox) \cup {FreshId(s) : s \in waiting}
          /\ Tried(g.outbox) = Tried(chat.outbox)
      BY <1>1, <3>1, HandedIds DEF ChatTypeOK, InstanceOK
    <3> QED BY <1>1, <3>1, <3>2 DEF InstanceOK, waiting
  <2> HIDE DEF h
  <2>5. \A w \in Queued(chat.outbox) : Row(w) # r
    BY <1>7 DEF Covered
  <2>6. CASE Running
    <3>1. Running = TRUE
      BY <2>6 DEF Running
    <3>2. \A w \in AtLarge \cup Queued(stored) : Row(w) # r
      BY <1>1, <2>5, <3>1 DEF ChatInv, CopiesInv, Ledger, Settled
    <3>3. Ledger(Queued(h.outbox), Tried(h.outbox), owed, Queued(stored), AtLarge, deleted, TRUE)
      <4> DEFINE N == {FreshId(r)}
      <4>1. /\ \A n \in N : owed[Row(n)] # "none"
            /\ \A n \in N : \A w \in AtLarge \cup Queued(stored) \cup (IF TRUE THEN Queued(chat.outbox) ELSE {}) :
                 Row(w) # Row(n)
            /\ \A m, n \in N : Row(m) = Row(n) => m = n
        BY <1>1, <1>2, <2>3, <2>5, <3>2
      <4> HIDE DEF N
      <4>2. Ledger(Queued(chat.outbox) \cup N, Tried(chat.outbox), owed, Queued(stored), AtLarge,
                   deleted, TRUE)
        BY <1>4, <3>1, <4>1, LedgerGrows
      <4> QED BY <2>4, <4>2 DEF N
    <3>4. Live \in BOOLEAN /\ session' \in {"identified", "connected", "reconnecting"}
          /\ (session # "opening") \in BOOLEAN
      BY <1>1, <2>6 DEF Live, Running
    <3> QED BY <1>1, <1>2, <2>1, <2>2, <2>4, <3>3, <3>4, RunningSettles
  <2>7. CASE session = "opening"
    <3>1. Settle(h, owed, FALSE, FALSE)
      BY <2>1, <2>7 DEF Live
    <3>2. chat' = h /\ stored' = stored /\ toPeer' = toPeer /\ rows' = owed
      BY <1>1, <1>2, <3>1, SettleWaits DEF ChatTypeOK
    <3>3. ChatTypeOK' /\ ReceiptsAreTrue' /\ \A s \in deleted' : rows'[s] # "none"
      BY <1>1, <1>2, <2>2, <2>4, <3>2, AuthorKeeps DEF ChatTypeOK
    <3>4. CopiesInv'
      <4>1. Running = FALSE
        BY <2>7 DEF Running
      <4>2. Ledger(Queued(h.outbox), Tried(h.outbox), owed, Queued(stored), AtLarge, deleted, FALSE)
        <5>1. Ledger(Queued(chat.outbox), Tried(chat.outbox), owed, Queued(stored), AtLarge, deleted, FALSE)
          BY <1>4, <4>1
        <5>2. owed[Row(FreshId(r))] # "none"
          BY <1>1, <1>2, <2>3
        <5> QED BY <2>4, <5>1, <5>2 DEF Ledger
      <4> QED BY <1>1, <3>2, <4>1, <4>2 DEF CopiesInv, AtLarge, Running, Queued, Tried, ToSet
    <3>5. OpeningInv'
      <4>1. /\ \A w \in Queued(chat.outbox) : Row(w) \notin deleted /\ rows[Row(w)] = "pending"
            /\ \A v, w \in Queued(chat.outbox) : Row(v) = Row(w) => v = w
            /\ toPeer = <<>> /\ chat.inFlight = {} /\ Tried(chat.outbox) = {}
        BY <2>7 DEF ChatInv, OpeningInv, Running
      <4>2. owed[r] = "pending"
        BY <1>1 DEF owed, ChatTypeOK
      <4>3. /\ \A w \in Queued(h.outbox) : Row(w) \notin deleted /\ owed[Row(w)] = "pending"
            /\ \A v, w \in Queued(h.outbox) : Row(v) = Row(w) => v = w
        BY <1>1, <1>2, <1>3, <2>3, <2>4, <2>5, <4>1, <4>2
      <4>4. session' = "opening" /\ deleted' = deleted /\ chat' = h /\ rows' = owed
        BY <1>1, <2>7, <3>2
      <4>5. /\ \A w \in Queued(chat'.outbox) : Row(w) \notin deleted' /\ rows'[Row(w)] = "pending"
            /\ \A v, w \in Queued(chat'.outbox) : Row(v) = Row(w) => v = w
        BY <4>3, <4>4
      <4>6. toPeer' = <<>> /\ chat'.inFlight = {} /\ Tried(chat'.outbox) = {}
        BY <2>4, <3>2, <4>1
      <4> QED BY <3>3, <4>4, <4>5, <4>6 DEF OpeningInv, Queued, Tried, Row
    <3> QED BY <3>3, <3>4, <3>5 DEF ChatInv
  <2> QED BY <1>1, <1>7, <2>6, <2>7 DEF ChatTypeOK, Running
<1> QED BY <1>5, <1>6, <1>7

\* A deleted row is no longer owed, whatever copy of it is still stored.
LEMMA DeleteForMeKeeps ==
  ASSUME ChatInv, NEW r \in Rows, DeleteForMe(r)
  PROVE  ChatInv'
<1> DEFINE gone == {w \in Queued(chat.outbox) : Row(w) = r} \ chat.inFlight
           Q == Queued(chat.outbox)
<1>1. /\ ChatTypeOK /\ InstanceOK(chat) /\ rows[r] # "none" /\ deleted' = deleted \cup {r}
      /\ UNCHANGED <<rows, copies, stored, session, peerChat, inbox, toPeer, toAuthor>>
  BY DEF ChatInv, ChatTypeOK, InstanceOK, DeleteForMe
<1>2. /\ chat'.outbox = Without(chat.outbox, gone) /\ DOMAIN chat' = DOMAIN chat
      /\ chat'.inFlight = chat.inFlight
  BY <1>1 DEF DeleteForMe, InstanceOK
<1>3. /\ InstanceOK(chat') /\ Queued(chat'.outbox) = Q \ gone
      /\ Tried(chat'.outbox) \subseteq Tried(chat.outbox)
  <2> HIDE DEF gone
  <2> QED BY <1>1, <1>2, WithoutIds DEF InstanceOK
<1>4. ChatTypeOK' /\ ReceiptsAreTrue' /\ \A s \in deleted' : rows'[s] # "none"
  <2>1. ChatTypeOK'
    BY <1>1, <1>3 DEF ChatTypeOK, InstanceOK, Receipts
  <2>2. ReceiptsAreTrue'
    BY <1>1 DEF ChatInv, ReceiptsAreTrue, TickIsHonest
  <2> QED BY <1>1, <2>1, <2>2 DEF ChatInv, OpeningInv
<1>5. CopiesInv'
  <2>1. Ledger(Q, Tried(chat.outbox), rows, Queued(stored), AtLarge, deleted, Running)
    BY DEF ChatInv, CopiesInv
  <2>2. \A w \in Q : w \in gone => Row(w) = r
    OBVIOUS
  <2> HIDE DEF gone, Q
  <2>3. Ledger(Q \ gone, Tried(chat'.outbox), rows, Queued(stored), AtLarge, deleted \cup {r}, Running)
    BY <1>3, <2>1, <2>2 DEF Ledger
  <2> QED BY <1>1, <1>3, <2>3 DEF CopiesInv, AtLarge, Running, Queued, Tried, ToSet
<1>6. OpeningInv'
  <2>1. CASE Running
    BY <1>1, <1>4, <2>1 DEF OpeningInv, Running
  <2>2. CASE session = "opening"
    <3>1. /\ \A w \in Q : Row(w) \notin deleted /\ rows[Row(w)] = "pending"
          /\ \A v, w \in Q : Row(v) = Row(w) => v = w
          /\ toPeer = <<>> /\ chat.inFlight = {} /\ Tried(chat.outbox) = {}
      BY <2>2 DEF ChatInv, OpeningInv, Running
    <3>2. \A w \in Q \ gone : Row(w) # r
      BY <3>1
    <3> HIDE DEF gone, Q
    <3>3. /\ \A w \in Q \ gone : Row(w) \notin deleted' /\ rows'[Row(w)] = "pending"
          /\ \A v, w \in Q \ gone : Row(v) = Row(w) => v = w
      BY <1>1, <3>1, <3>2
    <3>4. /\ \A w \in Queued(chat'.outbox) : Row(w) \notin deleted' /\ rows'[Row(w)] = "pending"
          /\ \A v, w \in Queued(chat'.outbox) : Row(v) = Row(w) => v = w
      BY <1>3, <3>3
    <3>5. toPeer' = <<>> /\ chat'.inFlight = {} /\ Tried(chat'.outbox) = {} /\ session' = "opening"
      BY <1>1, <1>2, <1>3, <2>2, <3>1
    <3> QED BY <1>4, <3>4, <3>5 DEF OpeningInv, Queued, Tried, Row
  <2>3. CASE session = "none"
    <3>1. Q = {} /\ toPeer = <<>> /\ chat.inFlight = {} /\ Tried(chat.outbox) = {}
      BY <2>3 DEF ChatInv, OpeningInv, Running
    <3> HIDE DEF Q, gone
    <3>2. /\ session' = "none" /\ toPeer' = <<>> /\ chat'.inFlight = {}
          /\ Queued(chat'.outbox) = {} /\ Tried(chat'.outbox) = {}
      BY <1>1, <1>2, <1>3, <2>3, <3>1
    <3> QED BY <1>4, <3>2 DEF OpeningInv, Queued, Tried
  <2> QED BY <1>1, <2>1, <2>2, <2>3 DEF ChatTypeOK, Running
<1> QED BY <1>4, <1>5, <1>6 DEF ChatInv

-----------------------------------------------------------------------------
(* Sessions. *)

\* No row, no copy.
LEMMA ChatInitHolds == ChatInit => ChatInv
<1> SUFFICES ASSUME ChatInit  PROVE ChatInv
  OBVIOUS
<1>1. chat.outbox = <<>> /\ chat.inFlight = {} /\ InstanceOK(chat)
  BY DEF ChatInit, NewChat, InstanceOK
<1>2. ChatTypeOK
  BY <1>1 DEF ChatInit, ChatTypeOK, Statuses, NewPeerChat, InstanceOK
<1>3. ReceiptsAreTrue
  BY DEF ChatInit, ReceiptsAreTrue, NewPeerChat, TickIsHonest
<1>4. AtLarge = {} /\ Queued(stored) = {} /\ Queued(chat.outbox) = {} /\ Tried(chat.outbox) = {}
  BY <1>1, EmptyQueue, ElementsOfEmpty DEF ChatInit, AtLarge
<1>5. ~Running /\ Running = FALSE
  BY DEF ChatInit, Running
<1>6. CopiesInv
  BY <1>4, <1>5 DEF CopiesInv, Ledger
<1>7. OpeningInv
  BY <1>1, <1>4, <1>5 DEF ChatInit, OpeningInv
<1> QED BY <1>2, <1>3, <1>6, <1>7 DEF ChatInv

\* A new instance holds nothing.
LEMMA OpenSessionKeeps ==
  ASSUME ChatInv, OpenSession
  PROVE  ChatInv'
<1>1. /\ ChatTypeOK /\ InstanceOK(chat) /\ session = "none" /\ session' = "opening"
      /\ UNCHANGED <<rows, deleted, copies, stored, chat, peerChat, inbox, toPeer, toAuthor>>
  BY DEF ChatInv, ChatTypeOK, InstanceOK, OpenSession
<1>2. ChatTypeOK' /\ ReceiptsAreTrue' /\ \A s \in deleted' : rows'[s] # "none"
  BY <1>1, AuthorKeeps DEF ChatTypeOK, InstanceOK
<1>3. CopiesInv'
  <2>1. Running' = Running
    BY <1>1 DEF Running
  <2>2. inbox' \cup ToSet(toPeer') \subseteq AtLarge
    BY <1>1 DEF AtLarge
  <2> QED BY <1>1, <2>1, <2>2, CopiesStay
<1>4. OpeningInv'
  <2>1. /\ toPeer = <<>> /\ chat.inFlight = {}
        /\ Queued(chat.outbox) = {} /\ Tried(chat.outbox) = {}
    BY <1>1 DEF ChatInv, OpeningInv, Running
  <2>2. /\ toPeer' = <<>> /\ chat'.inFlight = {}
        /\ Queued(chat'.outbox) = {} /\ Tried(chat'.outbox) = {}
    BY <1>1, <2>1
  <2> QED BY <1>1, <1>2, <2>2 DEF OpeningInv, Queued, Tried
<1> QED BY <1>2, <1>3, <1>4 DEF ChatInv

\* The end of a session: what is still owed is in the stored queue.
LEMMA SessionEndsKeeps ==
  ASSUME ChatInv, SessionEnds
  PROVE  ChatInv'
<1>1. /\ ChatTypeOK /\ session' = "none" /\ chat' = NewChat /\ peerChat' = NewPeerChat
      /\ toPeer' = <<>> /\ toAuthor' = <<>>
      /\ UNCHANGED <<rows, deleted, copies, stored, inbox>>
  BY DEF ChatInv, SessionEnds
<1>2. chat'.outbox = <<>> /\ chat'.inFlight = {} /\ InstanceOK(chat')
  BY <1>1 DEF NewChat, InstanceOK
<1>3. ChatTypeOK'
  BY <1>1, <1>2 DEF ChatTypeOK, InstanceOK, NewPeerChat
<1>4. ReceiptsAreTrue'
  BY <1>1 DEF ChatInv, ReceiptsAreTrue, TickIsHonest, NewPeerChat
<1>5. Queued(chat'.outbox) = {} /\ Tried(chat'.outbox) = {} /\ ToSet(toPeer') = {}
  BY <1>1, <1>2, EmptyQueue, ElementsOfEmpty
<1>6. CopiesInv'
  <2>1. Ledger(Queued(chat.outbox), Tried(chat.outbox), rows, Queued(stored), AtLarge, deleted, Running)
    BY DEF ChatInv, CopiesInv
  <2>2. inbox \subseteq AtLarge
    BY DEF AtLarge
  <2>3. Ledger({}, {}, rows, Queued(stored), inbox, deleted, FALSE)
    BY <2>1, <2>2 DEF Ledger
  <2>4. Running' = FALSE /\ inbox' \cup ToSet(toPeer') = inbox
    BY <1>1, <1>5 DEF Running
  <2> QED BY <1>1, <1>5, <2>3, <2>4 DEF CopiesInv, AtLarge, Queued, Tried, ToSet
<1>7. OpeningInv'
  BY <1>1, <1>2, <1>5 DEF ChatInv, OpeningInv, Queued, Tried
<1> QED BY <1>3, <1>4, <1>6, <1>7 DEF ChatInv

\* An outage moves no copy.
LEMMA LinkLostKeeps ==
  ASSUME ChatInv, LinkLost
  PROVE  ChatInv'
<1>1. /\ ChatTypeOK /\ InstanceOK(chat) /\ session = "connected" /\ session' = "reconnecting"
      /\ UNCHANGED <<rows, deleted, copies, stored, chat, peerChat, inbox, toPeer, toAuthor>>
  BY DEF ChatInv, ChatTypeOK, InstanceOK, LinkLost
<1>2. ChatTypeOK' /\ ReceiptsAreTrue' /\ \A s \in deleted' : rows'[s] # "none"
  BY <1>1, AuthorKeeps DEF ChatTypeOK, InstanceOK
<1>3. CopiesInv'
  <2>1. Running' = Running
    BY <1>1 DEF Running
  <2>2. inbox' \cup ToSet(toPeer') \subseteq AtLarge
    BY <1>1 DEF AtLarge
  <2> QED BY <1>1, <2>1, <2>2, CopiesStay
<1>4. OpeningInv'
  BY <1>1, <1>2 DEF OpeningInv, Running
<1> QED BY <1>2, <1>3, <1>4 DEF ChatInv

\* On CONNECTED the instance flushes: each copy sent is in the queue it writes.
LEMMA ConnectedKeeps ==
  ASSUME ChatInv, Connected
  PROVE  ChatInv'
<1>1. /\ ChatTypeOK /\ InstanceOK(chat) /\ session \in {"identified", "reconnecting"}
      /\ session' = "connected" /\ Settle(chat, rows, TRUE, FALSE)
      /\ UNCHANGED <<deleted, copies, peerChat, inbox, toAuthor>>
  BY DEF ChatInv, ChatTypeOK, InstanceOK, Connected
<1>2. Running = TRUE
  BY <1>1 DEF Running
<1>3. Ledger(Queued(chat.outbox), Tried(chat.outbox), rows, Queued(stored), AtLarge, deleted, TRUE)
  BY <1>2 DEF ChatInv, CopiesInv
<1>4. rows \in [Rows -> Statuses] /\ copies' \in [Rows -> Nat]
  BY <1>1 DEF ChatTypeOK
<1> QED BY <1>1, <1>3, <1>4, RunningSettles

\* The stored queue comes back before the pending rows that it does not carry are
\* composed again: none of those has a copy at large.
LEMMA IdentifyKeeps ==
  ASSUME ChatInv, Identify
  PROVE  ChatInv'
<1> DEFINE restored == Restored(chat)
           waiting  == Waiting(restored)
           c == HandToProtocol(restored, waiting)
           Q == Queued(restored.outbox)
           N == {FreshId(r) : r \in waiting}
<1>1. /\ ChatTypeOK /\ InstanceOK(chat) /\ session = "opening" /\ session' = "identified"
      /\ Settle(c, rows, FALSE, waiting # {})
      /\ copies' = [r \in Rows |-> IF r \in waiting THEN copies[r] + 1 ELSE copies[r]]
      /\ UNCHANGED <<deleted, peerChat, inbox, toAuthor>>
  BY DEF ChatInv, ChatTypeOK, InstanceOK, Identify
<1>2. /\ InstanceOK(restored)
      /\ restored.outbox = IF stored = <<>> THEN chat.outbox ELSE stored
  BY <1>1 DEF Restored, InstanceOK, ChatTypeOK
<1>3. waiting \in SUBSET Rows /\ \A r \in waiting :
        rows[r] = "pending" /\ r \notin deleted /\ \A w \in Q : Row(w) # r
  BY DEF Waiting, Covered
<1>4. /\ InstanceOK(c) /\ Queued(c.outbox) = Q \cup N
      /\ Tried(c.outbox) = Tried(restored.outbox)
  <2> HIDE DEF restored, waiting
  <2>1. /\ DOMAIN c = DOMAIN restored /\ c.outbox \in Seq(Entries)
        /\ Queued(c.outbox) = Q \cup N /\ Tried(c.outbox) = Tried(restored.outbox)
    BY <1>1, <1>2, <1>3, HandedIds DEF ChatTypeOK, InstanceOK
  <2> QED BY <1>2, <2>1 DEF InstanceOK
<1>5. /\ \A r \in waiting : FreshId(r) \in Wires /\ Row(FreshId(r)) = r
      /\ \A n \in N : Row(n) \in waiting
      /\ \A m, n \in N : Row(m) = Row(n) => m = n
  <2>1. \A r \in waiting : FreshId(r) \in Wires /\ Row(FreshId(r)) = r
    BY <1>1, <1>3, FreshIsWire DEF ChatTypeOK
  <2> HIDE DEF waiting
  <2> QED BY <2>1
<1> HIDE DEF c, waiting
<1>6. Ledger(Queued(chat.outbox), Tried(chat.outbox), rows, Queued(stored), AtLarge, deleted, FALSE)
  <2>1. Running = FALSE
    BY <1>1 DEF Running
  <2> QED BY <2>1 DEF ChatInv, CopiesInv
<1>7. /\ \A w \in Queued(chat.outbox) : Row(w) \notin deleted /\ rows[Row(w)] = "pending"
      /\ \A v, w \in Queued(chat.outbox) : Row(v) = Row(w) => v = w
      /\ Tried(chat.outbox) = {}
  BY <1>1 DEF ChatInv, OpeningInv, Running
<1>8. Ledger(Q, Tried(restored.outbox), rows, Queued(stored), AtLarge, deleted, TRUE)
  <2>1. CASE stored = <<>>
    <3>1. restored.outbox = chat.outbox /\ Queued(stored) = {} /\ Q = Queued(chat.outbox)
      BY <1>2, <2>1, EmptyQueue
    <3> HIDE DEF Q, restored
    <3>2. \A w \in AtLarge : Row(w) \in deleted \/ Settled(rows[Row(w)])
      BY <1>6, <3>1 DEF Ledger
    <3>3. \A w \in AtLarge : \A v \in Q : Row(w) # Row(v)
      BY <1>7, <3>1, <3>2 DEF Settled
    <3> QED BY <1>6, <1>7, <3>1, <3>2, <3>3 DEF Ledger
  <2>2. CASE stored # <<>>
    <3>1. restored.outbox = stored /\ Q = Queued(stored) /\ Tried(restored.outbox) \subseteq Q
      BY <1>2, <2>2, QueueIsItsElements
    <3> HIDE DEF Q, restored
    <3> QED BY <1>6, <3>1 DEF Ledger
  <2> QED BY <2>1, <2>2
<1> HIDE DEF Q, N, restored
<1>9. Ledger(Q \cup N, Tried(restored.outbox), rows, Queued(stored), AtLarge, deleted, TRUE)
  <2>1. \A n \in N : rows[Row(n)] = "pending" /\ Row(n) \notin deleted /\ \A w \in Q : Row(w) # Row(n)
    BY <1>3, <1>5
  <2>2. \A n \in N : \A w \in AtLarge \cup Queued(stored) : Row(w) # Row(n)
    BY <1>8, <2>1 DEF Ledger, Settled
  <2>3. /\ \A n \in N : rows[Row(n)] # "none"
        /\ \A n \in N : \A w \in AtLarge \cup Queued(stored) \cup (IF TRUE THEN Q ELSE {}) : Row(w) # Row(n)
    BY <2>1, <2>2
  <2> QED BY <1>5, <1>8, <2>3, LedgerGrows
<1>10. copies' \in [Rows -> Nat] /\ rows \in [Rows -> Statuses]
  BY <1>1 DEF ChatTypeOK
<1>11. (waiting # {}) \in BOOLEAN
  OBVIOUS
<1>12. Ledger(Queued(c.outbox), Tried(c.outbox), rows, Queued(stored), AtLarge, deleted, TRUE)
  BY <1>4, <1>9
<1> QED BY <1>1, <1>4, <1>10, <1>11, <1>12, RunningSettles

-----------------------------------------------------------------------------
(* The receiver. *)

\* Receipts name what the receiver has stored.
LEMMA ReceiptsOfInbox ==
  ASSUME NEW c, c.toAck \subseteq inbox, c.toRead \subseteq inbox
  PROVE  ReceiptsOf(c) \in Seq(Receipts)
<1> DEFINE ticks == IF c.toAck = {} THEN <<>> ELSE <<[status |-> "delivered", ids |-> c.toAck]>>
           reads == IF c.toRead = {} THEN <<>> ELSE <<[status |-> "read", ids |-> c.toRead]>>
<1>1. ticks \in Seq(Receipts)
  <2>1. [status |-> "delivered", ids |-> c.toAck] \in Receipts
    BY DEF Receipts
  <2> QED BY <2>1
<1>2. reads \in Seq(Receipts)
  <2>1. [status |-> "read", ids |-> c.toRead] \in Receipts
    BY DEF Receipts
  <2> QED BY <2>1
<1>3. ReceiptsOf(c) = ticks \o reads
  BY DEF ReceiptsOf
<1> HIDE DEF ticks, reads
<1> QED BY <1>1, <1>2, <1>3, ConcatProperties

\* A step of the receiver's that takes nothing from the channel.
LEMMA ReceiverKeeps ==
  ASSUME ChatInv,
         UNCHANGED <<rows, deleted, copies, stored, session, chat, inbox, toPeer>>,
         DOMAIN peerChat' = DOMAIN peerChat,
         peerChat'.toAck \subseteq inbox, peerChat'.toRead \subseteq inbox,
         toAuthor' \in Seq(Receipts)
  PROVE  ChatInv'
<1>1. ChatTypeOK'
  BY DEF ChatInv, ChatTypeOK, Receipts
<1>2. ReceiptsAreTrue'
  BY DEF ChatInv, ReceiptsAreTrue, TickIsHonest
<1>3. CopiesInv'
  BY DEF ChatInv, CopiesInv, AtLarge, Running
<1>4. OpeningInv'
  BY DEF ChatInv, OpeningInv, Running
<1> QED BY <1>1, <1>2, <1>3, <1>4 DEF ChatInv

\* The queue of receipts after a flush.
LEMMA ReceiptsGoOut ==
  ASSUME ChatTypeOK, NEW c, c.toAck \subseteq inbox, c.toRead \subseteq inbox,
         DOMAIN c = {"seen", "toAck", "toRead", "readSent"}
  PROVE  /\ toAuthor \o ReceiptsOf(c) \in Seq(Receipts)
         /\ DOMAIN ReceiptsSent(c) = DOMAIN c
         /\ ReceiptsSent(c).toAck \subseteq inbox /\ ReceiptsSent(c).toRead \subseteq inbox
<1>1. toAuthor \o ReceiptsOf(c) \in Seq(Receipts)
  BY ReceiptsOfInbox, ConcatProperties DEF ChatTypeOK
<1>2. /\ DOMAIN ReceiptsSent(c) = DOMAIN c
      /\ ReceiptsSent(c).toAck = {} /\ ReceiptsSent(c).toRead = {}
  BY DEF ReceiptsSent
<1> QED BY <1>1, <1>2

\* The receiver's receipts and reads move no copy.
LEMMA ReceiverStepKeeps ==
  ASSUME ChatInv, FlushReceipts \/ MarkRead
  PROVE  ChatInv'
<1>1. /\ ChatTypeOK /\ DOMAIN peerChat = {"seen", "toAck", "toRead", "readSent"}
      /\ peerChat.toAck \subseteq inbox /\ peerChat.toRead \subseteq inbox
      /\ toAuthor \in Seq(Receipts)
  BY DEF ChatInv, ChatTypeOK, ReceiptsAreTrue
<1>2. CASE FlushReceipts
  <2>1. /\ peerChat' = ReceiptsSent(peerChat) /\ toAuthor' = toAuthor \o ReceiptsOf(peerChat)
        /\ UNCHANGED <<rows, deleted, copies, stored, session, chat, inbox, toPeer>>
    BY <1>2 DEF FlushReceipts
  <2> QED BY <1>1, <2>1, ReceiptsGoOut, ReceiverKeeps
<1>3. CASE MarkRead
  <2> DEFINE read == MarkingRead(peerChat, inbox)
  <2>1. /\ DOMAIN read = DOMAIN peerChat
        /\ read.toAck \subseteq inbox /\ read.toRead \subseteq inbox
    BY <1>1 DEF MarkingRead
  <2>2. /\ IF session = "opening"
           THEN peerChat' = read /\ UNCHANGED toAuthor
           ELSE peerChat' = ReceiptsSent(read) /\ toAuthor' = toAuthor \o ReceiptsOf(read)
        /\ UNCHANGED <<rows, deleted, copies, stored, session, chat, inbox, toPeer>>
    BY <1>3 DEF MarkRead
  <2> HIDE DEF read
  <2>3. CASE session = "opening"
    BY <1>1, <2>1, <2>2, <2>3, ReceiverKeeps
  <2>4. CASE session # "opening"
    BY <1>1, <2>1, <2>2, <2>4, ReceiptsGoOut, ReceiverKeeps
  <2> QED BY <2>3, <2>4
<1> QED BY <1>2, <1>3

\* A message is stored by the step that acknowledges it.
LEMMA ReceiveMessageKeeps ==
  ASSUME ChatInv, ReceiveMessage
  PROVE  ChatInv'
<1> DEFINE w == Head(toPeer)
<1>1. /\ ChatTypeOK /\ session = "connected" /\ toPeer # <<>> /\ toPeer' = Tail(toPeer)
      /\ inbox' = inbox \cup {w}
      /\ peerChat' = [peerChat EXCEPT !.toAck = Acknowledged(peerChat, w), !.seen = @ \union {w}]
      /\ UNCHANGED <<rows, deleted, copies, stored, session, chat, toAuthor>>
  BY DEF ChatInv, ReceiveMessage, Live
<1>2. toPeer \in Seq(Wires) /\ w \in Wires /\ Tail(toPeer) \in Seq(Wires)
      /\ w \in ToSet(toPeer) /\ ToSet(Tail(toPeer)) \subseteq ToSet(toPeer)
  <2>1. toPeer \in Seq(Wires)
    BY <1>1 DEF ChatTypeOK
  <2>2. /\ Len(toPeer) \in Nat /\ Len(toPeer) > 0 /\ DOMAIN toPeer = 1..Len(toPeer)
        /\ w = toPeer[1] /\ Tail(toPeer) \in Seq(Wires)
        /\ DOMAIN Tail(toPeer) = 1..(Len(toPeer) - 1)
        /\ \A i \in 1..(Len(toPeer) - 1) : Tail(toPeer)[i] = toPeer[i + 1]
    BY <1>1, <2>1, HeadTailProperties
  <2>3. w \in ToSet(toPeer)
    BY <2>2 DEF ToSet
  <2>4. ToSet(Tail(toPeer)) \subseteq ToSet(toPeer)
    <3> SUFFICES ASSUME NEW x \in ToSet(Tail(toPeer))  PROVE x \in ToSet(toPeer)
      OBVIOUS
    <3>1. PICK i \in 1..(Len(toPeer) - 1) : x = Tail(toPeer)[i]
      BY <2>2 DEF ToSet
    <3>2. i + 1 \in 1..Len(toPeer) /\ x = toPeer[i + 1]
      BY <2>2, <3>1
    <3> QED BY <2>2, <3>2 DEF ToSet
  <2> QED BY <2>1, <2>2, <2>3, <2>4 DEF ToSet
<1> HIDE DEF w
<1>3. /\ DOMAIN peerChat' = DOMAIN peerChat /\ peerChat'.toAck = peerChat.toAck \cup {w}
      /\ peerChat'.toRead = peerChat.toRead
  BY <1>1 DEF ChatTypeOK, Acknowledged
<1>4. ChatTypeOK'
  <2>1. Receipts \subseteq Receipts'
    BY <1>1 DEF Receipts
  <2>2. Seq(Receipts) \subseteq Seq(Receipts')
    BY <2>1
  <2>3. toAuthor' \in Seq(Receipts')
    BY <1>1, <2>2 DEF ChatTypeOK
  <2> QED BY <1>1, <1>2, <1>3, <2>3 DEF ChatTypeOK
<1>5. ReceiptsAreTrue'
  BY <1>1, <1>3 DEF ChatInv, ReceiptsAreTrue, TickIsHonest
<1>6. CopiesInv'
  <2>1. Running' = Running
    BY <1>1 DEF Running
  <2>2. inbox' \cup ToSet(toPeer') \subseteq AtLarge
    BY <1>1, <1>2 DEF AtLarge
  <2> QED BY <1>1, <2>1, <2>2, CopiesStay
<1>7. OpeningInv'
  BY <1>1 DEF ChatInv, OpeningInv, Running
<1> QED BY <1>4, <1>5, <1>6, <1>7 DEF ChatInv

-----------------------------------------------------------------------------
(* What comes back to the sender. *)

\* A receipt settles the rows it names and takes their copies out of both queues.
LEMMA ReceiveReceiptKeeps ==
  ASSUME ChatInv, ReceiveReceipt
  PROVE  ChatInv'
<1> DEFINE receipt == Head(toAuthor)
           climb   == {w \in receipt.ids : Knows(chat, w) /\ Rank(receipt.status) > Rank(chat.status[w])}
           after   == [chat EXCEPT
                         !.outbox = Without(@, climb),
                         !.inFlight = @ \ climb,
                         !.unacked = FoldSet(LAMBDA w, q : RemoveFirst(q, w), @, receipt.ids),
                         !.status = [w \in DOMAIN @ |-> IF w \in climb THEN receipt.status ELSE @[w]]]
           Q == Queued(chat.outbox)
           T == Tried(chat.outbox)
           S == Queued(stored)
<1>1. /\ ChatTypeOK /\ InstanceOK(chat) /\ session = "connected" /\ toAuthor # <<>>
      /\ chat' = IF climb = {} THEN after ELSE Persisting(after)
      /\ stored' = IF climb = {} THEN stored ELSE PersistedBy(after)
      /\ rows' = [r \in Rows |-> IF \E w \in climb : Row(w) = r
                                 THEN SetStatus(rows[r], receipt.status) ELSE rows[r]]
      /\ toAuthor' = Tail(toAuthor)
      /\ UNCHANGED <<deleted, copies, session, peerChat, inbox, toPeer>>
  BY DEF ChatInv, ChatTypeOK, InstanceOK, ReceiveReceipt, Live
<1>2. receipt \in Receipts /\ toAuthor' \in Seq(Receipts)
  <2>1. toAuthor \in Seq(Receipts)
    BY <1>1 DEF ChatTypeOK
  <2> QED BY <1>1, <2>1, HeadTailProperties
<1>3. climb \subseteq inbox /\ climb \subseteq Wires /\ receipt.status \in {"delivered", "read"}
  BY <1>1, <1>2 DEF Receipts, ChatTypeOK
<1>4. after.outbox = Without(chat.outbox, climb) /\ DOMAIN after = DOMAIN chat
  <2> HIDE DEF climb
  <2> QED BY <1>1 DEF InstanceOK
<1> HIDE DEF after, climb, receipt
<1>5. /\ InstanceOK(after) /\ Queued(after.outbox) = Q \ climb
      /\ Tried(after.outbox) \subseteq T /\ Tried(after.outbox) \subseteq Queued(after.outbox)
  BY <1>1, <1>4, WithoutIds, QueueIsItsElements DEF InstanceOK
<1>6. /\ InstanceOK(chat') /\ chat'.outbox = after.outbox /\ stored' \in {stored, after.outbox}
      /\ climb # {} => stored' = after.outbox \/ after.outbox = <<>>
      /\ climb = {} => stored' = stored
  BY <1>1, <1>5 DEF InstanceOK, Persisting, PersistedBy
<1>7. stored' \in Seq(Entries)
  BY <1>1, <1>5, <1>6 DEF ChatTypeOK, InstanceOK
<1>8. rows' \in [Rows -> Statuses] /\ \A r \in Rows :
        /\ rows'[r] = "none" <=> rows[r] = "none"
        /\ Settled(rows[r]) => Settled(rows'[r])
        /\ rows'[r] # rows[r] => \E w \in climb : Row(w) = r
        /\ (\E w \in climb : Row(w) = r) /\ rows[r] # "none" => Settled(rows'[r])
  <2>1. rows \in [Rows -> Statuses]
    BY <1>1 DEF ChatTypeOK
  <2>2. \A r \in Rows :
          LET x == SetStatus(rows[r], receipt.status) IN
          /\ x \in Statuses /\ (x = "none" <=> rows[r] = "none")
          /\ rows[r] # "none" => Settled(x)
    <3> TAKE r \in Rows
    <3> QED BY <1>3, <2>1, SetStatusMoves DEF Statuses
  <2>3. ASSUME NEW r \in Rows, Settled(rows[r])  PROVE rows[r] # "none"
    BY <2>3 DEF Settled
  <2> QED BY <1>1, <2>1, <2>2, <2>3
<1>9. ChatTypeOK'
  BY <1>1, <1>2, <1>6, <1>7, <1>8 DEF ChatTypeOK, InstanceOK, Receipts
<1>10. ReceiptsAreTrue'
  <2>1. ASSUME NEW r \in Rows, rows'[r] \in {"delivered", "read"}
        PROVE  \E w \in inbox : Row(w) = r
    <3>1. CASE rows'[r] = rows[r]
      BY <2>1, <3>1 DEF ChatInv, ReceiptsAreTrue, TickIsHonest
    <3>2. CASE rows'[r] # rows[r]
      BY <1>3, <1>8, <3>2
    <3> QED BY <3>1, <3>2
  <2> QED BY <1>1, <2>1 DEF ChatInv, ReceiptsAreTrue, TickIsHonest
<1>11. Ledger(Q, T, rows, S, AtLarge, deleted, TRUE)
  <2>1. Running = TRUE
    BY <1>1 DEF Running
  <2> QED BY <2>1 DEF ChatInv, CopiesInv
<1>12. \A w \in AtLarge \cup S \cup Q : Row(w) \in Rows
  BY <1>1, WiresHaveRows
<1>13. /\ Queued(stored') \in {S, Q \ climb}
       /\ Q \ climb # {} => (climb = {} /\ Queued(stored') = S) \/ Queued(stored') = Q \ climb
  BY <1>5, <1>6, EmptyQueue
<1>14. Ledger(Q \ climb, Tried(after.outbox), rows', Queued(stored'), AtLarge, deleted, TRUE)
  <2> HIDE DEF Q, T, S
  <2>1. \A v, w \in AtLarge \cup Queued(stored') \cup (Q \ climb) : Row(v) = Row(w) => v = w
    BY <1>11, <1>13 DEF Ledger
  <2>2. \A w \in AtLarge \cup Queued(stored') \cup (Q \ climb) : rows[Row(w)] # "none"
    BY <1>11, <1>13 DEF Ledger
  <2>3. \A w \in AtLarge \cup Queued(stored') \cup (Q \ climb) : Row(w) \in Rows
    BY <1>12, <1>13
  <2>4. ASSUME NEW w \in AtLarge \cup Queued(stored')
        PROVE  \/ Row(w) \in deleted
               \/ Settled(rows'[Row(w)])
               \/ w \in Queued(stored') /\ w \in Q \ climb
    <3>1. CASE w \in climb
      BY <1>8, <2>2, <2>3, <3>1
    <3>2. CASE w \notin climb /\ w \in AtLarge \cup S
      <4>1. \/ Row(w) \in deleted
            \/ Settled(rows[Row(w)])
            \/ w \in S /\ w \in Q
        BY <1>11, <3>2 DEF Ledger
      <4>2. Settled(rows[Row(w)]) => Settled(rows'[Row(w)])
        BY <1>8, <2>3
      <4>3. CASE w \in S /\ w \in Q
        BY <1>13, <3>2, <4>3
      <4> QED BY <4>1, <4>2, <4>3
    <3>3. CASE w \notin climb /\ w \notin AtLarge \cup S
      BY <1>13, <3>3
    <3> QED BY <3>1, <3>2, <3>3
  <2>5. Tried(after.outbox) \subseteq Queued(stored')
    BY <1>5, <1>11, <1>13 DEF Ledger
  <2> QED BY <1>8, <2>1, <2>2, <2>3, <2>4, <2>5 DEF Ledger
<1>15. CopiesInv'
  <2>1. Running' = TRUE
    BY <1>1 DEF Running
  <2>2. Queued(chat'.outbox) = Q \ climb /\ Tried(chat'.outbox) = Tried(after.outbox)
    BY <1>5, <1>6
  <2>3. inbox' \cup ToSet(toPeer') = AtLarge /\ deleted' = deleted
    BY <1>1 DEF AtLarge
  <2> HIDE DEF Q, T, S
  <2>4. Ledger(Queued(chat'.outbox), Tried(chat'.outbox), rows', Queued(stored'),
               inbox' \cup ToSet(toPeer'), deleted', Running')
    BY <1>14, <2>1, <2>2, <2>3
  <2> QED BY <2>4 DEF CopiesInv, AtLarge, Queued, Tried, ToSet
<1>16. OpeningInv'
  BY <1>1, <1>8, <1>9 DEF ChatInv, OpeningInv, Running, ChatTypeOK
<1> QED BY <1>9, <1>10, <1>15, <1>16 DEF ChatInv

\* A message that is given up keeps its entry, and its row is owed again.
LEMMA GiveUpKeeps ==
  ASSUME ChatInv, NEW w, GiveUp(w)
  PROVE  ChatInv'
<1> DEFINE failed == [chat EXCEPT !.inFlight = @ \ {w}, !.unacked = RemoveFirst(@, w)]
           Q == Queued(chat.outbox)
           T == Tried(chat.outbox)
           S == Queued(stored)
           status == IF Undeliverable(failed, w) THEN "failed" ELSE "pending"
<1>1. /\ ChatTypeOK /\ InstanceOK(chat) /\ session \in {"connected", "reconnecting"}
      /\ UNCHANGED <<deleted, copies, session, peerChat, inbox, toAuthor>>
  BY DEF ChatInv, ChatTypeOK, InstanceOK, GiveUp
<1>2. IF w \in Q
      THEN /\ chat' = Persisting(failed) /\ stored' = PersistedBy(failed)
           /\ rows' = [rows EXCEPT ![Row(w)] = SetStatus(@, status)]
      ELSE chat' = failed /\ UNCHANGED <<stored, rows>>
  BY DEF GiveUp, Concerns
<1>3. failed.outbox = chat.outbox /\ DOMAIN failed = DOMAIN chat
  BY <1>1 DEF InstanceOK
<1>4. status \in {"failed", "pending"}
  OBVIOUS
<1> HIDE DEF failed, status
<1>5. toPeer' \in Seq(Wires) /\ ToSet(toPeer') \subseteq ToSet(toPeer)
  <2>1. toPeer \in Seq(Wires)
    BY <1>1 DEF ChatTypeOK
  <2>2. CASE UNCHANGED toPeer
    BY <2>1, <2>2
  <2>3. CASE Contains(toPeer, w) /\ toPeer' = SubSeq(toPeer, 1, (CHOOSE i \in DOMAIN toPeer : toPeer[i] = w) - 1)
    <3> DEFINE k == CHOOSE i \in DOMAIN toPeer : toPeer[i] = w
    <3>1. \E i \in DOMAIN toPeer : toPeer[i] = w
      BY <2>1, <2>3 DEF Contains
    <3>2. k \in DOMAIN toPeer
      BY <3>1
    <3> HIDE DEF k
    <3>3. Len(toPeer) \in Nat /\ DOMAIN toPeer = 1..Len(toPeer) /\ k \in Nat /\ k - 1 \in Int /\ k - 1 < Len(toPeer)
      BY <2>1, <3>2
    <3>4. \A i \in 1..(k - 1) : toPeer[i] \in Wires
      BY <2>1, <3>3
    <3>5. /\ SubSeq(toPeer, 1, k - 1) \in Seq(Wires)
          /\ Len(SubSeq(toPeer, 1, k - 1)) = k - 1
          /\ \A i \in 1..(k - 1) : SubSeq(toPeer, 1, k - 1)[i] = toPeer[i]
      BY <3>2, <3>3, <3>4, SubSeqProperties
    <3>6. ToSet(SubSeq(toPeer, 1, k - 1)) \subseteq ToSet(toPeer)
      BY <3>3, <3>5 DEF ToSet
    <3> QED BY <2>3, <3>5, <3>6 DEF k
  <2> QED BY <2>2, <2>3 DEF GiveUp
<1>6. Ledger(Q, T, rows, S, AtLarge, deleted, TRUE)
  <2>1. Running = TRUE
    BY <1>1 DEF Running
  <2> QED BY <2>1 DEF ChatInv, CopiesInv
<1>7. \A v \in AtLarge \cup S \cup Q : Row(v) \in Rows
  BY <1>1, WiresHaveRows
<1>8. T \subseteq Q
  BY QueueIsItsElements
<1>9. inbox \cup ToSet(toPeer') \subseteq AtLarge
  BY <1>5 DEF AtLarge
<1>10. InstanceOK(chat') /\ chat'.outbox = chat.outbox
  BY <1>1, <1>2, <1>3 DEF InstanceOK, Persisting
<1>11. /\ stored' \in Seq(Entries) /\ rows' \in [Rows -> Statuses]
       /\ \A r \in Rows : /\ Settled(rows'[r]) => Settled(rows[r])
                          /\ rows'[r] = "none" <=> rows[r] = "none"
       /\ Ledger(Q, T, rows', Queued(stored'), inbox \cup ToSet(toPeer'), deleted, TRUE)
  <2>1. CASE w \notin Q
    <3>1. Ledger(Q, T, rows, S, inbox \cup ToSet(toPeer'), deleted, TRUE)
      <4> HIDE DEF Q, T, S
      <4> QED BY <1>6, <1>9 DEF Ledger
    <3> QED BY <1>1, <1>2, <2>1, <3>1 DEF ChatTypeOK
  <2>2. CASE w \in Q
    <3>1. chat.outbox # <<>>
      BY <2>2, EmptyQueue
    <3>2. stored' = chat.outbox /\ Queued(stored') = Q /\ stored' \in Seq(Entries)
      BY <1>1, <1>2, <1>3, <2>2, <3>1 DEF PersistedBy, InstanceOK
    <3>3. rows \in [Rows -> Statuses] /\ Row(w) \in Rows
      BY <1>1, <1>7, <2>2 DEF ChatTypeOK
    <3>4. rows[Row(w)] # "none"
      BY <1>6, <2>2 DEF Ledger
    <3>5. /\ SetStatus(rows[Row(w)], status) \in Statuses \ {"none"}
          /\ Settled(SetStatus(rows[Row(w)], status)) => Settled(rows[Row(w)])
      BY <1>4, <3>3, <3>4, SetStatusMoves DEF Statuses, Settled
    <3>6. /\ rows' \in [Rows -> Statuses]
          /\ \A r \in Rows : /\ Settled(rows'[r]) => Settled(rows[r])
                             /\ rows'[r] = "none" <=> rows[r] = "none"
                             /\ r # Row(w) => rows'[r] = rows[r]
      BY <1>2, <2>2, <3>3, <3>4, <3>5
    <3>7. Ledger(Q, T, rows', Q, inbox \cup ToSet(toPeer'), deleted, TRUE)
      <4> HIDE DEF Q, T, S
      <4>1. \A u, v \in (inbox \cup ToSet(toPeer')) \cup Q : Row(u) = Row(v) => u = v
        BY <1>6, <1>9 DEF Ledger
      <4>2. \A v \in (inbox \cup ToSet(toPeer')) \cup Q : rows'[Row(v)] # "none"
        BY <1>6, <1>7, <1>9, <3>6 DEF Ledger
      <4>3. ASSUME NEW v \in (inbox \cup ToSet(toPeer')) \cup Q
            PROVE  Row(v) \in deleted \/ Settled(rows'[Row(v)]) \/ v \in Q
        <5>1. CASE Row(v) = Row(w)
          BY <2>2, <4>1, <5>1
        <5>2. CASE Row(v) # Row(w)
          BY <1>6, <1>7, <1>9, <3>6, <5>2 DEF Ledger
        <5> QED BY <5>1, <5>2
      <4> QED BY <1>8, <4>1, <4>2, <4>3 DEF Ledger
    <3> QED BY <3>2, <3>6, <3>7
  <2> QED BY <2>1, <2>2
<1>12. ChatTypeOK' /\ ReceiptsAreTrue' /\ \A r \in deleted' : rows'[r] # "none"
  BY <1>1, <1>5, <1>10, <1>11, AuthorKeeps DEF ChatTypeOK
<1>13. CopiesInv'
  <2>1. Running' = TRUE
    BY <1>1 DEF Running
  <2> QED BY <1>1, <1>10, <1>11, <2>1 DEF CopiesInv, AtLarge, Queued, Tried, ToSet
<1>14. OpeningInv'
  BY <1>1, <1>12 DEF OpeningInv, Running
<1> QED BY <1>12, <1>13, <1>14 DEF ChatInv

-----------------------------------------------------------------------------
\* Every step of the conversation keeps the invariant.
LEMMA ChatStepHolds == ChatInv /\ [ChatNext]_chatVars => ChatInv'
<1> SUFFICES ASSUME ChatInv, [ChatNext]_chatVars  PROVE ChatInv'
  OBVIOUS
<1>1. CASE UNCHANGED chatVars
  <2>1. /\ UNCHANGED <<rows, deleted, copies, stored, session, chat, inbox, toPeer, peerChat, toAuthor>>
    BY <1>1 DEF chatVars
  <2> QED BY <2>1, ReceiverKeeps DEF ChatInv, ChatTypeOK, ReceiptsAreTrue
<1>2. CASE ChatNext
  BY <1>2, ComposeKeeps, RetryKeeps, DeleteForMeKeeps, OpenSessionKeeps, IdentifyKeeps,
     ConnectedKeeps, LinkLostKeeps, SessionEndsKeeps, ReceiveMessageKeeps,
     ReceiverStepKeeps, ReceiveReceiptKeeps, GiveUpKeeps
  DEF ChatNext
<1> QED BY <1>1, <1>2

\* The invariant of the conversation, in every reachable state.
LEMMA ChatInvHolds == ChatSpec => []ChatInv
<1>1. ChatInit => ChatInv
  BY ChatInitHolds
<1>2. ChatInv /\ [ChatNext]_chatVars => ChatInv'
  BY ChatStepHolds
<1> QED BY <1>1, <1>2, PTL DEF ChatSpec

\* StoredOnce, of chatProtocol.ts and chatCenter.ts: however often a message is
\* composed again, replayed from the stored queue or sent twice, over any number of
\* sessions and restarts, the peer's conversation shows it once.
THEOREM MessagesAreStoredOnce == ChatSpec => []StoredOnce
<1>1. ChatInv => StoredOnce
  BY DEF ChatInv, CopiesInv, Ledger, AtLarge, StoredOnce
<1> QED BY <1>1, ChatInvHolds, PTL

\* TickIsHonest, of onReceipt() and setStatus(): a row is delivered or read only when the
\* peer has stored the message.
THEOREM TicksAreHonest == ChatSpec => []TickIsHonest
<1>1. ChatInv => TickIsHonest
  BY DEF ChatInv, ReceiptsAreTrue
<1> QED BY <1>1, ChatInvHolds, PTL
=============================================================================
