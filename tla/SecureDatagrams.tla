--------------------------- MODULE SecureDatagrams ---------------------------
(***************************************************************************)
(* How the frames of a session cross a link: sealed under a counter and    *)
(* queued by packages/core/src/session/peerSession.ts, cut into fragments  *)
(* and put together again by protocol/frame.ts, opened once by             *)
(* crypto/session.ts and the sliding window of crypto/replay.ts.           *)
(*                                                                         *)
(* The link keeps the order of datagrams, but loses and repeats them.      *)
(* Encryption is ideal: a frame is its counter, and what is put together   *)
(* from the fragments of one frame is that frame.  Packet ids are taken as *)
(* fresh: 2^16 of them outlast the thirty seconds an entry is kept.        *)
(***************************************************************************)
EXTENDS Naturals, Sequences, SequencesExt, FiniteSets

CONSTANTS
  WindowSize,    \* replayWindowSize
  Slots,         \* FRAGMENT_REASSEMBLY_SLOTS
  Fragments,     \* datagrams that a frame of the reliable channels takes
  MaxQueued,     \* bound on the frames waiting for the link at a time
  MaxFrames,     \* bound on frames sealed
  MaxRepeats,    \* bound on datagrams delivered twice
  MaxLosses      \* bound on datagrams lost

ASSUME DatagramAssumption ==
  /\ {WindowSize, Slots, Fragments} \subseteq Nat \ {0}
  /\ {MaxQueued, MaxFrames, MaxRepeats, MaxLosses} \subseteq Nat

VARIABLES
  sendCounter, \* of the next frame
  writeChain,  \* frames waiting to be written, each with its next fragment
  wire,        \* datagrams on the link
  inflight,    \* the reassembler's entries, oldest first
  window,      \* the replay window: the highest counter and the bit of each residue
  opened,      \* how often each frame was opened
  arrived,     \* history: the datagrams pushed on the link in use
  repeats, losses

datagramVars == <<sendCounter, writeChain, wire, inflight, window, opened, arrived,
                  repeats, losses>>

Counters == 0..(MaxFrames - 1)

DatagramInit ==
  /\ sendCounter = 0
  /\ writeChain = <<>>
  /\ wire = <<>>
  /\ inflight = <<>>
  /\ window = [seenAny |-> FALSE, highest |-> 0, bits |-> {}]
  /\ opened = [c \in Counters |-> 0]
  /\ arrived = {}
  /\ repeats = 0
  /\ losses = 0

-----------------------------------------------------------------------------
(* Sending. *)

\* writeEnvelope() on a reliable channel: sealed now, written when its turn comes.
WriteReliable ==
  /\ sendCounter < MaxFrames /\ Len(writeChain) < MaxQueued
  /\ writeChain' = Append(writeChain, [frame |-> sendCounter, next |-> 1])
  /\ sendCounter' = sendCounter + 1
  /\ UNCHANGED <<wire, inflight, window, opened, arrived, repeats, losses>>

\* writeEnvelope() on the realtime channel: one datagram, past everything queued.
WriteRealtime ==
  /\ sendCounter < MaxFrames /\ Len(wire) < MaxQueued * Fragments
  /\ wire' = Append(wire, [frame |-> sendCounter, index |-> 1, count |-> 1])
  /\ sendCounter' = sendCounter + 1
  /\ UNCHANGED <<writeChain, inflight, window, opened, arrived, repeats, losses>>

\* Mutant of enqueueWrite(): each frame is written at once, their fragments mixed.
MutantTurn(k) == TRUE

\* enqueueWrite(): one frame at a time.
Turn(k) == k = 1

\* writeFrame(): each fragment waits for the link.
WriteFragment ==
  /\ Len(wire) < MaxQueued * Fragments
  /\ \E k \in DOMAIN writeChain :
       /\ Turn(k)
       /\ LET task == writeChain[k] IN
            /\ wire' = Append(wire, [frame |-> task.frame, index |-> task.next, count |-> Fragments])
            /\ writeChain' = IF task.next = Fragments THEN RemoveAt(writeChain, k)
                             ELSE [writeChain EXCEPT ![k].next = @ + 1]
  /\ UNCHANGED <<sendCounter, inflight, window, opened, arrived, repeats, losses>>

-----------------------------------------------------------------------------
(* The link. *)

Lose ==
  /\ losses < MaxLosses
  /\ \E k \in DOMAIN wire : wire' = RemoveAt(wire, k)
  /\ losses' = losses + 1
  /\ UNCHANGED <<sendCounter, writeChain, inflight, window, opened, arrived, repeats>>

-----------------------------------------------------------------------------
(* Receiving. *)

Bit(counter) == counter % WindowSize

\* isReplay()
IsReplay(w, counter) ==
  /\ w.seenAny
  /\ counter <= w.highest
  /\ counter + WindowSize <= w.highest \/ Bit(counter) \in w.bits

\* Mutant of accept(): the bits that come into the window keep their old value.
MutantSlid(w, counter) ==
  IF counter >= w.highest + WindowSize THEN {} ELSE w.bits

\* accept(): the bits of the counters that come into the window are cleared, all of
\* them when it moves by its width.
Slid(w, counter) ==
  IF counter >= w.highest + WindowSize THEN {}
  ELSE w.bits \ {Bit(s) : s \in (w.highest + 1)..counter}

Accept(w, counter) ==
  IF ~w.seenAny THEN [seenAny |-> TRUE, highest |-> counter, bits |-> {Bit(counter)}]
  ELSE IF counter > w.highest
  THEN [w EXCEPT !.highest = counter, !.bits = Slid(w, counter) \union {Bit(counter)}]
  ELSE [w EXCEPT !.bits = @ \union {Bit(counter)}]

\* handleSecureFrame() and open(): a replay is dropped.
Open(counter) ==
  IF IsReplay(window, counter)
  THEN UNCHANGED <<window, opened>>
  ELSE /\ window' = Accept(window, counter)
       /\ opened' = [opened EXCEPT ![counter] = @ + 1]

\* push(): the entry of the frame, made at the cost of the oldest when all are taken.
WithEntry(frame) ==
  IF \E k \in DOMAIN inflight : inflight[k].frame = frame THEN inflight
  ELSE Append(IF Len(inflight) >= Slots THEN Tail(inflight) ELSE inflight,
              [frame |-> frame, parts |-> {}])

\* handleDatagram(): a fragment waits for the others, a whole frame is opened.
Handle(d) ==
  IF d.count = 1
  THEN Open(d.frame) /\ UNCHANGED inflight
  ELSE LET entries == WithEntry(d.frame)
           k       == CHOOSE j \in DOMAIN entries : entries[j].frame = d.frame
           parts   == entries[k].parts \union {d.index}
       IN  IF Cardinality(parts) = d.count
           THEN inflight' = RemoveAt(entries, k) /\ Open(d.frame)
           ELSE inflight' = [entries EXCEPT ![k].parts = parts] /\ UNCHANGED <<window, opened>>

Deliver ==
  /\ wire # <<>>
  /\ Handle(Head(wire))
  /\ arrived' = arrived \union {Head(wire)}
  /\ \/ wire' = Tail(wire) /\ UNCHANGED repeats
     \/ /\ repeats < MaxRepeats /\ repeats' = repeats + 1
        /\ \E k \in 1..Len(wire) : wire' = InsertAt(Tail(wire), k, Head(wire))
  /\ UNCHANGED <<sendCounter, writeChain, losses>>

\* expire(): the oldest entry has waited for thirty seconds.
Expire ==
  /\ inflight # <<>> /\ wire = <<>>
  /\ inflight' = Tail(inflight)
  /\ arrived' = {d \in arrived : d.frame # Head(inflight).frame}
  /\ UNCHANGED <<sendCounter, writeChain, wire, window, opened, repeats, losses>>

\* migrateToLink(): what is on the old link is not heard any more, and the
\* reassembler starts again.
Migrate ==
  /\ wire # <<>> /\ losses < MaxLosses
  /\ losses' = losses + 1
  /\ wire' = <<>>
  /\ inflight' = <<>>
  /\ arrived' = {}
  /\ UNCHANGED <<sendCounter, writeChain, window, opened, repeats>>

-----------------------------------------------------------------------------
DatagramNext ==
  \/ WriteReliable
  \/ WriteRealtime
  \/ WriteFragment
  \/ Lose
  \/ Deliver
  \/ Expire
  \/ Migrate

DatagramSpec == DatagramInit /\ [][DatagramNext]_datagramVars

-----------------------------------------------------------------------------
(* Correctness. *)

\* The bits of the window are exact, however it slid: within its width of the highest
\* counter, a frame is taken for a replay when it was opened and only then.  So no
\* frame is opened twice, and none that is fresh is refused.
WindowIsExact ==
  /\ \A c \in Counters : opened[c] <= 1
  /\ \A c \in Counters : c <= window.highest /\ window.highest < c + WindowSize
                           => (IsReplay(window, c) <=> opened[c] = 1)

\* A frame whose datagrams have all arrived has been opened or was too old: the
\* entries lost to the bound never belong to a frame that could still be completed.
WholeIsOpened ==
  \A c \in Counters :
    (\E n \in {1, Fragments} : \A i \in 1..n : [frame |-> c, index |-> i, count |-> n] \in arrived)
      => opened[c] = 1 \/ c + WindowSize <= window.highest

=============================================================================
