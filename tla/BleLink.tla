------------------------------- MODULE BleLink -------------------------------
(***************************************************************************)
(* One Bluetooth link as both roles see it: the send queue of BleLink.kt   *)
(* and the L2CAP path beneath it (L2capSender in L2capChannel.kt), in      *)
(* native/airlink-transport/android.  A link is a record; what the code    *)
(* does to it in one go on the handler thread is an operator.              *)
(***************************************************************************)
EXTENDS Naturals, Sequences, SequencesExt

CONSTANTS
  MaxDatagrams,      \* bound on the datagrams the application sends
  Realtime,          \* the ones it sends as best effort
  ReliableDepth,     \* MAX_RELIABLE_QUEUE_DEPTH, 64
  RealtimeDepth      \* MAX_REALTIME_QUEUE_DEPTH, 4

Datagrams == 1..MaxDatagrams

ASSUME BleLinkAssumption ==
  /\ {MaxDatagrams, ReliableDepth, RealtimeDepth} \subseteq Nat
  /\ Realtime \subseteq Datagrams

Idle == 0            \* no datagram

(***************************************************************************)
(* outcome is what send() told its caller; a second answer is "again".     *)
(* taken is the history of what the radio really took, and writer and      *)
(* posted belong to the L2CAP path: what its writer thread holds, and the  *)
(* completions it has posted to the handler.                               *)
(***************************************************************************)
NewLink ==
  [state |-> "connecting", path |-> "none", outbound |-> <<>>, sending |-> Idle,
   outcome |-> [d \in Datagrams |-> "unsent"], taken |-> {},
   writer |-> Idle, posted |-> <<>>]

\* complete(): the promise of one send() is settled.
Answered(l, d, answer) ==
  [l EXCEPT !.outcome[d] = IF @ = "waiting" THEN answer ELSE "again"]

\* attach() and markOpen(): a link opens once, on the path it keeps.
Opened(l, path) ==
  IF l.state = "connecting" THEN [l EXCEPT !.state = "open", !.path = path] ELSE l

\* removeOldestRealtime(): where the best-effort datagrams wait.
Victims(l) == {i \in 1..Len(l.outbound) : l.outbound[i] \in Realtime}

OldestOf(positions) == CHOOSE i \in positions : \A j \in positions : i <= j

\* enqueue(): a best-effort datagram takes the place of an older one or yields to
\* a backlog that is all reliable, and is reported sent either way; a reliable one
\* is refused when the backlog is full.
Enqueued(l, d) ==
  LET w    == [l EXCEPT !.outcome[d] = "waiting"]
      full == Len(l.outbound) >= (IF d \in Realtime THEN RealtimeDepth ELSE ReliableDepth)
      v    == OldestOf(Victims(l))
  IN  CASE l.state # "open"          -> Answered(w, d, "failed")
        [] l.state = "open" /\ ~full -> [w EXCEPT !.outbound = Append(@, d)]
        [] l.state = "open" /\ full /\ d \notin Realtime -> Answered(w, d, "failed")
        [] l.state = "open" /\ full /\ d \in Realtime ->
             IF Victims(l) = {} THEN Answered(w, d, "dropped")
             ELSE [Answered(w, l.outbound[v], "dropped")
                     EXCEPT !.outbound = Append(RemoveAt(@, v), d)]

\* pump(): whether the next datagram goes to the path now, and the link once it has.
CanPump(l) == l.state = "open" /\ l.sending = Idle /\ l.outbound # <<>>
Pumped(l)  == [l EXCEPT !.sending = Head(l.outbound), !.outbound = Tail(@)]

\* The completion pump() hands to the path.
Done(l, d, answer) == Answered([l EXCEPT !.sending = Idle], d, answer)

\* close(): the backlog is failed; what the path holds is the path's to answer.
\* L2capSender.close() drains its own queue and fails what the writer has not taken.
Closed(l) ==
  IF l.state = "closed" THEN l
  ELSE [l EXCEPT !.state = "closed", !.outbound = <<>>, !.sending = Idle,
                 !.outcome = [d \in Datagrams |->
                    IF Contains(l.outbound, d) THEN "failed" ELSE @[d]]]

-----------------------------------------------------------------------------
\* L2capSender.send(): the datagram is left with the writer thread.
ChannelTakes(l) == [Pumped(l) EXCEPT !.writer = Head(l.outbound)]

\* What broke() posts to the handler, unless the path was closed first.
BreakNotice == <<Idle, "broken">>
Broke(l) == IF l.state = "open" THEN [l EXCEPT !.posted = Append(@, BreakNotice)] ELSE l

\* writeLoop(): the datagram is written and its completion posted.
Wrote(l) ==
  [l EXCEPT !.writer = Idle, !.taken = @ \cup {l.writer},
            !.posted = Append(@, <<l.writer, "sent">>)]

\* writeLoop() on an IOException, and drain() of what close() found unwritten.
NotWritten(l) ==
  Broke([l EXCEPT !.writer = Idle, !.posted = Append(@, <<l.writer, "failed">>)])

\* A posted completion runs on the handler.
RanPosted(l) == Done([l EXCEPT !.posted = Tail(@)], l.posted[1][1], l.posted[1][2])

\* Somebody will still answer for datagram d: it waits in the queue, or on the
\* L2CAP path, or its completion is posted.
LinkHolds(l, d) ==
  \/ Contains(l.outbound, d)
  \/ l.writer = d
  \/ \E i \in 1..Len(l.posted) : l.posted[i][1] = d

=============================================================================
