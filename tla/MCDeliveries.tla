---------------------------- MODULE MCDeliveries ----------------------------
(***************************************************************************)
(* Ways of getting something to other people, for TLC: a message on a      *)
(* reliable channel, a chat message across sessions, a file across links   *)
(* and restarts, a packet and a roster across a group, a film's line to    *)
(* the other screen.  They share no state, so a behaviour follows one of   *)
(* them, drawn in the initial state, and leaves the others alone.          *)
(***************************************************************************)
EXTENDS ReliableChannel, ChatOutbox, FileTransfer, GroupMesh, WatchTogether

VARIABLE delivery    \* which of the five this behaviour follows

deliveryVars == <<vars, chatVars, fileVars, meshVars, watchVars, delivery>>

\* An outing in which nothing happens yet.
Outing(reach, founders) ==
  [links |-> reach, founders |-> founders, adds |-> 0, codes |-> 0, removals |-> 0,
   promotions |-> 0, asks |-> 0, packets |-> 0, losses |-> 0]

Seats    == {{1, 2}, {2, 3}}                \* three seats in a line
Table    == Seats \cup {{1, 3}}             \* three people in each other's reach
Visitors == Seats \cup {{2, 4}, {3, 5}}     \* the line, and two more to invite

RoomOutings ==
  { [Outing(Visitors, <<1, 2, 3>>) EXCEPT !.adds = 2],
    [Outing(Table, <<1, 2>>)       EXCEPT !.adds = 1, !.asks = 1],
    [Outing(Visitors, <<1, 2, 3>>) EXCEPT !.codes = 2, !.promotions = 1],
    [Outing(Seats, <<1, 2, 3>>)    EXCEPT !.removals = 1, !.promotions = 1, !.losses = 1],
    [Outing(Table, <<1, 2, 3>>)    EXCEPT !.packets = 2] }

DeliveriesInit ==
  /\ delivery \in {"channel", "chat", "file", "group", "film"}
  /\ Init /\ ChatInit /\ FileInit /\ MeshInit /\ WatchInit
  /\ delivery # "group" => left.packets > 0      \* one of the outings will do

ChannelStep ==
  /\ delivery = "channel" /\ Next
  /\ UNCHANGED <<chatVars, fileVars, meshVars, watchVars, delivery>>

ChatStep ==
  /\ delivery = "chat" /\ ChatNext
  /\ UNCHANGED <<vars, fileVars, meshVars, watchVars, delivery>>

FileStep ==
  /\ delivery = "file" /\ FileNext
  /\ UNCHANGED <<vars, chatVars, meshVars, watchVars, delivery>>

MeshStep ==
  /\ delivery = "group" /\ MeshNext
  /\ UNCHANGED <<vars, chatVars, fileVars, watchVars, delivery>>

WatchStep ==
  /\ delivery = "film" /\ WatchNext
  /\ UNCHANGED <<vars, chatVars, fileVars, meshVars, delivery>>

DeliveriesNext == ChannelStep \/ ChatStep \/ FileStep \/ MeshStep \/ WatchStep

\* The fairness of ReliableChannel, of its own behaviours only: an idle channel
\* acknowledges, too.
ChannelFairness ==
  /\ WF_vars(Timeout)
  /\ WF_vars(paused /\ Resume)
  /\ WF_vars(delivery = "channel" /\ PiggybackAck)
  /\ SF_vars(HandleAck)

\* None of the other fair actions is enabled in the initial state of its component,
\* so the fairness of what is not followed asks for nothing.
DeliveriesSpec ==
  /\ DeliveriesInit /\ [][DeliveriesNext]_deliveryVars
  /\ ChannelFairness /\ ChatFairness /\ FileFairness /\ MeshFairness /\ WatchFairness

-----------------------------------------------------------------------------
(***************************************************************************)
(* Whatever was set going comes to rest: a send is confirmed or given up;  *)
(* a chat message on a lasting session is delivered, failed or spent; a    *)
(* file between phones that stay together ends on both; a room's gossip    *)
(* terminates; a follower is back on the film's line.                      *)
(***************************************************************************)
EverythingSettles ==
  []<>(SendsSettled /\ ChatSettled /\ TransferEnded /\ Silent /\ LineShared)

=============================================================================
