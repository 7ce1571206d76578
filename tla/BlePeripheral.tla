---------------------------- MODULE BlePeripheral ----------------------------
(***************************************************************************)
(* The answering side of Bluetooth on Android: one central on the GATT     *)
(* server of BleGattServer.kt, from its connection through the wait for an *)
(* L2CAP channel to the link it becomes.  Handler events and what pump()   *)
(* makes of them are one run of the handler, as in BleCentral.             *)
(*                                                                         *)
(* The central and the stack are external.  The central numbers what it    *)
(* sends us: over ATT at first, over the channel once we opened on it.     *)
(***************************************************************************)
EXTENDS BleLink

CONSTANTS
  ServerWedgedTimeouts,  \* WEDGED_OPERATION_TIMEOUTS, 2
  HoldDepth,             \* MAX_PREOPEN_INBOUND_DATAGRAMS, 16
  MaxWritten,            \* bound on what the central sends
  MaxLostAcks            \* bound on notifications the stack never acknowledges

ASSUME BlePeripheralAssumption ==
  {ServerWedgedTimeouts, HoldDepth, MaxWritten, MaxLostAcks} \subseteq Nat

VARIABLES
  psm,             \* whether the L2CAP listener published a PSM
  guest,           \* the ServerPeer, while and after peers[] has it
  served,          \* its BleLink
  received,        \* what reached the application, in order
  written,         \* how many datagrams the central has sent
  owedAcks,        \* external: notifications the stack will report
  lostAcks

peripheralVars == <<psm, guest, served, received, written, owedAcks, lostAcks>>

NewGuest ==
  [present |-> FALSE, subscribed |-> FALSE, readOurIdentity |-> FALSE, socket |-> FALSE,
   held |-> <<>>, notify |-> Idle, ghosts |-> 0, missed |-> 0,
   subscribeTimer |-> FALSE, identityGrace |-> FALSE, l2capGrace |-> FALSE,
   due |-> FALSE, wedged |-> FALSE]

PeripheralInit ==
  /\ psm \in BOOLEAN
  /\ guest = NewGuest
  /\ served = NewLink
  /\ received = <<>>
  /\ written = 0
  /\ owedAcks = <<>>
  /\ lostAcks = 0

-----------------------------------------------------------------------------
\* What the handler does in one go: the peer, its link and what the link delivers.
Server == [guest |-> guest, link |-> served, received |-> received]

\* closePeer()
ClosePeer(v) ==
  [v EXCEPT !.link = Closed(@),
            !.guest = [NewGuest EXCEPT !.notify = v.guest.notify, !.ghosts = v.guest.ghosts]]

\* Mutant of flushHeld(): what was held is forgotten when the link opens.
MutantFlushHeld(v) == [v EXCEPT !.guest.held = <<>>]

\* flushHeld()
FlushHeld(v) == [v EXCEPT !.guest.held = <<>>, !.received = @ \o v.guest.held]

\* openOverGatt() and openOverL2cap(): the timers stop, the link opens, and what was
\* held goes up first.
OpenGuest(v, path) ==
  IF v.link.state # "connecting" THEN v
  ELSE FlushHeld([v EXCEPT !.link = Opened(@, path), !.guest.socket = FALSE,
                           !.guest.subscribeTimer = FALSE, !.guest.identityGrace = FALSE,
                           !.guest.l2capGrace = FALSE])

\* awaitFastPath(): without a PSM there is nothing to wait for; with one, the wait is
\* long for a peer that knows it and short for one that may still read it.
AwaitFastPath(v) ==
  IF v.link.state # "connecting" THEN v
  ELSE IF ~psm THEN OpenGuest(v, "gatt")
  ELSE [v EXCEPT !.guest.l2capGrace = v.guest.readOurIdentity,
                 !.guest.identityGrace = ~v.guest.readOurIdentity]

Serves(v) == guest' = v.guest /\ served' = v.link /\ received' = v.received

ServerFree == ~guest.due /\ ~guest.wedged
AtServer   == ServerFree /\ guest.present

-----------------------------------------------------------------------------
\* onConnectionStateChange(STATE_CONNECTED)
CentralArrives ==
  /\ ServerFree
  /\ ~guest.present /\ served.state = "connecting"
  /\ Serves([Server EXCEPT !.guest.present = TRUE, !.guest.subscribeTimer = TRUE])
  /\ UNCHANGED <<psm, written, owedAcks, lostAcks>>

\* onDescriptorWriteRequest(), enabling.
CentralSubscribes ==
  /\ AtServer
  /\ ~guest.subscribed
  /\ LET v == [Server EXCEPT !.guest.subscribed = TRUE, !.guest.subscribeTimer = FALSE]
     IN  Serves(IF guest.socket THEN OpenGuest(v, "l2cap") ELSE AwaitFastPath(v))
  /\ UNCHANGED <<psm, written, owedAcks, lostAcks>>

\* onDescriptorWriteRequest(), disabling, once the link is open.
CentralUnsubscribes ==
  /\ AtServer
  /\ guest.subscribed /\ served.state = "open"
  /\ Serves(ClosePeer(Server))
  /\ UNCHANGED <<psm, written, owedAcks, lostAcks>>

\* onCharacteristicReadRequest(): the first read of our identity promotes the wait.
CentralReadsIdentity ==
  /\ AtServer
  /\ ~guest.readOurIdentity
  /\ LET v == [Server EXCEPT !.guest.readOurIdentity = TRUE]
     IN  Serves(IF guest.subscribed THEN AwaitFastPath(v) ELSE v)
  /\ UNCHANGED <<psm, written, owedAcks, lostAcks>>

\* onCharacteristicWriteRequest() and onExecuteWrite(): delivered, held until the
\* link opens, or, when the hold is full, what opens it.
CentralWrites ==
  /\ AtServer
  /\ served.path # "l2cap" /\ written < MaxWritten
  /\ written' = written + 1
  /\ Serves(IF served.state = "connecting" /\ Len(guest.held) < HoldDepth
            THEN [Server EXCEPT !.guest.held = Append(@, written')]
            ELSE [OpenGuest(Server, "gatt") EXCEPT !.received = Append(@, written')])
  /\ UNCHANGED <<psm, owedAcks, lostAcks>>

\* acceptL2cap(): kept until the subscription, taken, or closed because the link
\* already opened on GATT.
ChannelAccepted ==
  /\ AtServer
  /\ psm /\ guest.readOurIdentity /\ ~guest.socket
  /\ served.state = "connecting"
  /\ Serves(IF guest.subscribed THEN OpenGuest(Server, "l2cap")
            ELSE [Server EXCEPT !.guest.socket = TRUE])
  /\ UNCHANGED <<psm, written, owedAcks, lostAcks>>

\* readLoop() on the channel the link opened on.
ChannelReads ==
  /\ AtServer
  /\ served.path = "l2cap" /\ served.state = "open" /\ written < MaxWritten
  /\ written' = written + 1
  /\ Serves([Server EXCEPT !.received = Append(@, written')])
  /\ UNCHANGED <<psm, owedAcks, lostAcks>>

SubscribeTimeout ==
  /\ AtServer
  /\ guest.subscribeTimer
  /\ Serves(ClosePeer(Server))
  /\ UNCHANGED <<psm, written, owedAcks, lostAcks>>

\* identityGrace and l2capGrace: no channel came.
GraceExpires ==
  /\ AtServer
  /\ guest.identityGrace \/ guest.l2capGrace
  /\ Serves(OpenGuest(Server, "gatt"))
  /\ UNCHANGED <<psm, written, owedAcks, lostAcks>>

\* STATE_DISCONNECTED, disconnect(), and stop() or Bluetooth switched off.
GuestLeaves ==
  /\ AtServer
  /\ Serves(ClosePeer(Server))
  /\ UNCHANGED <<psm, written, owedAcks, lostAcks>>

-----------------------------------------------------------------------------
\* BleTransport.send() on the incoming link.
SendToGuest ==
  /\ ServerFree
  /\ served.state # "connecting"
  /\ \E d \in Datagrams :
       /\ served.outcome[d] = "unsent"
       /\ \A e \in 1..(d - 1) : served.outcome[e] # "unsent"
       /\ Serves([Server EXCEPT !.link = Enqueued(@, d), !.guest.due = TRUE])
  /\ UNCHANGED <<psm, written, owedAcks, lostAcks>>

\* BleLink.pump() and NotifySender.send(): the notification is taken by the stack or
\* refused; on the L2CAP path the writer has it.
PumpNotification ==
  /\ guest.due
  /\ IF ~CanPump(served)
     THEN guest' = [guest EXCEPT !.due = FALSE] /\ UNCHANGED <<served, owedAcks>>
     ELSE LET d == Head(served.outbound)
          IN  \/ /\ served.path = "l2cap"
                 /\ served' = ChannelTakes(served)
                 /\ guest' = [guest EXCEPT !.due = FALSE]
                 /\ UNCHANGED owedAcks
              \/ /\ served.path = "gatt"
                 /\ served' = Pumped(served)
                 /\ guest' = [guest EXCEPT !.due = FALSE, !.notify = d]
                 /\ owedAcks' = Append(owedAcks, d)
              \/ /\ served.path = "gatt"
                 /\ served' = Done(Pumped(served), d, "failed")
                 /\ UNCHANGED <<guest, owedAcks>>
  /\ UNCHANGED <<psm, received, written, lostAcks>>

\* Mutant of onNotificationSent(): the ghost is not asked first.
MutantClaimedByGhost == FALSE

\* abandonedNotifications: the acknowledgement belongs to one already given up.
ClaimedByGhost == guest.ghosts > 0

\* onNotificationSent()
NotificationSent ==
  /\ ServerFree
  /\ owedAcks # <<>>
  /\ owedAcks' = Tail(owedAcks)
  /\ \E ok \in BOOLEAN :
       LET d == Head(owedAcks)
           v == [Server EXCEPT !.link.taken = IF ok THEN @ \cup {d} ELSE @]
       IN  Serves(CASE ~guest.present -> v
                    [] guest.present /\ ClaimedByGhost -> [v EXCEPT !.guest.ghosts = @ - 1]
                    [] guest.present /\ ~ClaimedByGhost /\ guest.notify = Idle ->
                         [v EXCEPT !.guest.missed = 0]
                    [] guest.present /\ ~ClaimedByGhost /\ guest.notify # Idle ->
                         [v EXCEPT !.guest.missed = 0, !.guest.notify = Idle, !.guest.due = TRUE,
                                   !.link = Done(@, guest.notify, IF ok THEN "sent" ELSE "failed")])
  /\ UNCHANGED <<psm, written, lostAcks>>

\* The stack loses the acknowledgement.
AckLost ==
  /\ owedAcks # <<>> /\ lostAcks < MaxLostAcks
  /\ owedAcks' = Tail(owedAcks)
  /\ lostAcks' = lostAcks + 1
  /\ UNCHANGED <<psm, guest, served, received, written>>

\* notifyTimeout: given up, leaving a ghost; the link goes on to its next datagram
\* before two in a row close the peer.
NotifyTimeout ==
  /\ AtServer
  /\ guest.notify # Idle
  /\ Serves([Server EXCEPT !.guest.notify = Idle, !.guest.ghosts = @ + 1,
                           !.guest.missed = @ + 1, !.guest.due = TRUE,
                           !.guest.wedged = guest.missed + 1 >= ServerWedgedTimeouts,
                           !.link = Done(@, guest.notify, "failed")])
  /\ UNCHANGED <<psm, written, owedAcks, lostAcks>>

GuestWedged ==
  /\ guest.wedged /\ ~guest.due
  /\ Serves(ClosePeer(Server))
  /\ UNCHANGED <<psm, written, owedAcks, lostAcks>>

\* The threads of the L2CAP path, and what they post.
ServerWrites ==
  /\ served.writer # Idle
  /\ \/ served.state = "open" /\ served' = Wrote(served)
     \/ served' = NotWritten(served)
  /\ UNCHANGED <<psm, guest, received, written, owedAcks, lostAcks>>

ServerReaderBreaks ==
  /\ served.path = "l2cap" /\ served.state = "open"
  /\ ~Contains(served.posted, BreakNotice)
  /\ served' = Broke(served)
  /\ UNCHANGED <<psm, guest, received, written, owedAcks, lostAcks>>

ServerRunsPosted ==
  /\ ServerFree
  /\ served.posted # <<>>
  /\ Serves(IF Head(served.posted) = BreakNotice
            THEN ClosePeer([Server EXCEPT !.link.posted = Tail(@)])
            ELSE [Server EXCEPT !.link = RanPosted(@), !.guest.due = TRUE])
  /\ UNCHANGED <<psm, written, owedAcks, lostAcks>>

PeripheralNext ==
  \/ CentralArrives \/ CentralSubscribes \/ CentralUnsubscribes \/ CentralReadsIdentity
  \/ CentralWrites \/ ChannelAccepted \/ ChannelReads \/ SubscribeTimeout \/ GraceExpires
  \/ GuestLeaves \/ SendToGuest \/ PumpNotification \/ NotificationSent \/ AckLost
  \/ NotifyTimeout \/ GuestWedged \/ ServerWrites \/ ServerReaderBreaks \/ ServerRunsPosted

PeripheralSpec == PeripheralInit /\ [][PeripheralNext]_peripheralVars

\* The handler's timers fire and what is due runs.
PeripheralFairness ==
  /\ WF_peripheralVars(PumpNotification) /\ WF_peripheralVars(GuestWedged)
  /\ WF_peripheralVars(SubscribeTimeout) /\ WF_peripheralVars(GraceExpires)
  /\ WF_peripheralVars(NotifyTimeout)
  /\ WF_peripheralVars(ServerWrites) /\ WF_peripheralVars(ServerRunsPosted)

FairPeripheralSpec == PeripheralSpec /\ PeripheralFairness

-----------------------------------------------------------------------------
(***************************************************************************)
(* A notification is reported sent only when the stack acknowledged that   *)
(* very one, and what was dropped in silence was best effort.              *)
(***************************************************************************)
ServedSentIsTaken ==
  \A d \in Datagrams :
    /\ served.outcome[d] = "sent" => d \in served.taken
    /\ served.outcome[d] = "dropped" => d \in Realtime
    /\ served.outcome[d] # "again"

(***************************************************************************)
(* "HELD, NOT DROPPED": while the link lives, everything the central has   *)
(* sent, before it opened or after, over ATT or the channel, has been      *)
(* delivered once and in order or is held to be.                           *)
(***************************************************************************)
HeldNotDropped ==
  served.state # "closed" => received \o guest.held = [i \in 1..written |-> i]

\* No connection sits on a controller slot undecided.
GuestSettled == ~(guest.present /\ served.state = "connecting")

=============================================================================
