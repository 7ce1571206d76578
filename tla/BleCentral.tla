----------------------------- MODULE BleCentral -----------------------------
(***************************************************************************)
(* The dialling side of Bluetooth on Android: CentralConnection.kt, the    *)
(* GattOperationQueue.kt beneath it and the calls of BleTransport.kt that  *)
(* reach it.  Everything runs on one handler thread; a call to pump() that *)
(* is due (ops.due) comes before any other event, so one event and the     *)
(* pumps it causes make one run of the handler.                            *)
(*                                                                         *)
(* The Android stack is external: it takes an operation, calls it busy or  *)
(* refuses it; the callback it owes comes in order, late, or never.        *)
(***************************************************************************)
EXTENDS BleLink

CONSTANTS
  WedgedTimeouts,    \* WEDGED_OPERATION_TIMEOUTS, 2
  BusyRetries,       \* BUSY_RETRY_ATTEMPTS, 5
  MaxSilence,        \* bound on callbacks the stack never makes
  MaxRssiReads,      \* bound on metrics polls that read the RSSI
  MaxStops           \* bound on stop()

ASSUME BleCentralAssumption ==
  {WedgedTimeouts, BusyRetries, MaxSilence, MaxRssiReads, MaxStops} \subseteq Nat

VARIABLES
  conn,              \* the CentralConnection: its flags and timers, and connect()'s answer
  ops,               \* its GattOperationQueue
  dialled,           \* its BleLink
  stack,             \* external: the stack's side of the connection, and the callbacks it owes
  silences, rssiReads, stops

centralVars == <<conn, ops, dialled, stack, silences, rssiReads, stops>>

Op(kind, d) == [kind |-> kind, datagram |-> d]
NoOp  == Op("none", Idle)
Kinds == {"discover", "mtu", "identity", "subscribe", "write", "rssi"}

\* gatt: the client interface is held; filed: connections[] has the connection.
NoConnection ==
  [gatt |-> FALSE, filed |-> FALSE, settled |-> TRUE, tornDown |-> TRUE,
   connectTimer |-> FALSE, watchdog |-> FALSE, psm |-> FALSE, dialling |-> FALSE,
   answer |-> "none"]

NoOps ==
  [pending |-> <<>>, inFlight |-> NoOp, ghosts |-> [k \in Kinds |-> 0], missed |-> 0,
   shut |-> TRUE, busy |-> 0, retry |-> FALSE, due |-> FALSE, wedged |-> FALSE]

CentralInit ==
  /\ conn = NoConnection
  /\ ops = NoOps
  /\ dialled = NewLink
  /\ stack = [link |-> "down", owed |-> <<>>]
  /\ silences = 0
  /\ rssiReads = 0
  /\ stops = 0

-----------------------------------------------------------------------------
(***************************************************************************)
(* What the handler does in one go, on the triple of connection, queue and *)
(* link.                                                                   *)
(***************************************************************************)
Central == [conn |-> conn, ops |-> ops, link |-> dialled]

\* submit(): queued, and pump() called.
Submit(c, op) ==
  [c EXCEPT !.ops.pending = Append(@, op), !.ops.due = TRUE]

\* A link whose GATT path is aborted: everybody who waits is told.
Drained(l) ==
  [l EXCEPT !.outbound = <<>>, !.sending = Idle,
            !.outcome = [d \in Datagrams |->
               IF l.outcome[d] = "waiting" THEN "failed" ELSE l.outcome[d]]]

\* abort(): everything in flight or queued fails, and so does, one by one, what the
\* link would send next.
AbortOps(c) ==
  [c EXCEPT !.ops = NoOps,
            !.link = IF c.link.path = "gatt" THEN Drained(c.link) ELSE c.link]

\* retire(): the connection is forgotten.
Retire(c) == [c EXCEPT !.conn.filed = FALSE]

\* finishWithFailure(): connect() is told, once.
FinishWithFailure(c) ==
  IF c.conn.settled THEN c
  ELSE [c EXCEPT !.conn.settled = TRUE, !.conn.connectTimer = FALSE, !.conn.answer = "failed"]

\* Mutant of teardown(): disconnect() is trusted to be answered.
MutantTeardown(c) ==
  IF c.conn.tornDown THEN c
  ELSE [FinishWithFailure(AbortOps(c)) EXCEPT !.conn.tornDown = TRUE,
          !.conn.connectTimer = FALSE, !.link = Closed(@), !.conn.filed = c.conn.gatt]

\* teardown()
Teardown(c) ==
  LET ended  == FinishWithFailure(AbortOps([c EXCEPT !.conn.tornDown = TRUE,
                                                     !.conn.connectTimer = FALSE]))
      closed == [ended EXCEPT !.link = Closed(@)]
  IN  IF c.conn.tornDown THEN c
      ELSE IF c.conn.gatt THEN [closed EXCEPT !.conn.watchdog = TRUE]
      ELSE Retire(closed)

\* releaseGatt(): the client interface goes back to the controller.
ReleaseGatt(c) == Retire([c EXCEPT !.conn.gatt = FALSE, !.conn.watchdog = FALSE])

\* BleLink.pump() over the path the link has.
PumpLink(c) ==
  IF ~CanPump(c.link) THEN c
  ELSE IF c.link.path = "l2cap" THEN [c EXCEPT !.link = ChannelTakes(@)]
  ELSE Submit([c EXCEPT !.link = Pumped(@)], Op("write", Head(c.link.outbound)))

\* open(), over GATT or over the L2CAP channel.
OpenOver(c, path) ==
  IF c.conn.settled THEN c
  ELSE [c EXCEPT !.conn.settled = TRUE, !.conn.connectTimer = FALSE,
                 !.conn.answer = "opened", !.link = Opened(@, path)]

\* onResult of each operation: the connection sequence, and the link's writes.  A
\* refused MTU is slow but not fatal and an unread identity means no PSM.
OnResult(c, op, ok, psm) ==
  CASE op.kind = "discover"  -> IF ok THEN Submit(c, Op("mtu", Idle)) ELSE Teardown(c)
    [] op.kind = "mtu"       -> Submit(c, Op("identity", Idle))
    [] op.kind = "identity"  -> Submit([c EXCEPT !.conn.psm = ok /\ psm], Op("subscribe", Idle))
    [] op.kind = "subscribe" -> IF ~ok THEN Teardown(c)
                                ELSE IF c.conn.psm THEN [c EXCEPT !.conn.dialling = TRUE]
                                ELSE OpenOver(c, "gatt")
    [] op.kind = "write"     -> PumpLink([c EXCEPT !.link = Done(@, op.datagram,
                                                   IF ok THEN "sent" ELSE "failed")])
    [] op.kind = "rssi"      -> c

Turns(c) == conn' = c.conn /\ ops' = c.ops /\ dialled' = c.link

\* The handler is alive and free for the next event.
HandlerFree == stops = 0 /\ ~ops.due /\ ~ops.wedged

-----------------------------------------------------------------------------
\* BleTransport.connect(): the connection is filed under its address before it starts.
DialledAnew ==
  [conn |-> [NoConnection EXCEPT !.filed = TRUE, !.settled = FALSE, !.tornDown = FALSE],
   ops  |-> NoOps,
   link |-> NewLink]

\* start(), the one dial of a behaviour: connectGatt() may return null.
ConnectGatt ==
  /\ HandlerFree
  /\ conn = NoConnection
  /\ \/ /\ Turns([DialledAnew EXCEPT !.conn.gatt = TRUE, !.conn.connectTimer = TRUE,
                                     !.ops.shut = FALSE])
        /\ stack' = [stack EXCEPT !.link = "connecting"]
     \/ /\ Turns(Retire(FinishWithFailure([DialledAnew EXCEPT !.link = Closed(@)])))
        /\ UNCHANGED stack
  /\ UNCHANGED <<silences, rssiReads, stops>>

\* onConnectionStateChange(STATE_CONNECTED): onConnected(), or a failed attempt.
StackConnects ==
  /\ HandlerFree
  /\ stack.link = "connecting"
  /\ \/ /\ stack' = [stack EXCEPT !.link = "up"]
        /\ Turns(IF ops.shut THEN Central ELSE Submit(Central, Op("discover", Idle)))
     \/ stack' = [stack EXCEPT !.link = "down"] /\ Turns(Teardown(Central))
  /\ UNCHANGED <<silences, rssiReads, stops>>

\* onConnectionStateChange(STATE_DISCONNECTED), by the peer, by distance, or because
\* teardown() asked for it.
StackDisconnects ==
  /\ HandlerFree
  /\ conn.gatt
  /\ stack' = [link |-> "down", owed |-> <<>>]
  /\ Turns(ReleaseGatt(Teardown(Central)))
  /\ UNCHANGED <<silences, rssiReads, stops>>

\* pump() when the stack stays busy: back to the front, to be tried again, until
\* the attempts are spent.
StillBusy(c) ==
  LET op == c.ops.inFlight
      again == [c EXCEPT !.ops.inFlight = NoOp, !.ops.busy = @ + 1]
  IN  IF c.ops.busy >= BusyRetries
      THEN OnResult([again EXCEPT !.ops.busy = 0, !.ops.due = TRUE], op, FALSE, FALSE)
      ELSE [again EXCEPT !.ops.pending = <<op>> \o @, !.ops.retry = TRUE]

\* pump(): issues the next operation, if the slot is free.
Pump ==
  /\ stops = 0
  /\ ops.due
  /\ IF ops.shut \/ ops.inFlight # NoOp \/ ops.pending = <<>>
     THEN ops' = [ops EXCEPT !.due = FALSE] /\ UNCHANGED <<conn, dialled, stack>>
     ELSE LET op == Head(ops.pending)
              c  == [Central EXCEPT !.ops.due = FALSE, !.ops.pending = Tail(@),
                                    !.ops.inFlight = op]
          IN  \/ /\ Turns([c EXCEPT !.ops.busy = 0])
                 /\ stack' = [stack EXCEPT !.owed = Append(@, op)]
              \/ Turns(StillBusy(c)) /\ UNCHANGED stack
              \/ /\ Turns(OnResult([c EXCEPT !.ops.inFlight = NoOp, !.ops.busy = 0,
                                               !.ops.due = TRUE], op, FALSE, FALSE))
                 /\ UNCHANGED stack
  /\ UNCHANGED <<silences, rssiReads, stops>>

\* The delayed pump() of a busy operation.
RetryPump ==
  /\ HandlerFree
  /\ ops.retry
  /\ ops' = [ops EXCEPT !.retry = FALSE, !.due = TRUE]
  /\ UNCHANGED <<conn, dialled, stack, silences, rssiReads, stops>>

\* abandoned[kind]: callbacks still owed for operations given up.
GhostOf(kind) == ops.ghosts[kind]

\* complete(): a callback is claimed by its ghost, ignored as a stray, or completes
\* the operation in flight.
Complete(c, kind, ok, psm) ==
  CASE GhostOf(kind) > 0 -> [c EXCEPT !.ops.ghosts[kind] = @ - 1]
    [] GhostOf(kind) = 0 /\ c.ops.inFlight.kind # kind -> c
    [] GhostOf(kind) = 0 /\ c.ops.inFlight.kind = kind ->
         OnResult([c EXCEPT !.ops.inFlight = NoOp, !.ops.missed = 0, !.ops.due = TRUE],
                  c.ops.inFlight, ok, psm)

\* A callback of the stack, posted to the handler.  A write it reports in order is
\* a datagram the radio took.
StackCallsBack ==
  /\ HandlerFree
  /\ stack.owed # <<>>
  /\ LET op == Head(stack.owed)
     IN  \E ok, psm \in BOOLEAN :
           /\ psm => ok /\ op.kind = "identity"
           /\ Turns(Complete([Central EXCEPT !.link.taken =
                         IF ok /\ op.kind = "write" THEN @ \cup {op.datagram} ELSE @],
                       op.kind, ok, psm))
           /\ stack' = [stack EXCEPT !.owed = Tail(@)]
  /\ UNCHANGED <<silences, rssiReads, stops>>

\* onMtuChanged() for an exchange the peer started.
PeerChangesMtu ==
  /\ HandlerFree
  /\ stack.link = "up"
  /\ ops.inFlight.kind = "mtu" \/ GhostOf("mtu") > 0
  /\ Turns(Complete(Central, "mtu", TRUE, FALSE))
  /\ UNCHANGED <<stack, silences, rssiReads, stops>>

\* The stack loses an operation, or the peer walks away: the callback never comes.
StackStaysSilent ==
  /\ stack.owed # <<>>
  /\ silences < MaxSilence
  /\ silences' = silences + 1
  /\ stack' = [stack EXCEPT !.owed = Tail(@)]
  /\ UNCHANGED <<conn, ops, dialled, rssiReads, stops>>

\* onTimeout(): the operation is given up and leaves a ghost; two in a row and the
\* connection is wedged.
OpTimeout ==
  /\ HandlerFree
  /\ ops.inFlight # NoOp
  /\ LET op     == ops.inFlight
         missed == ops.missed + 1
         c      == OnResult([Central EXCEPT !.ops.inFlight = NoOp, !.ops.missed = missed,
                                            !.ops.ghosts[op.kind] = @ + 1],
                            op, FALSE, FALSE)
     IN  Turns(IF c.ops.shut THEN c
                 ELSE IF missed >= WedgedTimeouts THEN [c EXCEPT !.ops.wedged = TRUE]
                 ELSE [c EXCEPT !.ops.due = TRUE])
  /\ UNCHANGED <<stack, silences, rssiReads, stops>>

\* onTimeout(), its end on a wedged connection: abort() and onWedged().
Wedged ==
  /\ stops = 0
  /\ ops.wedged /\ ~ops.due
  /\ Turns(Teardown(AbortOps(Central)))
  /\ UNCHANGED <<stack, silences, rssiReads, stops>>

ConnectTimeout ==
  /\ HandlerFree
  /\ conn.connectTimer
  /\ Turns(Teardown(FinishWithFailure(Central)))
  /\ UNCHANGED <<stack, silences, rssiReads, stops>>

\* closeWatchdog: disconnect() got no answer.
CloseWatchdog ==
  /\ HandlerFree
  /\ conn.watchdog
  /\ Turns(ReleaseGatt(Central))
  /\ stack' = [link |-> "down", owed |-> <<>>]
  /\ UNCHANGED <<silences, rssiReads, stops>>

\* tryL2capUpgrade(): the channel opens, or does not take (refused, or its 2.5 s are
\* over), and a channel nobody waits for any more is closed.
L2capResult ==
  /\ HandlerFree
  /\ conn.dialling
  /\ \E path \in {"l2cap", "gatt"} :
       LET c == [Central EXCEPT !.conn.dialling = FALSE]
       IN  Turns(IF conn.settled THEN c ELSE OpenOver(c, path))
  /\ UNCHANGED <<stack, silences, rssiReads, stops>>

\* writeLoop() and readLoop() of the L2CAP path, on threads of their own.
WriterWrites ==
  /\ dialled.writer # Idle
  /\ \/ dialled.state = "open" /\ dialled' = Wrote(dialled)
     \/ dialled' = NotWritten(dialled)
  /\ UNCHANGED <<conn, ops, stack, silences, rssiReads, stops>>

ReaderBreaks ==
  /\ dialled.path = "l2cap" /\ dialled.state = "open"
  /\ ~Contains(dialled.posted, BreakNotice)
  /\ dialled' = Broke(dialled)
  /\ UNCHANGED <<conn, ops, stack, silences, rssiReads, stops>>

\* What those threads posted runs on the handler: a completion, or onBroken().
RunPosted ==
  /\ HandlerFree
  /\ dialled.posted # <<>>
  /\ Turns(IF Head(dialled.posted) = BreakNotice
             THEN Teardown([Central EXCEPT !.link.posted = Tail(@)])
             ELSE PumpLink([Central EXCEPT !.link = RanPosted(@)]))
  /\ UNCHANGED <<stack, silences, rssiReads, stops>>

-----------------------------------------------------------------------------
\* BleTransport.send(): in order, each datagram once.
SendDatagram ==
  /\ HandlerFree
  /\ conn.answer = "opened"
  /\ \E d \in Datagrams :
       /\ dialled.outcome[d] = "unsent"
       /\ \A e \in 1..(d - 1) : dialled.outcome[e] # "unsent"
       /\ Turns(PumpLink([Central EXCEPT !.link = Enqueued(@, d)]))
  /\ UNCHANGED <<stack, silences, rssiReads, stops>>

\* metrics(), refreshRssi(): never while there is traffic waiting.
RefreshRssi ==
  /\ HandlerFree
  /\ conn.gatt /\ dialled.state = "open"
  /\ ops.pending = <<>> /\ ops.inFlight = NoOp
  /\ rssiReads < MaxRssiReads
  /\ rssiReads' = rssiReads + 1
  /\ Turns(Submit(Central, Op("rssi", Idle)))
  /\ UNCHANGED <<stack, silences, stops>>

\* disconnect(), and onAdapterState() when Bluetooth is switched off.
DisconnectDialled ==
  /\ HandlerFree
  /\ conn.filed /\ ~conn.tornDown
  /\ Turns(Teardown(Central))
  /\ UNCHANGED <<stack, silences, rssiReads, stops>>

\* stop(): the connection is torn down, forgotten, and the handler thread ends.
StopTransport ==
  /\ HandlerFree
  /\ stops < MaxStops
  /\ stops' = stops + 1
  /\ Turns(Retire(Teardown(Central)))
  /\ UNCHANGED <<stack, silences, rssiReads>>

CentralNext ==
  \/ ConnectGatt \/ StackConnects \/ StackDisconnects \/ Pump \/ RetryPump
  \/ StackCallsBack \/ PeerChangesMtu \/ StackStaysSilent \/ OpTimeout \/ Wedged
  \/ ConnectTimeout \/ CloseWatchdog \/ L2capResult
  \/ WriterWrites \/ ReaderBreaks \/ RunPosted
  \/ SendDatagram \/ RefreshRssi \/ DisconnectDialled \/ StopTransport

CentralSpec == CentralInit /\ [][CentralNext]_centralVars

\* The handler runs what is due, its timers fire, and the writer thread runs.
CentralFairness ==
  /\ WF_centralVars(Pump) /\ WF_centralVars(RetryPump) /\ WF_centralVars(Wedged)
  /\ WF_centralVars(OpTimeout) /\ WF_centralVars(ConnectTimeout)
  /\ WF_centralVars(CloseWatchdog) /\ WF_centralVars(L2capResult)
  /\ WF_centralVars(WriterWrites) /\ WF_centralVars(RunPosted)

FairCentralSpec == CentralSpec /\ CentralFairness

-----------------------------------------------------------------------------
(***************************************************************************)
(* "Loss is signalled, never silent": send() reports a datagram as sent    *)
(* only when the radio took that very datagram, never on the strength of   *)
(* another one's late callback, reports only best-effort datagrams as sent *)
(* that it dropped, and answers nobody twice.                              *)
(***************************************************************************)
DialledSentIsTaken ==
  \A d \in Datagrams :
    /\ dialled.outcome[d] = "sent" => d \in dialled.taken
    /\ dialled.outcome[d] = "dropped" => d \in Realtime
    /\ dialled.outcome[d] # "again"

(***************************************************************************)
(* Whoever waits for a send() is waited on: its datagram is in the queue,  *)
(* in the operation queue or with the L2CAP writer, whatever was torn down *)
(* in between.                                                             *)
(***************************************************************************)
DialledSendsAreHeld ==
  \A d \in Datagrams : dialled.outcome[d] = "waiting" =>
    \/ LinkHolds(dialled, d)
    \/ ops.inFlight = Op("write", d)
    \/ Contains(ops.pending, Op("write", d))

\* Nobody waits for connect() or send() and no client interface is held in vain.
\* stop() ends the handler and with it what the last two wait for.
DialSettled ==
  /\ conn.settled
  /\ stops > 0 \/ (conn.tornDown => ~conn.gatt)
  /\ stops > 0 \/ \A d \in Datagrams : dialled.outcome[d] # "waiting"

=============================================================================
