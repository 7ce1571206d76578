----------------------------- MODULE SasPairing -----------------------------
(***************************************************************************)
(* packages/core/src/pairing/sasPairing.ts and pairingController.ts: the   *)
(* six-digit ceremony between two phones that have just authenticated, and *)
(* what it does to their sessions and friend lists.  Decisions cross on    *)
(* the session's control channel, which retries nothing, so the ceremony   *)
(* repeats itself; either user may decline, walk away, block the other or  *)
(* hang up.                                                                *)
(***************************************************************************)
EXTENDS Naturals, FiniteSets

CONSTANTS
  MaxResends,        \* maxResends (24)
  InitialAckBudget,  \* initialAckBudget (50)
  MaxResumes,        \* MAX_RETRANSMISSION_RESUMES (8)
  MaxLosses,         \* bound: messages the radio loses
  MaxMigrations      \* bound: times a phone's session moves to a new link

ASSUME BudgetsAssumption ==
  /\ MaxResends \in Nat
  /\ InitialAckBudget \in Nat
  /\ MaxResumes \in Nat
  /\ MaxLosses \in Nat
  /\ MaxMigrations \in Nat

Phones == {"A", "B"}

VARIABLES
  recognised,    \* phones whose trust store recognised the other in the handshake
  ceremony,      \* the SasPairing object of each phone
  session,       \* "open", "closing" while close() awaits its BYE, "closed"
  confirmationPending,  \* the session waits for confirmPairing()
  friends,       \* phones that recorded the other as a friend in this ceremony
  blocked,       \* phones whose user has blocked the other
  wire,          \* messages in flight
  losses, migrations    \* bound counters

vars == <<recognised, ceremony, session, confirmationPending, friends, blocked, wire, losses,
          migrations>>

-----------------------------------------------------------------------------
Other(p) == CHOOSE q \in Phones : q # p

Decisions == {"none", "accept", "decline"}
States    == {"awaiting-both", "one-confirmed", "both-confirmed", "rejected", "timed-out"}

\* The state of a SasPairing object.
Ceremony ==
  [state : States, local : Decisions, remote : Decisions, localAcknowledged : BOOLEAN,
   resendTimer : BOOLEAN, timeoutTimer : BOOLEAN, resendsLeft : 0..MaxResends,
   ackBudget : 0..InitialAckBudget, resumesLeft : 0..MaxResumes]

\* A PAIRING_CONFIRM is named by the decision it carries.
Message == [to : Phones, kind : {"accept", "decline", "ack", "BYE"}]

To(p, kind) == [to |-> p, kind |-> kind]

IsTerminalState(state) == state \in {"both-confirmed", "rejected", "timed-out"}

\* Mutant of maybeStopTimeout(): an acknowledgement is enough.
MutantMaybeStopTimeout(c) == [c EXCEPT !.timeoutTimer = @ /\ ~c.localAcknowledged]

\* maybeStopTimeout(): the outcome is known and the peer has our decision.
MaybeStopTimeout(c) ==
  [c EXCEPT !.timeoutTimer = @ /\ ~(IsTerminalState(c.state) /\ c.localAcknowledged)]

\* moveTo().
MoveTo(c, next) ==
  LET moved == [c EXCEPT !.state = next]
  IN  IF IsTerminalState(next) THEN MaybeStopTimeout(moved) ELSE moved

\* Mutant of recompute(): one acceptance is enough.
MutantRecompute(c) ==
  IF IsTerminalState(c.state) THEN c
  ELSE IF "decline" \in {c.local, c.remote} THEN MoveTo(c, "rejected")
  ELSE IF "accept" \in {c.local, c.remote} THEN MoveTo(c, "both-confirmed")
  ELSE c

\* recompute(): the state follows from the two decisions, unless it is terminal.
Recompute(c) ==
  IF IsTerminalState(c.state) THEN c
  ELSE IF "decline" \in {c.local, c.remote} THEN MoveTo(c, "rejected")
  ELSE IF {c.local, c.remote} = {"accept"} THEN MoveTo(c, "both-confirmed")
  ELSE IF "accept" \in {c.local, c.remote} THEN MoveTo(c, "one-confirmed")
  ELSE c

\* A new ceremony: its timeout is armed at once.
NewCeremony ==
  [state |-> "awaiting-both", local |-> "none", remote |-> "none", localAcknowledged |-> FALSE,
   resendTimer |-> FALSE, timeoutTimer |-> TRUE, resendsLeft |-> MaxResends,
   ackBudget |-> InitialAckBudget, resumesLeft |-> MaxResumes]

\* decide(): the decision is recorded, sent and repeated from now on.
Decided(c, decision) ==
  Recompute([c EXCEPT !.local = decision, !.resendTimer = ~c.localAcknowledged])

\* Both phones have authenticated each other.  The phones that recognised the
\* other confirm on their user's behalf.
Init ==
  /\ recognised \in SUBSET Phones
  /\ ceremony = [p \in Phones |->
       IF p \in recognised THEN Decided(NewCeremony, "accept") ELSE NewCeremony]
  /\ session = [p \in Phones |-> "open"]
  /\ confirmationPending = [p \in Phones |-> p \notin recognised]
  /\ friends = {}
  /\ blocked = {}
  /\ wire = {To(Other(p), "accept") : p \in recognised}
  /\ losses = 0
  /\ migrations = 0

-----------------------------------------------------------------------------
(***************************************************************************)
(* PairingController: what a ceremony that settles does to the session.    *)
(***************************************************************************)
\* Mutant of recordFriendship(): the block list is not read again.
MutantBefriends(p, c) == c.state = "both-confirmed"

\* recordFriendship(): unless the user has blocked the peer meanwhile.
Befriends(p, c) == c.state = "both-confirmed" /\ p \notin blocked

\* refuse() with tearDown: a timeout hangs up only on a session that was waiting
\* for this ceremony.
TearsDown(p, c) ==
  \/ c.state = "both-confirmed" /\ ~Befriends(p, c)
  \/ c.state = "rejected"
  \/ c.state = "timed-out" /\ p \notin recognised

\* The ceremony of p becomes `next`, the messages `sent` are written and `taken` have
\* been received.  onSettled() runs once, when a terminal state is reached.
Becomes(p, next, sent, taken) ==
  LET settles == ~IsTerminalState(ceremony[p].state) /\ IsTerminalState(next.state)
      hangsUp == settles /\ TearsDown(p, next) /\ session[p] = "open"
  IN  /\ ceremony' = [ceremony EXCEPT ![p] = next]
      /\ friends' = IF settles /\ Befriends(p, next) THEN friends \union {p} ELSE friends
      /\ confirmationPending' = [confirmationPending EXCEPT ![p] =
           @ /\ ~(settles /\ (Befriends(p, next) \/ TearsDown(p, next)))]
      /\ session' = [session EXCEPT ![p] = IF hangsUp THEN "closing" ELSE @]
      /\ wire' = (wire \ taken) \union {To(Other(p), k) : k \in sent}
                   \union (IF hangsUp THEN {To(Other(p), "BYE")} ELSE {})
      /\ UNCHANGED <<recognised, blocked>>

-----------------------------------------------------------------------------
\* confirm() and decline(): the user answers, once.
Decide(p, decision) ==
  /\ session[p] # "closed"
  /\ ~IsTerminalState(ceremony[p].state)
  /\ ceremony[p].local = "none"
  /\ Becomes(p, Decided(ceremony[p], decision), {decision}, {})
  /\ UNCHANGED <<losses, migrations>>

Acknowledging(c) == [c EXCEPT !.ackBudget = IF @ > 0 THEN @ - 1 ELSE @]

\* handlePeerMessage() for a PAIRING_CONFIRM: it is acknowledged while the budget
\* lasts, and the first decision counts.
ReceiveConfirm(p, decision) ==
  LET c == ceremony[p]
      next == IF IsTerminalState(c.state) \/ c.remote # "none" THEN Acknowledging(c)
              ELSE Recompute([Acknowledging(c) EXCEPT !.remote = decision])
  IN  /\ To(p, decision) \in wire
      /\ session[p] = "open"
      /\ Becomes(p, next, IF c.ackBudget > 0 THEN {"ack"} ELSE {}, {To(p, decision)})
      /\ UNCHANGED <<losses, migrations>>

\* handlePeerMessage() for a PAIRING_CONFIRM_ACK: one for a decision not made is
\* dropped.
ReceiveAck(p) ==
  LET c == ceremony[p]
      next == IF c.local = "none" THEN c
              ELSE MaybeStopTimeout([c EXCEPT !.localAcknowledged = TRUE, !.resendTimer = FALSE])
  IN  /\ To(p, "ack") \in wire
      /\ session[p] = "open"
      /\ Becomes(p, next, {}, {To(p, "ack")})
      /\ UNCHANGED <<losses, migrations>>

\* Mutant of startResending(): a ceremony that has settled stops repeating itself.
MutantStopsResending(c) == c.localAcknowledged \/ c.resendsLeft = 0 \/ IsTerminalState(c.state)

\* startResending(): there is nothing to repeat, or no budget left.
StopsResending(c) == c.localAcknowledged \/ c.resendsLeft = 0

\* The resend interval elapses.  It is 700 ms, longer than a message is in flight.
Resend(p) ==
  LET c == ceremony[p] IN
  /\ c.resendTimer
  /\ session[p] # "closed"
  /\ To(Other(p), c.local) \notin wire
  /\ \/ /\ ~StopsResending(c)
        /\ Becomes(p, [c EXCEPT !.resendsLeft = @ - 1], {c.local}, {})
     \/ /\ StopsResending(c)
        /\ Becomes(p, MaybeStopTimeout([c EXCEPT !.resendTimer = FALSE]), {}, {})
  /\ UNCHANGED <<losses, migrations>>

\* resumeRetransmission(): nothing is outstanding, or there is no more to give.
NothingToResume(c) ==
  \/ c.localAcknowledged
  \/ c.local = "none"
  \/ c.state = "timed-out"
  \/ c.resendTimer /\ c.resendsLeft >= MaxResends
  \/ c.resumesLeft = 0

\* The session has moved to a new link: resumeRetransmission().
TransportChanged(p) ==
  LET c == ceremony[p] IN
  /\ session[p] = "open"
  /\ migrations < MaxMigrations
  /\ migrations' = migrations + 1
  /\ ~NothingToResume(c)
  /\ Becomes(p, [c EXCEPT !.resumesLeft = @ - 1, !.resendsLeft = MaxResends,
                          !.ackBudget = InitialAckBudget, !.resendTimer = TRUE], {}, {})
  /\ UNCHANGED losses

\* Mutant of the timeout: it does not look whether the ceremony has settled.
MutantTimedOut(c) == MoveTo(c, "timed-out")

TimedOut(c) == IF IsTerminalState(c.state) THEN c ELSE MoveTo(c, "timed-out")

\* The timeout: it also ends a retransmission nobody answers.
Timeout(p) ==
  LET c == ceremony[p] IN
  /\ c.timeoutTimer
  /\ session[p] # "closed"
  /\ Becomes(p, TimedOut([c EXCEPT !.timeoutTimer = FALSE, !.resendTimer = FALSE]), {}, {})
  /\ UNCHANGED <<losses, migrations>>

\* The user blocks the peer on a stale row, which the ceremony is not told.
Block(p) ==
  /\ p \notin blocked \union friends
  /\ session[p] = "open"
  /\ blocked' = blocked \union {p}
  /\ UNCHANGED <<recognised, ceremony, session, confirmationPending, friends, wire, losses,
                 migrations>>

-----------------------------------------------------------------------------
\* close(): a user disconnects, or the peer's goodbye arrives.
Close(p, taken) ==
  /\ session[p] = "open"
  /\ session' = [session EXCEPT ![p] = "closing"]
  /\ wire' = (wire \ taken) \union {To(Other(p), "BYE")}
  /\ UNCHANGED <<recognised, ceremony, confirmationPending, friends, blocked, losses, migrations>>

Disconnect(p) == Close(p, {})

ReceiveBye(p) ==
  /\ To(p, "BYE") \in wire
  /\ Close(p, {To(p, "BYE")})

\* The session's `closed` event: its link is gone, and onSessionClosed() takes the
\* sheet down and disposes of the ceremony with its timers.
SessionClosed(p) ==
  /\ session[p] = "closing"
  /\ session' = [session EXCEPT ![p] = "closed"]
  /\ ceremony' = [ceremony EXCEPT ![p].resendTimer = FALSE, ![p].timeoutTimer = FALSE]
  /\ wire' = {m \in wire : m.to # p}
  /\ UNCHANGED <<recognised, confirmationPending, friends, blocked, losses, migrations>>

\* The radio loses a message.
Lose ==
  /\ losses < MaxLosses
  /\ losses' = losses + 1
  /\ \E m \in wire : wire' = wire \ {m}
  /\ UNCHANGED <<recognised, ceremony, session, confirmationPending, friends, blocked, migrations>>

Next ==
  \/ Lose
  \/ \E p \in Phones :
       \/ \E d \in {"accept", "decline"} : Decide(p, d)
       \/ \E d \in {"accept", "decline"} : ReceiveConfirm(p, d)
       \/ ReceiveAck(p)
       \/ Resend(p)
       \/ TransportChanged(p)
       \/ Timeout(p)
       \/ Block(p)
       \/ Disconnect(p)
       \/ ReceiveBye(p)
       \/ SessionClosed(p)

Spec == Init /\ [][Next]_vars

\* Messages that are not lost arrive and the resend interval elapses.  The timeout
\* may come late.
Fairness ==
  \A p \in Phones :
    /\ WF_vars(ReceiveConfirm(p, "accept"))
    /\ WF_vars(ReceiveConfirm(p, "decline"))
    /\ WF_vars(ReceiveAck(p))
    /\ WF_vars(Resend(p))

FairSpec == Spec /\ Fairness

-----------------------------------------------------------------------------
(***************************************************************************)
(* Correctness.                                                            *)
(***************************************************************************)
\* The shape of two ceremonies and the sessions they run on.
TypeOK ==
  /\ recognised \subseteq Phones
  /\ ceremony \in [Phones -> Ceremony]
  /\ session \in [Phones -> {"open", "closing", "closed"}]
  /\ confirmationPending \in [Phones -> BOOLEAN]
  /\ friends \subseteq Phones
  /\ blocked \subseteq Phones
  /\ wire \subseteq Message
  /\ losses \in 0..MaxLosses
  /\ migrations \in 0..MaxMigrations

\* "Both users must act": a phone records a friend only when both users (or the
\* trust store on a user's behalf) have accepted, and a session that needed the
\* ceremony stops waiting for it on no other ground.
ConsentIsMutual ==
  /\ friends # {} => \A p \in Phones : ceremony[p].local = "accept"
  /\ \A p \in Phones :
       session[p] = "open" /\ ~confirmationPending[p] => p \in recognised \union friends

\* "The three terminal states latch": no late message, second tap or timeout moves
\* a ceremony that has settled.
OutcomeLatches ==
  [][\A p \in Phones :
       IsTerminalState(ceremony[p].state) => ceremony'[p].state = ceremony[p].state]_vars

\* A friendship the user has ended by blocking is not recorded by a confirmation
\* that was still on its way.
BlockedIsNotBefriended == [][friends' \intersect blocked \subseteq friends]_vars

\* "A pairing sheet that can hang is worse than one that refuses": a ceremony that
\* has not settled always has its timeout armed, whatever acknowledgements and
\* link changes came before, until its session is gone.
SheetIsTimed ==
  \A p \in Phones :
    ~IsTerminalState(ceremony[p].state) /\ session[p] # "closed" => ceremony[p].timeoutTimer

\* The timeout has fired, in a ceremony that had not settled or that still repeated
\* itself.
TimeIsUp(c) ==
  c.state = "timed-out" \/ (~c.timeoutTimer /\ ~(IsTerminalState(c.state) /\ c.localAcknowledged))

\* Somebody hung up, blocked the other or ran out of time.
Broken ==
  \/ \E p \in Phones : session[p] # "open" \/ TimeIsUp(ceremony[p])
  \/ blocked # {}

\* "One phone believing it has a new friend and the other still waiting is the worst
\* of the two possible outcomes": when both users accept in time and no more
\* messages are lost than a phone repeats, both phones record the friendship.
FriendshipCompletes ==
  (\A p \in Phones : ceremony[p].local = "accept") ~> (friends = Phones \/ Broken)

=============================================================================
