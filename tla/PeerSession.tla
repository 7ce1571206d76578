----------------------------- MODULE PeerSession -----------------------------
(***************************************************************************)
(* packages/core/src/session/peerSession.ts and stateMachine.ts: the life  *)
(* of one session, seen from both phones.  The initiator dials, the four   *)
(* handshake messages cross a link that loses, reorders and repeats them,  *)
(* each side becomes secure on its own, a first meeting waits for the      *)
(* users, and the session outlives the links that carry it.                *)
(*                                                                         *)
(* Keys, envelopes and application traffic are abstracted: of the secure   *)
(* frames only KEEPALIVE (any frame that names the session) and BYE        *)
(* remain.  Timers fire at any time unless an action says otherwise.       *)
(***************************************************************************)
EXTENDS Naturals, FiniteSets

CONSTANTS
  Recognised,           \* the phones whose trust store holds the other one
  MaxHandshakeRetries,  \* handshakeAttempts before the retry timer gives up (6)
  MaxLosses,            \* bound: datagrams the radio loses
  MaxOutages,           \* bound: times the radio drops a link or falls silent
  MaxLinks              \* bound: links opened between the two phones

Initiator == "I"
Responder == "R"
Peers     == {Initiator, Responder}

ASSUME ConstantsAssumption ==
  /\ Recognised \subseteq Peers
  /\ MaxHandshakeRetries \in Nat
  /\ MaxLosses \in Nat
  /\ MaxOutages \in Nat
  /\ MaxLinks \in Nat \ {0}

VARIABLES
  state,                \* stateMachine.current
  handshake,            \* phase of the handshake object, "null" when there is none
  handshakeOutbox,      \* handshake messages sent so far
  handshakeAttempts,    \* retries since the last new handshake message
  handshakeRetryTimer,  \* the retry timer is armed
  secure,               \* keys are held
  confirmationPending,  \* waiting for the users to compare the code
  closed,               \* "open"; "closing" while close() awaits its BYE; "closed"
  link,                 \* the link attached, NoLink for null
  paused,               \* reliable and bulk channels are paused
  watched,              \* keepalive and liveness timers run
  ends,                 \* <<phone, link>>: this end of the link reports CONNECTED
  opened,               \* links opened so far
  wire,                 \* datagrams in flight
  losses, outages       \* bound counters

sessionVars == <<state, handshake, handshakeOutbox, handshakeAttempts, handshakeRetryTimer,
                 secure, confirmationPending, closed, link, paused, watched>>
radioVars   == <<ends, opened, wire, losses, outages>>
vars        == <<sessionVars, radioVars>>

-----------------------------------------------------------------------------
NoLink == 0
Links  == 1..MaxLinks

Other(p) == IF p = Initiator THEN Responder ELSE Initiator

HandshakeMessages == {"INIT", "RESPONSE", "AUTH_RESPONDER", "AUTH_INITIATOR"}
SecureFrames      == {"KEEPALIVE", "BYE"}

TRANSITIONS ==
  [DISCONNECTED   |-> {"CONNECTING", "FAILED"},
   CONNECTING     |-> {"AUTHENTICATING", "RECONNECTING", "DISCONNECTED", "FAILED"},
   AUTHENTICATING |-> {"PAIRING", "CONNECTED", "RECONNECTING", "DISCONNECTED", "FAILED"},
   PAIRING        |-> {"CONNECTED", "DISCONNECTED", "FAILED"},
   CONNECTED      |-> {"RECONNECTING", "DISCONNECTED", "FAILED"},
   RECONNECTING   |-> {"CONNECTING", "AUTHENTICATING", "CONNECTED", "DISCONNECTED", "FAILED"},
   FAILED         |-> {"CONNECTING", "DISCONNECTED"}]

\* transitionTo(): an illegal transition is reported and leaves the state alone.
TransitionTo(current, next) == IF next \in TRANSITIONS[current] THEN next ELSE current

Moved(p, next) == state' = [state EXCEPT ![p] = TransitionTo(state[p], next)]

\* What p puts on its link: nothing when there is none or it is not CONNECTED.
Written(p, l, msgs) ==
  IF <<p, l>> \in ends THEN {[to |-> Other(p), link |-> l, msg |-> m] : m \in msgs} ELSE {}

\* The datagram d reaches the session at p; a closing session ignores it.
Arrives(p, d) ==
  /\ d \in wire
  /\ d.to = p
  /\ d.link = link[p]
  /\ closed[p] = "open"

Init ==
  /\ state = [p \in Peers |-> "DISCONNECTED"]
  /\ handshake = [p \in Peers |-> "null"]
  /\ handshakeOutbox = [p \in Peers |-> {}]
  /\ handshakeAttempts = [p \in Peers |-> 0]
  /\ handshakeRetryTimer = [p \in Peers |-> FALSE]
  /\ secure = [p \in Peers |-> FALSE]
  /\ confirmationPending = [p \in Peers |-> FALSE]
  /\ closed = [p \in Peers |-> "open"]
  /\ link = [p \in Peers |-> NoLink]
  /\ paused = [p \in Peers |-> FALSE]
  /\ watched = [p \in Peers |-> FALSE]
  /\ ends = {}
  /\ opened = 0
  /\ wire = {}
  /\ losses = 0
  /\ outages = 0

-----------------------------------------------------------------------------
(***************************************************************************)
(* The handshake.                                                          *)
(***************************************************************************)
\* sendHandshake(): remember the message, write it, arm the retry.
SendHandshake(p, msg, remaining) ==
  /\ handshakeOutbox' = [handshakeOutbox EXCEPT ![p] = @ \union {msg}]
  /\ handshakeAttempts' = [handshakeAttempts EXCEPT ![p] = 0]
  /\ handshakeRetryTimer' = [handshakeRetryTimer EXCEPT ![p] = TRUE]
  /\ wire' = remaining \union Written(p, link'[p], {msg})

\* startAsInitiator(): on a link just dialled.
StartAsInitiator ==
  LET p == Initiator IN
  /\ state[p] = "DISCONNECTED"
  /\ closed[p] = "open"
  /\ opened = 0
  /\ opened' = 1
  /\ ends' = {<<q, 1>> : q \in Peers}
  /\ link' = [link EXCEPT ![p] = 1]
  /\ state' = [state EXCEPT ![p] = "AUTHENTICATING"]
  /\ handshake' = [handshake EXCEPT ![p] = "sentInit"]
  /\ handshakeOutbox' = [handshakeOutbox EXCEPT ![p] = {"INIT"}]
  /\ handshakeAttempts' = [handshakeAttempts EXCEPT ![p] = 0]
  /\ handshakeRetryTimer' = [handshakeRetryTimer EXCEPT ![p] = TRUE]
  /\ wire' = {[to |-> Other(p), link |-> 1, msg |-> "INIT"]}
  /\ UNCHANGED <<secure, confirmationPending, closed, paused, watched, losses, outages>>

\* The first datagram of an incoming link is a hello: the router introduces a
\* responder, startAsResponder(), and replays the hello into it, which the
\* action below then handles.
Introduce ==
  LET p == Responder IN
  /\ state[p] = "DISCONNECTED"
  /\ closed[p] = "open"
  /\ link[p] = NoLink
  /\ \E d \in wire :
       /\ d.to = p
       /\ d.msg = "INIT"
       /\ <<p, d.link>> \in ends
       /\ link' = [link EXCEPT ![p] = d.link]
  /\ state' = [state EXCEPT ![p] = "AUTHENTICATING"]
  /\ handshake' = [handshake EXCEPT ![p] = "idle"]
  /\ UNCHANGED <<handshakeOutbox, handshakeAttempts, handshakeRetryTimer, secure,
                 confirmationPending, closed, paused, watched, radioVars>>

\* expectedHandshakeMessage(): "null" when this side is not waiting for one.
ExpectedHandshakeMessage(p) ==
  CASE p = Responder /\ handshake[p] = "idle"         -> "INIT"
    [] p = Responder /\ handshake[p] = "sentAuth"     -> "AUTH_INITIATOR"
    [] p = Initiator /\ handshake[p] = "sentInit"     -> "RESPONSE"
    [] p = Initiator /\ handshake[p] = "sentResponse" -> "AUTH_RESPONDER"
    [] OTHER -> "null"

\* completeHandshake(): the keys are installed; a stranger waits for the users.
CompleteHandshake(p) ==
  /\ handshakeRetryTimer' = [handshakeRetryTimer EXCEPT ![p] = FALSE]
  /\ handshakeOutbox' = [handshakeOutbox EXCEPT ![p] = {}]
  /\ secure' = [secure EXCEPT ![p] = TRUE]
  /\ handshake' = [handshake EXCEPT ![p] = "null"]
  /\ confirmationPending' = [confirmationPending EXCEPT ![p] = p \notin Recognised]
  /\ \/ /\ p \notin Recognised
        /\ Moved(p, "PAIRING")
        /\ UNCHANGED <<paused, watched>>
     \/ /\ p \in Recognised
        /\ Moved(p, "CONNECTED")
        /\ paused' = [paused EXCEPT ![p] = FALSE]
        /\ watched' = [watched EXCEPT ![p] = TRUE]

\* dispatchHandshake() for the responder's first message: the RESPONSE is
\* written, and the write is awaited before the AUTH follows it.
ReadInit(p, d) ==
  /\ p = Responder
  /\ d.msg = "INIT"
  /\ handshake' = [handshake EXCEPT ![p] = "sentResponse"]
  /\ handshakeOutbox' = [handshakeOutbox EXCEPT ![p] = @ \union {"RESPONSE"}]
  /\ handshakeAttempts' = [handshakeAttempts EXCEPT ![p] = 0]
  /\ wire' = (wire \ {d}) \union Written(p, link[p], {"RESPONSE"})
  /\ UNCHANGED <<state, handshakeRetryTimer, secure, confirmationPending, paused, watched>>

\* dispatchHandshake() for the responder's second message.
ReadInitiatorAuth(p, d) ==
  /\ p = Responder
  /\ d.msg = "AUTH_INITIATOR"
  /\ CompleteHandshake(p)
  /\ wire' = wire \ {d}
  /\ UNCHANGED handshakeAttempts

\* dispatchHandshake() for the initiator's first message.
ReadResponse(p, d) ==
  /\ p = Initiator
  /\ d.msg = "RESPONSE"
  /\ handshake' = [handshake EXCEPT ![p] = "sentResponse"]
  /\ wire' = wire \ {d}
  /\ UNCHANGED <<state, handshakeOutbox, handshakeAttempts, handshakeRetryTimer, secure,
                 confirmationPending, paused, watched>>

\* dispatchHandshake() for the initiator's second message: its own AUTH is written
\* and completeHandshake() empties the outbox that held it.
ReadResponderAuth(p, d) ==
  /\ p = Initiator
  /\ d.msg = "AUTH_RESPONDER"
  /\ CompleteHandshake(p)
  /\ handshakeAttempts' = [handshakeAttempts EXCEPT ![p] = 0]
  /\ wire' = (wire \ {d}) \union Written(p, link[p], {"AUTH_INITIATOR"})

\* A message that fails verification moves the handshake and the session to
\* FAILED.
RejectHandshake(p, d) ==
  /\ handshake' = [handshake EXCEPT ![p] = "failed"]
  /\ Moved(p, "FAILED")
  /\ wire' = wire \ {d}
  /\ UNCHANGED <<handshakeOutbox, handshakeAttempts, handshakeRetryTimer, secure,
                 confirmationPending, paused, watched>>

\* Mutant of resendHandshake(): only the last message is kept.
MutantReplayAnswer(p) ==
  Written(p, link[p], IF "AUTH_RESPONDER" \in handshakeOutbox[p] THEN {"AUTH_RESPONDER"}
                      ELSE handshakeOutbox[p])

\* resendHandshake(): everything sent so far.
ReplayAnswer(p) == Written(p, link[p], handshakeOutbox[p])

\* handleHandshakeFrame(), for a message of type m.
HandleHandshakeFrame(p, m) ==
  /\ \E d \in wire :
       /\ Arrives(p, d)
       /\ d.msg = m
       /\ LET expected == ExpectedHandshakeMessage(p) IN
          \/ /\ d.msg = expected
             /\ \/ ReadInit(p, d)
                \/ ReadInitiatorAuth(p, d)
                \/ ReadResponse(p, d)
                \/ ReadResponderAuth(p, d)
                \/ RejectHandshake(p, d)
          \/ /\ d.msg # expected
             /\ wire' = (wire \ {d}) \union (IF expected = "null" THEN {} ELSE ReplayAnswer(p))
             /\ UNCHANGED <<state, handshake, handshakeOutbox, handshakeAttempts,
                            handshakeRetryTimer, secure, confirmationPending, paused, watched>>
  /\ UNCHANGED <<closed, link, ends, opened, losses, outages>>

\* The awaited RESPONSE has been written: the responder sends its AUTH.
SendResponderAuth ==
  LET p == Responder IN
  /\ handshake[p] = "sentResponse"
  /\ <<p, link[p]>> \in ends
  /\ handshake' = [handshake EXCEPT ![p] = "sentAuth"]
  /\ link' = link
  /\ SendHandshake(p, "AUTH_RESPONDER", wire)
  /\ UNCHANGED <<state, secure, confirmationPending, closed, paused, watched,
                 ends, opened, losses, outages>>

\* The handshake retry timer fires.  It backs off from 400 ms, longer than a
\* datagram is in flight: what it resends has arrived or is lost.
HandshakeRetry(p) ==
  /\ handshakeRetryTimer[p]
  /\ ReplayAnswer(p) \intersect wire = {}
  /\ \/ /\ handshakeAttempts[p] < MaxHandshakeRetries
        /\ closed[p] = "open"
        /\ handshakeAttempts' = [handshakeAttempts EXCEPT ![p] = @ + 1]
        /\ wire' = wire \union ReplayAnswer(p)
        /\ UNCHANGED handshakeRetryTimer
     \/ /\ handshakeAttempts[p] >= MaxHandshakeRetries \/ closed[p] # "open"
        /\ handshakeRetryTimer' = [handshakeRetryTimer EXCEPT ![p] = FALSE]
        /\ UNCHANGED <<handshakeAttempts, wire>>
  /\ UNCHANGED <<state, handshake, handshakeOutbox, secure, confirmationPending, closed, link,
                 paused, watched, ends, opened, losses, outages>>

-----------------------------------------------------------------------------
(***************************************************************************)
(* Timers, users and teardown.                                             *)
(***************************************************************************)
\* STATE_TIMEOUTS.  The pairing ceremony's own timer is armed a moment before the
\* one on PAIRING and closes the session, so the latter fires only while that
\* close is under way.
StateTimeout(p) ==
  /\ \/ state[p] = "AUTHENTICATING"
     \/ state[p] = "PAIRING" /\ closed[p] = "closing"
  /\ closed[p] # "closed"
  /\ Moved(p, "FAILED")
  /\ UNCHANGED <<handshake, handshakeOutbox, handshakeAttempts, handshakeRetryTimer, secure,
                 confirmationPending, closed, link, paused, watched, radioVars>>

\* Mutant of confirmPairing(): the keepalive is not started.
MutantConfirmPairing(p) ==
  /\ confirmationPending[p]
  /\ secure[p]
  /\ secure[Other(p)] \/ closed[Other(p)] # "open"
  /\ confirmationPending' = [confirmationPending EXCEPT ![p] = FALSE]
  /\ Moved(p, "CONNECTED")
  /\ UNCHANGED <<handshake, handshakeOutbox, handshakeAttempts, handshakeRetryTimer, secure,
                 closed, link, paused, watched, radioVars>>

\* confirmPairing(true): both users accepted, so the peer has authenticated too.
ConfirmPairing(p) ==
  /\ confirmationPending[p]
  /\ secure[p]
  /\ secure[Other(p)] \/ closed[Other(p)] # "open"
  /\ confirmationPending' = [confirmationPending EXCEPT ![p] = FALSE]
  /\ Moved(p, "CONNECTED")
  /\ watched' = [watched EXCEPT ![p] = TRUE]
  /\ UNCHANGED <<handshake, handshakeOutbox, handshakeAttempts, handshakeRetryTimer, secure,
                 closed, link, paused, radioVars>>

\* close() up to its await: the BYE is written and awaited.
BeginClose(p, remaining) ==
  /\ closed[p] = "open"
  /\ closed' = [closed EXCEPT ![p] = "closing"]
  /\ wire' = remaining \union (IF secure[p] THEN Written(p, link[p], {"BYE"}) ELSE {})

\* confirmPairing(false): a user declined, or the ceremony timed out.
RefusePairing(p) ==
  /\ confirmationPending[p]
  /\ confirmationPending' = [confirmationPending EXCEPT ![p] = FALSE]
  /\ BeginClose(p, wire)
  /\ UNCHANGED <<state, handshake, handshakeOutbox, handshakeAttempts, handshakeRetryTimer,
                 secure, link, paused, watched, ends, opened, losses, outages>>

\* close(): the user disconnects or the client discards the handle.
Close(p) ==
  /\ state[p] # "DISCONNECTED"
  /\ BeginClose(p, wire)
  /\ UNCHANGED <<state, handshake, handshakeOutbox, handshakeAttempts, handshakeRetryTimer,
                 secure, confirmationPending, link, paused, watched, ends, opened, losses, outages>>

\* close() after its await.
FinishClose(p) ==
  /\ closed[p] = "closing"
  /\ closed' = [closed EXCEPT ![p] = "closed"]
  /\ watched' = [watched EXCEPT ![p] = FALSE]
  /\ handshakeRetryTimer' = [handshakeRetryTimer EXCEPT ![p] = FALSE]
  /\ link' = [link EXCEPT ![p] = NoLink]
  /\ ends' = ends \ {<<p, link[p]>>}
  /\ secure' = [secure EXCEPT ![p] = FALSE]
  /\ Moved(p, "DISCONNECTED")
  /\ UNCHANGED <<handshake, handshakeOutbox, handshakeAttempts, confirmationPending, paused,
                 opened, wire, losses, outages>>

-----------------------------------------------------------------------------
(***************************************************************************)
(* Secure frames, links and liveness.                                      *)
(***************************************************************************)
\* handleSecureFrame() and handleControlMessage().
HandleSecureFrame(p) ==
  /\ \E d \in wire :
       /\ Arrives(p, d)
       /\ d.msg \in SecureFrames
       /\ \/ /\ secure[p] /\ d.msg = "BYE"
             /\ BeginClose(p, wire \ {d})
          \/ /\ ~secure[p] \/ d.msg = "KEEPALIVE"
             /\ wire' = wire \ {d}
             /\ UNCHANGED closed
  /\ UNCHANGED <<state, handshake, handshakeOutbox, handshakeAttempts, handshakeRetryTimer,
                 secure, confirmationPending, link, paused, watched, ends, opened, losses, outages>>

\* sendKeepalive(), on the keepalive interval.
SendKeepalive(p) ==
  /\ watched[p]
  /\ secure[p]
  /\ wire' = wire \union Written(p, link[p], {"KEEPALIVE"})
  /\ UNCHANGED <<sessionVars, ends, opened, losses, outages>>

\* p has no way of hearing from its peer any more: its end of the link is down, or
\* the peer is not on that link, or says nothing on it.
Unheard(p) ==
  \/ <<p, link[p]>> \notin ends
  \/ link[Other(p)] # link[p]
  \/ ~watched[Other(p)]
  \/ ~secure[Other(p)]

\* The liveness timer finds that nothing has arrived for a whole window.
LivenessExpires(p) ==
  /\ watched[p]
  /\ closed[p] # "closed"
  /\ \/ Unheard(p) /\ UNCHANGED outages
     \/ ~Unheard(p) /\ outages < MaxOutages /\ outages' = outages + 1
  /\ watched' = [watched EXCEPT ![p] = FALSE]
  /\ paused' = [paused EXCEPT ![p] = TRUE]
  /\ Moved(p, "RECONNECTING")
  /\ UNCHANGED <<handshake, handshakeOutbox, handshakeAttempts, handshakeRetryTimer, secure,
                 confirmationPending, closed, link, ends, opened, wire, losses>>

\* An end of a link reports CLOSED: the other end has closed, or the radio lost
\* it.  The session that is on it runs handleLinkState().
LinkDown(p) ==
  /\ \E l \in Links :
       /\ <<p, l>> \in ends
       /\ \/ <<Other(p), l>> \notin ends /\ UNCHANGED outages
          \/ <<Other(p), l>> \in ends /\ outages < MaxOutages /\ outages' = outages + 1
       /\ ends' = ends \ {<<p, l>>}
       /\ wire' = {d \in wire : ~(d.to = p /\ d.link = l)}
       /\ \/ /\ link[p] = l /\ closed[p] = "open"
             /\ paused' = [paused EXCEPT ![p] = TRUE]
             /\ watched' = [watched EXCEPT ![p] = FALSE]
             /\ Moved(p, IF secure[p] THEN "RECONNECTING" ELSE "FAILED")
          \/ /\ link[p] # l \/ closed[p] # "open"
             /\ UNCHANGED <<paused, watched, state>>
  /\ UNCHANGED <<handshake, handshakeOutbox, handshakeAttempts, handshakeRetryTimer, secure,
                 confirmationPending, closed, link, opened, losses>>

\* Mutant of migrateToLink(): the channels are not resumed.
MutantMigrateToLink(p, l, live, remaining) ==
  /\ secure[p]
  /\ ends' = live \ {<<p, link[p]>>}
  /\ link' = [link EXCEPT ![p] = l]
  /\ Moved(p, "CONNECTED")
  /\ watched' = [watched EXCEPT ![p] = TRUE]
  /\ wire' = remaining \union {[to |-> Other(p), link |-> l, msg |-> "KEEPALIVE"]}
  /\ UNCHANGED <<paused, handshake, handshakeOutbox, handshakeAttempts, handshakeRetryTimer,
                 secure, confirmationPending, closed, losses, outages>>

\* migrateToLink(): the old link is detached and closed, the new one attached, the
\* channels resumed, and a keepalive sent on it at once.  `live` are the ends that
\* report CONNECTED as it is called, the new link's included, and `remaining` the
\* datagrams in flight.
MigrateToLink(p, l, live, remaining) ==
  /\ secure[p]
  /\ ends' = live \ {<<p, link[p]>>}
  /\ link' = [link EXCEPT ![p] = l]
  /\ paused' = [paused EXCEPT ![p] = FALSE]
  /\ Moved(p, "CONNECTED")
  /\ watched' = [watched EXCEPT ![p] = TRUE]
  /\ wire' = remaining \union {[to |-> Other(p), link |-> l, msg |-> "KEEPALIVE"]}
  /\ UNCHANGED <<handshake, handshakeOutbox, handshakeAttempts, handshakeRetryTimer,
                 secure, confirmationPending, closed, losses, outages>>

\* A session that is reconnecting is redialled, or a connected one is upgraded to a
\* better transport: it is handed a link that has just been opened.
Migrate(p) ==
  /\ state[p] \in {"RECONNECTING", "CONNECTED"}
  /\ closed[p] = "open"
  /\ opened < MaxLinks
  /\ opened' = opened + 1
  /\ MigrateToLink(p, opened', ends \union {<<q, opened'>> : q \in Peers}, wire)

\* The radio loses a datagram.
Lose ==
  /\ losses < MaxLosses
  /\ losses' = losses + 1
  /\ \E d \in wire : wire' = wire \ {d}
  /\ UNCHANGED <<sessionVars, ends, opened, outages>>

-----------------------------------------------------------------------------
\* The router hands p an incoming link on which a frame named p's session, and
\* replays the frame; a BYE is left for HandleSecureFrame.
ResumeOnIncomingLink(p) ==
  /\ closed[p] = "open"
  /\ \E d \in wire :
       /\ d.to = p
       /\ d.msg \in SecureFrames
       /\ d.link # link[p]
       /\ <<p, d.link>> \in ends
       /\ MigrateToLink(p, d.link, ends, IF d.msg = "BYE" THEN wire ELSE wire \ {d})
  /\ UNCHANGED opened

HandshakeStep ==
  \/ StartAsInitiator
  \/ Introduce
  \/ SendResponderAuth
  \/ \E p \in Peers :
       \/ \E m \in HandshakeMessages : HandleHandshakeFrame(p, m)
       \/ HandshakeRetry(p)
       \/ StateTimeout(p)

\* What users, timers and the radio do to a session.
LifeStep ==
  \/ Lose
  \/ \E p \in Peers :
       \/ ConfirmPairing(p)
       \/ RefusePairing(p)
       \/ Close(p)
       \/ FinishClose(p)
       \/ SendKeepalive(p)
       \/ LivenessExpires(p)
       \/ LinkDown(p)

Next ==
  \/ HandshakeStep
  \/ LifeStep
  \/ \E p \in Peers :
       \/ HandleSecureFrame(p)
       \/ Migrate(p)
       \/ ResumeOnIncomingLink(p)

Spec == Init /\ [][Next]_vars

\* Timers fire, datagrams that are not lost arrive, and close() ends.
Fairness ==
  /\ WF_vars(StartAsInitiator)
  /\ WF_vars(Introduce)
  /\ WF_vars(SendResponderAuth)
  /\ \A p \in Peers :
       /\ \A m \in HandshakeMessages : WF_vars(HandleHandshakeFrame(p, m))
       /\ WF_vars(HandshakeRetry(p))
       /\ WF_vars(LivenessExpires(p))
       /\ WF_vars(FinishClose(p))

FairSpec == Spec /\ Fairness

-----------------------------------------------------------------------------
(***************************************************************************)
(* Correctness.                                                            *)
(***************************************************************************)
\* A session shown as CONNECTED always has its liveness timer running, whichever of
\* handshake, confirmation and migration brought it there and whatever happened to
\* the link meanwhile: otherwise a dead link would read "Connected" for ever.
ConnectedIsWatched ==
  \A p \in Peers : state[p] = "CONNECTED" /\ closed[p] = "open" => watched[p]

\* While a friend's session is CONNECTED on a link that is up, its reliable channels
\* are not paused: no path back from a lost link forgets resume(), which would
\* leave messages queued on a working link.  (A first meeting has one that does:
\* a confirmation that comes while the session is RECONNECTING.)
ChannelsRun ==
  \A p \in Recognised :
    state[p] = "CONNECTED" /\ <<p, link[p]>> \in ends => ~paused[p]

\* The exchange on the first link is over for a reason other than loss: somebody
\* refused or closed, or the link went down or was replaced.
Broken ==
  \/ \E p \in Peers : handshake[p] = "failed" \/ closed[p] # "open"
  \/ ends # Peers \X {1}

\* "This layer retransmits, DTLS-style": whatever datagrams are lost, up to the
\* retry budget, the initiator's half of the handshake completes as long as the
\* link stays up and nobody refuses or closes.
InitiatorCompletes == (handshake[Initiator] # "null") ~> (secure[Initiator] \/ Broken)

\* "Resend it again if the peer replays something we have already processed, which
\* is exactly what a peer does when ITS message was the one that got lost": once
\* the initiator is secure, the responder becomes secure too.
HandshakeCompletes == secure[Initiator] ~> (secure[Responder] \/ Broken)

=============================================================================
