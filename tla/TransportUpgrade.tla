--------------------------- MODULE TransportUpgrade ---------------------------
(***************************************************************************)
(* Moving a session to a better transport, and back when the link dies:    *)
(* packages/core/src/transport/upgrade.ts and negotiation.ts.              *)
(*                                                                         *)
(* Both phones run the controller.  The one with the smaller peer id       *)
(* initiates: it offers, dials, probes and commits; the other accepts,     *)
(* answers the probe, holds the link it has proven and follows.            *)
(* Negotiation rides the unreliable CONTROL channel of the very link that  *)
(* is being replaced, so any message may be lost, late or repeated, and    *)
(* either link may drop at any moment.                                     *)
(*                                                                         *)
(* The session is what PeerSession makes of it: authenticated, on one      *)
(* link, CONNECTED or RECONNECTING.                                        *)
(***************************************************************************)
EXTENDS Naturals, FiniteSets

CONSTANTS
  Best,             \* transports are ranked 0..Best by transportScore(); 0 is the floor
  MaxAttempts,      \* bound on upgrade attempts
  MaxDowngrades,    \* maxDowngradeAttempts, 3 by default
  MaxDrops,         \* bound on links the radio drops
  MaxDialFailures   \* bound on reconnects in which no transport opens

ASSUME UpgradeAssumption ==
  {Best, MaxAttempts, MaxDowngrades, MaxDrops, MaxDialFailures} \subseteq Nat

VARIABLES
  offer,            \* the initiator's attempt: state, id, kind, link, and the candidates left to try
  reply,            \* the responder's attempt: state, id, kind, the proven link, the probe candidates
  carrier,          \* per phone: the session's currentLink, and whether it is CONNECTED
  linkEnds,         \* the <<phone, link>> ends that are open
  incoming,         \* links not yet handed to the responder's handleIncomingLink()
  air,              \* CONTROL messages and probes under way
  repair,           \* the initiator's reconnect ladder: tries, armed, dials
  lateConnects,     \* connects still pending after the attempt stopped waiting
  provenLinks,      \* history: links on which the responder has answered the probe
  attempts, drops, dialFailures

upgradeVars == <<offer, reply, carrier, linkEnds, incoming, air, repair, lateConnects,
                 provenLinks, attempts, drops, dialFailures>>

Ends == {"initiator", "responder"}
Peer(p) == IF p = "initiator" THEN "responder" ELSE "initiator"

Transports == 0..Best
UpgradeLinks == Transports \X {0, 1}   \* a link: its transport, and which one it is
FirstLink == <<0, 0>>
NoLink == <<>>

NoOffer == [state |-> "IDLE", id |-> 0, kind |-> 0, link |-> NoLink, untried |-> {}]
NoReply == [state |-> "IDLE", id |-> 0, kind |-> 0, link |-> NoLink, candidates |-> {}]

UpgradeInit ==
  /\ offer = NoOffer
  /\ reply = NoReply
  /\ carrier = [p \in Ends |-> [link |-> FirstLink, up |-> TRUE]]
  /\ linkEnds = Ends \X {FirstLink}
  /\ incoming = {}
  /\ air = {}
  /\ repair = [tries |-> 0, armed |-> FALSE, dials |-> 0]
  /\ lateConnects = 0
  /\ provenLinks = {}
  /\ attempts = 0
  /\ drops = 0
  /\ dialFailures = 0

-----------------------------------------------------------------------------
\* A message of the given attempt over link l, to be heard by p.
Note(type, id, kind, p, l) == [type |-> type, id |-> id, kind |-> kind, to |-> p, link |-> l]

\* send(): a CONTROL datagram on the session's link, if that link is open.
Control(p, type, id, kind) ==
  {n \in {Note(type, id, kind, Peer(p), carrier[p].link)} : <<p, n.link>> \in linkEnds}

\* What is on the air once the given ends are open: a datagram whose receiving
\* end is gone is gone too.
Carried(msgs, ends) == {n \in msgs : <<n.to, n.link>> \in ends}

\* The air once the initiator's attempt is over: late answers to it are ignored
\* whenever they come, and might as well be lost.
Unanswered == {n \in air : n.to # "initiator"}

\* Nobody holds an end of link l.
Unheld(l) ==
  /\ \A p \in Ends : <<p, l>> \notin linkEnds /\ carrier[p].link # l
  /\ l \notin {offer.link, reply.link}

\* The links of the given transports that may be the next to open, which is
\* handed over before another opens.
FreeLinks(kinds) ==
  {l \in kinds \X {0, 1} :
     /\ incoming = {}
     /\ Unheld(l)
     /\ l[2] = 1 => ~Unheld(<<l[1], 0>>)}

\* Mutant of scheduleDowngrade(): the ladder has one rung.
MutantScheduled(r) ==
  IF r.armed \/ r.tries >= 1 THEN r ELSE [r EXCEPT !.armed = TRUE, !.tries = @ + 1]

\* scheduleDowngrade(): at most one timer, and only MaxDowngrades of them.
Scheduled(r) ==
  IF r.armed \/ r.tries >= MaxDowngrades THEN r
  ELSE [r EXCEPT !.armed = TRUE, !.tries = @ + 1]

\* migrateToLink(): the old link is closed and the session is CONNECTED on l.
Moved(p, l) == [carrier EXCEPT ![p] = [link |-> l, up |-> TRUE]]
EndsAfterMove(p, ends) == ends \ {<<p, carrier[p].link>>}

-----------------------------------------------------------------------------
(* The initiator: considerUpgrade() and attemptUpgrade(). *)

\* negotiateTransports(): what beats the transport the session is on.
UpgradeCandidates == {k \in Transports : k > carrier["initiator"].link[1]}

\* attemptUpgrade() begins with the best candidate that is still available.
Attempt(kinds, msgs, ends) ==
  \E k \in kinds :
    /\ attempts < MaxAttempts
    /\ attempts' = attempts + 1
    /\ offer' = [state |-> "OFFERING", id |-> attempts', kind |-> k, link |-> NoLink,
                 untried |-> {j \in kinds : j < k}]
    /\ air' = Carried(msgs \union Control("initiator", "OFFER", attempts', k), ends)

ConsiderUpgrade ==
  /\ offer.state = "IDLE"
  /\ carrier["initiator"].up
  /\ Attempt(UpgradeCandidates, air, linkEnds)
  /\ UNCHANGED <<reply, carrier, linkEnds, incoming, repair, lateConnects, provenLinks,
                 drops, dialFailures>>

\* The catch of attemptUpgrade(): the new link is closed and the peer told, and
\* considerUpgrade() falls through to the next candidate.
AttemptFails(ends) ==
  LET left == ends \ {<<"initiator", offer.link>>}
      told == Unanswered \union Control("initiator", "FAILED", offer.id, offer.kind)
  IN  /\ linkEnds' = left
      /\ lateConnects' = lateConnects + (IF offer.state = "CONNECTING" THEN 1 ELSE 0)
      /\ \/ Attempt(offer.untried, told, left)
         \/ offer' = NoOffer /\ air' = Carried(told, left) /\ UNCHANGED attempts

\* waitForMessage(), connectLink() and runProbe() give up.
InitiatorTimeout ==
  /\ offer.state \in {"OFFERING", "CONNECTING", "PROBING", "AWAITING_READY"}
  /\ AttemptFails(linkEnds)
  /\ UNCHANGED <<reply, carrier, incoming, repair, provenLinks, drops, dialFailures>>

\* TRANSPORT_ACCEPT arrives.
ReceiveAccept(n) ==
  /\ n.type = "ACCEPT"
  /\ offer.state = "OFFERING" /\ offer.id = n.id
  /\ offer' = [offer EXCEPT !.state = "CONNECTING"]
  /\ air' = air \ {n}
  /\ UNCHANGED <<reply, carrier, linkEnds, incoming, repair, lateConnects, provenLinks,
                 attempts, drops, dialFailures>>

\* connectLink() succeeds and runProbe() sends the first probe.
LinkConnects ==
  /\ offer.state = "CONNECTING"
  /\ \E l \in FreeLinks({offer.kind}) :
       /\ linkEnds' = linkEnds \union (Ends \X {l})
       /\ incoming' = incoming \union {l}
       /\ offer' = [offer EXCEPT !.state = "PROBING", !.link = l]
       /\ air' = air \union {Note("PROBE", offer.id, offer.kind, "responder", l)}
       /\ provenLinks' = provenLinks \ {l}
  /\ UNCHANGED <<reply, carrier, repair, lateConnects, attempts, drops, dialFailures>>

\* connectLink(): a link that opens after the attempt ended is closed at once.
LateLinkConnects ==
  /\ lateConnects > 0
  /\ lateConnects' = lateConnects - 1
  /\ \E l \in FreeLinks(Transports) :
       /\ linkEnds' = linkEnds \union {<<"responder", l>>}
       /\ incoming' = incoming \union {l}
       /\ provenLinks' = provenLinks \ {l}
  /\ UNCHANGED <<offer, reply, carrier, air, repair, attempts, drops, dialFailures>>

\* runProbe(): the acknowledgement arrives on the new link.
ReceiveProbeAck(n) ==
  /\ n.type = "PROBE_ACK"
  /\ offer.state = "PROBING" /\ offer.id = n.id /\ offer.link = n.link
  /\ offer' = [offer EXCEPT !.state = "AWAITING_READY"]
  /\ air' = air \ {n}
  /\ UNCHANGED <<reply, carrier, linkEnds, incoming, repair, lateConnects, provenLinks,
                 attempts, drops, dialFailures>>

\* TRANSPORT_READY arrives: the commit begins and TRANSPORT_SWITCH goes out.
ReceiveReady(n) ==
  /\ n.type = "READY"
  /\ offer.state = "AWAITING_READY" /\ offer.id = n.id
  /\ offer' = [offer EXCEPT !.state = "COMMITTING"]
  /\ air' = (air \ {n}) \union Control("initiator", "SWITCH", offer.id, offer.kind)
  /\ UNCHANGED <<reply, carrier, linkEnds, incoming, repair, lateConnects, provenLinks,
                 attempts, drops, dialFailures>>

\* The end of attemptUpgrade(): the session moves, whatever has become of the link.
Commit(ends) ==
  /\ linkEnds' = EndsAfterMove("initiator", ends)
  /\ carrier' = Moved("initiator", offer.link)
  /\ air' = Carried(Unanswered, linkEnds')
  /\ offer' = NoOffer
  /\ repair' = [repair EXCEPT !.tries = 0]
  /\ UNCHANGED <<lateConnects, attempts>>

\* announceSwitch(): the grace window is over.
GraceEnds ==
  /\ offer.state = "COMMITTING"
  /\ Commit(linkEnds)
  /\ UNCHANGED <<reply, incoming, provenLinks, drops, dialFailures>>

\* TRANSPORT_FAILED arrives at the initiator: abortAttempt(), for its own attempt only.
InitiatorHearsFailed(n) ==
  /\ n.type = "FAILED" /\ n.to = "initiator"
  /\ offer.state # "IDLE" /\ offer.id = n.id
  /\ AttemptFails(linkEnds)
  /\ UNCHANGED <<reply, carrier, incoming, repair, provenLinks, drops, dialFailures>>

-----------------------------------------------------------------------------
(* The responder: handleOffer(). *)

\* Mutant of releaseProbeCandidates(): only the proven link is closed.
MutantReleased(ends) == ends \ {<<"responder", reply.link>>}

\* An attempt is dropped: the candidates and the proven link are closed.
Released(ends) ==
  ends \ ({"responder"} \X (reply.candidates \union {reply.link}))

\* A repeat of the offer it is working on: the acceptance is said again.
ReceiveOfferAgain(n) ==
  /\ n.type = "OFFER"
  /\ reply.state # "IDLE" /\ reply.id = n.id
  /\ air' = (air \ {n}) \union
       (IF reply.state = "AWAITING_LINK" THEN Control("responder", "ACCEPT", n.id, n.kind) ELSE {})
  /\ UNCHANGED <<offer, reply, carrier, linkEnds, incoming, repair, lateConnects,
                 provenLinks, attempts, drops, dialFailures>>

\* Busy with a proven link, no better than the current transport, or not usable here.
DeclineOffer(n) ==
  /\ n.type = "OFFER"
  /\ reply.id # n.id
  /\ air' = (air \ {n}) \union Control("responder", "FAILED", n.id, n.kind)
  /\ UNCHANGED <<offer, reply, carrier, linkEnds, incoming, repair, lateConnects,
                 provenLinks, attempts, drops, dialFailures>>

\* The offer is accepted; it supersedes one that is still waiting for its link.
AcceptOffer(n) ==
  /\ n.type = "OFFER"
  /\ reply.id # n.id
  /\ reply.state \in {"IDLE", "AWAITING_LINK"}
  /\ carrier["responder"].up
  /\ n.kind > carrier["responder"].link[1]
  /\ linkEnds' = Released(linkEnds)
  /\ reply' = [NoReply EXCEPT !.state = "AWAITING_LINK", !.id = n.id, !.kind = n.kind]
  /\ air' = Carried((air \ {n}) \union Control("responder", "ACCEPT", n.id, n.kind), linkEnds')
  /\ UNCHANGED <<offer, carrier, incoming, repair, lateConnects, provenLinks,
                 attempts, drops, dialFailures>>

\* Mutant of handleIncomingLink(): a healthy session takes the link too.
MutantWantsLink == TRUE

\* handleIncomingLink(): only a session that is not carrying traffic takes a
\* link that is not an upgrade.
WantsLink == ~carrier["responder"].up

\* handleIncomingLink(): a link on the offered transport becomes a probe
\* candidate, a reconnect is adopted, and any other is not the controller's; the
\* session manager lets it go.
HandleIncomingLink(l) ==
  /\ l \in incoming
  /\ incoming' = incoming \ {l}
  /\ IF reply.state = "AWAITING_LINK" /\ reply.kind = l[1]
     THEN /\ reply' = [reply EXCEPT !.candidates = @ \union {l}]
          /\ UNCHANGED <<carrier, linkEnds, air>>
     ELSE /\ IF WantsLink
             THEN /\ linkEnds' = EndsAfterMove("responder", linkEnds)
                  /\ carrier' = Moved("responder", l)
             ELSE /\ linkEnds' = linkEnds \ {<<"responder", l>>}
                  /\ UNCHANGED carrier
          /\ air' = Carried(air, linkEnds')
          /\ UNCHANGED reply
  /\ UNCHANGED <<offer, repair, lateConnects, provenLinks, attempts, drops, dialFailures>>

\* armProbeResponder(): the probe is answered, the other candidates are closed,
\* and the link is held until the switch; TRANSPORT_READY starts to repeat.
ReceiveProbe(n) ==
  /\ n.type = "PROBE"
  /\ reply.state = "AWAITING_LINK" /\ reply.id = n.id /\ n.link \in reply.candidates
  /\ linkEnds' = linkEnds \ ({"responder"} \X (reply.candidates \ {n.link}))
  /\ reply' = [reply EXCEPT !.state = "AWAITING_SWITCH", !.link = n.link, !.candidates = {}]
  /\ provenLinks' = provenLinks \union {n.link}
  /\ air' = Carried((air \ {n}) \union {Note("PROBE_ACK", n.id, n.kind, "initiator", n.link)}
                                \union Control("responder", "READY", n.id, n.kind), linkEnds')
  /\ UNCHANGED <<offer, carrier, incoming, repair, lateConnects, attempts, drops, dialFailures>>

\* waitForProbedLink() or waitForMessage() gives up.
ResponderTimeout ==
  /\ reply.state # "IDLE"
  /\ linkEnds' = Released(linkEnds)
  /\ air' = Carried(air \union Control("responder", "FAILED", reply.id, reply.kind), linkEnds')
  /\ reply' = NoReply
  /\ UNCHANGED <<offer, carrier, incoming, repair, lateConnects, provenLinks,
                 attempts, drops, dialFailures>>

\* TRANSPORT_FAILED arrives at the responder: abortAttempt().
ResponderHearsFailed(n) ==
  /\ n.type = "FAILED" /\ n.to = "responder"
  /\ reply.state # "IDLE" /\ reply.id = n.id
  /\ linkEnds' = Released(linkEnds)
  /\ air' = Carried(air \ {n}, linkEnds')
  /\ reply' = NoReply
  /\ UNCHANGED <<offer, carrier, incoming, repair, lateConnects, provenLinks,
                 attempts, drops, dialFailures>>

\* completeResponderSwitch(): the session moves, unless the proven link has died.
CompleteResponderSwitch(ends) ==
  /\ reply' = NoReply
  /\ IF <<"responder", reply.link>> \in ends
     THEN /\ linkEnds' = EndsAfterMove("responder", ends)
          /\ carrier' = Moved("responder", reply.link)
     ELSE /\ linkEnds' = ends
          /\ UNCHANGED carrier

\* TRANSPORT_SWITCH arrives.
ReceiveSwitch(n) ==
  /\ n.type = "SWITCH"
  /\ reply.state = "AWAITING_SWITCH" /\ reply.id = n.id
  /\ CompleteResponderSwitch(linkEnds)
  /\ air' = Carried(air \ {n}, linkEnds')
  /\ UNCHANGED <<offer, incoming, repair, lateConnects, provenLinks,
                 attempts, drops, dialFailures>>

-----------------------------------------------------------------------------
(* Messages are said again until answered.  A datagram that is lost is one that *)
(* stays on the air and is never received.                                    *)

\* repeatSend() and the interval of runProbe().
Repeat ==
  /\ air' = air \union
       (CASE offer.state = "OFFERING" -> Control("initiator", "OFFER", offer.id, offer.kind)
          [] offer.state = "COMMITTING" -> Control("initiator", "SWITCH", offer.id, offer.kind)
          [] offer.state = "PROBING" ->
               Carried({Note("PROBE", offer.id, offer.kind, "responder", offer.link)}, linkEnds)
          [] OTHER -> {})
       \union (IF reply.state = "AWAITING_SWITCH"
               THEN Control("responder", "READY", reply.id, reply.kind) ELSE {})
  /\ UNCHANGED <<offer, reply, carrier, linkEnds, incoming, repair, lateConnects,
                 provenLinks, attempts, drops, dialFailures>>

\* CONTROL messages are read from the session's own link, probes from theirs.
Audible(n) ==
  n.type \in {"PROBE", "PROBE_ACK"} \/ carrier[n.to].link = n.link

Receive(n) ==
  /\ Audible(n)
  /\ \/ ReceiveAccept(n)
     \/ ReceiveProbeAck(n)
     \/ ReceiveReady(n)
     \/ InitiatorHearsFailed(n)
     \/ ReceiveOfferAgain(n)
     \/ DeclineOffer(n)
     \/ AcceptOffer(n)
     \/ ReceiveProbe(n)
     \/ ReceiveSwitch(n)
     \/ ResponderHearsFailed(n)

-----------------------------------------------------------------------------
(* Losing a link: handleSessionState(RECONNECTING) and reconnect(). *)

\* The initiator's session is RECONNECTING, with the given ends left open.
InitiatorLosesSession(ends) ==
  IF offer.state = "COMMITTING" /\ <<"initiator", offer.link>> \in ends
  THEN Commit(ends)
  ELSE /\ carrier' = [carrier EXCEPT !["initiator"].up = FALSE]
       /\ repair' = Scheduled(repair)
       /\ IF offer.state = "IDLE"
          THEN /\ linkEnds' = ends
               /\ air' = Carried(air, ends)
               /\ UNCHANGED <<offer, attempts, lateConnects>>
          ELSE AttemptFails(ends)

\* The responder's session is RECONNECTING: it follows onto a link it has
\* proven, or drops its attempt.  It does not dial.
ResponderLosesSession(ends) ==
  /\ IF reply.link # NoLink /\ <<"responder", reply.link>> \in ends
     THEN CompleteResponderSwitch(ends)
     ELSE /\ carrier' = [carrier EXCEPT !["responder"].up = FALSE]
          /\ linkEnds' = Released(ends)
          /\ reply' = NoReply
  /\ air' = Carried(air, linkEnds')

SessionLost(p, ends) ==
  /\ \/ p = "initiator" /\ InitiatorLosesSession(ends) /\ UNCHANGED reply
     \/ p = "responder" /\ ResponderLosesSession(ends)
                        /\ UNCHANGED <<offer, repair, attempts, lateConnects>>
  /\ UNCHANGED <<incoming, provenLinks, dialFailures>>

\* A link that carries no session goes: a probe under way fails, a candidate is spent.
SpareLinkLost(p, l) ==
  /\ carrier[p].link # l
  /\ incoming' = IF p = "responder" THEN incoming \ {l} ELSE incoming
  /\ IF p = "initiator" /\ offer.state = "PROBING" /\ offer.link = l
     THEN AttemptFails(linkEnds) /\ UNCHANGED reply
     ELSE /\ linkEnds' = linkEnds \ {<<p, l>>}
          /\ air' = Carried(air, linkEnds')
          /\ reply' = IF p = "responder" THEN [reply EXCEPT !.candidates = @ \ {l}] ELSE reply
          /\ UNCHANGED <<offer, attempts, lateConnects>>
  /\ UNCHANGED <<carrier, repair, provenLinks, dialFailures>>

\* An end of a link reports CLOSED.
EndCloses(p, l) ==
  /\ <<p, l>> \in linkEnds
  /\ \/ carrier[p].link = l /\ carrier[p].up /\ SessionLost(p, linkEnds \ {<<p, l>>})
     \/ /\ carrier[p].link = l /\ ~carrier[p].up
        /\ linkEnds' = linkEnds \ {<<p, l>>}
        /\ air' = Carried(air, linkEnds')
        /\ UNCHANGED <<offer, reply, carrier, incoming, repair, lateConnects, provenLinks,
                       attempts, dialFailures>>
     \/ SpareLinkLost(p, l)

\* The other end has closed the link.
LinkDown(p) ==
  /\ \E l \in UpgradeLinks : <<Peer(p), l>> \notin linkEnds /\ EndCloses(p, l)
  /\ UNCHANGED drops

\* The radio drops a link.
RadioDrops(p) ==
  /\ drops < MaxDrops
  /\ drops' = drops + 1
  /\ \E l \in UpgradeLinks : <<Peer(p), l>> \in linkEnds /\ EndCloses(p, l)

\* The liveness timer of a session that nobody is talking to.
LivenessExpires(p) ==
  /\ carrier[p].up
  /\ incoming = {}
  /\ ~ (/\ carrier[Peer(p)] = carrier[p]
        /\ Ends \X {carrier[p].link} \subseteq linkEnds)
  /\ SessionLost(p, linkEnds)
  /\ UNCHANGED drops

\* handleTransportsChanged(): a radio appears while the session is down.
TransportsChanged ==
  /\ ~carrier["initiator"].up
  /\ drops < MaxDrops
  /\ drops' = drops + 1
  /\ repair' = Scheduled([repair EXCEPT !.tries = 0])
  /\ UNCHANGED <<offer, reply, carrier, linkEnds, incoming, air, lateConnects, provenLinks,
                 attempts, dialFailures>>

\* The timer of scheduleDowngrade() fires; a busy controller does not dial.
DowngradeTimer ==
  /\ repair.armed
  /\ LET fired == [repair EXCEPT !.armed = FALSE] IN
       repair' = IF carrier["initiator"].up THEN fired
                 ELSE IF offer.state # "IDLE" THEN Scheduled(fired)
                 ELSE [fired EXCEPT !.dials = @ + 1]
  /\ UNCHANGED <<offer, reply, carrier, linkEnds, incoming, air, lateConnects, provenLinks,
                 attempts, drops, dialFailures>>

\* reconnect(): a transport opens a link; it is adopted unless the session is
\* carrying traffic by now.
ReconnectDials ==
  /\ repair.dials > 0
  /\ \E l \in FreeLinks(Transports) :
     LET settled == carrier["initiator"].up /\ <<"initiator", carrier["initiator"].link>> \in linkEnds
     IN  /\ incoming' = incoming \union {l}
         /\ provenLinks' = provenLinks \ {l}
         /\ IF settled
            THEN /\ linkEnds' = linkEnds \union {<<"responder", l>>}
                 /\ repair' = [repair EXCEPT !.dials = @ - 1]
                 /\ UNCHANGED <<carrier, air>>
            ELSE /\ linkEnds' = EndsAfterMove("initiator", linkEnds) \union (Ends \X {l})
                 /\ carrier' = Moved("initiator", l)
                 /\ air' = Carried(air, linkEnds')
                 /\ repair' = [repair EXCEPT !.dials = @ - 1, !.tries = 0]
  /\ UNCHANGED <<offer, reply, lateConnects, attempts, drops, dialFailures>>

\* reconnect(): no transport could open a link.
ReconnectFails ==
  /\ repair.dials > 0
  /\ dialFailures < MaxDialFailures
  /\ dialFailures' = dialFailures + 1
  /\ LET ended == [repair EXCEPT !.dials = @ - 1] IN
       repair' = IF carrier["initiator"].up THEN ended ELSE Scheduled(ended)
  /\ UNCHANGED <<offer, reply, carrier, linkEnds, incoming, air, lateConnects, provenLinks,
                 attempts, drops>>

-----------------------------------------------------------------------------
UpgradeNext ==
  \/ ConsiderUpgrade
  \/ InitiatorTimeout
  \/ LinkConnects
  \/ LateLinkConnects
  \/ GraceEnds
  \/ ResponderTimeout
  \/ Repeat
  \/ \E n \in air : Receive(n)
  \/ \E l \in incoming : HandleIncomingLink(l)
  \/ \E p \in Ends : LinkDown(p) \/ RadioDrops(p) \/ LivenessExpires(p)
  \/ TransportsChanged
  \/ DowngradeTimer
  \/ ReconnectDials
  \/ ReconnectFails

UpgradeSpec == UpgradeInit /\ [][UpgradeNext]_upgradeVars

\* Every wait has its timer, a closed link is reported, an incoming link is
\* handed over, and a dial ends.
UpgradeFairness ==
  /\ WF_upgradeVars(InitiatorTimeout)
  /\ WF_upgradeVars(GraceEnds)
  /\ WF_upgradeVars(ResponderTimeout)
  /\ WF_upgradeVars(\E l \in incoming : HandleIncomingLink(l))
  /\ WF_upgradeVars(DowngradeTimer)
  /\ WF_upgradeVars(ReconnectDials \/ ReconnectFails)
  /\ \A p \in Ends : WF_upgradeVars(LinkDown(p)) /\ WF_upgradeVars(LivenessExpires(p))

FairUpgradeSpec == UpgradeSpec /\ UpgradeFairness

-----------------------------------------------------------------------------
(* Correctness. *)

\* No step leaks a link: every open end is held by the session, by the attempt
\* in progress, or waits to be handed over.
EndsAreOwned ==
  \A e \in linkEnds :
    \/ e[2] = carrier[e[1]].link
    \/ e[1] = "initiator" /\ e[2] = offer.link
    \/ e[1] = "responder" /\ e[2] \in {reply.link} \union reply.candidates \union incoming

\* A working link is given up only for one over which the peer has answered the
\* probe of the attempt.
LeavesForProven ==
  [][\A p \in Ends :
       carrier[p].up /\ carrier'[p].link # carrier[p].link /\ <<p, carrier[p].link>> \in linkEnds
         => carrier'[p].link \in provenLinks]_upgradeVars

\* The conversation survives: whatever link is lost, and whatever upgrade is
\* under way, the two sessions end up on one link again.
Together ==
  \E l \in UpgradeLinks :
    /\ carrier = [p \in Ends |-> [link |-> l, up |-> TRUE]]
    /\ Ends \X {l} \subseteq linkEnds

Reunites == []<>Together
=============================================================================
