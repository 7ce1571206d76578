---------------------------- MODULE SessionResume ----------------------------
(***************************************************************************)
(* How an established session finds its next link: the sessions of         *)
(* PeerSession composed with the client that redials                       *)
(* (apps/mobile/src/client/AirLinkClient.ts, scheduleReconnect, redial,    *)
(* discardHandle) and the router that decides whose an incoming link is    *)
(* (packages/core/src/session/incomingLinkRouter.ts).                      *)
(*                                                                         *)
(* Both phones may redial at once, a dial is awaited while the session     *)
(* moves on, and either may give up or discard its session.                *)
(***************************************************************************)
EXTENDS PeerSession

CONSTANT MaxTries   \* attempts of a ReconnectPolicy before it is exhausted (14)

ASSUME MaxTriesAssumption == MaxTries \in Nat

VARIABLES
  held,             \* the peers map still holds the handle
  doomed,           \* discardHandle() has been called and close() is next
  reconnects,       \* the reconnects map: "none", or its timer "armed" or "fired"
  strayTimers,      \* armed retry timers the map no longer remembers
  dialling,         \* redials awaiting transport.connect()
  tries,            \* attempts counted by the reconnect policy
  migratedUnheard   \* migratedAtPackets is set and no packet has come since

clientVars == <<held, doomed, reconnects, strayTimers, dialling, tries, migratedUnheard>>
resumeVars == <<vars, clientVars>>

-----------------------------------------------------------------------------
\* Both phones have just completed the handshake on the first link.
ResumeInit ==
  /\ state = [p \in Peers |-> IF p \in Recognised THEN "CONNECTED" ELSE "PAIRING"]
  /\ handshake = [p \in Peers |-> "null"]
  /\ handshakeOutbox = [p \in Peers |-> {}]
  /\ handshakeAttempts = [p \in Peers |-> 0]
  /\ handshakeRetryTimer = [p \in Peers |-> FALSE]
  /\ secure = [p \in Peers |-> TRUE]
  /\ confirmationPending = [p \in Peers |-> p \notin Recognised]
  /\ closed = [p \in Peers |-> "open"]
  /\ link = [p \in Peers |-> 1]
  /\ paused = [p \in Peers |-> FALSE]
  /\ watched = [p \in Peers |-> p \in Recognised]
  /\ ends = Peers \X {1}
  /\ opened = 1
  /\ wire = {}
  /\ losses = 0
  /\ outages = 0
  /\ held = [p \in Peers |-> TRUE]
  /\ doomed = [p \in Peers |-> FALSE]
  /\ reconnects = [p \in Peers |-> "none"]
  /\ strayTimers = [p \in Peers |-> 0]
  /\ dialling = [p \in Peers |-> 0]
  /\ tries = [p \in Peers |-> 0]
  /\ migratedUnheard = [p \in Peers |-> FALSE]

\* The session moves to `next` in this step.
Enters(p, next) == state[p] # next /\ state'[p] = next

\* scheduleReconnect(): the last migration reached nobody.
GivesUpOnMigration(p) ==
  /\ Enters(p, "RECONNECTING")
  /\ held[p]
  /\ reconnects[p] = "none"
  /\ migratedUnheard[p]

\* scheduleReconnect(): a timer is armed with a fresh policy.
Schedules(p) ==
  /\ Enters(p, "RECONNECTING")
  /\ held[p]
  /\ reconnects[p] = "none"
  /\ ~migratedUnheard[p]

\* Mutant of cancelReconnect(): the timer is cleared but its entry stays in the map.
MutantCancelled(current) == IF current = "none" THEN "none" ELSE "fired"

\* cancelReconnect(): the timer is cleared and its entry deleted.
Cancelled(current) == "none"

\* wireSession(): what the client does when a session changes state or has closed.
ClientReacts(heard) ==
  /\ held' = [p \in Peers |-> held[p] /\ closed'[p] # "closed" /\ ~GivesUpOnMigration(p)]
  /\ doomed' = [p \in Peers |-> GivesUpOnMigration(p)]
  /\ reconnects' = [p \in Peers |->
       IF Schedules(p) THEN "armed"
       ELSE IF GivesUpOnMigration(p) \/ (Enters(p, "CONNECTED") /\ held[p])
       THEN Cancelled(reconnects[p])
       ELSE reconnects[p]]
  /\ tries' = [p \in Peers |-> IF Schedules(p) THEN 1 ELSE tries[p]]
  /\ migratedUnheard' = [p \in Peers |->
       migratedUnheard[p] /\ p \notin heard /\ ~Schedules(p)]
  /\ UNCHANGED <<strayTimers, dialling>>

\* discardHandle() goes on to close the session, in the same turn.
Discard(p) ==
  /\ doomed[p]
  /\ doomed' = [doomed EXCEPT ![p] = FALSE]
  /\ \/ BeginClose(p, wire)
     \/ closed[p] # "open" /\ UNCHANGED <<closed, wire>>
  /\ UNCHANGED <<state, handshake, handshakeOutbox, handshakeAttempts, handshakeRetryTimer, secure,
                 confirmationPending, link, paused, watched, ends, opened, losses, outages,
                 held, reconnects, strayTimers, dialling, tries, migratedUnheard>>

-----------------------------------------------------------------------------
\* A retry timer fires: the map's own, or one it no longer remembers.
TimerFires(p) ==
  \/ /\ reconnects[p] = "armed"
     /\ UNCHANGED strayTimers
  \/ /\ strayTimers[p] > 0
     /\ strayTimers' = [strayTimers EXCEPT ![p] = @ - 1]

\* What the timer leaves in the map when its attempt goes on.
AfterFiring(p) == IF strayTimers'[p] = strayTimers[p] THEN "fired" ELSE reconnects[p]

Wanted(p) == held[p] /\ state[p] = "RECONNECTING"

\* attempt(): the session no longer needs a link.
AttemptEnds(p) ==
  /\ TimerFires(p)
  /\ ~Wanted(p)
  /\ reconnects' = [reconnects EXCEPT ![p] = Cancelled(@)]
  /\ UNCHANGED <<vars, held, doomed, dialling, tries, migratedUnheard>>

\* Mutant of attempt(): the policy is exhausted and the handle is left alone.
MutantAttemptGivesUp(p) ==
  /\ TimerFires(p)
  /\ Wanted(p)
  /\ tries[p] > MaxTries
  /\ reconnects' = [reconnects EXCEPT ![p] = Cancelled(@)]
  /\ UNCHANGED <<vars, held, doomed, dialling, tries, migratedUnheard>>

\* attempt(): the policy is exhausted and the handle is discarded.
AttemptGivesUp(p) ==
  /\ TimerFires(p)
  /\ Wanted(p)
  /\ tries[p] > MaxTries
  /\ reconnects' = [reconnects EXCEPT ![p] = Cancelled(@)]
  /\ held' = [held EXCEPT ![p] = FALSE]
  /\ doomed' = [doomed EXCEPT ![p] = TRUE]
  /\ UNCHANGED <<vars, dialling, tries, migratedUnheard>>

\* attempt(): redial() up to its await.
AttemptDials(p) ==
  /\ TimerFires(p)
  /\ Wanted(p)
  /\ tries[p] <= MaxTries
  /\ reconnects' = [reconnects EXCEPT ![p] = AfterFiring(p)]
  /\ dialling' = [dialling EXCEPT ![p] = @ + 1]
  /\ UNCHANGED <<vars, held, doomed, tries, migratedUnheard>>

\* redial() returned false: the next attempt is scheduled, over whatever timer the
\* map holds.
Rearm(p) ==
  /\ dialling[p] > 0
  /\ dialling' = [dialling EXCEPT ![p] = @ - 1]
  /\ strayTimers' = [strayTimers EXCEPT ![p] = IF reconnects[p] = "armed" THEN @ + 1 ELSE @]
  /\ reconnects' = [reconnects EXCEPT ![p] = "armed"]
  /\ tries' = [tries EXCEPT ![p] = @ + 1]
  /\ UNCHANGED <<held, doomed, migratedUnheard>>

\* redial(): there is no endpoint to dial, or the radio could not.
DialFails(p) ==
  /\ Rearm(p)
  /\ UNCHANGED vars

\* redial(): the link is up, but the session went away meanwhile; it is closed.
DialSuperseded(p) ==
  /\ ~held[p] \/ ~secure[p]
  /\ opened < MaxLinks
  /\ opened' = opened + 1
  /\ ends' = ends \union {<<Other(p), opened'>>}
  /\ Rearm(p)
  /\ UNCHANGED <<sessionVars, wire, losses, outages>>

\* redial(): the session migrates to the link that was dialled, whatever state it
\* is in by now.
DialSucceeds(p) ==
  /\ dialling[p] > 0
  /\ held[p] /\ secure[p]
  /\ opened < MaxLinks
  /\ opened' = opened + 1
  /\ MigrateToLink(p, opened', ends \union {<<q, opened'>> : q \in Peers}, wire)
  /\ dialling' = [dialling EXCEPT ![p] = @ - 1]
  /\ reconnects' = [reconnects EXCEPT ![p] = Cancelled(@)]
  /\ migratedUnheard' = [migratedUnheard EXCEPT ![p] = TRUE]
  /\ UNCHANGED <<held, doomed, strayTimers, tries>>

\* IncomingLinkRouter: the frame names a session this phone does not hold.
TurnAway(p) ==
  /\ ~(held[p] /\ secure[p] /\ closed[p] = "open")
  /\ \E d \in wire :
       /\ d.to = p
       /\ d.link # link[p]
       /\ <<p, d.link>> \in ends
       /\ ends' = ends \ {<<p, d.link>>}
       /\ wire' = wire \ {d}
  /\ UNCHANGED <<sessionVars, opened, losses, outages, clientVars>>

\* IncomingLinkRouter: the link has said nothing that identifies it in time.
DecisionTimeout(p) ==
  /\ \E l \in Links :
       /\ <<p, l>> \in ends
       /\ link[p] # l
       /\ ends' = ends \ {<<p, l>>}
  /\ UNCHANGED <<sessionVars, opened, wire, losses, outages, clientVars>>

-----------------------------------------------------------------------------
ClientStep(p) ==
  \/ AttemptEnds(p)
  \/ AttemptGivesUp(p)
  \/ AttemptDials(p)
  \/ DialFails(p)
  \/ DialSuperseded(p)
  \/ DialSucceeds(p)
  \/ TurnAway(p)
  \/ DecisionTimeout(p)

\* A session step, and the client's reaction to it.
Reacting ==
  \/ LifeStep /\ ClientReacts({})
  \/ \E p \in Peers :
       \/ HandleSecureFrame(p) /\ ClientReacts({q \in {p} : secure[q]})
       \/ StateTimeout(p) /\ ClientReacts({})
       \/ held[p] /\ ResumeOnIncomingLink(p) /\ ClientReacts({p})

ResumeNext ==
  \/ /\ \A p \in Peers : ~doomed[p]
     /\ Reacting \/ \E p \in Peers : ClientStep(p)
  \/ \E p \in Peers : Discard(p)

ResumeSpec == ResumeInit /\ [][ResumeNext]_resumeVars

\* Timers fire, dials end, links that are closed are reported closed, datagrams
\* that are not lost arrive, close() ends, and a ceremony that the users leave
\* undecided is refused by its own timer.
ResumeFairness ==
  \A p \in Peers :
    /\ WF_resumeVars(Discard(p))
    /\ WF_resumeVars(AttemptEnds(p) \/ AttemptGivesUp(p) \/ AttemptDials(p))
    /\ WF_resumeVars(DialFails(p) \/ DialSuperseded(p) \/ DialSucceeds(p))
    /\ WF_resumeVars(TurnAway(p))
    /\ WF_resumeVars(DecisionTimeout(p))
    /\ WF_resumeVars(FinishClose(p) /\ ClientReacts({}))
    /\ WF_resumeVars((ConfirmPairing(p) \/ RefusePairing(p)) /\ ClientReacts({}))
    /\ WF_resumeVars(LivenessExpires(p) /\ ClientReacts({}))
    /\ WF_resumeVars(LinkDown(p) /\ ClientReacts({}))
    /\ WF_resumeVars(HandleSecureFrame(p) /\ ClientReacts({q \in {p} : secure[q]}))

FairResumeSpec == ResumeSpec /\ ResumeFairness

-----------------------------------------------------------------------------
(***************************************************************************)
(* Correctness.                                                            *)
(***************************************************************************)
\* "Dial again, because nothing else was going to": a session the client holds
\* never sits in RECONNECTING without a timer or a dial that will supply its next
\* link, whatever stale timers, superseded dials and incoming links did to the map.
ReconnectIsDriven ==
  \A p \in Peers :
    state[p] = "RECONNECTING" /\ held[p]
      => reconnects[p] = "armed" \/ strayTimers[p] > 0 \/ dialling[p] > 0

\* RECONNECTING is left: the session gets a link or is given up.
ReconnectSettles ==
  \A p \in Peers : (state[p] = "RECONNECTING") ~> (state[p] # "RECONNECTING")

\* Once the radio behaves, the two phones agree: both hold the session on one link
\* that is up at both ends, or neither holds it.
Together == /\ \E l \in Links : \A p \in Peers : link[p] = l /\ <<p, l>> \in ends
            /\ \A p \in Peers : state[p] = "CONNECTED"

Apart    == \A p \in Peers : closed[p] = "closed"

PhonesAgree == <>[](Together \/ Apart)

\* An outage does not last, and does not leave one phone alone with the session.
OutageIsOvercome == ReconnectSettles /\ PhonesAgree

=============================================================================
