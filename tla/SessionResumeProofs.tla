------------------------- MODULE SessionResumeProofs -------------------------
(***************************************************************************)
(* Whatever becomes of its links, a session that reads CONNECTED is        *)
(* watched and its channels run, and one that is RECONNECTING has          *)
(* something under way that will supply its next link.                     *)
(***************************************************************************)
EXTENDS SessionResume, TLAPS

States == {"DISCONNECTED", "CONNECTING", "AUTHENTICATING", "PAIRING", "CONNECTED",
           "RECONNECTING", "FAILED"}

SessionTypeOK ==
  /\ state \in [Peers -> States]
  /\ closed \in [Peers -> {"open", "closing", "closed"}]
  /\ link \in [Peers -> Nat]
  /\ paused \in [Peers -> BOOLEAN]
  /\ watched \in [Peers -> BOOLEAN]
  /\ confirmationPending \in [Peers -> BOOLEAN]
  /\ ends \subseteq Peers \X Nat
  /\ opened \in Nat

\* No end is open, and no session is on a link, that has not been opened yet.
LinksAreOpened ==
  /\ \A p \in Peers : link[p] <= opened
  /\ \A e \in ends : e[2] <= opened

\* A friend is never asked to compare the code.
FriendsAreNotAsked == \A p \in Recognised : ~confirmationPending[p]

SessionInv ==
  SessionTypeOK /\ LinksAreOpened /\ FriendsAreNotAsked /\ ConnectedIsWatched /\ ChannelsRun

-----------------------------------------------------------------------------
(* The state machine. *)

\* transitionTo() goes where it is asked or stays.
LEMMA Transitions ==
  ASSUME NEW s \in States, NEW n \in States
  PROVE  /\ TransitionTo(s, n) \in States
         /\ TransitionTo(s, n) \in {s, n}
         /\ n \in {"RECONNECTING", "FAILED", "DISCONNECTED"} => TransitionTo(s, n) # "CONNECTED"
         /\ n = "CONNECTED" => TransitionTo(s, n) # "RECONNECTING"
  BY DEF TransitionTo, TRANSITIONS, States

\* What moveTo() does to the states.
LEMMA MovedFacts ==
  ASSUME SessionTypeOK, NEW p \in Peers, NEW n \in States, Moved(p, n)
  PROVE  /\ state' \in [Peers -> States]
         /\ \A q \in Peers : q # p => state'[q] = state[q]
         /\ state'[p] \in {state[p], n}
         /\ n \in {"RECONNECTING", "FAILED", "DISCONNECTED"} => state'[p] # "CONNECTED"
         /\ n = "CONNECTED" => state'[p] # "RECONNECTING"
<1>1. state[p] \in States /\ state' = [state EXCEPT ![p] = TransitionTo(state[p], n)]
  BY DEF SessionTypeOK, Moved
<1>2. /\ TransitionTo(state[p], n) \in States
      /\ TransitionTo(state[p], n) \in {state[p], n}
      /\ n \in {"RECONNECTING", "FAILED", "DISCONNECTED"} => TransitionTo(state[p], n) # "CONNECTED"
      /\ n = "CONNECTED" => TransitionTo(state[p], n) # "RECONNECTING"
  BY <1>1, Transitions
<1> QED BY <1>1, <1>2 DEF SessionTypeOK

\* A step after which no session is CONNECTED or open that was not, no link or timer
\* has changed, and no end has opened.
LEMMA QuietKeeps ==
  ASSUME SessionInv,
         state' \in [Peers -> States],
         \A q \in Peers : state'[q] = "CONNECTED" => state[q] = "CONNECTED",
         closed' \in [Peers -> {"open", "closing", "closed"}],
         \A q \in Peers : closed'[q] = "open" => closed[q] = "open",
         confirmationPending' \in [Peers -> BOOLEAN],
         \A q \in Recognised : confirmationPending'[q] => confirmationPending[q],
         ends' \subseteq ends,
         UNCHANGED <<link, opened, paused, watched>>
  PROVE  SessionInv'
<1>1. SessionTypeOK' /\ LinksAreOpened' /\ FriendsAreNotAsked'
  BY DEF SessionInv, SessionTypeOK, LinksAreOpened, FriendsAreNotAsked
<1>2. ConnectedIsWatched' /\ ChannelsRun'
  BY ConstantsAssumption DEF SessionInv, ConnectedIsWatched, ChannelsRun
<1> QED BY <1>1, <1>2 DEF SessionInv

\* One session leaves CONNECTED, or was not; the others are as they were.
LEMMA LeavingKeeps ==
  ASSUME SessionInv, NEW p \in Peers,
         state' \in [Peers -> States], state'[p] # "CONNECTED",
         \A q \in Peers : q # p => state'[q] = state[q],
         closed' \in [Peers -> {"open", "closing", "closed"}],
         \A q \in Peers : closed'[q] = "open" => closed[q] = "open",
         paused' \in [Peers -> BOOLEAN] /\ \A q \in Peers : q # p => paused'[q] = paused[q],
         watched' \in [Peers -> BOOLEAN] /\ \A q \in Peers : q # p => watched'[q] = watched[q],
         link' \in [Peers -> Nat] /\ \A q \in Peers : q # p => link'[q] = link[q],
         link'[p] <= opened,
         ends' \subseteq ends,
         UNCHANGED <<opened, confirmationPending>>
  PROVE  SessionInv'
<1>1. SessionTypeOK' /\ LinksAreOpened' /\ FriendsAreNotAsked'
  BY DEF SessionInv, SessionTypeOK, LinksAreOpened, FriendsAreNotAsked
<1>2. ConnectedIsWatched' /\ ChannelsRun'
  BY ConstantsAssumption DEF SessionInv, ConnectedIsWatched, ChannelsRun
<1> QED BY <1>1, <1>2 DEF SessionInv

-----------------------------------------------------------------------------
(* The handshake. *)

\* The first link: the initiator authenticates, the responder is told of it.
LEMMA StartAsInitiatorKeeps == ASSUME SessionInv, StartAsInitiator PROVE SessionInv'
<1>1. /\ opened = 0 /\ opened' = 1
      /\ ends' = {<<q, 1>> : q \in Peers}
      /\ link' = [link EXCEPT ![Initiator] = 1]
      /\ state' = [state EXCEPT ![Initiator] = "AUTHENTICATING"]
      /\ UNCHANGED <<confirmationPending, closed, paused, watched>>
  BY DEF StartAsInitiator
<1>2. Initiator \in Peers
  BY DEF Peers
<1>3. SessionTypeOK'
  BY <1>1, <1>2 DEF SessionInv, SessionTypeOK, States
<1>4. LinksAreOpened' /\ FriendsAreNotAsked'
  BY <1>1, <1>2 DEF SessionInv, SessionTypeOK, LinksAreOpened, FriendsAreNotAsked
<1>5. ConnectedIsWatched'
  BY <1>1 DEF SessionInv, SessionTypeOK, ConnectedIsWatched
<1>6. ChannelsRun'
  <2> SUFFICES ASSUME NEW p \in Recognised, state'[p] = "CONNECTED", <<p, link'[p]>> \in ends'
               PROVE FALSE
    BY DEF ChannelsRun
  <2>1. p \in Peers /\ p # Initiator /\ link'[p] = 1
    BY <1>1, ConstantsAssumption DEF SessionInv, SessionTypeOK
  <2> QED BY <1>1, <2>1 DEF SessionInv, SessionTypeOK, LinksAreOpened
<1> QED BY <1>3, <1>4, <1>5, <1>6 DEF SessionInv

\* The responder's session takes the link its first frame came on.
LEMMA IntroduceKeeps == ASSUME SessionInv, Introduce PROVE SessionInv'
<1>1. PICK d \in wire :
        /\ <<Responder, d.link>> \in ends
        /\ link' = [link EXCEPT ![Responder] = d.link]
  BY DEF Introduce
<1>2. /\ state' = [state EXCEPT ![Responder] = "AUTHENTICATING"]
      /\ UNCHANGED <<confirmationPending, closed, paused, watched, ends, opened>>
  BY DEF Introduce, radioVars
<1>3. Responder \in Peers /\ d.link \in Nat /\ d.link <= opened
  BY <1>1 DEF SessionInv, SessionTypeOK, LinksAreOpened, Peers
<1> QED BY <1>1, <1>2, <1>3, LeavingKeeps DEF SessionInv, SessionTypeOK, States

\* completeHandshake(), for a stranger and for a friend.
LEMMA CompleteHandshakeKeeps ==
  ASSUME SessionInv, NEW p \in Peers, CompleteHandshake(p),
         UNCHANGED <<closed, link, ends, opened>>
  PROVE  SessionInv'
<1>1. confirmationPending' = [confirmationPending EXCEPT ![p] = p \notin Recognised]
  BY DEF CompleteHandshake
<1>2. CASE p \notin Recognised /\ Moved(p, "PAIRING") /\ UNCHANGED <<paused, watched>>
  <2>1. /\ state' \in [Peers -> States]
        /\ \A q \in Peers : state'[q] = "CONNECTED" => state[q] = "CONNECTED"
    BY <1>2, MovedFacts DEF SessionInv, States
  <2> QED BY <1>1, <1>2, <2>1, ConstantsAssumption, QuietKeeps DEF SessionInv, SessionTypeOK
<1>3. CASE /\ p \in Recognised /\ Moved(p, "CONNECTED")
           /\ paused' = [paused EXCEPT ![p] = FALSE]
           /\ watched' = [watched EXCEPT ![p] = TRUE]
  <2>1. state' \in [Peers -> States] /\ \A q \in Peers : q # p => state'[q] = state[q]
    BY <1>3, MovedFacts DEF SessionInv, States
  <2>2. SessionTypeOK' /\ LinksAreOpened' /\ FriendsAreNotAsked'
    BY <1>1, <1>3, <2>1, ConstantsAssumption
    DEF SessionInv, SessionTypeOK, LinksAreOpened, FriendsAreNotAsked
  <2>3. ConnectedIsWatched' /\ ChannelsRun'
    BY <1>3, <2>1, ConstantsAssumption DEF SessionInv, SessionTypeOK, ConnectedIsWatched, ChannelsRun
  <2> QED BY <2>2, <2>3 DEF SessionInv
<1> QED BY <1>2, <1>3 DEF CompleteHandshake

\* A handshake frame moves the handshake on, or completes it.
LEMMA HandleHandshakeFrameKeeps ==
  ASSUME SessionInv, NEW p \in Peers, NEW m, HandleHandshakeFrame(p, m) PROVE SessionInv'
<1>1. UNCHANGED <<closed, link, ends, opened>>
  BY DEF HandleHandshakeFrame
<1>2. ASSUME UNCHANGED <<state, confirmationPending, paused, watched>>  PROVE SessionInv'
  BY <1>1, <1>2, ConstantsAssumption, QuietKeeps DEF SessionInv, SessionTypeOK
<1>3. ASSUME NEW d, ReadInit(p, d)  PROVE SessionInv'
  BY <1>2, <1>3 DEF ReadInit
<1>4. ASSUME NEW d, ReadInitiatorAuth(p, d) \/ ReadResponderAuth(p, d)  PROVE SessionInv'
  BY <1>1, <1>4, CompleteHandshakeKeeps DEF ReadInitiatorAuth, ReadResponderAuth
<1>5. ASSUME NEW d, ReadResponse(p, d)  PROVE SessionInv'
  BY <1>2, <1>5 DEF ReadResponse
<1>6. ASSUME NEW d, RejectHandshake(p, d)  PROVE SessionInv'
  <2>1. Moved(p, "FAILED") /\ UNCHANGED <<confirmationPending, paused, watched>>
    BY <1>6 DEF RejectHandshake
  <2>2. /\ state' \in [Peers -> States]
        /\ \A q \in Peers : state'[q] = "CONNECTED" => state[q] = "CONNECTED"
    BY <2>1, MovedFacts DEF SessionInv, States
  <2> QED BY <1>1, <2>1, <2>2, ConstantsAssumption, QuietKeeps DEF SessionInv, SessionTypeOK
<1> QED BY <1>2, <1>3, <1>4, <1>5, <1>6 DEF HandleHandshakeFrame

\* Steps that change nothing the invariant speaks of.
LEMMA UntouchedKeeps ==
  ASSUME SessionInv, UNCHANGED <<state, closed, link, paused, watched, confirmationPending>>,
         ends' \subseteq ends, UNCHANGED opened
  PROVE  SessionInv'
  BY ConstantsAssumption, QuietKeeps DEF SessionInv, SessionTypeOK

\* The handshake: frames, retransmissions and the 15 s of the state machine.
LEMMA HandshakeStepKeeps == ASSUME SessionInv, HandshakeStep PROVE SessionInv'
<1>1. CASE SendResponderAuth
  BY <1>1, UntouchedKeeps DEF SendResponderAuth
<1>2. ASSUME NEW p \in Peers, HandshakeRetry(p)  PROVE SessionInv'
  BY <1>2, UntouchedKeeps DEF HandshakeRetry
<1>3. ASSUME NEW p \in Peers, StateTimeout(p)  PROVE SessionInv'
  <2>1. Moved(p, "FAILED") /\ UNCHANGED <<confirmationPending, closed, link, paused, watched, ends, opened>>
    BY <1>3 DEF StateTimeout, radioVars
  <2>2. /\ state' \in [Peers -> States]
        /\ \A q \in Peers : state'[q] = "CONNECTED" => state[q] = "CONNECTED"
    BY <2>1, MovedFacts DEF SessionInv, States
  <2> QED BY <2>1, <2>2, ConstantsAssumption, QuietKeeps DEF SessionInv, SessionTypeOK
<1> QED BY <1>1, <1>2, <1>3, StartAsInitiatorKeeps, IntroduceKeeps, HandleHandshakeFrameKeeps
    DEF HandshakeStep

-----------------------------------------------------------------------------
(* Users, timers, and what the radio does. *)

\* confirmPairing() enters CONNECTED and starts watching, on a session still to be confirmed.
LEMMA ConfirmPairingKeeps ==
  ASSUME SessionInv, NEW p \in Peers, ConfirmPairing(p) PROVE SessionInv'
<1>1. /\ confirmationPending[p] /\ Moved(p, "CONNECTED")
      /\ confirmationPending' = [confirmationPending EXCEPT ![p] = FALSE]
      /\ watched' = [watched EXCEPT ![p] = TRUE]
      /\ UNCHANGED <<closed, link, paused, ends, opened>>
  BY DEF ConfirmPairing, radioVars
<1>2. p \notin Recognised
  BY <1>1 DEF SessionInv, FriendsAreNotAsked
<1>3. state' \in [Peers -> States] /\ \A q \in Peers : q # p => state'[q] = state[q]
  BY <1>1, MovedFacts DEF SessionInv, States
<1>4. SessionTypeOK' /\ LinksAreOpened' /\ FriendsAreNotAsked'
  BY <1>1, <1>3, ConstantsAssumption
  DEF SessionInv, SessionTypeOK, LinksAreOpened, FriendsAreNotAsked
<1>5. ConnectedIsWatched' /\ ChannelsRun'
  BY <1>1, <1>2, <1>3, ConstantsAssumption
  DEF SessionInv, SessionTypeOK, ConnectedIsWatched, ChannelsRun
<1> QED BY <1>4, <1>5 DEF SessionInv

\* close() up to its await.
LEMMA ClosingKeeps ==
  ASSUME SessionInv, NEW p \in Peers,
         closed' = [closed EXCEPT ![p] = "closing"],
         confirmationPending' \in [Peers -> BOOLEAN],
         \A q \in Recognised : confirmationPending'[q] => confirmationPending[q],
         UNCHANGED <<state, link, paused, watched, ends, opened>>
  PROVE  SessionInv'
  BY QuietKeeps DEF SessionInv, SessionTypeOK

\* refusePairing() closes the session.
LEMMA RefusePairingKeeps ==
  ASSUME SessionInv, NEW p \in Peers, RefusePairing(p) PROVE SessionInv'
  BY ConstantsAssumption, ClosingKeeps DEF RefusePairing, BeginClose, SessionInv, SessionTypeOK

\* close() begins, by either side's wish.
LEMMA CloseKeeps == ASSUME SessionInv, NEW p \in Peers, Close(p) PROVE SessionInv'
  BY ConstantsAssumption, ClosingKeeps DEF Close, BeginClose, SessionInv, SessionTypeOK

\* The end of close(): no watching, no link, no open end.
LEMMA FinishCloseKeeps == ASSUME SessionInv, NEW p \in Peers, FinishClose(p) PROVE SessionInv'
<1>1. /\ Moved(p, "DISCONNECTED")
      /\ closed' = [closed EXCEPT ![p] = "closed"]
      /\ watched' = [watched EXCEPT ![p] = FALSE]
      /\ link' = [link EXCEPT ![p] = NoLink]
      /\ ends' \subseteq ends
      /\ UNCHANGED <<confirmationPending, paused, opened>>
  BY DEF FinishClose
<1>2. /\ state' \in [Peers -> States] /\ state'[p] # "CONNECTED"
      /\ \A q \in Peers : q # p => state'[q] = state[q]
  BY <1>1, MovedFacts DEF SessionInv, States
<1>3. /\ closed' \in [Peers -> {"open", "closing", "closed"}]
      /\ \A q \in Peers : closed'[q] = "open" => closed[q] = "open"
      /\ watched' \in [Peers -> BOOLEAN] /\ \A q \in Peers : q # p => watched'[q] = watched[q]
      /\ link' \in [Peers -> Nat] /\ \A q \in Peers : q # p => link'[q] = link[q]
      /\ link'[p] <= opened
  BY <1>1 DEF SessionInv, SessionTypeOK, NoLink
<1> QED BY <1>1, <1>2, <1>3, LeavingKeeps DEF SessionInv, SessionTypeOK

\* A BYE closes; any other secure frame changes nothing here.
LEMMA HandleSecureFrameKeeps ==
  ASSUME SessionInv, NEW p \in Peers, HandleSecureFrame(p) PROVE SessionInv'
<1>1. UNCHANGED <<state, confirmationPending, link, paused, watched, ends, opened>>
  BY DEF HandleSecureFrame
<1>2. closed' = [closed EXCEPT ![p] = "closing"] \/ UNCHANGED closed
  BY DEF HandleSecureFrame, BeginClose
<1> QED BY <1>1, <1>2, ConstantsAssumption, ClosingKeeps, UntouchedKeeps DEF SessionInv, SessionTypeOK

\* Silence: watching stops, the channels pause, the state leaves CONNECTED.
LEMMA LivenessExpiresKeeps ==
  ASSUME SessionInv, NEW p \in Peers, LivenessExpires(p) PROVE SessionInv'
<1>1. /\ Moved(p, "RECONNECTING")
      /\ watched' = [watched EXCEPT ![p] = FALSE]
      /\ paused' = [paused EXCEPT ![p] = TRUE]
      /\ UNCHANGED <<confirmationPending, closed, link, ends, opened>>
  BY DEF LivenessExpires
<1>2. /\ state' \in [Peers -> States] /\ state'[p] # "CONNECTED"
      /\ \A q \in Peers : q # p => state'[q] = state[q]
  BY <1>1, MovedFacts DEF SessionInv, States
<1> QED BY <1>1, <1>2, LeavingKeeps DEF SessionInv, SessionTypeOK, LinksAreOpened

\* The link goes down: the same, or the handshake has failed.
LEMMA LinkDownKeeps == ASSUME SessionInv, NEW p \in Peers, LinkDown(p) PROVE SessionInv'
<1>1. ends' \subseteq ends /\ UNCHANGED <<confirmationPending, closed, link, opened>>
  BY DEF LinkDown
<1>2. CASE /\ paused' = [paused EXCEPT ![p] = TRUE]
           /\ watched' = [watched EXCEPT ![p] = FALSE]
           /\ Moved(p, IF secure[p] THEN "RECONNECTING" ELSE "FAILED")
  <2>1. /\ state' \in [Peers -> States] /\ state'[p] # "CONNECTED"
        /\ \A q \in Peers : q # p => state'[q] = state[q]
    BY <1>2, MovedFacts DEF SessionInv, States
  <2> QED BY <1>1, <1>2, <2>1, LeavingKeeps DEF SessionInv, SessionTypeOK, LinksAreOpened
<1>3. CASE UNCHANGED <<paused, watched, state>>
  BY <1>1, <1>3, UntouchedKeeps
<1> QED BY <1>2, <1>3 DEF LinkDown

\* The steps of a session's life other than handshake and migration.
LEMMA LifeStepKeeps == ASSUME SessionInv, LifeStep PROVE SessionInv'
<1>1. CASE Lose
  BY <1>1, UntouchedKeeps DEF Lose, sessionVars
<1>2. ASSUME NEW p \in Peers, SendKeepalive(p)  PROVE SessionInv'
  BY <1>2, UntouchedKeeps DEF SendKeepalive, sessionVars
<1> QED BY <1>1, <1>2, ConfirmPairingKeeps, RefusePairingKeeps, CloseKeeps, FinishCloseKeeps,
           LivenessExpiresKeeps, LinkDownKeeps
    DEF LifeStep

-----------------------------------------------------------------------------
(* A new link. *)

\* migrateToLink(), to a link that is open by now; ends may open with it, but none on
\* a link that was open before.
LEMMA MigrateToLinkKeeps ==
  ASSUME SessionInv, NEW p \in Peers, NEW l \in Nat, NEW live \in SUBSET (Peers \X Nat),
         NEW remaining, MigrateToLink(p, l, live, remaining),
         opened' \in Nat, opened <= opened', l <= opened',
         \A e \in live : e[2] <= opened',
         \A e \in live : e \in ends \/ e[2] > opened
  PROVE  SessionInv'
<1>1. /\ ends' \subseteq live
      /\ link' = [link EXCEPT ![p] = l]
      /\ paused' = [paused EXCEPT ![p] = FALSE]
      /\ Moved(p, "CONNECTED")
      /\ watched' = [watched EXCEPT ![p] = TRUE]
      /\ UNCHANGED <<confirmationPending, closed>>
  BY DEF MigrateToLink
<1>2. state' \in [Peers -> States] /\ \A q \in Peers : q # p => state'[q] = state[q]
  BY <1>1, MovedFacts DEF SessionInv, States
<1>3. SessionTypeOK' /\ FriendsAreNotAsked'
  BY <1>1, <1>2 DEF SessionInv, SessionTypeOK, FriendsAreNotAsked
<1>4. LinksAreOpened'
  BY <1>1 DEF SessionInv, SessionTypeOK, LinksAreOpened
<1>5. ConnectedIsWatched'
  BY <1>1, <1>2 DEF SessionInv, SessionTypeOK, ConnectedIsWatched
<1>6. ChannelsRun'
  <2> SUFFICES ASSUME NEW q \in Recognised, state'[q] = "CONNECTED", <<q, link'[q]>> \in ends'
               PROVE ~paused'[q]
    BY DEF ChannelsRun
  <2>1. q \in Peers
    BY ConstantsAssumption
  <2>2. CASE q = p
    BY <1>1, <2>1, <2>2 DEF SessionInv, SessionTypeOK
  <2>3. CASE q # p
    <3>1. link'[q] = link[q] /\ state[q] = "CONNECTED" /\ paused'[q] = paused[q]
      BY <1>1, <1>2, <2>1, <2>3 DEF SessionInv, SessionTypeOK
    <3>2. <<q, link[q]>> \in live /\ link[q] \in Nat /\ link[q] <= opened
      BY <1>1, <2>1, <3>1 DEF SessionInv, SessionTypeOK, LinksAreOpened
    <3>3. <<q, link[q]>> \in ends
      BY <3>2 DEF SessionInv, SessionTypeOK
    <3> QED BY <3>1, <3>3 DEF SessionInv, ChannelsRun
  <2> QED BY <2>2, <2>3
<1> QED BY <1>3, <1>4, <1>5, <1>6 DEF SessionInv

\* A link just dialled.
LEMMA FreshLinkKeeps ==
  ASSUME SessionInv, NEW p \in Peers, opened' = opened + 1,
         MigrateToLink(p, opened', ends \union {<<q, opened'>> : q \in Peers}, wire)
  PROVE  SessionInv'
<1> DEFINE live == ends \union {<<q, opened'>> : q \in Peers}
<1>1. opened \in Nat /\ opened' \in Nat /\ opened <= opened'
  BY DEF SessionInv, SessionTypeOK
<1>2. live \in SUBSET (Peers \X Nat)
  BY <1>1 DEF SessionInv, SessionTypeOK
<1>3. \A e \in live : e[2] <= opened' /\ (e \in ends \/ e[2] > opened)
  BY <1>1, <1>2 DEF SessionInv, SessionTypeOK, LinksAreOpened
<1> HIDE DEF live
<1>4. MigrateToLink(p, opened', live, wire)
  BY DEF live
<1> QED BY <1>1, <1>2, <1>3, <1>4, MigrateToLinkKeeps

\* A session that reconnects moves to a link of its own making.
LEMMA MigrateKeeps == ASSUME SessionInv, NEW p \in Peers, Migrate(p) PROVE SessionInv'
  BY FreshLinkKeeps DEF Migrate

\* A session that reconnects moves to a link the peer made.
LEMMA ResumeOnIncomingLinkKeeps ==
  ASSUME SessionInv, NEW p \in Peers, ResumeOnIncomingLink(p) PROVE SessionInv'
<1>1. PICK d \in wire :
        /\ <<p, d.link>> \in ends
        /\ MigrateToLink(p, d.link, ends, IF d.msg = "BYE" THEN wire ELSE wire \ {d})
  BY DEF ResumeOnIncomingLink
<1>2. UNCHANGED opened
  BY DEF ResumeOnIncomingLink
<1>3. d.link \in Nat /\ d.link <= opened /\ opened \in Nat /\ ends \in SUBSET (Peers \X Nat)
      /\ \A e \in ends : e[2] <= opened
  BY <1>1 DEF SessionInv, SessionTypeOK, LinksAreOpened
<1> QED BY <1>1, <1>2, <1>3, MigrateToLinkKeeps

-----------------------------------------------------------------------------
(* The session, from the first hello on. *)

\* Two sessions without a link are not CONNECTED.
LEMMA SessionInitHolds == Init => SessionInv
<1> SUFFICES ASSUME Init  PROVE SessionInv
  OBVIOUS
<1>1. SessionTypeOK /\ LinksAreOpened /\ FriendsAreNotAsked
  BY ConstantsAssumption
  DEF Init, SessionTypeOK, States, LinksAreOpened, FriendsAreNotAsked, NoLink
<1>2. ConnectedIsWatched /\ ChannelsRun
  BY ConstantsAssumption DEF Init, ConnectedIsWatched, ChannelsRun
<1> QED BY <1>1, <1>2 DEF SessionInv

\* Every step of the two sessions keeps the invariant.
LEMMA SessionStepHolds == SessionInv /\ [Next]_vars => SessionInv'
<1> SUFFICES ASSUME SessionInv, [Next]_vars  PROVE SessionInv'
  OBVIOUS
<1>1. CASE UNCHANGED vars
  BY <1>1, UntouchedKeeps DEF vars, sessionVars, radioVars
<1> QED BY <1>1, HandshakeStepKeeps, LifeStepKeeps, HandleSecureFrameKeeps, MigrateKeeps,
           ResumeOnIncomingLinkKeeps
    DEF Next

\* The invariant of the sessions, in every reachable state.
LEMMA SessionInvHolds == Spec => []SessionInv
<1>1. Init => SessionInv
  BY SessionInitHolds
<1>2. SessionInv /\ [Next]_vars => SessionInv'
  BY SessionStepHolds
<1> QED BY <1>1, <1>2, PTL DEF Spec

\* ConnectedIsWatched, of peerSession.ts: from the handshake, the confirmation or a
\* migration on, over any number of links, losses and outages, CONNECTED is watched by
\* the liveness timer.
THEOREM ConnectedStaysWatched == Spec => []ConnectedIsWatched
<1>1. SessionInv => ConnectedIsWatched
  BY DEF SessionInv
<1> QED BY <1>1, SessionInvHolds, PTL

\* ChannelsRun, of peerSession.ts: the channels of a friend's session that is CONNECTED
\* on a working link are never left paused.
THEOREM FriendsChannelsRun == Spec => []ChannelsRun
<1>1. SessionInv => ChannelsRun
  BY DEF SessionInv
<1> QED BY <1>1, SessionInvHolds, PTL

-----------------------------------------------------------------------------
(* The client that redials. *)

ClientTypeOK ==
  /\ held \in [Peers -> BOOLEAN]
  /\ reconnects \in [Peers -> {"none", "armed", "fired"}]
  /\ strayTimers \in [Peers -> Nat]
  /\ dialling \in [Peers -> Nat]

\* A timer that has fired, and still has its entry, is waiting for its dial.
FiredIsDialling == \A p \in Peers : reconnects[p] = "fired" => dialling[p] > 0

ClientInv == ClientTypeOK /\ FiredIsDialling /\ ReconnectIsDriven

ResumeInv == SessionInv /\ ClientInv

\* Friends are connected, others in mid-pairing, and no client has anything to do.
LEMMA ResumeInitHolds == ResumeInit => ResumeInv
<1> SUFFICES ASSUME ResumeInit  PROVE ResumeInv
  OBVIOUS
<1>1. SessionTypeOK /\ LinksAreOpened /\ FriendsAreNotAsked
  <2>1. state \in [Peers -> States] /\ closed \in [Peers -> {"open", "closing", "closed"}]
    BY DEF ResumeInit, States
  <2>2. link \in [Peers -> Nat] /\ paused \in [Peers -> BOOLEAN] /\ watched \in [Peers -> BOOLEAN]
    BY DEF ResumeInit
  <2>3. confirmationPending \in [Peers -> BOOLEAN] /\ FriendsAreNotAsked
    BY ConstantsAssumption DEF ResumeInit, FriendsAreNotAsked
  <2>4. ends \subseteq Peers \X Nat /\ opened \in Nat
    BY DEF ResumeInit
  <2>5. LinksAreOpened
    BY DEF ResumeInit, LinksAreOpened
  <2> QED BY <2>1, <2>2, <2>3, <2>4, <2>5 DEF SessionTypeOK
<1>2. ConnectedIsWatched /\ ChannelsRun
  BY ConstantsAssumption DEF ResumeInit, ConnectedIsWatched, ChannelsRun
<1>3. ClientInv
  BY DEF ResumeInit, ClientInv, ClientTypeOK, FiredIsDialling, ReconnectIsDriven
<1> QED BY <1>1, <1>2, <1>3 DEF ResumeInv, SessionInv

\* Whatever the session did, the client answers a RECONNECTING with a timer, unless one
\* is armed, a dial is under way, or it gives the session up.
LEMMA ClientReactsKeeps ==
  ASSUME ClientInv, SessionTypeOK, NEW heard, ClientReacts(heard)
  PROVE  ClientInv'
<1>1. /\ held' = [p \in Peers |-> held[p] /\ closed'[p] # "closed" /\ ~GivesUpOnMigration(p)]
      /\ reconnects' = [p \in Peers |->
           IF Schedules(p) THEN "armed"
           ELSE IF GivesUpOnMigration(p) \/ (Enters(p, "CONNECTED") /\ held[p])
           THEN Cancelled(reconnects[p])
           ELSE reconnects[p]]
      /\ UNCHANGED <<strayTimers, dialling>>
  BY DEF ClientReacts
<1>2. held' \in [Peers -> BOOLEAN]
  BY <1>1 DEF ClientInv, ClientTypeOK
<1>3. reconnects' \in [Peers -> {"none", "armed", "fired"}]
  BY <1>1 DEF ClientInv, ClientTypeOK, Cancelled
<1>4. FiredIsDialling'
  BY <1>1 DEF ClientInv, FiredIsDialling, Cancelled
<1>5. ReconnectIsDriven'
  <2> SUFFICES ASSUME NEW p \in Peers, state'[p] = "RECONNECTING", held'[p]
               PROVE  reconnects'[p] = "armed" \/ strayTimers'[p] > 0 \/ dialling'[p] > 0
    BY DEF ReconnectIsDriven
  <2>1. held[p] /\ ~GivesUpOnMigration(p) /\ ~Enters(p, "CONNECTED")
    BY <1>1 DEF Enters
  <2>2. CASE state[p] = "RECONNECTING"
    <3>1. ~Schedules(p)
      BY <2>2 DEF Schedules, Enters
    <3> QED BY <1>1, <2>1, <2>2, <3>1 DEF ClientInv, ReconnectIsDriven
  <2>3. CASE state[p] # "RECONNECTING"
    <3>1. Schedules(p) \/ reconnects[p] # "none"
      BY <2>1, <2>3 DEF Schedules, GivesUpOnMigration, Enters
    <3>2. reconnects'[p] = "armed" \/ reconnects'[p] = reconnects[p]
      BY <1>1, <2>1
    <3> QED BY <1>1, <2>1, <3>1, <3>2 DEF ClientInv, ClientTypeOK, FiredIsDialling
  <2> QED BY <2>2, <2>3
<1> QED BY <1>1, <1>2, <1>3, <1>4, <1>5 DEF ClientInv, ClientTypeOK

\* A step of a session together with what its client makes of it.
LEMMA ReactingKeeps == ASSUME ResumeInv, Reacting PROVE ResumeInv'
<1>1. ASSUME LifeStep \/ (\E p \in Peers : HandleSecureFrame(p) \/ StateTimeout(p)
                                              \/ ResumeOnIncomingLink(p)),
             NEW heard, ClientReacts(heard)
      PROVE  ResumeInv'
  <2>1. ASSUME NEW p \in Peers, StateTimeout(p)  PROVE HandshakeStep
    BY <2>1 DEF HandshakeStep
  <2>2. SessionInv'
    BY <1>1, <2>1, LifeStepKeeps, HandleSecureFrameKeeps, HandshakeStepKeeps,
       ResumeOnIncomingLinkKeeps DEF ResumeInv
  <2>3. ClientInv'
    BY <1>1, ClientReactsKeeps DEF ResumeInv, SessionInv
  <2> QED BY <2>2, <2>3 DEF ResumeInv
<1> QED BY <1>1 DEF Reacting

\* The timer of p fires: no other phone's timers are touched.
LEMMA TimerFiresFacts ==
  ASSUME ClientTypeOK, NEW p \in Peers, TimerFires(p)
  PROVE  /\ strayTimers' \in [Peers -> Nat]
         /\ \A q \in Peers : q # p => strayTimers'[q] = strayTimers[q]
  BY DEF TimerFires, ClientTypeOK

\* The handle of p is not wanted after the step, or it has a timer or a dial; the other
\* phone's client did nothing.
LEMMA OneClientKeeps ==
  ASSUME ClientInv, NEW p \in Peers, ClientTypeOK',
         \A q \in Peers : q # p => /\ state'[q] = state[q]
                                   /\ held'[q] = held[q]
                                   /\ reconnects'[q] = reconnects[q]
                                   /\ strayTimers'[q] = strayTimers[q]
                                   /\ dialling'[q] = dialling[q],
         reconnects'[p] = "fired" => dialling'[p] > 0,
         state'[p] = "RECONNECTING" /\ held'[p]
           => reconnects'[p] = "armed" \/ strayTimers'[p] > 0 \/ dialling'[p] > 0
  PROVE  ClientInv'
  BY DEF ClientInv, FiredIsDialling, ReconnectIsDriven

\* What leaves the sessions alone keeps their invariant.
LEMMA VarsUnchangedKeeps == ASSUME SessionInv, UNCHANGED vars PROVE SessionInv'
  BY UntouchedKeeps DEF vars, sessionVars, radioVars

\* The timer finds nothing left to do.
LEMMA AttemptEndsKeeps == ASSUME ResumeInv, NEW p \in Peers, AttemptEnds(p) PROVE ResumeInv'
<1>1. /\ UNCHANGED <<vars, held, dialling>> /\ TimerFires(p) /\ ~Wanted(p)
      /\ reconnects' = [reconnects EXCEPT ![p] = "none"]
  BY DEF AttemptEnds, Cancelled
<1>2. ClientTypeOK' /\ \A q \in Peers : q # p => strayTimers'[q] = strayTimers[q]
  BY <1>1, TimerFiresFacts DEF ResumeInv, ClientInv, ClientTypeOK
<1>3. ClientInv'
  BY <1>1, <1>2, OneClientKeeps
  DEF ResumeInv, ClientInv, ClientTypeOK, Wanted, vars, sessionVars
<1> QED BY <1>1, <1>3, VarsUnchangedKeeps DEF ResumeInv

\* The attempts are spent: the handle is dropped.
LEMMA AttemptGivesUpKeeps ==
  ASSUME ResumeInv, NEW p \in Peers, AttemptGivesUp(p) PROVE ResumeInv'
<1>1. /\ UNCHANGED <<vars, dialling>> /\ TimerFires(p)
      /\ held' = [held EXCEPT ![p] = FALSE]
      /\ reconnects' = [reconnects EXCEPT ![p] = "none"]
  BY DEF AttemptGivesUp, Cancelled
<1>2. ClientTypeOK' /\ \A q \in Peers : q # p => strayTimers'[q] = strayTimers[q]
  BY <1>1, TimerFiresFacts DEF ResumeInv, ClientInv, ClientTypeOK
<1>3. ClientInv'
  BY <1>1, <1>2, OneClientKeeps DEF ResumeInv, ClientInv, ClientTypeOK, vars, sessionVars
<1> QED BY <1>1, <1>3, VarsUnchangedKeeps DEF ResumeInv

\* The timer fires and dials.
LEMMA AttemptDialsKeeps == ASSUME ResumeInv, NEW p \in Peers, AttemptDials(p) PROVE ResumeInv'
<1>1. /\ UNCHANGED <<vars, held>> /\ TimerFires(p)
      /\ reconnects' = [reconnects EXCEPT ![p] = AfterFiring(p)]
      /\ dialling' = [dialling EXCEPT ![p] = @ + 1]
  BY DEF AttemptDials
<1>2. AfterFiring(p) \in {"none", "armed", "fired"}
  BY DEF AfterFiring, ResumeInv, ClientInv, ClientTypeOK
<1>3. ClientTypeOK' /\ \A q \in Peers : q # p => strayTimers'[q] = strayTimers[q]
  BY <1>1, <1>2, TimerFiresFacts DEF ResumeInv, ClientInv, ClientTypeOK
<1>4. dialling'[p] > 0
  BY <1>1 DEF ResumeInv, ClientInv, ClientTypeOK
<1>5. ClientInv'
  BY <1>1, <1>3, <1>4, OneClientKeeps DEF ResumeInv, ClientInv, ClientTypeOK, vars, sessionVars
<1> QED BY <1>1, <1>5, VarsUnchangedKeeps DEF ResumeInv

\* scheduleReconnect() arms a timer over whatever was there.
LEMMA RearmKeeps ==
  ASSUME ClientInv, SessionTypeOK, NEW p \in Peers, Rearm(p), UNCHANGED state
  PROVE  ClientInv'
<1>1. /\ dialling[p] > 0 /\ dialling' = [dialling EXCEPT ![p] = @ - 1]
      /\ strayTimers' = [strayTimers EXCEPT ![p] = IF reconnects[p] = "armed" THEN @ + 1 ELSE @]
      /\ reconnects' = [reconnects EXCEPT ![p] = "armed"]
      /\ UNCHANGED held
  BY DEF Rearm
<1>2. ClientTypeOK' /\ reconnects'[p] = "armed"
  BY <1>1 DEF ClientInv, ClientTypeOK
<1> QED BY <1>1, <1>2, OneClientKeeps DEF ClientInv, ClientTypeOK

\* A dial whose session went away meanwhile: its link is closed and a timer armed.
LEMMA DialSupersededKeeps ==
  ASSUME ResumeInv, NEW p \in Peers, DialSuperseded(p) PROVE ResumeInv'
<1>1. /\ opened' = opened + 1 /\ ends' = ends \union {<<Other(p), opened'>>}
      /\ Rearm(p)
      /\ UNCHANGED <<state, closed, link, paused, watched, confirmationPending>>
  BY DEF DialSuperseded, sessionVars
<1>2. Other(p) \in Peers /\ opened \in Nat
  BY DEF Other, Peers, ResumeInv, SessionInv, SessionTypeOK
<1>3. SessionTypeOK' /\ LinksAreOpened' /\ FriendsAreNotAsked' /\ ConnectedIsWatched'
  BY <1>1, <1>2
  DEF ResumeInv, SessionInv, SessionTypeOK, LinksAreOpened, FriendsAreNotAsked, ConnectedIsWatched
<1>4. ChannelsRun'
  <2> SUFFICES ASSUME NEW q \in Recognised, state[q] = "CONNECTED", <<q, link[q]>> \in ends'
               PROVE  ~paused[q]
    BY <1>1 DEF ChannelsRun
  <2>1. q \in Peers /\ link[q] # opened'
    BY <1>1, ConstantsAssumption DEF ResumeInv, SessionInv, SessionTypeOK, LinksAreOpened
  <2> QED BY <1>1, <2>1 DEF ResumeInv, SessionInv, ChannelsRun
<1>5. ClientInv'
  BY <1>1, RearmKeeps DEF ResumeInv, SessionInv
<1> QED BY <1>3, <1>4, <1>5 DEF ResumeInv, SessionInv

\* A dial that succeeds: the session migrates and the timer is cancelled.
LEMMA DialSucceedsKeeps ==
  ASSUME ResumeInv, NEW p \in Peers, DialSucceeds(p) PROVE ResumeInv'
<1>1. /\ opened' = opened + 1 /\ dialling[p] > 0
      /\ MigrateToLink(p, opened', ends \union {<<q, opened'>> : q \in Peers}, wire)
      /\ dialling' = [dialling EXCEPT ![p] = @ - 1]
      /\ reconnects' = [reconnects EXCEPT ![p] = "none"]
      /\ UNCHANGED <<held, strayTimers>>
  BY DEF DialSucceeds, Cancelled
<1>2. /\ state'[p] # "RECONNECTING"
      /\ \A q \in Peers : q # p => state'[q] = state[q]
  <2>1. Moved(p, "CONNECTED")
    BY <1>1 DEF MigrateToLink
  <2> QED BY <2>1, MovedFacts DEF ResumeInv, SessionInv, States
<1>3. ClientTypeOK'
  BY <1>1 DEF ResumeInv, ClientInv, ClientTypeOK
<1>4. ClientInv'
  BY <1>1, <1>2, <1>3, OneClientKeeps DEF ResumeInv, ClientInv, ClientTypeOK
<1>5. SessionInv'
  BY <1>1, FreshLinkKeeps DEF ResumeInv
<1> QED BY <1>4, <1>5 DEF ResumeInv

\* Steps of the router and of discardHandle(): the map and its timers are as they were.
LEMMA ClientUntouched ==
  ASSUME ClientInv, UNCHANGED <<state, held, reconnects, strayTimers, dialling>>
  PROVE  ClientInv'
  BY DEF ClientInv, ClientTypeOK, FiredIsDialling, ReconnectIsDriven

\* A link whose frame names a session this phone does not hold is turned away.
LEMMA TurnedAwayKeeps ==
  ASSUME ResumeInv, NEW p \in Peers, TurnAway(p) \/ DecisionTimeout(p) PROVE ResumeInv'
<1>1. ends' \subseteq ends /\ UNCHANGED <<sessionVars, opened, clientVars>>
  BY DEF TurnAway, DecisionTimeout
<1> QED BY <1>1, UntouchedKeeps, ClientUntouched DEF sessionVars, clientVars, ResumeInv

\* discardHandle() goes on to close the session whose handle was dropped.
LEMMA DiscardKeeps == ASSUME ResumeInv, NEW p \in Peers, Discard(p) PROVE ResumeInv'
<1>1. /\ closed' = [closed EXCEPT ![p] = "closing"] \/ UNCHANGED closed
      /\ UNCHANGED <<state, confirmationPending, link, paused, watched, ends, opened,
                     held, reconnects, strayTimers, dialling>>
  BY DEF Discard, BeginClose
<1>2. SessionInv'
  BY <1>1, ConstantsAssumption, ClosingKeeps, UntouchedKeeps
  DEF ResumeInv, SessionInv, SessionTypeOK
<1> QED BY <1>1, <1>2, ClientUntouched DEF ResumeInv

\* Every step of sessions and clients keeps the invariant.
LEMMA ResumeStepHolds == ResumeInv /\ [ResumeNext]_resumeVars => ResumeInv'
<1> SUFFICES ASSUME ResumeInv, [ResumeNext]_resumeVars  PROVE ResumeInv'
  OBVIOUS
<1>1. ASSUME NEW p \in Peers, DialFails(p)  PROVE ResumeInv'
  <2>1. UNCHANGED vars /\ Rearm(p)
    BY <1>1 DEF DialFails
  <2>2. UNCHANGED state
    BY <2>1 DEF vars, sessionVars
  <2> QED BY <2>1, <2>2, VarsUnchangedKeeps, RearmKeeps DEF ResumeInv, SessionInv
<1>2. ASSUME NEW p \in Peers, ClientStep(p)  PROVE ResumeInv'
  BY <1>1, <1>2, AttemptEndsKeeps, AttemptGivesUpKeeps, AttemptDialsKeeps, DialSupersededKeeps,
     DialSucceedsKeeps, TurnedAwayKeeps
  DEF ClientStep
<1>3. CASE UNCHANGED resumeVars
  <2>1. UNCHANGED vars /\ UNCHANGED <<state, held, reconnects, strayTimers, dialling>>
    BY <1>3 DEF resumeVars, clientVars, vars, sessionVars
  <2> QED BY <2>1, VarsUnchangedKeeps, ClientUntouched DEF ResumeInv
<1> QED BY <1>2, <1>3, ReactingKeeps, DiscardKeeps DEF ResumeNext

\* The invariant of sessions and clients, in every reachable state.
LEMMA ResumeInvHolds == ResumeSpec => []ResumeInv
<1>1. ResumeInit => ResumeInv
  BY ResumeInitHolds
<1>2. ResumeInv /\ [ResumeNext]_resumeVars => ResumeInv'
  BY ResumeStepHolds
<1> QED BY <1>1, <1>2, PTL DEF ResumeSpec

\* ReconnectIsDriven, of scheduleReconnect() and redial(): whatever stale timers,
\* superseded dials, incoming links and migrations nobody answers do to the map, and
\* for every retry policy, a held session in RECONNECTING has a timer or a dial.
THEOREM ReconnectingIsDriven == ResumeSpec => []ReconnectIsDriven
<1>1. ResumeInv => ReconnectIsDriven
  BY DEF ResumeInv, ClientInv
<1> QED BY <1>1, ResumeInvHolds, PTL

\* ChannelsRun and ConnectedIsWatched hold as well when the client redials, when a dial
\* ends after the session has moved on, and when links are turned away.
THEOREM ResumedSessionsRun == ResumeSpec => [](ChannelsRun /\ ConnectedIsWatched)
<1>1. ResumeInv => ChannelsRun /\ ConnectedIsWatched
  BY DEF ResumeInv, SessionInv
<1> QED BY <1>1, ResumeInvHolds, PTL

=============================================================================
