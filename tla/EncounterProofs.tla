--------------------------- MODULE EncounterProofs ---------------------------
(***************************************************************************)
(* Theorems about two phones that meet: the ceremony that pairs them, for  *)
(* every budget of resends, acknowledgements and resumptions, and the      *)
(* Bluetooth radio, the dialling and the answering side, for every bound   *)
(* on datagrams, queues, retries, silences and lost acknowledgements.      *)
(*                                                                         *)
(* Mutual consent is a fact about two phones that neither can see alone.   *)
(* It becomes inductive with HeardIsSaid: an acceptance that is in flight, *)
(* or that a phone has recorded as the other's, was made by the other.     *)
(*                                                                         *)
(* That "sent" is true and nobody waits in vain becomes inductive with the *)
(* one datagram h the path holds (Answering): whoever waits is in the      *)
(* queue, once, or is h.  On GATT h is one operation (OneWrite), and the   *)
(* callbacks the stack owes can be numbered so that ghosts come first and  *)
(* the operation in flight last (CallbacksInOrder, AcksInOrder); on L2CAP  *)
(* h is with the writer thread or its one completion is posted (Posting).  *)
(***************************************************************************)
EXTENDS MCEncounter, SequenceTheorems, FiniteSetTheorems, WellFoundedInduction, TLAPS

\* An acceptance on the wire or on record was made by the phone it came from; a
\* both-confirmed ceremony has two on record; a decision is repeated only once made.
HeardIsSaid ==
  \A p \in Phones :
    /\ To(Other(p), "accept") \in wire => ceremony[p].local = "accept"
    /\ ceremony[p].remote = "accept" => ceremony[Other(p)].local = "accept"
    /\ ceremony[p].state = "both-confirmed" =>
         ceremony[p].local = "accept" /\ ceremony[p].remote = "accept"
    /\ ceremony[p].resendTimer => ceremony[p].local # "none"

\* A friend was recorded by a ceremony that both confirmed, and a session that
\* stopped waiting had a ground for it.
Grounds ==
  \A p \in Phones :
    /\ p \in friends => ceremony[p].state = "both-confirmed"
    /\ session[p] = "open" /\ ~confirmationPending[p] => p \in recognised \union friends

PairingInv ==
  /\ TypeOK
  /\ HeardIsSaid
  /\ Grounds
  /\ SheetIsTimed

\* What a step may never take back or do behind the user's back.
Irrevocable ==
  /\ \A p \in Phones :
       IsTerminalState(ceremony[p].state) => ceremony'[p].state = ceremony[p].state
  /\ friends' \intersect blocked \subseteq friends

\* What every step of p's ceremony to `next`, writing `sent`, has in common.
Legal(p, next, sent) ==
  /\ next \in Ceremony
  /\ sent \subseteq {"accept", "decline", "ack"}
  /\ ceremony[p].local = "none" \/ next.local = ceremony[p].local
  /\ "accept" \in sent => next.local = "accept"
  /\ next.remote = "accept" => ceremony[Other(p)].local = "accept"
  /\ next.state = "both-confirmed" => next.local = "accept" /\ next.remote = "accept"
  /\ next.resendTimer => next.local # "none"
  /\ IsTerminalState(ceremony[p].state) => next.state = ceremony[p].state
  /\ ~IsTerminalState(next.state) => next.timeoutTimer

-----------------------------------------------------------------------------
\* There are two phones.
LEMMA TwoPhones ==
  ASSUME NEW p \in Phones
  PROVE  /\ Other(p) \in Phones
         /\ Other(p) # p
         /\ \A q \in Phones : q # p => q = Other(p)
         /\ Other(Other(p)) = p
<1>1. Other("A") = "B" /\ Other("B") = "A"
  BY DEF Other, Phones
<1> QED BY <1>1 DEF Phones

\* maybeStopTimeout() touches nothing but the timer, and that only in a settled
\* ceremony.
LEMMA MaybeStopTimeoutFields ==
  ASSUME NEW c \in Ceremony
  PROVE  LET d == MaybeStopTimeout(c) IN
         /\ d \in Ceremony
         /\ d.state = c.state /\ d.local = c.local /\ d.remote = c.remote
         /\ d.resendTimer = c.resendTimer
         /\ ~IsTerminalState(c.state) /\ c.timeoutTimer => d.timeoutTimer
BY DEF MaybeStopTimeout, Ceremony

\* moveTo() changes the state and possibly the timer.
LEMMA MoveToFields ==
  ASSUME NEW c \in Ceremony, NEW s \in States
  PROVE  LET d == MoveTo(c, s) IN
         /\ d \in Ceremony
         /\ d.state = s /\ d.local = c.local /\ d.remote = c.remote
         /\ d.resendTimer = c.resendTimer
         /\ ~IsTerminalState(s) /\ c.timeoutTimer => d.timeoutTimer
<1> DEFINE m == [c EXCEPT !.state = s]
<1>1. /\ m \in Ceremony
      /\ m.state = s /\ m.local = c.local /\ m.remote = c.remote
      /\ m.resendTimer = c.resendTimer /\ m.timeoutTimer = c.timeoutTimer
  BY DEF Ceremony
<1>2. MoveTo(c, s) = IF IsTerminalState(s) THEN MaybeStopTimeout(m) ELSE m
  BY DEF MoveTo
<1> HIDE DEF m
<1> QED BY <1>1, <1>2, MaybeStopTimeoutFields

\* recompute() keeps the decisions, leaves a settled ceremony alone and needs two
\* acceptances to confirm.
LEMMA RecomputeFields ==
  ASSUME NEW c \in Ceremony
  PROVE  LET d == Recompute(c) IN
         /\ d \in Ceremony
         /\ d.local = c.local /\ d.remote = c.remote
         /\ d.resendTimer = c.resendTimer
         /\ IsTerminalState(c.state) => d = c
         /\ ~IsTerminalState(d.state) /\ c.timeoutTimer => d.timeoutTimer
         /\ d.state = "both-confirmed" =>
              c.state = "both-confirmed" \/ (c.local = "accept" /\ c.remote = "accept")
<1>1. CASE IsTerminalState(c.state)
  BY <1>1 DEF Recompute
<1>2. CASE ~IsTerminalState(c.state) /\ "decline" \in {c.local, c.remote}
  <2>1. Recompute(c) = MoveTo(c, "rejected")
    BY <1>2 DEF Recompute
  <2> QED BY <1>2, <2>1, MoveToFields DEF States
<1>3. CASE /\ ~IsTerminalState(c.state)
           /\ "decline" \notin {c.local, c.remote}
           /\ {c.local, c.remote} = {"accept"}
  <2>1. Recompute(c) = MoveTo(c, "both-confirmed")
    BY <1>3 DEF Recompute
  <2>2. c.local = "accept" /\ c.remote = "accept"
    BY <1>3
  <2> QED BY <1>3, <2>1, <2>2, MoveToFields DEF States
<1>4. CASE /\ ~IsTerminalState(c.state)
           /\ "decline" \notin {c.local, c.remote}
           /\ {c.local, c.remote} # {"accept"}
           /\ "accept" \in {c.local, c.remote}
  <2>1. Recompute(c) = MoveTo(c, "one-confirmed")
    BY <1>4 DEF Recompute
  <2> QED BY <1>4, <2>1, MoveToFields DEF States
<1>5. CASE /\ ~IsTerminalState(c.state)
           /\ "decline" \notin {c.local, c.remote}
           /\ {c.local, c.remote} # {"accept"}
           /\ "accept" \notin {c.local, c.remote}
  <2>1. Recompute(c) = c
    BY <1>5 DEF Recompute
  <2> QED BY <1>5, <2>1 DEF IsTerminalState
<1> QED BY <1>1, <1>2, <1>3, <1>4, <1>5

\* A decision counts on its own side only, and starts the repetition.
LEMMA DecidedFields ==
  ASSUME NEW c \in Ceremony, NEW d \in {"accept", "decline"},
         ~IsTerminalState(c.state), c.timeoutTimer
  PROVE  LET e == Decided(c, d) IN
         /\ e \in Ceremony
         /\ e.local = d /\ e.remote = c.remote
         /\ e.state = "both-confirmed" => d = "accept" /\ c.remote = "accept"
         /\ ~IsTerminalState(e.state) => e.timeoutTimer
<1> DEFINE b == [c EXCEPT !.local = d, !.resendTimer = ~c.localAcknowledged]
<1>1. /\ b \in Ceremony
      /\ b.local = d /\ b.remote = c.remote /\ b.state = c.state
      /\ b.timeoutTimer = c.timeoutTimer
  BY DEF Ceremony, Decisions
<1>2. Decided(c, d) = Recompute(b)
  BY DEF Decided
<1> HIDE DEF b
<1>3. c.state # "both-confirmed" /\ b.timeoutTimer
  BY <1>1 DEF IsTerminalState
<1>4. LET e == Recompute(b) IN
      /\ e \in Ceremony
      /\ e.local = b.local /\ e.remote = b.remote
      /\ ~IsTerminalState(e.state) /\ b.timeoutTimer => e.timeoutTimer
      /\ e.state = "both-confirmed" =>
           b.state = "both-confirmed" \/ (b.local = "accept" /\ b.remote = "accept")
  BY <1>1, RecomputeFields
<1> QED BY <1>1, <1>2, <1>3, <1>4

\* The budget of acknowledgements is never overdrawn.
LEMMA AcknowledgingFields ==
  ASSUME NEW c \in Ceremony
  PROVE  LET a == Acknowledging(c) IN
         /\ a \in Ceremony
         /\ a.state = c.state /\ a.local = c.local /\ a.remote = c.remote
         /\ a.resendTimer = c.resendTimer /\ a.timeoutTimer = c.timeoutTimer
BY BudgetsAssumption DEF Acknowledging, Ceremony

-----------------------------------------------------------------------------
\* A legal step of one ceremony keeps the invariant, whatever it settles, and takes
\* nothing back.
LEMMA BecomesKeeps ==
  ASSUME PairingInv, NEW p \in Phones, NEW next, NEW sent, NEW taken,
         session[p] # "closed",
         Legal(p, next, sent), Becomes(p, next, sent, taken),
         losses' \in 0..MaxLosses, migrations' \in 0..MaxMigrations
  PROVE  PairingInv' /\ Irrevocable
<1> DEFINE settles == ~IsTerminalState(ceremony[p].state) /\ IsTerminalState(next.state)
           hangsUp == settles /\ TearsDown(p, next) /\ session[p] = "open"
<1> USE TwoPhones
<1>1. /\ ceremony \in [Phones -> Ceremony]
      /\ ceremony' = [ceremony EXCEPT ![p] = next]
      /\ next \in Ceremony
  BY DEF PairingInv, TypeOK, Becomes, Legal
<1>2. ceremony' \in [Phones -> Ceremony]
  BY <1>1
<1>3. /\ ceremony'[p] = next
      /\ \A q \in Phones : q # p => ceremony'[q] = ceremony[q]
  BY <1>1
<1>4. wire' = (wire \ taken) \union {To(Other(p), k) : k \in sent}
                \union (IF hangsUp THEN {To(Other(p), "BYE")} ELSE {})
  BY DEF Becomes
<1>5. wire' \subseteq Message
  <2>1. wire \subseteq Message /\ sent \subseteq {"accept", "decline", "ack"}
    BY DEF PairingInv, TypeOK, Legal
  <2>2. To(Other(p), "BYE") \in Message
    BY DEF To, Message
  <2>3. \A k \in sent : To(Other(p), k) \in Message
    BY <2>1 DEF To, Message
  <2> QED BY <1>4, <2>1, <2>2, <2>3
<1>6. friends' = IF settles /\ Befriends(p, next) THEN friends \union {p} ELSE friends
  BY DEF Becomes
<1>7. session' = [session EXCEPT ![p] = IF hangsUp THEN "closing" ELSE @]
  BY DEF Becomes
<1>8. confirmationPending' = [confirmationPending EXCEPT ![p] =
           @ /\ ~(settles /\ (Befriends(p, next) \/ TearsDown(p, next)))]
  BY DEF Becomes
<1>9. recognised' = recognised /\ blocked' = blocked
  BY DEF Becomes
<1>10. TypeOK'
  <2>1. session' \in [Phones -> {"open", "closing", "closed"}]
    BY <1>7 DEF PairingInv, TypeOK
  <2>2. confirmationPending' \in [Phones -> BOOLEAN]
    BY <1>8 DEF PairingInv, TypeOK
  <2>3. friends' \subseteq Phones
    BY <1>6 DEF PairingInv, TypeOK
  <2> QED BY <1>2, <1>5, <1>9, <2>1, <2>2, <2>3 DEF PairingInv, TypeOK
<1>11. HeardIsSaid'
  <2> SUFFICES ASSUME NEW q \in Phones
               PROVE  /\ To(Other(q), "accept") \in wire' => ceremony'[q].local = "accept"
                      /\ ceremony'[q].remote = "accept" => ceremony'[Other(q)].local = "accept"
                      /\ ceremony'[q].state = "both-confirmed" =>
                           ceremony'[q].local = "accept" /\ ceremony'[q].remote = "accept"
                      /\ ceremony'[q].resendTimer => ceremony'[q].local # "none"
    BY DEF HeardIsSaid
  <2>1. \A r \in Phones : ceremony[r].local = "accept" => ceremony'[r].local = "accept"
    BY <1>3 DEF Legal
  <2>2. To(Other(q), "accept") \in wire' => ceremony'[q].local = "accept"
    <3>1. CASE To(Other(q), "accept") \in wire
      BY <2>1, <3>1 DEF PairingInv, HeardIsSaid
    <3>2. CASE To(Other(q), "accept") \in {To(Other(p), k) : k \in sent}
      <4>1. Other(q) = Other(p) /\ "accept" \in sent
        BY <3>2 DEF To
      <4>2. q = p
        BY <4>1
      <4> QED BY <4>1, <4>2, <1>3 DEF Legal
    <3>3. To(Other(q), "accept") # To(Other(p), "BYE")
      BY DEF To
    <3> QED BY <1>4, <3>1, <3>2, <3>3
  <2>3. CASE q = p
    BY <2>1, <2>2, <2>3, <1>3 DEF Legal
  <2>4. CASE q # p
    BY <2>1, <2>2, <2>4, <1>3 DEF PairingInv, HeardIsSaid
  <2> QED BY <2>3, <2>4
<1>12. Grounds'
  <2> SUFFICES ASSUME NEW q \in Phones
               PROVE  /\ q \in friends' => ceremony'[q].state = "both-confirmed"
                      /\ session'[q] = "open" /\ ~confirmationPending'[q] =>
                           q \in recognised' \union friends'
    BY DEF Grounds
  <2>1. CASE q # p
    BY <2>1, <1>3, <1>6, <1>7, <1>8, <1>9 DEF PairingInv, TypeOK, Grounds
  <2>2. CASE q = p
    <3>1. q \in friends' => ceremony'[q].state = "both-confirmed"
      BY <2>2, <1>3, <1>6 DEF PairingInv, Grounds, Befriends, Legal, IsTerminalState
    <3>2. ASSUME session'[p] = "open", ~confirmationPending'[p]
          PROVE  p \in recognised' \union friends'
      <4>1. session[p] = "open" /\ ~hangsUp
        BY <3>2, <1>7 DEF PairingInv, TypeOK
      <4>2. confirmationPending'[p] =
              (confirmationPending[p] /\ ~(settles /\ (Befriends(p, next) \/ TearsDown(p, next))))
        BY <1>8 DEF PairingInv, TypeOK
      <4>3. CASE ~confirmationPending[p]
        BY <4>1, <4>3, <1>6, <1>9 DEF PairingInv, Grounds
      <4>4. CASE settles /\ Befriends(p, next)
        BY <4>4, <1>6
      <4> QED BY <3>2, <4>1, <4>2, <4>3, <4>4
    <3> QED BY <2>2, <3>1, <3>2
  <2> QED BY <2>1, <2>2
<1>13. SheetIsTimed'
  <2> SUFFICES ASSUME NEW q \in Phones
               PROVE  ~IsTerminalState(ceremony'[q].state) /\ session'[q] # "closed" =>
                        ceremony'[q].timeoutTimer
    BY DEF SheetIsTimed, IsTerminalState
  <2>1. CASE q = p
    BY <2>1, <1>3 DEF Legal
  <2>2. CASE q # p
    BY <2>2, <1>3, <1>7 DEF PairingInv, TypeOK, SheetIsTimed
  <2> QED BY <2>1, <2>2
<1>14. \A q \in Phones :
         IsTerminalState(ceremony[q].state) => ceremony'[q].state = ceremony[q].state
  BY <1>3 DEF Legal
<1>15. friends' \intersect blocked \subseteq friends
  BY <1>6 DEF Befriends
<1> QED BY <1>10, <1>11, <1>12, <1>13, <1>14, <1>15 DEF PairingInv, Irrevocable

-----------------------------------------------------------------------------
\* Each step of a ceremony is legal.
LEMMA DecideLegal ==
  ASSUME PairingInv, NEW p \in Phones, NEW d \in {"accept", "decline"}, Decide(p, d)
  PROVE  Legal(p, Decided(ceremony[p], d), {d})
<1> DEFINE c == ceremony[p]
           e == Decided(c, d)
<1>1. c \in Ceremony /\ ~IsTerminalState(c.state) /\ c.local = "none" /\ c.timeoutTimer
  BY DEF Decide, PairingInv, TypeOK, SheetIsTimed
<1>2. /\ e \in Ceremony
      /\ e.local = d /\ e.remote = c.remote
      /\ e.state = "both-confirmed" => d = "accept" /\ c.remote = "accept"
      /\ ~IsTerminalState(e.state) => e.timeoutTimer
  BY <1>1, DecidedFields
<1>3. c.remote = "accept" => ceremony[Other(p)].local = "accept"
  BY DEF PairingInv, HeardIsSaid
<1> HIDE DEF e
<1>4. Legal(p, e, {d})
  BY <1>1, <1>2, <1>3 DEF Legal
<1> QED BY <1>4 DEF e

\* The first acceptance that arrives was made by the other phone.
LEMMA ReceiveConfirmKeeps ==
  ASSUME PairingInv, NEW p \in Phones, NEW d \in {"accept", "decline"}, ReceiveConfirm(p, d)
  PROVE  PairingInv' /\ Irrevocable
<1> DEFINE c == ceremony[p]
           a == Acknowledging(c)
           b == [a EXCEPT !.remote = d]
           next == IF IsTerminalState(c.state) \/ c.remote # "none" THEN a ELSE Recompute(b)
           sent == IF c.ackBudget > 0 THEN {"ack"} ELSE {}
<1>1. /\ To(p, d) \in wire
      /\ session[p] = "open"
      /\ Becomes(p, next, sent, {To(p, d)})
      /\ UNCHANGED <<losses, migrations>>
  BY DEF ReceiveConfirm
<1>2. c \in Ceremony
  BY DEF PairingInv, TypeOK
<1>3. /\ a \in Ceremony
      /\ a.state = c.state /\ a.local = c.local /\ a.remote = c.remote
      /\ a.resendTimer = c.resendTimer /\ a.timeoutTimer = c.timeoutTimer
  BY <1>2, AcknowledgingFields
<1>4. /\ c.remote = "accept" => ceremony[Other(p)].local = "accept"
      /\ c.state = "both-confirmed" => c.local = "accept" /\ c.remote = "accept"
      /\ c.resendTimer => c.local # "none"
  BY DEF PairingInv, HeardIsSaid
<1>5. ~IsTerminalState(c.state) => c.timeoutTimer
  BY <1>1 DEF PairingInv, SheetIsTimed
<1>6. sent \subseteq {"ack"}
  OBVIOUS
<1>7. Legal(p, next, sent)
  <2>1. CASE IsTerminalState(c.state) \/ c.remote # "none"
    <3>1. next = a
      BY <2>1
    <3> HIDE DEF a, next, sent
    <3> QED BY <3>1, <1>3, <1>4, <1>5, <1>6 DEF Legal
  <2>2. CASE ~IsTerminalState(c.state) /\ c.remote = "none"
    <3>1. next = Recompute(b)
      BY <2>2
    <3> HIDE DEF a
    <3>2. /\ b \in Ceremony
          /\ b.state = c.state /\ b.local = c.local /\ b.remote = d
          /\ b.resendTimer = c.resendTimer /\ b.timeoutTimer = c.timeoutTimer
      BY <1>3 DEF Ceremony, Decisions
    <3> HIDE DEF b, next, sent
    <3>3. /\ next \in Ceremony
          /\ next.local = b.local /\ next.remote = b.remote
          /\ next.resendTimer = b.resendTimer
          /\ ~IsTerminalState(next.state) /\ b.timeoutTimer => next.timeoutTimer
          /\ next.state = "both-confirmed" =>
               b.state = "both-confirmed" \/ (b.local = "accept" /\ b.remote = "accept")
      BY <3>1, <3>2, RecomputeFields
    <3>4. d = "accept" => ceremony[Other(p)].local = "accept"
      BY <1>1, TwoPhones DEF PairingInv, HeardIsSaid
    <3>5. c.state # "both-confirmed"
      BY <2>2 DEF IsTerminalState
    <3> QED BY <2>2, <3>2, <3>3, <3>4, <3>5, <1>4, <1>5, <1>6 DEF Legal
  <2> QED BY <2>1, <2>2
<1> HIDE DEF next, sent
<1> QED BY <1>1, <1>7, BecomesKeeps DEF PairingInv, TypeOK

\* A step that keeps decisions and state, starts no repetition without a decision
\* and stops no timeout early is legal.
LEMMA QuietLegal ==
  ASSUME PairingInv, NEW p \in Phones, session[p] # "closed", NEW next \in Ceremony, NEW sent,
         next.local = ceremony[p].local, next.remote = ceremony[p].remote,
         next.state = ceremony[p].state,
         next.resendTimer => ceremony[p].local # "none",
         ~IsTerminalState(next.state) /\ ceremony[p].timeoutTimer => next.timeoutTimer,
         sent \subseteq {ceremony[p].local} \ {"none"}
  PROVE  Legal(p, next, sent)
<1>1. ceremony[p] \in Ceremony
  BY DEF PairingInv, TypeOK
<1>2. sent \subseteq {"accept", "decline", "ack"} /\ ("accept" \in sent => next.local = "accept")
  BY <1>1 DEF Ceremony, Decisions
<1>3. ~IsTerminalState(next.state) => next.timeoutTimer
  BY DEF PairingInv, SheetIsTimed
<1>4. /\ next.remote = "accept" => ceremony[Other(p)].local = "accept"
      /\ next.state = "both-confirmed" => next.local = "accept" /\ next.remote = "accept"
  BY DEF PairingInv, HeardIsSaid
<1> QED BY <1>2, <1>3, <1>4 DEF Legal

\* An acknowledgement stops the repetition.
LEMMA ReceiveAckKeeps ==
  ASSUME PairingInv, NEW p \in Phones, ReceiveAck(p)
  PROVE  PairingInv' /\ Irrevocable
<1> DEFINE c == ceremony[p]
           b == [c EXCEPT !.localAcknowledged = TRUE, !.resendTimer = FALSE]
           next == IF c.local = "none" THEN c ELSE MaybeStopTimeout(b)
<1>1. /\ session[p] = "open"
      /\ Becomes(p, next, {}, {To(p, "ack")})
      /\ UNCHANGED <<losses, migrations>>
  BY DEF ReceiveAck
<1>2. c \in Ceremony
  BY DEF PairingInv, TypeOK
<1>3. /\ b \in Ceremony
      /\ b.state = c.state /\ b.local = c.local /\ b.remote = c.remote
      /\ ~b.resendTimer /\ b.timeoutTimer = c.timeoutTimer
  BY <1>2 DEF Ceremony
<1>4. Legal(p, next, {})
  <2>1. CASE c.local = "none"
    <3>1. next = c
      BY <2>1
    <3>2. c.resendTimer => c.local # "none"
      BY DEF PairingInv, HeardIsSaid
    <3> HIDE DEF next
    <3> QED BY <1>1, <1>2, <3>1, <3>2, QuietLegal
  <2>2. CASE c.local # "none"
    <3>1. next = MaybeStopTimeout(b)
      BY <2>2
    <3> HIDE DEF b, next
    <3>2. /\ next \in Ceremony
          /\ next.state = c.state /\ next.local = c.local /\ next.remote = c.remote
          /\ next.resendTimer = b.resendTimer
          /\ ~IsTerminalState(b.state) /\ b.timeoutTimer => next.timeoutTimer
      BY <1>3, <3>1, MaybeStopTimeoutFields
    <3>3. ~IsTerminalState(next.state) /\ c.timeoutTimer => next.timeoutTimer
      BY <1>3, <3>2
    <3> QED BY <1>1, <2>2, <3>2, <3>3, QuietLegal
  <2> QED BY <2>1, <2>2
<1> HIDE DEF next
<1> QED BY <1>1, <1>4, BecomesKeeps DEF PairingInv, TypeOK

\* A decision is repeated while the budget lasts.
LEMMA ResendKeeps ==
  ASSUME PairingInv, NEW p \in Phones, Resend(p)
  PROVE  PairingInv' /\ Irrevocable
<1> DEFINE c == ceremony[p]
           less == [c EXCEPT !.resendsLeft = @ - 1]
           b == [c EXCEPT !.resendTimer = FALSE]
           stopped == MaybeStopTimeout(b)
<1>1. /\ c.resendTimer
      /\ session[p] # "closed"
      /\ \/ ~StopsResending(c) /\ Becomes(p, less, {c.local}, {})
         \/ Becomes(p, stopped, {}, {})
      /\ UNCHANGED <<losses, migrations>>
  BY DEF Resend
<1>2. c \in Ceremony
  BY DEF PairingInv, TypeOK
<1>3. c.local # "none"
  BY <1>1 DEF PairingInv, HeardIsSaid
<1>4. CASE ~StopsResending(c) /\ Becomes(p, less, {c.local}, {})
  <2>1. /\ less \in Ceremony
        /\ less.state = c.state /\ less.local = c.local /\ less.remote = c.remote
        /\ less.timeoutTimer = c.timeoutTimer
    BY <1>2, <1>4, BudgetsAssumption DEF Ceremony, StopsResending
  <2> HIDE DEF less
  <2>2. Legal(p, less, {c.local})
    BY <1>1, <1>3, <2>1, QuietLegal
  <2> QED BY <1>1, <1>4, <2>2, BecomesKeeps DEF PairingInv, TypeOK
<1>5. CASE Becomes(p, stopped, {}, {})
  <2>1. /\ b \in Ceremony
        /\ b.state = c.state /\ b.local = c.local /\ b.remote = c.remote
        /\ b.timeoutTimer = c.timeoutTimer
    BY <1>2 DEF Ceremony
  <2> HIDE DEF b
  <2>2. /\ stopped \in Ceremony
        /\ stopped.state = c.state /\ stopped.local = c.local /\ stopped.remote = c.remote
        /\ ~IsTerminalState(b.state) /\ b.timeoutTimer => stopped.timeoutTimer
    BY <2>1, MaybeStopTimeoutFields
  <2> HIDE DEF stopped
  <2>3. ~IsTerminalState(stopped.state) /\ c.timeoutTimer => stopped.timeoutTimer
    BY <2>1, <2>2
  <2>4. Legal(p, stopped, {})
    BY <1>1, <1>3, <2>2, <2>3, QuietLegal
  <2> QED BY <1>1, <1>5, <2>4, BecomesKeeps DEF PairingInv, TypeOK
<1> QED BY <1>1, <1>4, <1>5

\* A link change gives the repetition a fresh budget.
LEMMA TransportChangedKeeps ==
  ASSUME PairingInv, NEW p \in Phones, TransportChanged(p)
  PROVE  PairingInv' /\ Irrevocable
<1> DEFINE c == ceremony[p]
           next == [c EXCEPT !.resumesLeft = @ - 1, !.resendsLeft = MaxResends,
                             !.ackBudget = InitialAckBudget, !.resendTimer = TRUE]
<1>1. /\ session[p] = "open"
      /\ migrations < MaxMigrations
      /\ migrations' = migrations + 1
      /\ ~NothingToResume(c)
      /\ Becomes(p, next, {}, {})
      /\ losses' = losses
  BY DEF TransportChanged
<1>2. c \in Ceremony
  BY DEF PairingInv, TypeOK
<1>3. c.local # "none" /\ c.resumesLeft # 0
  BY <1>1 DEF NothingToResume
<1>4. /\ next \in Ceremony
      /\ next.state = c.state /\ next.local = c.local /\ next.remote = c.remote
      /\ next.timeoutTimer = c.timeoutTimer
  <2>1. /\ c.resumesLeft - 1 \in 0..MaxResumes
        /\ MaxResends \in 0..MaxResends
        /\ InitialAckBudget \in 0..InitialAckBudget
    BY <1>2, <1>3, BudgetsAssumption DEF Ceremony
  <2> HIDE DEF c
  <2> QED BY <1>2, <2>1 DEF Ceremony
<1> HIDE DEF next
<1>5. Legal(p, next, {})
  BY <1>1, <1>3, <1>4, QuietLegal
<1>6. migrations' \in 0..MaxMigrations /\ losses' \in 0..MaxLosses
  BY <1>1, BudgetsAssumption DEF PairingInv, TypeOK
<1> QED BY <1>1, <1>5, <1>6, BecomesKeeps

\* The timeout settles what has not settled and nothing else.
LEMMA TimeoutKeeps ==
  ASSUME PairingInv, NEW p \in Phones, Timeout(p)
  PROVE  PairingInv' /\ Irrevocable
<1> DEFINE c == ceremony[p]
           b == [c EXCEPT !.timeoutTimer = FALSE, !.resendTimer = FALSE]
           next == TimedOut(b)
<1>1. /\ session[p] # "closed"
      /\ Becomes(p, next, {}, {})
      /\ UNCHANGED <<losses, migrations>>
  BY DEF Timeout
<1>2. c \in Ceremony
  BY DEF PairingInv, TypeOK
<1>3. /\ b \in Ceremony
      /\ b.state = c.state /\ b.local = c.local /\ b.remote = c.remote
      /\ ~b.resendTimer
  BY <1>2 DEF Ceremony
<1>4. next = IF IsTerminalState(b.state) THEN b ELSE MoveTo(b, "timed-out")
  BY DEF TimedOut
<1> HIDE DEF b, next
<1>5. /\ next \in Ceremony
      /\ next.local = c.local /\ next.remote = c.remote
      /\ ~next.resendTimer
      /\ next.state = IF IsTerminalState(c.state) THEN c.state ELSE "timed-out"
  <2>1. CASE IsTerminalState(c.state)
    BY <1>3, <1>4, <2>1
  <2>2. CASE ~IsTerminalState(c.state)
    BY <1>3, <1>4, <2>2, MoveToFields DEF States
  <2> QED BY <2>1, <2>2
<1>6. IsTerminalState(next.state)
  BY <1>5 DEF IsTerminalState
<1>7. /\ c.remote = "accept" => ceremony[Other(p)].local = "accept"
      /\ c.state = "both-confirmed" => c.local = "accept" /\ c.remote = "accept"
  BY DEF PairingInv, HeardIsSaid
<1>8. IsTerminalState(c.state) => next.state = c.state
  BY <1>5
<1>9. next.state = "both-confirmed" => c.state = "both-confirmed"
  BY <1>5
<1>10. Legal(p, next, {})
  BY <1>5, <1>6, <1>7, <1>8, <1>9 DEF Legal
<1> QED BY <1>1, <1>10, BecomesKeeps DEF PairingInv, TypeOK

-----------------------------------------------------------------------------
\* The steps that leave both ceremonies' decisions alone.
LEMMA BlockKeeps ==
  ASSUME PairingInv, NEW p \in Phones, Block(p)
  PROVE  PairingInv' /\ Irrevocable
<1> QED BY DEF PairingInv, TypeOK, HeardIsSaid, Grounds, SheetIsTimed, Irrevocable, Block

\* Closing a session changes no ceremony and no friendship.
LEMMA CloseKeeps ==
  ASSUME PairingInv, NEW p \in Phones, NEW taken, Close(p, taken)
  PROVE  PairingInv' /\ Irrevocable
<1>1. /\ session[p] = "open"
      /\ session' = [session EXCEPT ![p] = "closing"]
      /\ wire' = (wire \ taken) \union {To(Other(p), "BYE")}
      /\ UNCHANGED <<recognised, ceremony, confirmationPending, friends, blocked, losses,
                     migrations>>
  BY DEF Close
<1>2. To(Other(p), "BYE") \in Message
  BY TwoPhones DEF To, Message
<1>3. TypeOK'
  BY <1>1, <1>2 DEF PairingInv, TypeOK
<1>4. \A q \in Phones : To(Other(q), "accept") \in wire' => To(Other(q), "accept") \in wire
  BY <1>1 DEF To
<1>5. HeardIsSaid'
  BY <1>1, <1>4 DEF PairingInv, HeardIsSaid
<1>6. \A q \in Phones : /\ session'[q] = "open" => session[q] = "open"
                        /\ session'[q] # "closed" => session[q] # "closed"
  BY <1>1 DEF PairingInv, TypeOK
<1>7. Grounds' /\ SheetIsTimed'
  BY <1>1, <1>6 DEF PairingInv, Grounds, SheetIsTimed
<1> QED BY <1>1, <1>3, <1>5, <1>7 DEF PairingInv, Irrevocable

\* The end of a session disposes of the ceremony's timers, and of nothing it recorded.
LEMMA SessionClosedKeeps ==
  ASSUME PairingInv, NEW p \in Phones, SessionClosed(p)
  PROVE  PairingInv' /\ Irrevocable
<1> DEFINE c == ceremony[p]
           d == [c EXCEPT !.resendTimer = FALSE, !.timeoutTimer = FALSE]
<1>1. /\ session' = [session EXCEPT ![p] = "closed"]
      /\ wire' = {m \in wire : m.to # p}
      /\ UNCHANGED <<recognised, confirmationPending, friends, blocked, losses, migrations>>
  BY DEF SessionClosed
<1>2. ceremony \in [Phones -> Ceremony]
  BY DEF PairingInv, TypeOK
<1>3. ceremony' = [ceremony EXCEPT ![p] = d]
  BY <1>2 DEF SessionClosed
<1>4. /\ d \in Ceremony
      /\ d.state = c.state /\ d.local = c.local /\ d.remote = c.remote
      /\ ~d.resendTimer
  BY <1>2 DEF Ceremony
<1> HIDE DEF d
<1>5. TypeOK'
  BY <1>1, <1>2, <1>3, <1>4 DEF PairingInv, TypeOK
<1>6. \A q \in Phones : /\ ceremony'[q].state = ceremony[q].state
                        /\ ceremony'[q].local = ceremony[q].local
                        /\ ceremony'[q].remote = ceremony[q].remote
                        /\ ceremony'[q].resendTimer => ceremony[q].resendTimer
                        /\ q # p => ceremony'[q] = ceremony[q]
  BY <1>2, <1>3, <1>4
<1>7. HeardIsSaid'
  <2>1. wire' \subseteq wire
    BY <1>1
  <2> QED BY <1>6, <2>1, TwoPhones DEF PairingInv, HeardIsSaid
<1>8. \A q \in Phones : IF q = p THEN session'[q] = "closed" ELSE session'[q] = session[q]
  BY <1>1 DEF PairingInv, TypeOK
<1>9. Grounds'
  BY <1>1, <1>6, <1>8 DEF PairingInv, Grounds
<1>10. SheetIsTimed'
  BY <1>6, <1>8 DEF PairingInv, SheetIsTimed
<1> QED BY <1>1, <1>5, <1>6, <1>7, <1>9, <1>10 DEF PairingInv, Irrevocable

\* Losing a message changes no ceremony.
LEMMA LoseKeeps ==
  ASSUME PairingInv, Lose
  PROVE  PairingInv' /\ Irrevocable
<1>1. /\ losses' \in 0..MaxLosses
      /\ wire' \subseteq wire
      /\ UNCHANGED <<recognised, ceremony, session, confirmationPending, friends, blocked,
                     migrations>>
  BY BudgetsAssumption DEF PairingInv, TypeOK, Lose
<1> QED BY <1>1 DEF PairingInv, TypeOK, HeardIsSaid, Grounds, SheetIsTimed, Irrevocable

-----------------------------------------------------------------------------
\* Two fresh ceremonies satisfy the invariant, whoever recognised whom.
LEMMA InitPairingInv == Init => PairingInv
<1> SUFFICES ASSUME Init PROVE PairingInv
  OBVIOUS
<1> DEFINE n == NewCeremony
           e == Decided(NewCeremony, "accept")
<1>1. /\ n \in Ceremony
      /\ n.state = "awaiting-both" /\ n.local = "none" /\ n.remote = "none"
      /\ ~n.resendTimer /\ n.timeoutTimer
  BY BudgetsAssumption DEF NewCeremony, Ceremony, States, Decisions
<1>2. ~IsTerminalState(n.state)
  BY <1>1 DEF IsTerminalState
<1>3. /\ e \in Ceremony
      /\ e.local = "accept" /\ e.remote = n.remote
      /\ e.state = "both-confirmed" => n.remote = "accept"
      /\ ~IsTerminalState(e.state) => e.timeoutTimer
  <2> HIDE DEF n
  <2>1. e = Decided(n, "accept")
    BY DEF n
  <2> HIDE DEF e
  <2> QED BY <1>1, <1>2, <2>1, DecidedFields
<1> HIDE DEF n, e
<1>4. ceremony = [p \in Phones |-> IF p \in recognised THEN e ELSE n]
  BY DEF Init, n, e
<1>5. TypeOK
  <2>1. wire \subseteq Message
    BY TwoPhones DEF Init, To, Message
  <2> QED BY <1>1, <1>3, <1>4, <2>1, BudgetsAssumption DEF Init, TypeOK
<1>6. HeardIsSaid
  <2> SUFFICES ASSUME NEW p \in Phones
               PROVE  /\ To(Other(p), "accept") \in wire => ceremony[p].local = "accept"
                      /\ ceremony[p].remote = "accept" => ceremony[Other(p)].local = "accept"
                      /\ ceremony[p].state = "both-confirmed" =>
                           ceremony[p].local = "accept" /\ ceremony[p].remote = "accept"
                      /\ ceremony[p].resendTimer => ceremony[p].local # "none"
    BY DEF HeardIsSaid
  <2>1. To(Other(p), "accept") \in wire => p \in recognised
    <3>1. wire = {To(Other(q), "accept") : q \in recognised} /\ recognised \subseteq Phones
      BY DEF Init
    <3>2. \A q \in Phones : To(Other(q), "accept") = To(Other(p), "accept") => q = p
      BY TwoPhones DEF To
    <3> QED BY <3>1, <3>2
  <2> QED BY <1>1, <1>3, <1>4, <2>1
<1>7. Grounds
  BY DEF Init, Grounds
<1>8. SheetIsTimed
  BY <1>1, <1>3, <1>4 DEF SheetIsTimed
<1> QED BY <1>5, <1>6, <1>7, <1>8 DEF PairingInv

\* Every step keeps it, and takes nothing back.
LEMMA NextPairingInv == PairingInv /\ [Next]_vars => PairingInv' /\ Irrevocable
<1> SUFFICES ASSUME PairingInv, [Next]_vars PROVE PairingInv' /\ Irrevocable
  OBVIOUS
<1>1. CASE Lose
  BY <1>1, LoseKeeps
<1>2. ASSUME NEW p \in Phones, NEW d \in {"accept", "decline"}, Decide(p, d)
      PROVE  PairingInv' /\ Irrevocable
  <2>1. /\ session[p] # "closed"
        /\ Becomes(p, Decided(ceremony[p], d), {d}, {})
        /\ UNCHANGED <<losses, migrations>>
    BY <1>2 DEF Decide
  <2>2. Legal(p, Decided(ceremony[p], d), {d})
    BY <1>2, DecideLegal
  <2> QED BY <2>1, <2>2, BecomesKeeps DEF PairingInv, TypeOK
<1>3. ASSUME NEW p \in Phones, NEW d \in {"accept", "decline"}, ReceiveConfirm(p, d)
      PROVE  PairingInv' /\ Irrevocable
  BY <1>3, ReceiveConfirmKeeps
<1>4. ASSUME NEW p \in Phones, ReceiveAck(p) PROVE PairingInv' /\ Irrevocable
  BY <1>4, ReceiveAckKeeps
<1>5. ASSUME NEW p \in Phones, Resend(p) PROVE PairingInv' /\ Irrevocable
  BY <1>5, ResendKeeps
<1>6. ASSUME NEW p \in Phones, TransportChanged(p) PROVE PairingInv' /\ Irrevocable
  BY <1>6, TransportChangedKeeps
<1>7. ASSUME NEW p \in Phones, Timeout(p) PROVE PairingInv' /\ Irrevocable
  BY <1>7, TimeoutKeeps
<1>8. ASSUME NEW p \in Phones, Block(p) PROVE PairingInv' /\ Irrevocable
  BY <1>8, BlockKeeps
<1>9. ASSUME NEW p \in Phones, Disconnect(p) PROVE PairingInv' /\ Irrevocable
  BY <1>9, CloseKeeps DEF Disconnect
<1>10. ASSUME NEW p \in Phones, ReceiveBye(p) PROVE PairingInv' /\ Irrevocable
  BY <1>10, CloseKeeps DEF ReceiveBye
<1>11. ASSUME NEW p \in Phones, SessionClosed(p) PROVE PairingInv' /\ Irrevocable
  BY <1>11, SessionClosedKeeps
<1>12. CASE UNCHANGED vars
  BY <1>12 DEF vars, PairingInv, TypeOK, HeardIsSaid, Grounds, SheetIsTimed, Irrevocable
<1> QED BY <1>1, <1>2, <1>3, <1>4, <1>5, <1>6, <1>7, <1>8, <1>9, <1>10, <1>11, <1>12 DEF Next

-----------------------------------------------------------------------------
\* The inductive invariant holds throughout.
THEOREM PairingInvariance == Spec => []PairingInv
<1>1. Init => PairingInv
  BY InitPairingInv
<1>2. PairingInv /\ [Next]_vars => PairingInv'
  BY NextPairingInv
<1> QED BY <1>1, <1>2, PTL DEF Spec

\* Two ceremonies and their sessions keep their shape: no budget of sasPairing.ts is
\* ever overdrawn.
THEOREM CeremonyTypeCorrect == Spec => []TypeOK
<1>1. PairingInv => TypeOK
  BY DEF PairingInv
<1> QED BY <1>1, PairingInvariance, PTL

\* "Both users must act": no phone records a friend, and no waiting session is
\* released, without an acceptance by each side, for every budget and whatever
\* the radio loses.
THEOREM FriendshipNeedsBoth == Spec => []ConsentIsMutual
<1>1. PairingInv => ConsentIsMutual
  <2> SUFFICES ASSUME PairingInv PROVE ConsentIsMutual
    OBVIOUS
  <2>1. ASSUME NEW p \in friends, NEW q \in Phones
        PROVE  ceremony[q].local = "accept"
    <3>1. p \in Phones /\ ceremony[p].state = "both-confirmed"
      BY DEF PairingInv, TypeOK, Grounds
    <3>2. ceremony[p].local = "accept" /\ ceremony[Other(p)].local = "accept"
      BY <3>1 DEF PairingInv, HeardIsSaid
    <3> QED BY <3>1, <3>2, TwoPhones
  <2> QED BY <2>1 DEF PairingInv, Grounds, ConsentIsMutual
<1> QED BY <1>1, PairingInvariance, PTL

\* A pairing sheet that shows six digits always has a timer that will take it down.
THEOREM SheetAlwaysTimed == Spec => []SheetIsTimed
<1>1. PairingInv => SheetIsTimed
  BY DEF PairingInv
<1> QED BY <1>1, PairingInvariance, PTL

\* "The three terminal states latch": no message, tap or timer moves a ceremony that
\* has settled.
THEOREM SettledForGood == Spec => OutcomeLatches
<1>1. PairingInv /\ [Next]_vars =>
        [\A p \in Phones :
           IsTerminalState(ceremony[p].state) => ceremony'[p].state = ceremony[p].state]_vars
  BY NextPairingInv DEF Irrevocable
<1> QED BY <1>1, PairingInvariance, PTL DEF Spec, OutcomeLatches

\* recordFriendship() never befriends a peer the user has blocked before it.
THEOREM BlockIsFinal == Spec => BlockedIsNotBefriended
<1>1. PairingInv /\ [Next]_vars => [friends' \intersect blocked \subseteq friends]_vars
  BY NextPairingInv DEF Irrevocable
<1> QED BY <1>1, PairingInvariance, PTL DEF Spec, BlockedIsNotBefriended

-----------------------------------------------------------------------------
(* The radio: scans. *)

\* The stack scans only while BleScanner believes it does, and neither a running scan nor a
\* queued restart outlives the wish for discovery.
ScanInv ==
  /\ power \in BOOLEAN /\ scanOn \in BOOLEAN
  /\ DOMAIN wanted = {"ad", "scan", "radioDown"} /\ wanted.scan \in BOOLEAN
  /\ DOMAIN scan = {"scanning", "restart"}
  /\ scan.scanning \in BOOLEAN /\ scan.restart \in BOOLEAN
  /\ scanOn => scan.scanning
  /\ scan.scanning \/ scan.restart => wanted.scan

\* Steps of the advertiser, and of the adapter as long as nobody heard of it.
LEMMA ScansUntouched ==
  ASSUME ScanInv, power' \in BOOLEAN, scan' = scan,
         scanOn' = scanOn \/ scanOn' = FALSE,
         wanted' = wanted \/ \E b \in BOOLEAN : wanted' = [wanted EXCEPT !.ad = b]
  PROVE  ScanInv'
<1>1. DOMAIN wanted' = DOMAIN wanted /\ wanted'.scan = wanted.scan
  <2>1. ASSUME NEW b, wanted' = [wanted EXCEPT !.ad = b]
        PROVE  DOMAIN wanted' = DOMAIN wanted /\ wanted'.scan = wanted.scan
    BY <2>1 DEF ScanInv
  <2> QED BY <2>1
<1>2. scanOn' => scanOn
  OBVIOUS
<1>3. scanOn' \in BOOLEAN
  BY DEF ScanInv
<1> QED BY <1>1, <1>2, <1>3 DEF ScanInv

\* The steps that start, stop and restart scans.
LEMMA ScansMove ==
  ASSUME ScanInv, StartDiscovery \/ StopDiscovery \/ ScanFails \/ RestartScan
  PROVE  ScanInv'
<1>1. CASE StartDiscovery
  BY <1>1 DEF ScanInv, StartDiscovery, StoppedScan
<1>2. CASE StopDiscovery
  BY <1>2 DEF ScanInv, StopDiscovery, StoppedScan
<1>3. CASE ScanFails
  BY <1>3 DEF ScanInv, ScanFails
<1>4. CASE RestartScan
  BY <1>4 DEF ScanInv, RestartScan
<1> QED BY <1>1, <1>2, <1>3, <1>4

\* The adapter goes off: whatever the scanner had is stopped, unless it was before.
LEMMA ScansStop ==
  ASSUME ScanInv, AdapterOff
  PROVE  ScanInv'
<1>1. power' = power /\ wanted' = [wanted EXCEPT !.radioDown = TRUE]
  BY DEF AdapterOff
<1>2. \/ scan' = scan /\ scanOn' = scanOn
      \/ scan' = StoppedScan(scan) /\ scanOn' = FALSE
  BY DEF AdapterOff
<1>3. DOMAIN wanted' = DOMAIN wanted /\ wanted'.scan = wanted.scan
  BY <1>1 DEF ScanInv
<1>4. CASE scan' = scan /\ scanOn' = scanOn
  BY <1>1, <1>3, <1>4 DEF ScanInv
<1>5. CASE scan' = StoppedScan(scan) /\ scanOn' = FALSE
  <2>1. DOMAIN scan' = DOMAIN scan /\ scan'.scanning = FALSE /\ scan'.restart = FALSE
    BY <1>5 DEF ScanInv, StoppedScan
  <2> QED BY <1>1, <1>3, <1>5, <2>1 DEF ScanInv
<1> QED BY <1>2, <1>4, <1>5

\* The adapter is back: a scan is restored if one is wanted.
LEMMA ScansReturn ==
  ASSUME ScanInv, AdapterOn
  PROVE  ScanInv'
<1>1. /\ power' = power /\ wanted' = [wanted EXCEPT !.radioDown = FALSE]
      /\ scan' = RestoredScan /\ scanOn' = (scan'.scanning /\ power)
  BY DEF AdapterOn
<1> QED BY <1>1 DEF ScanInv, RestoredScan, StoppedScan

\* Every step of the radio keeps the invariant.
LEMMA NextScans ==
  ASSUME ScanInv, [RadioNext]_radioVars
  PROVE  ScanInv'
<1>1. CASE StartAdvertising \/ StopAdvertising
  <2>1. /\ power' = power /\ scan' = scan /\ scanOn' = scanOn
        /\ \E b \in BOOLEAN : wanted' = [wanted EXCEPT !.ad = b]
    BY <1>1 DEF StartAdvertising, StopAdvertising
  <2> QED BY <2>1, ScansUntouched DEF ScanInv
<1>2. CASE ServiceAdded \/ AdvertiserStarted \/ SetRefused \/ SetStopped \/ UNCHANGED radioVars
  <2>1. power' = power /\ scan' = scan /\ scanOn' = scanOn /\ wanted' = wanted
    BY <1>2 DEF ServiceAdded, AdvertiserStarted, SetRefused, SetStopped, radioVars
  <2> QED BY <2>1, ScansUntouched DEF ScanInv
<1>3. CASE PowerOff \/ PowerOn
  <2>1. /\ power' \in BOOLEAN /\ scan' = scan /\ (scanOn' = scanOn \/ scanOn' = FALSE)
        /\ wanted' = wanted
    BY <1>3 DEF PowerOff, PowerOn
  <2> QED BY <2>1, ScansUntouched
<1> QED BY <1>1, <1>2, <1>3, ScansMove, ScansStop, ScansReturn DEF RadioNext

\* At first nothing is wanted and nothing scans.
LEMMA RadioStarts == RadioInit => ScanInv
<1> SUFFICES ASSUME RadioInit  PROVE ScanInv
  OBVIOUS
<1>1. DOMAIN wanted = {"ad", "scan", "radioDown"} /\ wanted.scan = FALSE
  BY DEF RadioInit
<1>2. DOMAIN scan = {"scanning", "restart"} /\ scan.scanning = FALSE /\ scan.restart = FALSE
  BY DEF RadioInit
<1>3. power \in BOOLEAN /\ scanOn = FALSE
  BY DEF RadioInit
<1> QED BY <1>1, <1>2, <1>3 DEF ScanInv

\* No "scan nobody asked for" (BleScanner.kt): the stack scans only while the application
\* wants discovery, however Bluetooth is switched off and on, scans fail and their restarts
\* come late.
THEOREM NoScanUnasked == RadioSpec => []ScansAreAsked
<1>1. RadioInit => ScanInv
  BY RadioStarts
<1>2. ScanInv /\ [RadioNext]_radioVars => ScanInv'
  BY NextScans
<1>3. ScanInv => ScansAreAsked
  BY DEF ScanInv, ScansAreAsked
<1> QED BY <1>1, <1>2, <1>3, PTL DEF RadioSpec
-----------------------------------------------------------------------------
(* A Bluetooth link: every send() is answered once, and truthfully. *)

LinkFields == {"state", "path", "outbound", "sending", "outcome", "taken", "writer", "posted"}
Answers == {"unsent", "waiting", "sent", "failed", "dropped"}
Posts == (Datagrams \cup {Idle}) \X {"sent", "failed", "broken"}

\* Whoever waits for a send() has its datagram in the queue, once, or it is h, the one the
\* path holds (Idle when it holds none); whoever was answered was told the truth.
Answering(l, h) ==
  /\ DOMAIN l = LinkFields
  /\ l.state \in {"connecting", "open", "closed"}
  /\ l.outbound \in Seq(Datagrams)
  /\ \A i, j \in DOMAIN l.outbound : l.outbound[i] = l.outbound[j] => i = j
  /\ l.outcome \in [Datagrams -> Answers]
  /\ \A d \in Datagrams : /\ l.outcome[d] = "sent" => d \in l.taken
                          /\ l.outcome[d] = "dropped" => d \in Realtime
                          /\ l.outcome[d] = "waiting" =>
                               d = h \/ \E i \in DOMAIN l.outbound : l.outbound[i] = d
  /\ \A i \in DOMAIN l.outbound : l.outcome[l.outbound[i]] = "waiting" /\ l.outbound[i] # h
  /\ h \in Datagrams \cup {Idle}
  /\ h # Idle => l.outcome[h] = "waiting"
  /\ l.state # "closed" => l.sending = h
  /\ l.state = "connecting" => h = Idle
  /\ l.state # "open" => l.outbound = <<>>

\* On the L2CAP path h is with the writer, or its one completion is posted.
Posting(l, h) ==
  /\ l.writer \in {Idle, h}
  /\ l.posted \in Seq(Posts)
  /\ \A i \in DOMAIN l.posted :
       l.posted[i] # BreakNotice =>
         /\ h # Idle /\ l.writer = Idle
         /\ l.posted[i] = <<h, "failed">> \/ (l.posted[i] = <<h, "sent">> /\ h \in l.taken)
  /\ \A i, j \in DOMAIN l.posted :
       l.posted[i] # BreakNotice /\ l.posted[j] # BreakNotice => i = j

\* Datagrams are numbers from 1.
LEMMA DatagramFacts ==
  /\ Idle \notin Datagrams /\ Datagrams \subseteq Nat /\ ReliableDepth \in Nat /\ RealtimeDepth \in Nat
  /\ BreakNotice \in Posts
  /\ \A d \in Datagrams : \A a \in {"sent", "failed"} : <<d, a>> \in Posts /\ <<d, a>> # BreakNotice
<1>1. MaxDatagrams \in Nat /\ ReliableDepth \in Nat /\ RealtimeDepth \in Nat
  BY BleLinkAssumption
<1> QED BY <1>1 DEF Datagrams, Idle, BreakNotice, Posts

\* A set of numbers has a least element.
LEMMA SomeLeast ==
  ASSUME NEW T, T \subseteq Nat, T # {}
  PROVE  \E x \in T : \A y \in T : x <= y
<1> DEFINE R == OpToRel(<, Nat)
<1>1. IsWellFoundedOn(R, Nat)
  BY NatLessThanWellFounded
<1>2. \A x, y \in Nat : x < y => <<x, y>> \in R
  BY DEF OpToRel
<1> HIDE DEF R
<1>3. PICK x \in T : \A y \in T : ~(<<y, x>> \in R)
  BY <1>1, WFMin
<1>4. \A y \in T : x <= y
  <2> TAKE y \in T
  <2>1. x \in Nat /\ y \in Nat /\ ~(y < x)
    BY <1>2, <1>3
  <2> QED BY <2>1
<1> QED BY <1>4

\* Removing an element leaves the others, and each of them once.
LEMMA RemovedOnce ==
  ASSUME NEW S, NEW q \in Seq(S), NEW k \in DOMAIN q
  PROVE  /\ RemoveAt(q, k) \in Seq(S)
         /\ \A i \in DOMAIN RemoveAt(q, k) : \E j \in DOMAIN q : j # k /\ RemoveAt(q, k)[i] = q[j]
         /\ \A j \in DOMAIN q : j # k => \E i \in DOMAIN RemoveAt(q, k) : RemoveAt(q, k)[i] = q[j]
         /\ (\A i, j \in DOMAIN q : q[i] = q[j] => i = j)
              => \A i, j \in DOMAIN RemoveAt(q, k) : RemoveAt(q, k)[i] = RemoveAt(q, k)[j] => i = j
<1> DEFINE a == SubSeq(q, 1, k - 1)
           b == SubSeq(q, k + 1, Len(q))
           r == RemoveAt(q, k)
<1>1. DOMAIN q = 1..Len(q) /\ Len(q) \in Nat /\ k \in 1..Len(q)
  OBVIOUS
<1>2. a \in Seq(S) /\ Len(a) = k - 1 /\ \A i \in 1..(k - 1) : a[i] = q[i]
  BY <1>1
<1>3. b \in Seq(S) /\ Len(b) = Len(q) - k /\ \A i \in 1..(Len(q) - k) : b[i] = q[k + i]
  BY <1>1
<1>4. r = a \o b
  BY DEF RemoveAt
<1> HIDE DEF a, b, r
<1>5. r \in Seq(S) /\ Len(r) = Len(q) - 1 /\ DOMAIN r = 1..(Len(q) - 1)
  <2>1. r \in Seq(S) /\ Len(r) = Len(a) + Len(b)
    BY <1>2, <1>3, <1>4, ConcatProperties
  <2>2. Len(r) = Len(q) - 1
    BY <1>1, <1>2, <1>3, <2>1
  <2> QED BY <2>1, <2>2
<1>6. \A i \in 1..(Len(q) - 1) : r[i] = q[IF i < k THEN i ELSE i + 1]
  <2> TAKE i \in 1..(Len(q) - 1)
  <2>1. CASE i < k
    BY <1>1, <1>2, <1>3, <1>4, <2>1
  <2>2. CASE ~(i < k)
    <3>1. i - (k - 1) \in 1..(Len(q) - k) /\ k + (i - (k - 1)) = i + 1
      BY <1>1, <2>2
    <3>2. r[i] = b[i - (k - 1)]
      BY <1>1, <1>2, <1>3, <1>4, <2>2
    <3> QED BY <1>3, <2>2, <3>1, <3>2
  <2> QED BY <2>1, <2>2
<1>7. \A i \in DOMAIN r : \E j \in DOMAIN q : j # k /\ r[i] = q[j]
  <2> TAKE i \in DOMAIN r
  <2>1. /\ (IF i < k THEN i ELSE i + 1) \in 1..Len(q) /\ (IF i < k THEN i ELSE i + 1) # k
    BY <1>1, <1>5
  <2> QED BY <1>1, <1>5, <1>6, <2>1
<1>8. \A j \in DOMAIN q : j # k => \E i \in DOMAIN r : r[i] = q[j]
  <2> TAKE j \in DOMAIN q
  <2> SUFFICES ASSUME j # k  PROVE \E i \in DOMAIN r : r[i] = q[j]
    OBVIOUS
  <2> DEFINE i == IF j < k THEN j ELSE j - 1
  <2>1. i \in 1..(Len(q) - 1) /\ (IF i < k THEN i ELSE i + 1) = j
    BY <1>1
  <2> HIDE DEF i
  <2> QED BY <1>5, <1>6, <2>1
<1>9. ASSUME \A i, j \in DOMAIN q : q[i] = q[j] => i = j
      PROVE  \A i, j \in DOMAIN r : r[i] = r[j] => i = j
  <2> TAKE i, j \in DOMAIN r
  <2> DEFINE u(x) == IF x < k THEN x ELSE x + 1
  <2>1. u(i) \in 1..Len(q) /\ u(j) \in 1..Len(q) /\ (u(i) = u(j) => i = j)
    BY <1>1, <1>5
  <2>2. r[i] = q[u(i)] /\ r[j] = q[u(j)]
    BY <1>5, <1>6
  <2> HIDE DEF u
  <2> QED BY <1>1, <1>9, <2>1, <2>2
<1> QED BY <1>5, <1>7, <1>8, <1>9 DEF r

\* A new link.
LEMMA NewLinkAnswers == Answering(NewLink, Idle) /\ Posting(NewLink, Idle)
<1>1. /\ DOMAIN NewLink = LinkFields /\ NewLink.state = "connecting" /\ NewLink.outbound = <<>>
      /\ NewLink.outcome = [d \in Datagrams |-> "unsent"] /\ NewLink.sending = Idle
      /\ NewLink.writer = Idle /\ NewLink.posted = <<>>
  BY DEF NewLink, LinkFields
<1> HIDE DEF NewLink
<1>2. NewLink.outcome \in [Datagrams -> Answers]
  BY <1>1 DEF Answers
<1>3. <<>> \in Seq(Datagrams) /\ <<>> \in Seq(Posts) /\ DOMAIN <<>> = {}
  OBVIOUS
<1> QED BY <1>1, <1>2, <1>3 DEF Answering, Posting

\* What does not touch the queue, the answers and the path's datagram.
LEMMA SameAnswers ==
  ASSUME NEW l, NEW q, NEW h, Answering(l, h), DOMAIN q = LinkFields,
         q.state = l.state, q.outbound = l.outbound, q.sending = l.sending, q.outcome = l.outcome,
         l.taken \subseteq q.taken
  PROVE  Answering(q, h)
BY DEF Answering

\* The datagram the path holds is answered, with "sent" only if it was taken.
LEMMA DoneAnswers ==
  ASSUME NEW l, NEW h \in Datagrams, NEW answer \in {"sent", "failed"}, Answering(l, h),
         answer = "sent" => h \in l.taken
  PROVE  /\ Answering(Done(l, h, answer), Idle)
         /\ \A f \in LinkFields \ {"sending", "outcome"} : Done(l, h, answer)[f] = l[f]
<1> DEFINE q == Done(l, h, answer)
<1>1. /\ DOMAIN l = LinkFields /\ l.outcome \in [Datagrams -> Answers] /\ l.outcome[h] = "waiting"
      /\ h # Idle
  BY DatagramFacts DEF Answering
<1>2. /\ DOMAIN q = LinkFields /\ q.sending = Idle /\ q.outcome = [l.outcome EXCEPT ![h] = answer]
      /\ q.state = l.state /\ q.outbound = l.outbound /\ q.taken = l.taken /\ q.path = l.path
      /\ q.writer = l.writer /\ q.posted = l.posted
  BY <1>1 DEF Done, Answered, LinkFields
<1> HIDE DEF q
<1>3. /\ q.outcome \in [Datagrams -> Answers] /\ q.outcome[h] = answer
      /\ \A d \in Datagrams : d # h => q.outcome[d] = l.outcome[d]
  BY <1>1, <1>2 DEF Answers
<1>4. \A i \in DOMAIN q.outbound : q.outbound[i] \in Datagrams /\ q.outbound[i] # h
  BY <1>2 DEF Answering
<1>5. \A d \in Datagrams : /\ q.outcome[d] = "sent" => d \in q.taken
                           /\ q.outcome[d] = "dropped" => d \in Realtime
                           /\ q.outcome[d] = "waiting" =>
                                \E i \in DOMAIN q.outbound : q.outbound[i] = d
  BY <1>2, <1>3 DEF Answering
<1>6. \A i \in DOMAIN q.outbound : q.outcome[q.outbound[i]] = "waiting" /\ q.outbound[i] # Idle
  BY <1>2, <1>3, <1>4, DatagramFacts DEF Answering
<1>7. Answering(q, Idle)
  BY <1>2, <1>3, <1>5, <1>6 DEF Answering
<1> QED BY <1>2, <1>7 DEF q, LinkFields

\* pump() takes the head of the queue onto the path, which held nothing.
LEMMA PumpedAnswers ==
  ASSUME NEW l, NEW h, Answering(l, h), CanPump(l)
  PROVE  /\ h = Idle /\ Head(l.outbound) \in Datagrams /\ Head(l.outbound) # Idle
         /\ Answering(Pumped(l), Head(l.outbound))
         /\ \A f \in LinkFields \ {"sending", "outbound"} : Pumped(l)[f] = l[f]
<1> DEFINE q == Pumped(l)
           d == Head(l.outbound)
<1>1. /\ DOMAIN l = LinkFields /\ l.state = "open" /\ h = Idle /\ l.outbound # <<>>
      /\ l.outbound \in Seq(Datagrams)
  BY DEF Answering, CanPump
<1>2. /\ DOMAIN q = LinkFields /\ q.sending = d /\ q.outbound = Tail(l.outbound)
      /\ q.outcome = l.outcome
      /\ q.state = l.state /\ q.taken = l.taken /\ q.path = l.path
      /\ q.writer = l.writer /\ q.posted = l.posted
  BY <1>1 DEF Pumped, LinkFields
<1>3. /\ d \in Datagrams /\ d = l.outbound[1] /\ 1 \in DOMAIN l.outbound
      /\ q.outbound \in Seq(Datagrams)
      /\ \A i \in DOMAIN q.outbound : i + 1 \in DOMAIN l.outbound /\ i + 1 # 1
                                        /\ q.outbound[i] = l.outbound[i + 1]
      /\ \A i \in DOMAIN l.outbound : i # 1 => i - 1 \in DOMAIN q.outbound
                                        /\ q.outbound[i - 1] = l.outbound[i]
  BY <1>1, <1>2
<1> HIDE DEF q, d
<1>4. \A i, j \in DOMAIN q.outbound : q.outbound[i] = q.outbound[j] => i = j
  <2> TAKE i, j \in DOMAIN q.outbound
  <2>1. i \in Int /\ j \in Int
    BY <1>3
  <2>2. q.outbound[i] = q.outbound[j] => i + 1 = j + 1
    BY <1>3 DEF Answering
  <2> QED BY <2>1, <2>2
<1>5. \A i \in DOMAIN q.outbound : q.outcome[q.outbound[i]] = "waiting" /\ q.outbound[i] # d
  BY <1>2, <1>3 DEF Answering
<1>6. \A x \in Datagrams : q.outcome[x] = "waiting" =>
                             x = d \/ \E i \in DOMAIN q.outbound : q.outbound[i] = x
  <2> TAKE x \in Datagrams
  <2> SUFFICES ASSUME q.outcome[x] = "waiting", x # d
               PROVE  \E i \in DOMAIN q.outbound : q.outbound[i] = x
    OBVIOUS
  <2>1. PICK i \in DOMAIN l.outbound : l.outbound[i] = x
    BY <1>1, <1>2, DatagramFacts DEF Answering
  <2>2. i # 1
    BY <1>3, <2>1
  <2> QED BY <1>3, <2>1, <2>2
<1>7. q.outcome[d] = "waiting" /\ d # Idle
  BY <1>2, <1>3, DatagramFacts DEF Answering
<1>8. Answering(q, d)
  BY <1>1, <1>2, <1>3, <1>4, <1>5, <1>6, <1>7 DEF Answering
<1> QED BY <1>1, <1>2, <1>3, <1>7, <1>8 DEF q, d, LinkFields

\* close(): the queue is failed, and what the path holds is left to the path.
LEMMA ClosedAnswers ==
  ASSUME NEW l, NEW h, Answering(l, h)
  PROVE  /\ Answering(Closed(l), h) /\ Closed(l).state = "closed"
         /\ \A f \in LinkFields \ {"state", "outbound", "sending", "outcome"} : Closed(l)[f] = l[f]
<1> DEFINE q == Closed(l)
<1>1. CASE l.state = "closed"
  BY <1>1 DEF Closed
<1>2. CASE l.state # "closed"
  <2>1. DOMAIN l = LinkFields /\ l.outbound \in Seq(Datagrams)
    BY DEF Answering
  <2>2. /\ DOMAIN q = LinkFields /\ q.state = "closed" /\ q.outbound = <<>>
        /\ q.outcome = [d \in Datagrams |->
                          IF Contains(l.outbound, d) THEN "failed" ELSE l.outcome[d]]
        /\ q.taken = l.taken /\ q.path = l.path /\ q.writer = l.writer /\ q.posted = l.posted
    BY <1>2, <2>1 DEF Closed, LinkFields
  <2> HIDE DEF q
  <2>3. \A d : Contains(l.outbound, d) <=> \E i \in DOMAIN l.outbound : l.outbound[i] = d
    BY <2>1 DEF Contains
  <2>4. \A d \in Datagrams : q.outcome[d] = IF \E i \in DOMAIN l.outbound : l.outbound[i] = d
                                            THEN "failed" ELSE l.outcome[d]
    BY <2>2, <2>3
  <2>5. q.outcome \in [Datagrams -> Answers]
    BY <2>2 DEF Answering, Answers
  <2>6. \A d \in Datagrams : /\ q.outcome[d] = "sent" => d \in q.taken
                             /\ q.outcome[d] = "dropped" => d \in Realtime
                             /\ q.outcome[d] = "waiting" => d = h
    BY <2>2, <2>4 DEF Answering
  <2>7. h # Idle => h \in Datagrams /\ q.outcome[h] = "waiting"
    BY <2>4 DEF Answering
  <2>8. <<>> \in Seq(Datagrams) /\ DOMAIN <<>> = {}
    OBVIOUS
  <2>9. h \in Datagrams \cup {Idle}
    BY DEF Answering
  <2>10. Answering(q, h)
    BY <2>2, <2>5, <2>6, <2>7, <2>8, <2>9 DEF Answering
  <2> QED BY <2>2, <2>10 DEF q, LinkFields
<1> QED BY <1>1, <1>2

\* A link opens, on one path.
LEMMA OpenedAnswers ==
  ASSUME NEW l, NEW h, NEW path, Answering(l, h), l.state = "connecting"
  PROVE  /\ Answering(Opened(l, path), h)
         /\ Opened(l, path).state = "open" /\ Opened(l, path).path = path
         /\ \A f \in LinkFields \ {"state", "path"} : Opened(l, path)[f] = l[f]
<1> DEFINE q == Opened(l, path)
<1>1. DOMAIN l = LinkFields
  BY DEF Answering
<1>2. /\ DOMAIN q = LinkFields /\ q.state = "open" /\ q.path = path /\ q.outbound = l.outbound
      /\ q.sending = l.sending /\ q.outcome = l.outcome /\ q.taken = l.taken
      /\ q.writer = l.writer /\ q.posted = l.posted
  BY <1>1 DEF Opened, LinkFields
<1> HIDE DEF q
<1>3. Answering(q, h)
  BY <1>2 DEF Answering
<1> QED BY <1>2, <1>3 DEF q, LinkFields


\* A send() that is answered at once.
LEMMA RefusedAnswers ==
  ASSUME NEW l, NEW h, Answering(l, h), NEW d \in Datagrams, l.outcome[d] = "unsent",
         NEW answer \in {"failed", "dropped"}, answer = "dropped" => d \in Realtime
  PROVE  /\ Answering(Answered([l EXCEPT !.outcome[d] = "waiting"], d, answer), h)
         /\ \A f \in LinkFields \ {"outcome"} :
              Answered([l EXCEPT !.outcome[d] = "waiting"], d, answer)[f] = l[f]
<1> DEFINE q == Answered([l EXCEPT !.outcome[d] = "waiting"], d, answer)
<1>1. DOMAIN l = LinkFields /\ l.outcome \in [Datagrams -> Answers]
  BY DEF Answering
<1>2. /\ DOMAIN q = LinkFields /\ q.outcome = [l.outcome EXCEPT ![d] = answer]
      /\ q.state = l.state /\ q.outbound = l.outbound /\ q.taken = l.taken /\ q.path = l.path
      /\ q.writer = l.writer /\ q.posted = l.posted /\ q.sending = l.sending
  BY <1>1 DEF Answered, LinkFields
<1> HIDE DEF q
<1>3. /\ q.outcome \in [Datagrams -> Answers] /\ q.outcome[d] = answer
      /\ \A x \in Datagrams : x # d => q.outcome[x] = l.outcome[x]
  BY <1>1, <1>2 DEF Answers
<1>4. \A i \in DOMAIN q.outbound : q.outbound[i] \in Datagrams /\ q.outbound[i] # d
  BY <1>2 DEF Answering
<1>5. d # h
  BY DatagramFacts DEF Answering
<1>6. Answering(q, h)
  BY <1>2, <1>3, <1>4, <1>5 DEF Answering
<1> QED BY <1>2, <1>6 DEF q, LinkFields

\* Datagram d joins the end of a queue whose others stay as they are, or are dropped.
Joins(l, q, h, d, rest) ==
  /\ DOMAIN q = LinkFields /\ q.state = l.state /\ q.sending = l.sending /\ q.taken = l.taken
  /\ rest \in Seq(Datagrams) /\ q.outbound = Append(rest, d)
  /\ \A i \in DOMAIN rest : \E j \in DOMAIN l.outbound : rest[i] = l.outbound[j]
  /\ \A i, j \in DOMAIN rest : rest[i] = rest[j] => i = j
  /\ q.outcome \in [Datagrams -> Answers] /\ q.outcome[d] = "waiting"
  /\ \A i \in DOMAIN rest : q.outcome[rest[i]] = "waiting"
  /\ h # Idle => q.outcome[h] = l.outcome[h]
  /\ \A x \in Datagrams : x # d =>
       \/ q.outcome[x] = l.outcome[x]
            /\ \A j \in DOMAIN l.outbound : l.outbound[j] = x =>
                 \E i \in DOMAIN rest : rest[i] = x
       \/ q.outcome[x] = "dropped" /\ x \in Realtime

\* A send() that is queued.
LEMMA JoinedAnswers ==
  ASSUME NEW l, NEW q, NEW h, Answering(l, h), NEW d \in Datagrams, l.outcome[d] = "unsent",
         l.state = "open", NEW rest, Joins(l, q, h, d, rest)
  PROVE  Answering(q, h)
<1> USE DEF Joins
<1>1. /\ q.outbound \in Seq(Datagrams) /\ DOMAIN q.outbound = 1..(Len(rest) + 1)
      /\ DOMAIN rest = 1..Len(rest) /\ Len(rest) \in Nat
      /\ q.outbound[Len(rest) + 1] = d
      /\ \A i \in DOMAIN rest : q.outbound[i] = rest[i]
  OBVIOUS
<1>2. \A i \in DOMAIN q.outbound : i \in DOMAIN rest \/ i = Len(rest) + 1
  BY <1>1
<1>3. \A i \in DOMAIN rest : i \in DOMAIN q.outbound /\ rest[i] # d
  BY <1>1 DEF Answering
<1>4. \A i, j \in DOMAIN q.outbound : q.outbound[i] = q.outbound[j] => i = j
  <2> TAKE i, j \in DOMAIN q.outbound
  <2> QED BY <1>1, <1>2, <1>3
<1>5. h # d /\ h \in Datagrams \cup {Idle}
  BY DatagramFacts DEF Answering
<1>6. \A i \in DOMAIN q.outbound : q.outcome[q.outbound[i]] = "waiting" /\ q.outbound[i] # h
  BY <1>1, <1>2, <1>5 DEF Answering
<1>7. ASSUME NEW x \in Datagrams
      PROVE  /\ q.outcome[x] = "sent" => x \in q.taken
             /\ q.outcome[x] = "dropped" => x \in Realtime
             /\ q.outcome[x] = "waiting" =>
                  x = h \/ \E i \in DOMAIN q.outbound : q.outbound[i] = x
  <2>1. CASE x = d
    BY <1>1, <2>1
  <2>2. CASE x # d /\ q.outcome[x] = "dropped" /\ x \in Realtime
    BY <2>2
  <2>3. CASE /\ x # d /\ q.outcome[x] = l.outcome[x]
             /\ \A j \in DOMAIN l.outbound : l.outbound[j] = x => \E i \in DOMAIN rest : rest[i] = x
    <3>1. /\ l.outcome[x] = "sent" => x \in l.taken
          /\ l.outcome[x] = "dropped" => x \in Realtime
          /\ l.outcome[x] = "waiting" =>
               x = h \/ \E i \in DOMAIN l.outbound : l.outbound[i] = x
      BY DEF Answering
    <3> QED BY <1>1, <1>3, <2>3, <3>1
  <2> QED BY <2>1, <2>2, <2>3
<1>8. h # Idle => q.outcome[h] = "waiting"
  BY DEF Answering
<1> QED BY <1>1, <1>4, <1>5, <1>6, <1>7, <1>8 DEF Answering

\* enqueue(): queued, refused, or queued in the place of the oldest best-effort datagram.
LEMMA EnqueuedAnswers ==
  ASSUME NEW l, NEW h, Answering(l, h), NEW d \in Datagrams, l.outcome[d] = "unsent"
  PROVE  /\ Answering(Enqueued(l, d), h)
         /\ \A f \in LinkFields \ {"outcome", "outbound"} : Enqueued(l, d)[f] = l[f]
<1> DEFINE w    == [l EXCEPT !.outcome[d] = "waiting"]
           full == Len(l.outbound) >= (IF d \in Realtime THEN RealtimeDepth ELSE ReliableDepth)
           v    == OldestOf(Victims(l))
           q    == Enqueued(l, d)
<1>1. /\ DOMAIN l = LinkFields /\ l.outcome \in [Datagrams -> Answers] /\ l.outbound \in Seq(Datagrams)
      /\ l.state \in {"connecting", "open", "closed"}
  BY DEF Answering
<1>2. /\ DOMAIN w = LinkFields /\ w.outcome = [l.outcome EXCEPT ![d] = "waiting"]
      /\ w.state = l.state /\ w.outbound = l.outbound /\ w.taken = l.taken /\ w.path = l.path
      /\ w.writer = l.writer /\ w.posted = l.posted /\ w.sending = l.sending
  BY <1>1 DEF LinkFields
<1>3. /\ w.outcome \in [Datagrams -> Answers] /\ w.outcome[d] = "waiting"
      /\ \A x \in Datagrams : x # d => w.outcome[x] = l.outcome[x]
  BY <1>1, <1>2 DEF Answers
<1>4. \A i \in DOMAIN l.outbound : /\ l.outbound[i] \in Datagrams /\ l.outbound[i] # d
                                   /\ l.outbound[i] # h /\ l.outcome[l.outbound[i]] = "waiting"
  BY <1>1 DEF Answering
<1>5. h # d /\ h \in Datagrams \cup {Idle} /\ DOMAIN l.outbound = 1..Len(l.outbound)
  BY <1>1, DatagramFacts DEF Answering
<1>6. CASE l.state # "open" \/ (l.state = "open" /\ full /\ (d \in Realtime => Victims(l) = {}))
  <2>1. q = Answered(w, d, "failed") \/ (q = Answered(w, d, "dropped") /\ d \in Realtime)
    BY <1>6 DEF Enqueued
  <2> QED BY <2>1, RefusedAnswers
<1>7. CASE l.state = "open" /\ ~full
  <2>1. q = [w EXCEPT !.outbound = Append(@, d)]
    BY <1>7 DEF Enqueued
  <2>2. /\ DOMAIN q = LinkFields /\ q.outbound = Append(l.outbound, d) /\ q.outcome = w.outcome
        /\ q.state = l.state /\ q.taken = l.taken /\ q.path = l.path
        /\ q.writer = l.writer /\ q.posted = l.posted /\ q.sending = l.sending
    BY <1>2, <2>1 DEF LinkFields
  <2> HIDE DEF w, q
  <2>3. \A i, j \in DOMAIN l.outbound : l.outbound[i] = l.outbound[j] => i = j
    BY DEF Answering
  <2>4. Joins(l, q, h, d, l.outbound)
    BY <1>1, <1>3, <1>4, <1>5, <2>2, <2>3 DEF Joins
  <2>5. Answering(q, h)
    BY <1>7, <2>4, JoinedAnswers
  <2> QED BY <2>2, <2>5 DEF q, LinkFields
<1>8. CASE l.state = "open" /\ full /\ d \in Realtime /\ Victims(l) # {}
  <2>1. q = [Answered(w, l.outbound[v], "dropped") EXCEPT !.outbound = Append(RemoveAt(@, v), d)]
    BY <1>8 DEF Enqueued
  <2>2. v \in Victims(l)
    <3>1. Victims(l) \subseteq Nat
      BY <1>1 DEF Victims
    <3>2. \E i \in Victims(l) : \A j \in Victims(l) : i <= j
      BY <1>8, <3>1, SomeLeast
    <3> QED BY <3>2 DEF OldestOf
  <2> DEFINE x == l.outbound[v]
             rest == RemoveAt(l.outbound, v)
  <2>3. v \in DOMAIN l.outbound /\ x \in Realtime /\ x \in Datagrams /\ x # d /\ x # h
    BY <1>1, <1>4, <1>5, <2>2 DEF Victims
  <2>4. w.outcome[x] = "waiting"
    BY <1>3, <1>4, <2>3
  <2>5. /\ DOMAIN q = LinkFields /\ q.outbound = Append(rest, d)
        /\ q.outcome = [w.outcome EXCEPT ![x] = "dropped"]
        /\ q.state = l.state /\ q.taken = l.taken /\ q.path = l.path
        /\ q.writer = l.writer /\ q.posted = l.posted /\ q.sending = l.sending
    <3> HIDE DEF w, v
    <3> QED BY <1>2, <1>3, <2>1, <2>3, <2>4 DEF Answered, LinkFields
  <2>6. \A i, j \in DOMAIN l.outbound : l.outbound[i] = l.outbound[j] => i = j
    BY DEF Answering
  <2>7. /\ rest \in Seq(Datagrams)
        /\ \A i \in DOMAIN rest : \E j \in DOMAIN l.outbound : j # v /\ rest[i] = l.outbound[j]
        /\ \A j \in DOMAIN l.outbound : j # v => \E i \in DOMAIN rest : rest[i] = l.outbound[j]
        /\ \A i, j \in DOMAIN rest : rest[i] = rest[j] => i = j
    <3> HIDE DEF v
    <3> QED BY <1>1, <2>3, <2>6, RemovedOnce
  <2> HIDE DEF w, q, v, rest
  <2>8. /\ q.outcome \in [Datagrams -> Answers] /\ q.outcome[x] = "dropped"
        /\ \A y \in Datagrams : y # x => q.outcome[y] = w.outcome[y]
    BY <1>3, <2>3, <2>5 DEF Answers
  <2>9. \A i \in DOMAIN rest : rest[i] # x /\ rest[i] # d /\ rest[i] \in Datagrams
                                 /\ l.outcome[rest[i]] = "waiting"
    BY <1>4, <2>3, <2>6, <2>7
  <2>10. \A i \in DOMAIN rest : q.outcome[rest[i]] = "waiting"
    BY <1>3, <2>8, <2>9
  <2>11. q.outcome[d] = "waiting" /\ (h # Idle => q.outcome[h] = l.outcome[h])
    BY <1>3, <1>5, <2>3, <2>8
  <2>12. ASSUME NEW y \in Datagrams, y # d
         PROVE  \/ q.outcome[y] = l.outcome[y]
                     /\ \A j \in DOMAIN l.outbound : l.outbound[j] = y =>
                          \E i \in DOMAIN rest : rest[i] = y
                \/ q.outcome[y] = "dropped" /\ y \in Realtime
    <3>1. CASE y = x
      BY <2>3, <2>8, <3>1
    <3>2. CASE y # x
      <4>1. q.outcome[y] = l.outcome[y]
        BY <1>3, <2>8, <2>12, <3>2
      <4>2. \A j \in DOMAIN l.outbound : l.outbound[j] = y => j # v
        BY <3>2
      <4> QED BY <2>7, <4>1, <4>2
    <3> QED BY <3>1, <3>2
  <2>13. \A i \in DOMAIN rest : \E j \in DOMAIN l.outbound : rest[i] = l.outbound[j]
    BY <2>7
  <2>14. Joins(l, q, h, d, rest)
    BY <2>5, <2>7, <2>8, <2>10, <2>11, <2>12, <2>13 DEF Joins
  <2>15. Answering(q, h)
    BY <1>8, <2>14, JoinedAnswers
  <2> QED BY <2>5, <2>15 DEF q, LinkFields
<1> QED BY <1>6, <1>7, <1>8 DEF q


\* What does not touch the writer and what it posted.
LEMMA SamePosting ==
  ASSUME NEW l, NEW q, NEW h, Posting(l, h), q.writer = l.writer, q.posted = l.posted,
         l.taken \subseteq q.taken
  PROVE  Posting(q, h)
BY DEF Posting

\* A link whose L2CAP path has nothing to say.
LEMMA QuietPosting ==
  ASSUME NEW l, NEW h, l.writer = Idle, l.posted = <<>>
  PROVE  Posting(l, h)
<1>1. <<>> \in Seq(Posts) /\ DOMAIN <<>> = {}
  OBVIOUS
<1> QED BY <1>1 DEF Posting

\* When the path holds nothing, only notices that it broke are posted.
LEMMA IdlePosting ==
  ASSUME NEW l, NEW q, NEW d, Posting(l, Idle), q.writer \in {Idle, d}, q.posted = l.posted
  PROVE  Posting(q, d)
<1>1. \A i \in DOMAIN q.posted : q.posted[i] = BreakNotice
  BY DEF Posting
<1>2. q.posted \in Seq(Posts)
  BY DEF Posting
<1> QED BY <1>1, <1>2 DEF Posting

\* L2capSender.send(): the datagram pump() takes is with the writer.
LEMMA ChannelTakesAnswers ==
  ASSUME NEW l, NEW h, Answering(l, h), Posting(l, h), CanPump(l)
  PROVE  /\ h = Idle /\ Head(l.outbound) \in Datagrams
         /\ Answering(ChannelTakes(l), Head(l.outbound))
         /\ Posting(ChannelTakes(l), Head(l.outbound))
         /\ ChannelTakes(l).writer = Head(l.outbound)
         /\ \A f \in LinkFields \ {"sending", "outbound", "writer"} : ChannelTakes(l)[f] = l[f]
<1> DEFINE p == Pumped(l)
           q == ChannelTakes(l)
           d == Head(l.outbound)
<1>1. /\ h = Idle /\ d \in Datagrams /\ Answering(p, d)
      /\ \A f \in LinkFields \ {"sending", "outbound"} : p[f] = l[f]
  BY PumpedAnswers
<1>2. DOMAIN p = LinkFields
  BY <1>1 DEF Answering
<1> HIDE DEF p, d
<1>3. /\ DOMAIN q = LinkFields /\ q.writer = d
      /\ \A f \in LinkFields \ {"writer"} : q[f] = p[f]
  BY <1>2 DEF ChannelTakes, LinkFields, p, d
<1> HIDE DEF q
<1>4. /\ q.state = p.state /\ q.outbound = p.outbound /\ q.sending = p.sending
      /\ q.outcome = p.outcome /\ q.taken = p.taken /\ q.posted = p.posted /\ p.posted = l.posted
  BY <1>1, <1>3 DEF LinkFields
<1>5. Answering(q, d)
  BY <1>1, <1>3, <1>4, SameAnswers
<1>6. Posting(q, d)
  BY <1>1, <1>3, <1>4, IdlePosting
<1> QED BY <1>1, <1>3, <1>5, <1>6 DEF q, d, LinkFields

\* One more completion, or notice, is posted.
LEMMA PostedMore ==
  ASSUME NEW l, NEW q, NEW h \in Datagrams \cup {Idle}, NEW p, Posting(l, h),
         q.posted = Append(l.posted, p), q.writer = Idle, l.taken \subseteq q.taken,
         \/ p = BreakNotice
         \/ /\ l.writer # Idle
            /\ p = <<h, "failed">> \/ (p = <<h, "sent">> /\ h \in q.taken)
  PROVE  Posting(q, h)
<1> DEFINE n == Len(l.posted) + 1
<1>1. p \in Posts
  BY DatagramFacts DEF Posts
<1>2. /\ q.posted \in Seq(Posts) /\ DOMAIN q.posted = 1..n /\ DOMAIN l.posted = 1..Len(l.posted)
      /\ q.posted[n] = p /\ n \in Nat
      /\ \A i \in DOMAIN l.posted : q.posted[i] = l.posted[i]
  BY <1>1 DEF Posting
<1>3. \A i \in DOMAIN q.posted : i \in DOMAIN l.posted \/ i = n
  BY <1>2
<1>4. l.writer # Idle => \A i \in DOMAIN l.posted : l.posted[i] = BreakNotice
  BY DEF Posting
<1>5. \A i \in DOMAIN q.posted : q.posted[i] # BreakNotice =>
         /\ h # Idle /\ q.writer = Idle
         /\ q.posted[i] = <<h, "failed">> \/ (q.posted[i] = <<h, "sent">> /\ h \in q.taken)
  <2> TAKE i \in DOMAIN q.posted
  <2>1. CASE i \in DOMAIN l.posted
    BY <1>2, <2>1 DEF Posting
  <2>2. CASE i = n /\ p # BreakNotice
    <3>1. h # Idle
      BY <2>2 DEF Posting
    <3> QED BY <1>2, <2>2, <3>1
  <2>3. CASE i = n /\ p = BreakNotice
    BY <1>2, <2>3
  <2> QED BY <1>3, <2>1, <2>2, <2>3
<1>6. \A i, j \in DOMAIN q.posted :
         q.posted[i] # BreakNotice /\ q.posted[j] # BreakNotice => i = j
  <2>1. CASE p = BreakNotice
    BY <1>2, <1>3, <2>1 DEF Posting
  <2>2. CASE p # BreakNotice
    BY <1>2, <1>3, <1>4, <2>2
  <2> QED BY <2>1, <2>2
<1> QED BY <1>2, <1>5, <1>6 DEF Posting

\* writeLoop(): written, and its completion posted.
LEMMA WroteAnswers ==
  ASSUME NEW l, NEW h, Answering(l, h), Posting(l, h), l.writer # Idle
  PROVE  /\ Answering(Wrote(l), h) /\ Posting(Wrote(l), h)
         /\ \A f \in LinkFields \ {"writer", "taken", "posted"} : Wrote(l)[f] = l[f]
         /\ \E i \in DOMAIN Wrote(l).posted : Wrote(l).posted[i][1] = h
<1> DEFINE q == Wrote(l)
<1>1. DOMAIN l = LinkFields /\ l.writer = h /\ h \in Datagrams \cup {Idle}
  BY DEF Answering, Posting
<1>2. /\ DOMAIN q = LinkFields /\ q.writer = Idle /\ q.taken = l.taken \cup {h}
      /\ q.posted = Append(l.posted, <<h, "sent">>)
      /\ q.state = l.state /\ q.outbound = l.outbound /\ q.sending = l.sending
      /\ q.outcome = l.outcome /\ q.path = l.path
  BY <1>1 DEF Wrote, LinkFields
<1> HIDE DEF q
<1>3. Answering(q, h)
  BY <1>2, SameAnswers
<1>4. Posting(q, h)
  BY <1>1, <1>2, PostedMore
<1>5. l.posted \in Seq(Posts)
  BY DEF Posting
<1>6. \E i \in DOMAIN q.posted : q.posted[i][1] = h
  <2>1. Len(l.posted) + 1 \in DOMAIN q.posted /\ q.posted[Len(l.posted) + 1] = <<h, "sent">>
    BY <1>2, <1>5
  <2> QED BY <2>1
<1> QED BY <1>2, <1>3, <1>4, <1>6 DEF q, LinkFields

\* broke() posts its notice once the writer is done, or from the reader.
LEMMA BrokeAnswers ==
  ASSUME NEW l, NEW h, Answering(l, h), Posting(l, h)
  PROVE  /\ Answering(Broke(l), h) /\ Posting(Broke(l), h)
         /\ \A f \in LinkFields \ {"posted"} : Broke(l)[f] = l[f]
         /\ \A i \in DOMAIN l.posted : i \in DOMAIN Broke(l).posted /\ Broke(l).posted[i] = l.posted[i]
<1> DEFINE q == Broke(l)
<1>1. CASE l.state # "open"
  BY <1>1 DEF Broke
<1>2. CASE l.state = "open"
  <2>1. DOMAIN l = LinkFields
    BY DEF Answering
  <2>2. /\ DOMAIN q = LinkFields /\ q.writer = l.writer /\ q.taken = l.taken
        /\ q.posted = Append(l.posted, BreakNotice)
        /\ q.state = l.state /\ q.outbound = l.outbound /\ q.sending = l.sending
        /\ q.outcome = l.outcome /\ q.path = l.path
    BY <1>2, <2>1 DEF Broke, LinkFields
  <2> HIDE DEF q
  <2>3. Answering(q, h)
    BY <2>2, SameAnswers
  <2>4. l.posted \in Seq(Posts)
    BY DEF Posting
  <2> DEFINE n == Len(l.posted) + 1
  <2>5. /\ q.posted \in Seq(Posts) /\ DOMAIN q.posted = 1..n /\ DOMAIN l.posted = 1..Len(l.posted)
        /\ q.posted[n] = BreakNotice /\ n \in Nat
        /\ \A i \in DOMAIN l.posted : q.posted[i] = l.posted[i]
    BY <2>2, <2>4, DatagramFacts
  <2>6. \A i \in DOMAIN q.posted : i \in DOMAIN l.posted \/ q.posted[i] = BreakNotice
    BY <2>5
  <2>7. Posting(q, h)
    BY <2>2, <2>5, <2>6 DEF Posting
  <2>8. \A i \in DOMAIN l.posted : i \in DOMAIN q.posted /\ q.posted[i] = l.posted[i]
    BY <2>5
  <2> QED BY <2>2, <2>3, <2>7, <2>8 DEF q, LinkFields
<1> QED BY <1>1, <1>2

\* writeLoop() on an IOException, or what close() found unwritten.
LEMMA NotWrittenAnswers ==
  ASSUME NEW l, NEW h, Answering(l, h), Posting(l, h), l.writer # Idle
  PROVE  /\ Answering(NotWritten(l), h) /\ Posting(NotWritten(l), h)
         /\ \A f \in LinkFields \ {"writer", "posted"} : NotWritten(l)[f] = l[f]
         /\ NotWritten(l).writer = Idle
         /\ \E i \in DOMAIN NotWritten(l).posted : NotWritten(l).posted[i][1] = h
<1> DEFINE q == [l EXCEPT !.writer = Idle, !.posted = Append(@, <<l.writer, "failed">>)]
<1>1. DOMAIN l = LinkFields /\ l.writer = h /\ h \in Datagrams \cup {Idle}
  BY DEF Answering, Posting
<1>2. /\ DOMAIN q = LinkFields /\ q.writer = Idle /\ q.taken = l.taken
      /\ q.posted = Append(l.posted, <<h, "failed">>)
      /\ q.state = l.state /\ q.outbound = l.outbound /\ q.sending = l.sending
      /\ q.outcome = l.outcome /\ q.path = l.path
  BY <1>1 DEF LinkFields
<1>3. NotWritten(l) = Broke(q)
  BY DEF NotWritten
<1> HIDE DEF q
<1>4. Answering(q, h)
  BY <1>2, SameAnswers
<1>5. Posting(q, h)
  BY <1>1, <1>2, PostedMore
<1>6. l.posted \in Seq(Posts)
  BY DEF Posting
<1>7. Len(l.posted) + 1 \in DOMAIN q.posted /\ q.posted[Len(l.posted) + 1] = <<h, "failed">>
  BY <1>2, <1>6
<1>8. /\ Answering(Broke(q), h) /\ Posting(Broke(q), h)
      /\ \A f \in LinkFields \ {"posted"} : Broke(q)[f] = q[f]
      /\ \A i \in DOMAIN q.posted : i \in DOMAIN Broke(q).posted /\ Broke(q).posted[i] = q.posted[i]
  BY <1>4, <1>5, BrokeAnswers
<1>9. \E i \in DOMAIN Broke(q).posted : Broke(q).posted[i][1] = h
  BY <1>7, <1>8
<1>10. \A f \in LinkFields \ {"writer", "posted"} : q[f] = l[f]
  BY <1>2 DEF LinkFields
<1> QED BY <1>2, <1>3, <1>8, <1>9, <1>10 DEF LinkFields

\* The head of what is posted is taken off.
LEMMA PostedLess ==
  ASSUME NEW l, NEW q, NEW h, Posting(l, h), l.posted # <<>>, q.posted = Tail(l.posted),
         q.writer = l.writer, l.taken \subseteq q.taken
  PROVE  /\ Posting(q, h)
         /\ l.posted[1] # BreakNotice => Posting(q, Idle)
         /\ \A i \in DOMAIN q.posted : i + 1 \in DOMAIN l.posted /\ q.posted[i] = l.posted[i + 1]
         /\ \A i \in DOMAIN l.posted : i # 1 => i - 1 \in DOMAIN q.posted /\ q.posted[i - 1] = l.posted[i]
<1>1. l.posted \in Seq(Posts)
  BY DEF Posting
<1>2. /\ q.posted \in Seq(Posts) /\ 1 \in DOMAIN l.posted
      /\ \A i \in DOMAIN q.posted : i + 1 \in DOMAIN l.posted /\ i + 1 # 1
                                      /\ q.posted[i] = l.posted[i + 1]
      /\ \A i \in DOMAIN l.posted : i # 1 => i - 1 \in DOMAIN q.posted /\ q.posted[i - 1] = l.posted[i]
  BY <1>1
<1>3. \A i \in DOMAIN q.posted : q.posted[i] # BreakNotice =>
         /\ h # Idle /\ q.writer = Idle
         /\ q.posted[i] = <<h, "failed">> \/ (q.posted[i] = <<h, "sent">> /\ h \in q.taken)
  BY <1>2 DEF Posting
<1>4. \A i, j \in DOMAIN q.posted :
         q.posted[i] # BreakNotice /\ q.posted[j] # BreakNotice => i = j
  <2> TAKE i, j \in DOMAIN q.posted
  <2>1. i \in Int /\ j \in Int
    BY <1>2
  <2>2. q.posted[i] # BreakNotice /\ q.posted[j] # BreakNotice => i + 1 = j + 1
    BY <1>2 DEF Posting
  <2> QED BY <2>1, <2>2
<1>5. Posting(q, h)
  BY <1>2, <1>3, <1>4 DEF Posting
<1>6. ASSUME l.posted[1] # BreakNotice
      PROVE  Posting(q, Idle)
  <2>1. \A i \in DOMAIN q.posted : q.posted[i] = BreakNotice
    BY <1>2, <1>6 DEF Posting
  <2>2. q.writer = Idle
    BY <1>2, <1>6 DEF Posting
  <2> QED BY <1>2, <2>1, <2>2 DEF Posting
<1> QED BY <1>2, <1>5, <1>6

\* A posted completion runs: it answers for the datagram the path held.
LEMMA RanPostedAnswers ==
  ASSUME NEW l, NEW h, Answering(l, h), Posting(l, h), l.posted # <<>>, Head(l.posted) # BreakNotice
  PROVE  /\ Answering(RanPosted(l), Idle) /\ Posting(RanPosted(l), Idle)
         /\ \A f \in LinkFields \ {"sending", "outcome", "posted"} : RanPosted(l)[f] = l[f]
<1> DEFINE q == [l EXCEPT !.posted = Tail(@)]
<1>1. DOMAIN l = LinkFields /\ h \in Datagrams \cup {Idle}
  BY DEF Answering
<1>2. /\ DOMAIN q = LinkFields /\ q.posted = Tail(l.posted)
      /\ q.state = l.state /\ q.outbound = l.outbound /\ q.sending = l.sending
      /\ q.outcome = l.outcome /\ q.path = l.path /\ q.writer = l.writer /\ q.taken = l.taken
  BY <1>1 DEF LinkFields
<1>3. l.posted \in Seq(Posts) /\ 1 \in DOMAIN l.posted /\ Head(l.posted) = l.posted[1]
  BY DEF Posting
<1>4. PICK a \in {"sent", "failed"} : l.posted[1] = <<h, a>> /\ (a = "sent" => h \in l.taken)
  BY <1>3 DEF Posting
<1>5. h # Idle
  BY <1>3 DEF Posting
<1>6. RanPosted(l) = Done(q, h, a)
  BY <1>4 DEF RanPosted
<1> HIDE DEF q
<1>7. Answering(q, h)
  BY <1>2, SameAnswers
<1>8. Posting(q, Idle)
  BY <1>2, <1>3, PostedLess
<1>9. /\ Answering(Done(q, h, a), Idle)
      /\ \A f \in LinkFields \ {"sending", "outcome"} : Done(q, h, a)[f] = q[f]
  <2>1. h \in Datagrams /\ (a = "sent" => h \in q.taken)
    BY <1>1, <1>2, <1>4, <1>5
  <2> QED BY <1>7, <2>1, DoneAnswers
<1> DEFINE r == Done(q, h, a)
<1> HIDE DEF r
<1>10. r.posted = q.posted /\ r.writer = q.writer /\ r.taken = q.taken
  BY <1>9 DEF LinkFields, r
<1>11. Posting(r, Idle)
  BY <1>8, <1>10, SamePosting
<1>12. \A f \in LinkFields \ {"sending", "outcome", "posted"} : q[f] = l[f]
  BY <1>2 DEF LinkFields
<1> QED BY <1>6, <1>9, <1>11, <1>12 DEF r, LinkFields
-----------------------------------------------------------------------------
(* The answering side: what is held goes up, and acknowledgements find their owner. *)

GuestFields ==
  {"present", "subscribed", "readOurIdentity", "socket", "held", "notify", "ghosts", "missed",
   "subscribeTimer", "identityGrace", "l2capGrace", "due", "wedged"}

UpTo(n) == [i \in 1..n |-> i]

\* While the link waits to open everything is held; once it is open everything is delivered.
AllArrives(v, sent) ==
  /\ sent \in Nat
  /\ v.link.state = "connecting" => v.received = <<>> /\ v.guest.held = UpTo(sent)
  /\ v.link.state = "open" => v.received = UpTo(sent) /\ v.guest.held = <<>>

\* The stack owes acknowledgements for as many ghosts as we count, in order, and after them
\* at most the one of the notification we wait for.
AcksInOrder(v, acks, h) ==
  /\ Answering(v.link, h) /\ Posting(v.link, h)
  /\ v.link.path \in {"none", "gatt", "l2cap"}
  /\ v.link.state = "connecting" => v.link.path = "none"
  /\ v.link.state = "open" => v.link.path # "none"
  /\ v.link.path # "l2cap" =>
       v.link.writer = Idle /\ v.link.posted = <<>> /\ v.guest.notify = h
  /\ v.link.path # "gatt" => v.guest.notify = Idle /\ acks = <<>>
  /\ v.guest.ghosts \in Nat /\ acks \in Seq(Datagrams)
  /\ Len(acks) <= v.guest.ghosts + 1
  /\ \A i \in DOMAIN acks : i > v.guest.ghosts => acks[i] = v.guest.notify

\* The peer, its link and what the link delivers, with what the central sent and what the
\* stack owes.
WellServed(v, sent, acks) ==
  /\ DOMAIN v = {"guest", "link", "received"} /\ DOMAIN v.guest = GuestFields
  /\ AllArrives(v, sent)
  /\ \E h : AcksInOrder(v, acks, h)

PeripheralInv == WellServed(Server, written, owedAcks)

\* The first n + 1 numbers.
LEMMA OneMore ==
  ASSUME NEW n \in Nat
  PROVE  Append(UpTo(n), n + 1) = UpTo(n + 1) /\ UpTo(0) = <<>> /\ UpTo(n) \in Seq(Nat)
<1>1. UpTo(n) \in Seq(Nat) /\ Len(UpTo(n)) = n
  BY DEF UpTo
<1>2. UpTo(n + 1) \in Seq(Nat) /\ Len(UpTo(n + 1)) = n + 1
  BY DEF UpTo
<1>3. UpTo(0) = <<>>
  BY DEF UpTo
<1>4. \A i \in 1..(n + 1) : Append(UpTo(n), n + 1)[i] = UpTo(n + 1)[i]
  BY <1>1 DEF UpTo
<1>5. Append(UpTo(n), n + 1) \in Seq(Nat) /\ Len(Append(UpTo(n), n + 1)) = n + 1
  BY <1>1
<1> DEFINE a == Append(UpTo(n), n + 1)
           b == UpTo(n + 1)
<1> HIDE DEF a, b
<1>6. a = b
  BY <1>2, <1>4, <1>5, SeqEqual DEF a, b
<1> QED BY <1>1, <1>3, <1>6 DEF a, b

\* What the handler leaves behind, in the variables.
LEMMA ServesWell ==
  ASSUME NEW v, Serves(v), WellServed(v, written', owedAcks')
  PROVE  PeripheralInv'
<1>1. /\ DOMAIN Server' = {"guest", "link", "received"} /\ Server'.guest = v.guest
      /\ Server'.link = v.link /\ Server'.received = v.received
  BY DEF Serves, Server
<1> DEFINE u == Server'
<1> HIDE DEF u
<1>2. WellServed(u, written', owedAcks')
  BY <1>1 DEF WellServed, AllArrives, AcksInOrder, u
<1> QED BY <1>2 DEF PeripheralInv, u

\* The fields of Server.
LEMMA ServerFields ==
  /\ DOMAIN Server = {"guest", "link", "received"} /\ Server.guest = guest
  /\ Server.link = served /\ Server.received = received
BY DEF Server

\* Flags and timers of the peer.
LEMMA FlagsServeWell ==
  ASSUME NEW v, NEW u, NEW sent, NEW acks, WellServed(v, sent, acks), DOMAIN u = DOMAIN v,
         u.link = v.link, u.received = v.received, DOMAIN u.guest = DOMAIN v.guest,
         u.guest.held = v.guest.held, u.guest.notify = v.guest.notify,
         u.guest.ghosts = v.guest.ghosts
  PROVE  WellServed(u, sent, acks)
BY DEF WellServed, AllArrives, AcksInOrder

\* closePeer()
LEMMA ClosePeerServesWell ==
  ASSUME NEW v, NEW sent, NEW acks, WellServed(v, sent, acks)
  PROVE  WellServed(ClosePeer(v), sent, acks)
<1> DEFINE u == ClosePeer(v)
<1>1. PICK h : AcksInOrder(v, acks, h)
  BY DEF WellServed
<1>2. /\ Answering(Closed(v.link), h) /\ Closed(v.link).state = "closed"
      /\ \A f \in LinkFields \ {"state", "outbound", "sending", "outcome"} :
           Closed(v.link)[f] = v.link[f]
  BY <1>1, ClosedAnswers DEF AcksInOrder
<1>3. /\ DOMAIN u = {"guest", "link", "received"} /\ u.link = Closed(v.link)
      /\ u.guest = [NewGuest EXCEPT !.notify = v.guest.notify, !.ghosts = v.guest.ghosts]
  BY DEF ClosePeer, WellServed
<1>4. DOMAIN u.guest = GuestFields /\ u.guest.notify = v.guest.notify
        /\ u.guest.ghosts = v.guest.ghosts
  BY <1>3 DEF NewGuest, GuestFields
<1> HIDE DEF u
<1> DEFINE q == Closed(v.link)
<1>5. q.writer = v.link.writer /\ q.posted = v.link.posted /\ q.taken = v.link.taken
        /\ q.path = v.link.path
  BY <1>2 DEF LinkFields
<1> HIDE DEF q
<1>6. Posting(q, h)
  BY <1>1, <1>5, SamePosting DEF AcksInOrder
<1>7. AcksInOrder(u, acks, h)
  BY <1>1, <1>2, <1>3, <1>4, <1>5, <1>6 DEF AcksInOrder, q
<1>8. AllArrives(u, sent)
  BY <1>2, <1>3 DEF AllArrives, WellServed
<1> QED BY <1>3, <1>4, <1>7, <1>8 DEF WellServed, u

\* openOverGatt() and openOverL2cap()
LEMMA OpenGuestServesWell ==
  ASSUME NEW v, NEW sent, NEW acks, NEW path \in {"gatt", "l2cap"}, WellServed(v, sent, acks)
  PROVE  /\ WellServed(OpenGuest(v, path), sent, acks)
         /\ OpenGuest(v, path).link.state # "connecting"
         /\ v.link.state # "connecting" => OpenGuest(v, path) = v
         /\ v.link.state = "connecting" => OpenGuest(v, path).link.path = path
<1> DEFINE u == OpenGuest(v, path)
<1>1. CASE v.link.state # "connecting"
  BY <1>1 DEF OpenGuest
<1>2. CASE v.link.state = "connecting"
  <2>1. PICK h : AcksInOrder(v, acks, h)
    BY DEF WellServed
  <2> DEFINE q == Opened(v.link, path)
             w == [v EXCEPT !.link = Opened(@, path), !.guest.socket = FALSE,
                            !.guest.subscribeTimer = FALSE, !.guest.identityGrace = FALSE,
                            !.guest.l2capGrace = FALSE]
  <2>2. /\ Answering(q, h) /\ q.state = "open" /\ q.path = path
        /\ \A f \in LinkFields \ {"state", "path"} : q[f] = v.link[f]
    <3> DEFINE l == v.link
    <3> HIDE DEF l
    <3>1. Answering(l, h) /\ l.state = "connecting"
      BY <1>2, <2>1 DEF AcksInOrder, l
    <3>2. Answering(Opened(l, path), h)
      BY <3>1, OpenedAnswers
    <3>3. Opened(l, path).state = "open" /\ Opened(l, path).path = path
      BY <3>1, OpenedAnswers
    <3>4. \A f \in LinkFields \ {"state", "path"} : Opened(l, path)[f] = l[f]
      BY <3>1, OpenedAnswers
    <3> QED BY <3>2, <3>3, <3>4 DEF l
  <2>3. q.writer = v.link.writer /\ q.posted = v.link.posted /\ q.taken = v.link.taken
    BY <2>2 DEF LinkFields
  <2> HIDE DEF q
  <2>4. Posting(q, h)
    BY <2>1, <2>3, SamePosting DEF AcksInOrder
  <2>5. /\ DOMAIN w = {"guest", "link", "received"} /\ w.link = q /\ w.received = v.received
        /\ DOMAIN w.guest = GuestFields /\ w.guest.held = v.guest.held
        /\ w.guest.notify = v.guest.notify /\ w.guest.ghosts = v.guest.ghosts
    BY DEF WellServed, GuestFields, q
  <2> HIDE DEF w
  <2>6. u = [w EXCEPT !.guest.held = <<>>, !.received = @ \o w.guest.held]
    BY <1>2 DEF OpenGuest, FlushHeld, w
  <2>7. /\ DOMAIN u = {"guest", "link", "received"} /\ u.link = q
        /\ u.received = w.received \o w.guest.held
        /\ DOMAIN u.guest = GuestFields /\ u.guest.held = <<>>
        /\ u.guest.notify = v.guest.notify /\ u.guest.ghosts = v.guest.ghosts
    BY <2>5, <2>6 DEF GuestFields
  <2>8. sent \in Nat /\ v.received = <<>> /\ v.guest.held = UpTo(sent)
    BY <1>2 DEF WellServed, AllArrives
  <2>9. u.received = UpTo(sent)
    <3>1. UpTo(sent) \in Seq(Nat)
      BY <2>8, OneMore
    <3> QED BY <2>5, <2>7, <2>8, <3>1
  <2> HIDE DEF u
  <2>10. AcksInOrder(u, acks, h)
    BY <1>2, <2>1, <2>2, <2>3, <2>4, <2>7 DEF AcksInOrder, Answering
  <2>11. AllArrives(u, sent)
    BY <2>2, <2>7, <2>8, <2>9 DEF AllArrives
  <2> QED BY <1>2, <2>2, <2>7, <2>10, <2>11 DEF WellServed, u
<1> QED BY <1>1, <1>2

\* awaitFastPath()
LEMMA AwaitServesWell ==
  ASSUME NEW v, NEW sent, NEW acks, WellServed(v, sent, acks)
  PROVE  WellServed(AwaitFastPath(v), sent, acks)
<1> DEFINE u == [v EXCEPT !.guest.l2capGrace = v.guest.readOurIdentity,
                          !.guest.identityGrace = ~v.guest.readOurIdentity]
<1>1. /\ DOMAIN u = DOMAIN v /\ u.link = v.link /\ u.received = v.received
      /\ DOMAIN u.guest = DOMAIN v.guest /\ u.guest.held = v.guest.held
      /\ u.guest.notify = v.guest.notify /\ u.guest.ghosts = v.guest.ghosts
  BY DEF WellServed, GuestFields
<1>2. AwaitFastPath(v) = v \/ AwaitFastPath(v) = OpenGuest(v, "gatt") \/ AwaitFastPath(v) = u
  BY DEF AwaitFastPath
<1> HIDE DEF u
<1>3. WellServed(u, sent, acks)
  BY <1>1, FlagsServeWell
<1> QED BY <1>2, <1>3, OpenGuestServesWell

\* The initial state.
LEMMA PeripheralStarts == PeripheralInit => PeripheralInv
<1> SUFFICES ASSUME PeripheralInit  PROVE PeripheralInv
  OBVIOUS
<1>1. /\ guest = NewGuest /\ served = NewLink /\ received = <<>> /\ written = 0 /\ owedAcks = <<>>
  BY DEF PeripheralInit
<1>2. /\ DOMAIN guest = GuestFields /\ guest.held = <<>> /\ guest.notify = Idle /\ guest.ghosts = 0
  BY <1>1 DEF NewGuest, GuestFields
<1>3. /\ served.state = "connecting" /\ served.path = "none" /\ served.writer = Idle
      /\ served.posted = <<>>
  BY <1>1 DEF NewLink
<1>4. Answering(served, Idle) /\ Posting(served, Idle)
  BY <1>1, NewLinkAnswers
<1> DEFINE v == Server
<1>5. /\ DOMAIN v = {"guest", "link", "received"} /\ v.guest = guest /\ v.link = served
      /\ v.received = received
  BY ServerFields
<1> HIDE DEF v
<1>6. <<>> \in Seq(Datagrams) /\ Len(<<>>) = 0 /\ DOMAIN <<>> = {}
  OBVIOUS
<1>7. AcksInOrder(v, owedAcks, Idle)
  BY <1>1, <1>2, <1>3, <1>4, <1>5, <1>6 DEF AcksInOrder
<1>8. AllArrives(v, written)
  BY <1>1, <1>2, <1>3, <1>5, OneMore DEF AllArrives
<1> QED BY <1>2, <1>5, <1>7, <1>8 DEF WellServed, PeripheralInv, v

\* Events that only move flags and timers, open the link or close it.
LEMMA QuietEventsServeWell ==
  ASSUME PeripheralInv,
         \/ CentralArrives \/ CentralSubscribes \/ CentralUnsubscribes \/ CentralReadsIdentity
         \/ ChannelAccepted \/ SubscribeTimeout \/ GraceExpires \/ GuestLeaves \/ GuestWedged
  PROVE  PeripheralInv'
<1> DEFINE good(v) == WellServed(v, written, owedAcks)
<1>1. good(Server) /\ DOMAIN guest = GuestFields
  BY ServerFields DEF PeripheralInv, WellServed
<1>2. \A v : Serves(v) /\ good(v) /\ written' = written /\ owedAcks' = owedAcks => PeripheralInv'
  BY ServesWell
<1>3. written' = written /\ owedAcks' = owedAcks
  BY DEF CentralArrives, CentralSubscribes, CentralUnsubscribes, CentralReadsIdentity,
         ChannelAccepted, SubscribeTimeout, GraceExpires, GuestLeaves, GuestWedged
<1> DEFINE flags(v) == /\ DOMAIN v = DOMAIN Server /\ v.link = Server.link
                       /\ v.received = Server.received /\ DOMAIN v.guest = DOMAIN Server.guest
                       /\ v.guest.held = Server.guest.held /\ v.guest.notify = Server.guest.notify
                       /\ v.guest.ghosts = Server.guest.ghosts
<1>4. \A v : flags(v) => good(v)
  BY <1>1, FlagsServeWell
<1>5. \A v : good(v) => good(ClosePeer(v)) /\ good(AwaitFastPath(v))
                        /\ good(OpenGuest(v, "gatt")) /\ good(OpenGuest(v, "l2cap"))
  BY ClosePeerServesWell, AwaitServesWell, OpenGuestServesWell
<1>6. /\ flags([Server EXCEPT !.guest.present = TRUE, !.guest.subscribeTimer = TRUE])
      /\ flags([Server EXCEPT !.guest.subscribed = TRUE, !.guest.subscribeTimer = FALSE])
      /\ flags([Server EXCEPT !.guest.readOurIdentity = TRUE])
      /\ flags([Server EXCEPT !.guest.socket = TRUE])
  <2> HIDE <1>4
  <2>1. DOMAIN Server = {"guest", "link", "received"} /\ DOMAIN Server.guest = GuestFields
    BY <1>1, ServerFields
  <2> QED BY <2>1 DEF GuestFields
<1> HIDE DEF good, flags
<1>7. CASE CentralArrives
  BY <1>2, <1>3, <1>4, <1>6, <1>7 DEF CentralArrives
<1>8. CASE CentralSubscribes
  BY <1>2, <1>3, <1>4, <1>5, <1>6, <1>8 DEF CentralSubscribes
<1>9. CASE CentralUnsubscribes \/ SubscribeTimeout \/ GuestLeaves \/ GuestWedged
  BY <1>1, <1>2, <1>3, <1>5, <1>9
     DEF CentralUnsubscribes, SubscribeTimeout, GuestLeaves, GuestWedged
<1>10. CASE CentralReadsIdentity
  BY <1>2, <1>3, <1>4, <1>5, <1>6, <1>10 DEF CentralReadsIdentity
<1>11. CASE ChannelAccepted
  BY <1>1, <1>2, <1>3, <1>4, <1>5, <1>6, <1>11 DEF ChannelAccepted
<1>12. CASE GraceExpires
  BY <1>1, <1>2, <1>3, <1>5, <1>12 DEF GraceExpires
<1> QED BY <1>7, <1>8, <1>9, <1>10, <1>11, <1>12

\* What the central sends is held, or delivered at once on an open link.
LEMMA ArrivalsServeWell ==
  ASSUME PeripheralInv, CentralWrites \/ ChannelReads
  PROVE  PeripheralInv'
<1> DEFINE s == Server
<1>1. /\ WellServed(s, written, owedAcks) /\ DOMAIN guest = GuestFields
      /\ DOMAIN s = {"guest", "link", "received"} /\ s.guest = guest /\ s.link = served
      /\ s.received = received
  BY ServerFields DEF PeripheralInv, WellServed
<1>2. written \in Nat /\ written' = written + 1 /\ owedAcks' = owedAcks
  BY <1>1 DEF CentralWrites, ChannelReads, WellServed, AllArrives
<1>3. Append(UpTo(written), written') = UpTo(written')
  <2>1. Append(UpTo(written), written + 1) = UpTo(written + 1)
    BY <1>2, OneMore
  <2> QED BY <1>2, <2>1
<1> HIDE DEF s
\* A datagram delivered on a link that no longer waits to open.
<1>4. ASSUME NEW v, WellServed(v, written, owedAcks), v.link.state # "connecting"
      PROVE  WellServed([v EXCEPT !.received = Append(@, written')], written', owedAcks')
  <2> DEFINE u == [v EXCEPT !.received = Append(@, written')]
  <2>1. /\ DOMAIN u = {"guest", "link", "received"} /\ u.guest = v.guest /\ u.link = v.link
        /\ u.received = Append(v.received, written')
    BY <1>4 DEF WellServed
  <2> HIDE DEF u
  <2>2. AllArrives(u, written')
    BY <1>2, <1>3, <1>4, <2>1 DEF AllArrives, WellServed
  <2>3. ASSUME NEW h, AcksInOrder(v, owedAcks, h)
        PROVE  AcksInOrder(u, owedAcks', h)
    BY <1>2, <2>1, <2>3 DEF AcksInOrder
  <2> QED BY <1>4, <2>1, <2>2, <2>3 DEF WellServed, u
\* A datagram held.
<1>5. ASSUME served.state = "connecting"
      PROVE  WellServed([s EXCEPT !.guest.held = Append(@, written')], written', owedAcks')
  <2> DEFINE u == [s EXCEPT !.guest.held = Append(@, written')]
  <2>1. /\ DOMAIN u = {"guest", "link", "received"} /\ u.link = s.link
        /\ DOMAIN u.guest = GuestFields /\ u.guest.held = Append(guest.held, written')
        /\ u.guest.notify = guest.notify /\ u.guest.ghosts = guest.ghosts
        /\ u.received = s.received
    BY <1>1 DEF GuestFields
  <2> HIDE DEF u
  <2>2. AllArrives(u, written')
    BY <1>1, <1>2, <1>3, <1>5, <2>1 DEF AllArrives, WellServed
  <2>3. ASSUME NEW h, AcksInOrder(s, owedAcks, h)
        PROVE  AcksInOrder(u, owedAcks', h)
    BY <1>1, <1>2, <2>1, <2>3 DEF AcksInOrder
  <2> QED BY <1>1, <2>1, <2>2, <2>3 DEF WellServed, u
<1>6. CASE CentralWrites
  <2>1. CASE Serves([s EXCEPT !.guest.held = Append(@, written')]) /\ served.state = "connecting"
    BY <1>5, <2>1, ServesWell
  <2>2. CASE Serves([OpenGuest(s, "gatt") EXCEPT !.received = Append(@, written')])
    <3> DEFINE v == OpenGuest(s, "gatt")
    <3>1. WellServed(v, written, owedAcks) /\ v.link.state # "connecting"
      BY <1>1, OpenGuestServesWell
    <3> HIDE DEF v
    <3> QED BY <1>4, <2>2, <3>1, ServesWell DEF v
  <2> QED BY <1>6, <2>1, <2>2 DEF CentralWrites, s
<1>7. CASE ChannelReads
  <2>1. Serves([s EXCEPT !.received = Append(@, written')]) /\ s.link.state # "connecting"
    BY <1>1, <1>7 DEF ChannelReads, s
  <2> QED BY <1>1, <1>4, <2>1, ServesWell
<1> QED BY <1>6, <1>7

\* The link changes, and with it who is waited for and what the stack owes.
LEMMA LinkServesWell ==
  ASSUME NEW v, NEW u, NEW sent, NEW acks, NEW owed, NEW h, WellServed(v, sent, acks),
         DOMAIN u = DOMAIN v, u.received = v.received, DOMAIN u.guest = DOMAIN v.guest,
         u.guest.held = v.guest.held, u.link.state = v.link.state, AcksInOrder(u, owed, h)
  PROVE  WellServed(u, sent, owed)
BY DEF WellServed, AllArrives

\* send(): nothing the path holds changes.
LEMMA SendServesWell ==
  ASSUME PeripheralInv, SendToGuest
  PROVE  PeripheralInv'
<1> DEFINE s == Server
<1>1. /\ WellServed(s, written, owedAcks) /\ DOMAIN guest = GuestFields
      /\ DOMAIN s = {"guest", "link", "received"} /\ s.guest = guest /\ s.link = served
      /\ s.received = received
  BY ServerFields DEF PeripheralInv, WellServed
<1>2. PICK d \in Datagrams : /\ served.outcome[d] = "unsent"
                             /\ Serves([s EXCEPT !.link = Enqueued(@, d), !.guest.due = TRUE])
  BY DEF SendToGuest
<1>3. written' = written /\ owedAcks' = owedAcks
  BY DEF SendToGuest
<1> DEFINE u == [s EXCEPT !.link = Enqueued(@, d), !.guest.due = TRUE]
           q == Enqueued(served, d)
<1> HIDE DEF s
<1>4. PICK h : AcksInOrder(s, owedAcks, h)
  BY <1>1 DEF WellServed
<1>5. /\ Answering(q, h) /\ \A f \in LinkFields \ {"outcome", "outbound"} : q[f] = served[f]
  <2>1. Answering(served, h)
    BY <1>1, <1>4 DEF AcksInOrder
  <2> QED BY <1>2, <2>1, EnqueuedAnswers
<1>6. /\ DOMAIN u = DOMAIN s /\ u.link = q /\ u.received = s.received
      /\ DOMAIN u.guest = GuestFields /\ u.guest.held = guest.held
      /\ u.guest.notify = guest.notify /\ u.guest.ghosts = guest.ghosts
  BY <1>1 DEF GuestFields
<1> HIDE DEF u, q
<1>7. /\ q.state = served.state /\ q.path = served.path /\ q.writer = served.writer
      /\ q.posted = served.posted /\ q.taken = served.taken
  BY <1>5 DEF LinkFields
<1>8. Posting(q, h)
  BY <1>1, <1>4, <1>7, SamePosting DEF AcksInOrder
<1>9. AcksInOrder(u, owedAcks, h)
  BY <1>1, <1>4, <1>5, <1>6, <1>7, <1>8 DEF AcksInOrder
<1>10. WellServed(u, written', owedAcks')
  BY <1>1, <1>3, <1>6, <1>7, <1>9, LinkServesWell
<1> QED BY <1>2, <1>10, ServesWell DEF u

\* pump(): the next notification is with the stack, with the writer, or refused.
LEMMA PumpServesWell ==
  ASSUME PeripheralInv, PumpNotification
  PROVE  PeripheralInv'
<1> DEFINE s == Server
           u == Server'
           d == Head(served.outbound)
<1>1. /\ WellServed(s, written, owedAcks) /\ DOMAIN guest = GuestFields
      /\ DOMAIN s = {"guest", "link", "received"} /\ s.guest = guest /\ s.link = served
      /\ s.received = received
  BY ServerFields DEF PeripheralInv, WellServed
<1>2. /\ DOMAIN u = {"guest", "link", "received"} /\ u.guest = guest' /\ u.link = served'
      /\ u.received = received' /\ received' = received /\ written' = written
  BY DEF PumpNotification, Server
<1> HIDE DEF s, u
<1>3. PICK h : AcksInOrder(s, owedAcks, h)
  BY <1>1 DEF WellServed
<1>4. Answering(served, h) /\ Posting(served, h)
  BY <1>1, <1>3 DEF AcksInOrder
<1>5. CASE ~CanPump(served)
  <2>1. guest' = [guest EXCEPT !.due = FALSE] /\ served' = served /\ owedAcks' = owedAcks
    BY <1>5 DEF PumpNotification
  <2>2. /\ DOMAIN u.guest = DOMAIN s.guest /\ u.guest.held = s.guest.held
        /\ u.guest.notify = s.guest.notify /\ u.guest.ghosts = s.guest.ghosts
    BY <1>1, <1>2, <2>1 DEF GuestFields
  <2>3. WellServed(u, written, owedAcks)
    BY <1>1, <1>2, <2>1, <2>2, FlagsServeWell
  <2> QED BY <1>2, <2>1, <2>3 DEF PeripheralInv, u
<1>6. CASE CanPump(served)
  <2>1. /\ h = Idle /\ d \in Datagrams /\ Answering(Pumped(served), d) /\ served.state = "open"
        /\ \A f \in LinkFields \ {"sending", "outbound"} : Pumped(served)[f] = served[f]
    BY <1>4, <1>6, PumpedAnswers DEF CanPump
  <2> DEFINE p == Pumped(served)
  <2>2. /\ p.state = served.state /\ p.path = served.path /\ p.writer = served.writer
        /\ p.posted = served.posted /\ p.taken = served.taken
    BY <2>1 DEF LinkFields
  <2> HIDE DEF p, d
  <2>3. CASE /\ served.path = "l2cap" /\ served' = ChannelTakes(served)
             /\ guest' = [guest EXCEPT !.due = FALSE] /\ owedAcks' = owedAcks
    <3> DEFINE q == ChannelTakes(served)
    <3>1. /\ Answering(q, d) /\ Posting(q, d)
          /\ \A f \in LinkFields \ {"sending", "outbound", "writer"} : q[f] = served[f]
      BY <1>4, <1>6, ChannelTakesAnswers DEF d
    <3>2. q.state = served.state /\ q.path = served.path
      BY <3>1 DEF LinkFields
    <3> HIDE DEF q
    <3>3. /\ DOMAIN u.guest = GuestFields /\ u.guest.held = guest.held
          /\ u.guest.notify = guest.notify /\ u.guest.ghosts = guest.ghosts
      BY <1>1, <1>2, <2>3 DEF GuestFields
    <3>4. u.link = q
      BY <1>2, <2>3 DEF q
    <3>5. AcksInOrder(u, owedAcks', d)
      BY <1>1, <1>3, <2>1, <2>3, <3>1, <3>2, <3>3, <3>4 DEF AcksInOrder
    <3>6. WellServed(u, written, owedAcks')
      BY <1>1, <1>2, <3>2, <3>3, <3>4, <3>5, LinkServesWell
    <3> QED BY <1>2, <3>6 DEF PeripheralInv, u
  <2>4. CASE /\ served.path = "gatt" /\ served' = p
             /\ guest' = [guest EXCEPT !.due = FALSE, !.notify = d]
             /\ owedAcks' = Append(owedAcks, d)
    <3>1. /\ DOMAIN u.guest = GuestFields /\ u.guest.held = guest.held
          /\ u.guest.notify = d /\ u.guest.ghosts = guest.ghosts
      BY <1>1, <1>2, <2>4 DEF GuestFields
    <3>2. /\ owedAcks \in Seq(Datagrams) /\ guest.notify = Idle /\ guest.ghosts \in Nat
          /\ \A i \in DOMAIN owedAcks : ~(i > guest.ghosts)
      BY <1>1, <1>3, <2>1, <2>4, DatagramFacts DEF AcksInOrder
    <3>3. Len(owedAcks) <= guest.ghosts
      <4>1. Len(owedAcks) \in Nat /\ DOMAIN owedAcks = 1..Len(owedAcks)
        BY <3>2
      <4>2. Len(owedAcks) > guest.ghosts => Len(owedAcks) \in DOMAIN owedAcks
        BY <3>2, <4>1
      <4> QED BY <3>2, <4>1, <4>2
    <3>4. /\ owedAcks' \in Seq(Datagrams) /\ Len(owedAcks') <= guest.ghosts + 1
          /\ \A i \in DOMAIN owedAcks' : i > guest.ghosts => owedAcks'[i] = d
      BY <2>1, <2>4, <3>2, <3>3
    <3>5. Posting(p, d)
      BY <1>1, <1>3, <2>2, <2>4, QuietPosting DEF AcksInOrder
    <3>6. AcksInOrder(u, owedAcks', d)
      <4>1. u.link = p /\ Answering(p, d)
        BY <1>2, <2>1, <2>4 DEF p
      <4>2. p.writer = Idle /\ p.posted = <<>>
        BY <1>1, <1>3, <2>2, <2>4 DEF AcksInOrder
      <4> QED BY <2>1, <2>2, <2>4, <3>1, <3>2, <3>4, <3>5, <4>1, <4>2 DEF AcksInOrder
    <3>7. u.link.state = s.link.state
      BY <1>1, <1>2, <2>2, <2>4
    <3>8. WellServed(u, written, owedAcks')
      BY <1>1, <1>2, <3>1, <3>6, <3>7, LinkServesWell
    <3> QED BY <1>2, <3>8 DEF PeripheralInv, u
  <2>5. CASE /\ served.path = "gatt" /\ served' = Done(p, d, "failed")
             /\ guest' = guest /\ owedAcks' = owedAcks
    <3> DEFINE q == Done(p, d, "failed")
    <3>1. /\ Answering(q, Idle) /\ \A f \in LinkFields \ {"sending", "outcome"} : q[f] = p[f]
      BY <2>1, DoneAnswers DEF p
    <3>2. /\ q.state = served.state /\ q.path = served.path /\ q.writer = served.writer
          /\ q.posted = served.posted
      BY <2>2, <3>1 DEF LinkFields
    <3> HIDE DEF q
    <3>3. Posting(q, Idle)
      BY <1>1, <1>3, <2>5, <3>2, QuietPosting DEF AcksInOrder
    <3>4. u.link = q
      BY <1>2, <2>5 DEF q
    <3>5. AcksInOrder(u, owedAcks', Idle)
      BY <1>1, <1>2, <1>3, <2>1, <2>5, <3>1, <3>2, <3>3, <3>4 DEF AcksInOrder
    <3>6. WellServed(u, written, owedAcks')
      BY <1>1, <1>2, <2>5, <3>2, <3>4, <3>5, LinkServesWell
    <3> QED BY <1>2, <3>6 DEF PeripheralInv, u
  <2> QED BY <1>6, <2>3, <2>4, <2>5 DEF PumpNotification, p, d
<1> QED BY <1>5, <1>6

\* The acknowledgement at the front is taken off.
LEMMA AcksTailed ==
  ASSUME NEW acks \in Seq(Datagrams), acks # <<>>
  PROVE  /\ Tail(acks) \in Seq(Datagrams) /\ Len(Tail(acks)) = Len(acks) - 1
         /\ \A i \in DOMAIN Tail(acks) : i + 1 \in DOMAIN acks /\ Tail(acks)[i] = acks[i + 1]
         /\ 1 \in DOMAIN acks /\ Head(acks) = acks[1]
OBVIOUS

\* The stack loses an acknowledgement.
LEMMA LossServesWell ==
  ASSUME PeripheralInv, AckLost
  PROVE  PeripheralInv'
<1> DEFINE s == Server
<1>1. WellServed(s, written, owedAcks) /\ Server' = s /\ written' = written
  BY DEF PeripheralInv, AckLost, Server
<1> HIDE DEF s
<1>2. owedAcks # <<>> /\ owedAcks' = Tail(owedAcks)
  BY DEF AckLost
<1>3. PICK h : AcksInOrder(s, owedAcks, h)
  BY <1>1 DEF WellServed
<1>4. /\ owedAcks' \in Seq(Datagrams) /\ Len(owedAcks') = Len(owedAcks) - 1
      /\ \A i \in DOMAIN owedAcks' : i + 1 \in DOMAIN owedAcks /\ owedAcks'[i] = owedAcks[i + 1]
      /\ s.guest.ghosts \in Nat /\ Len(owedAcks) \in Nat
  BY <1>2, <1>3, AcksTailed DEF AcksInOrder
<1>5. \A i \in DOMAIN owedAcks' : i > s.guest.ghosts => owedAcks'[i] = s.guest.notify
  <2> SUFFICES ASSUME NEW i \in DOMAIN owedAcks', i > s.guest.ghosts
               PROVE  owedAcks'[i] = s.guest.notify
    OBVIOUS
  <2>1. i \in Nat /\ i + 1 > s.guest.ghosts
    BY <1>4
  <2> QED BY <1>3, <1>4, <2>1 DEF AcksInOrder
<1>6. AcksInOrder(s, owedAcks', h)
  BY <1>2, <1>3, <1>4, <1>5, AcksTailed DEF AcksInOrder
<1>7. WellServed(s, written, owedAcks')
  BY <1>1, <1>6 DEF WellServed
<1> QED BY <1>1, <1>7 DEF PeripheralInv

\* onNotificationSent(): a ghost claims it, or it answers the notification it belongs to.
LEMMA AckServesWell ==
  ASSUME PeripheralInv, NotificationSent
  PROVE  PeripheralInv'
<1> DEFINE s == Server
           d == Head(owedAcks)
<1>1. /\ WellServed(s, written, owedAcks) /\ DOMAIN guest = GuestFields
      /\ DOMAIN s = {"guest", "link", "received"} /\ s.guest = guest /\ s.link = served
      /\ s.received = received
  BY ServerFields DEF PeripheralInv, WellServed
<1>2. owedAcks # <<>> /\ owedAcks' = Tail(owedAcks) /\ written' = written
  BY DEF NotificationSent
<1>3. PICK ok \in BOOLEAN :
        LET v == [s EXCEPT !.link.taken = IF ok THEN @ \cup {d} ELSE @]
        IN  Serves(CASE ~guest.present -> v
                     [] guest.present /\ ClaimedByGhost -> [v EXCEPT !.guest.ghosts = @ - 1]
                     [] guest.present /\ ~ClaimedByGhost /\ guest.notify = Idle ->
                          [v EXCEPT !.guest.missed = 0]
                     [] guest.present /\ ~ClaimedByGhost /\ guest.notify # Idle ->
                          [v EXCEPT !.guest.missed = 0, !.guest.notify = Idle, !.guest.due = TRUE,
                                    !.link = Done(@, guest.notify, IF ok THEN "sent" ELSE "failed")])
  BY DEF NotificationSent
<1> DEFINE v == [s EXCEPT !.link.taken = IF ok THEN @ \cup {d} ELSE @]
           l == [served EXCEPT !.taken = IF ok THEN @ \cup {d} ELSE @]
<1> HIDE DEF s
<1>4. PICK h : AcksInOrder(s, owedAcks, h)
  BY <1>1 DEF WellServed
<1>5. /\ owedAcks' \in Seq(Datagrams) /\ Len(owedAcks') = Len(owedAcks) - 1
      /\ \A i \in DOMAIN owedAcks' : i + 1 \in DOMAIN owedAcks /\ owedAcks'[i] = owedAcks[i + 1]
      /\ guest.ghosts \in Nat /\ Len(owedAcks) \in Nat
      /\ 1 \in DOMAIN owedAcks /\ d = owedAcks[1] /\ d \in Datagrams
  BY <1>1, <1>2, <1>4, AcksTailed DEF AcksInOrder
<1>6. served.path = "gatt" /\ h = guest.notify /\ served.writer = Idle /\ served.posted = <<>>
  BY <1>1, <1>2, <1>4 DEF AcksInOrder
<1>7. Answering(served, h) /\ h \in Datagrams \cup {Idle} /\ DOMAIN served = LinkFields
  BY <1>1, <1>4 DEF AcksInOrder, Answering
<1> HIDE DEF d
<1>8. /\ DOMAIN l = LinkFields /\ served.taken \subseteq l.taken /\ (ok => d \in l.taken)
      /\ l.state = served.state /\ l.path = served.path /\ l.outbound = served.outbound
      /\ l.sending = served.sending /\ l.outcome = served.outcome /\ l.writer = served.writer
      /\ l.posted = served.posted
  BY <1>7 DEF LinkFields
<1>9. /\ DOMAIN v = {"guest", "link", "received"} /\ v.guest = guest /\ v.link = l
      /\ v.received = received
  BY <1>1
<1> HIDE DEF v, l
<1>10. Answering(l, h) /\ Posting(l, h)
  BY <1>6, <1>7, <1>8, SameAnswers, QuietPosting
\* Whatever becomes of the peer's bookkeeping, the acknowledgements that are left are in order.
<1>11. ASSUME NEW u, DOMAIN u = DOMAIN v, u.link = l, u.received = received,
              DOMAIN u.guest = GuestFields, u.guest.held = guest.held,
              u.guest.notify = guest.notify,
              u.guest.ghosts \in Nat, Len(owedAcks) - 1 <= u.guest.ghosts + 1,
              \A i \in DOMAIN owedAcks' : i > u.guest.ghosts => i + 1 > guest.ghosts
       PROVE  WellServed(u, written', owedAcks')
  <2>1. \A i \in DOMAIN owedAcks' : i > u.guest.ghosts => owedAcks'[i] = u.guest.notify
    BY <1>1, <1>4, <1>5, <1>11 DEF AcksInOrder
  <2>2. AcksInOrder(u, owedAcks', h)
    BY <1>1, <1>4, <1>5, <1>6, <1>8, <1>10, <1>11, <2>1 DEF AcksInOrder
  <2> QED BY <1>1, <1>2, <1>8, <1>9, <1>11, <2>2, LinkServesWell
<1>12. \A i \in DOMAIN owedAcks' : i \in Nat /\ i > 0
  BY <1>5
<1>13. Len(owedAcks) <= guest.ghosts + 1
  BY <1>1, <1>4 DEF AcksInOrder
<1>14. CASE Serves(v)
  <2>1. WellServed(v, written', owedAcks')
    <3>1. \A i \in DOMAIN owedAcks' : i > guest.ghosts => i + 1 > guest.ghosts
      BY <1>5, <1>12
    <3> QED BY <1>1, <1>5, <1>9, <1>11, <1>13, <3>1
  <2> QED BY <1>14, <2>1, ServesWell
<1>15. CASE Serves([v EXCEPT !.guest.ghosts = @ - 1]) /\ ClaimedByGhost
  <2> DEFINE u == [v EXCEPT !.guest.ghosts = @ - 1]
  <2>1. /\ DOMAIN u = DOMAIN v /\ u.link = l /\ u.received = received
        /\ DOMAIN u.guest = GuestFields /\ u.guest.held = guest.held
        /\ u.guest.notify = guest.notify /\ u.guest.ghosts = guest.ghosts - 1
    BY <1>1, <1>9 DEF GuestFields
  <2>2. guest.ghosts > 0
    BY <1>15 DEF ClaimedByGhost
  <2> HIDE DEF u
  <2>3. u.guest.ghosts \in Nat /\ Len(owedAcks) - 1 <= u.guest.ghosts + 1
    BY <1>5, <1>13, <2>1, <2>2
  <2>4. \A i \in DOMAIN owedAcks' : i > u.guest.ghosts => i + 1 > guest.ghosts
    BY <1>5, <1>12, <2>1
  <2>5. WellServed(u, written', owedAcks')
    BY <1>11, <2>1, <2>3, <2>4
  <2> QED BY <1>15, <2>5, ServesWell DEF u
<1>16. CASE ~ClaimedByGhost
  <2>1. guest.ghosts = 0 /\ owedAcks[1] = guest.notify
    BY <1>1, <1>4, <1>5, <1>16 DEF ClaimedByGhost, AcksInOrder
  <2>2. h = d /\ h # Idle /\ guest.notify # Idle /\ h \in Datagrams
    BY <1>5, <1>6, <2>1, DatagramFacts
  <2>3. CASE Serves([v EXCEPT !.guest.missed = 0, !.guest.notify = Idle, !.guest.due = TRUE,
                             !.link = Done(@, guest.notify, IF ok THEN "sent" ELSE "failed")])
    <3> DEFINE a == IF ok THEN "sent" ELSE "failed"
               q == Done(l, h, a)
               u == [v EXCEPT !.guest.missed = 0, !.guest.notify = Idle, !.guest.due = TRUE,
                              !.link = Done(@, guest.notify, a)]
    <3>1. a \in {"sent", "failed"} /\ (a = "sent" => h \in l.taken)
      BY <1>8, <2>2
    <3> HIDE DEF a
    <3>2. Answering(q, Idle) /\ \A f \in LinkFields \ {"sending", "outcome"} : q[f] = l[f]
      BY <1>10, <2>2, <3>1, DoneAnswers
    <3>3. /\ q.state = served.state /\ q.path = "gatt" /\ q.writer = Idle /\ q.posted = <<>>
      BY <1>6, <1>8, <3>2 DEF LinkFields
    <3>4. /\ DOMAIN u = DOMAIN v /\ u.link = q /\ u.received = received
          /\ DOMAIN u.guest = GuestFields /\ u.guest.held = guest.held
          /\ u.guest.notify = Idle /\ u.guest.ghosts = 0
      BY <1>1, <1>6, <1>9, <2>1 DEF GuestFields
    <3> HIDE DEF q, u
    <3>5. Posting(q, Idle)
      BY <3>3, QuietPosting
    <3>6. DOMAIN owedAcks' = {} /\ Len(owedAcks') <= 1
      BY <1>5, <1>13, <2>1
    <3>7. AcksInOrder(u, owedAcks', Idle)
      BY <1>1, <1>4, <1>5, <1>6, <3>2, <3>3, <3>4, <3>5, <3>6 DEF AcksInOrder
    <3>8. WellServed(u, written', owedAcks')
      BY <1>1, <1>2, <1>9, <3>3, <3>4, <3>7, LinkServesWell
    <3> QED BY <2>3, <3>8, ServesWell DEF u, a
  <2>4. CASE ~guest.present /\ Serves(v)
    BY <1>14, <2>4
  <2> QED BY <1>3, <1>16, <2>2, <2>3, <2>4 DEF v
<1> QED BY <1>3, <1>14, <1>15, <1>16 DEF v

\* notifyTimeout: one more ghost, and nobody is waited for.
LEMMA TimeoutServesWell ==
  ASSUME PeripheralInv, NotifyTimeout
  PROVE  PeripheralInv'
<1> DEFINE s == Server
           u == [s EXCEPT !.guest.notify = Idle, !.guest.ghosts = @ + 1,
                          !.guest.missed = @ + 1, !.guest.due = TRUE,
                          !.guest.wedged = guest.missed + 1 >= ServerWedgedTimeouts,
                          !.link = Done(@, guest.notify, "failed")]
           q == Done(served, guest.notify, "failed")
<1>1. /\ WellServed(s, written, owedAcks) /\ DOMAIN guest = GuestFields
      /\ DOMAIN s = {"guest", "link", "received"} /\ s.guest = guest /\ s.link = served
      /\ s.received = received
  BY ServerFields DEF PeripheralInv, WellServed
<1>2. guest.notify # Idle /\ Serves(u) /\ owedAcks' = owedAcks /\ written' = written
  BY DEF NotifyTimeout
<1> HIDE DEF s
<1>3. PICK h : AcksInOrder(s, owedAcks, h)
  BY <1>1 DEF WellServed
<1>4. /\ served.path = "gatt" /\ h = guest.notify /\ served.writer = Idle /\ served.posted = <<>>
      /\ Answering(served, h) /\ h \in Datagrams /\ guest.ghosts \in Nat
      /\ owedAcks \in Seq(Datagrams) /\ Len(owedAcks) <= guest.ghosts + 1
  BY <1>1, <1>2, <1>3 DEF AcksInOrder, Answering
<1>5. Answering(q, Idle) /\ \A f \in LinkFields \ {"sending", "outcome"} : q[f] = served[f]
  BY <1>4, DoneAnswers
<1>6. q.state = served.state /\ q.path = "gatt" /\ q.writer = Idle /\ q.posted = <<>>
  BY <1>4, <1>5 DEF LinkFields
<1>7. /\ DOMAIN u = DOMAIN s /\ u.link = q /\ u.received = received
      /\ DOMAIN u.guest = GuestFields /\ u.guest.held = guest.held
      /\ u.guest.notify = Idle /\ u.guest.ghosts = guest.ghosts + 1
  BY <1>1 DEF GuestFields
<1> HIDE DEF q, u
<1>8. Posting(q, Idle)
  BY <1>6, QuietPosting
<1>9. \A i \in DOMAIN owedAcks : ~(i > u.guest.ghosts) /\ Len(owedAcks) <= u.guest.ghosts + 1
  BY <1>4, <1>7
<1>10. Len(owedAcks) <= u.guest.ghosts + 1 /\ u.guest.ghosts \in Nat
  BY <1>4, <1>7
<1>11. AcksInOrder(u, owedAcks, Idle)
  BY <1>1, <1>3, <1>4, <1>5, <1>6, <1>7, <1>8, <1>9, <1>10 DEF AcksInOrder
<1>12. WellServed(u, written', owedAcks')
  BY <1>1, <1>2, <1>6, <1>7, <1>11, LinkServesWell
<1> QED BY <1>2, <1>12, ServesWell

\* The threads of the L2CAP path write, break and post.
LEMMA ThreadsServeWell ==
  ASSUME PeripheralInv, ServerWrites \/ ServerReaderBreaks
  PROVE  PeripheralInv'
<1> DEFINE s == Server
           u == Server'
<1>1. /\ WellServed(s, written, owedAcks) /\ DOMAIN guest = GuestFields
      /\ DOMAIN s = {"guest", "link", "received"} /\ s.guest = guest /\ s.link = served
      /\ s.received = received
  BY ServerFields DEF PeripheralInv, WellServed
<1>2. /\ DOMAIN u = {"guest", "link", "received"} /\ u.guest = guest' /\ u.link = served'
      /\ u.received = received' /\ received' = received /\ written' = written
      /\ guest' = guest /\ owedAcks' = owedAcks
  BY DEF ServerWrites, ServerReaderBreaks, Server
<1> HIDE DEF s, u
<1>3. PICK h : AcksInOrder(s, owedAcks, h)
  BY <1>1 DEF WellServed
<1>4. Answering(served, h) /\ Posting(served, h)
  BY <1>1, <1>3 DEF AcksInOrder
<1>5. served.path = "l2cap"
  BY <1>1, <1>3 DEF ServerWrites, ServerReaderBreaks, AcksInOrder
<1>6. /\ Answering(served', h) /\ Posting(served', h)
      /\ served'.state = served.state /\ served'.path = served.path
  <2>1. CASE served' = Wrote(served) /\ served.writer # Idle
    <3>1. /\ Answering(served', h) /\ Posting(served', h)
          /\ \A f \in LinkFields \ {"writer", "taken", "posted"} : served'[f] = served[f]
      BY <1>4, <2>1, WroteAnswers
    <3> QED BY <3>1 DEF LinkFields
  <2>2. CASE served' = NotWritten(served) /\ served.writer # Idle
    <3>1. /\ Answering(served', h) /\ Posting(served', h)
          /\ \A f \in LinkFields \ {"writer", "posted"} : served'[f] = served[f]
      BY <1>4, <2>2, NotWrittenAnswers
    <3> QED BY <3>1 DEF LinkFields
  <2>3. CASE served' = Broke(served)
    <3>1. /\ Answering(served', h) /\ Posting(served', h)
          /\ \A f \in LinkFields \ {"posted"} : served'[f] = served[f]
      BY <1>4, <2>3, BrokeAnswers
    <3> QED BY <3>1 DEF LinkFields
  <2> QED BY <2>1, <2>2, <2>3 DEF ServerWrites, ServerReaderBreaks
<1>7. AcksInOrder(u, owedAcks, h)
  BY <1>1, <1>2, <1>3, <1>5, <1>6 DEF AcksInOrder
<1>8. WellServed(u, written, owedAcks)
  BY <1>1, <1>2, <1>6, <1>7, LinkServesWell
<1> QED BY <1>2, <1>8 DEF PeripheralInv, u

\* What those threads posted runs on the handler.
LEMMA PostedServesWell ==
  ASSUME PeripheralInv, ServerRunsPosted
  PROVE  PeripheralInv'
<1> DEFINE s == Server
<1>1. /\ WellServed(s, written, owedAcks) /\ DOMAIN guest = GuestFields
      /\ DOMAIN s = {"guest", "link", "received"} /\ s.guest = guest /\ s.link = served
      /\ s.received = received
  BY ServerFields DEF PeripheralInv, WellServed
<1>2. served.posted # <<>> /\ owedAcks' = owedAcks /\ written' = written
  BY DEF ServerRunsPosted
<1>3. PICK h : AcksInOrder(s, owedAcks, h)
  BY <1>1 DEF WellServed
<1>4. served.path = "l2cap" /\ Answering(served, h) /\ Posting(served, h)
  BY <1>1, <1>2, <1>3 DEF AcksInOrder
<1>5. CASE Head(served.posted) = BreakNotice
  <2> DEFINE u == [s EXCEPT !.link.posted = Tail(@)]
             l == [served EXCEPT !.posted = Tail(@)]
  <2>1. Serves(ClosePeer(u))
    BY <1>5 DEF ServerRunsPosted
  <2>2. DOMAIN served = LinkFields
    BY <1>4 DEF Answering
  <2>3. /\ DOMAIN l = LinkFields /\ l.posted = Tail(served.posted) /\ l.writer = served.writer
        /\ l.state = served.state /\ l.outbound = served.outbound /\ l.sending = served.sending
        /\ l.outcome = served.outcome /\ l.taken = served.taken /\ l.path = served.path
    BY <2>2 DEF LinkFields
  <2> HIDE DEF s
  <2>4. /\ DOMAIN u = DOMAIN s /\ u.link = l /\ u.received = received /\ u.guest = guest
    BY <1>1
  <2> HIDE DEF u, l
  <2>5. Answering(l, h) /\ Posting(l, h)
    BY <1>2, <1>4, <2>3, SameAnswers, PostedLess
  <2>6. AcksInOrder(u, owedAcks, h)
    BY <1>1, <1>3, <1>4, <2>3, <2>4, <2>5 DEF AcksInOrder
  <2>7. WellServed(u, written', owedAcks')
    BY <1>1, <1>2, <2>3, <2>4, <2>6, LinkServesWell
  <2> QED BY <2>1, <2>7, ClosePeerServesWell, ServesWell
<1>6. CASE Head(served.posted) # BreakNotice
  <2> DEFINE u == [s EXCEPT !.link = RanPosted(@), !.guest.due = TRUE]
             q == RanPosted(served)
  <2>1. Serves(u)
    BY <1>6 DEF ServerRunsPosted
  <2>2. /\ Answering(q, Idle) /\ Posting(q, Idle)
        /\ \A f \in LinkFields \ {"sending", "outcome", "posted"} : q[f] = served[f]
    BY <1>2, <1>4, <1>6, RanPostedAnswers
  <2>3. q.state = served.state /\ q.path = served.path
    BY <2>2 DEF LinkFields
  <2> HIDE DEF s
  <2>4. /\ DOMAIN u = DOMAIN s /\ u.link = q /\ u.received = received
        /\ DOMAIN u.guest = GuestFields /\ u.guest.held = guest.held
        /\ u.guest.notify = guest.notify /\ u.guest.ghosts = guest.ghosts
    BY <1>1 DEF GuestFields
  <2> HIDE DEF u, q
  <2>5. AcksInOrder(u, owedAcks, Idle)
    BY <1>1, <1>3, <1>4, <2>2, <2>3, <2>4 DEF AcksInOrder
  <2>6. WellServed(u, written', owedAcks')
    BY <1>1, <1>2, <2>3, <2>4, <2>5, LinkServesWell
  <2> QED BY <2>1, <2>6, ServesWell
<1> QED BY <1>5, <1>6

\* Every step of the answering side.
LEMMA PeripheralContinues == PeripheralInv /\ [PeripheralNext]_peripheralVars => PeripheralInv'
<1> SUFFICES ASSUME PeripheralInv, [PeripheralNext]_peripheralVars
             PROVE  PeripheralInv'
  OBVIOUS
<1>1. CASE UNCHANGED peripheralVars
  BY <1>1 DEF peripheralVars, PeripheralInv, Server
<1>2. CASE PeripheralNext
  BY <1>2, QuietEventsServeWell, ArrivalsServeWell, SendServesWell, PumpServesWell,
     AckServesWell, LossServesWell, TimeoutServesWell, ThreadsServeWell, PostedServesWell
     DEF PeripheralNext
<1> QED BY <1>1, <1>2

\* While the link waits or is open nothing is missing.
LEMMA WellServedHolds == PeripheralInv => HeldNotDropped
<1> SUFFICES ASSUME PeripheralInv, served.state # "closed"
             PROVE  received \o guest.held = [i \in 1..written |-> i]
  BY DEF HeldNotDropped
<1>1. PICK h : AcksInOrder(Server, owedAcks, h)
  BY DEF PeripheralInv, WellServed
<1>2. served.state \in {"connecting", "open"}
  BY <1>1, ServerFields DEF AcksInOrder, Answering
<1>3. AllArrives(Server, written)
  BY DEF PeripheralInv, WellServed
<1>4. /\ written \in Nat
      /\ \/ received = <<>> /\ guest.held = UpTo(written)
         \/ received = UpTo(written) /\ guest.held = <<>>
  BY <1>2, <1>3, ServerFields DEF AllArrives
<1>5. UpTo(written) \in Seq(Nat)
  BY <1>4, OneMore
<1>6. received \o guest.held = UpTo(written)
  BY <1>4, <1>5
<1> QED BY <1>6 DEF UpTo

\* "HELD, NOT DROPPED": while the answering link lives, everything the central has sent has
\* been delivered once and in order, or is held to be (BleGattServer.kt).
THEOREM NothingHeldIsDropped == PeripheralSpec => []HeldNotDropped
BY WellServedHolds, PeripheralStarts, PeripheralContinues, PTL DEF PeripheralSpec

\* The answers of the answering side are true.
LEMMA WellServedIsHonest == PeripheralInv => ServedSentIsTaken
<1> SUFFICES ASSUME PeripheralInv  PROVE ServedSentIsTaken
  OBVIOUS
<1>1. PICK h : Answering(served, h)
  BY ServerFields DEF PeripheralInv, WellServed, AcksInOrder
<1>2. \A d \in Datagrams : served.outcome[d] \in Answers
  BY <1>1 DEF Answering
<1> QED BY <1>1, <1>2 DEF Answering, ServedSentIsTaken, Answers

\* send() on an answering link: "sent" means the stack acknowledged that very notification,
\* never one given up before it, and nobody is answered twice (BleGattServer.kt, BleLink.kt).
THEOREM ServedAnswersAreTrue == PeripheralSpec => []ServedSentIsTaken
BY WellServedIsHonest, PeripheralStarts, PeripheralContinues, PTL DEF PeripheralSpec

-----------------------------------------------------------------------------
(* The dialling side: every write is answered by its own callback. *)

ConnFields ==
  {"gatt", "filed", "settled", "tornDown", "connectTimer", "watchdog", "psm", "dialling", "answer"}
OpsFields ==
  {"pending", "inFlight", "ghosts", "missed", "shut", "busy", "retry", "due", "wedged"}
RealOps == {Op(k, Idle) : k \in Kinds \ {"write"}} \cup {Op("write", d) : d \in Datagrams}

\* On the L2CAP path somebody has the datagram the link waits for; a link without a path
\* waits for none.
LinkWaits(l, h) ==
  /\ Answering(l, h) /\ Posting(l, h)
  /\ l.path \in {"none", "gatt", "l2cap"}
  /\ l.state = "connecting" => l.path = "none"
  /\ l.state = "open" => l.path # "none"
  /\ l.path # "l2cap" => l.writer = Idle /\ l.posted = <<>>
  /\ l.path = "l2cap" /\ h # Idle => l.writer = h \/ \E i \in DOMAIN l.posted : l.posted[i][1] = h
  /\ l.path = "none" => h = Idle

\* The operation queue, typed.
OpsTyped(o) ==
  /\ DOMAIN o = OpsFields
  /\ o.pending \in Seq(RealOps) /\ o.inFlight \in RealOps \cup {NoOp}
  /\ o.ghosts \in [Kinds -> Nat]

NoWrites(o) ==
  o.inFlight.kind # "write" /\ \A i \in DOMAIN o.pending : o.pending[i].kind # "write"

\* The write of h is in one place.
OneWrite(o, h) ==
  \/ o.inFlight = Op("write", h) /\ \A i \in DOMAIN o.pending : o.pending[i].kind # "write"
  \/ /\ o.inFlight.kind # "write"
     /\ \E k \in DOMAIN o.pending :
          /\ o.pending[k] = Op("write", h)
          /\ \A i \in DOMAIN o.pending : i # k => o.pending[i].kind # "write"

\* The operation queue has the write the link waits for, and no other.
OpsWrite(o, path, h) ==
  /\ path = "gatt" /\ h # Idle => OneWrite(o, h)
  /\ path # "gatt" \/ h = Idle => NoWrites(o)

\* The writes the stack owes callbacks for can be numbered, in order, so that the first ones
\* are the ghosts and one beyond them is the write in flight.
OwedWrites(owed) == {j \in DOMAIN owed : owed[j].kind = "write"}

Ranks(o, owed, rank) ==
  /\ \A j, k \in OwedWrites(owed) : j < k => rank[j] < rank[k]
  /\ \A j \in OwedWrites(owed) : rank[j] > o.ghosts["write"] => owed[j] = o.inFlight

CallbacksInOrder(o, owed) ==
  /\ owed \in Seq(RealOps)
  /\ o.shut => o.inFlight = NoOp
  /\ ~o.shut => \E rank \in [OwedWrites(owed) -> 1..(o.ghosts["write"] + 1)] : Ranks(o, owed, rank)

\* Until connect() is called nothing has happened, and afterwards it is answered.
Undialled(c, owed) ==
  c.conn.settled /\ c.conn.answer = "none" => c.ops.shut /\ owed = <<>>

WellTyped(c) ==
  DOMAIN c = {"conn", "ops", "link"} /\ DOMAIN c.conn = ConnFields /\ OpsTyped(c.ops)

WellDialled(c, owed) ==
  /\ WellTyped(c)
  /\ CallbacksInOrder(c.ops, owed) /\ Undialled(c, owed)
  /\ \E h : LinkWaits(c.link, h) /\ OpsWrite(c.ops, c.link.path, h)

CentralInv == DOMAIN stack = {"link", "owed"} /\ WellDialled(Central, stack.owed)

\* The kinds of operations.
LEMMA OpFacts ==
  /\ \A k, d : DOMAIN Op(k, d) = {"kind", "datagram"} /\ Op(k, d).kind = k /\ Op(k, d).datagram = d
  /\ NoOp.kind = "none" /\ NoOp \notin RealOps
  /\ \A k \in Kinds \ {"write"} : Op(k, Idle) \in RealOps
  /\ \A d \in Datagrams : Op("write", d) \in RealOps
  /\ \A op \in RealOps : /\ op.kind \in Kinds
                         /\ op.kind = "write" => op.datagram \in Datagrams /\ op = Op("write", op.datagram)
                         /\ op.kind # "write" => op = Op(op.kind, Idle)
<1>1. \A k, d : DOMAIN Op(k, d) = {"kind", "datagram"} /\ Op(k, d).kind = k /\ Op(k, d).datagram = d
  BY DEF Op
<1>2. NoOp.kind = "none" /\ NoOp = Op("none", Idle)
  BY <1>1 DEF NoOp
<1> HIDE DEF Op
<1>3. \A op \in RealOps : /\ op.kind \in Kinds
                          /\ op.kind = "write" => op.datagram \in Datagrams /\ op = Op("write", op.datagram)
                          /\ op.kind # "write" => op = Op(op.kind, Idle)
  <2> TAKE op \in RealOps
  <2>1. CASE op \in {Op(k, Idle) : k \in Kinds \ {"write"}}
    BY <1>1, <2>1
  <2>2. CASE op \in {Op("write", d) : d \in Datagrams}
    BY <1>1, <2>2 DEF Kinds
  <2> QED BY <2>1, <2>2 DEF RealOps
<1>4. NoOp \notin RealOps
  BY <1>2, <1>3 DEF Kinds
<1> QED BY <1>1, <1>2, <1>3, <1>4 DEF RealOps

\* The variables, as one record.
LEMMA CentralFields ==
  DOMAIN Central = {"conn", "ops", "link"} /\ Central.conn = conn /\ Central.ops = ops
    /\ Central.link = dialled
BY DEF Central

\* What the handler leaves behind, in the variables.
LEMMA TurnsWell ==
  ASSUME NEW c, Turns(c), DOMAIN stack' = {"link", "owed"}, WellDialled(c, stack'.owed)
  PROVE  CentralInv'
<1> DEFINE u == Central'
<1>1. /\ DOMAIN u = {"conn", "ops", "link"} /\ u.conn = c.conn /\ u.ops = c.ops /\ u.link = c.link
  BY DEF Turns, Central
<1> HIDE DEF u
<1>2. WellDialled(u, stack'.owed)
  BY <1>1 DEF WellDialled, WellTyped, Undialled
<1> QED BY <1>2 DEF CentralInv, u

\* Flags and timers of the connection.
LEMMA ConnDialsWell ==
  ASSUME NEW c, NEW u, NEW owed, WellDialled(c, owed), DOMAIN u = DOMAIN c, u.ops = c.ops,
         u.link = c.link, DOMAIN u.conn = ConnFields,
         u.conn.settled /\ u.conn.answer = "none" => c.conn.settled /\ c.conn.answer = "none"
  PROVE  WellDialled(u, owed)
BY DEF WellDialled, WellTyped, Undialled

\* retire(), releaseGatt() and finishWithFailure()
LEMMA EndsDialWell ==
  ASSUME NEW c, NEW owed, WellDialled(c, owed)
  PROVE  WellDialled(Retire(c), owed) /\ WellDialled(ReleaseGatt(c), owed)
           /\ WellDialled(FinishWithFailure(c), owed)
<1>1. DOMAIN c = {"conn", "ops", "link"} /\ DOMAIN c.conn = ConnFields
  BY DEF WellDialled, WellTyped
<1>2. ASSUME NEW b, WellDialled(b, owed)
      PROVE  WellDialled(Retire(b), owed)
  <2> DEFINE u == Retire(b)
  <2>1. /\ DOMAIN b = {"conn", "ops", "link"} /\ DOMAIN b.conn = ConnFields
    BY <1>2 DEF WellDialled, WellTyped
  <2>2. /\ DOMAIN u = DOMAIN b /\ u.ops = b.ops /\ u.link = b.link /\ DOMAIN u.conn = ConnFields
        /\ u.conn.settled = b.conn.settled /\ u.conn.answer = b.conn.answer
    BY <2>1 DEF Retire, ConnFields
  <2> HIDE DEF u
  <2>3. WellDialled(u, owed)
    BY <1>2, <2>2, ConnDialsWell
  <2> QED BY <2>3 DEF u
<1>3. WellDialled(ReleaseGatt(c), owed)
  <2> DEFINE u == [c EXCEPT !.conn.gatt = FALSE, !.conn.watchdog = FALSE]
  <2>1. /\ DOMAIN u = DOMAIN c /\ u.ops = c.ops /\ u.link = c.link /\ DOMAIN u.conn = ConnFields
        /\ u.conn.settled = c.conn.settled /\ u.conn.answer = c.conn.answer
    BY <1>1 DEF ConnFields
  <2>2. ReleaseGatt(c) = Retire(u)
    BY DEF ReleaseGatt
  <2> HIDE DEF u
  <2>3. WellDialled(u, owed)
    BY <2>1, ConnDialsWell
  <2> QED BY <1>2, <2>2, <2>3
<1>4. WellDialled(FinishWithFailure(c), owed)
  <2> DEFINE u == [c EXCEPT !.conn.settled = TRUE, !.conn.connectTimer = FALSE,
                            !.conn.answer = "failed"]
  <2>1. /\ DOMAIN u = DOMAIN c /\ u.ops = c.ops /\ u.link = c.link /\ DOMAIN u.conn = ConnFields
        /\ u.conn.answer = "failed"
    BY <1>1 DEF ConnFields
  <2> HIDE DEF u
  <2>2. WellDialled(u, owed)
    BY <2>1, ConnDialsWell
  <2> QED BY <2>2 DEF FinishWithFailure, u
<1> QED BY <1>2, <1>3, <1>4

\* submit() of anything but a write.
LEMMA SubmitDialsWell ==
  ASSUME NEW c, NEW owed, NEW op \in RealOps, op.kind # "write", WellDialled(c, owed)
  PROVE  WellDialled(Submit(c, op), owed)
<1> DEFINE u == Submit(c, op)
<1>1. WellTyped(c) /\ OpsTyped(c.ops)
  BY DEF WellDialled, WellTyped
<1>2. /\ DOMAIN u = DOMAIN c /\ u.conn = c.conn /\ u.link = c.link /\ DOMAIN u.ops = OpsFields
      /\ u.ops.pending = Append(c.ops.pending, op) /\ u.ops.inFlight = c.ops.inFlight
      /\ u.ops.ghosts = c.ops.ghosts /\ u.ops.shut = c.ops.shut
  BY <1>1 DEF Submit, WellTyped, OpsTyped, OpsFields
<1> HIDE DEF u
<1> DEFINE p == c.ops.pending
           q == u.ops.pending
<1>3. /\ p \in Seq(RealOps) /\ q \in Seq(RealOps) /\ q[Len(p) + 1] = op
      /\ \A i \in DOMAIN p : i \in DOMAIN q /\ q[i] = p[i]
      /\ \A i \in DOMAIN q : i \in DOMAIN p \/ i = Len(p) + 1
  BY <1>1, <1>2 DEF OpsTyped
<1> HIDE DEF p, q
<1>4. WellTyped(u)
  BY <1>1, <1>2, <1>3 DEF WellTyped, OpsTyped, q
<1>5. NoWrites(c.ops) => NoWrites(u.ops)
  BY <1>2, <1>3 DEF NoWrites, p, q
<1>6. ASSUME NEW h, OneWrite(c.ops, h)
      PROVE  OneWrite(u.ops, h)
  <2>1. CASE c.ops.inFlight = Op("write", h) /\ \A i \in DOMAIN p : p[i].kind # "write"
    BY <1>2, <1>3, <2>1 DEF OneWrite, q
  <2>2. CASE /\ c.ops.inFlight.kind # "write"
             /\ \E k \in DOMAIN p : /\ p[k] = Op("write", h)
                                    /\ \A i \in DOMAIN p : i # k => p[i].kind # "write"
    BY <1>2, <1>3, <2>2 DEF OneWrite, q
  <2> QED BY <1>6, <2>1, <2>2 DEF OneWrite, p
<1>7. PICK h : LinkWaits(c.link, h) /\ OpsWrite(c.ops, c.link.path, h)
  BY DEF WellDialled
<1>8. LinkWaits(u.link, h) /\ OpsWrite(u.ops, u.link.path, h)
  BY <1>2, <1>5, <1>6, <1>7 DEF OpsWrite
<1>9. CallbacksInOrder(u.ops, owed) /\ Undialled(u, owed)
  BY <1>2 DEF WellDialled, CallbacksInOrder, Ranks, Undialled
<1> QED BY <1>4, <1>8, <1>9 DEF WellDialled, u

\* abort() on the GATT path: nobody waits any more.
LEMMA AbortedLink ==
  ASSUME NEW l, NEW h, Answering(l, h), l.writer = Idle, l.posted = <<>>, l.path = "gatt",
         l.state # "connecting"
  PROVE  LinkWaits(Drained(l), Idle) /\ Drained(l).path = "gatt" /\ Drained(l).state = l.state
<1> DEFINE q == Drained(l)
<1>1. DOMAIN l = LinkFields /\ l.outcome \in [Datagrams -> Answers]
  BY DEF Answering
<1>2. /\ DOMAIN q = LinkFields /\ q.outbound = <<>> /\ q.sending = Idle
      /\ q.outcome = [d \in Datagrams |-> IF l.outcome[d] = "waiting" THEN "failed" ELSE l.outcome[d]]
      /\ q.state = l.state /\ q.taken = l.taken /\ q.path = l.path
      /\ q.writer = l.writer /\ q.posted = l.posted
  BY <1>1 DEF Drained, LinkFields
<1> HIDE DEF q
<1>3. /\ q.outcome \in [Datagrams -> Answers]
      /\ \A d \in Datagrams : /\ q.outcome[d] = "sent" => d \in q.taken
                              /\ q.outcome[d] = "dropped" => d \in Realtime
                              /\ q.outcome[d] # "waiting"
  BY <1>1, <1>2 DEF Answering, Answers
<1>4. <<>> \in Seq(Datagrams) /\ DOMAIN <<>> = {}
  OBVIOUS
<1>5. l.state \in {"open", "closed"}
  BY DEF Answering
<1>6. Answering(q, Idle)
  BY <1>2, <1>3, <1>4, <1>5 DEF Answering
<1>7. Posting(q, Idle)
  BY <1>2, QuietPosting
<1> QED BY <1>2, <1>5, <1>6, <1>7 DEF LinkWaits, q

\* abort() forgets every operation, and on the GATT path the datagram among them.
LEMMA AbortDialsWell ==
  ASSUME NEW c, NEW owed \in Seq(RealOps), WellTyped(c), Undialled(c, owed),
         NEW h, LinkWaits(c.link, h)
  PROVE  WellDialled(AbortOps(c), owed) /\ AbortOps(c).conn = c.conn
<1> DEFINE l == c.link
           q == Drained(l)
           u == AbortOps(c)
<1>1. /\ DOMAIN u = {"conn", "ops", "link"} /\ u.conn = c.conn /\ u.ops = NoOps
      /\ u.link = IF l.path = "gatt" THEN q ELSE l
  BY DEF AbortOps, WellTyped
<1> HIDE DEF u
<1>2. /\ DOMAIN NoOps = OpsFields /\ NoOps.pending = <<>> /\ NoOps.inFlight = NoOp
      /\ NoOps.shut = TRUE /\ NoOps.ghosts = [k \in Kinds |-> 0]
  BY DEF NoOps, OpsFields
<1>3. OpsTyped(NoOps) /\ NoWrites(NoOps) /\ CallbacksInOrder(NoOps, owed)
  <2>1. <<>> \in Seq(RealOps) /\ DOMAIN <<>> = {} /\ NoOps.ghosts \in [Kinds -> Nat]
    BY <1>2
  <2> HIDE DEF NoOps
  <2> QED BY <1>2, <2>1, OpFacts DEF OpsTyped, NoWrites, CallbacksInOrder
<1>4. WellTyped(u) /\ Undialled(u, owed)
  BY <1>1, <1>2, <1>3 DEF WellTyped, Undialled
<1>5. \E k : LinkWaits(u.link, k) /\ OpsWrite(u.ops, u.link.path, k)
  <2>1. CASE l.path # "gatt"
    BY <1>1, <1>3, <2>1 DEF OpsWrite
  <2>2. CASE l.path = "gatt"
    <3> HIDE DEF l
    <3>1. Answering(l, h) /\ l.writer = Idle /\ l.posted = <<>> /\ l.state # "connecting"
      BY <2>2 DEF LinkWaits, l
    <3>2. LinkWaits(q, Idle) /\ q.path = "gatt"
      BY <2>2, <3>1, AbortedLink
    <3> HIDE DEF q
    <3> QED BY <1>1, <1>3, <2>2, <3>2 DEF OpsWrite
  <2> QED BY <2>1, <2>2
<1> QED BY <1>1, <1>3, <1>4, <1>5 DEF WellDialled, u

\* teardown()
LEMMA TeardownDialsWell ==
  ASSUME NEW c, NEW owed \in Seq(RealOps), WellTyped(c), Undialled(c, owed),
         NEW h, LinkWaits(c.link, h), ~c.conn.tornDown \/ WellDialled(c, owed)
  PROVE  WellDialled(Teardown(c), owed)
<1>1. CASE c.conn.tornDown
  BY <1>1 DEF Teardown
<1>2. CASE ~c.conn.tornDown
  <2> DEFINE b == [c EXCEPT !.conn.tornDown = TRUE, !.conn.connectTimer = FALSE]
             ended == FinishWithFailure(AbortOps(b))
             closed == [ended EXCEPT !.link = Closed(@)]
             last == [closed EXCEPT !.conn.watchdog = TRUE]
  <2>1. Teardown(c) = last \/ Teardown(c) = Retire(closed)
    BY <1>2 DEF Teardown
  <2>2. /\ DOMAIN b = {"conn", "ops", "link"} /\ DOMAIN b.conn = ConnFields /\ b.ops = c.ops
        /\ b.link = c.link /\ b.conn.settled = c.conn.settled /\ b.conn.answer = c.conn.answer
    BY DEF WellTyped, ConnFields
  <2> HIDE DEF b
  <2>3. WellTyped(b) /\ Undialled(b, owed) /\ LinkWaits(b.link, h)
    BY <2>2 DEF WellTyped, Undialled
  <2>4. WellDialled(AbortOps(b), owed)
    BY <2>3, AbortDialsWell
  <2>5. WellDialled(ended, owed)
    BY <2>4, EndsDialWell
  <2> HIDE DEF ended
  <2>6. PICK k : LinkWaits(ended.link, k) /\ OpsWrite(ended.ops, ended.link.path, k)
    BY <2>5 DEF WellDialled
  <2> DEFINE q == Closed(ended.link)
  <2>7. /\ Answering(q, k) /\ q.state = "closed"
        /\ \A f \in LinkFields \ {"state", "outbound", "sending", "outcome"} : q[f] = ended.link[f]
    BY <2>6, ClosedAnswers DEF LinkWaits
  <2>8. q.writer = ended.link.writer /\ q.posted = ended.link.posted
          /\ q.taken = ended.link.taken /\ q.path = ended.link.path
    BY <2>7 DEF LinkFields
  <2> HIDE DEF q
  <2>9. Posting(q, k)
    BY <2>6, <2>8, SamePosting DEF LinkWaits
  <2>10. LinkWaits(q, k)
    BY <2>6, <2>7, <2>8, <2>9 DEF LinkWaits
  <2>11. /\ DOMAIN closed = {"conn", "ops", "link"} /\ closed.conn = ended.conn
         /\ closed.ops = ended.ops /\ closed.link = q
    BY <2>5 DEF WellDialled, WellTyped, q
  <2> HIDE DEF closed
  <2>12. WellDialled(closed, owed)
    BY <2>5, <2>6, <2>8, <2>10, <2>11 DEF WellDialled, WellTyped, Undialled
  <2>13. WellDialled(last, owed)
    <3>1. /\ DOMAIN last = DOMAIN closed /\ last.ops = closed.ops /\ last.link = closed.link
          /\ DOMAIN last.conn = ConnFields /\ last.conn.settled = closed.conn.settled
          /\ last.conn.answer = closed.conn.answer
      BY <2>12 DEF WellDialled, WellTyped, ConnFields
    <3> HIDE DEF last
    <3> QED BY <2>12, <3>1, ConnDialsWell
  <2>14. WellDialled(Retire(closed), owed)
    BY <2>12, EndsDialWell
  <2> QED BY <2>1, <2>13, <2>14
<1> QED BY <1>1, <1>2

\* teardown() in a state that is well.
LEMMA TeardownKeepsWell ==
  ASSUME NEW c, NEW owed, WellDialled(c, owed)
  PROVE  WellDialled(Teardown(c), owed)
<1>1. PICK h : LinkWaits(c.link, h)
  BY DEF WellDialled
<1> QED BY <1>1, TeardownDialsWell DEF WellDialled, CallbacksInOrder

\* The operations change, but not what is in flight or counted.
LEMMA SameCallbacks ==
  ASSUME NEW o, NEW p, NEW owed, CallbacksInOrder(o, owed), p.inFlight = o.inFlight,
         p.ghosts["write"] = o.ghosts["write"], p.shut = o.shut
  PROVE  CallbacksInOrder(p, owed)
BY DEF CallbacksInOrder, Ranks

\* The write of a datagram joins the operations, which have none.
LEMMA WriteSubmitted ==
  ASSUME NEW o, NEW p, NEW d \in Datagrams, OpsTyped(o), NoWrites(o), DOMAIN p = OpsFields,
         p.pending = Append(o.pending, Op("write", d)), p.inFlight = o.inFlight,
         p.ghosts = o.ghosts
  PROVE  OpsTyped(p) /\ OneWrite(p, d)
<1> DEFINE a == o.pending
           b == p.pending
           n == Len(o.pending) + 1
<1>1. Op("write", d) \in RealOps
  BY OpFacts
<1>2. /\ a \in Seq(RealOps) /\ b \in Seq(RealOps) /\ b[n] = Op("write", d) /\ n \in DOMAIN b
      /\ \A i \in DOMAIN b : i # n => i \in DOMAIN a /\ b[i] = a[i]
  BY <1>1 DEF OpsTyped
<1> HIDE DEF a, b, n
<1>3. \A i \in DOMAIN b : i # n => b[i].kind # "write"
  BY <1>2 DEF NoWrites, a
<1> QED BY <1>2, <1>3 DEF OpsTyped, NoWrites, OneWrite, b

\* BleLink.pump(), over the path the link has.
LEMMA PumpLinkDialsWell ==
  ASSUME NEW c, NEW owed, WellDialled(c, owed)
  PROVE  WellDialled(PumpLink(c), owed)
<1> DEFINE l == c.link
           d == Head(l.outbound)
           u == PumpLink(c)
<1>1. CASE ~CanPump(l)
  BY <1>1 DEF PumpLink
<1>2. CASE CanPump(l)
  <2>1. PICK h : LinkWaits(l, h) /\ OpsWrite(c.ops, l.path, h)
    BY DEF WellDialled
  <2>2. WellTyped(c) /\ OpsTyped(c.ops)
    BY DEF WellDialled, WellTyped
  <2> HIDE DEF l
  <2>3. /\ h = Idle /\ d \in Datagrams /\ d # Idle /\ Answering(Pumped(l), d)
        /\ \A f \in LinkFields \ {"sending", "outbound"} : Pumped(l)[f] = l[f]
    BY <1>2, <2>1, PumpedAnswers DEF LinkWaits
  <2>4. NoWrites(c.ops) /\ l.state = "open" /\ l.path \in {"gatt", "l2cap"}
    BY <1>2, <2>1, <2>3 DEF OpsWrite, CanPump, LinkWaits
  <2>5. CASE l.path = "l2cap"
    <3> DEFINE q == ChannelTakes(l)
    <3>1. /\ DOMAIN u = {"conn", "ops", "link"} /\ u.conn = c.conn /\ u.ops = c.ops /\ u.link = q
      BY <1>2, <2>2, <2>5 DEF PumpLink, WellTyped, l
    <3>2. /\ Answering(q, d) /\ Posting(q, d) /\ q.writer = d
          /\ \A f \in LinkFields \ {"sending", "outbound", "writer"} : q[f] = l[f]
      BY <1>2, <2>1, ChannelTakesAnswers DEF LinkWaits
    <3>3. q.state = l.state /\ q.path = l.path
      BY <3>2 DEF LinkFields
    <3> HIDE DEF q, u
    <3>4. LinkWaits(q, d)
      BY <2>3, <2>4, <2>5, <3>2, <3>3 DEF LinkWaits
    <3>5. OpsWrite(u.ops, q.path, d)
      BY <2>4, <2>5, <3>1, <3>3 DEF OpsWrite
    <3> QED BY <3>1, <3>4, <3>5 DEF WellDialled, WellTyped, Undialled, u
  <2>6. CASE l.path = "gatt"
    <3> DEFINE q == Pumped(l)
    <3>1. /\ DOMAIN u = {"conn", "ops", "link"} /\ u.conn = c.conn /\ u.link = q
          /\ DOMAIN u.ops = OpsFields /\ u.ops.pending = Append(c.ops.pending, Op("write", d))
          /\ u.ops.inFlight = c.ops.inFlight /\ u.ops.ghosts = c.ops.ghosts
          /\ u.ops.shut = c.ops.shut
      BY <1>2, <2>2, <2>6 DEF PumpLink, Submit, WellTyped, OpsTyped, OpsFields, l
    <3>2. q.state = l.state /\ q.path = l.path /\ q.writer = l.writer /\ q.posted = l.posted
      BY <2>3 DEF LinkFields
    <3>3. Answering(q, d)
      BY <2>3
    <3> HIDE DEF q, u, d
    <3>4. OpsTyped(u.ops) /\ OneWrite(u.ops, d)
      BY <2>2, <2>3, <2>4, <3>1, WriteSubmitted
    <3>5. q.writer = Idle /\ q.posted = <<>>
      BY <2>1, <2>6, <3>2 DEF LinkWaits
    <3>6. LinkWaits(q, d)
      BY <2>4, <2>6, <3>2, <3>3, <3>5, QuietPosting DEF LinkWaits
    <3>7. OpsWrite(u.ops, q.path, d)
      BY <2>3, <2>6, <3>2, <3>4 DEF OpsWrite
    <3>8. CallbacksInOrder(u.ops, owed) /\ Undialled(u, owed)
      BY <3>1, SameCallbacks DEF WellDialled, Undialled
    <3> QED BY <2>2, <3>1, <3>4, <3>6, <3>7, <3>8 DEF WellDialled, WellTyped, u
  <2> QED BY <2>4, <2>5, <2>6
<1> QED BY <1>1, <1>2

\* open(), over GATT or the channel.
LEMMA OpenDialsWell ==
  ASSUME NEW c, NEW owed, NEW path \in {"gatt", "l2cap"}, WellDialled(c, owed)
  PROVE  WellDialled(OpenOver(c, path), owed)
<1> DEFINE u == OpenOver(c, path)
           l == c.link
           q == Opened(l, path)
<1>1. CASE c.conn.settled
  BY <1>1 DEF OpenOver
<1>2. CASE ~c.conn.settled
  <2>1. PICK h : LinkWaits(l, h) /\ OpsWrite(c.ops, l.path, h)
    BY DEF WellDialled
  <2>2. /\ DOMAIN u = {"conn", "ops", "link"} /\ u.ops = c.ops /\ u.link = q
        /\ DOMAIN u.conn = ConnFields /\ u.conn.answer = "opened"
    BY <1>2 DEF OpenOver, WellDialled, WellTyped, ConnFields
  <2> HIDE DEF u, l
  <2>3. \E k : LinkWaits(q, k) /\ OpsWrite(c.ops, q.path, k)
    <3>1. CASE l.state # "connecting"
      BY <2>1, <3>1 DEF Opened
    <3>2. CASE l.state = "connecting"
      <4>1. /\ h = Idle /\ Answering(l, h) /\ Posting(l, h) /\ l.writer = Idle /\ l.posted = <<>>
        BY <2>1, <3>2 DEF LinkWaits, Answering
      <4>2. /\ Answering(q, h) /\ q.state = "open" /\ q.path = path
            /\ \A f \in LinkFields \ {"state", "path"} : q[f] = l[f]
        <5>1. Answering(Opened(l, path), h)
          BY <3>2, <4>1, OpenedAnswers
        <5>2. Opened(l, path).state = "open" /\ Opened(l, path).path = path
          BY <3>2, <4>1, <5>1, OpenedAnswers
        <5>3. \A f \in LinkFields \ {"state", "path"} : Opened(l, path)[f] = l[f]
          BY <3>2, <4>1, <5>1, OpenedAnswers
        <5> QED BY <5>1, <5>2, <5>3
      <4>3. q.writer = l.writer /\ q.posted = l.posted
        BY <4>2 DEF LinkFields
      <4> HIDE DEF q
      <4>4. LinkWaits(q, h)
        BY <4>1, <4>2, <4>3, QuietPosting DEF LinkWaits
      <4> QED BY <2>1, <4>1, <4>4 DEF OpsWrite
    <3> QED BY <3>1, <3>2
  <2>4. WellTyped(c) /\ CallbacksInOrder(c.ops, owed)
    BY DEF WellDialled
  <2>5. WellTyped(u) /\ CallbacksInOrder(u.ops, owed) /\ Undialled(u, owed)
    BY <2>2, <2>4 DEF WellTyped, Undialled
  <2> QED BY <2>2, <2>3, <2>5 DEF WellDialled, u
<1> QED BY <1>1, <1>2

\* onResult of everything but a write.
LEMMA ResultDialsWell ==
  ASSUME NEW c, NEW owed, NEW op \in RealOps, op.kind # "write", NEW ok \in BOOLEAN,
         NEW listed \in BOOLEAN, WellDialled(c, owed)
  PROVE  WellDialled(OnResult(c, op, ok, listed), owed)
<1>1. op.kind \in Kinds /\ \A k \in Kinds \ {"write"} : Op(k, Idle) \in RealOps /\ Op(k, Idle).kind = k
  BY OpFacts
<1>2. \A b : WellDialled(b, owed) => \A k \in Kinds \ {"write"} : WellDialled(Submit(b, Op(k, Idle)), owed)
  BY <1>1, SubmitDialsWell
<1>3. /\ WellDialled(Submit(c, Op("mtu", Idle)), owed) /\ WellDialled(Submit(c, Op("identity", Idle)), owed)
      /\ WellDialled(Teardown(c), owed) /\ WellDialled(OpenOver(c, "gatt"), owed)
  BY <1>2, TeardownKeepsWell, OpenDialsWell DEF Kinds
<1>4. DOMAIN c = {"conn", "ops", "link"} /\ DOMAIN c.conn = ConnFields
  BY DEF WellDialled, WellTyped
<1>5. WellDialled(Submit([c EXCEPT !.conn.psm = ok /\ listed], Op("subscribe", Idle)), owed)
  <2> DEFINE u == [c EXCEPT !.conn.psm = ok /\ listed]
  <2>1. /\ DOMAIN u = DOMAIN c /\ u.ops = c.ops /\ u.link = c.link
        /\ DOMAIN u.conn = ConnFields /\ u.conn.settled = c.conn.settled
        /\ u.conn.answer = c.conn.answer
    BY <1>4 DEF ConnFields
  <2> HIDE DEF u
  <2>2. WellDialled(u, owed)
    BY <2>1, ConnDialsWell
  <2>3. WellDialled(Submit(u, Op("subscribe", Idle)), owed)
    BY <1>2, <2>2 DEF Kinds
  <2> QED BY <2>3 DEF u
<1>6. WellDialled([c EXCEPT !.conn.dialling = TRUE], owed)
  <2> DEFINE u == [c EXCEPT !.conn.dialling = TRUE]
  <2>1. /\ DOMAIN u = DOMAIN c /\ u.ops = c.ops /\ u.link = c.link
        /\ DOMAIN u.conn = ConnFields /\ u.conn.settled = c.conn.settled
        /\ u.conn.answer = c.conn.answer
    BY <1>4 DEF ConnFields
  <2> HIDE DEF u
  <2>2. WellDialled(u, owed)
    BY <2>1, ConnDialsWell
  <2> QED BY <2>2 DEF u
<1>7. CASE op.kind = "discover"
  BY <1>3, <1>7 DEF OnResult
<1>8. CASE op.kind = "mtu"
  BY <1>3, <1>8 DEF OnResult
<1>9. CASE op.kind = "identity"
  BY <1>5, <1>9 DEF OnResult
<1>10. CASE op.kind = "subscribe"
  BY <1>3, <1>6, <1>10 DEF OnResult
<1>11. CASE op.kind = "rssi"
  BY <1>11 DEF OnResult
<1> QED BY <1>1, <1>7, <1>8, <1>9, <1>10, <1>11 DEF Kinds

\* The state in which a write has left the operations and is about to be answered: the link
\* still waits for it, and nothing has its place.
WriteGone(c, owed, d) ==
  /\ d \in Datagrams
  /\ WellTyped(c) /\ CallbacksInOrder(c.ops, owed) /\ Undialled(c, owed)
  /\ LinkWaits(c.link, d) /\ c.link.path = "gatt" /\ NoWrites(c.ops)

\* onResult of a write.
LEMMA WriteResultDialsWell ==
  ASSUME NEW c, NEW owed, NEW d, WriteGone(c, owed, d), NEW ok \in BOOLEAN, NEW listed \in BOOLEAN,
         ok => d \in c.link.taken
  PROVE  WellDialled(OnResult(c, Op("write", d), ok, listed), owed)
<1> DEFINE a == IF ok THEN "sent" ELSE "failed"
           l == c.link
           q == Done(l, d, a)
           u == [c EXCEPT !.link = Done(@, d, a)]
<1>1. OnResult(c, Op("write", d), ok, listed) = PumpLink(u)
  <2>1. Op("write", d).kind = "write" /\ Op("write", d).datagram = d
    BY OpFacts
  <2> QED BY <2>1 DEF OnResult
<1>2. /\ a \in {"sent", "failed"} /\ (a = "sent" => d \in l.taken) /\ d \in Datagrams
      /\ Answering(l, d) /\ l.writer = Idle /\ l.posted = <<>> /\ l.path = "gatt"
      /\ l.state \in {"open", "closed"}
  BY DatagramFacts DEF WriteGone, LinkWaits, Answering
<1> HIDE DEF a
<1>3. /\ DOMAIN u = {"conn", "ops", "link"} /\ u.conn = c.conn /\ u.ops = c.ops /\ u.link = q
  BY DEF WriteGone, WellTyped
<1> HIDE DEF u, l
<1>4. Answering(q, Idle) /\ \A f \in LinkFields \ {"sending", "outcome"} : q[f] = l[f]
  BY <1>2, DoneAnswers
<1>5. q.state = l.state /\ q.path = l.path /\ q.writer = l.writer /\ q.posted = l.posted
  BY <1>4 DEF LinkFields
<1> HIDE DEF q
<1>6. LinkWaits(q, Idle)
  BY <1>2, <1>4, <1>5, QuietPosting DEF LinkWaits
<1>7. OpsWrite(u.ops, q.path, Idle)
  BY <1>3 DEF WriteGone, OpsWrite
<1>8. WellDialled(u, owed)
  BY <1>3, <1>6, <1>7 DEF WriteGone, WellDialled, WellTyped, Undialled
<1> QED BY <1>1, <1>8, PumpLinkDialsWell

\* An operation that is no longer in flight: a write is gone, and of the others nothing is
\* left to say.
LEMMA TakenOff ==
  ASSUME NEW c, NEW u, NEW owed, NEW left, WellDialled(c, owed), c.ops.inFlight # NoOp,
         DOMAIN u = {"conn", "ops", "link"}, u.conn = c.conn, DOMAIN u.ops = OpsFields,
         u.ops.pending = c.ops.pending, u.ops.inFlight = NoOp,
         u.ops.ghosts \in [Kinds -> Nat], CallbacksInOrder(u.ops, left), Undialled(u, left),
         DOMAIN u.link = LinkFields, \A f \in LinkFields \ {"taken"} : u.link[f] = c.link[f],
         c.link.taken \subseteq u.link.taken
  PROVE  IF c.ops.inFlight.kind = "write"
         THEN /\ WriteGone(u, left, c.ops.inFlight.datagram)
              /\ c.ops.inFlight = Op("write", c.ops.inFlight.datagram)
         ELSE WellDialled(u, left)
<1> DEFINE op == c.ops.inFlight
<1>1. op \in RealOps /\ WellTyped(c) /\ OpsTyped(c.ops)
  BY DEF WellDialled, WellTyped, OpsTyped
<1>2. PICK h : LinkWaits(c.link, h) /\ OpsWrite(c.ops, c.link.path, h)
  BY DEF WellDialled
<1>3. WellTyped(u)
  BY <1>1 DEF WellTyped, OpsTyped
<1>4. /\ u.link.state = c.link.state /\ u.link.path = c.link.path /\ u.link.writer = c.link.writer
      /\ u.link.posted = c.link.posted /\ u.link.outbound = c.link.outbound
      /\ u.link.sending = c.link.sending /\ u.link.outcome = c.link.outcome
  BY DEF LinkFields
<1>5. Answering(u.link, h) /\ Posting(u.link, h)
  BY <1>2, <1>4, SameAnswers, SamePosting DEF LinkWaits
<1>6. LinkWaits(u.link, h)
  BY <1>2, <1>4, <1>5 DEF LinkWaits
<1> HIDE DEF op
<1>7. CASE op.kind = "write"
  <2>1. op = Op("write", op.datagram) /\ op.datagram \in Datagrams
    BY <1>1, <1>7, OpFacts
  <2>2. c.link.path = "gatt" /\ h # Idle /\ OneWrite(c.ops, h)
    BY <1>2, <1>7 DEF OpsWrite, NoWrites, op
  <2>3. op = Op("write", h) /\ \A i \in DOMAIN c.ops.pending : c.ops.pending[i].kind # "write"
    BY <1>7, <2>2 DEF OneWrite, op
  <2>4. op.datagram = h
    BY <2>3, OpFacts
  <2>5. NoWrites(u.ops)
    BY <2>3, OpFacts DEF NoWrites
  <2> QED BY <1>3, <1>4, <1>6, <1>7, <2>1, <2>2, <2>4, <2>5 DEF WriteGone, op
<1>8. CASE op.kind # "write"
  <2>1. NoWrites(c.ops) => NoWrites(u.ops)
    BY OpFacts DEF NoWrites
  <2>2. OneWrite(c.ops, h) => OneWrite(u.ops, h)
    <3>1. c.ops.inFlight # Op("write", h)
      BY <1>8, OpFacts DEF op
    <3> QED BY <3>1, OpFacts DEF OneWrite
  <2>3. OpsWrite(u.ops, u.link.path, h)
    BY <1>2, <1>4, <2>1, <2>2 DEF OpsWrite
  <2> QED BY <1>3, <1>6, <1>8, <2>3 DEF WellDialled, op
<1> QED BY <1>7, <1>8

\* An operation that is answered once it is no longer in flight.
LEMMA AnsweredDialsWell ==
  ASSUME NEW u, NEW left, NEW op \in RealOps, NEW ok \in BOOLEAN, NEW listed \in BOOLEAN,
         IF op.kind = "write" THEN WriteGone(u, left, op.datagram) /\ op = Op("write", op.datagram)
                              ELSE WellDialled(u, left),
         ok /\ op.kind = "write" => op.datagram \in u.link.taken
  PROVE  WellDialled(OnResult(u, op, ok, listed), left)
<1>1. CASE op.kind = "write"
  <2> DEFINE d == op.datagram
  <2>1. WriteGone(u, left, d) /\ op = Op("write", d) /\ (ok => d \in u.link.taken)
    BY <1>1
  <2> HIDE DEF d
  <2>2. WellDialled(OnResult(u, Op("write", d), ok, listed), left)
    BY <2>1, WriteResultDialsWell
  <2> QED BY <2>1, <2>2
<1>2. CASE op.kind # "write"
  BY <1>2, ResultDialsWell
<1> QED BY <1>1, <1>2

\* The stack's side keeps its shape.
LEMMA StackStays ==
  ASSUME CentralInv, CentralNext
  PROVE  DOMAIN stack' = {"link", "owed"}
<1>1. DOMAIN stack = {"link", "owed"}
  BY DEF CentralInv
<1>2. CASE ConnectGatt \/ StackConnects \/ Pump \/ StackCallsBack \/ StackStaysSilent
  BY <1>1, <1>2 DEF ConnectGatt, StackConnects, Pump, StackCallsBack, StackStaysSilent
<1>3. CASE StackDisconnects \/ CloseWatchdog
  BY <1>3 DEF StackDisconnects, CloseWatchdog
<1>4. CASE \/ RetryPump \/ PeerChangesMtu \/ OpTimeout \/ Wedged \/ ConnectTimeout \/ L2capResult
           \/ WriterWrites \/ ReaderBreaks \/ RunPosted
           \/ SendDatagram \/ RefreshRssi \/ DisconnectDialled \/ StopTransport
  BY <1>1, <1>4 DEF RetryPump, PeerChangesMtu, OpTimeout, Wedged, ConnectTimeout, L2capResult,
     WriterWrites, ReaderBreaks, RunPosted, SendDatagram, RefreshRssi, DisconnectDialled, StopTransport
<1> QED BY <1>2, <1>3, <1>4 DEF CentralNext

\* Steps that neither touch the operations in flight nor what the stack owes.
LEMMA ConnEventsDialWell ==
  ASSUME CentralInv,
         \/ StackConnects \/ ConnectTimeout \/ L2capResult \/ DisconnectDialled \/ StopTransport
         \/ RefreshRssi
  PROVE  CentralInv'
<1> DEFINE good(c) == WellDialled(c, stack.owed)
<1>0. DOMAIN stack = {"link", "owed"} /\ DOMAIN stack' = {"link", "owed"}
  BY StackStays DEF CentralInv, CentralNext
<1>1. good(Central) /\ DOMAIN conn = ConnFields
  BY CentralFields DEF CentralInv, WellDialled, WellTyped
<1>2. stack'.owed = stack.owed
  <2>1. CASE StackConnects
    BY <1>0, <2>1 DEF StackConnects
  <2> QED BY <2>1 DEF ConnectTimeout, L2capResult, DisconnectDialled, StopTransport, RefreshRssi
<1>3. \A c : Turns(c) /\ good(c) => CentralInv'
  BY <1>0, <1>2, TurnsWell
<1>4. \A c : good(c) => /\ good(Teardown(c)) /\ good(Retire(c)) /\ good(FinishWithFailure(c))
                        /\ good(OpenOver(c, "gatt")) /\ good(OpenOver(c, "l2cap"))
                        /\ good(Submit(c, Op("discover", Idle))) /\ good(Submit(c, Op("rssi", Idle)))
  <2> TAKE c
  <2> SUFFICES ASSUME good(c)
               PROVE  /\ good(Teardown(c)) /\ good(Retire(c)) /\ good(FinishWithFailure(c))
                      /\ good(OpenOver(c, "gatt")) /\ good(OpenOver(c, "l2cap"))
                      /\ good(Submit(c, Op("discover", Idle))) /\ good(Submit(c, Op("rssi", Idle)))
    OBVIOUS
  <2>1. /\ Op("discover", Idle) \in RealOps /\ Op("discover", Idle).kind # "write"
        /\ Op("rssi", Idle) \in RealOps /\ Op("rssi", Idle).kind # "write"
    BY OpFacts DEF Kinds
  <2> QED BY <2>1, TeardownKeepsWell, EndsDialWell, OpenDialsWell, SubmitDialsWell
<1>5. good([Central EXCEPT !.conn.dialling = FALSE])
  <2> DEFINE u == [Central EXCEPT !.conn.dialling = FALSE]
  <2>1. /\ DOMAIN u = DOMAIN Central /\ u.ops = Central.ops /\ u.link = Central.link
        /\ DOMAIN u.conn = ConnFields /\ u.conn.settled = Central.conn.settled
        /\ u.conn.answer = Central.conn.answer
    BY <1>1, CentralFields DEF ConnFields
  <2> HIDE DEF u
  <2>2. WellDialled(u, stack.owed)
    BY <1>1, <2>1, ConnDialsWell
  <2> QED BY <2>2 DEF u
<1> HIDE DEF good
<1>6. CASE StackConnects
  BY <1>1, <1>3, <1>4, <1>6 DEF StackConnects
<1>7. CASE ConnectTimeout
  BY <1>1, <1>3, <1>4, <1>7 DEF ConnectTimeout
<1>8. CASE L2capResult
  BY <1>3, <1>4, <1>5, <1>8 DEF L2capResult
<1>9. CASE DisconnectDialled
  BY <1>1, <1>3, <1>4, <1>9 DEF DisconnectDialled
<1>10. CASE StopTransport
  BY <1>1, <1>3, <1>4, <1>10 DEF StopTransport
<1>11. CASE RefreshRssi
  BY <1>1, <1>3, <1>4, <1>11 DEF RefreshRssi
<1> QED BY <1>6, <1>7, <1>8, <1>9, <1>10, <1>11

\* What the stack owes is forgotten with the connection.
LEMMA NothingOwed ==
  ASSUME NEW c, NEW owed, WellDialled(c, owed)
  PROVE  WellDialled(c, <<>>)
<1>1. <<>> \in Seq(RealOps) /\ OwedWrites(<<>>) = {}
  BY DEF OwedWrites
<1>2. [x \in {} |-> 1] \in [OwedWrites(<<>>) -> 1..(c.ops.ghosts["write"] + 1)]
  BY <1>1
<1>3. Ranks(c.ops, <<>>, [x \in {} |-> 1])
  BY <1>1 DEF Ranks
<1>4. CallbacksInOrder(c.ops, <<>>)
  BY <1>1, <1>2, <1>3 DEF WellDialled, CallbacksInOrder
<1> QED BY <1>4 DEF WellDialled, Undialled

\* A connection that goes takes the callbacks with it.
LEMMA DisconnectsDialWell ==
  ASSUME CentralInv, StackDisconnects \/ CloseWatchdog
  PROVE  CentralInv'
<1>1. WellDialled(Central, stack.owed) /\ stack'.owed = <<>> /\ DOMAIN stack' = {"link", "owed"}
  BY DEF CentralInv, StackDisconnects, CloseWatchdog
<1>2. WellDialled(Central, <<>>)
  BY <1>1, NothingOwed
<1>3. WellDialled(ReleaseGatt(Teardown(Central)), <<>>) /\ WellDialled(ReleaseGatt(Central), <<>>)
  BY <1>2, TeardownKeepsWell, EndsDialWell
<1>4. CASE StackDisconnects
  <2>1. Turns(ReleaseGatt(Teardown(Central)))
    BY <1>4 DEF StackDisconnects
  <2> QED BY <1>1, <1>3, <2>1, TurnsWell
<1>5. CASE CloseWatchdog
  <2>1. Turns(ReleaseGatt(Central))
    BY <1>5 DEF CloseWatchdog
  <2> QED BY <1>1, <1>3, <2>1, TurnsWell
<1> QED BY <1>4, <1>5

\* Nothing is in flight that the stack could answer for: every write it owes is a ghost.
LEMMA NothingInFlight ==
  ASSUME NEW o, NEW p, NEW owed, CallbacksInOrder(o, owed), OpsTyped(o),
         o.inFlight.kind # "write", p.ghosts["write"] = o.ghosts["write"], p.shut = o.shut,
         p.shut => p.inFlight = NoOp
  PROVE  CallbacksInOrder(p, owed)
<1>1. ASSUME NEW rank, Ranks(o, owed, rank)
      PROVE  Ranks(p, owed, rank)
  BY <1>1 DEF Ranks, OwedWrites
<1> QED BY <1>1 DEF CallbacksInOrder

\* A write that is given up becomes a ghost.
LEMMA OneMoreGhost ==
  ASSUME NEW o, NEW p, NEW owed, CallbacksInOrder(o, owed), OpsTyped(o),
         p.ghosts["write"] = o.ghosts["write"] + 1, p.shut = o.shut, p.inFlight = NoOp
  PROVE  CallbacksInOrder(p, owed)
<1> DEFINE g == o.ghosts["write"]
<1>1. g \in Nat
  BY DEF OpsTyped, Kinds
<1>2. ASSUME NEW rank \in [OwedWrites(owed) -> 1..(g + 1)], Ranks(o, owed, rank)
      PROVE  rank \in [OwedWrites(owed) -> 1..(g + 2)] /\ Ranks(p, owed, rank)
  <2>1. 1..(g + 1) \subseteq 1..(g + 2) /\ \A x \in 1..(g + 1) : ~(x > g + 1)
    BY <1>1
  <2>2. rank \in [OwedWrites(owed) -> 1..(g + 2)]
    BY <2>1
  <2>3. \A j \in OwedWrites(owed) : ~(rank[j] > p.ghosts["write"])
    BY <2>1
  <2> QED BY <1>2, <2>2, <2>3 DEF Ranks
<1>3. p.ghosts["write"] + 1 = g + 2
  BY <1>1
<1> QED BY <1>2, <1>3 DEF CallbacksInOrder

\* The callback at the front is taken off what is owed.
LEMMA OwedTailed ==
  ASSUME NEW owed \in Seq(RealOps), owed # <<>>
  PROVE  /\ Tail(owed) \in Seq(RealOps) /\ Head(owed) = owed[1] /\ owed[1] \in RealOps
         /\ 1 \in DOMAIN owed
         /\ \A j \in OwedWrites(Tail(owed)) : /\ j + 1 \in OwedWrites(owed) /\ 1 < j + 1 /\ j \in Nat
                                              /\ Tail(owed)[j] = owed[j + 1]
BY DEF OwedWrites

\* One callback fewer, and the same ghosts.
LEMMA OneCallbackLess ==
  ASSUME NEW o, NEW p, NEW owed, CallbacksInOrder(o, owed), OpsTyped(o), owed # <<>>,
         p.ghosts["write"] = o.ghosts["write"], p.shut = o.shut, p.inFlight = o.inFlight
  PROVE  CallbacksInOrder(p, Tail(owed))
<1> DEFINE left == Tail(owed)
           g == o.ghosts["write"]
<1>1. /\ left \in Seq(RealOps)
      /\ \A j \in OwedWrites(left) : /\ j + 1 \in OwedWrites(owed) /\ j \in Nat
                                     /\ left[j] = owed[j + 1]
  BY OwedTailed DEF CallbacksInOrder
<1> HIDE DEF left
<1>2. ASSUME NEW rank \in [OwedWrites(owed) -> 1..(g + 1)], Ranks(o, owed, rank)
      PROVE  \E r \in [OwedWrites(left) -> 1..(g + 1)] : Ranks(p, left, r)
  <2> DEFINE r == [j \in OwedWrites(left) |-> rank[j + 1]]
  <2>1. r \in [OwedWrites(left) -> 1..(g + 1)] /\ \A j \in OwedWrites(left) : r[j] = rank[j + 1]
    BY <1>1
  <2> HIDE DEF r
  <2>2. \A j, k \in OwedWrites(left) : j < k => r[j] < r[k]
    <3> SUFFICES ASSUME NEW j \in OwedWrites(left), NEW k \in OwedWrites(left), j < k
                 PROVE  r[j] < r[k]
      OBVIOUS
    <3>1. j + 1 < k + 1
      BY <1>1
    <3> QED BY <1>1, <1>2, <2>1, <3>1 DEF Ranks
  <2>3. \A j \in OwedWrites(left) : r[j] > g => left[j] = o.inFlight
    BY <1>1, <1>2, <2>1 DEF Ranks
  <2> QED BY <2>1, <2>2, <2>3 DEF Ranks
<1> QED BY <1>1, <1>2 DEF CallbacksInOrder, left

\* A ghost claims the callback of its write.
LEMMA OneGhostLess ==
  ASSUME NEW o, NEW p, NEW owed, CallbacksInOrder(o, owed), OpsTyped(o), owed # <<>>,
         Head(owed).kind = "write", o.ghosts["write"] > 0,
         p.ghosts["write"] = o.ghosts["write"] - 1, p.shut = o.shut, p.inFlight = o.inFlight
  PROVE  CallbacksInOrder(p, Tail(owed))
<1> DEFINE left == Tail(owed)
           g == o.ghosts["write"]
<1>1. /\ left \in Seq(RealOps) /\ 1 \in OwedWrites(owed)
      /\ \A j \in OwedWrites(left) : /\ j + 1 \in OwedWrites(owed) /\ 1 < j + 1 /\ j \in Nat
                                     /\ left[j] = owed[j + 1]
  BY OwedTailed DEF CallbacksInOrder, OwedWrites
<1>2. g \in Nat
  BY DEF OpsTyped, Kinds
<1> HIDE DEF left
<1>3. ASSUME NEW rank \in [OwedWrites(owed) -> 1..(g + 1)], Ranks(o, owed, rank)
      PROVE  \E r \in [OwedWrites(left) -> 1..g] : Ranks(p, left, r)
  <2> DEFINE r == [j \in OwedWrites(left) |-> rank[j + 1] - 1]
  <2>1. \A j \in OwedWrites(left) : /\ rank[j + 1] \in 1..(g + 1) /\ rank[1] \in 1..(g + 1)
                                    /\ rank[1] < rank[j + 1]
    BY <1>1, <1>3 DEF Ranks
  <2>2. \A j \in OwedWrites(left) : rank[j + 1] - 1 \in 1..g
    BY <1>2, <2>1
  <2>3. r \in [OwedWrites(left) -> 1..g] /\ \A j \in OwedWrites(left) : r[j] = rank[j + 1] - 1
    BY <2>2
  <2> HIDE DEF r
  <2>4. \A j, k \in OwedWrites(left) : j < k => r[j] < r[k]
    <3> SUFFICES ASSUME NEW j \in OwedWrites(left), NEW k \in OwedWrites(left), j < k
                 PROVE  r[j] < r[k]
      OBVIOUS
    <3>1. j + 1 < k + 1
      BY <1>1
    <3>2. rank[j + 1] < rank[k + 1]
      BY <1>1, <1>3, <3>1 DEF Ranks
    <3> QED BY <1>2, <2>1, <2>3, <3>2
  <2>5. \A j \in OwedWrites(left) : r[j] > g - 1 => left[j] = o.inFlight
    <3> SUFFICES ASSUME NEW j \in OwedWrites(left), r[j] > g - 1
                 PROVE  left[j] = o.inFlight
      OBVIOUS
    <3>1. rank[j + 1] > g
      BY <1>2, <2>1, <2>3
    <3> QED BY <1>1, <1>3, <3>1 DEF Ranks
  <2> QED BY <2>3, <2>4, <2>5 DEF Ranks
<1>4. p.ghosts["write"] + 1 = g
  BY <1>2
<1> QED BY <1>1, <1>3, <1>4 DEF CallbacksInOrder, left

\* Without ghosts the first write that is owed is the one in flight, and it is the last.
LEMMA OwnCallback ==
  ASSUME NEW o, NEW p, NEW owed, CallbacksInOrder(o, owed), OpsTyped(o), owed # <<>>,
         Head(owed).kind = "write", o.ghosts["write"] = 0, o.inFlight # NoOp,
         p.ghosts["write"] = 0, p.shut = o.shut, p.inFlight = NoOp
  PROVE  Head(owed) = o.inFlight /\ CallbacksInOrder(p, Tail(owed))
<1> DEFINE left == Tail(owed)
<1>1. /\ left \in Seq(RealOps) /\ 1 \in OwedWrites(owed) /\ Head(owed) = owed[1]
      /\ \A j \in OwedWrites(left) : /\ j + 1 \in OwedWrites(owed) /\ 1 < j + 1 /\ j \in Nat
                                     /\ left[j] = owed[j + 1]
  BY OwedTailed DEF CallbacksInOrder, OwedWrites
<1>2. PICK rank \in [OwedWrites(owed) -> 1..1] : Ranks(o, owed, rank)
  <2>1. ~o.shut /\ o.ghosts["write"] + 1 = 1
    BY DEF CallbacksInOrder
  <2> QED BY <2>1 DEF CallbacksInOrder
<1> HIDE DEF left
<1>3. Head(owed) = o.inFlight
  <2>1. rank[1] > 0
    BY <1>1, <1>2
  <2> QED BY <1>1, <1>2, <2>1 DEF Ranks
<1>4. OwedWrites(left) = {}
  <2> SUFFICES ASSUME NEW j \in OwedWrites(left)  PROVE FALSE
    OBVIOUS
  <2>1. rank[1] < rank[j + 1] /\ rank[1] \in 1..1 /\ rank[j + 1] \in 1..1
    BY <1>1, <1>2 DEF Ranks
  <2> QED BY <2>1
<1>5. [x \in {} |-> 1] \in [OwedWrites(left) -> 1..(p.ghosts["write"] + 1)]
  BY <1>4
<1>6. Ranks(p, left, [x \in {} |-> 1])
  BY <1>4 DEF Ranks
<1> QED BY <1>1, <1>3, <1>5, <1>6 DEF CallbacksInOrder, left

\* The stack takes an operation, and owes its callback after all the others.
LEMMA OneCallbackMore ==
  ASSUME NEW o, NEW p, NEW owed, NEW op \in RealOps, CallbacksInOrder(o, owed), OpsTyped(o),
         ~o.shut, o.inFlight = NoOp, p.ghosts["write"] = o.ghosts["write"], p.shut = o.shut,
         p.inFlight = op
  PROVE  CallbacksInOrder(p, Append(owed, op))
<1> DEFINE more == Append(owed, op)
           n == Len(owed) + 1
           g == o.ghosts["write"]
<1>1. owed \in Seq(RealOps)
  BY DEF CallbacksInOrder
<1>2. /\ more \in Seq(RealOps) /\ more[n] = op /\ n \in Nat
      /\ \A j \in DOMAIN owed : more[j] = owed[j] /\ j < n /\ j \in Nat
      /\ \A j \in DOMAIN more : j \in DOMAIN owed \/ j = n
      /\ n \notin DOMAIN owed
  BY <1>1
<1>3. g \in Nat
  BY DEF OpsTyped, Kinds
<1>4. PICK rank \in [OwedWrites(owed) -> 1..(g + 1)] : Ranks(o, owed, rank)
  BY DEF CallbacksInOrder
<1>5. \A j \in OwedWrites(owed) : rank[j] \in 1..(g + 1) /\ rank[j] <= g
  <2> TAKE j \in OwedWrites(owed)
  <2>1. rank[j] \in 1..(g + 1)
    BY <1>4
  <2>2. ~(rank[j] > g)
    BY <1>4, OpFacts DEF Ranks, OwedWrites
  <2> QED BY <1>3, <2>1, <2>2
<1> HIDE DEF more, n
<1>6. \A j \in OwedWrites(more) : (j \in OwedWrites(owed) /\ j # n) \/ (j = n /\ op.kind = "write")
  BY <1>2 DEF OwedWrites
<1> DEFINE r == [j \in OwedWrites(more) |-> IF j = n THEN g + 1 ELSE rank[j]]
<1>7. r \in [OwedWrites(more) -> 1..(g + 1)]
  BY <1>3, <1>5, <1>6
<1>8. \A j \in OwedWrites(more) : r[j] = IF j = n THEN g + 1 ELSE rank[j]
  OBVIOUS
<1> HIDE DEF r
<1>9. \A j, k \in OwedWrites(more) : j < k => r[j] < r[k]
  <2> SUFFICES ASSUME NEW j \in OwedWrites(more), NEW k \in OwedWrites(more), j < k
               PROVE  r[j] < r[k]
    OBVIOUS
  <2>1. j # n
    BY <1>2, <1>6 DEF OwedWrites
  <2>2. j \in OwedWrites(owed) /\ r[j] = rank[j]
    BY <1>6, <1>8, <2>1
  <2>3. CASE k = n
    BY <1>3, <1>5, <1>8, <2>2, <2>3
  <2>4. CASE k # n
    BY <1>4, <1>6, <1>8, <2>2, <2>4 DEF Ranks
  <2> QED BY <2>3, <2>4
<1>10. \A j \in OwedWrites(more) : r[j] > g => more[j] = op
  <2> TAKE j \in OwedWrites(more)
  <2>1. CASE j = n
    BY <1>2, <2>1
  <2>2. CASE j # n
    BY <1>3, <1>5, <1>6, <1>8, <2>2
  <2> QED BY <2>1, <2>2
<1>11. Ranks(p, more, r)
  BY <1>9, <1>10 DEF Ranks
<1> QED BY <1>2, <1>7, <1>11 DEF CallbacksInOrder, more

\* What touches neither the operations that wait, nor the one in flight, nor the link's
\* queue: counters, flags, what the radio took.
LEMMA SameDialsWell ==
  ASSUME NEW c, NEW u, NEW owed, NEW left, WellDialled(c, owed),
         DOMAIN u = {"conn", "ops", "link"}, u.conn = c.conn, DOMAIN u.ops = OpsFields,
         u.ops.pending = c.ops.pending, u.ops.inFlight = c.ops.inFlight,
         u.ops.ghosts \in [Kinds -> Nat], CallbacksInOrder(u.ops, left), Undialled(u, left),
         DOMAIN u.link = LinkFields, \A f \in LinkFields \ {"taken"} : u.link[f] = c.link[f],
         c.link.taken \subseteq u.link.taken
  PROVE  WellDialled(u, left)
<1>1. WellTyped(c) /\ OpsTyped(c.ops)
  BY DEF WellDialled, WellTyped
<1>2. PICK h : LinkWaits(c.link, h) /\ OpsWrite(c.ops, c.link.path, h)
  BY DEF WellDialled
<1>3. WellTyped(u)
  BY <1>1 DEF WellTyped, OpsTyped
<1>4. /\ u.link.state = c.link.state /\ u.link.path = c.link.path /\ u.link.writer = c.link.writer
      /\ u.link.posted = c.link.posted /\ u.link.outbound = c.link.outbound
      /\ u.link.sending = c.link.sending /\ u.link.outcome = c.link.outcome
  BY DEF LinkFields
<1>5. Answering(u.link, h) /\ Posting(u.link, h)
  BY <1>2, <1>4, SameAnswers, SamePosting DEF LinkWaits
<1>6. LinkWaits(u.link, h)
  BY <1>2, <1>4, <1>5 DEF LinkWaits
<1>7. OpsWrite(u.ops, u.link.path, h)
  BY <1>2, <1>4 DEF OpsWrite, NoWrites, OneWrite
<1> QED BY <1>3, <1>6, <1>7 DEF WellDialled

\* The same link.
LEMMA SameLink ==
  ASSUME NEW c, NEW u, NEW owed, WellDialled(c, owed), u.link = c.link
  PROVE  /\ DOMAIN u.link = LinkFields /\ \A f \in LinkFields \ {"taken"} : u.link[f] = c.link[f]
         /\ c.link.taken \subseteq u.link.taken
BY DEF WellDialled, LinkWaits, Answering

\* The stack loses an operation.
LEMMA SilenceDialsWell ==
  ASSUME CentralInv, StackStaysSilent
  PROVE  CentralInv'
<1> DEFINE c == Central
           left == Tail(stack.owed)
<1>1. /\ WellDialled(c, stack.owed) /\ stack.owed # <<>> /\ Central' = c
      /\ DOMAIN stack' = {"link", "owed"}
  BY StackStays DEF CentralInv, StackStaysSilent, Central, CentralNext
<1>2. stack'.owed = left
  BY DEF CentralInv, StackStaysSilent
<1> HIDE DEF c, left
<1>3. WellTyped(c) /\ OpsTyped(c.ops)
  BY <1>1 DEF WellDialled, WellTyped
<1>4. CallbacksInOrder(c.ops, left)
  BY <1>1, <1>3, OneCallbackLess DEF WellDialled, left
<1>5. Undialled(c, left)
  BY <1>1 DEF WellDialled, Undialled
<1>6. WellDialled(c, left)
  BY <1>1, <1>4, <1>5 DEF WellDialled
<1> QED BY <1>1, <1>2, <1>6 DEF CentralInv

\* A delayed pump() comes due.
LEMMA RetryDialsWell ==
  ASSUME CentralInv, RetryPump
  PROVE  CentralInv'
<1> DEFINE c == Central
           u == Central'
<1>1. /\ WellDialled(c, stack.owed) /\ stack' = stack /\ c.ops = ops /\ c.conn = conn
      /\ c.link = dialled /\ DOMAIN u = {"conn", "ops", "link"} /\ u.conn = conn /\ u.link = dialled
      /\ u.ops = [ops EXCEPT !.retry = FALSE, !.due = TRUE]
  BY DEF CentralInv, RetryPump, Central
<1> HIDE DEF c, u
<1>2. OpsTyped(ops)
  BY <1>1 DEF WellDialled, WellTyped
<1>3. /\ DOMAIN u.ops = OpsFields /\ u.ops.pending = ops.pending /\ u.ops.inFlight = ops.inFlight
      /\ u.ops.ghosts = ops.ghosts /\ u.ops.shut = ops.shut /\ ops.ghosts \in [Kinds -> Nat]
  BY <1>1, <1>2 DEF OpsTyped, OpsFields
<1>4. CallbacksInOrder(u.ops, stack.owed) /\ Undialled(u, stack.owed)
  BY <1>1, <1>3, SameCallbacks DEF WellDialled, Undialled
<1>5. /\ DOMAIN u.link = LinkFields /\ \A f \in LinkFields \ {"taken"} : u.link[f] = c.link[f]
      /\ c.link.taken \subseteq u.link.taken
  BY <1>1, SameLink
<1>6. WellDialled(u, stack.owed)
  BY <1>1, <1>3, <1>4, <1>5, SameDialsWell
<1> QED BY <1>1, <1>6 DEF CentralInv, u

\* onTimeout(): the operation leaves a ghost and is answered as failed.
LEMMA TimeoutDialsWell ==
  ASSUME CentralInv, OpTimeout
  PROVE  CentralInv'
<1> DEFINE c == Central
           owed == stack.owed
           op == ops.inFlight
           missed == ops.missed + 1
           u == [Central EXCEPT !.ops.inFlight = NoOp, !.ops.missed = missed,
                                !.ops.ghosts[op.kind] = @ + 1]
           r == OnResult(u, op, FALSE, FALSE)
<1>1. /\ WellDialled(c, owed) /\ stack' = stack /\ c.ops = ops /\ c.conn = conn /\ op # NoOp
      /\ c.link = dialled /\ DOMAIN c = {"conn", "ops", "link"} /\ DOMAIN stack = {"link", "owed"}
  BY DEF CentralInv, OpTimeout, Central
<1>2. Turns(IF r.ops.shut THEN r
            ELSE IF missed >= WedgedTimeouts THEN [r EXCEPT !.ops.wedged = TRUE]
            ELSE [r EXCEPT !.ops.due = TRUE])
  BY DEF OpTimeout
<1>3. OpsTyped(ops) /\ op \in RealOps
  BY <1>1 DEF WellDialled, WellTyped, OpsTyped
<1>4. op.kind \in Kinds /\ ops.ghosts \in [Kinds -> Nat] /\ DOMAIN ops = OpsFields
  BY <1>3, OpFacts DEF OpsTyped
<1> HIDE DEF c, missed
<1>5. /\ DOMAIN u = {"conn", "ops", "link"} /\ u.conn = conn /\ u.link = dialled
      /\ DOMAIN u.ops = OpsFields /\ u.ops.pending = ops.pending /\ u.ops.inFlight = NoOp
      /\ u.ops.ghosts = [ops.ghosts EXCEPT ![op.kind] = @ + 1] /\ u.ops.shut = ops.shut
  <2>1. DOMAIN Central = {"conn", "ops", "link"} /\ Central.ops = ops /\ Central.conn = conn
          /\ Central.link = dialled
    BY CentralFields
  <2> QED BY <1>4, <2>1 DEF OpsFields
<1> HIDE DEF u
<1>6. u.ops.ghosts \in [Kinds -> Nat]
  BY <1>4, <1>5
<1>7. CallbacksInOrder(u.ops, owed)
  <2>1. CallbacksInOrder(ops, owed) /\ "write" \in Kinds
    BY <1>1 DEF WellDialled, Kinds
  <2>2. CASE op.kind = "write"
    <3>1. u.ops.ghosts["write"] = ops.ghosts["write"] + 1
      BY <1>4, <1>5, <2>1, <2>2
    <3> HIDE DEF owed
    <3> QED BY <1>3, <1>5, <2>1, <3>1, OneMoreGhost
  <2>3. CASE op.kind # "write"
    <3>1. u.ops.ghosts["write"] = ops.ghosts["write"]
      BY <1>4, <1>5, <2>1, <2>3
    <3> HIDE DEF owed
    <3> QED BY <1>3, <1>5, <2>1, <2>3, <3>1, NothingInFlight
  <2> QED BY <2>2, <2>3
<1>8. Undialled(u, owed)
  BY <1>1, <1>5 DEF WellDialled, Undialled
<1>9. /\ DOMAIN u.link = LinkFields /\ \A f \in LinkFields \ {"taken"} : u.link[f] = c.link[f]
      /\ c.link.taken \subseteq u.link.taken
  BY <1>1, <1>5, SameLink
<1> HIDE DEF owed, op
<1>10. IF op.kind = "write"
       THEN WriteGone(u, owed, op.datagram) /\ op = Op("write", op.datagram)
       ELSE WellDialled(u, owed)
  <2>1. c.ops.inFlight = op /\ c.ops.inFlight # NoOp /\ u.conn = c.conn /\ u.ops.pending = c.ops.pending
    BY <1>1, <1>5 DEF op
  <2>2. IF c.ops.inFlight.kind = "write"
        THEN /\ WriteGone(u, owed, c.ops.inFlight.datagram)
             /\ c.ops.inFlight = Op("write", c.ops.inFlight.datagram)
        ELSE WellDialled(u, owed)
    BY <1>1, <1>5, <1>6, <1>7, <1>8, <1>9, <2>1, TakenOff
  <2> QED BY <2>1, <2>2
<1>11. WellDialled(r, owed)
  BY <1>3, <1>10, AnsweredDialsWell
<1> HIDE DEF r
\* The flags onTimeout() leaves.
<1>12. ASSUME NEW v, \/ v = [r EXCEPT !.ops.wedged = TRUE] \/ v = [r EXCEPT !.ops.due = TRUE]
       PROVE  WellDialled(v, owed)
  <2>1. WellTyped(r) /\ OpsTyped(r.ops) /\ CallbacksInOrder(r.ops, owed) /\ Undialled(r, owed)
    BY <1>11 DEF WellDialled, WellTyped
  <2>2. /\ DOMAIN v = {"conn", "ops", "link"} /\ v.conn = r.conn /\ v.link = r.link
        /\ DOMAIN v.ops = OpsFields /\ v.ops.pending = r.ops.pending
        /\ v.ops.inFlight = r.ops.inFlight /\ v.ops.ghosts = r.ops.ghosts /\ v.ops.shut = r.ops.shut
    BY <1>12, <2>1 DEF WellTyped, OpsTyped, OpsFields
  <2>3. CallbacksInOrder(v.ops, owed) /\ Undialled(v, owed) /\ r.ops.ghosts \in [Kinds -> Nat]
    BY <2>1, <2>2, SameCallbacks DEF Undialled, OpsTyped
  <2>4. /\ DOMAIN v.link = LinkFields /\ \A f \in LinkFields \ {"taken"} : v.link[f] = r.link[f]
        /\ r.link.taken \subseteq v.link.taken
    BY <1>11, <2>2, SameLink
  <2> QED BY <1>11, <2>2, <2>3, <2>4, SameDialsWell
<1>13. PICK v : Turns(v) /\ WellDialled(v, owed)
  BY <1>2, <1>11, <1>12
<1> QED BY <1>1, <1>13, TurnsWell DEF owed

\* A connection that is wedged is aborted and torn down.
LEMMA WedgedDialsWell ==
  ASSUME CentralInv, Wedged
  PROVE  CentralInv'
<1>1. WellDialled(Central, stack.owed) /\ stack' = stack /\ DOMAIN stack = {"link", "owed"}
  BY DEF CentralInv, Wedged
<1> DEFINE c == Central
           owed == stack.owed
<1> HIDE DEF c, owed
<1>2. PICK h : LinkWaits(c.link, h)
  BY <1>1 DEF WellDialled, c, owed
<1>3. WellTyped(c) /\ Undialled(c, owed) /\ owed \in Seq(RealOps)
  BY <1>1 DEF WellDialled, CallbacksInOrder, c, owed
<1>4. WellDialled(AbortOps(c), owed)
  BY <1>2, <1>3, AbortDialsWell
<1>5. WellDialled(Teardown(AbortOps(c)), owed)
  BY <1>4, TeardownKeepsWell
<1>6. Turns(Teardown(AbortOps(c)))
  BY DEF Wedged, c
<1> QED BY <1>1, <1>5, <1>6, TurnsWell DEF owed

\* connect(): everything starts afresh.
LEMMA ConnectDialsWell ==
  ASSUME CentralInv, ConnectGatt
  PROVE  CentralInv'
<1>1. conn = NoConnection /\ WellDialled(Central, stack.owed) /\ DOMAIN stack' = {"link", "owed"}
  BY StackStays DEF ConnectGatt, CentralInv, CentralNext
<1>2. stack.owed = <<>>
  <2>1. NoConnection.settled = TRUE /\ NoConnection.answer = "none"
    BY DEF NoConnection
  <2> QED BY <1>1, <2>1, CentralFields DEF WellDialled, Undialled
<1>3. stack'.owed = <<>>
  BY <1>2 DEF ConnectGatt, CentralInv
<1> DEFINE d == DialledAnew
<1>4. /\ DOMAIN d = {"conn", "ops", "link"} /\ DOMAIN d.conn = ConnFields /\ d.conn.settled = FALSE
      /\ d.conn.answer = "none" /\ d.ops = NoOps /\ d.link = NewLink
  BY DEF DialledAnew, NoConnection, ConnFields
<1> HIDE DEF d
<1>5. /\ DOMAIN NoOps = OpsFields /\ NoOps.pending = <<>> /\ NoOps.inFlight = NoOp
      /\ NoOps.ghosts = [k \in Kinds |-> 0]
  BY DEF NoOps, OpsFields
<1>6. /\ Answering(NewLink, Idle) /\ Posting(NewLink, Idle) /\ NewLink.path = "none"
      /\ NewLink.state = "connecting" /\ NewLink.writer = Idle /\ NewLink.posted = <<>>
  BY NewLinkAnswers DEF NewLink
<1>7. /\ <<>> \in Seq(RealOps) /\ DOMAIN <<>> = {} /\ [k \in Kinds |-> 0] \in [Kinds -> Nat]
      /\ OwedWrites(<<>>) = {}
  BY DEF OwedWrites
<1>8. ASSUME NEW u, DOMAIN u = {"conn", "ops", "link"}, DOMAIN u.conn = ConnFields,
             ~u.conn.settled, DOMAIN u.ops = OpsFields, u.ops.pending = <<>>,
             u.ops.inFlight = NoOp, u.ops.ghosts = [k \in Kinds |-> 0], LinkWaits(u.link, Idle)
      PROVE  WellDialled(u, <<>>)
  <2>1. WellTyped(u) /\ NoWrites(u.ops) /\ Undialled(u, <<>>)
    BY <1>7, <1>8, OpFacts DEF WellTyped, OpsTyped, NoWrites, Undialled
  <2>2. [x \in {} |-> 1] \in [OwedWrites(<<>>) -> 1..(u.ops.ghosts["write"] + 1)]
    BY <1>7
  <2>3. Ranks(u.ops, <<>>, [x \in {} |-> 1])
    BY <1>7 DEF Ranks
  <2>4. CallbacksInOrder(u.ops, <<>>)
    BY <1>7, <1>8, <2>2, <2>3 DEF CallbacksInOrder
  <2>5. OpsWrite(u.ops, u.link.path, Idle)
    BY <2>1 DEF OpsWrite
  <2> QED BY <1>8, <2>1, <2>4, <2>5 DEF WellDialled
<1>9. LinkWaits(NewLink, Idle)
  BY <1>6 DEF LinkWaits
<1>10. LinkWaits(Closed(NewLink), Idle)
  <2> DEFINE n == NewLink
             q == Closed(n)
  <2> HIDE DEF n
  <2>1. /\ Answering(q, Idle) /\ q.state = "closed"
        /\ \A f \in LinkFields \ {"state", "outbound", "sending", "outcome"} : q[f] = n[f]
    BY <1>6, ClosedAnswers DEF n
  <2>2. q.writer = n.writer /\ q.posted = n.posted /\ q.path = n.path
    BY <2>1 DEF LinkFields
  <2> HIDE DEF q
  <2>3. LinkWaits(q, Idle)
    BY <1>6, <2>1, <2>2, QuietPosting DEF LinkWaits, n
  <2> QED BY <2>3 DEF q, n
<1>11. CASE Turns([DialledAnew EXCEPT !.conn.gatt = TRUE, !.conn.connectTimer = TRUE,
                                      !.ops.shut = FALSE])
  <2> DEFINE u == [d EXCEPT !.conn.gatt = TRUE, !.conn.connectTimer = TRUE, !.ops.shut = FALSE]
  <2>1. /\ DOMAIN u = {"conn", "ops", "link"} /\ DOMAIN u.conn = ConnFields /\ ~u.conn.settled
        /\ DOMAIN u.ops = OpsFields /\ u.ops.pending = <<>> /\ u.ops.inFlight = NoOp
        /\ u.ops.ghosts = [k \in Kinds |-> 0] /\ u.link = NewLink
    <3> HIDE DEF NewLink, NoOps
    <3> QED BY <1>4, <1>5 DEF ConnFields, OpsFields
  <2> HIDE DEF u
  <2>2. WellDialled(u, <<>>)
    BY <1>8, <1>9, <2>1
  <2> QED BY <1>1, <1>3, <1>11, <2>2, TurnsWell DEF u, d
<1>12. CASE Turns(Retire(FinishWithFailure([DialledAnew EXCEPT !.link = Closed(@)])))
  <2> DEFINE u == [d EXCEPT !.link = Closed(@)]
  <2>1. /\ DOMAIN u = {"conn", "ops", "link"} /\ u.conn = d.conn /\ u.ops = NoOps
        /\ u.link = Closed(NewLink)
    BY <1>4
  <2> HIDE DEF u
  <2>2. WellDialled(u, <<>>)
    BY <1>4, <1>5, <1>8, <1>10, <2>1
  <2>3. WellDialled(Retire(FinishWithFailure(u)), <<>>)
    BY <2>2, EndsDialWell
  <2> QED BY <1>1, <1>3, <1>12, <2>3, TurnsWell DEF u, d
<1> QED BY <1>11, <1>12 DEF ConnectGatt

\* The head of the operations moves into the slot.
LEMMA MovedToSlot ==
  ASSUME NEW o, NEW p, NEW h, OpsTyped(o), o.pending # <<>>, o.inFlight = NoOp,
         DOMAIN p = OpsFields, p.pending = Tail(o.pending), p.inFlight = Head(o.pending),
         p.ghosts = o.ghosts
  PROVE  /\ OpsTyped(p) /\ p.inFlight \in RealOps
         /\ NoWrites(o) => NoWrites(p)
         /\ OneWrite(o, h) => OneWrite(p, h)
<1> DEFINE a == o.pending
           b == p.pending
<1>1. /\ a \in Seq(RealOps) /\ b \in Seq(RealOps) /\ 1 \in DOMAIN a /\ p.inFlight = a[1]
      /\ a[1] \in RealOps
      /\ \A i \in DOMAIN b : i + 1 \in DOMAIN a /\ i + 1 # 1 /\ b[i] = a[i + 1] /\ i \in Nat
      /\ \A i \in DOMAIN a : i # 1 => i - 1 \in DOMAIN b /\ b[i - 1] = a[i] /\ i \in Nat
  BY DEF OpsTyped
<1>2. OpsTyped(p)
  BY <1>1 DEF OpsTyped
<1> HIDE DEF a, b
<1>3. NoWrites(o) => NoWrites(p)
  BY <1>1 DEF NoWrites, a, b
<1>4. ASSUME OneWrite(o, h)
      PROVE  OneWrite(p, h)
  <2>1. PICK k \in DOMAIN a : /\ a[k] = Op("write", h)
                              /\ \A i \in DOMAIN a : i # k => a[i].kind # "write"
    BY <1>4, OpFacts DEF OneWrite, a
  <2>2. CASE k = 1
    BY <1>1, <2>1, <2>2 DEF OneWrite, b
  <2>3. CASE k # 1
    <3>1. /\ p.inFlight.kind # "write" /\ k - 1 \in DOMAIN b /\ b[k - 1] = Op("write", h)
      BY <1>1, <2>1, <2>3
    <3>2. \A i \in DOMAIN b : i # k - 1 => b[i].kind # "write"
      <4> SUFFICES ASSUME NEW i \in DOMAIN b, i # k - 1  PROVE b[i].kind # "write"
        OBVIOUS
      <4>1. i + 1 # k
        BY <1>1, <2>1, <2>3
      <4> QED BY <1>1, <2>1, <4>1
    <3> QED BY <3>1, <3>2 DEF OneWrite, b
  <2> QED BY <2>2, <2>3
<1> QED BY <1>1, <1>2, <1>3, <1>4

\* The next operation is in the slot, and nothing is asked of the stack yet.
LEMMA IssuedDialsWell ==
  ASSUME NEW c, NEW u, NEW owed, NEW left, WellDialled(c, owed), c.ops.pending # <<>>,
         c.ops.inFlight = NoOp, DOMAIN u = {"conn", "ops", "link"}, u.conn = c.conn,
         DOMAIN u.ops = OpsFields, u.ops.pending = Tail(c.ops.pending),
         u.ops.inFlight = Head(c.ops.pending), u.ops.ghosts = c.ops.ghosts,
         CallbacksInOrder(u.ops, left), Undialled(u, left), u.link = c.link
  PROVE  WellDialled(u, left)
<1>1. WellTyped(c) /\ OpsTyped(c.ops)
  BY DEF WellDialled, WellTyped
<1>2. PICK h : LinkWaits(c.link, h) /\ OpsWrite(c.ops, c.link.path, h)
  BY DEF WellDialled
<1> DEFINE o == c.ops
           p == u.ops
<1> HIDE DEF o, p
<1>3. /\ OpsTyped(p) /\ (NoWrites(o) => NoWrites(p)) /\ (OneWrite(o, h) => OneWrite(p, h))
  BY <1>1, MovedToSlot DEF o, p
<1>4. WellTyped(u)
  BY <1>3 DEF WellTyped, p, WellDialled
<1>5. OpsWrite(p, u.link.path, h)
  BY <1>2, <1>3 DEF OpsWrite, o
<1> QED BY <1>2, <1>4, <1>5 DEF WellDialled, p

\* pump(): the stack takes the next operation, stays busy, or refuses it.
LEMMA PumpDialsWell ==
  ASSUME CentralInv, Pump
  PROVE  CentralInv'
<1> DEFINE owed == stack.owed
           op == Head(ops.pending)
           c  == [Central EXCEPT !.ops.due = FALSE, !.ops.pending = Tail(@), !.ops.inFlight = op]
<1>1. WellDialled(Central, owed) /\ DOMAIN stack = {"link", "owed"} /\ DOMAIN stack' = {"link", "owed"}
  BY StackStays DEF CentralInv, CentralNext
<1>2. /\ OpsTyped(ops) /\ CallbacksInOrder(ops, owed) /\ DOMAIN ops = OpsFields
      /\ DOMAIN Central = {"conn", "ops", "link"} /\ Central.conn = conn /\ Central.ops = ops
      /\ Central.link = dialled /\ Undialled(Central, owed)
  BY <1>1, CentralFields DEF WellDialled, WellTyped, OpsTyped
<1>3. CASE ops.shut \/ ops.inFlight # NoOp \/ ops.pending = <<>>
  <2>1. ops' = [ops EXCEPT !.due = FALSE] /\ conn' = conn /\ dialled' = dialled /\ stack' = stack
    BY <1>3 DEF Pump
  <2> DEFINE u == Central'
  <2>2. /\ DOMAIN u = {"conn", "ops", "link"} /\ u.conn = conn /\ u.link = dialled /\ u.ops = ops'
    BY <2>1 DEF Central
  <2>3. /\ DOMAIN ops' = OpsFields /\ ops'.pending = ops.pending /\ ops'.inFlight = ops.inFlight
        /\ ops'.ghosts = ops.ghosts /\ ops'.shut = ops.shut
    BY <1>2, <2>1 DEF OpsFields
  <2> HIDE DEF u
  <2>4. CallbacksInOrder(u.ops, owed) /\ Undialled(u, owed)
    BY <1>2, <2>2, <2>3, SameCallbacks DEF Undialled
  <2>5. /\ DOMAIN u.link = LinkFields /\ \A f \in LinkFields \ {"taken"} : u.link[f] = Central.link[f]
        /\ Central.link.taken \subseteq u.link.taken
    BY <1>1, <1>2, <2>2, SameLink
  <2>6. u.ops.ghosts \in [Kinds -> Nat]
    BY <1>2, <2>2, <2>3 DEF OpsTyped
  <2>7. WellDialled(u, owed)
    BY <1>1, <1>2, <2>2, <2>3, <2>4, <2>5, <2>6, SameDialsWell
  <2> QED BY <1>1, <2>1, <2>7 DEF CentralInv, u
<1>4. CASE ~(ops.shut \/ ops.inFlight # NoOp \/ ops.pending = <<>>)
  <2>1. /\ DOMAIN c = {"conn", "ops", "link"} /\ c.conn = conn /\ c.link = dialled
        /\ DOMAIN c.ops = OpsFields /\ c.ops.pending = Tail(ops.pending) /\ c.ops.inFlight = op
        /\ c.ops.ghosts = ops.ghosts /\ c.ops.shut = ops.shut /\ c.ops.busy = ops.busy
    BY <1>2 DEF OpsFields
  <2>2. op \in RealOps /\ op # NoOp
    BY <1>2, <1>4, OpFacts DEF OpsTyped
  <2>3. \/ /\ Turns([c EXCEPT !.ops.busy = 0])
           /\ stack' = [stack EXCEPT !.owed = Append(@, op)]
        \/ Turns(StillBusy(c)) /\ stack' = stack
        \/ /\ Turns(OnResult([c EXCEPT !.ops.inFlight = NoOp, !.ops.busy = 0,
                                         !.ops.due = TRUE], op, FALSE, FALSE))
           /\ stack' = stack
    BY <1>4 DEF Pump
  <2> HIDE DEF c, op
  <2>4. ops.pending # <<>> /\ ops.inFlight = NoOp /\ ~ops.shut /\ op = Head(ops.pending)
    BY <1>4 DEF op
  <2>5. ops.inFlight.kind # "write"
    BY <2>4, OpFacts
\* Nothing is asked of the stack: the operation is in the slot, and what it owes is as before.
  <2>6. WellDialled(c, owed)
    <3>1. CallbacksInOrder(c.ops, owed)
      BY <1>2, <2>1, <2>4, <2>5, NothingInFlight
    <3>2. Undialled(c, owed)
      BY <1>2, <2>1 DEF Undialled
    <3> QED BY <1>1, <1>2, <2>1, <2>4, <3>1, <3>2, IssuedDialsWell
  <2>7. CASE Turns([c EXCEPT !.ops.busy = 0]) /\ stack' = [stack EXCEPT !.owed = Append(@, op)]
    <3> DEFINE u == [c EXCEPT !.ops.busy = 0]
    <3>1. /\ DOMAIN u = {"conn", "ops", "link"} /\ u.conn = conn /\ u.link = dialled
          /\ DOMAIN u.ops = OpsFields /\ u.ops.pending = Tail(ops.pending) /\ u.ops.inFlight = op
          /\ u.ops.ghosts = ops.ghosts /\ u.ops.shut = ops.shut
      BY <2>1 DEF OpsFields
    <3>2. stack'.owed = Append(owed, op)
      BY <1>1, <2>7
    <3> HIDE DEF u, owed
    <3>3. CallbacksInOrder(u.ops, Append(owed, op))
      BY <1>2, <2>2, <2>4, <3>1, OneCallbackMore
    <3>4. Undialled(u, Append(owed, op))
      BY <1>2, <2>4, <3>1 DEF Undialled
    <3>5. WellDialled(u, Append(owed, op))
      BY <1>1, <1>2, <2>4, <3>1, <3>3, <3>4, IssuedDialsWell
    <3> QED BY <1>1, <2>7, <3>2, <3>5, TurnsWell DEF u
\* The slot is freed again, and the operation answered as failed.
  <2>8. ASSUME NEW u, DOMAIN u = {"conn", "ops", "link"}, u.conn = conn, u.link = dialled,
               DOMAIN u.ops = OpsFields, u.ops.pending = Tail(ops.pending), u.ops.inFlight = NoOp,
               u.ops.ghosts = ops.ghosts, u.ops.shut = ops.shut
        PROVE  WellDialled(OnResult(u, op, FALSE, FALSE), owed)
    <3>1. CallbacksInOrder(u.ops, owed)
      BY <1>2, <2>4, <2>8, SameCallbacks
    <3>2. Undialled(u, owed) /\ u.ops.ghosts \in [Kinds -> Nat]
      BY <1>2, <2>8 DEF Undialled, OpsTyped
    <3>3. /\ DOMAIN u.link = LinkFields /\ \A f \in LinkFields \ {"taken"} : u.link[f] = c.link[f]
          /\ c.link.taken \subseteq u.link.taken
      BY <2>1, <2>6, <2>8, SameLink
    <3>4. IF c.ops.inFlight.kind = "write"
          THEN /\ WriteGone(u, owed, c.ops.inFlight.datagram)
               /\ c.ops.inFlight = Op("write", c.ops.inFlight.datagram)
          ELSE WellDialled(u, owed)
      <4>1. c.ops.inFlight # NoOp /\ u.conn = c.conn /\ u.ops.pending = c.ops.pending
        BY <2>1, <2>2, <2>8
      <4> QED BY <2>6, <2>8, <3>1, <3>2, <3>3, <4>1, TakenOff
    <3>5. IF op.kind = "write" THEN WriteGone(u, owed, op.datagram) /\ op = Op("write", op.datagram)
                               ELSE WellDialled(u, owed)
      BY <2>1, <3>4
    <3> QED BY <2>2, <3>5, AnsweredDialsWell
  <2>9. CASE /\ Turns(OnResult([c EXCEPT !.ops.inFlight = NoOp, !.ops.busy = 0,
                                           !.ops.due = TRUE], op, FALSE, FALSE))
             /\ stack' = stack
    <3> DEFINE u == [c EXCEPT !.ops.inFlight = NoOp, !.ops.busy = 0, !.ops.due = TRUE]
    <3>1. /\ DOMAIN u = {"conn", "ops", "link"} /\ u.conn = conn /\ u.link = dialled
          /\ DOMAIN u.ops = OpsFields /\ u.ops.pending = Tail(ops.pending) /\ u.ops.inFlight = NoOp
          /\ u.ops.ghosts = ops.ghosts /\ u.ops.shut = ops.shut
      BY <2>1 DEF OpsFields
    <3> HIDE DEF u
    <3>2. WellDialled(OnResult(u, op, FALSE, FALSE), owed)
      BY <2>8, <3>1
    <3> QED BY <1>1, <2>9, <3>2, TurnsWell DEF u
  <2>10. CASE Turns(StillBusy(c)) /\ stack' = stack
    <3> DEFINE again == [c EXCEPT !.ops.inFlight = NoOp, !.ops.busy = @ + 1]
               spent == [again EXCEPT !.ops.busy = 0, !.ops.due = TRUE]
               back  == [again EXCEPT !.ops.pending = <<op>> \o @, !.ops.retry = TRUE]
    <3>1. /\ DOMAIN again = {"conn", "ops", "link"} /\ again.conn = conn /\ again.link = dialled
          /\ DOMAIN again.ops = OpsFields /\ again.ops.pending = Tail(ops.pending)
          /\ again.ops.inFlight = NoOp /\ again.ops.ghosts = ops.ghosts
          /\ again.ops.shut = ops.shut
      BY <2>1 DEF OpsFields
    <3>2. StillBusy(c) = OnResult(spent, op, FALSE, FALSE) \/ StillBusy(c) = back
      BY <2>1 DEF StillBusy
    <3> HIDE DEF again
    <3>3. /\ DOMAIN spent = {"conn", "ops", "link"} /\ spent.conn = conn /\ spent.link = dialled
          /\ DOMAIN spent.ops = OpsFields /\ spent.ops.pending = Tail(ops.pending)
          /\ spent.ops.inFlight = NoOp /\ spent.ops.ghosts = ops.ghosts
          /\ spent.ops.shut = ops.shut
      BY <3>1 DEF OpsFields
    <3>4. /\ DOMAIN back = {"conn", "ops", "link"} /\ back.conn = conn /\ back.link = dialled
          /\ DOMAIN back.ops = OpsFields /\ back.ops.pending = <<op>> \o Tail(ops.pending)
          /\ back.ops.inFlight = NoOp /\ back.ops.ghosts = ops.ghosts
          /\ back.ops.shut = ops.shut
      BY <3>1 DEF OpsFields
    <3> HIDE DEF spent, back
    <3>5. WellDialled(OnResult(spent, op, FALSE, FALSE), owed)
      BY <2>8, <3>3
    <3>6. <<op>> \o Tail(ops.pending) = ops.pending
      <4> DEFINE a == ops.pending
      <4>1. a \in Seq(RealOps) /\ a # <<>> /\ op = Head(a)
        BY <1>2, <2>4 DEF OpsTyped
      <4> HIDE DEF a
      <4>2. <<op>> \o Tail(a) = a
        BY <4>1
      <4> QED BY <4>2 DEF a
    <3>7. CallbacksInOrder(back.ops, owed) /\ Undialled(back, owed)
      BY <1>2, <2>4, <3>4, SameCallbacks DEF Undialled
    <3>8. /\ DOMAIN back.link = LinkFields
          /\ \A f \in LinkFields \ {"taken"} : back.link[f] = Central.link[f]
          /\ Central.link.taken \subseteq back.link.taken
      BY <1>1, <1>2, <3>4, SameLink
    <3>9. back.ops.ghosts \in [Kinds -> Nat] /\ back.ops.pending = ops.pending
      BY <1>2, <3>4, <3>6 DEF OpsTyped
    <3>10. WellDialled(back, owed)
      BY <1>1, <1>2, <2>4, <3>4, <3>7, <3>8, <3>9, SameDialsWell
    <3> QED BY <1>1, <2>10, <3>2, <3>5, <3>10, TurnsWell
  <2> QED BY <2>3, <2>7, <2>9, <2>10
<1> QED BY <1>3, <1>4

\* Whoever claims a callback of this kind, a ghost, nobody or the operation in flight, what
\* is left is in order.
CallbackClaimed(left, kind) ==
  /\ GhostOf(kind) > 0 =>
       \A p : p.ghosts = [ops.ghosts EXCEPT ![kind] = @ - 1] /\ p.shut = ops.shut
                /\ p.inFlight = ops.inFlight => CallbacksInOrder(p, left)
  /\ GhostOf(kind) = 0 /\ ops.inFlight.kind # kind => CallbacksInOrder(ops, left)
  /\ GhostOf(kind) = 0 /\ ops.inFlight.kind = kind =>
       \A p : p.ghosts = ops.ghosts /\ p.shut = ops.shut /\ p.inFlight = NoOp
                => CallbacksInOrder(p, left)

\* complete()
LEMMA CompleteDialsWell ==
  ASSUME CentralInv, NEW c, NEW kind \in Kinds, NEW left, NEW ok \in BOOLEAN, NEW listed \in BOOLEAN,
         DOMAIN c = {"conn", "ops", "link"}, c.conn = conn, c.ops = ops,
         DOMAIN c.link = LinkFields, \A f \in LinkFields \ {"taken"} : c.link[f] = dialled[f],
         dialled.taken \subseteq c.link.taken,
         Undialled(Central, left), CallbackClaimed(left, kind),
         ok /\ kind = "write" /\ GhostOf(kind) = 0 /\ ops.inFlight.kind = kind =>
           ops.inFlight.datagram \in c.link.taken
  PROVE  WellDialled(Complete(c, kind, ok, listed), left)
<1> DEFINE u == [c EXCEPT !.ops.ghosts[kind] = @ - 1]
           v == [c EXCEPT !.ops.inFlight = NoOp, !.ops.missed = 0, !.ops.due = TRUE]
           m == Central
<1>1. /\ WellDialled(m, stack.owed) /\ m.ops = ops /\ m.conn = conn /\ m.link = dialled
  BY CentralFields DEF CentralInv
<1> HIDE DEF m
<1>2. OpsTyped(ops) /\ ops.ghosts \in [Kinds -> Nat] /\ DOMAIN ops = OpsFields /\ GhostOf(kind) \in Nat
        /\ ops.inFlight \in RealOps \cup {NoOp}
  BY <1>1 DEF WellDialled, WellTyped, OpsTyped, GhostOf
<1>3. Undialled(m, left)
  BY DEF m
<1>4. CASE GhostOf(kind) > 0
  <2>1. Complete(c, kind, ok, listed) = u
    BY <1>4 DEF Complete
  <2>2. /\ DOMAIN u = {"conn", "ops", "link"} /\ u.conn = conn /\ u.link = c.link
        /\ DOMAIN u.ops = OpsFields /\ u.ops.pending = ops.pending
        /\ u.ops.inFlight = ops.inFlight /\ u.ops.shut = ops.shut
        /\ u.ops.ghosts = [ops.ghosts EXCEPT ![kind] = @ - 1]
    BY <1>2 DEF OpsFields
  <2> HIDE DEF u
  <2>3. u.ops.ghosts \in [Kinds -> Nat]
    <3>1. ops.ghosts[kind] - 1 \in Nat
      BY <1>2, <1>4 DEF GhostOf
    <3> QED BY <1>2, <2>2, <3>1
  <2>4. CallbacksInOrder(u.ops, left)
    BY <1>4, <2>2 DEF CallbackClaimed
  <2>5. Undialled(u, left)
    BY <1>1, <1>3, <2>2 DEF Undialled
  <2>6. WellDialled(u, left)
    BY <1>1, <2>2, <2>3, <2>4, <2>5, SameDialsWell
  <2> QED BY <2>1, <2>6
<1>5. CASE GhostOf(kind) = 0 /\ ops.inFlight.kind # kind
  <2>1. Complete(c, kind, ok, listed) = c
    BY <1>5 DEF Complete
  <2>2. CallbacksInOrder(ops, left)
    BY <1>5 DEF CallbackClaimed
  <2>3. Undialled(c, left)
    BY <1>1, <1>3 DEF Undialled
  <2>4. WellDialled(c, left)
    BY <1>1, <1>2, <2>2, <2>3, SameDialsWell
  <2> QED BY <2>1, <2>4
<1>6. CASE GhostOf(kind) = 0 /\ ops.inFlight.kind = kind
  <2> DEFINE op == ops.inFlight
  <2>1. Complete(c, kind, ok, listed) = OnResult(v, op, ok, listed)
    BY <1>6 DEF Complete
  <2>2. /\ DOMAIN v = {"conn", "ops", "link"} /\ v.conn = conn /\ v.link = c.link
        /\ DOMAIN v.ops = OpsFields /\ v.ops.pending = ops.pending /\ v.ops.inFlight = NoOp
        /\ v.ops.shut = ops.shut /\ v.ops.ghosts = ops.ghosts
    BY <1>2 DEF OpsFields
  <2> HIDE DEF v
  <2>3. op # NoOp /\ op \in RealOps
    BY <1>2, <1>6, OpFacts DEF Kinds
  <2>4. CallbacksInOrder(v.ops, left)
    BY <1>6, <2>2 DEF CallbackClaimed
  <2>5. Undialled(v, left)
    BY <1>1, <1>3, <2>2 DEF Undialled
  <2>6. IF m.ops.inFlight.kind = "write"
        THEN /\ WriteGone(v, left, m.ops.inFlight.datagram)
             /\ m.ops.inFlight = Op("write", m.ops.inFlight.datagram)
        ELSE WellDialled(v, left)
    BY <1>1, <1>2, <2>2, <2>3, <2>4, <2>5, TakenOff
  <2>7. IF op.kind = "write" THEN WriteGone(v, left, op.datagram) /\ op = Op("write", op.datagram)
                             ELSE WellDialled(v, left)
    BY <1>1, <2>6
  <2>8. ok /\ op.kind = "write" => op.datagram \in v.link.taken
    BY <1>6, <2>2
  <2> HIDE DEF op
  <2>9. WellDialled(OnResult(v, op, ok, listed), left)
    BY <2>3, <2>7, <2>8, AnsweredDialsWell
  <2> QED BY <2>1, <2>9
<1> QED BY <1>2, <1>4, <1>5, <1>6

\* onMtuChanged() for an exchange the peer started.
LEMMA PeerMtuDialsWell ==
  ASSUME CentralInv, PeerChangesMtu
  PROVE  CentralInv'
<1> DEFINE owed == stack.owed
<1>1. /\ WellDialled(Central, owed) /\ stack' = stack /\ DOMAIN stack = {"link", "owed"}
      /\ Turns(Complete(Central, "mtu", TRUE, FALSE)) /\ "mtu" \in Kinds /\ "write" \in Kinds
  BY DEF CentralInv, PeerChangesMtu, Kinds
<1>2. /\ OpsTyped(ops) /\ CallbacksInOrder(ops, owed) /\ Undialled(Central, owed)
      /\ ops.ghosts \in [Kinds -> Nat]
  BY <1>1, CentralFields DEF WellDialled, WellTyped, OpsTyped
<1> HIDE DEF owed
<1>3. [ops.ghosts EXCEPT !["mtu"] = @ - 1]["write"] = ops.ghosts["write"]
  BY <1>1, <1>2
<1>4. ASSUME NEW p, p.ghosts["write"] = ops.ghosts["write"], p.shut = ops.shut,
             p.inFlight = ops.inFlight \/ (ops.inFlight.kind = "mtu" /\ p.inFlight = NoOp)
      PROVE  CallbacksInOrder(p, owed)
  <2>1. CASE p.inFlight = ops.inFlight
    BY <1>2, <1>4, <2>1, SameCallbacks
  <2>2. CASE ops.inFlight.kind = "mtu" /\ p.inFlight = NoOp
    BY <1>2, <1>4, <2>2, NothingInFlight
  <2> QED BY <1>4, <2>1, <2>2
<1>5. CallbackClaimed(owed, "mtu")
  BY <1>2, <1>3, <1>4 DEF CallbackClaimed
<1>6. /\ DOMAIN Central.link = LinkFields
      /\ \A f \in LinkFields \ {"taken"} : Central.link[f] = dialled[f]
      /\ dialled.taken \subseteq Central.link.taken
  BY <1>1, SameLink, CentralFields
<1>7. WellDialled(Complete(Central, "mtu", TRUE, FALSE), owed)
  BY <1>1, <1>2, <1>5, <1>6, CentralFields, CompleteDialsWell
<1> QED BY <1>1, <1>7, TurnsWell DEF owed

\* A callback of the stack.
LEMMA CallbackDialsWell ==
  ASSUME CentralInv, StackCallsBack
  PROVE  CentralInv'
<1> DEFINE owed == stack.owed
           op == Head(stack.owed)
           left == Tail(stack.owed)
<1>1. PICK ok \in BOOLEAN, listed \in BOOLEAN :
        Turns(Complete([Central EXCEPT !.link.taken =
                          IF ok /\ op.kind = "write" THEN @ \cup {op.datagram} ELSE @],
                       op.kind, ok, listed))
  BY DEF StackCallsBack
<1>2. /\ WellDialled(Central, owed) /\ DOMAIN stack' = {"link", "owed"} /\ owed # <<>>
      /\ stack'.owed = left
  BY StackStays DEF CentralInv, StackCallsBack, CentralNext
<1> DEFINE c == [Central EXCEPT !.link.taken =
                   IF ok /\ op.kind = "write" THEN @ \cup {op.datagram} ELSE @]
<1> HIDE DEF owed
<1>3. /\ OpsTyped(ops) /\ CallbacksInOrder(ops, owed) /\ Undialled(Central, owed)
      /\ ops.ghosts \in [Kinds -> Nat] /\ owed \in Seq(RealOps) /\ DOMAIN dialled = LinkFields
  BY <1>2, CentralFields DEF WellDialled, WellTyped, OpsTyped, CallbacksInOrder, LinkWaits, Answering
<1>4. op \in RealOps /\ op = Head(owed) /\ left = Tail(owed)
  BY <1>2, <1>3, OwedTailed DEF owed
<1> HIDE DEF op, left
<1>5. op.kind \in Kinds /\ "write" \in Kinds
  BY <1>4, OpFacts DEF Kinds
<1>6. /\ DOMAIN c = {"conn", "ops", "link"} /\ c.conn = conn /\ c.ops = ops
      /\ DOMAIN c.link = LinkFields /\ \A f \in LinkFields \ {"taken"} : c.link[f] = dialled[f]
      /\ dialled.taken \subseteq c.link.taken
      /\ ok /\ op.kind = "write" => op.datagram \in c.link.taken
  BY <1>3, CentralFields DEF LinkFields
<1> HIDE DEF c
<1>7. Undialled(Central, left)
  BY <1>2, <1>3 DEF Undialled
<1>8. ASSUME NEW p, p.ghosts["write"] = ops.ghosts["write"], p.shut = ops.shut,
             p.inFlight = ops.inFlight
      PROVE  CallbacksInOrder(p, left)
  BY <1>2, <1>3, <1>4, <1>8, OneCallbackLess
<1>9. CallbacksInOrder(ops, left)
  BY <1>8
<1>10. ASSUME GhostOf(op.kind) > 0, NEW p, p.ghosts = [ops.ghosts EXCEPT ![op.kind] = @ - 1],
              p.shut = ops.shut, p.inFlight = ops.inFlight
       PROVE  CallbacksInOrder(p, left)
  <2>1. CASE op.kind = "write"
    <3>0. [ops.ghosts EXCEPT !["write"] = @ - 1]["write"] = ops.ghosts["write"] - 1
      BY <1>3, <1>5
    <3>2. p.ghosts = [ops.ghosts EXCEPT !["write"] = @ - 1]
      BY <1>10, <2>1
    <3>3. ops.ghosts["write"] > 0
      BY <1>10, <2>1 DEF GhostOf
    <3>1. p.ghosts["write"] = ops.ghosts["write"] - 1 /\ ops.ghosts["write"] > 0
      BY <3>0, <3>2, <3>3
    <3>4. Head(owed).kind = "write" /\ p.shut = ops.shut /\ p.inFlight = ops.inFlight
      BY <1>4, <1>10, <2>1
    <3>5. CallbacksInOrder(p, Tail(owed))
      BY <1>2, <1>3, <3>1, <3>4, OneGhostLess
    <3> QED BY <1>4, <3>5
  <2>2. CASE op.kind # "write"
    <3>1. p.ghosts["write"] = ops.ghosts["write"]
      BY <1>3, <1>5, <1>10, <2>2
    <3> QED BY <1>8, <1>10, <3>1
  <2> QED BY <2>1, <2>2
<1>11. ASSUME GhostOf(op.kind) = 0, ops.inFlight.kind = op.kind, NEW p, p.ghosts = ops.ghosts,
              p.shut = ops.shut, p.inFlight = NoOp
       PROVE  /\ CallbacksInOrder(p, left)
              /\ op.kind = "write" => ops.inFlight = op
  <2>1. CASE op.kind = "write"
    <3>1. ops.ghosts["write"] = 0 /\ p.ghosts["write"] = 0 /\ ops.inFlight # NoOp
      BY <1>11, <2>1, OpFacts DEF GhostOf
    <3> QED BY <1>2, <1>3, <1>4, <1>11, <2>1, <3>1, OwnCallback
  <2>2. CASE op.kind # "write"
    BY <1>3, <1>9, <1>11, <2>2, NothingInFlight
  <2> QED BY <2>1, <2>2
<1>12. CallbackClaimed(left, op.kind)
  BY <1>9, <1>10, <1>11 DEF CallbackClaimed
<1>13. ok /\ op.kind = "write" /\ GhostOf(op.kind) = 0 /\ ops.inFlight.kind = op.kind =>
         ops.inFlight.datagram \in c.link.taken
  <2>1. [ops EXCEPT !.inFlight = NoOp].ghosts = ops.ghosts
          /\ [ops EXCEPT !.inFlight = NoOp].shut = ops.shut
          /\ [ops EXCEPT !.inFlight = NoOp].inFlight = NoOp
    BY <1>3 DEF OpsTyped, OpsFields
  <2>2. GhostOf(op.kind) = 0 /\ ops.inFlight.kind = op.kind /\ op.kind = "write" => ops.inFlight = op
    BY <1>11, <2>1
  <2> QED BY <1>6, <2>2
<1>14. WellDialled(Complete(c, op.kind, ok, listed), left)
  BY <1>5, <1>6, <1>7, <1>12, <1>13, CompleteDialsWell
<1>15. Turns(Complete(c, op.kind, ok, listed))
  BY <1>1 DEF c
<1> QED BY <1>2, <1>14, <1>15, TurnsWell

\* writeLoop() and readLoop(), on threads of their own.
LEMMA ThreadsDialWell ==
  ASSUME CentralInv, WriterWrites \/ ReaderBreaks
  PROVE  CentralInv'
<1> DEFINE c == Central
           u == Central'
           owed == stack.owed
<1>1. /\ WellDialled(c, owed) /\ c.ops = ops /\ c.conn = conn /\ c.link = dialled
      /\ stack' = stack /\ DOMAIN stack = {"link", "owed"}
      /\ DOMAIN u = {"conn", "ops", "link"} /\ u.conn = conn /\ u.ops = ops /\ u.link = dialled'
  BY CentralFields DEF CentralInv, WriterWrites, ReaderBreaks, Central
<1> HIDE DEF c, u, owed
<1>2. PICK h : LinkWaits(dialled, h) /\ OpsWrite(ops, dialled.path, h)
  BY <1>1 DEF WellDialled
<1>3. Answering(dialled, h) /\ Posting(dialled, h)
  BY <1>2 DEF LinkWaits
<1>4. dialled.path = "l2cap"
  BY <1>2 DEF LinkWaits, WriterWrites, ReaderBreaks
<1>5. /\ Answering(dialled', h) /\ Posting(dialled', h)
      /\ dialled'.state = dialled.state /\ dialled'.path = dialled.path
      /\ h # Idle => dialled'.writer = h \/ \E i \in DOMAIN dialled'.posted : dialled'.posted[i][1] = h
  <2>1. CASE dialled' = Wrote(dialled) /\ dialled.writer # Idle
    <3>1. /\ Answering(dialled', h) /\ Posting(dialled', h)
          /\ \A f \in LinkFields \ {"writer", "taken", "posted"} : dialled'[f] = dialled[f]
          /\ \E i \in DOMAIN dialled'.posted : dialled'.posted[i][1] = h
      BY <1>3, <2>1, WroteAnswers
    <3> QED BY <3>1 DEF LinkFields
  <2>2. CASE dialled' = NotWritten(dialled) /\ dialled.writer # Idle
    <3>1. /\ Answering(dialled', h) /\ Posting(dialled', h)
          /\ \A f \in LinkFields \ {"writer", "posted"} : dialled'[f] = dialled[f]
          /\ \E i \in DOMAIN dialled'.posted : dialled'.posted[i][1] = h
      BY <1>3, <2>2, NotWrittenAnswers
    <3> QED BY <3>1 DEF LinkFields
  <2>3. CASE dialled' = Broke(dialled)
    <3>1. /\ Answering(dialled', h) /\ Posting(dialled', h)
          /\ \A f \in LinkFields \ {"posted"} : dialled'[f] = dialled[f]
          /\ \A i \in DOMAIN dialled.posted :
               i \in DOMAIN dialled'.posted /\ dialled'.posted[i] = dialled.posted[i]
      BY <1>3, <2>3, BrokeAnswers
    <3>2. h # Idle => dialled.writer = h \/ \E i \in DOMAIN dialled.posted : dialled.posted[i][1] = h
      BY <1>2, <1>4 DEF LinkWaits
    <3> QED BY <3>1, <3>2 DEF LinkFields
  <2> QED BY <2>1, <2>2, <2>3 DEF WriterWrites, ReaderBreaks
<1>6. LinkWaits(dialled', h) /\ OpsWrite(ops, dialled'.path, h)
  BY <1>2, <1>4, <1>5 DEF LinkWaits
<1>7. WellDialled(u, owed)
  BY <1>1, <1>6 DEF WellDialled, WellTyped, Undialled
<1> QED BY <1>1, <1>7 DEF CentralInv, u, owed

\* What those threads posted runs on the handler.
LEMMA PostedDialsWell ==
  ASSUME CentralInv, RunPosted
  PROVE  CentralInv'
<1> DEFINE c == Central
           owed == stack.owed
<1>1. /\ WellDialled(c, owed) /\ c.ops = ops /\ c.conn = conn /\ c.link = dialled
      /\ stack' = stack /\ DOMAIN stack = {"link", "owed"} /\ dialled.posted # <<>>
      /\ DOMAIN c = {"conn", "ops", "link"}
  BY CentralFields DEF CentralInv, RunPosted
<1> HIDE DEF owed
<1>2. PICK h : LinkWaits(dialled, h) /\ OpsWrite(ops, dialled.path, h)
  BY <1>1 DEF WellDialled
<1>3. /\ Answering(dialled, h) /\ Posting(dialled, h) /\ dialled.path = "l2cap"
      /\ DOMAIN dialled = LinkFields /\ dialled.posted \in Seq(Posts)
  BY <1>1, <1>2 DEF LinkWaits, Answering, Posting
<1>4. CASE Head(dialled.posted) = BreakNotice
  <2> DEFINE u == [c EXCEPT !.link.posted = Tail(@)]
             l == [dialled EXCEPT !.posted = Tail(@)]
  <2>1. Turns(Teardown(u))
    BY <1>4 DEF RunPosted
  <2>2. /\ DOMAIN l = LinkFields /\ l.posted = Tail(dialled.posted) /\ l.writer = dialled.writer
        /\ l.state = dialled.state /\ l.outbound = dialled.outbound /\ l.sending = dialled.sending
        /\ l.outcome = dialled.outcome /\ l.taken = dialled.taken /\ l.path = dialled.path
    BY <1>3 DEF LinkFields
  <2> HIDE DEF c
  <2>3. DOMAIN u = {"conn", "ops", "link"} /\ u.link = l /\ u.conn = conn /\ u.ops = ops
    BY <1>1
  <2> HIDE DEF u, l
  <2>4. Answering(l, h)
    BY <1>3, <2>2, SameAnswers
  <2>5. /\ Posting(l, h)
        /\ \A i \in DOMAIN dialled.posted : i # 1 => i - 1 \in DOMAIN l.posted /\ l.posted[i - 1] = dialled.posted[i]
    BY <1>1, <1>3, <2>2, PostedLess
  <2>6. dialled.posted[1][1] = Idle
    BY <1>3, <1>4 DEF BreakNotice
  <2>7. h # Idle => l.writer = h \/ \E i \in DOMAIN l.posted : l.posted[i][1] = h
    <3>1. h # Idle => dialled.writer = h \/ \E i \in DOMAIN dialled.posted : dialled.posted[i][1] = h
      BY <1>2, <1>3 DEF LinkWaits
    <3> QED BY <2>2, <2>5, <2>6, <3>1
  <2>8. LinkWaits(l, h) /\ OpsWrite(ops, l.path, h)
    BY <1>2, <1>3, <2>2, <2>4, <2>5, <2>7 DEF LinkWaits
  <2>9. WellDialled(u, owed)
    BY <1>1, <2>3, <2>8 DEF WellDialled, WellTyped, Undialled
  <2>10. WellDialled(Teardown(u), owed)
    BY <2>9, TeardownKeepsWell
  <2> QED BY <1>1, <2>1, <2>10, TurnsWell DEF owed
<1>5. CASE Head(dialled.posted) # BreakNotice
  <2> DEFINE u == [c EXCEPT !.link = RanPosted(@)]
             q == RanPosted(dialled)
  <2>1. Turns(PumpLink(u))
    BY <1>5 DEF RunPosted
  <2>2. /\ Answering(q, Idle) /\ Posting(q, Idle)
        /\ \A f \in LinkFields \ {"sending", "outcome", "posted"} : q[f] = dialled[f]
    BY <1>1, <1>3, <1>5, RanPostedAnswers
  <2>3. q.state = dialled.state /\ q.path = "l2cap"
    BY <1>3, <2>2 DEF LinkFields
  <2> HIDE DEF c
  <2>4. DOMAIN u = {"conn", "ops", "link"} /\ u.link = q /\ u.conn = conn /\ u.ops = ops
    BY <1>1
  <2> HIDE DEF u, q
  <2>5. LinkWaits(q, Idle) /\ OpsWrite(ops, q.path, Idle)
    BY <1>2, <1>3, <2>2, <2>3 DEF LinkWaits, OpsWrite
  <2>6. WellDialled(u, owed)
    BY <1>1, <2>4, <2>5 DEF WellDialled, WellTyped, Undialled
  <2>7. WellDialled(PumpLink(u), owed)
    BY <2>6, PumpLinkDialsWell
  <2> QED BY <1>1, <2>1, <2>7, TurnsWell DEF owed
<1> QED BY <1>4, <1>5

\* send()
LEMMA SendDialsWell ==
  ASSUME CentralInv, SendDatagram
  PROVE  CentralInv'
<1> DEFINE c == Central
           owed == stack.owed
<1>1. /\ WellDialled(c, owed) /\ c.ops = ops /\ c.conn = conn /\ c.link = dialled
      /\ stack' = stack /\ DOMAIN stack = {"link", "owed"} /\ DOMAIN c = {"conn", "ops", "link"}
  BY CentralFields DEF CentralInv, SendDatagram
<1> HIDE DEF owed
<1>2. PICK d \in Datagrams : /\ dialled.outcome[d] = "unsent"
                             /\ Turns(PumpLink([c EXCEPT !.link = Enqueued(@, d)]))
  BY DEF SendDatagram
<1> DEFINE u == [c EXCEPT !.link = Enqueued(@, d)]
           q == Enqueued(dialled, d)
<1>3. PICK h : LinkWaits(dialled, h) /\ OpsWrite(ops, dialled.path, h)
  BY <1>1 DEF WellDialled
<1>4. /\ Answering(q, h) /\ \A f \in LinkFields \ {"outcome", "outbound"} : q[f] = dialled[f]
  BY <1>2, <1>3, EnqueuedAnswers DEF LinkWaits
<1>5. /\ q.state = dialled.state /\ q.path = dialled.path /\ q.writer = dialled.writer
      /\ q.posted = dialled.posted /\ q.taken = dialled.taken
  BY <1>4 DEF LinkFields
<1> HIDE DEF c
<1>6. DOMAIN u = {"conn", "ops", "link"} /\ u.link = q /\ u.conn = conn /\ u.ops = ops
  BY <1>1
<1>7. Turns(PumpLink(u))
  BY <1>2
<1> HIDE DEF u, q
<1>8. Posting(q, h)
  BY <1>3, <1>5, SamePosting DEF LinkWaits
<1>9. LinkWaits(q, h) /\ OpsWrite(ops, q.path, h)
  BY <1>3, <1>4, <1>5, <1>8 DEF LinkWaits
<1>10. WellDialled(u, owed)
  BY <1>1, <1>6, <1>9 DEF WellDialled, WellTyped, Undialled
<1>11. WellDialled(PumpLink(u), owed)
  BY <1>10, PumpLinkDialsWell
<1> QED BY <1>1, <1>7, <1>11, TurnsWell DEF owed

\* Before the dial nothing is owed and nobody waits.
LEMMA CentralStarts == CentralInit => CentralInv
<1> SUFFICES ASSUME CentralInit  PROVE CentralInv
  OBVIOUS
<1>1. /\ DOMAIN NewLink = LinkFields /\ NewLink.state = "connecting" /\ NewLink.path = "none"
      /\ NewLink.writer = Idle /\ NewLink.posted = <<>>
  BY DEF NewLink, LinkFields
<1>2. LinkWaits(NewLink, Idle)
  BY <1>1, NewLinkAnswers DEF LinkWaits
<1>3. /\ DOMAIN NoOps = OpsFields /\ NoOps.pending = <<>> /\ NoOps.inFlight = NoOp
      /\ NoOps.ghosts = [k \in Kinds |-> 0] /\ NoOps.shut
  BY DEF NoOps, OpsFields
<1>4. OpsTyped(NoOps) /\ NoWrites(NoOps)
  <2>1. <<>> \in Seq(RealOps) /\ DOMAIN <<>> = {} /\ [k \in Kinds |-> 0] \in [Kinds -> Nat]
    OBVIOUS
  <2> QED BY <1>3, <2>1, OpFacts DEF OpsTyped, NoWrites
<1>5. OpsWrite(NoOps, "none", Idle)
  BY <1>4 DEF OpsWrite
<1>6. DOMAIN conn = ConnFields
  BY DEF CentralInit, NoConnection, ConnFields
<1>7. /\ ops = NoOps /\ dialled = NewLink /\ DOMAIN stack = {"link", "owed"} /\ stack.owed = <<>>
  BY DEF CentralInit
<1>8. CallbacksInOrder(ops, <<>>)
  <2>1. <<>> \in Seq(RealOps)
    OBVIOUS
  <2> QED BY <1>3, <1>7, <2>1 DEF CallbacksInOrder
<1>9. WellDialled(Central, <<>>)
  BY <1>1, <1>2, <1>3, <1>4, <1>5, <1>6, <1>7, <1>8, CentralFields DEF WellDialled, WellTyped, Undialled
<1> QED BY <1>7, <1>9 DEF CentralInv

\* Every step of the dialling side.
LEMMA CentralContinues == CentralInv /\ [CentralNext]_centralVars => CentralInv'
<1> SUFFICES ASSUME CentralInv, [CentralNext]_centralVars
             PROVE  CentralInv'
  OBVIOUS
<1>1. CASE UNCHANGED centralVars
  BY <1>1 DEF centralVars, CentralInv, Central
<1>2. CASE CentralNext
  BY <1>2, ConnEventsDialWell, DisconnectsDialWell, SilenceDialsWell, RetryDialsWell,
     TimeoutDialsWell, WedgedDialsWell, ConnectDialsWell, PumpDialsWell, PeerMtuDialsWell,
     CallbackDialsWell, ThreadsDialWell, PostedDialsWell, SendDialsWell
     DEF CentralNext
<1> QED BY <1>1, <1>2

\* The answers of the dialling side are true.
LEMMA WellDialledIsHonest == CentralInv => DialledSentIsTaken
<1> SUFFICES ASSUME CentralInv  PROVE DialledSentIsTaken
  OBVIOUS
<1>1. PICK h : Answering(dialled, h)
  BY CentralFields DEF CentralInv, WellDialled, LinkWaits
<1>2. \A d \in Datagrams : dialled.outcome[d] \in Answers
  BY <1>1 DEF Answering
<1> QED BY <1>1, <1>2 DEF Answering, DialledSentIsTaken, Answers

\* send() on a dialling link: "sent" means the radio took that very datagram, never another
\* one's late callback, and nobody is answered twice (GattOperationQueue.kt, BleLink.kt).
THEOREM DialledAnswersAreTrue == CentralSpec => []DialledSentIsTaken
BY WellDialledIsHonest, CentralStarts, CentralContinues, PTL DEF CentralSpec

\* Whoever waits is the datagram the path holds, or in the queue.
LEMMA WellDialledHolds == CentralInv => DialledSendsAreHeld
<1> SUFFICES ASSUME CentralInv, NEW d \in Datagrams, dialled.outcome[d] = "waiting"
             PROVE  \/ LinkHolds(dialled, d)
                    \/ ops.inFlight = Op("write", d)
                    \/ Contains(ops.pending, Op("write", d))
  BY DEF DialledSendsAreHeld
<1>1. /\ OpsTyped(ops)
      /\ \E h : LinkWaits(dialled, h) /\ OpsWrite(ops, dialled.path, h)
  BY CentralFields DEF CentralInv, WellDialled, WellTyped
<1>2. PICK h : LinkWaits(dialled, h) /\ OpsWrite(ops, dialled.path, h)
  BY <1>1
<1>3. /\ d = h \/ \E i \in DOMAIN dialled.outbound : dialled.outbound[i] = d
      /\ dialled.outbound \in Seq(Datagrams) /\ dialled.posted \in Seq(Posts)
  BY <1>2 DEF LinkWaits, Answering, Posting
<1>4. CASE \E i \in DOMAIN dialled.outbound : dialled.outbound[i] = d
  BY <1>3, <1>4 DEF LinkHolds, Contains
<1>5. CASE d = h
  <2>1. h # Idle /\ dialled.path \in {"gatt", "l2cap"}
    BY <1>2, <1>5, DatagramFacts DEF LinkWaits
  <2>2. CASE dialled.path = "l2cap"
    <3>1. dialled.writer = d \/ \E i \in DOMAIN dialled.posted : dialled.posted[i][1] = d
      BY <1>2, <1>5, <2>1, <2>2 DEF LinkWaits
    <3>2. DOMAIN dialled.posted = 1..Len(dialled.posted)
      BY <1>3
    <3> QED BY <3>1, <3>2 DEF LinkHolds
  <2>3. CASE dialled.path = "gatt"
    <3>1. OneWrite(ops, d)
      BY <1>2, <1>5, <2>1, <2>3 DEF OpsWrite
    <3>2. ops.pending \in Seq(RealOps)
      BY <1>1 DEF OpsTyped
    <3> QED BY <3>1, <3>2 DEF OneWrite, Contains
  <2> QED BY <2>1, <2>2, <2>3
<1> QED BY <1>3, <1>4, <1>5

\* Whoever waits for a send() on a dialling link has its datagram in the link's queue, in the
\* operation queue or with the L2CAP writer, whatever was torn down in between (BleLink.kt).
THEOREM DialledSendsHaveAHolder == CentralSpec => []DialledSendsAreHeld
BY WellDialledHolds, CentralStarts, CentralContinues, PTL DEF CentralSpec

-----------------------------------------------------------------------------
(* The two phones: whichever part a behaviour follows, the others stand still. *)

EncounterInv == CentralInv /\ PeripheralInv /\ ScanInv /\ PairingInv

\* The four parts, each kept by its own steps.
LEMMA EncounterStarts == EncounterInit => EncounterInv
BY CentralStarts, PeripheralStarts, RadioStarts, InitPairingInv DEF EncounterInit, EncounterInv

LEMMA EncounterContinues == EncounterInv /\ [EncounterNext]_stageVars => EncounterInv'
<1> SUFFICES ASSUME EncounterInv, [EncounterNext]_stageVars
             PROVE  EncounterInv'
  OBVIOUS
<1>1. /\ [CentralNext]_centralVars /\ [PeripheralNext]_peripheralVars /\ [RadioNext]_radioVars
      /\ [Next]_vars
  BY DEF EncounterNext, RadioStep, CentralStep, PeripheralStep, PairingStep, stageVars
<1> QED BY <1>1, CentralContinues, PeripheralContinues, NextScans, NextPairingInv DEF EncounterInv

\* The behaviours the encounter run checks keep the invariant of each part.
THEOREM EncounterInvariance == EncounterSpec => []EncounterInv
BY EncounterStarts, EncounterContinues, PTL DEF EncounterSpec

\* "Loss is signalled, never silent" (BleLink.kt), on both sides of a Bluetooth link: "sent"
\* is said only of a datagram the radio took, whatever callbacks come late or never.
THEOREM SendsAreAlwaysHonest == EncounterSpec => []SendsAreHonest
<1>1. EncounterInv => SendsAreHonest
  BY WellDialledIsHonest, WellServedIsHonest DEF EncounterInv, SendsAreHonest
<1> QED BY <1>1, EncounterInvariance, PTL

\* Nothing is dropped on the way out or in: whoever waits for a dialled send() is held by a
\* queue that will settle it, and what the central wrote before our link opened is delivered
\* or held (BleLink.kt, BleGattServer.kt).
THEOREM NothingHeldIsEverLost == EncounterSpec => []NothingHeldIsLost
<1>1. EncounterInv => NothingHeldIsLost
  BY WellDialledHolds, WellServedHolds DEF EncounterInv, NothingHeldIsLost
<1> QED BY <1>1, EncounterInvariance, PTL

\* No scan nobody asked for (BleScanner.kt), in the behaviours the encounter run checks.
THEOREM NoScanUnaskedEver == EncounterSpec => []ScansAreAsked
<1>1. EncounterInv => ScansAreAsked
  BY DEF EncounterInv, ScanInv, ScansAreAsked
<1> QED BY <1>1, EncounterInvariance, PTL

=============================================================================
