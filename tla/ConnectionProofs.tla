--------------------------- MODULE ConnectionProofs ---------------------------
(***************************************************************************)
(* How two phones come by one connection, keep it, and trust what travels  *)
(* on it.                                                                  *)
(*                                                                         *)
(* DialArbitration: ringing each other at once in any order, they end with *)
(* one session for one person, filed where the screens look for it.        *)
(*                                                                         *)
(* TransportUpgrade: whatever is lost, repeated, dropped or timed out      *)
(* while a session moves between transports, no end of a link is leaked,   *)
(* and a working link is left only for one that has answered the probe.    *)
(*                                                                         *)
(* SecureDatagrams, the replay window, for every width, bound and history  *)
(* of the link: no frame is opened twice, and none that is fresh and       *)
(* within the window is taken for a replay.  The reassembler, for every    *)
(* number of fragments to a frame: while the link repeats fewer datagrams  *)
(* than there are slots, a frame whose datagrams have all arrived is       *)
(* opened.  What is held is told from what arrived, what travels and what  *)
(* is still to be cut: ReassemblyInv.                                      *)
(***************************************************************************)
EXTENDS SecureDatagrams, TransportUpgrade, DialArbitration, SequenceTheorems, FiniteSetTheorems,
        TLAPS

-----------------------------------------------------------------------------
(* Dials and upgrades. *)

AnyLink == UpgradeLinks \union {NoLink}

NoteTypes == {"OFFER", "ACCEPT", "PROBE", "PROBE_ACK", "READY", "SWITCH", "FAILED"}

Notes == [type : NoteTypes, id : Nat, kind : Transports, to : Ends, link : AnyLink]

OfferStates == {"IDLE", "OFFERING", "CONNECTING", "PROBING", "AWAITING_READY", "COMMITTING"}
Offers  == [state : OfferStates, id : Nat, kind : Transports, link : AnyLink,
            untried : SUBSET Transports]
Replies == [state : {"IDLE", "AWAITING_LINK", "AWAITING_SWITCH"}, id : Nat, kind : Transports,
            link : AnyLink, candidates : SUBSET UpgradeLinks]

UpgradeTypeOK ==
  /\ offer \in Offers
  /\ reply \in Replies
  /\ carrier \in [Ends -> [link : AnyLink, up : BOOLEAN]]
  /\ linkEnds \subseteq Ends \X UpgradeLinks
  /\ incoming \subseteq UpgradeLinks
  /\ air \subseteq Notes
  /\ provenLinks \subseteq UpgradeLinks
  /\ attempts \in Nat

\* The initiator has a link from its probe on, and a proven one from the answer on.
OfferOK ==
  /\ offer.state \in {"IDLE", "OFFERING", "CONNECTING"} => offer.link = NoLink
  /\ offer.state \in {"AWAITING_READY", "COMMITTING"} => offer.link \in provenLinks

\* The responder collects candidates until one is proven, and holds only that one.
ReplyOK ==
  /\ reply.state # "AWAITING_SWITCH" => reply.link = NoLink
  /\ reply.state = "AWAITING_SWITCH" => reply.link \in provenLinks /\ reply.candidates = {}

\* An answer to a probe is under way only on a link that is proven and still open.
AirOK ==
  \A n \in air : n.type = "PROBE_ACK" =>
    /\ n.to = "initiator"
    /\ <<"initiator", n.link>> \in linkEnds
    /\ n.link \in provenLinks

UpgradeInv == UpgradeTypeOK /\ OfferOK /\ ReplyOK /\ AirOK /\ EndsAreOwned

-----------------------------------------------------------------------------
(* What the operators of the model return. *)

\* Links, transports and their ranks.
LEMMA LinkFacts ==
  /\ Transports \subseteq Nat /\ 0 \in Transports
  /\ NoLink \notin UpgradeLinks
  /\ FirstLink \in UpgradeLinks
  /\ \A l \in UpgradeLinks : l[1] \in Transports
  /\ Best \in Nat
<1>1. Best \in Nat
  BY UpgradeAssumption
<1> QED BY <1>1 DEF Transports, NoLink, UpgradeLinks, FirstLink

\* A link that a dial can produce is one that nobody holds.
LEMMA FreeLinkFacts ==
  ASSUME NEW kinds \in SUBSET Transports, NEW l \in FreeLinks(kinds)
  PROVE  l \in UpgradeLinks /\ Unheld(l)
  BY DEF FreeLinks, UpgradeLinks

\* The other end of the session.
LEMMA PeerFacts == \A p \in Ends : Peer(p) \in Ends
  BY DEF Peer, Ends

\* What a phone says on its session is no answer to a probe.
LEMMA ControlFacts ==
  ASSUME UpgradeTypeOK, NEW p \in Ends, NEW id \in Nat, NEW kind \in Transports,
         NEW type \in {"OFFER", "ACCEPT", "READY", "SWITCH", "FAILED"}
  PROVE  /\ Control(p, type, id, kind) \subseteq Notes
         /\ \A n \in Control(p, type, id, kind) : n.type # "PROBE_ACK"
<1>1. carrier[p].link \in AnyLink /\ Peer(p) \in Ends
  BY PeerFacts DEF UpgradeTypeOK
<1>2. type \in NoteTypes /\ type # "PROBE_ACK"
  BY DEF NoteTypes
<1> QED BY <1>1, <1>2 DEF Control, Note, Notes

\* Only what is under way on a link with both ends open arrives.
LEMMA CarriedFacts ==
  ASSUME NEW msgs, NEW ends
  PROVE  /\ Carried(msgs, ends) \subseteq msgs
         /\ \A n \in Carried(msgs, ends) : <<n.to, n.link>> \in ends
  BY DEF Carried

-----------------------------------------------------------------------------
(* The pieces that several actions share. *)

\* The air after a step that adds no answer to a probe and forgets what a closed
\* end would have heard.
LEMMA AirKept ==
  ASSUME AirOK, provenLinks \subseteq provenLinks',
         \A n \in air' : n.type = "PROBE_ACK" => n \in air /\ <<n.to, n.link>> \in linkEnds'
  PROVE  AirOK'
  BY DEF AirOK

\* Attempt(): a new offer has no link yet.
LEMMA AttemptBegins ==
  ASSUME UpgradeTypeOK, NEW kinds \in SUBSET Transports, NEW msgs \in SUBSET Notes, NEW ends,
         Attempt(kinds, msgs, ends)
  PROVE  /\ offer' \in Offers /\ offer'.link = NoLink /\ offer'.state = "OFFERING"
         /\ attempts' \in Nat
         /\ air' \subseteq Notes
         /\ \A n \in air' : n.type = "PROBE_ACK" => n \in msgs /\ <<n.to, n.link>> \in ends
<1>1. PICK k \in kinds :
        /\ attempts' = attempts + 1
        /\ offer' = [state |-> "OFFERING", id |-> attempts', kind |-> k, link |-> NoLink,
                     untried |-> {j \in kinds : j < k}]
        /\ air' = Carried(msgs \union Control("initiator", "OFFER", attempts', k), ends)
  BY DEF Attempt
<1>2. attempts' \in Nat /\ k \in Transports
  BY <1>1 DEF UpgradeTypeOK
<1>3. "initiator" \in Ends
  BY DEF Ends
<1>4. /\ Control("initiator", "OFFER", attempts', k) \subseteq Notes
      /\ \A n \in Control("initiator", "OFFER", attempts', k) : n.type # "PROBE_ACK"
  BY <1>2, <1>3, ControlFacts
<1>5. /\ air' \subseteq Notes
      /\ \A n \in air' : n.type = "PROBE_ACK" => n \in msgs /\ <<n.to, n.link>> \in ends
  BY <1>1, <1>4, CarriedFacts
<1>6. offer' \in Offers /\ offer'.link = NoLink /\ offer'.state = "OFFERING"
  BY <1>1, <1>2 DEF Offers, OfferStates, AnyLink
<1> QED BY <1>2, <1>5, <1>6

\* AttemptFails(): the attempt is over, or the next candidate's has begun.
LEMMA AttemptFailed ==
  ASSUME UpgradeTypeOK, AirOK, NEW ends, AttemptFails(ends), provenLinks' = provenLinks
  PROVE  /\ offer' \in Offers /\ offer'.link = NoLink /\ offer'.state \in {"IDLE", "OFFERING"}
         /\ attempts' \in Nat
         /\ air' \subseteq Notes /\ AirOK'
         /\ linkEnds' = ends \ {<<"initiator", offer.link>>}
<1> DEFINE left == ends \ {<<"initiator", offer.link>>}
           told == Unanswered \union Control("initiator", "FAILED", offer.id, offer.kind)
<1>1. linkEnds' = left
  BY DEF AttemptFails
<1>2. /\ "initiator" \in Ends
      /\ offer.id \in Nat /\ offer.kind \in Transports /\ offer.untried \in SUBSET Transports
  BY DEF UpgradeTypeOK, Offers, Ends
<1>3. /\ told \subseteq Notes
      /\ \A n \in told : n.type = "PROBE_ACK" => n \in air
  BY <1>2, ControlFacts DEF Unanswered, UpgradeTypeOK
<1>4. CASE Attempt(offer.untried, told, left)
  <2>1. /\ offer' \in Offers /\ offer'.link = NoLink /\ offer'.state = "OFFERING"
        /\ attempts' \in Nat
        /\ air' \subseteq Notes
        /\ \A n \in air' : n.type = "PROBE_ACK" => n \in told /\ <<n.to, n.link>> \in left
    <3> HIDE DEF told, left
    <3> QED BY <1>2, <1>3, <1>4, AttemptBegins
  <2>2. AirOK'
    <3> HIDE DEF told, left
    <3> QED BY <2>1, <1>1, <1>3, AirKept
  <2> QED BY <1>1, <2>1, <2>2
<1>5. CASE offer' = NoOffer /\ air' = Carried(told, left) /\ UNCHANGED attempts
  <2>1. /\ air' \subseteq Notes
        /\ \A n \in air' : n.type = "PROBE_ACK" => n \in air /\ <<n.to, n.link>> \in left
    <3> HIDE DEF told, left
    <3> QED BY <1>3, <1>5, CarriedFacts
  <2>2. AirOK'
    <3> HIDE DEF told, left
    <3> QED BY <2>1, <1>1, AirKept
  <2>3. offer' \in Offers /\ offer'.link = NoLink /\ offer'.state = "IDLE"
    BY <1>5, LinkFacts DEF NoOffer, Offers, OfferStates, AnyLink
  <2> QED BY <1>1, <1>5, <2>1, <2>2, <2>3 DEF UpgradeTypeOK
<1> QED BY <1>4, <1>5 DEF AttemptFails

\* Commit(): the initiator's session is on the proven link, and the old one closed.
LEMMA Committed ==
  ASSUME UpgradeTypeOK, AirOK, NEW ends, Commit(ends), provenLinks' = provenLinks
  PROVE  /\ offer' = NoOffer
         /\ carrier' = [carrier EXCEPT !["initiator"] = [link |-> offer.link, up |-> TRUE]]
         /\ carrier' \in [Ends -> [link : AnyLink, up : BOOLEAN]]
         /\ linkEnds' = ends \ {<<"initiator", carrier["initiator"].link>>}
         /\ air' \subseteq Notes /\ AirOK'
         /\ attempts' = attempts
<1>1. /\ offer' = NoOffer /\ attempts' = attempts
      /\ carrier' = [carrier EXCEPT !["initiator"] = [link |-> offer.link, up |-> TRUE]]
      /\ linkEnds' = ends \ {<<"initiator", carrier["initiator"].link>>}
      /\ air' = Carried(Unanswered, linkEnds')
  BY DEF Commit, Moved, EndsAfterMove
<1>2. /\ air' \subseteq Notes
      /\ \A n \in air' : n.type = "PROBE_ACK" => n \in air /\ <<n.to, n.link>> \in linkEnds'
  BY <1>1, CarriedFacts DEF Unanswered, UpgradeTypeOK
<1>3. AirOK'
  BY <1>2, AirKept
<1>4. carrier' \in [Ends -> [link : AnyLink, up : BOOLEAN]]
  BY <1>1 DEF UpgradeTypeOK, Offers
<1> QED BY <1>1, <1>2, <1>3, <1>4

\* CompleteResponderSwitch(): the responder's session is on the proven link, unless
\* that has closed.
LEMMA Switched ==
  ASSUME UpgradeTypeOK, NEW ends, CompleteResponderSwitch(ends)
  PROVE  /\ reply' = NoReply
         /\ carrier' \in [Ends -> [link : AnyLink, up : BOOLEAN]]
         /\ linkEnds' \subseteq ends
         /\ \/ /\ <<"responder", reply.link>> \in ends
               /\ linkEnds' = ends \ {<<"responder", carrier["responder"].link>>}
               /\ carrier' = [carrier EXCEPT !["responder"] = [link |-> reply.link, up |-> TRUE]]
            \/ /\ <<"responder", reply.link>> \notin ends
               /\ linkEnds' = ends /\ carrier' = carrier
<1>1. CASE <<"responder", reply.link>> \in ends
  <2>1. /\ reply' = NoReply
        /\ linkEnds' = ends \ {<<"responder", carrier["responder"].link>>}
        /\ carrier' = [carrier EXCEPT !["responder"] = [link |-> reply.link, up |-> TRUE]]
    BY <1>1 DEF CompleteResponderSwitch, Moved, EndsAfterMove
  <2>2. reply.link \in AnyLink
    BY DEF UpgradeTypeOK, Replies
  <2>3. carrier' \in [Ends -> [link : AnyLink, up : BOOLEAN]]
    BY <2>1, <2>2 DEF UpgradeTypeOK
  <2> QED BY <1>1, <2>1, <2>3
<1>2. CASE <<"responder", reply.link>> \notin ends
  BY <1>2 DEF CompleteResponderSwitch, UpgradeTypeOK
<1> QED BY <1>1, <1>2

-----------------------------------------------------------------------------
(* Every step. *)

\* The session starts on a link of its own, with no attempt under way.
LEMMA UpgradeInitHolds == UpgradeInit => UpgradeInv
<1> SUFFICES ASSUME UpgradeInit  PROVE UpgradeInv
  OBVIOUS
<1>1. offer \in Offers /\ reply \in Replies
  BY LinkFacts DEF UpgradeInit, NoOffer, NoReply, Offers, OfferStates, Replies, AnyLink
<1>2. carrier \in [Ends -> [link : AnyLink, up : BOOLEAN]] /\ linkEnds \subseteq Ends \X UpgradeLinks
  BY LinkFacts DEF UpgradeInit, AnyLink
<1>3. UpgradeTypeOK
  BY <1>1, <1>2 DEF UpgradeInit, UpgradeTypeOK
<1>4. OfferOK /\ ReplyOK /\ AirOK
  BY DEF UpgradeInit, NoOffer, NoReply, OfferOK, ReplyOK, AirOK
<1>5. EndsAreOwned
  BY DEF UpgradeInit, EndsAreOwned
<1> QED BY <1>3, <1>4, <1>5 DEF UpgradeInv

\* An attempt that is given up, with the carrier and the responder's side as they were.
LEMMA GivenUpKeeps ==
  ASSUME UpgradeInv, NEW ends \in SUBSET linkEnds, AttemptFails(ends),
         UNCHANGED <<reply, incoming, provenLinks>>,
         carrier' \in [Ends -> [link : AnyLink, up : BOOLEAN]],
         \A p \in Ends : carrier'[p].link = carrier[p].link
  PROVE  UpgradeInv'
<1>1. /\ offer' \in Offers /\ offer'.link = NoLink /\ offer'.state \in {"IDLE", "OFFERING"}
      /\ attempts' \in Nat
      /\ air' \subseteq Notes /\ AirOK'
      /\ linkEnds' = ends \ {<<"initiator", offer.link>>}
  BY AttemptFailed DEF UpgradeInv
<1>2. UpgradeTypeOK'
  BY <1>1 DEF UpgradeInv, UpgradeTypeOK
<1>3. OfferOK' /\ ReplyOK'
  BY <1>1 DEF UpgradeInv, OfferOK, ReplyOK
<1>4. EndsAreOwned'
  BY <1>1 DEF UpgradeInv, UpgradeTypeOK, EndsAreOwned
<1> QED BY <1>1, <1>2, <1>3, <1>4 DEF UpgradeInv

\* The initiator's session moves to the link of its attempt.
LEMMA CommitKeeps ==
  ASSUME UpgradeInv, NEW ends \in SUBSET linkEnds, Commit(ends),
         UNCHANGED <<reply, incoming, provenLinks>>
  PROVE  UpgradeInv'
<1>1. /\ offer' = NoOffer
      /\ carrier' = [carrier EXCEPT !["initiator"] = [link |-> offer.link, up |-> TRUE]]
      /\ carrier' \in [Ends -> [link : AnyLink, up : BOOLEAN]]
      /\ linkEnds' = ends \ {<<"initiator", carrier["initiator"].link>>}
      /\ air' \subseteq Notes /\ AirOK'
      /\ attempts' = attempts
  BY Committed DEF UpgradeInv
<1>2. NoOffer \in Offers /\ NoOffer.link = NoLink /\ NoOffer.state = "IDLE"
  BY LinkFacts DEF NoOffer, Offers, OfferStates, AnyLink
<1>3. UpgradeTypeOK'
  BY <1>1, <1>2 DEF UpgradeInv, UpgradeTypeOK
<1>4. OfferOK' /\ ReplyOK'
  BY <1>1, <1>2 DEF UpgradeInv, OfferOK, ReplyOK
<1>5. EndsAreOwned'
  BY <1>1 DEF UpgradeInv, UpgradeTypeOK, EndsAreOwned, Ends
<1> QED BY <1>1, <1>3, <1>4, <1>5 DEF UpgradeInv

\* The responder's session moves to the link it has proven.
LEMMA SwitchKeeps ==
  ASSUME UpgradeInv, NEW ends \in SUBSET linkEnds, CompleteResponderSwitch(ends),
         reply.state = "AWAITING_SWITCH", air' \subseteq Carried(air, linkEnds'),
         UNCHANGED <<offer, incoming, provenLinks, attempts>>
  PROVE  UpgradeInv'
<1>1. /\ reply' = NoReply
      /\ carrier' \in [Ends -> [link : AnyLink, up : BOOLEAN]]
      /\ linkEnds' \subseteq ends
      /\ \/ /\ <<"responder", reply.link>> \in ends
            /\ linkEnds' = ends \ {<<"responder", carrier["responder"].link>>}
            /\ carrier' = [carrier EXCEPT !["responder"] = [link |-> reply.link, up |-> TRUE]]
         \/ /\ <<"responder", reply.link>> \notin ends
            /\ linkEnds' = ends /\ carrier' = carrier
  BY Switched DEF UpgradeInv
<1>2. NoReply \in Replies /\ NoReply.link = NoLink /\ NoReply.state = "IDLE"
  BY LinkFacts DEF NoReply, Replies, AnyLink
<1>3. UpgradeTypeOK'
  BY <1>1, <1>2, CarriedFacts DEF UpgradeInv, UpgradeTypeOK
<1>4. OfferOK' /\ ReplyOK'
  BY <1>1, <1>2 DEF UpgradeInv, OfferOK, ReplyOK
<1>5. AirOK'
  BY AirKept, CarriedFacts DEF UpgradeInv
<1>6. EndsAreOwned'
  BY <1>1 DEF UpgradeInv, UpgradeTypeOK, ReplyOK, EndsAreOwned, Ends
<1> QED BY <1>3, <1>4, <1>5, <1>6 DEF UpgradeInv

\* The responder drops its attempt, and may begin another.
LEMMA DroppedKeeps ==
  ASSUME UpgradeInv, NEW ends \in SUBSET linkEnds, linkEnds' = Released(ends),
         reply' \in Replies, reply'.state # "AWAITING_SWITCH", reply'.link = NoLink,
         reply'.candidates = {},
         air' \subseteq Notes,
         \A n \in air' : n.type = "PROBE_ACK" => n \in air /\ <<n.to, n.link>> \in linkEnds',
         UNCHANGED <<offer, incoming, provenLinks, attempts>>,
         carrier' \in [Ends -> [link : AnyLink, up : BOOLEAN]],
         \A p \in Ends : carrier'[p].link = carrier[p].link
  PROVE  UpgradeInv'
<1>1. UpgradeTypeOK'
  BY DEF UpgradeInv, UpgradeTypeOK, Released
<1>2. OfferOK' /\ ReplyOK'
  BY DEF UpgradeInv, OfferOK, ReplyOK
<1>3. AirOK'
  BY AirKept DEF UpgradeInv
<1>4. EndsAreOwned'
  BY DEF UpgradeInv, UpgradeTypeOK, EndsAreOwned, Released
<1> QED BY <1>1, <1>2, <1>3, <1>4 DEF UpgradeInv

\* Only what is on the air changes, and no answer to a probe is added.
LEMMA AirOnlyKeeps ==
  ASSUME UpgradeInv, air' \subseteq Notes,
         \A n \in air' : n.type = "PROBE_ACK" => n \in air,
         UNCHANGED <<offer, reply, carrier, linkEnds, incoming, provenLinks, attempts>>
  PROVE  UpgradeInv'
<1>1. AirOK'
  BY DEF UpgradeInv, AirOK
<1>2. UpgradeTypeOK' /\ OfferOK' /\ ReplyOK' /\ EndsAreOwned'
  BY DEF UpgradeInv, UpgradeTypeOK, OfferOK, ReplyOK, EndsAreOwned
<1> QED BY <1>1, <1>2 DEF UpgradeInv

\* considerUpgrade(): an attempt begins and has no link yet.
LEMMA ConsiderUpgradeKeeps == ASSUME UpgradeInv, ConsiderUpgrade PROVE UpgradeInv'
<1>1. /\ offer' \in Offers /\ offer'.link = NoLink /\ offer'.state = "OFFERING"
      /\ attempts' \in Nat
      /\ air' \subseteq Notes
      /\ \A n \in air' : n.type = "PROBE_ACK" => n \in air /\ <<n.to, n.link>> \in linkEnds
  <2>1. UpgradeCandidates \in SUBSET Transports /\ air \in SUBSET Notes
    BY DEF UpgradeCandidates, UpgradeInv, UpgradeTypeOK
  <2> QED BY <2>1, AttemptBegins DEF ConsiderUpgrade, UpgradeInv
<1>2. UNCHANGED <<reply, carrier, linkEnds, incoming, provenLinks>>
      /\ offer.state = "IDLE"
  BY DEF ConsiderUpgrade
<1>3. UpgradeTypeOK'
  BY <1>1, <1>2 DEF UpgradeInv, UpgradeTypeOK
<1>4. OfferOK' /\ ReplyOK' /\ AirOK'
  BY <1>1, <1>2 DEF UpgradeInv, OfferOK, ReplyOK, AirOK
<1>5. EndsAreOwned'
  BY <1>1, <1>2, LinkFacts DEF UpgradeInv, UpgradeTypeOK, OfferOK, EndsAreOwned
<1> QED BY <1>3, <1>4, <1>5 DEF UpgradeInv

\* An attempt that runs out of time closes the link it was trying.
LEMMA InitiatorTimeoutKeeps == ASSUME UpgradeInv, InitiatorTimeout PROVE UpgradeInv'
<1>1. AttemptFails(linkEnds) /\ UNCHANGED <<reply, carrier, incoming, provenLinks>>
  BY DEF InitiatorTimeout
<1> QED BY <1>1, GivenUpKeeps DEF UpgradeInv, UpgradeTypeOK

\* dial() succeeds: the attempt holds one end, the listener is told of the other.
LEMMA LinkConnectsKeeps == ASSUME UpgradeInv, LinkConnects PROVE UpgradeInv'
<1>1. PICK l \in FreeLinks({offer.kind}) :
        /\ linkEnds' = linkEnds \union (Ends \X {l})
        /\ incoming' = incoming \union {l}
        /\ offer' = [offer EXCEPT !.state = "PROBING", !.link = l]
        /\ air' = air \union {Note("PROBE", offer.id, offer.kind, "responder", l)}
        /\ provenLinks' = provenLinks \ {l}
  BY DEF LinkConnects
<1>2. /\ offer.state = "CONNECTING"
      /\ UNCHANGED <<reply, carrier, attempts>>
  BY DEF LinkConnects
<1>3. l \in UpgradeLinks /\ Unheld(l)
  BY FreeLinkFacts DEF UpgradeInv, UpgradeTypeOK, Offers
<1>4. /\ offer' \in Offers /\ offer'.state = "PROBING" /\ offer'.link = l
      /\ offer.link = NoLink
  BY <1>1, <1>2, <1>3 DEF UpgradeInv, UpgradeTypeOK, OfferOK, Offers, OfferStates, AnyLink
<1>5. Note("PROBE", offer.id, offer.kind, "responder", l) \in Notes
  BY <1>3 DEF Note, Notes, NoteTypes, UpgradeInv, UpgradeTypeOK, Offers, Ends, AnyLink
<1>6. UpgradeTypeOK'
  <2>1. linkEnds' \subseteq Ends \X UpgradeLinks
    BY <1>1, <1>3 DEF UpgradeInv, UpgradeTypeOK
  <2> QED BY <1>1, <1>2, <1>3, <1>4, <1>5, <2>1 DEF UpgradeInv, UpgradeTypeOK
<1>7. OfferOK' /\ ReplyOK'
  BY <1>1, <1>2, <1>3, <1>4 DEF UpgradeInv, OfferOK, ReplyOK, Unheld
<1>8. AirOK'
  <2>1. ASSUME NEW n \in air, n.type = "PROBE_ACK"
        PROVE  n.to = "initiator" /\ <<"initiator", n.link>> \in linkEnds' /\ n.link \in provenLinks'
    BY <1>1, <1>3, <2>1 DEF UpgradeInv, AirOK, Unheld, Ends
  <2> QED BY <1>1, <2>1 DEF AirOK, Note
<1>9. EndsAreOwned'
  BY <1>1, <1>2, <1>4, LinkFacts DEF UpgradeInv, UpgradeTypeOK, EndsAreOwned, Ends
<1> QED BY <1>6, <1>7, <1>8, <1>9 DEF UpgradeInv

\* A dial that ends after its attempt: the responder is told of a link closed at once.
LEMMA LateLinkConnectsKeeps == ASSUME UpgradeInv, LateLinkConnects PROVE UpgradeInv'
<1>1. PICK l \in FreeLinks(Transports) :
        /\ linkEnds' = linkEnds \union {<<"responder", l>>}
        /\ incoming' = incoming \union {l}
        /\ provenLinks' = provenLinks \ {l}
  BY DEF LateLinkConnects
<1>2. UNCHANGED <<offer, reply, carrier, air, attempts>>
  BY DEF LateLinkConnects
<1>3. l \in UpgradeLinks /\ Unheld(l)
  BY FreeLinkFacts
<1>4. UpgradeTypeOK'
  BY <1>1, <1>2, <1>3 DEF UpgradeInv, UpgradeTypeOK, Ends
<1>5. OfferOK' /\ ReplyOK'
  BY <1>1, <1>2, <1>3 DEF UpgradeInv, OfferOK, ReplyOK, Unheld
<1>6. AirOK'
  BY <1>1, <1>2, <1>3 DEF UpgradeInv, AirOK, Unheld, Ends
<1>7. EndsAreOwned'
  BY <1>1, <1>2 DEF UpgradeInv, UpgradeTypeOK, EndsAreOwned
<1> QED BY <1>4, <1>5, <1>6, <1>7 DEF UpgradeInv

\* The grace window is over: the session moves to the proven link.
LEMMA GraceEndsKeeps == ASSUME UpgradeInv, GraceEnds PROVE UpgradeInv'
  BY CommitKeeps DEF GraceEnds

\* The responder's wait ends: its candidates are closed.
LEMMA ResponderTimeoutKeeps == ASSUME UpgradeInv, ResponderTimeout PROVE UpgradeInv'
<1>1. /\ linkEnds' = Released(linkEnds)
      /\ air' = Carried(air \union Control("responder", "FAILED", reply.id, reply.kind), linkEnds')
      /\ reply' = NoReply
      /\ UNCHANGED <<offer, carrier, incoming, provenLinks, attempts>>
  BY DEF ResponderTimeout
<1>2. /\ Control("responder", "FAILED", reply.id, reply.kind) \subseteq Notes
      /\ \A n \in Control("responder", "FAILED", reply.id, reply.kind) : n.type # "PROBE_ACK"
  BY ControlFacts DEF UpgradeInv, UpgradeTypeOK, Replies, Ends
<1>3. /\ air' \subseteq Notes
      /\ \A n \in air' : n.type = "PROBE_ACK" => n \in air /\ <<n.to, n.link>> \in linkEnds'
  BY <1>1, <1>2, CarriedFacts DEF UpgradeInv, UpgradeTypeOK
<1>4. /\ reply' \in Replies /\ reply'.state # "AWAITING_SWITCH" /\ reply'.link = NoLink
      /\ reply'.candidates = {}
  BY <1>1, LinkFacts DEF NoReply, Replies, AnyLink
<1> QED BY <1>1, <1>3, <1>4, DroppedKeeps DEF UpgradeInv, UpgradeTypeOK

\* A repetition adds messages and holds no link.
LEMMA RepeatKeeps == ASSUME UpgradeInv, Repeat PROVE UpgradeInv'
<1> DEFINE offered  == Control("initiator", "OFFER", offer.id, offer.kind)
           switched == Control("initiator", "SWITCH", offer.id, offer.kind)
           ready    == Control("responder", "READY", reply.id, reply.kind)
           probe    == Note("PROBE", offer.id, offer.kind, "responder", offer.link)
<1>1. /\ air' \subseteq air \union offered \union switched \union ready \union {probe}
      /\ UNCHANGED <<offer, reply, carrier, linkEnds, incoming, provenLinks, attempts>>
  BY CarriedFacts DEF Repeat
<1>2. /\ offered \union switched \subseteq Notes
      /\ \A n \in offered \union switched : n.type # "PROBE_ACK"
  BY ControlFacts DEF UpgradeInv, UpgradeTypeOK, Offers, Ends
<1>3. ready \subseteq Notes /\ \A n \in ready : n.type # "PROBE_ACK"
  BY ControlFacts DEF UpgradeInv, UpgradeTypeOK, Replies, Ends
<1>4. probe \in Notes /\ probe.type = "PROBE"
  BY DEF UpgradeInv, UpgradeTypeOK, Offers, Note, Notes, NoteTypes, Ends
<1>5. /\ air' \subseteq Notes
      /\ \A n \in air' : n.type = "PROBE_ACK" => n \in air
  <2> HIDE DEF offered, switched, ready, probe
  <2> QED BY <1>1, <1>2, <1>3, <1>4 DEF UpgradeInv, UpgradeTypeOK
<1> QED BY <1>1, <1>5, AirOnlyKeeps

-----------------------------------------------------------------------------
(* What arrives. *)

\* The initiator's attempt goes on, with the link it had.
LEMMA OfferAdvances ==
  ASSUME UpgradeInv, NEW s \in OfferStates, offer' = [offer EXCEPT !.state = s],
         s \in {"IDLE", "OFFERING", "CONNECTING"} => offer.link = NoLink,
         s \in {"AWAITING_READY", "COMMITTING"} => offer.link \in provenLinks,
         air' \subseteq Notes,
         \A n \in air' : n.type = "PROBE_ACK" => n \in air,
         UNCHANGED <<reply, carrier, linkEnds, incoming, provenLinks, attempts>>
  PROVE  UpgradeInv'
<1>1. offer' \in Offers /\ offer'.state = s /\ offer'.link = offer.link
  BY DEF UpgradeInv, UpgradeTypeOK, Offers
<1>2. UpgradeTypeOK'
  BY <1>1 DEF UpgradeInv, UpgradeTypeOK
<1>3. OfferOK' /\ ReplyOK' /\ AirOK'
  BY <1>1 DEF UpgradeInv, OfferOK, ReplyOK, AirOK
<1>4. EndsAreOwned'
  BY <1>1 DEF UpgradeInv, EndsAreOwned
<1> QED BY <1>2, <1>3, <1>4 DEF UpgradeInv

\* ACCEPT: the attempt goes on to connect a link.
LEMMA ReceiveAcceptKeeps ==
  ASSUME UpgradeInv, NEW n \in air, ReceiveAccept(n) PROVE UpgradeInv'
<1>1. /\ offer.state = "OFFERING" /\ offer' = [offer EXCEPT !.state = "CONNECTING"]
      /\ air' = air \ {n}
      /\ UNCHANGED <<reply, carrier, linkEnds, incoming, provenLinks, attempts>>
  BY DEF ReceiveAccept
<1>2. offer.link = NoLink
  BY <1>1 DEF UpgradeInv, OfferOK
<1> QED BY <1>1, <1>2, OfferAdvances DEF UpgradeInv, UpgradeTypeOK, OfferStates

\* PROBE_ACK: the link of the attempt is proven, as the responder knew when it answered.
LEMMA ReceiveProbeAckKeeps ==
  ASSUME UpgradeInv, NEW n \in air, ReceiveProbeAck(n) PROVE UpgradeInv'
<1>1. /\ n.type = "PROBE_ACK" /\ offer.link = n.link
      /\ offer' = [offer EXCEPT !.state = "AWAITING_READY"]
      /\ air' = air \ {n}
      /\ UNCHANGED <<reply, carrier, linkEnds, incoming, provenLinks, attempts>>
  BY DEF ReceiveProbeAck
<1>2. offer.link \in provenLinks
  BY <1>1 DEF UpgradeInv, AirOK
<1> QED BY <1>1, <1>2, OfferAdvances DEF UpgradeInv, UpgradeTypeOK, OfferStates

\* READY: the commit begins and SWITCH goes out.
LEMMA ReceiveReadyKeeps ==
  ASSUME UpgradeInv, NEW n \in air, ReceiveReady(n) PROVE UpgradeInv'
<1> DEFINE switched == Control("initiator", "SWITCH", offer.id, offer.kind)
<1>1. /\ offer.state = "AWAITING_READY" /\ offer' = [offer EXCEPT !.state = "COMMITTING"]
      /\ air' = (air \ {n}) \union switched
      /\ UNCHANGED <<reply, carrier, linkEnds, incoming, provenLinks, attempts>>
  BY DEF ReceiveReady
<1>2. switched \subseteq Notes /\ \A m \in switched : m.type # "PROBE_ACK"
  BY ControlFacts DEF UpgradeInv, UpgradeTypeOK, Offers, Ends
<1>3. offer.link \in provenLinks
  BY <1>1 DEF UpgradeInv, OfferOK
<1> HIDE DEF switched
<1> QED BY <1>1, <1>2, <1>3, OfferAdvances DEF UpgradeInv, UpgradeTypeOK, OfferStates

\* FAILED: the attempt ends like one that timed out.
LEMMA InitiatorHearsFailedKeeps ==
  ASSUME UpgradeInv, NEW n \in air, InitiatorHearsFailed(n) PROVE UpgradeInv'
  BY GivenUpKeeps DEF InitiatorHearsFailed, UpgradeInv, UpgradeTypeOK

\* A repeated OFFER is answered again.
LEMMA ReceiveOfferAgainKeeps ==
  ASSUME UpgradeInv, NEW n \in air, ReceiveOfferAgain(n) PROVE UpgradeInv'
<1>1. /\ air' \subseteq air \union Control("responder", "ACCEPT", n.id, n.kind)
      /\ UNCHANGED <<offer, reply, carrier, linkEnds, incoming, provenLinks, attempts>>
  BY DEF ReceiveOfferAgain
<1>2. /\ Control("responder", "ACCEPT", n.id, n.kind) \subseteq Notes
      /\ \A m \in Control("responder", "ACCEPT", n.id, n.kind) : m.type # "PROBE_ACK"
  BY ControlFacts DEF UpgradeInv, UpgradeTypeOK, Notes, Ends
<1> QED BY <1>1, <1>2, AirOnlyKeeps DEF UpgradeInv, UpgradeTypeOK

\* An OFFER that cannot be served is answered with FAILED.
LEMMA DeclineOfferKeeps ==
  ASSUME UpgradeInv, NEW n \in air, DeclineOffer(n) PROVE UpgradeInv'
<1>1. /\ air' \subseteq air \union Control("responder", "FAILED", n.id, n.kind)
      /\ UNCHANGED <<offer, reply, carrier, linkEnds, incoming, provenLinks, attempts>>
  BY DEF DeclineOffer
<1>2. /\ Control("responder", "FAILED", n.id, n.kind) \subseteq Notes
      /\ \A m \in Control("responder", "FAILED", n.id, n.kind) : m.type # "PROBE_ACK"
  BY ControlFacts DEF UpgradeInv, UpgradeTypeOK, Notes, Ends
<1> QED BY <1>1, <1>2, AirOnlyKeeps DEF UpgradeInv, UpgradeTypeOK

\* A new OFFER replaces the one being served, whose candidates are closed.
LEMMA AcceptOfferKeeps ==
  ASSUME UpgradeInv, NEW n \in air, AcceptOffer(n) PROVE UpgradeInv'
<1>1. /\ linkEnds' = Released(linkEnds)
      /\ reply' = [NoReply EXCEPT !.state = "AWAITING_LINK", !.id = n.id, !.kind = n.kind]
      /\ air' = Carried((air \ {n}) \union Control("responder", "ACCEPT", n.id, n.kind), linkEnds')
      /\ UNCHANGED <<offer, carrier, incoming, provenLinks, attempts>>
  BY DEF AcceptOffer
<1>2. n.id \in Nat /\ n.kind \in Transports /\ "responder" \in Ends
  BY DEF UpgradeInv, UpgradeTypeOK, Notes, Ends
<1>3. /\ Control("responder", "ACCEPT", n.id, n.kind) \subseteq Notes
      /\ \A m \in Control("responder", "ACCEPT", n.id, n.kind) : m.type # "PROBE_ACK"
  BY <1>2, ControlFacts DEF UpgradeInv
<1>4. /\ air' \subseteq Notes
      /\ \A m \in air' : m.type = "PROBE_ACK" => m \in air /\ <<m.to, m.link>> \in linkEnds'
  BY <1>1, <1>3, CarriedFacts DEF UpgradeInv, UpgradeTypeOK
<1>5. /\ reply' \in Replies /\ reply'.state # "AWAITING_SWITCH" /\ reply'.link = NoLink
      /\ reply'.candidates = {}
  BY <1>1, <1>2 DEF NoReply, Replies, AnyLink
<1> QED BY <1>1, <1>4, <1>5, DroppedKeeps DEF UpgradeInv, UpgradeTypeOK

\* FAILED: the responder closes the candidates it was holding.
LEMMA ResponderHearsFailedKeeps ==
  ASSUME UpgradeInv, NEW n \in air, ResponderHearsFailed(n) PROVE UpgradeInv'
<1>1. /\ linkEnds' = Released(linkEnds) /\ reply' = NoReply
      /\ air' = Carried(air \ {n}, linkEnds')
      /\ UNCHANGED <<offer, carrier, incoming, provenLinks, attempts>>
  BY DEF ResponderHearsFailed
<1>2. /\ air' \subseteq Notes
      /\ \A m \in air' : m.type = "PROBE_ACK" => m \in air /\ <<m.to, m.link>> \in linkEnds'
  BY <1>1, CarriedFacts DEF UpgradeInv, UpgradeTypeOK
<1>3. /\ reply' \in Replies /\ reply'.state # "AWAITING_SWITCH" /\ reply'.link = NoLink
      /\ reply'.candidates = {}
  BY <1>1, LinkFacts DEF NoReply, Replies, AnyLink
<1> QED BY <1>1, <1>2, <1>3, DroppedKeeps DEF UpgradeInv, UpgradeTypeOK

\* SWITCH: the responder moves its session, if the candidate is still open.
LEMMA ReceiveSwitchKeeps ==
  ASSUME UpgradeInv, NEW n \in air, ReceiveSwitch(n) PROVE UpgradeInv'
<1>1. air' \subseteq Carried(air, linkEnds')
  BY DEF ReceiveSwitch, Carried
<1> QED BY <1>1, SwitchKeeps DEF ReceiveSwitch

\* PROBE: its link becomes the candidate, the others are closed.
LEMMA ReceiveProbeKeeps ==
  ASSUME UpgradeInv, NEW n \in air, ReceiveProbe(n) PROVE UpgradeInv'
<1> DEFINE answer == Note("PROBE_ACK", n.id, n.kind, "initiator", n.link)
           ready  == Control("responder", "READY", n.id, n.kind)
<1>1. /\ reply.state = "AWAITING_LINK" /\ n.link \in reply.candidates
      /\ linkEnds' = linkEnds \ ({"responder"} \X (reply.candidates \ {n.link}))
      /\ reply' = [reply EXCEPT !.state = "AWAITING_SWITCH", !.link = n.link, !.candidates = {}]
      /\ provenLinks' = provenLinks \union {n.link}
      /\ air' = Carried((air \ {n}) \union {answer} \union ready, linkEnds')
      /\ UNCHANGED <<offer, carrier, incoming, attempts>>
  BY DEF ReceiveProbe
<1>2. n.id \in Nat /\ n.kind \in Transports /\ n.link \in UpgradeLinks /\ Ends = {"initiator", "responder"}
  BY <1>1 DEF UpgradeInv, UpgradeTypeOK, Notes, Replies, Ends
<1>3. ready \subseteq Notes /\ \A m \in ready : m.type # "PROBE_ACK"
  BY <1>2, ControlFacts DEF UpgradeInv
<1>4. /\ answer \in Notes /\ answer.to = "initiator" /\ answer.link = n.link
  BY <1>2 DEF Note, Notes, NoteTypes, AnyLink
<1>5. /\ reply' \in Replies /\ reply'.state = "AWAITING_SWITCH" /\ reply'.link = n.link
      /\ reply'.candidates = {}
  BY <1>1, <1>2 DEF UpgradeInv, UpgradeTypeOK, Replies, AnyLink
<1> HIDE DEF answer, ready
<1>6. air' \subseteq Notes
  BY <1>1, <1>3, <1>4, CarriedFacts DEF UpgradeInv, UpgradeTypeOK
<1>7. UpgradeTypeOK'
  BY <1>1, <1>2, <1>5, <1>6 DEF UpgradeInv, UpgradeTypeOK
<1>8. OfferOK' /\ ReplyOK'
  BY <1>1, <1>5 DEF UpgradeInv, OfferOK, ReplyOK
<1>9. AirOK'
  <2>1. ASSUME NEW m \in air', m.type = "PROBE_ACK"
        PROVE  m.to = "initiator" /\ <<"initiator", m.link>> \in linkEnds' /\ m.link \in provenLinks'
    <3>1. m \in (air \ {n}) \union {answer} \union ready /\ <<m.to, m.link>> \in linkEnds'
      BY <1>1, CarriedFacts
    <3> QED BY <3>1, <2>1, <1>1, <1>3, <1>4 DEF UpgradeInv, AirOK
  <2> QED BY <2>1 DEF AirOK
<1>10. EndsAreOwned'
  BY <1>1, <1>5, LinkFacts DEF UpgradeInv, UpgradeTypeOK, ReplyOK, EndsAreOwned
<1> QED BY <1>7, <1>8, <1>9, <1>10 DEF UpgradeInv

\* Every message, each under the handler that takes it.
LEMMA ReceiveKeeps == ASSUME UpgradeInv, NEW n \in air, Receive(n) PROVE UpgradeInv'
  BY ReceiveAcceptKeeps, ReceiveProbeAckKeeps, ReceiveReadyKeeps, InitiatorHearsFailedKeeps,
     ReceiveOfferAgainKeeps, DeclineOfferKeeps, AcceptOfferKeeps, ReceiveProbeKeeps,
     ReceiveSwitchKeeps, ResponderHearsFailedKeeps
  DEF Receive

\* Moving the session of one end to a link keeps the carriers well formed.
LEMMA CarrierMoved ==
  ASSUME UpgradeInv, NEW p \in Ends, NEW l \in UpgradeLinks
  PROVE  [carrier EXCEPT ![p] = [link |-> l, up |-> TRUE]] \in [Ends -> [link : AnyLink, up : BOOLEAN]]
<1>1. l \in AnyLink
  BY DEF AnyLink
<1> QED BY <1>1 DEF UpgradeInv, UpgradeTypeOK

\* An incoming link becomes a candidate, resumes a session, or is closed.
LEMMA HandleIncomingLinkKeeps ==
  ASSUME UpgradeInv, NEW l \in incoming, HandleIncomingLink(l) PROVE UpgradeInv'
<1>1. /\ incoming' = incoming \ {l} /\ l \in UpgradeLinks
      /\ UNCHANGED <<offer, provenLinks, attempts>>
  BY DEF HandleIncomingLink, UpgradeInv, UpgradeTypeOK
<1>2. CASE reply.state = "AWAITING_LINK" /\ reply.kind = l[1]
  <2>1. /\ reply' = [reply EXCEPT !.candidates = @ \union {l}]
        /\ UNCHANGED <<carrier, linkEnds, air>>
    BY <1>2 DEF HandleIncomingLink
  <2>2. /\ reply' \in Replies /\ reply'.candidates = reply.candidates \union {l}
        /\ reply'.link = reply.link /\ reply'.state = reply.state
    BY <2>1, <1>1 DEF UpgradeInv, UpgradeTypeOK, Replies
  <2>3. UpgradeTypeOK'
    BY <1>1, <2>1, <2>2 DEF UpgradeInv, UpgradeTypeOK
  <2>4. OfferOK' /\ ReplyOK' /\ AirOK'
    BY <1>1, <1>2, <2>1, <2>2 DEF UpgradeInv, OfferOK, ReplyOK, AirOK
  <2>5. EndsAreOwned'
    BY <1>1, <2>1, <2>2 DEF UpgradeInv, EndsAreOwned
  <2> QED BY <2>3, <2>4, <2>5 DEF UpgradeInv
<1>3. CASE ~(reply.state = "AWAITING_LINK" /\ reply.kind = l[1])
  <2>1. air' = Carried(air, linkEnds') /\ UNCHANGED reply
    BY <1>3 DEF HandleIncomingLink
  <2>2. \/ /\ linkEnds' = linkEnds \ {<<"responder", carrier["responder"].link>>}
           /\ carrier' = [carrier EXCEPT !["responder"] = [link |-> l, up |-> TRUE]]
        \/ /\ linkEnds' = linkEnds \ {<<"responder", l>>}
           /\ UNCHANGED carrier
    BY <1>3 DEF HandleIncomingLink, EndsAfterMove, Moved
  <2>3. carrier' \in [Ends -> [link : AnyLink, up : BOOLEAN]] /\ linkEnds' \subseteq linkEnds
    BY <1>1, <2>2, CarrierMoved DEF UpgradeInv, UpgradeTypeOK, Ends
  <2>4. UpgradeTypeOK'
    BY <1>1, <2>1, <2>3, CarriedFacts DEF UpgradeInv, UpgradeTypeOK
  <2>5. OfferOK' /\ ReplyOK'
    BY <1>1, <2>1 DEF UpgradeInv, OfferOK, ReplyOK
  <2>6. AirOK'
    BY <1>1, <2>1, CarriedFacts, AirKept DEF UpgradeInv
  <2>7. EndsAreOwned'
    BY <1>1, <2>1, <2>2 DEF UpgradeInv, UpgradeTypeOK, EndsAreOwned, Ends
  <2> QED BY <2>4, <2>5, <2>6, <2>7 DEF UpgradeInv
<1> QED BY <1>2, <1>3

-----------------------------------------------------------------------------
(* Losing a link. *)

\* Ends close and the air forgets; whatever else is kept, but for up.
LEMMA ClosedKeeps ==
  ASSUME UpgradeInv, linkEnds' \subseteq linkEnds, air' = Carried(air, linkEnds'),
         carrier' \in [Ends -> [link : AnyLink, up : BOOLEAN]],
         \A p \in Ends : carrier'[p].link = carrier[p].link,
         UNCHANGED <<offer, reply, incoming, provenLinks, attempts>>
  PROVE  UpgradeInv'
<1>1. UpgradeTypeOK'
  BY CarriedFacts DEF UpgradeInv, UpgradeTypeOK
<1>2. OfferOK' /\ ReplyOK'
  BY DEF UpgradeInv, OfferOK, ReplyOK
<1>3. AirOK'
  BY CarriedFacts, AirKept DEF UpgradeInv
<1>4. EndsAreOwned'
  BY DEF UpgradeInv, UpgradeTypeOK, EndsAreOwned
<1> QED BY <1>1, <1>2, <1>3, <1>4 DEF UpgradeInv

\* A link that goes down stays the carrier until another one is found.
LEMMA CarrierDown ==
  ASSUME UpgradeInv, NEW p \in Ends, carrier' = [carrier EXCEPT ![p].up = FALSE]
  PROVE  /\ carrier' \in [Ends -> [link : AnyLink, up : BOOLEAN]]
         /\ \A q \in Ends : carrier'[q].link = carrier[q].link
  BY DEF UpgradeInv, UpgradeTypeOK

\* The carrier is lost: a commit under way goes through, an attempt fails.
LEMMA SessionLostKeeps ==
  ASSUME UpgradeInv, NEW p \in Ends, NEW ends \in SUBSET linkEnds, SessionLost(p, ends)
  PROVE  UpgradeInv'
<1>0. "initiator" \in Ends /\ "responder" \in Ends /\ UNCHANGED <<incoming, provenLinks>>
  BY DEF SessionLost, Ends
<1>1. CASE InitiatorLosesSession(ends) /\ UNCHANGED reply
  <2>1. CASE Commit(ends)
    BY <1>0, <1>1, <2>1, CommitKeeps
  <2>2. CASE /\ carrier' = [carrier EXCEPT !["initiator"].up = FALSE]
             /\ linkEnds' = ends /\ air' = Carried(air, ends)
             /\ UNCHANGED <<offer, attempts>>
    BY <1>0, <1>1, <2>2, CarrierDown, ClosedKeeps
  <2>3. CASE carrier' = [carrier EXCEPT !["initiator"].up = FALSE] /\ AttemptFails(ends)
    BY <1>0, <1>1, <2>3, CarrierDown, GivenUpKeeps
  <2> QED BY <1>1, <2>1, <2>2, <2>3 DEF InitiatorLosesSession
<1>2. CASE ResponderLosesSession(ends) /\ UNCHANGED <<offer, repair, attempts, lateConnects>>
  <2>1. air' = Carried(air, linkEnds')
    BY <1>2 DEF ResponderLosesSession
  <2>2. CASE reply.link # NoLink /\ CompleteResponderSwitch(ends)
    <3>1. reply.state = "AWAITING_SWITCH"
      BY <2>2 DEF UpgradeInv, ReplyOK
    <3> QED BY <1>0, <1>2, <2>1, <2>2, <3>1, SwitchKeeps
  <2>3. CASE /\ carrier' = [carrier EXCEPT !["responder"].up = FALSE]
             /\ linkEnds' = Released(ends) /\ reply' = NoReply
    <3>1. /\ reply' \in Replies /\ reply'.state # "AWAITING_SWITCH" /\ reply'.link = NoLink
          /\ reply'.candidates = {}
      BY <2>3, LinkFacts DEF NoReply, Replies, AnyLink
    <3>2. /\ air' \subseteq Notes
          /\ \A n \in air' : n.type = "PROBE_ACK" => n \in air /\ <<n.to, n.link>> \in linkEnds'
      BY <2>1, CarriedFacts DEF UpgradeInv, UpgradeTypeOK
    <3>3. /\ carrier' \in [Ends -> [link : AnyLink, up : BOOLEAN]]
          /\ \A q \in Ends : carrier'[q].link = carrier[q].link
      BY <1>0, <2>3, CarrierDown
    <3> QED BY <1>0, <1>2, <2>3, <3>1, <3>2, <3>3, DroppedKeeps
  <2> QED BY <1>2, <2>2, <2>3 DEF ResponderLosesSession
<1> QED BY <1>1, <1>2 DEF SessionLost

\* A link that carries no session is lost: a probe on it fails, a candidate is spent.
LEMMA SpareLinkLostKeeps ==
  ASSUME UpgradeInv, NEW p \in Ends, NEW l \in UpgradeLinks, SpareLinkLost(p, l)
  PROVE  UpgradeInv'
<1>1. UNCHANGED <<carrier, provenLinks>> /\ carrier[p].link # l
      /\ (p = "responder" => incoming' = incoming \ {l})
      /\ (p # "responder" => UNCHANGED incoming)
  BY DEF SpareLinkLost
<1>2. CASE p = "initiator" /\ AttemptFails(linkEnds) /\ UNCHANGED reply
  BY <1>1, <1>2, GivenUpKeeps DEF UpgradeInv, UpgradeTypeOK
<1>3. CASE /\ linkEnds' = linkEnds \ {<<p, l>>} /\ air' = Carried(air, linkEnds')
           /\ reply' = IF p = "responder" THEN [reply EXCEPT !.candidates = @ \ {l}] ELSE reply
           /\ UNCHANGED <<offer, attempts>>
  <2>1. /\ reply' \in Replies /\ reply'.state = reply.state /\ reply'.link = reply.link
        /\ reply'.candidates = IF p = "responder" THEN reply.candidates \ {l} ELSE reply.candidates
    BY <1>3 DEF UpgradeInv, UpgradeTypeOK, Replies
  <2>2. UpgradeTypeOK'
    BY <1>1, <1>3, <2>1, CarriedFacts DEF UpgradeInv, UpgradeTypeOK
  <2>3. OfferOK' /\ ReplyOK'
    BY <1>1, <1>3, <2>1 DEF UpgradeInv, OfferOK, ReplyOK
  <2>4. AirOK'
    BY <1>1, <1>3, CarriedFacts, AirKept DEF UpgradeInv
  <2>5. EndsAreOwned'
    BY <1>1, <1>3, <2>1 DEF UpgradeInv, UpgradeTypeOK, EndsAreOwned, Ends
  <2> QED BY <2>2, <2>3, <2>4, <2>5 DEF UpgradeInv
<1> QED BY <1>2, <1>3 DEF SpareLinkLost

\* An end learns that the other has closed.
LEMMA EndClosesKeeps ==
  ASSUME UpgradeInv, NEW p \in Ends, NEW l \in UpgradeLinks, EndCloses(p, l)
  PROVE  UpgradeInv'
<1>1. CASE SessionLost(p, linkEnds \ {<<p, l>>})
  BY <1>1, SessionLostKeeps
<1>2. CASE /\ linkEnds' = linkEnds \ {<<p, l>>} /\ air' = Carried(air, linkEnds')
           /\ UNCHANGED <<offer, reply, carrier, incoming, provenLinks, attempts>>
  BY <1>2, ClosedKeeps DEF UpgradeInv, UpgradeTypeOK
<1>3. CASE SpareLinkLost(p, l)
  BY <1>3, SpareLinkLostKeeps
<1> QED BY <1>1, <1>2, <1>3 DEF EndCloses

\* A reconnection moves the initiator to a fresh link and closes the old one.
LEMMA ReconnectDialsKeeps == ASSUME UpgradeInv, ReconnectDials PROVE UpgradeInv'
<1>1. PICK l \in FreeLinks(Transports) :
        /\ incoming' = incoming \union {l}
        /\ provenLinks' = provenLinks \ {l}
        /\ \/ /\ linkEnds' = linkEnds \union {<<"responder", l>>}
              /\ UNCHANGED <<carrier, air>>
           \/ /\ linkEnds' = (linkEnds \ {<<"initiator", carrier["initiator"].link>>})
                                 \union (Ends \X {l})
              /\ carrier' = [carrier EXCEPT !["initiator"] = [link |-> l, up |-> TRUE]]
              /\ air' = Carried(air, linkEnds')
  BY DEF ReconnectDials, EndsAfterMove, Moved
<1>2. UNCHANGED <<offer, reply, attempts>>
  BY DEF ReconnectDials
<1>3. l \in UpgradeLinks /\ Unheld(l)
  BY FreeLinkFacts
<1>4. air' \subseteq air /\ \A n \in air' : <<n.to, n.link>> \in linkEnds => <<n.to, n.link>> \in linkEnds'
  BY <1>1, CarriedFacts
<1>5. UpgradeTypeOK'
  <2>1. carrier' \in [Ends -> [link : AnyLink, up : BOOLEAN]]
    BY <1>1, <1>3, CarrierMoved DEF UpgradeInv, UpgradeTypeOK, Ends
  <2>2. linkEnds' \subseteq Ends \X UpgradeLinks
    BY <1>1, <1>3 DEF UpgradeInv, UpgradeTypeOK, Ends
  <2> QED BY <1>1, <1>2, <1>3, <1>4, <2>1, <2>2 DEF UpgradeInv, UpgradeTypeOK
<1>6. OfferOK' /\ ReplyOK'
  BY <1>1, <1>2, <1>3 DEF UpgradeInv, OfferOK, ReplyOK, Unheld
<1>7. AirOK'
  <2>1. ASSUME NEW n \in air', n.type = "PROBE_ACK"
        PROVE  n.to = "initiator" /\ <<"initiator", n.link>> \in linkEnds' /\ n.link \in provenLinks'
    BY <1>1, <1>3, <1>4, <2>1 DEF UpgradeInv, AirOK, Unheld, Ends
  <2> QED BY <2>1 DEF AirOK
<1>8. EndsAreOwned'
  BY <1>1, <1>2 DEF UpgradeInv, UpgradeTypeOK, EndsAreOwned, Ends
<1> QED BY <1>5, <1>6, <1>7, <1>8 DEF UpgradeInv

\* The reconnect ladder has its own variables.
LEMMA NothingElseKeeps ==
  ASSUME UpgradeInv,
         UNCHANGED <<offer, reply, carrier, linkEnds, incoming, air, provenLinks, attempts>>
  PROVE  UpgradeInv'
  BY DEF UpgradeInv, UpgradeTypeOK, OfferOK, ReplyOK, AirOK, EndsAreOwned

-----------------------------------------------------------------------------
\* Every step of the upgrade keeps the invariant.
LEMMA UpgradeStepHolds == UpgradeInv /\ [UpgradeNext]_upgradeVars => UpgradeInv'
<1> SUFFICES ASSUME UpgradeInv, [UpgradeNext]_upgradeVars  PROVE UpgradeInv'
  OBVIOUS
<1>1. CASE ConsiderUpgrade \/ InitiatorTimeout \/ LinkConnects \/ LateLinkConnects
  BY <1>1, ConsiderUpgradeKeeps, InitiatorTimeoutKeeps, LinkConnectsKeeps, LateLinkConnectsKeeps
<1>2. CASE GraceEnds \/ ResponderTimeout \/ Repeat \/ ReconnectDials
  BY <1>2, GraceEndsKeeps, ResponderTimeoutKeeps, RepeatKeeps, ReconnectDialsKeeps
<1>3. CASE \E n \in air : Receive(n)
  BY <1>3, ReceiveKeeps
<1>4. CASE \E l \in incoming : HandleIncomingLink(l)
  BY <1>4, HandleIncomingLinkKeeps
<1>5. ASSUME NEW p \in Ends, LinkDown(p) \/ RadioDrops(p)  PROVE UpgradeInv'
  BY <1>5, EndClosesKeeps DEF LinkDown, RadioDrops
<1>6. ASSUME NEW p \in Ends, LivenessExpires(p)  PROVE UpgradeInv'
  BY <1>6, SessionLostKeeps DEF LivenessExpires
<1>7. CASE TransportsChanged \/ DowngradeTimer \/ ReconnectFails \/ UNCHANGED upgradeVars
  BY <1>7, NothingElseKeeps DEF TransportsChanged, DowngradeTimer, ReconnectFails, upgradeVars
<1> QED BY <1>1, <1>2, <1>3, <1>4, <1>5, <1>6, <1>7 DEF UpgradeNext

\* The invariant of the upgrade, in every reachable state.
LEMMA UpgradeInvHolds == UpgradeSpec => []UpgradeInv
<1>1. UpgradeInit => UpgradeInv
  BY UpgradeInitHolds
<1>2. UpgradeInv /\ [UpgradeNext]_upgradeVars => UpgradeInv'
  BY UpgradeStepHolds
<1> QED BY <1>1, <1>2, PTL DEF UpgradeSpec

\* EndsAreOwned, of upgrade.ts: through every timeout, late connect, superseded offer
\* and lost link, and whatever the number of transports and attempts, each open end of
\* a link is held by the session, by the attempt under way, or about to be handed over.
THEOREM NoEndIsLeaked == UpgradeSpec => []EndsAreOwned
<1>1. UpgradeInv => EndsAreOwned
  BY DEF UpgradeInv
<1> QED BY <1>1, UpgradeInvHolds, PTL

-----------------------------------------------------------------------------
(* Why a session changes links. *)

\* What LeavesForProven asks of a step.
LeftForProven ==
  \A p \in Ends :
    carrier[p].up /\ carrier'[p].link # carrier[p].link /\ <<p, carrier[p].link>> \in linkEnds
      => carrier'[p].link \in provenLinks

\* The initiator commits only from COMMITTING, to the link that answered.
LEMMA CommitLeavesForProven ==
  ASSUME UpgradeInv, NEW ends, Commit(ends), offer.state = "COMMITTING" PROVE LeftForProven
<1>1. offer.link \in provenLinks
  BY DEF UpgradeInv, OfferOK
<1>2. carrier' = [carrier EXCEPT !["initiator"] = [link |-> offer.link, up |-> TRUE]]
  BY DEF Commit, Moved
<1> QED BY <1>1, <1>2 DEF UpgradeInv, UpgradeTypeOK, LeftForProven

\* The responder switches only to the link it answered the probe on.
LEMMA SwitchLeavesForProven ==
  ASSUME UpgradeInv, NEW ends, CompleteResponderSwitch(ends), reply.state = "AWAITING_SWITCH"
  PROVE  LeftForProven
<1>1. reply.link \in provenLinks
  BY DEF UpgradeInv, ReplyOK
<1>2. \/ carrier' = [carrier EXCEPT !["responder"] = [link |-> reply.link, up |-> TRUE]]
      \/ carrier' = carrier
  BY Switched DEF UpgradeInv
<1> QED BY <1>1, <1>2 DEF UpgradeInv, UpgradeTypeOK, LeftForProven

\* Losing the carrier moves the session, if at all, to the proven link.
LEMMA LostLeavesForProven ==
  ASSUME UpgradeInv, NEW p \in Ends, NEW ends, SessionLost(p, ends) PROVE LeftForProven
<1>1. CASE InitiatorLosesSession(ends)
  <2>1. CASE Commit(ends) /\ offer.state = "COMMITTING"
    BY <2>1, CommitLeavesForProven
  <2>2. CASE carrier' = [carrier EXCEPT !["initiator"].up = FALSE]
    BY <2>2, CarrierDown DEF LeftForProven, Ends
  <2> QED BY <1>1, <2>1, <2>2 DEF InitiatorLosesSession
<1>2. CASE ResponderLosesSession(ends)
  <2>1. CASE reply.link # NoLink /\ CompleteResponderSwitch(ends)
    BY <2>1, SwitchLeavesForProven DEF UpgradeInv, ReplyOK
  <2>2. CASE carrier' = [carrier EXCEPT !["responder"].up = FALSE]
    BY <2>2, CarrierDown DEF LeftForProven, Ends
  <2> QED BY <1>2, <2>1, <2>2 DEF ResponderLosesSession
<1> QED BY <1>1, <1>2 DEF SessionLost

\* No step moves a session off a working link to an unproven one.
LEMMA StepLeavesForProven == UpgradeInv /\ UpgradeNext => LeftForProven
<1> SUFFICES ASSUME UpgradeInv, UpgradeNext  PROVE LeftForProven
  OBVIOUS
<1>1. CASE UNCHANGED carrier
  BY <1>1 DEF LeftForProven
<1>2. CASE GraceEnds
  BY <1>2, CommitLeavesForProven DEF GraceEnds
<1>3. ASSUME NEW n \in air, Receive(n)  PROVE LeftForProven
  <2>1. CASE ReceiveSwitch(n)
    BY <2>1, SwitchLeavesForProven DEF ReceiveSwitch
  <2>2. CASE ~ReceiveSwitch(n)
    <3>1. UNCHANGED carrier
      BY <1>3, <2>2 DEF Receive, ReceiveAccept, ReceiveProbeAck, ReceiveReady,
           InitiatorHearsFailed, ReceiveOfferAgain, DeclineOffer, AcceptOffer, ReceiveProbe,
           ResponderHearsFailed
    <3> QED BY <3>1 DEF LeftForProven
  <2> QED BY <2>1, <2>2
<1>4. ASSUME NEW l \in incoming, HandleIncomingLink(l)  PROVE LeftForProven
  <2>1. \/ UNCHANGED carrier
        \/ /\ ~carrier["responder"].up
           /\ carrier' = [carrier EXCEPT !["responder"] = [link |-> l, up |-> TRUE]]
    BY <1>4 DEF HandleIncomingLink, WantsLink, Moved
  <2> QED BY <2>1 DEF UpgradeInv, UpgradeTypeOK, LeftForProven
<1>5. ASSUME NEW p \in Ends, NEW l \in UpgradeLinks, EndCloses(p, l)  PROVE LeftForProven
  <2>1. CASE SessionLost(p, linkEnds \ {<<p, l>>})
    BY <2>1, LostLeavesForProven
  <2>2. CASE UNCHANGED carrier
    BY <2>2 DEF LeftForProven
  <2> QED BY <1>5, <2>1, <2>2 DEF EndCloses, SpareLinkLost
<1>6. ASSUME NEW p \in Ends, LivenessExpires(p)  PROVE LeftForProven
  BY <1>6, LostLeavesForProven DEF LivenessExpires
<1>7. CASE ReconnectDials
  <2>1. PICK l \in FreeLinks(Transports) :
          \/ UNCHANGED carrier
          \/ /\ ~(/\ carrier["initiator"].up
                  /\ <<"initiator", carrier["initiator"].link>> \in linkEnds)
             /\ carrier' = [carrier EXCEPT !["initiator"] = [link |-> l, up |-> TRUE]]
    BY <1>7 DEF ReconnectDials, Moved
  <2> QED BY <2>1 DEF UpgradeInv, UpgradeTypeOK, LeftForProven
<1>8. CASE ConsiderUpgrade \/ InitiatorTimeout \/ LinkConnects \/ LateLinkConnects
             \/ ResponderTimeout \/ Repeat \/ TransportsChanged \/ DowngradeTimer \/ ReconnectFails
  <2>1. UNCHANGED carrier
    BY <1>8 DEF ConsiderUpgrade, InitiatorTimeout, LinkConnects, LateLinkConnects,
         ResponderTimeout, Repeat, TransportsChanged, DowngradeTimer, ReconnectFails
  <2> QED BY <2>1, <1>1
<1> QED BY <1>2, <1>3, <1>4, <1>5, <1>6, <1>7, <1>8 DEF UpgradeNext, LinkDown, RadioDrops

\* LeavesForProven, of attemptUpgrade() and handleSessionState(): a session whose link
\* still works moves only to a link on which the peer has answered the probe.
THEOREM WorkingLinksAreKept == UpgradeSpec => LeavesForProven
<1>1. UpgradeInv /\ [UpgradeNext]_upgradeVars => [LeftForProven]_upgradeVars
  BY StepLeavesForProven
<1> QED BY <1>1, UpgradeInvHolds, PTL DEF UpgradeSpec, LeavesForProven, LeftForProven

-----------------------------------------------------------------------------
(* Two phones that ring each other. *)

Stages == {"none", "dialling", "handshaking", "secure", "closed"}

DialTypeOK ==
  /\ recognised \subseteq Callers
  /\ stage \in [Callers -> [Sessions -> Stages]]
  /\ key \in [Callers -> [Sessions -> Keys]]
  /\ known \in [Callers -> SUBSET Sessions]
  /\ peers \in [Callers -> [Keys -> Sessions \union {None}]]
  /\ goodbyes \subseteq Callers \X Sessions

FirstKey(p, s) == IF s = p THEN RowKey(p) ELSE "inbound"

\* A handle keeps the name it was filed under until its session is authenticated, and has an
\* identity from then on.
Unheard(p, s) == stage[p][s] \in {"none", "dialling", "handshaking"}

NamesAreFirst(p) ==
  \A s \in Sessions :
    /\ Unheard(p, s) => key[p][s] = FirstKey(p, s) /\ s \notin known[p]
    /\ stage[p][s] = "secure" => s \in known[p]

\* A session is answered when its dial succeeded.
AnswersFollow(p) == stage[p][p] \in {"none", "dialling"} => stage[OtherCaller(p)][p] = "none"

\* Where a session is that has been authenticated alone, for adoptIdentity() to find it.
AloneIsFound(p) ==
  \A s \in Sessions :
    (stage[p][s] = "secure" \/ (s = p /\ p \in recognised /\ stage[p][s] = "handshaking"))
      /\ OtherCaller(s) \notin known[p]
      => peers[p]["peerId"] = s

\* Among strangers, always.
StrangerIsFound(p) ==
  p \notin recognised => \A s \in Sessions : stage[p][s] = "secure" => peers[p]["peerId"] = s

OneIsSecure(p) == \A s, t \in Sessions : stage[p][s] = "secure" /\ stage[p][t] = "secure" => s = t

DialInv ==
  /\ DialTypeOK
  /\ \A p \in Callers : /\ NamesAreFirst(p) /\ AnswersFollow(p) /\ AloneIsFound(p)
                        /\ StrangerIsFound(p) /\ OneIsSecure(p)

\* The two of them.
LEMMA TwoCallers ==
  /\ Callers = {1, 2} /\ Sessions = {1, 2} /\ 0 \notin Sessions
  /\ \A p \in Callers : OtherCaller(p) \in Callers /\ OtherCaller(p) # p
  /\ \A p, q \in Callers : p # q => q = OtherCaller(p)
  BY DEF Callers, Sessions, Low, High, OtherCaller

\* What is filed under another name stays, and a handle is only taken from its own place.
LEMMA WithoutIt ==
  ASSUME NEW map \in [Keys -> Sessions \union {None}], NEW k \in Keys, NEW s \in Sessions
  PROVE  /\ Without(map, k, s) \in [Keys -> Sessions \union {None}]
         /\ \A l \in Keys : map[l] # s \/ l # k => Without(map, k, s)[l] = map[l]
  BY DEF Without, None

\* The map after adoptIdentity().
LEMMA RekeyedIt ==
  ASSUME NEW map \in [Keys -> Sessions \union {None}], NEW k \in Keys, NEW s \in Sessions
  PROVE  /\ Rekeyed(map, k, s) \in [Keys -> Sessions \union {None}]
         /\ Rekeyed(map, k, s)["peerId"] = IF k = "peerId" THEN map["peerId"] ELSE s
  BY DEF Rekeyed, Keys

\* A phone on which nothing changed.
LEMMA PhoneKeeps ==
  ASSUME NEW p \in Callers,
         NamesAreFirst(p), AloneIsFound(p), StrangerIsFound(p), OneIsSecure(p),
         recognised' = recognised, stage'[p] = stage[p], key'[p] = key[p], known'[p] = known[p],
         peers'[p]["peerId"] = peers[p]["peerId"]
  PROVE  NamesAreFirst(p)' /\ AloneIsFound(p)' /\ StrangerIsFound(p)' /\ OneIsSecure(p)'
  BY DEF NamesAreFirst, AloneIsFound, StrangerIsFound, OneIsSecure, Unheard, FirstKey, RowKey

\* Nobody has rung yet.
LEMMA DialInitHolds == DialInit => DialInv
<1> SUFFICES ASSUME DialInit  PROVE DialInv
  OBVIOUS
<1>1. DialTypeOK
  BY DEF DialInit, DialTypeOK, Stages, Keys, RowKey, None
<1>2. ASSUME NEW p \in Callers
      PROVE  /\ NamesAreFirst(p) /\ AnswersFollow(p) /\ AloneIsFound(p)
             /\ StrangerIsFound(p) /\ OneIsSecure(p)
  <2>1. OtherCaller(p) \in Callers /\ p \in Sessions
    BY TwoCallers
  <2>2. \A r \in Callers, s \in Sessions : stage[r][s] = "none" /\ known[r] = {} /\ key[r][s] = FirstKey(r, s)
    BY DEF DialInit, FirstKey
  <2> QED BY <2>1, <2>2 DEF NamesAreFirst, AnswersFollow, AloneIsFound, StrangerIsFound, OneIsSecure, Unheard
<1> QED BY <1>1, <1>2 DEF DialInv

\* A phone whose own session moves on before its handshake: the map may change under the row's
\* key, which is the peer id of a friend only.
LEMMA OwnKeeps ==
  ASSUME NEW p \in Callers, DialInv, Unheard(p, p), NEW next \in Stages, next # "secure",
         recognised' = recognised, key' = key, known' = known,
         stage'[p] = [stage[p] EXCEPT ![p] = next],
         p \in recognised /\ next = "handshaking" => peers'[p]["peerId"] = p,
         peers'[p]["peerId"] # peers[p]["peerId"]
           => p \in recognised /\ stage[p][p] # "handshaking" /\ peers[p]["peerId"] \in {p, None}
  PROVE  NamesAreFirst(p)' /\ AloneIsFound(p)' /\ StrangerIsFound(p)' /\ OneIsSecure(p)'
<1> DEFINE q == OtherCaller(p)
<1>1. q \in Callers /\ q # p /\ p \in Sessions /\ q \in Sessions /\ Sessions = {p, q} /\ OtherCaller(q) = p
      /\ None \notin Sessions
  BY TwoCallers DEF None
<1>2. stage'[p][p] = next /\ stage'[p][q] = stage[p][q]
  BY <1>1 DEF DialInv, DialTypeOK
<1>3. NamesAreFirst(p) /\ AloneIsFound(p) /\ StrangerIsFound(p) /\ OneIsSecure(p)
  BY DEF DialInv
<1> HIDE DEF q
<1>4. NamesAreFirst(p)'
  BY <1>1, <1>2, <1>3 DEF NamesAreFirst, Unheard, FirstKey, RowKey
<1>5. AloneIsFound(p)'
  <2>1. ASSUME stage'[p][q] = "secure", p \notin known[p]
        PROVE  peers'[p]["peerId"] = q
    <3>1. peers[p]["peerId"] = q
      BY <1>1, <1>2, <1>3, <2>1 DEF AloneIsFound
    <3> QED BY <1>1, <3>1
  <2> QED BY <1>1, <1>2, <2>1 DEF AloneIsFound
<1>6. StrangerIsFound(p)'
  BY <1>1, <1>2, <1>3 DEF StrangerIsFound
<1>7. OneIsSecure(p)'
  BY <1>1, <1>2 DEF OneIsSecure
<1> QED BY <1>4, <1>5, <1>6, <1>7

\* Where one phone changes, and its own sessions stay told, dialled and answered in order, the
\* other phone is as right as it was.
LEMMA OnePhone ==
  ASSUME DialInv, DialTypeOK', NEW p \in Callers, recognised' = recognised,
         \A r \in Callers : r # p => /\ stage'[r] = stage[r] /\ key'[r] = key[r]
                                     /\ known'[r] = known[r] /\ peers'[r] = peers[r],
         stage'[p][p] \in {"none", "dialling"} => stage[p][p] \in {"none", "dialling"},
         stage[p][OtherCaller(p)] = "none" => stage'[p][OtherCaller(p)] = "none",
         NamesAreFirst(p)', AloneIsFound(p)', StrangerIsFound(p)', OneIsSecure(p)'
  PROVE  DialInv'
<1> DEFINE q == OtherCaller(p)
<1>1. q \in Callers /\ q # p /\ OtherCaller(q) = p /\ \A r \in Callers : r = p \/ r = q
  BY TwoCallers
<1>2. NamesAreFirst(q)' /\ AloneIsFound(q)' /\ StrangerIsFound(q)' /\ OneIsSecure(q)'
  BY <1>1, PhoneKeeps DEF DialInv
<1>3. AnswersFollow(p)'
  BY <1>1 DEF DialInv, AnswersFollow
<1>4. AnswersFollow(q)'
  BY <1>1 DEF DialInv, AnswersFollow
<1> QED BY <1>1, <1>2, <1>3, <1>4 DEF DialInv

-----------------------------------------------------------------------------
\* connect() creates a handle under the row's key.
LEMMA ConnectKeeps ==
  ASSUME DialInv, NEW p \in Callers, Connect(p)
  PROVE  DialInv'
<1>1. p \in Sessions /\ OtherCaller(p) # p /\ RowKey(p) \in Keys
  BY TwoCallers DEF RowKey, Keys
<1>2. DialTypeOK'
  BY <1>1 DEF Connect, DialInv, DialTypeOK, Stages
<1>3. stage'[p] = [stage[p] EXCEPT ![p] = "dialling"]
  BY DEF Connect, DialInv, DialTypeOK
<1>4. peers'[p]["peerId"] # peers[p]["peerId"]
        => p \in recognised /\ stage[p][p] # "handshaking" /\ peers[p]["peerId"] \in {p, None}
  BY <1>1 DEF Connect, DialInv, DialTypeOK, RowKey, Keys
<1>5. NamesAreFirst(p)' /\ AloneIsFound(p)' /\ StrangerIsFound(p)' /\ OneIsSecure(p)'
  <2>1. Unheard(p, p) /\ "dialling" \in Stages
    BY DEF Connect, Unheard, Stages
  <2>2. recognised' = recognised /\ key' = key /\ known' = known
    BY DEF Connect
  <2> QED BY <1>3, <1>4, <2>1, <2>2, OwnKeeps
<1>6. \A r \in Callers : r # p => /\ stage'[r] = stage[r] /\ key'[r] = key[r]
                                  /\ known'[r] = known[r] /\ peers'[r] = peers[r]
  BY DEF Connect, DialInv, DialTypeOK
<1>7. stage[p][p] = "none" /\ stage'[p][OtherCaller(p)] = stage[p][OtherCaller(p)]
  BY <1>1, <1>3, TwoCallers DEF Connect, DialInv, DialTypeOK
<1> QED BY <1>2, <1>5, <1>6, <1>7, OnePhone DEF Connect

\* connect() finds its attempt superseded.
LEMMA DialSupersededKeeps ==
  ASSUME DialInv, NEW p \in Callers, DialSuperseded(p)
  PROVE  DialInv'
<1>1. p \in Sessions /\ OtherCaller(p) # p
  BY TwoCallers
<1>2. DialTypeOK'
  BY <1>1 DEF DialSuperseded, DialInv, DialTypeOK, Stages
<1>3. stage'[p] = [stage[p] EXCEPT ![p] = "closed"]
  BY DEF DialSuperseded, DialInv, DialTypeOK
<1>4. NamesAreFirst(p)' /\ AloneIsFound(p)' /\ StrangerIsFound(p)' /\ OneIsSecure(p)'
  <2>1. Unheard(p, p) /\ "closed" \in Stages
    BY DEF DialSuperseded, Unheard, Stages
  <2>2. recognised' = recognised /\ key' = key /\ known' = known /\ peers' = peers
    BY DEF DialSuperseded
  <2> QED BY <1>3, <2>1, <2>2, OwnKeeps
<1>5. \A r \in Callers : r # p => /\ stage'[r] = stage[r] /\ key'[r] = key[r]
                                  /\ known'[r] = known[r] /\ peers'[r] = peers[r]
  BY DEF DialSuperseded, DialInv, DialTypeOK
<1>6. stage'[p][p] = "closed" /\ stage'[p][OtherCaller(p)] = stage[p][OtherCaller(p)]
  BY <1>1, <1>3, TwoCallers DEF DialInv, DialTypeOK
<1> QED BY <1>2, <1>4, <1>5, <1>6, OnePhone DEF DialSuperseded

\* connect() could not dial.
LEMMA DialFailsKeeps ==
  ASSUME DialInv, NEW p \in Callers, DialFails(p)
  PROVE  DialInv'
<1>1. p \in Sessions /\ OtherCaller(p) # p /\ key[p][p] \in Keys
      /\ peers[p] \in [Keys -> Sessions \union {None}] /\ "peerId" \in Keys
  BY TwoCallers DEF DialInv, DialTypeOK, Keys
<1>2. /\ Without(peers[p], key[p][p], p) \in [Keys -> Sessions \union {None}]
      /\ peers'[p] = Without(peers[p], key[p][p], p)
  BY <1>1, WithoutIt DEF DialFails, DialInv, DialTypeOK
<1>3. DialTypeOK'
  BY <1>1, <1>2 DEF DialFails, DialInv, DialTypeOK, Stages
<1>4. stage'[p] = [stage[p] EXCEPT ![p] = "closed"]
  BY DEF DialFails, DialInv, DialTypeOK
<1>5. Unheard(p, p) /\ "closed" \in Stages
  BY DEF DialFails, Unheard, Stages
<1>6. peers'[p]["peerId"] # peers[p]["peerId"]
        => p \in recognised /\ stage[p][p] # "handshaking" /\ peers[p]["peerId"] \in {p, None}
  <2>1. key[p][p] = RowKey(p)
    BY <1>1, <1>5 DEF DialInv, NamesAreFirst, FirstKey
  <2>2. peers'[p]["peerId"] # peers[p]["peerId"] => peers[p]["peerId"] = p /\ key[p][p] = "peerId"
    <3>1. \A l \in Keys : peers[p][l] # p \/ l # key[p][p]
            => Without(peers[p], key[p][p], p)[l] = peers[p][l]
      BY <1>1, WithoutIt
    <3> QED BY <1>1, <1>2, <3>1
  <2> QED BY <2>1, <2>2 DEF DialFails, RowKey
<1>7. NamesAreFirst(p)' /\ AloneIsFound(p)' /\ StrangerIsFound(p)' /\ OneIsSecure(p)'
  <2>1. recognised' = recognised /\ key' = key /\ known' = known
    BY DEF DialFails
  <2> QED BY <1>4, <1>5, <1>6, <2>1, OwnKeeps
<1>8. \A r \in Callers : r # p => /\ stage'[r] = stage[r] /\ key'[r] = key[r]
                                  /\ known'[r] = known[r] /\ peers'[r] = peers[r]
  BY DEF DialFails, DialInv, DialTypeOK
<1>9. stage'[p][p] = "closed" /\ stage'[p][OtherCaller(p)] = stage[p][OtherCaller(p)]
  BY <1>1, <1>4, TwoCallers DEF DialInv, DialTypeOK
<1> QED BY <1>3, <1>7, <1>8, <1>9, OnePhone DEF DialFails

\* connect() starts the handshake, and the other phone answers.
LEMMA DialSucceedsKeeps ==
  ASSUME DialInv, NEW p \in Callers, DialSucceeds(p)
  PROVE  DialInv'
<1> DEFINE q == OtherCaller(p)
<1>1. /\ q \in Callers /\ q # p /\ OtherCaller(q) = p /\ p \in Sessions /\ q \in Sessions
      /\ Sessions = {p, q} /\ "inbound" \in Keys /\ "peerId" \in Keys
      /\ \A r \in Callers : r = p \/ r = q
  BY TwoCallers DEF Keys
<1>2. /\ stage' = [stage EXCEPT ![p][p] = "handshaking", ![q][p] = "handshaking"]
      /\ peers' = [peers EXCEPT ![q]["inbound"] = p]
      /\ recognised' = recognised /\ key' = key /\ known' = known /\ goodbyes' = goodbyes
      /\ stage[p][p] = "dialling" /\ peers[p][key[p][p]] = p
  BY DEF DialSucceeds
<1> HIDE DEF q
<1>3. DialTypeOK'
  BY <1>1, <1>2 DEF DialInv, DialTypeOK, Stages
<1>4. stage'[p] = [stage[p] EXCEPT ![p] = "handshaking"] /\ peers'[p] = peers[p]
  BY <1>1, <1>2 DEF DialInv, DialTypeOK
<1>5. /\ stage'[q][p] = "handshaking" /\ stage'[q][q] = stage[q][q]
      /\ peers'[q]["peerId"] = peers[q]["peerId"]
  BY <1>1, <1>2 DEF DialInv, DialTypeOK
<1>6. NamesAreFirst(p) /\ NamesAreFirst(q) /\ AnswersFollow(p) /\ AnswersFollow(q) /\ AloneIsFound(q)
      /\ StrangerIsFound(q) /\ OneIsSecure(q)
  BY <1>1 DEF DialInv
<1>7. stage[q][p] = "none"
  BY <1>1, <1>2, <1>6 DEF AnswersFollow, q
<1>8. NamesAreFirst(p)' /\ AloneIsFound(p)' /\ StrangerIsFound(p)' /\ OneIsSecure(p)'
  <2>1. Unheard(p, p) /\ "handshaking" \in Stages
    BY <1>2 DEF Unheard, Stages
  <2>2. p \in recognised => peers'[p]["peerId"] = p
    BY <1>1, <1>2, <1>4, <1>6, <2>1 DEF NamesAreFirst, FirstKey, RowKey
  <2> QED BY <1>2, <1>4, <2>1, <2>2, OwnKeeps
<1>9. NamesAreFirst(q)'
  BY <1>1, <1>2, <1>5, <1>6, <1>7 DEF NamesAreFirst, Unheard, FirstKey, RowKey
<1>10. AloneIsFound(q)'
  BY <1>1, <1>2, <1>5, <1>6, <1>7 DEF AloneIsFound
<1>11. StrangerIsFound(q)' /\ OneIsSecure(q)'
  BY <1>1, <1>2, <1>5, <1>6, <1>7 DEF StrangerIsFound, OneIsSecure
<1>12. AnswersFollow(p)' /\ AnswersFollow(q)'
  <2>1. stage'[p][p] = "handshaking" /\ stage'[p][q] = stage[p][q]
    BY <1>1, <1>4 DEF DialInv, DialTypeOK
  <2> QED BY <1>1, <1>5, <1>6, <2>1 DEF AnswersFollow, q
<1> QED BY <1>1, <1>3, <1>8, <1>9, <1>10, <1>11, <1>12 DEF DialInv

\* adoptIdentity() meets nobody with the identity: the session is filed under the peer id.
LEMMA AloneKeeps ==
  ASSUME DialInv, NEW p \in Callers, NEW s \in Sessions, Authenticate(p, s), Incumbents(p, s) = {},
         stage' = [stage EXCEPT ![p][s] = "secure"],
         peers' = [peers EXCEPT ![p] = Rekeyed(@, key[p][s], s)],
         key' = [key EXCEPT ![p][s] = "peerId"], UNCHANGED goodbyes
  PROVE  DialInv'
<1> DEFINE t == OtherCaller(s)
<1>1. /\ t \in Sessions /\ t # s /\ OtherCaller(t) = s /\ Sessions = {s, t} /\ t # None /\ s # None
      /\ p \in Sessions /\ OtherCaller(p) \in Sessions /\ OtherCaller(p) # p
  BY TwoCallers DEF None
<1>2. /\ recognised' = recognised /\ known' = [known EXCEPT ![p] = @ \union {s}]
      /\ stage[p][s] = "handshaking"
  BY DEF Authenticate
<1> HIDE DEF t
<1>3. /\ key[p][s] \in Keys /\ peers[p] \in [Keys -> Sessions \union {None}] /\ "peerId" \in Keys
      /\ peers[p]["peerId"] \in Range(peers[p])
  BY <1>1 DEF DialInv, DialTypeOK, Keys, Range
<1>4. /\ Rekeyed(peers[p], key[p][s], s) \in [Keys -> Sessions \union {None}]
      /\ peers'[p] = Rekeyed(peers[p], key[p][s], s)
      /\ peers'[p]["peerId"] = IF key[p][s] = "peerId" THEN peers[p]["peerId"] ELSE s
  <2>1. peers'[p] = Rekeyed(peers[p], key[p][s], s)
    BY DEF DialInv, DialTypeOK
  <2>2. Rekeyed(peers[p], key[p][s], s) \in [Keys -> Sessions \union {None}]
    BY <1>3, RekeyedIt
  <2>3. Rekeyed(peers[p], key[p][s], s)["peerId"]
          = IF key[p][s] = "peerId" THEN peers[p]["peerId"] ELSE s
    BY <1>3, RekeyedIt
  <2> QED BY <2>1, <2>2, <2>3
<1>5. DialTypeOK'
  BY <1>2, <1>3, <1>4 DEF DialInv, DialTypeOK, Stages
<1>6. NamesAreFirst(p) /\ AloneIsFound(p)
  BY DEF DialInv
<1>7. Unheard(p, s) /\ s \notin known[p] /\ key[p][s] = FirstKey(p, s)
  BY <1>2, <1>6 DEF Unheard, NamesAreFirst
<1>8. stage[p][t] # "secure"
  <2> SUFFICES ASSUME stage[p][t] = "secure"  PROVE FALSE
    OBVIOUS
  <2>1. peers[p]["peerId"] = t /\ t \in known[p]
    BY <1>1, <1>6, <1>7 DEF AloneIsFound, NamesAreFirst
  <2>2. t \in Incumbents(p, s)
    BY <1>1, <1>3, <2>1 DEF Incumbents
  <2> QED BY <2>2
<1>9. /\ stage'[p][s] = "secure" /\ stage'[p][t] = stage[p][t] /\ known'[p] = known[p] \union {s}
      /\ key'[p][t] = key[p][t]
  BY <1>1, <1>2 DEF DialInv, DialTypeOK
<1>10. NamesAreFirst(p)'
  BY <1>1, <1>2, <1>6, <1>9 DEF NamesAreFirst, Unheard, FirstKey, RowKey
<1>11. key[p][s] = "peerId" => s = p /\ p \in recognised
  BY <1>7 DEF FirstKey, RowKey
<1>12. AloneIsFound(p)'
  <2>1. ASSUME t \notin known[p]  PROVE peers'[p]["peerId"] = s
    BY <1>1, <1>2, <1>4, <1>6, <1>11, <2>1 DEF AloneIsFound, t
  <2> QED BY <1>1, <1>9, <2>1 DEF AloneIsFound, t
<1>13. StrangerIsFound(p)' /\ OneIsSecure(p)'
  BY <1>1, <1>2, <1>4, <1>8, <1>9, <1>11 DEF StrangerIsFound, OneIsSecure
<1>14. \A r \in Callers : r # p => /\ stage'[r] = stage[r] /\ key'[r] = key[r]
                                   /\ known'[r] = known[r] /\ peers'[r] = peers[r]
  BY <1>2 DEF DialInv, DialTypeOK
<1>15. /\ stage'[p][p] \in {"none", "dialling"} => stage[p][p] \in {"none", "dialling"}
       /\ stage[p][OtherCaller(p)] = "none" => stage'[p][OtherCaller(p)] = "none"
  BY <1>1, <1>2, <1>9
<1> QED BY <1>2, <1>5, <1>10, <1>12, <1>13, <1>14, <1>15, OnePhone

\* The new session loses against the one it met.
LEMMA LoserKeeps ==
  ASSUME DialInv, NEW p \in Callers, NEW s \in Sessions, Authenticate(p, s),
         NEW t \in Incumbents(p, s),
         stage' = [stage EXCEPT ![p][s] = "closed"],
         peers' = [peers EXCEPT ![p] = Without(@, key[p][s], s)],
         goodbyes' = goodbyes \union {<<OtherCaller(p), s>>}, UNCHANGED key
  PROVE  DialInv'
<1>1. /\ t \in Sessions /\ t # s /\ OtherCaller(s) = t /\ OtherCaller(t) = s /\ Sessions = {s, t}
      /\ t \in known[p]
      /\ p \in Sessions /\ OtherCaller(p) \in Sessions /\ OtherCaller(p) # p
  <2>1. peers[p] \in [Keys -> Sessions \union {None}]
    BY DEF DialInv, DialTypeOK
  <2>2. t \in Sessions /\ t # s /\ t \in known[p]
    BY <2>1 DEF Incumbents, Range
  <2> QED BY <2>2, TwoCallers
<1>2. /\ recognised' = recognised /\ known' = [known EXCEPT ![p] = @ \union {s}]
      /\ stage[p][s] = "handshaking"
  BY DEF Authenticate
<1>3. key[p][s] \in Keys /\ peers[p] \in [Keys -> Sessions \union {None}] /\ "peerId" \in Keys
  BY <1>1 DEF DialInv, DialTypeOK, Keys
<1>4. /\ Without(peers[p], key[p][s], s) \in [Keys -> Sessions \union {None}]
      /\ peers'[p] = Without(peers[p], key[p][s], s)
      /\ peers[p]["peerId"] # s \/ key[p][s] # "peerId" => peers'[p]["peerId"] = peers[p]["peerId"]
  <2>1. \A l \in Keys : peers[p][l] # s \/ l # key[p][s]
          => Without(peers[p], key[p][s], s)[l] = peers[p][l]
    BY <1>3, WithoutIt
  <2>2. Without(peers[p], key[p][s], s) \in [Keys -> Sessions \union {None}]
    BY <1>3, WithoutIt
  <2>3. peers'[p] = Without(peers[p], key[p][s], s)
    BY DEF DialInv, DialTypeOK
  <2> QED BY <1>3, <2>1, <2>2, <2>3
<1>5. DialTypeOK'
  <2>1. OtherCaller(p) \in Callers
    BY TwoCallers
  <2> QED BY <1>2, <1>3, <1>4, <2>1 DEF DialInv, DialTypeOK, Stages
<1>6. NamesAreFirst(p) /\ StrangerIsFound(p) /\ OneIsSecure(p)
  BY DEF DialInv
<1>7. /\ stage'[p][s] = "closed" /\ stage'[p][t] = stage[p][t] /\ known'[p] = known[p] \union {s}
      /\ key' = key
  BY <1>1, <1>2 DEF DialInv, DialTypeOK
<1>8. NamesAreFirst(p)'
  BY <1>1, <1>2, <1>6, <1>7 DEF NamesAreFirst, Unheard, FirstKey, RowKey
<1>9. AloneIsFound(p)'
  BY <1>1, <1>7 DEF AloneIsFound
<1>10. StrangerIsFound(p)' /\ OneIsSecure(p)'
  BY <1>1, <1>2, <1>4, <1>6, <1>7 DEF StrangerIsFound, OneIsSecure
<1>11. \A r \in Callers : r # p => /\ stage'[r] = stage[r] /\ key'[r] = key[r]
                                   /\ known'[r] = known[r] /\ peers'[r] = peers[r]
  BY <1>2 DEF Authenticate, DialInv, DialTypeOK
<1>12. /\ stage'[p][p] \in {"none", "dialling"} => stage[p][p] \in {"none", "dialling"}
       /\ stage[p][OtherCaller(p)] = "none" => stage'[p][OtherCaller(p)] = "none"
  BY <1>1, <1>2, <1>7
<1> QED BY <1>2, <1>5, <1>8, <1>9, <1>10, <1>11, <1>12, OnePhone

\* The new session wins, and the one it met is discarded.
LEMMA WinnerKeeps ==
  ASSUME DialInv, NEW p \in Callers, NEW s \in Sessions, Authenticate(p, s),
         NEW t \in Incumbents(p, s),
         stage' = [stage EXCEPT ![p][s] = "secure", ![p][t] = "closed"],
         peers' = [peers EXCEPT ![p] = Rekeyed(Without(@, key[p][t], t), key[p][s], s)],
         key' = [key EXCEPT ![p][s] = "peerId"],
         goodbyes' = goodbyes \union {<<OtherCaller(p), t>>}
  PROVE  DialInv'
<1>1. /\ t \in Sessions /\ t # s /\ OtherCaller(s) = t /\ OtherCaller(t) = s /\ Sessions = {s, t}
      /\ t \in known[p]
      /\ p \in Sessions /\ OtherCaller(p) \in Sessions /\ OtherCaller(p) # p
  <2>1. peers[p] \in [Keys -> Sessions \union {None}]
    BY DEF DialInv, DialTypeOK
  <2>2. t \in Sessions /\ t # s /\ t \in known[p]
    BY <2>1 DEF Incumbents, Range
  <2> QED BY <2>2, TwoCallers
<1>2. /\ recognised' = recognised /\ known' = [known EXCEPT ![p] = @ \union {s}]
      /\ stage[p][s] = "handshaking"
  BY DEF Authenticate
<1>3. /\ key[p][s] \in Keys /\ key[p][t] \in Keys /\ "peerId" \in Keys
      /\ peers[p] \in [Keys -> Sessions \union {None}]
  BY <1>1 DEF DialInv, DialTypeOK, Keys
<1>4. /\ peers'[p] \in [Keys -> Sessions \union {None}]
      /\ key[p][s] # "peerId" => peers'[p]["peerId"] = s
  <2> DEFINE left == Without(peers[p], key[p][t], t)
  <2>1. left \in [Keys -> Sessions \union {None}]
    BY <1>1, <1>3, WithoutIt
  <2>2. peers'[p] = Rekeyed(left, key[p][s], s)
    BY DEF DialInv, DialTypeOK
  <2> HIDE DEF left
  <2>3. Rekeyed(left, key[p][s], s) \in [Keys -> Sessions \union {None}]
    BY <1>3, <2>1, RekeyedIt
  <2>4. Rekeyed(left, key[p][s], s)["peerId"] = IF key[p][s] = "peerId" THEN left["peerId"] ELSE s
    BY <1>3, <2>1, RekeyedIt
  <2> QED BY <2>2, <2>3, <2>4
<1>5. DialTypeOK'
  <2>1. OtherCaller(p) \in Callers
    BY TwoCallers
  <2>2. \A r \in Callers : r # p => peers'[r] = peers[r]
    BY DEF DialInv, DialTypeOK
  <2>3. peers' \in [Callers -> [Keys -> Sessions \union {None}]]
    <3>1. peers' = [peers EXCEPT ![p] = peers'[p]]
      BY DEF DialInv, DialTypeOK
    <3> QED BY <1>4, <3>1 DEF DialInv, DialTypeOK
  <2>4. stage' \in [Callers -> [Sessions -> Stages]] /\ key' \in [Callers -> [Sessions -> Keys]]
    BY <1>3 DEF DialInv, DialTypeOK, Stages
  <2>5. known' \in [Callers -> SUBSET Sessions] /\ recognised' \subseteq Callers
        /\ goodbyes' \subseteq Callers \X Sessions
    BY <1>1, <1>2, <2>1 DEF DialInv, DialTypeOK
  <2> QED BY <2>3, <2>4, <2>5 DEF DialTypeOK
<1>6. NamesAreFirst(p)
  BY DEF DialInv
<1>7. Unheard(p, s) /\ key[p][s] = FirstKey(p, s)
  BY <1>2, <1>6 DEF Unheard, NamesAreFirst
<1>8. /\ stage'[p][s] = "secure" /\ stage'[p][t] = "closed" /\ known'[p] = known[p] \union {s}
      /\ key'[p][t] = key[p][t]
  BY <1>1, <1>2 DEF DialInv, DialTypeOK
<1>9. NamesAreFirst(p)'
  BY <1>1, <1>2, <1>6, <1>8 DEF NamesAreFirst, Unheard, FirstKey, RowKey
<1>10. AloneIsFound(p)'
  BY <1>1, <1>8 DEF AloneIsFound
<1>11. key[p][s] = "peerId" => p \in recognised
  BY <1>7 DEF FirstKey, RowKey
<1>12. StrangerIsFound(p)' /\ OneIsSecure(p)'
  BY <1>1, <1>2, <1>4, <1>8, <1>11 DEF StrangerIsFound, OneIsSecure
<1>13. \A r \in Callers : r # p => /\ stage'[r] = stage[r] /\ key'[r] = key[r]
                                   /\ known'[r] = known[r] /\ peers'[r] = peers[r]
  BY <1>2 DEF DialInv, DialTypeOK
<1>14. /\ stage'[p][p] \in {"none", "dialling"} => stage[p][p] \in {"none", "dialling"}
       /\ stage[p][OtherCaller(p)] = "none" => stage'[p][OtherCaller(p)] = "none"
  <2>1. t \in known[p] => ~Unheard(p, t)
    BY <1>1, <1>6 DEF NamesAreFirst
  <2> QED BY <1>1, <1>2, <1>8, <2>1 DEF Unheard
<1> QED BY <1>2, <1>5, <1>9, <1>10, <1>12, <1>13, <1>14, OnePhone

\* A goodbye is heard.
LEMMA GoodbyeKeeps ==
  ASSUME DialInv, NEW p \in Callers, NEW s \in Sessions, Goodbye(p, s)
  PROVE  DialInv'
<1> DEFINE t == OtherCaller(s)
<1>1. /\ t \in Sessions /\ t # s /\ OtherCaller(t) = s /\ Sessions = {s, t}
      /\ p \in Sessions /\ OtherCaller(p) \in Sessions /\ OtherCaller(p) # p
  BY TwoCallers
<1>2. /\ recognised' = recognised /\ known' = known /\ key' = key
      /\ stage[p][s] \in {"secure", "closed"}
  BY DEF Goodbye
<1> HIDE DEF t
<1>3. key[p][s] \in Keys /\ peers[p] \in [Keys -> Sessions \union {None}] /\ "peerId" \in Keys
  BY <1>1 DEF DialInv, DialTypeOK, Keys
<1>4. /\ Without(peers[p], key[p][s], s) \in [Keys -> Sessions \union {None}]
      /\ peers'[p] = Without(peers[p], key[p][s], s)
      /\ peers[p]["peerId"] # s => peers'[p]["peerId"] = peers[p]["peerId"]
  <2>1. \A l \in Keys : peers[p][l] # s \/ l # key[p][s]
          => Without(peers[p], key[p][s], s)[l] = peers[p][l]
    BY <1>3, WithoutIt
  <2>2. Without(peers[p], key[p][s], s) \in [Keys -> Sessions \union {None}]
    BY <1>3, WithoutIt
  <2>3. peers'[p] = Without(peers[p], key[p][s], s)
    BY DEF Goodbye, DialInv, DialTypeOK
  <2> QED BY <1>3, <2>1, <2>2, <2>3
<1>5. DialTypeOK'
  BY <1>2, <1>3, <1>4 DEF Goodbye, DialInv, DialTypeOK, Stages
<1>6. NamesAreFirst(p) /\ AloneIsFound(p) /\ StrangerIsFound(p) /\ OneIsSecure(p)
  BY DEF DialInv
<1>7. stage'[p][s] = "closed" /\ stage'[p][t] = stage[p][t]
  BY <1>1 DEF Goodbye, DialInv, DialTypeOK
<1>8. NamesAreFirst(p)'
  BY <1>1, <1>2, <1>6, <1>7 DEF NamesAreFirst, Unheard, FirstKey, RowKey
<1>9. AloneIsFound(p)'
  BY <1>1, <1>2, <1>4, <1>6, <1>7 DEF AloneIsFound
<1>10. StrangerIsFound(p)' /\ OneIsSecure(p)'
  BY <1>1, <1>2, <1>4, <1>6, <1>7 DEF StrangerIsFound, OneIsSecure
<1>11. \A r \in Callers : r # p => /\ stage'[r] = stage[r] /\ key'[r] = key[r]
                                   /\ known'[r] = known[r] /\ peers'[r] = peers[r]
  BY <1>2 DEF Goodbye, DialInv, DialTypeOK
<1>12. /\ stage'[p][p] \in {"none", "dialling"} => stage[p][p] \in {"none", "dialling"}
       /\ stage[p][OtherCaller(p)] = "none" => stage'[p][OtherCaller(p)] = "none"
  BY <1>1, <1>2, <1>7
<1> QED BY <1>2, <1>5, <1>8, <1>9, <1>10, <1>11, <1>12, OnePhone

-----------------------------------------------------------------------------
\* Every step of the two phones.
LEMMA DialStepKeeps == DialInv /\ [DialNext]_dialVars => DialInv'
<1> SUFFICES ASSUME DialInv, [DialNext]_dialVars  PROVE DialInv'
  OBVIOUS
<1>1. ASSUME NEW p \in Callers, NEW s \in Sessions, Authenticate(p, s)
      PROVE  DialInv'
  BY <1>1, AloneKeeps, LoserKeeps, WinnerKeeps DEF Authenticate
<1>2. CASE UNCHANGED dialVars
  <2>1. /\ recognised' = recognised /\ stage' = stage /\ key' = key /\ known' = known
        /\ peers' = peers /\ goodbyes' = goodbyes
    BY <1>2 DEF dialVars
  <2> QED BY <2>1 DEF DialInv, DialTypeOK, NamesAreFirst, AnswersFollow, AloneIsFound, StrangerIsFound,
                      OneIsSecure, Unheard, FirstKey, RowKey
<1> QED BY <1>1, <1>2, ConnectKeeps, DialSupersededKeeps, DialSucceedsKeeps, DialFailsKeeps,
           GoodbyeKeeps DEF DialNext

\* What the invariant says of the books.
LEMMA BooksFollow == DialInv => BooksAreRight
<1> SUFFICES ASSUME DialInv  PROVE BooksAreRight
  OBVIOUS
<1>1. ASSUME NEW p \in Callers
      PROVE  Cardinality({s \in Sessions : stage[p][s] = "secure"}) <= 1
  <2> DEFINE live == {s \in Sessions : stage[p][s] = "secure"}
  <2>1. live = {} \/ \E s \in Sessions : live = {s}
    BY DEF DialInv, OneIsSecure
  <2>2. Cardinality({}) = 0 /\ \A s : Cardinality({s}) = 1
    BY FS_EmptySet, FS_Singleton
  <2> HIDE DEF live
  <2>3. Cardinality(live) = 0 \/ Cardinality(live) = 1
    BY <2>1, <2>2
  <2>4. Cardinality(live) <= 1
    BY <2>3
  <2> QED BY <2>4 DEF live
<1>2. ASSUME NEW p \in Callers \ recognised, NEW s \in Sessions, stage[p][s] = "secure"
      PROVE  s \in Range(peers[p])
  <2>1. peers[p]["peerId"] = s /\ DOMAIN peers[p] = Keys /\ "peerId" \in Keys
    BY <1>2 DEF DialInv, DialTypeOK, StrangerIsFound, Keys
  <2> QED BY <2>1 DEF Range
<1> QED BY <1>1, <1>2 DEF BooksAreRight, OneSessionPerPerson, LiveIsFound

\* Two phones that ring each other in whatever order never keep two secure sessions with one
\* person, and a stranger's live session is always where the screens look for it: adoptIdentity()
\* and discardHandle() of AirLinkClient.ts.
THEOREM BooksAreAlwaysRight == DialSpec => []BooksAreRight
<1>1. DialInit => DialInv
  BY DialInitHolds
<1>2. DialInv /\ [DialNext]_dialVars => DialInv'
  BY DialStepKeeps
<1>3. DialInv => BooksAreRight
  BY BooksFollow
<1> QED BY <1>1, <1>2, <1>3, PTL DEF DialSpec

-----------------------------------------------------------------------------
(* Datagrams. *)

\* What travels: every datagram carries the counter of a frame that was sealed.
Tasks     == [frame : Counters, next : Nat]
Datagrams == [frame : Counters, index : Nat, count : Nat]

DatagramTypeOK ==
  /\ sendCounter \in Nat
  /\ writeChain \in Seq(Tasks)
  /\ wire \in Seq(Datagrams)
  /\ window \in [seenAny : BOOLEAN, highest : Nat, bits : SUBSET Nat]
  /\ opened \in [Counters -> Nat]

\* Before the first frame nothing was opened; afterwards nothing above the highest
\* counter was, and the bit of each counter within the width tells whether it was.
WindowInv ==
  /\ \A c \in Counters : opened[c] <= 1
  /\ ~window.seenAny => window.highest = 0 /\ \A c \in Counters : opened[c] = 0
  /\ window.seenAny => \A c \in Counters :
       /\ c > window.highest => opened[c] = 0
       /\ c <= window.highest /\ window.highest < c + WindowSize
            => (Bit(c) \in window.bits <=> opened[c] = 1)

DatagramInv == DatagramTypeOK /\ WindowInv

-----------------------------------------------------------------------------
(* Arithmetic of the residues. *)

\* Division with remainder.
LEMMA Quotient ==
  ASSUME NEW a \in Nat, NEW W \in Nat \ {0}
  PROVE  a = W * (a \div W) + (a % W) /\ a \div W \in Int /\ a % W \in 0..(W - 1)
  OBVIOUS

\* Multiples of W are W apart.
LEMMA Multiples ==
  ASSUME NEW j \in Int, NEW k \in Int, NEW W \in Nat \ {0}, j < k
  PROVE  W * j + W <= W * k
  OBVIOUS

\* Two counters less than a window apart have different bits.
LEMMA BitsDiffer ==
  ASSUME NEW a \in Nat, NEW b \in Nat, a < b, b < a + WindowSize
  PROVE  Bit(a) # Bit(b)
<1> DEFINE W  == WindowSize
           qa == a \div W
           qb == b \div W
<1>1. W \in Nat \ {0}
  BY DatagramAssumption
<1>2. a = W * qa + (a % W) /\ b = W * qb + (b % W) /\ qa \in Int /\ qb \in Int
  BY <1>1, Quotient
<1>3. a % W \in Int /\ b % W \in Int
  BY <1>1, Quotient
<1> SUFFICES ASSUME a % W = b % W  PROVE FALSE
  BY DEF Bit
<1>4. CASE qa < qb
  <2>1. W * qa + W <= W * qb
    BY <1>1, <1>2, <1>4, Multiples
  <2> HIDE DEF qa, qb
  <2> QED BY <2>1, <1>1, <1>2, <1>3
<1>5. CASE qa >= qb
  <2>1. W * qb <= W * qa
    BY <1>1, <1>2, <1>5, Multiples
  <2> HIDE DEF qa, qb
  <2> QED BY <2>1, <1>1, <1>2, <1>3
<1> QED BY <1>2, <1>4, <1>5

\* A bit of the bitmap has a number.
LEMMA BitIsNat == ASSUME NEW a \in Nat PROVE Bit(a) \in Nat
  BY DatagramAssumption DEF Bit

-----------------------------------------------------------------------------
(* The window. *)

\* What isReplay() and accept() do to exact bits: a frame above the highest counter,
\* or one within the width that was never opened, is taken and its bit set.
LEMMA OpenKeepsWindow ==
  ASSUME DatagramInv, NEW counter \in Counters, Open(counter)
  PROVE  /\ window' \in [seenAny : BOOLEAN, highest : Nat, bits : SUBSET Nat]
         /\ opened' \in [Counters -> Nat]
         /\ WindowInv'
<1> USE DEF DatagramInv, DatagramTypeOK
<1>0. WindowSize \in Nat \ {0} /\ Counters \subseteq Nat
  BY DatagramAssumption DEF Counters
<1>1. CASE IsReplay(window, counter)
  BY <1>1 DEF Open, WindowInv, Bit
<1>2. CASE ~IsReplay(window, counter)
  <2>1. window' = Accept(window, counter) /\ opened' = [opened EXCEPT ![counter] = @ + 1]
    BY <1>2 DEF Open
  <2>2. opened[counter] = 0
    BY <1>2, <1>0 DEF IsReplay, WindowInv
  <2>3. opened' \in [Counters -> Nat] /\ \A c \in Counters : opened'[c] <= 1
    BY <2>1, <2>2 DEF WindowInv
  <2>4. \A c \in Counters : opened'[c] = IF c = counter THEN 1 ELSE opened[c]
    BY <2>1, <2>2
  <2>5. CASE ~window.seenAny
    <3>1. window' = [seenAny |-> TRUE, highest |-> counter, bits |-> {Bit(counter)}]
      BY <2>1, <2>5 DEF Accept
    <3>2. ASSUME NEW c \in Counters
          PROVE  /\ c > counter => opened'[c] = 0
                 /\ c <= counter /\ counter < c + WindowSize
                      => (Bit(c) \in {Bit(counter)} <=> opened'[c] = 1)
      BY <2>4, <2>5, <1>0, BitsDiffer DEF WindowInv
    <3>3. Bit(counter) \in Nat
      BY <1>0, BitIsNat
    <3> QED BY <3>1, <3>2, <3>3, <2>3, <1>0 DEF WindowInv
  <2>6. CASE window.seenAny /\ counter > window.highest
    <3> DEFINE bits == Slid(window, counter) \union {Bit(counter)}
    <3>1. window' = [window EXCEPT !.highest = counter, !.bits = bits]
      BY <2>1, <2>6 DEF Accept
    <3>2. bits \subseteq Nat
      BY <1>0, BitIsNat DEF Slid
    <3>3. ASSUME NEW c \in Counters
          PROVE  /\ c > counter => opened'[c] = 0
                 /\ c <= counter /\ counter < c + WindowSize
                      => (Bit(c) \in bits <=> opened'[c] = 1)
      <4>1. CASE c > counter
        BY <4>1, <2>4, <2>6, <1>0 DEF WindowInv
      <4>2. CASE c = counter
        BY <4>2, <2>4, <1>0
      <4>3. CASE c < counter /\ counter < c + WindowSize
        <5>1. Bit(c) # Bit(counter) /\ opened'[c] = opened[c]
          BY <4>3, <2>4, <1>0, BitsDiffer
        <5>2. CASE c > window.highest
          <6>1. opened[c] = 0
            BY <5>2, <2>6 DEF WindowInv
          <6>2. Bit(c) \notin Slid(window, counter)
            BY <5>2, <4>3, <1>0 DEF Slid
          <6> QED BY <6>1, <6>2, <5>1
        <5>3. CASE c <= window.highest
          <6>1. Bit(c) \in window.bits <=> opened[c] = 1
            BY <5>3, <4>3, <2>6, <1>0 DEF WindowInv
          <6>2. counter < window.highest + WindowSize
            BY <5>3, <4>3, <1>0
          <6>3. \A s \in (window.highest + 1)..counter : Bit(c) # Bit(s)
            BY <5>3, <4>3, <1>0, BitsDiffer
          <6>4. Slid(window, counter)
                  = window.bits \ {Bit(s) : s \in (window.highest + 1)..counter}
            BY <6>2, <1>0 DEF Slid
          <6>5. Bit(c) \in Slid(window, counter) <=> Bit(c) \in window.bits
            BY <6>3, <6>4
          <6> QED BY <6>1, <6>5, <5>1, <4>3, <1>0
        <5> QED BY <5>2, <5>3, <1>0
      <4> QED BY <4>1, <4>2, <4>3, <1>0
    <3> HIDE DEF bits
    <3> QED BY <3>1, <3>2, <3>3, <2>3, <2>6, <1>0 DEF WindowInv
  <2>7. CASE window.seenAny /\ ~(counter > window.highest)
    <3> DEFINE bits == window.bits \union {Bit(counter)}
    <3>1. window' = [window EXCEPT !.bits = bits]
      BY <2>1, <2>7 DEF Accept
    <3>2. ASSUME NEW c \in Counters
          PROVE  /\ c > window.highest => opened'[c] = 0
                 /\ c <= window.highest /\ window.highest < c + WindowSize
                      => (Bit(c) \in bits <=> opened'[c] = 1)
      <4>1. CASE c = counter
        BY <4>1, <2>4, <2>7, <1>0
      <4>2. CASE c > window.highest
        BY <4>2, <2>4, <2>7, <1>0 DEF WindowInv
      <4>3. CASE c # counter /\ c <= window.highest /\ window.highest < c + WindowSize
        <5>1. /\ counter \in Nat /\ c \in Nat
              /\ counter <= window.highest /\ window.highest < counter + WindowSize
          <6>1. ~(counter + WindowSize <= window.highest)
            BY <1>2, <2>7, <1>0 DEF IsReplay
          <6> QED BY <6>1, <2>7, <1>0
        <5>2. Bit(c) # Bit(counter)
          BY <4>3, <5>1, <1>0, BitsDiffer
        <5> QED BY <4>3, <5>2, <2>4, <2>7 DEF WindowInv
      <4> QED BY <4>1, <4>2, <4>3, <1>0
    <3>3. bits \subseteq Nat
      BY <1>0, BitIsNat
    <3> HIDE DEF bits
    <3> QED BY <3>1, <3>2, <3>3, <2>3, <2>7, <1>0 DEF WindowInv
  <2> QED BY <2>5, <2>6, <2>7
<1> QED BY <1>1, <1>2

-----------------------------------------------------------------------------
(* The frames on their way. *)

\* Taking a datagram out of a queue leaves a queue.
LEMMA RemoveAtType ==
  ASSUME NEW S, NEW s \in Seq(S), NEW k \in 1..Len(s)
  PROVE  RemoveAt(s, k) \in Seq(S)
<1>1. SubSeq(s, 1, k - 1) \in Seq(S) /\ SubSeq(s, k + 1, Len(s)) \in Seq(S)
  BY SubSeqProperties, LenProperties
<1> QED BY <1>1, ConcatProperties DEF RemoveAt

\* Putting a datagram into a queue leaves a queue.
LEMMA InsertAtType ==
  ASSUME NEW S, NEW s \in Seq(S), NEW k \in 1..(Len(s) + 1), NEW x \in S
  PROVE  InsertAt(s, k, x) \in Seq(S)
<1>1. SubSeq(s, 1, k - 1) \in Seq(S) /\ SubSeq(s, k, Len(s)) \in Seq(S)
  BY SubSeqProperties, LenProperties
<1>2. <<x>> \in Seq(S)
  OBVIOUS
<1>3. SubSeq(s, 1, k - 1) \o <<x>> \in Seq(S)
  BY <1>1, <1>2, ConcatProperties
<1> QED BY <1>1, <1>3, ConcatProperties DEF InsertAt

\* Nothing is sealed and nothing opened yet.
LEMMA DatagramInitHolds == DatagramInit => DatagramInv
<1> SUFFICES ASSUME DatagramInit  PROVE DatagramInv
  OBVIOUS
<1>1. DatagramTypeOK
  BY EmptySeq DEF DatagramInit, DatagramTypeOK
<1>2. WindowInv
  BY DEF DatagramInit, WindowInv
<1> QED BY <1>1, <1>2 DEF DatagramInv

\* The variables of the window are changed by open() only.
LEMMA WindowUntouched ==
  ASSUME DatagramInv, UNCHANGED <<window, opened>>
  PROVE  /\ window' \in [seenAny : BOOLEAN, highest : Nat, bits : SUBSET Nat]
         /\ opened' \in [Counters -> Nat]
         /\ WindowInv'
  BY DEF DatagramInv, DatagramTypeOK, WindowInv

\* Only open() touches the window; every other step moves datagrams about.
LEMMA DatagramStepHolds == DatagramInv /\ [DatagramNext]_datagramVars => DatagramInv'
<1> SUFFICES ASSUME DatagramInv, [DatagramNext]_datagramVars  PROVE DatagramInv'
  OBVIOUS
<1>0. DatagramTypeOK /\ Fragments \in Nat /\ MaxFrames \in Nat
  BY DatagramAssumption DEF DatagramInv
<1>c. sendCounter < MaxFrames => sendCounter \in Counters
  BY <1>0 DEF DatagramTypeOK, Counters
<1> DEFINE Window ==
      /\ window' \in [seenAny : BOOLEAN, highest : Nat, bits : SUBSET Nat]
      /\ opened' \in [Counters -> Nat]
      /\ WindowInv'
<1> DEFINE Sent == sendCounter' \in Nat /\ writeChain' \in Seq(Tasks) /\ wire' \in Seq(Datagrams)
<1> SUFFICES Sent /\ Window
  BY DEF DatagramInv, DatagramTypeOK
<1> HIDE DEF Window, Sent
<1>1. CASE WriteReliable
  <2>1. [frame |-> sendCounter, next |-> 1] \in Tasks
    BY <1>1, <1>c DEF WriteReliable, Tasks
  <2>2. Sent
    BY <1>0, <1>1, <2>1, AppendProperties DEF WriteReliable, DatagramTypeOK, Sent
  <2> QED BY <1>1, <2>2, WindowUntouched DEF WriteReliable, Window
<1>2. CASE WriteRealtime
  <2>1. [frame |-> sendCounter, index |-> 1, count |-> 1] \in Datagrams
    BY <1>2, <1>c DEF WriteRealtime, Datagrams
  <2>2. Sent
    BY <1>0, <1>2, <2>1, AppendProperties DEF WriteRealtime, DatagramTypeOK, Sent
  <2> QED BY <1>2, <2>2, WindowUntouched DEF WriteRealtime, Window
<1>3. CASE WriteFragment
  <2>1. PICK k \in DOMAIN writeChain :
          LET task == writeChain[k] IN
            /\ wire' = Append(wire, [frame |-> task.frame, index |-> task.next,
                                     count |-> Fragments])
            /\ writeChain' = IF task.next = Fragments THEN RemoveAt(writeChain, k)
                             ELSE [writeChain EXCEPT ![k].next = @ + 1]
    BY <1>3 DEF WriteFragment
  <2>2. k \in 1..Len(writeChain) /\ writeChain[k] \in Tasks
    BY <1>0, <2>1, LenProperties, ElementOfSeq DEF DatagramTypeOK
  <2>3. wire' \in Seq(Datagrams)
    <3>1. [frame |-> writeChain[k].frame, index |-> writeChain[k].next, count |-> Fragments]
            \in Datagrams
      BY <1>0, <2>2 DEF Tasks, Datagrams
    <3> QED BY <1>0, <2>1, <3>1, AppendProperties DEF DatagramTypeOK
  <2>4. writeChain' \in Seq(Tasks)
    <3>1. RemoveAt(writeChain, k) \in Seq(Tasks)
      BY <1>0, <2>2, RemoveAtType DEF DatagramTypeOK
    <3>2. [writeChain[k] EXCEPT !.next = @ + 1] \in Tasks
      BY <2>2 DEF Tasks
    <3>3. [writeChain EXCEPT ![k] = [writeChain[k] EXCEPT !.next = @ + 1]] \in Seq(Tasks)
      BY <1>0, <2>2, <3>2, ExceptSeq DEF DatagramTypeOK
    <3>4. [writeChain EXCEPT ![k].next = @ + 1] \in Seq(Tasks)
      BY <3>3
    <3> QED BY <2>1, <3>1, <3>4
  <2> QED BY <1>0, <1>3, <2>3, <2>4, WindowUntouched
        DEF WriteFragment, DatagramTypeOK, Sent, Window
<1>4. CASE Lose
  <2>1. wire' \in Seq(Datagrams)
    BY <1>0, <1>4, RemoveAtType, LenProperties DEF Lose, DatagramTypeOK
  <2> QED BY <1>0, <1>4, <2>1, WindowUntouched DEF Lose, DatagramTypeOK, Sent, Window
<1>5. CASE Deliver
  <2> DEFINE d == Head(wire)
  <2>1. wire # <<>> /\ wire \in Seq(Datagrams)
    BY <1>0, <1>5 DEF Deliver, DatagramTypeOK
  <2>2. d \in Datagrams /\ Tail(wire) \in Seq(Datagrams) /\ Len(Tail(wire)) = Len(wire) - 1
    BY <2>1, HeadTailProperties
  <2>3. Open(d.frame) \/ UNCHANGED <<window, opened>>
    BY <1>5 DEF Deliver, Handle
  <2>4. Window
    BY <2>2, <2>3, OpenKeepsWindow, WindowUntouched DEF Datagrams, Window
  <2>5. wire' \in Seq(Datagrams)
    <3>1. CASE wire' = Tail(wire)
      BY <3>1, <2>2
    <3>2. CASE \E k \in 1..Len(wire) : wire' = InsertAt(Tail(wire), k, d)
      <4>1. Len(wire) \in Nat
        BY <2>1, LenProperties
      <4>2. 1..Len(wire) = 1..(Len(Tail(wire)) + 1)
        BY <4>1, <2>2
      <4> HIDE DEF d
      <4> QED BY <3>2, <2>2, <4>2, InsertAtType
    <3> QED BY <1>5, <3>1, <3>2 DEF Deliver
  <2> QED BY <1>0, <1>5, <2>4, <2>5 DEF Deliver, DatagramTypeOK, Sent
<1>6. CASE Expire
  BY <1>0, <1>6, WindowUntouched DEF Expire, DatagramTypeOK, Sent, Window
<1>7. CASE Migrate
  BY <1>0, <1>7, EmptySeq, WindowUntouched DEF Migrate, DatagramTypeOK, Sent, Window
<1>8. CASE UNCHANGED datagramVars
  BY <1>0, <1>8, WindowUntouched DEF datagramVars, DatagramTypeOK, Sent, Window
<1> QED BY <1>1, <1>2, <1>3, <1>4, <1>5, <1>6, <1>7, <1>8 DEF DatagramNext

\* The window says, in every reachable state, what was opened.
LEMMA DatagramInvHolds == DatagramSpec => []DatagramInv
<1>1. DatagramInit => DatagramInv
  BY DatagramInitHolds
<1>2. DatagramInv /\ [DatagramNext]_datagramVars => DatagramInv'
  BY DatagramStepHolds
<1> QED BY <1>1, <1>2, PTL DEF DatagramSpec

-----------------------------------------------------------------------------
(* What follows. *)

\* What isReplay() answers from such a window is the truth about the frame.
LEMMA WindowInvIsEnough == DatagramInv => WindowIsExact
<1> SUFFICES ASSUME DatagramInv  PROVE WindowIsExact
  OBVIOUS
<1>1. ASSUME NEW c \in Counters, c <= window.highest, window.highest < c + WindowSize
      PROVE  IsReplay(window, c) <=> opened[c] = 1
  <2>1. WindowSize \in Nat /\ c \in Nat /\ window.highest \in Nat
    BY DatagramAssumption DEF Counters, DatagramInv, DatagramTypeOK
  <2>2. ~(c + WindowSize <= window.highest)
    BY <1>1, <2>1
  <2> QED BY <1>1, <2>2 DEF IsReplay, DatagramInv, WindowInv
<1> QED BY <1>1 DEF WindowIsExact, DatagramInv, WindowInv

\* WindowIsExact, of crypto/replay.ts and the session that asks it: whatever the link
\* loses, repeats or brings late, for every width of the window, no frame is opened
\* twice, and none within the width is refused that was not opened.
THEOREM ReplaysAreToldExactly == DatagramSpec => []WindowIsExact
<1>1. DatagramInv => WindowIsExact
  BY WindowInvIsEnough
<1> QED BY <1>1, DatagramInvHolds, PTL

-----------------------------------------------------------------------------
(* The reassembler. *)

Frag(c, i) == [frame |-> c, index |-> i, count |-> Fragments]

Entries == [frame : Counters, parts : SUBSET (1..Fragments)]

\* The fragments of a frame are numbered; a frame of the realtime channel has one.
Placed(d) == d.count \in {1, Fragments} /\ d.index \in 1..d.count

\* Nothing travels that was not sealed.
AllSealed(w, a, ch) ==
  /\ a \subseteq Datagrams
  /\ \A d \in a : d.frame < sendCounter /\ Placed(d)
  /\ \A j \in DOMAIN w : w[j].frame < sendCounter /\ Placed(w[j])
  /\ \A k \in DOMAIN ch : ch[k].frame < sendCounter /\ ch[k].next \in 1..Fragments

\* One entry for a frame, of fragments that arrived and never of all.
EntriesFit(fl, a) ==
  /\ fl \in Seq(Entries)
  /\ \A k \in DOMAIN fl : /\ fl[k].parts # {} /\ fl[k].parts # 1..Fragments
                          /\ \A i \in fl[k].parts : Frag(fl[k].frame, i) \in a
  /\ \A k, l \in DOMAIN fl : fl[k].frame = fl[l].frame => k = l

Before(d, e) == d.frame < e.frame \/ (d.frame = e.frame /\ d.index < e.index)

\* What is on the wire for the first time: each once, and fragments in the order they were cut,
Once(w, a) ==
  \A i, j \in DOMAIN w : i < j /\ w[i] \notin a /\ w[j] \notin a => w[i] # w[j]

InLine(w, a) ==
  \A i, j \in DOMAIN w :
    i < j /\ w[i] \notin a /\ w[j] \notin a /\ w[i].count = Fragments /\ w[j].count = Fragments
      => Before(w[i], w[j])

\* after what arrived
AfterArrived(w, a) ==
  \A d \in a : \A j \in DOMAIN w :
    d.count = Fragments /\ w[j].count = Fragments /\ w[j] \notin a => Before(d, w[j])

\* and before what is still to be cut.
Cut(d, task) == d.frame < task.frame \/ (d.frame = task.frame /\ d.index < task.next)

CutArrived(a, ch) == \A k \in DOMAIN ch : \A d \in a : d.count = Fragments => Cut(d, ch[k])
CutWritten(w, ch) == \A k \in DOMAIN ch : \A j \in DOMAIN w : w[j].count = Fragments => Cut(w[j], ch[k])
CutInLine(ch)     == \A k, l \in DOMAIN ch : k < l => ch[k].frame < ch[l].frame

InOrder(w, a, ch) ==
  /\ Once(w, a)
  /\ InLine(w, a)
  /\ AfterArrived(w, a)
  /\ CutArrived(a, ch)
  /\ CutWritten(w, ch)
  /\ CutInLine(ch)

\* A fragment that is still to come, and a frame of which one never will.
Comes(w, ch, c, i) ==
  \/ \E j \in DOMAIN w : w[j] = Frag(c, i)
  \/ \E k \in DOMAIN ch : ch[k].frame = c /\ ch[k].next <= i

Missed(w, a, ch, c) == \E i \in 1..Fragments : Frag(c, i) \notin a /\ ~Comes(w, ch, c, i)

\* A frame that was opened, or would be too old.
Done(c) == opened[c] = 1 \/ (window.seenAny /\ c + WindowSize <= window.highest)

\* The repetitions that are not on the wire any more.
Copies(w, a) == {j \in DOMAIN w : w[j] \in a}
Spent(w, a)  == repeats - Cardinality(Copies(w, a))

\* The k-th entry holds what arrived of frame c, and no more entries were made after it than
\* repetitions have come.
Holds(fl, a, c, k, n) ==
  /\ k \in DOMAIN fl /\ fl[k].frame = c
  /\ \A i \in 1..Fragments : i \in fl[k].parts <=> Frag(c, i) \in a
  /\ Len(fl) - k <= n

\* A frame of which something arrived, all may yet arrive and that is worth it has an entry.
AllHeld(w, a, ch, fl) ==
  \A c \in Counters :
    (\E i \in 1..Fragments : Frag(c, i) \in a) /\ ~Done(c) /\ ~Missed(w, a, ch, c)
      => \E k \in DOMAIN fl : Holds(fl, a, c, k, Spent(w, a))

ReassemblyInv ==
  /\ AllSealed(wire, arrived, writeChain)
  /\ EntriesFit(inflight, arrived)
  /\ repeats \in 0..MaxRepeats
  /\ \A d \in arrived : d.count = 1 => Done(d.frame)
  /\ Fragments > 1 =>
       /\ InOrder(wire, arrived, writeChain)
       /\ Spent(wire, arrived) >= 0
       /\ AllHeld(wire, arrived, writeChain, inflight)

-----------------------------------------------------------------------------
(* What the link does to a queue. *)

\* RemoveAt: the elements, and where they were.
LEMMA RemovedFrom ==
  ASSUME NEW S, NEW s \in Seq(S), NEW k \in DOMAIN s
  PROVE  /\ RemoveAt(s, k) \in Seq(S) /\ Len(RemoveAt(s, k)) = Len(s) - 1
         /\ \A i \in 1..(Len(s) - 1) : RemoveAt(s, k)[i] = s[IF i < k THEN i ELSE i + 1]
<1> DEFINE a == SubSeq(s, 1, k - 1)
           b == SubSeq(s, k + 1, Len(s))
           r == RemoveAt(s, k)
<1>1. DOMAIN s = 1..Len(s) /\ Len(s) \in Nat /\ k \in 1..Len(s)
  OBVIOUS
<1>2. a \in Seq(S) /\ Len(a) = k - 1 /\ \A i \in 1..(k - 1) : a[i] = s[i]
  BY <1>1
<1>3. b \in Seq(S) /\ Len(b) = Len(s) - k /\ \A i \in 1..(Len(s) - k) : b[i] = s[k + i]
  BY <1>1
<1>4. r = a \o b
  BY DEF RemoveAt
<1> HIDE DEF a, b, r
<1>5. r \in Seq(S) /\ Len(r) = Len(a) + Len(b)
  BY <1>2, <1>3, <1>4, ConcatProperties
<1>6. Len(r) = Len(s) - 1
  BY <1>1, <1>2, <1>3, <1>5
<1>7. \A i \in 1..(Len(s) - 1) : r[i] = s[IF i < k THEN i ELSE i + 1]
  <2> TAKE i \in 1..(Len(s) - 1)
  <2>1. CASE i < k
    BY <1>1, <1>2, <1>3, <1>4, <2>1
  <2>2. CASE ~(i < k)
    <3>1. i - (k - 1) \in 1..(Len(s) - k) /\ k + (i - (k - 1)) = i + 1
      BY <1>1, <2>2
    <3>2. r[i] = b[i - (k - 1)]
      BY <1>1, <1>2, <1>3, <1>4, <2>2
    <3> QED BY <1>3, <2>2, <3>1, <3>2
  <2> QED BY <2>1, <2>2
<1> QED BY <1>5, <1>6, <1>7 DEF r

\* InsertAt: the new element, and where the others were.
Inserted(r, s, k, x) ==
  /\ r[k] = x
  /\ \A i \in 1..(Len(s) + 1) : i # k => r[i] = s[IF i < k THEN i ELSE i - 1]

\* It is what InsertAt gives.
LEMMA InsertedInto ==
  ASSUME NEW S, NEW s \in Seq(S), NEW k \in 1..(Len(s) + 1), NEW x \in S
  PROVE  /\ InsertAt(s, k, x) \in Seq(S) /\ Len(InsertAt(s, k, x)) = Len(s) + 1
         /\ Inserted(InsertAt(s, k, x), s, k, x)
<1> DEFINE a == SubSeq(s, 1, k - 1)
           b == SubSeq(s, k, Len(s))
           c == a \o <<x>>
           r == InsertAt(s, k, x)
<1>1. DOMAIN s = 1..Len(s) /\ Len(s) \in Nat
  OBVIOUS
<1>2. a \in Seq(S) /\ Len(a) = k - 1 /\ \A i \in 1..(k - 1) : a[i] = s[i]
  BY <1>1
<1>3. b \in Seq(S) /\ Len(b) = Len(s) - k + 1 /\ \A i \in 1..(Len(s) - k + 1) : b[i] = s[k + i - 1]
  BY <1>1
<1>4. r = c \o b
  BY DEF InsertAt
<1> HIDE DEF a, b, r
<1>5. /\ c \in Seq(S) /\ Len(c) = k /\ c[k] = x /\ \A i \in 1..(k - 1) : c[i] = s[i]
  <2>1. <<x>> \in Seq(S) /\ Len(<<x>>) = 1 /\ <<x>>[1] = x
    OBVIOUS
  <2>2. c \in Seq(S) /\ Len(c) = k
    BY <1>1, <1>2, <2>1, ConcatProperties
  <2> QED BY <1>1, <1>2, <2>1, <2>2
<1> HIDE DEF c
<1>6. r \in Seq(S) /\ Len(r) = Len(c) + Len(b)
  BY <1>3, <1>4, <1>5, ConcatProperties
<1>7. Len(r) = Len(s) + 1
  BY <1>1, <1>3, <1>5, <1>6
<1>8. r[k] = x
  BY <1>1, <1>3, <1>4, <1>5
<1>9. \A i \in 1..(Len(s) + 1) : i # k => r[i] = s[IF i < k THEN i ELSE i - 1]
  <2> TAKE i \in 1..(Len(s) + 1)
  <2>1. CASE i < k
    BY <1>1, <1>3, <1>4, <1>5, <2>1
  <2>2. CASE i > k
    <3>1. i - k \in 1..(Len(s) - k + 1) /\ k + (i - k) - 1 = i - 1
      BY <1>1, <2>2
    <3>2. r[i] = b[i - k]
      BY <1>1, <1>3, <1>4, <1>5, <2>2
    <3> QED BY <1>3, <2>2, <3>1, <3>2
  <2> QED BY <1>1, <2>1, <2>2
<1> QED BY <1>6, <1>7, <1>8, <1>9 DEF r, Inserted

\* v comes from w: each element of v but the k-th was in w, in the same order, where u says.
\* (k is 0 when there is no exception.)
ComesFrom(v, w, u, k) ==
  /\ \A j \in DOMAIN v : j # k => u[j] \in DOMAIN w /\ v[j] = w[u[j]]
  /\ \A i, j \in DOMAIN v : i < j /\ i # k /\ j # k => u[i] < u[j]

\* Losing a datagram.
LEMMA LossComesFrom ==
  ASSUME NEW S, NEW w \in Seq(S), NEW k \in DOMAIN w, NEW v, v = RemoveAt(w, k)
  PROVE  v \in Seq(S) /\ \E u : ComesFrom(v, w, u, 0)
<1> DEFINE u == [j \in DOMAIN v |-> IF j < k THEN j ELSE j + 1]
<1>1. /\ v \in Seq(S) /\ Len(v) = Len(w) - 1
      /\ \A i \in 1..(Len(w) - 1) : v[i] = w[IF i < k THEN i ELSE i + 1]
  BY RemovedFrom
<1>2. DOMAIN w = 1..Len(w) /\ Len(w) \in Nat /\ DOMAIN v = 1..(Len(w) - 1)
  BY <1>1
<1>3. \A j \in DOMAIN v : j # 0 => u[j] \in DOMAIN w /\ v[j] = w[u[j]]
  BY <1>1, <1>2
<1>4. \A i, j \in DOMAIN v : i < j /\ i # 0 /\ j # 0 => u[i] < u[j]
  BY <1>2
<1> HIDE DEF u
<1> QED BY <1>1, <1>3, <1>4 DEF ComesFrom

\* Delivering the first datagram: the others moved up.
MovesUp(v, w, u, k) == ComesFrom(v, w, u, k) /\ \A j \in DOMAIN v : j # k => u[j] # 1

\* The rest of the queue,
LEMMA TailComesFrom ==
  ASSUME NEW S, NEW w \in Seq(S), w # <<>>, NEW v, v = Tail(w)
  PROVE  v \in Seq(S) /\ \E u : MovesUp(v, w, u, 0)
<1> DEFINE u == [j \in DOMAIN v |-> j + 1]
<1>1. /\ DOMAIN w = 1..Len(w) /\ Len(w) \in Nat \ {0}
      /\ v \in Seq(S) /\ DOMAIN v = 1..(Len(w) - 1) /\ \A i \in 1..(Len(w) - 1) : v[i] = w[i + 1]
  OBVIOUS
<1>2. \A j \in DOMAIN v : u[j] \in DOMAIN w /\ v[j] = w[u[j]] /\ u[j] # 1
  BY <1>1
<1>3. \A i, j \in DOMAIN v : i < j => u[i] < u[j]
  BY <1>1
<1> HIDE DEF u
<1>4. MovesUp(v, w, u, 0)
  BY <1>2, <1>3 DEF ComesFrom, MovesUp
<1> QED BY <1>1, <1>4

\* and the first put back among the others.
LEMMA InsertComesFrom ==
  ASSUME NEW S, NEW w \in Seq(S), w # <<>>, NEW k \in 1..Len(w), NEW v,
         v = InsertAt(Tail(w), k, Head(w))
  PROVE  /\ v \in Seq(S) /\ k \in DOMAIN v /\ v[k] = w[1]
         /\ \E u : MovesUp(v, w, u, k)
<1> DEFINE t == Tail(w)
<1>1. /\ DOMAIN w = 1..Len(w) /\ Len(w) \in Nat \ {0} /\ 1 \in DOMAIN w /\ Head(w) = w[1] /\ w[1] \in S
      /\ t \in Seq(S) /\ Len(t) = Len(w) - 1 /\ \A i \in 1..(Len(w) - 1) : t[i] = w[i + 1]
      /\ DOMAIN t = 1..(Len(w) - 1)
  OBVIOUS
<1>2. v = InsertAt(t, k, Head(w))
  OBVIOUS
<1> HIDE DEF t
<1>3. k \in 1..(Len(t) + 1) /\ Head(w) \in S
  BY <1>1
<1>4. v \in Seq(S) /\ Len(v) = Len(t) + 1 /\ Inserted(v, t, k, Head(w))
  BY <1>1, <1>2, <1>3, InsertedInto
<1>5. /\ v[k] = Head(w)
      /\ \A i \in 1..(Len(t) + 1) : i # k => v[i] = t[IF i < k THEN i ELSE i - 1]
  BY <1>4 DEF Inserted
<1>6. DOMAIN v = 1..Len(w) /\ k \in DOMAIN v /\ v[k] = w[1]
  BY <1>1, <1>3, <1>4, <1>5
<1> DEFINE u == [j \in DOMAIN v |-> IF j < k THEN j + 1 ELSE j]
<1>7. \A j \in DOMAIN v : j # k => u[j] \in DOMAIN w /\ v[j] = w[u[j]] /\ u[j] # 1
  <2> TAKE j \in DOMAIN v
  <2>1. CASE j < k
    BY <1>1, <1>3, <1>5, <1>6, <2>1
  <2>2. CASE j > k
    <3>1. j - 1 \in 1..(Len(w) - 1) /\ j - 1 + 1 = j
      BY <1>1, <1>3, <1>6, <2>2
    <3>2. v[j] = t[j - 1]
      <4>1. ~(j < k) /\ j # k /\ j \in 1..(Len(t) + 1)
        BY <1>1, <1>3, <1>6, <2>2
      <4> QED BY <1>5, <4>1
    <3>3. v[j] = w[j]
      BY <1>1, <3>1, <3>2
    <3> QED BY <1>1, <1>3, <1>6, <2>2, <3>3
  <2> QED BY <1>3, <1>6, <2>1, <2>2
<1>8. \A i, j \in DOMAIN v : i < j /\ i # k /\ j # k => u[i] < u[j]
  BY <1>3, <1>6
<1> HIDE DEF u
<1>9. MovesUp(v, w, u, k)
  BY <1>7, <1>8 DEF ComesFrom, MovesUp
<1> QED BY <1>4, <1>6, <1>9

-----------------------------------------------------------------------------
(* What a queue that only lost or delivered datagrams still is. *)

\* The order stays: v comes from w, b has what arrived and at most the first of w besides, and
\* an exception in v is that first one, already in b.
Thinned(v, w, a, b, u, k) ==
  /\ ComesFrom(v, w, u, k)
  /\ 1 \in DOMAIN w
  /\ \A j \in DOMAIN v : j = k => v[j] \in b /\ v[j] = w[1]
  /\ a \subseteq b /\ b \subseteq a \union {w[1]}
  /\ b # a => \A j \in DOMAIN v : j # k => u[j] # 1

\* An element of such a queue, and where it was when it is new.
LEMMA ThinnedElement ==
  ASSUME NEW w, NEW v, NEW a, NEW b, NEW u, NEW k, Thinned(v, w, a, b, u, k),
         NEW j \in DOMAIN v
  PROVE  /\ \E i \in DOMAIN w : v[j] = w[i]
         /\ v[j] \notin b => u[j] \in DOMAIN w /\ v[j] = w[u[j]] /\ w[u[j]] \notin a /\ (b # a => u[j] # 1)
  BY DEF Thinned, ComesFrom

\* Two new elements of it were in the same order.
LEMMA ThinnedPair ==
  ASSUME NEW w, NEW v, NEW a, NEW b, NEW u, NEW k, Thinned(v, w, a, b, u, k),
         NEW i \in DOMAIN v, NEW j \in DOMAIN v, i < j, v[i] \notin b, v[j] \notin b
  PROVE  u[i] < u[j]
  BY DEF Thinned, ComesFrom

\* So the order of the queue is kept.
LEMMA OrderThins ==
  ASSUME NEW w \in Seq(Datagrams), NEW v \in Seq(Datagrams), NEW a, NEW b, NEW u, NEW k,
         NEW ch, InOrder(w, a, ch), Thinned(v, w, a, b, u, k)
  PROVE  InOrder(v, b, ch)
<1>1. Once(v, b)
  <2> SUFFICES ASSUME NEW i \in DOMAIN v, NEW j \in DOMAIN v, i < j, v[i] \notin b, v[j] \notin b
               PROVE  v[i] # v[j]
    BY DEF Once
  <2>1. u[i] \in DOMAIN w /\ v[i] = w[u[i]] /\ w[u[i]] \notin a
    BY ThinnedElement
  <2>2. u[j] \in DOMAIN w /\ v[j] = w[u[j]] /\ w[u[j]] \notin a
    BY ThinnedElement
  <2>3. u[i] < u[j]
    BY ThinnedPair
  <2> QED BY <2>1, <2>2, <2>3 DEF InOrder, Once
<1>2. InLine(v, b)
  <2> SUFFICES ASSUME NEW i \in DOMAIN v, NEW j \in DOMAIN v, i < j, v[i] \notin b, v[j] \notin b,
                      v[i].count = Fragments, v[j].count = Fragments
               PROVE  Before(v[i], v[j])
    BY DEF InLine
  <2>1. u[i] \in DOMAIN w /\ v[i] = w[u[i]] /\ w[u[i]] \notin a
    BY ThinnedElement
  <2>2. u[j] \in DOMAIN w /\ v[j] = w[u[j]] /\ w[u[j]] \notin a
    BY ThinnedElement
  <2>3. u[i] < u[j]
    BY ThinnedPair
  <2> QED BY <2>1, <2>2, <2>3 DEF InOrder, InLine
<1>3. AfterArrived(v, b)
  <2> SUFFICES ASSUME NEW d \in b, NEW j \in DOMAIN v, d.count = Fragments, v[j].count = Fragments,
                      v[j] \notin b
               PROVE  Before(d, v[j])
    BY DEF AfterArrived
  <2>1. u[j] \in DOMAIN w /\ v[j] = w[u[j]] /\ w[u[j]] \notin a /\ (b # a => u[j] # 1)
    BY ThinnedElement
  <2>2. CASE d \in a
    BY <2>1, <2>2 DEF InOrder, AfterArrived
  <2>3. CASE d \notin a
    <3>1. d = w[1] /\ 1 \in DOMAIN w /\ u[j] # 1
      BY <2>1, <2>3 DEF Thinned
    <3>2. 1 < u[j]
      BY <2>1, <3>1
    <3> QED BY <2>1, <2>3, <3>1, <3>2 DEF InOrder, InLine
  <2> QED BY <2>2, <2>3
<1>4. CutArrived(b, ch)
  <2> SUFFICES ASSUME NEW l \in DOMAIN ch, NEW d \in b, d.count = Fragments
               PROVE  Cut(d, ch[l])
    BY DEF CutArrived
  <2>1. CASE d \in a
    BY <2>1 DEF InOrder, CutArrived
  <2>2. CASE d \notin a
    BY <2>2 DEF InOrder, CutWritten, Thinned
  <2> QED BY <2>1, <2>2
<1>5. CutWritten(v, ch)
  <2> SUFFICES ASSUME NEW l \in DOMAIN ch, NEW j \in DOMAIN v, v[j].count = Fragments
               PROVE  Cut(v[j], ch[l])
    BY DEF CutWritten
  <2>1. PICK i \in DOMAIN w : v[j] = w[i]
    BY ThinnedElement
  <2> QED BY <2>1 DEF InOrder, CutWritten
<1>6. CutInLine(ch)
  BY DEF InOrder
<1> QED BY <1>1, <1>2, <1>3, <1>4, <1>5, <1>6 DEF InOrder

\* The count: places T of v that come from places R of w.
LEMMA CountThins ==
  ASSUME NEW w \in Seq(Datagrams), NEW v \in Seq(Datagrams), NEW u, NEW k, ComesFrom(v, w, u, k),
         NEW T \in SUBSET (DOMAIN v), k \notin T, NEW R \in SUBSET (DOMAIN w),
         \A j \in T : u[j] \in R
  PROVE  /\ IsFiniteSet(R) /\ Cardinality(R) \in Nat
         /\ IsFiniteSet(T) /\ Cardinality(T) \in Nat
         /\ Cardinality(T) <= Cardinality(R)
<1> DEFINE f == [j \in T |-> u[j]]
<1>1. DOMAIN v = 1..Len(v) /\ DOMAIN w = 1..Len(w) /\ Len(v) \in Nat /\ Len(w) \in Nat
  OBVIOUS
<1>2. IsFiniteSet(DOMAIN v) /\ IsFiniteSet(DOMAIN w)
  BY <1>1, FS_Interval
<1>3. IsFiniteSet(R) /\ IsFiniteSet(T)
  BY <1>2, FS_Subset
<1>4. Cardinality(R) \in Nat /\ Cardinality(T) \in Nat
  BY <1>3, FS_CardinalityType
<1>5. \A i, j \in T : i # j => u[i] # u[j]
  <2> SUFFICES ASSUME NEW i \in T, NEW j \in T, i # j
               PROVE  u[i] # u[j]
    OBVIOUS
  <2>1. i \in DOMAIN v /\ j \in DOMAIN v /\ i # k /\ j # k
    OBVIOUS
  <2>2. i \in Int /\ j \in Int /\ u[i] \in Int /\ u[j] \in Int
    BY <1>1, <2>1 DEF ComesFrom
  <2>3. CASE i < j
    BY <2>1, <2>2, <2>3 DEF ComesFrom
  <2>4. CASE j < i
    BY <2>1, <2>2, <2>4 DEF ComesFrom
  <2> QED BY <2>2, <2>3, <2>4
<1>6. f \in [T -> R]
  OBVIOUS
<1>7. \A i, j \in T : f[i] = f[j] => i = j
  BY <1>5
<1> HIDE DEF f
<1>8. f \in Injection(T, R)
  BY <1>6, <1>7 DEF Injection, IsInjective
<1> QED BY <1>3, <1>4, <1>8, FS_Injection
-----------------------------------------------------------------------------
(* Small facts. *)

\* What open() does for good: the frame is opened or was too old.
LEMMA OpenDone ==
  ASSUME DatagramInv, NEW counter \in Counters, Open(counter)
  PROVE  Done(counter)'
<1>1. DatagramTypeOK /\ WindowInv /\ WindowSize \in Nat \ {0} /\ Counters \subseteq Nat
  BY DatagramAssumption DEF DatagramInv, Counters
<1>2. CASE IsReplay(window, counter)
  <2>1. UNCHANGED <<window, opened>>
    BY <1>2 DEF Open
  <2>2. Done(counter)
    BY <1>1, <1>2 DEF IsReplay, WindowInv, DatagramTypeOK, Done
  <2> QED BY <2>1, <2>2 DEF Done
<1>3. CASE ~IsReplay(window, counter)
  <2>1. opened' = [opened EXCEPT ![counter] = @ + 1]
    BY <1>3 DEF Open
  <2>2. opened'[counter] = opened[counter] + 1 /\ opened[counter] \in Nat
    BY <1>1, <2>1 DEF DatagramTypeOK
  <2>3. opened'[counter] <= 1
    BY OpenKeepsWindow DEF WindowInv
  <2> QED BY <2>2, <2>3 DEF Done
<1> QED BY <1>2, <1>3

\* What was done stays done.
LEMMA OpenKeepsDone ==
  ASSUME DatagramInv, NEW counter \in Counters, Open(counter), NEW c \in Counters, Done(c)
  PROVE  Done(c)'
<1>1. DatagramTypeOK /\ WindowInv /\ WindowSize \in Nat \ {0} /\ Counters \subseteq Nat
  BY DatagramAssumption DEF DatagramInv, Counters
<1>2. CASE IsReplay(window, counter)
  BY <1>2 DEF Open, Done
<1>3. CASE ~IsReplay(window, counter)
  <2>1. window' = Accept(window, counter) /\ opened' = [opened EXCEPT ![counter] = @ + 1]
    BY <1>3 DEF Open
  <2>2. CASE opened[c] = 1
    <3>1. opened'[c] >= 1 /\ opened'[c] \in Nat
      BY <1>1, <2>1, <2>2 DEF DatagramTypeOK
    <3>2. opened'[c] <= 1
      BY OpenKeepsWindow DEF WindowInv
    <3> QED BY <3>1, <3>2 DEF Done
  <2>3. CASE window.seenAny /\ c + WindowSize <= window.highest
    <3>1. window'.seenAny /\ window'.highest >= window.highest
      BY <1>1, <2>1, <2>3 DEF Accept, DatagramTypeOK
    <3>2. window'.highest \in Nat
      BY OpenKeepsWindow
    <3> QED BY <1>1, <2>3, <3>1, <3>2 DEF Done, DatagramTypeOK
  <2> QED BY <2>2, <2>3 DEF Done
<1> QED BY <1>2, <1>3

\* Places are finitely many.
LEMMA CopiesAreFinite ==
  ASSUME NEW w \in Seq(Datagrams), NEW a
  PROVE  IsFiniteSet(Copies(w, a)) /\ Cardinality(Copies(w, a)) \in Nat
<1>1. IsFiniteSet(DOMAIN w)
  <2>1. DOMAIN w = 1..Len(w) /\ Len(w) \in Nat
    OBVIOUS
  <2> QED BY <2>1, FS_Interval
<1>2. Copies(w, a) \in SUBSET (DOMAIN w)
  BY DEF Copies
<1>3. IsFiniteSet(Copies(w, a))
  BY <1>1, <1>2, FS_Subset
<1> QED BY <1>3, FS_CardinalityType

\* A new datagram repeats nothing.
LEMMA CopiesStay ==
  ASSUME NEW w \in Seq(Datagrams), NEW a, NEW d \in Datagrams, d \notin a
  PROVE  Copies(Append(w, d), a) = Copies(w, a)
<1>1. /\ DOMAIN w = 1..Len(w) /\ Len(w) \in Nat
      /\ DOMAIN Append(w, d) = 1..(Len(w) + 1)
      /\ Append(w, d)[Len(w) + 1] = d
      /\ \A j \in 1..Len(w) : Append(w, d)[j] = w[j]
  OBVIOUS
<1> QED BY <1>1 DEF Copies

\* A frame stays held while its entry, what arrived and the window stay.
LEMMA HeldStays ==
  ASSUME AllHeld(wire, arrived, writeChain, inflight), inflight \in Seq(Entries),
         UNCHANGED <<arrived, inflight, window, opened>>,
         \A c \in Counters : (\E i \in 1..Fragments : Frag(c, i) \in arrived)
                                /\ Missed(wire, arrived, writeChain, c)
                               => Missed(wire, arrived, writeChain, c)',
         Spent(wire, arrived) \in Int, Spent(wire, arrived)' \in Int,
         Spent(wire, arrived) <= Spent(wire, arrived)'
  PROVE  AllHeld(wire, arrived, writeChain, inflight)'
<1> SUFFICES ASSUME NEW c \in Counters, \E i \in 1..Fragments : Frag(c, i) \in arrived',
                    ~Done(c)', ~Missed(wire, arrived, writeChain, c)'
             PROVE  \E k \in DOMAIN inflight' : Holds(inflight', arrived', c, k, Spent(wire, arrived)')
  BY DEF AllHeld
<1>1. (\E i \in 1..Fragments : Frag(c, i) \in arrived) /\ ~Done(c) /\ ~Missed(wire, arrived, writeChain, c)
  BY DEF Done
<1>2. PICK k \in DOMAIN inflight : Holds(inflight, arrived, c, k, Spent(wire, arrived))
  BY <1>1 DEF AllHeld
<1>3. Holds(inflight', arrived', c, k, Spent(wire, arrived)')
  <2>1. Len(inflight) \in Int /\ k \in Int
    OBVIOUS
  <2> QED BY <1>2, <2>1 DEF Holds
<1> QED BY <1>2, <1>3
-----------------------------------------------------------------------------
(* Sending. *)

\* Types, for use below.
LEMMA DatagramTypes ==
  ASSUME DatagramInv, ReassemblyInv
  PROVE  /\ Fragments \in Nat \ {0} /\ Slots \in Nat \ {0} /\ MaxRepeats \in Nat /\ MaxFrames \in Nat
         /\ sendCounter \in Nat /\ writeChain \in Seq(Tasks) /\ wire \in Seq(Datagrams)
         /\ repeats \in Nat /\ arrived \in SUBSET Datagrams /\ inflight \in Seq(Entries)
         /\ DOMAIN wire = 1..Len(wire) /\ Len(wire) \in Nat
         /\ DOMAIN writeChain = 1..Len(writeChain) /\ Len(writeChain) \in Nat
  BY DatagramAssumption DEF DatagramInv, DatagramTypeOK, ReassemblyInv, AllSealed, EntriesFit

\* A number for what is spent.
LEMMA SpentIsInt ==
  ASSUME DatagramInv, ReassemblyInv
  PROVE  Spent(wire, arrived) \in Int
  BY DatagramTypes, CopiesAreFinite DEF Spent

\* A datagram cut after all others is written last.
LEMMA OrderGrows ==
  ASSUME NEW w \in Seq(Datagrams), NEW a, NEW ch, InOrder(w, a, ch), NEW d \in Datagrams,
         \A j \in DOMAIN w : w[j] # d,
         d.count = Fragments => /\ \A j \in DOMAIN w : w[j].count = Fragments => Before(w[j], d)
                                /\ \A e \in a : e.count = Fragments => Before(e, d)
  PROVE  Once(Append(w, d), a) /\ InLine(Append(w, d), a) /\ AfterArrived(Append(w, d), a)
<1> DEFINE v == Append(w, d)
           n == Len(w) + 1
<1>1. /\ DOMAIN w = 1..Len(w) /\ Len(w) \in Nat /\ DOMAIN v = 1..n /\ v[n] = d
      /\ \A j \in 1..Len(w) : v[j] = w[j]
  OBVIOUS
<1> HIDE DEF v
<1>2. \A i, j \in DOMAIN v : i < j => i \in DOMAIN w /\ v[i] = w[i] /\ (j = n \/ (j \in DOMAIN w /\ v[j] = w[j]))
  BY <1>1
<1>3. Once(v, a)
  BY <1>1, <1>2 DEF InOrder, Once
<1>4. InLine(v, a)
  BY <1>1, <1>2 DEF InOrder, InLine
<1>5. AfterArrived(v, a)
  <2> SUFFICES ASSUME NEW e \in a, NEW j \in DOMAIN v, e.count = Fragments, v[j].count = Fragments,
                      v[j] \notin a
               PROVE  Before(e, v[j])
    BY DEF AfterArrived
  <2>1. CASE j = n
    BY <1>1, <2>1
  <2>2. CASE j # n
    <3>1. j \in DOMAIN w /\ v[j] = w[j]
      BY <1>1, <2>2
    <3> QED BY <3>1 DEF InOrder, AfterArrived
  <2> QED BY <2>1, <2>2
<1> QED BY <1>3, <1>4, <1>5 DEF v

\* A frame joins the queue: all that was cut, sent or arrived is of an earlier one.
LEMMA WriteReliableKeeps ==
  ASSUME DatagramInv, ReassemblyInv, WriteReliable
  PROVE  ReassemblyInv'
<1> DEFINE task == [frame |-> sendCounter, next |-> 1]
           ch   == Append(writeChain, task)
<1>1. /\ sendCounter' = sendCounter + 1 /\ writeChain' = ch
      /\ UNCHANGED <<wire, inflight, window, opened, arrived, repeats, losses>>
  BY DEF WriteReliable
<1>2. AllSealed(wire, arrived, writeChain) /\ EntriesFit(inflight, arrived)
  BY DEF ReassemblyInv
<1>3. /\ DOMAIN ch = 1..(Len(writeChain) + 1) /\ ch[Len(writeChain) + 1] = task
      /\ \A k \in 1..Len(writeChain) : ch[k] = writeChain[k]
  BY DatagramTypes
<1>t. task.frame = sendCounter /\ task.next = 1
  OBVIOUS
<1> HIDE DEF ch, task
<1>4. AllSealed(wire, arrived, writeChain)'
  <2>1. \A d \in arrived : d.frame < sendCounter + 1 /\ Placed(d)
    BY <1>2, DatagramTypes DEF AllSealed, Datagrams, Counters
  <2>2. \A j \in DOMAIN wire : wire[j].frame < sendCounter + 1 /\ Placed(wire[j])
    <3> TAKE j \in DOMAIN wire
    <3>1. wire[j] \in Datagrams
      BY DatagramTypes
    <3> QED BY <1>2, <3>1, DatagramTypes DEF AllSealed, Datagrams, Counters
  <2>3. \A k \in DOMAIN ch : ch[k].frame < sendCounter + 1 /\ ch[k].next \in 1..Fragments
    <3> TAKE k \in DOMAIN ch
    <3>1. CASE k = Len(writeChain) + 1
      BY <1>3, <1>t, <3>1, DatagramTypes
    <3>2. CASE k # Len(writeChain) + 1
      <4>1. k \in DOMAIN writeChain /\ ch[k] = writeChain[k] /\ writeChain[k] \in Tasks
        BY <1>3, <3>2, DatagramTypes
      <4> QED BY <1>2, <4>1, DatagramTypes DEF AllSealed, Tasks, Counters
    <3> QED BY <3>1, <3>2
  <2>4. arrived \subseteq Datagrams
    BY <1>2 DEF AllSealed
  <2> QED BY <1>1, <2>1, <2>2, <2>3, <2>4 DEF AllSealed, Placed
<1>5. EntriesFit(inflight, arrived)' /\ repeats' \in 0..MaxRepeats
      /\ (\A d \in arrived : d.count = 1 => Done(d.frame))'
  BY <1>1, <1>2 DEF ReassemblyInv, EntriesFit, Done, Frag
<1>6. ASSUME Fragments > 1
      PROVE  /\ InOrder(wire, arrived, writeChain)' /\ Spent(wire, arrived)' >= 0
             /\ AllHeld(wire, arrived, writeChain, inflight)'
  <2>1. InOrder(wire, arrived, writeChain) /\ Spent(wire, arrived) >= 0 /\ AllHeld(wire, arrived, writeChain, inflight)
    BY <1>6 DEF ReassemblyInv
  <2>2. InOrder(wire, arrived, ch)
    <3>1. CutArrived(arrived, ch)
      <4> SUFFICES ASSUME NEW k \in DOMAIN ch, NEW d \in arrived, d.count = Fragments
                   PROVE  Cut(d, ch[k])
        BY DEF CutArrived
      <4>1. CASE k = Len(writeChain) + 1
        BY <1>2, <1>3, <1>t, <4>1 DEF AllSealed, Cut
      <4>2. CASE k # Len(writeChain) + 1
        <5>1. k \in DOMAIN writeChain /\ ch[k] = writeChain[k]
          BY <1>3, <4>2, DatagramTypes
        <5> QED BY <2>1, <5>1 DEF InOrder, CutArrived
      <4> QED BY <4>1, <4>2
    <3>2. CutWritten(wire, ch)
      <4> SUFFICES ASSUME NEW k \in DOMAIN ch, NEW j \in DOMAIN wire, wire[j].count = Fragments
                   PROVE  Cut(wire[j], ch[k])
        BY DEF CutWritten
      <4>1. CASE k = Len(writeChain) + 1
        BY <1>2, <1>3, <1>t, <4>1 DEF AllSealed, Cut
      <4>2. CASE k # Len(writeChain) + 1
        <5>1. k \in DOMAIN writeChain /\ ch[k] = writeChain[k]
          BY <1>3, <4>2, DatagramTypes
        <5> QED BY <2>1, <5>1 DEF InOrder, CutWritten
      <4> QED BY <4>1, <4>2
    <3>3. CutInLine(ch)
      <4> SUFFICES ASSUME NEW k \in DOMAIN ch, NEW l \in DOMAIN ch, k < l
                   PROVE  ch[k].frame < ch[l].frame
        BY DEF CutInLine
      <4>1. k \in DOMAIN writeChain /\ ch[k] = writeChain[k]
        BY <1>3, DatagramTypes
      <4>2. CASE l = Len(writeChain) + 1
        BY <1>2, <1>3, <1>t, <4>1, <4>2 DEF AllSealed
      <4>3. CASE l # Len(writeChain) + 1
        <5>1. l \in DOMAIN writeChain /\ ch[l] = writeChain[l]
          BY <1>3, <4>3, DatagramTypes
        <5> QED BY <2>1, <4>1, <5>1 DEF InOrder, CutInLine
      <4> QED BY <4>2, <4>3
    <3> QED BY <2>1, <3>1, <3>2, <3>3 DEF InOrder
  <2>3. InOrder(wire, arrived, writeChain)'
    BY <1>1, <2>2 DEF InOrder, Once, InLine, AfterArrived, CutArrived, CutWritten, CutInLine, Before, Cut
  <2>4. Spent(wire, arrived)' = Spent(wire, arrived)
    BY <1>1 DEF Spent, Copies
  <2>5. ASSUME NEW c \in Counters, NEW e \in 1..Fragments, Frag(c, e) \in arrived,
               Missed(wire, arrived, writeChain, c)
        PROVE  Missed(wire, arrived, writeChain, c)'
    <3>1. c < sendCounter
      BY <1>2, <2>5 DEF AllSealed, Frag
    <3>2. PICK i \in 1..Fragments : Frag(c, i) \notin arrived /\ ~Comes(wire, writeChain, c, i)
      BY <2>5 DEF Missed
    <3>3. ~Comes(wire, ch, c, i)
      <4>1. \A k \in DOMAIN ch : ~(ch[k].frame = c /\ ch[k].next <= i)
        <5> TAKE k \in DOMAIN ch
        <5>1. CASE k = Len(writeChain) + 1
          BY <1>3, <1>t, <3>1, <5>1, DatagramTypes DEF Counters
        <5>2. CASE k # Len(writeChain) + 1
          <6>1. k \in DOMAIN writeChain /\ ch[k] = writeChain[k]
            BY <1>3, <5>2, DatagramTypes
          <6> QED BY <3>2, <6>1 DEF Comes
        <5> QED BY <5>1, <5>2
      <4> QED BY <3>2, <4>1 DEF Comes
    <3> QED BY <1>1, <3>2, <3>3 DEF Missed, Comes, Frag
  <2>6. AllHeld(wire, arrived, writeChain, inflight)'
    BY <1>1, <2>1, <2>4, <2>5, HeldStays, SpentIsInt, DatagramTypes
  <2> QED BY <2>1, <2>3, <2>4, <2>6
<1> QED BY <1>4, <1>5, <1>6 DEF ReassemblyInv

\* A datagram of the realtime channel goes past the queue: no fragment, and of a frame of its own.
LEMMA WriteRealtimeKeeps ==
  ASSUME DatagramInv, ReassemblyInv, WriteRealtime
  PROVE  ReassemblyInv'
<1> DEFINE d == [frame |-> sendCounter, index |-> 1, count |-> 1]
           w == Append(wire, d)
<1>1. /\ sendCounter' = sendCounter + 1 /\ wire' = w
      /\ UNCHANGED <<writeChain, inflight, window, opened, arrived, repeats, losses>>
  BY DEF WriteRealtime
<1>2. AllSealed(wire, arrived, writeChain) /\ EntriesFit(inflight, arrived)
  BY DEF ReassemblyInv
<1>d. d \in Datagrams
  BY DatagramTypes DEF WriteRealtime, Datagrams, Counters
<1>t. d.frame = sendCounter /\ d.index = 1 /\ d.count = 1
  OBVIOUS
<1>3. /\ DOMAIN w = 1..(Len(wire) + 1) /\ w[Len(wire) + 1] = d
      /\ \A k \in 1..Len(wire) : w[k] = wire[k]
  BY DatagramTypes
<1>n. d \notin arrived /\ \A j \in DOMAIN wire : wire[j] # d
  BY <1>2, <1>t, DatagramTypes DEF AllSealed
<1> HIDE DEF d
<1>c. Copies(w, arrived) = Copies(wire, arrived)
  BY <1>d, <1>n, CopiesStay, DatagramTypes
<1> HIDE DEF w
<1>4. AllSealed(wire, arrived, writeChain)'
  <2>1. \A e \in arrived : e.frame < sendCounter + 1 /\ Placed(e)
    BY <1>2, DatagramTypes DEF AllSealed, Datagrams, Counters
  <2>2. \A j \in DOMAIN w : w[j].frame < sendCounter + 1 /\ Placed(w[j])
    <3> TAKE j \in DOMAIN w
    <3>1. CASE j = Len(wire) + 1
      BY <1>3, <1>t, <3>1, DatagramTypes DEF Placed
    <3>2. CASE j # Len(wire) + 1
      <4>1. j \in DOMAIN wire /\ w[j] = wire[j] /\ wire[j] \in Datagrams
        BY <1>3, <3>2, DatagramTypes
      <4> QED BY <1>2, <4>1, DatagramTypes DEF AllSealed, Datagrams, Counters
    <3> QED BY <3>1, <3>2
  <2>3. \A k \in DOMAIN writeChain :
          writeChain[k].frame < sendCounter + 1 /\ writeChain[k].next \in 1..Fragments
    <3> TAKE k \in DOMAIN writeChain
    <3>1. writeChain[k] \in Tasks
      BY DatagramTypes
    <3> QED BY <1>2, <3>1, DatagramTypes DEF AllSealed, Tasks, Counters
  <2>4. arrived \subseteq Datagrams
    BY <1>2 DEF AllSealed
  <2> QED BY <1>1, <2>1, <2>2, <2>3, <2>4 DEF AllSealed, Placed
<1>5. EntriesFit(inflight, arrived)' /\ repeats' \in 0..MaxRepeats
      /\ (\A e \in arrived : e.count = 1 => Done(e.frame))'
  BY <1>1, <1>2 DEF ReassemblyInv, EntriesFit, Done, Frag
<1>6. ASSUME Fragments > 1
      PROVE  /\ InOrder(wire, arrived, writeChain)' /\ Spent(wire, arrived)' >= 0
             /\ AllHeld(wire, arrived, writeChain, inflight)'
  <2>1. InOrder(wire, arrived, writeChain) /\ Spent(wire, arrived) >= 0 /\ AllHeld(wire, arrived, writeChain, inflight)
    BY <1>6 DEF ReassemblyInv
  <2>2. d.count # Fragments
    BY <1>6, <1>t
  <2>3. Once(w, arrived) /\ InLine(w, arrived) /\ AfterArrived(w, arrived)
    BY <1>d, <1>n, <2>1, <2>2, OrderGrows, DatagramTypes DEF w
  <2>4. CutWritten(w, writeChain)
    <3> SUFFICES ASSUME NEW k \in DOMAIN writeChain, NEW j \in DOMAIN w, w[j].count = Fragments
                 PROVE  Cut(w[j], writeChain[k])
      BY DEF CutWritten
    <3>1. j \in DOMAIN wire /\ w[j] = wire[j]
      BY <1>3, <2>2, DatagramTypes
    <3> QED BY <2>1, <3>1 DEF InOrder, CutWritten
  <2>5. InOrder(w, arrived, writeChain)
    BY <2>1, <2>3, <2>4 DEF InOrder
  <2>6. InOrder(wire, arrived, writeChain)'
    BY <1>1, <2>5 DEF InOrder, Once, InLine, AfterArrived, CutArrived, CutWritten, CutInLine, Before, Cut
  <2>7. Spent(wire, arrived)' = Spent(wire, arrived)
    BY <1>1, <1>c DEF Spent, Copies
  <2>8. ASSUME NEW c \in Counters, Missed(wire, arrived, writeChain, c)
        PROVE  Missed(wire, arrived, writeChain, c)'
    <3>1. PICK i \in 1..Fragments : Frag(c, i) \notin arrived /\ ~Comes(wire, writeChain, c, i)
      BY <2>8 DEF Missed
    <3>2. ~Comes(w, writeChain, c, i)
      <4>1. \A j \in DOMAIN w : w[j] # Frag(c, i)
        <5> TAKE j \in DOMAIN w
        <5>1. CASE j = Len(wire) + 1
          BY <1>3, <2>2, <5>1 DEF Frag
        <5>2. CASE j # Len(wire) + 1
          <6>1. j \in DOMAIN wire /\ w[j] = wire[j]
            BY <1>3, <5>2, DatagramTypes
          <6> QED BY <3>1, <6>1 DEF Comes
        <5> QED BY <5>1, <5>2
      <4> QED BY <3>1, <4>1 DEF Comes
    <3> QED BY <1>1, <3>1, <3>2 DEF Missed, Comes, Frag
  <2>9. AllHeld(wire, arrived, writeChain, inflight)'
    BY <1>1, <2>1, <2>7, <2>8, HeldStays, SpentIsInt, DatagramTypes
  <2> QED BY <2>1, <2>6, <2>7, <2>9
<1> QED BY <1>4, <1>5, <1>6 DEF ReassemblyInv

\* What is left of the queue after a fragment of its first frame: the frames behind it as they
\* were and, unless that was the last fragment, the first one further on.
RestOf(rest, ch, off) ==
  /\ off = 1 <=> ch[1].next = Fragments
  /\ DOMAIN rest = 1..(Len(ch) - off)
  /\ \A l \in DOMAIN rest : l + off \in DOMAIN ch /\ rest[l].frame = ch[l + off].frame
  /\ \A l \in DOMAIN rest :
       rest[l].next = IF l + off = 1 THEN ch[1].next + 1 ELSE ch[l + off].next

\* RestOf is what writeFrame() leaves.
LEMMA QueueAfterFragment ==
  ASSUME NEW ch \in Seq(Tasks), 1 \in DOMAIN ch, NEW rest,
         rest = IF ch[1].next = Fragments THEN RemoveAt(ch, 1) ELSE [ch EXCEPT ![1].next = @ + 1]
  PROVE  \E off \in {0, 1} : RestOf(rest, ch, off)
<1>1. DOMAIN ch = 1..Len(ch) /\ Len(ch) \in Nat
  OBVIOUS
<1>2. CASE ch[1].next = Fragments
  <2>1. rest \in Seq(Tasks) /\ Len(rest) = Len(ch) - 1
    BY <1>2, RemovedFrom
  <2>2. DOMAIN rest = 1..(Len(ch) - 1)
    <3>1. DOMAIN rest = 1..Len(rest)
      BY <2>1, LenProperties
    <3> QED BY <2>1, <3>1
  <2>3. ASSUME NEW l \in DOMAIN rest
        PROVE  l + 1 \in DOMAIN ch /\ rest[l] = ch[l + 1] /\ l + 1 # 1
    <3>1. \A i \in 1..(Len(ch) - 1) : rest[i] = ch[IF i < 1 THEN i ELSE i + 1]
      BY <1>2, RemovedFrom
    <3>2. ~(l < 1)
      BY <2>2
    <3> QED BY <1>1, <2>2, <3>1, <3>2
  <2>4. RestOf(rest, ch, 1)
    BY <1>2, <2>2, <2>3 DEF RestOf
  <2> QED BY <2>4
<1>3. CASE ch[1].next # Fragments
  <2>1. rest = [ch EXCEPT ![1].next = @ + 1]
    BY <1>3
  <2>2. DOMAIN rest = DOMAIN ch /\ \A l \in DOMAIN rest : l # 1 => rest[l] = ch[l]
    BY <2>1
  <2>3. ch[1] \in Tasks
    BY <1>1
  <2>4. rest[1].frame = ch[1].frame /\ rest[1].next = ch[1].next + 1
    BY <2>1, <2>3 DEF Tasks
  <2>5. ASSUME NEW l \in DOMAIN rest
        PROVE  /\ l + 0 = l /\ l \in DOMAIN ch /\ rest[l].frame = ch[l].frame
               /\ rest[l].next = IF l = 1 THEN ch[1].next + 1 ELSE ch[l].next
    BY <1>1, <2>2, <2>4
  <2>6. DOMAIN rest = 1..(Len(ch) - 0)
    BY <1>1, <2>2
  <2>7. RestOf(rest, ch, 0)
    BY <1>3, <2>5, <2>6 DEF RestOf
  <2> QED BY <2>7
<1> QED BY <1>2, <1>3

\* Elements of the queue after a fragment, in terms of the queue before.
LEMMA RestElement ==
  ASSUME NEW ch \in Seq(Tasks), NEW rest, NEW off \in {0, 1}, RestOf(rest, ch, off),
         NEW l \in DOMAIN rest
  PROVE  /\ l \in Nat /\ l + off \in DOMAIN ch /\ rest[l].frame = ch[l + off].frame
         /\ \/ l + off # 1 /\ rest[l].next = ch[l + off].next
            \/ l + off = 1 /\ rest[l].next = ch[1].next + 1 /\ ch[1].next # Fragments
<1>1. DOMAIN ch = 1..Len(ch) /\ Len(ch) \in Nat
  OBVIOUS
<1>2. l \in Nat /\ l >= 1
  BY <1>1 DEF RestOf
<1>3. l + off = 1 => off # 1
  BY <1>2
<1> QED BY <1>2, <1>3 DEF RestOf

\* A fragment of the first frame of the queue: cut after all that travels, and before the rest.
LEMMA WriteFragmentKeeps ==
  ASSUME DatagramInv, ReassemblyInv, WriteFragment
  PROVE  ReassemblyInv'
<1> DEFINE task == writeChain[1]
           d    == [frame |-> task.frame, index |-> task.next, count |-> Fragments]
           w    == Append(wire, d)
           rest == IF writeChain[1].next = Fragments THEN RemoveAt(writeChain, 1)
                   ELSE [writeChain EXCEPT ![1].next = @ + 1]
<1>1. /\ 1 \in DOMAIN writeChain /\ wire' = w /\ writeChain' = rest
      /\ UNCHANGED <<sendCounter, inflight, window, opened, arrived, repeats, losses>>
  BY DEF WriteFragment, Turn
<1>2. AllSealed(wire, arrived, writeChain) /\ EntriesFit(inflight, arrived)
  BY DEF ReassemblyInv
<1>3. task \in Tasks /\ task.frame < sendCounter /\ task.next \in 1..Fragments
  BY <1>1, <1>2, DatagramTypes DEF AllSealed
<1>d. d \in Datagrams /\ d.frame = task.frame /\ d.index = task.next /\ d.count = Fragments
  BY <1>3, DatagramTypes DEF Datagrams, Tasks
<1>4. /\ DOMAIN w = 1..(Len(wire) + 1) /\ w[Len(wire) + 1] = d
      /\ \A k \in 1..Len(wire) : w[k] = wire[k]
  BY <1>d, DatagramTypes
<1>5. PICK off \in {0, 1} : RestOf(rest, writeChain, off)
  BY <1>1, QueueAfterFragment, DatagramTypes
<1>f. d = Frag(task.frame, task.next)
  BY DEF Frag
<1> HIDE DEF d, w, rest, task
<1>6. ASSUME NEW l \in DOMAIN rest
      PROVE  /\ l \in Nat /\ l + off \in DOMAIN writeChain /\ rest[l].frame = writeChain[l + off].frame
             /\ \/ l + off # 1 /\ rest[l].next = writeChain[l + off].next
                \/ l + off = 1 /\ rest[l].next = task.next + 1 /\ task.next # Fragments
  BY <1>5, RestElement, DatagramTypes DEF task
<1>7. AllSealed(wire, arrived, writeChain)'
  <2>1. \A j \in DOMAIN w : w[j].frame < sendCounter /\ Placed(w[j])
    <3> TAKE j \in DOMAIN w
    <3>1. CASE j = Len(wire) + 1
      BY <1>3, <1>4, <1>d, <3>1, DatagramTypes DEF Placed
    <3>2. CASE j # Len(wire) + 1
      <4>1. j \in DOMAIN wire /\ w[j] = wire[j]
        BY <1>4, <3>2, DatagramTypes
      <4> QED BY <1>2, <4>1 DEF AllSealed
    <3> QED BY <3>1, <3>2
  <2>2. \A l \in DOMAIN rest : rest[l].frame < sendCounter /\ rest[l].next \in 1..Fragments
    <3> TAKE l \in DOMAIN rest
    <3>1. l + off \in DOMAIN writeChain /\ rest[l].frame = writeChain[l + off].frame
      BY <1>6
    <3>2. writeChain[l + off].frame < sendCounter /\ writeChain[l + off].next \in 1..Fragments
      BY <1>2, <3>1 DEF AllSealed
    <3>3. CASE l + off # 1
      BY <1>6, <3>1, <3>2, <3>3
    <3>4. CASE l + off = 1
      <4>1. rest[l].next = task.next + 1 /\ task.next # Fragments
        BY <1>6, <3>4
      <4> QED BY <1>3, <3>1, <3>2, <4>1, DatagramTypes
    <3> QED BY <3>3, <3>4
  <2>3. arrived \subseteq Datagrams /\ \A e \in arrived : e.frame < sendCounter /\ Placed(e)
    BY <1>2 DEF AllSealed
  <2> QED BY <1>1, <2>1, <2>2, <2>3 DEF AllSealed, Placed
<1>8. EntriesFit(inflight, arrived)' /\ repeats' \in 0..MaxRepeats
      /\ (\A e \in arrived : e.count = 1 => Done(e.frame))'
  BY <1>1, <1>2 DEF ReassemblyInv, EntriesFit, Done, Frag
<1>9. ASSUME Fragments > 1
      PROVE  /\ InOrder(wire, arrived, writeChain)' /\ Spent(wire, arrived)' >= 0
             /\ AllHeld(wire, arrived, writeChain, inflight)'
  <2>1. InOrder(wire, arrived, writeChain) /\ Spent(wire, arrived) >= 0 /\ AllHeld(wire, arrived, writeChain, inflight)
    BY <1>9 DEF ReassemblyInv
  <2>2. \A j \in DOMAIN wire : wire[j].count = Fragments => Cut(wire[j], task)
    BY <1>1, <2>1 DEF InOrder, CutWritten, task
  <2>3. \A e \in arrived : e.count = Fragments => Cut(e, task)
    BY <1>1, <2>1 DEF InOrder, CutArrived, task
  <2>4. \A j \in DOMAIN wire : wire[j].count = Fragments => Before(wire[j], d)
    BY <1>d, <2>2 DEF Cut, Before
  <2>5. \A e \in arrived : e.count = Fragments => Before(e, d)
    BY <1>d, <2>3 DEF Cut, Before
  <2>n. ASSUME NEW e \in Datagrams, e.count = Fragments => Before(e, d)
        PROVE  e # d
    BY <1>d, <2>n, DatagramTypes DEF Before, Datagrams, Counters
  <2>6. d \notin arrived /\ \A j \in DOMAIN wire : wire[j] # d
    <3>1. \A e \in arrived : e \in Datagrams
      BY DatagramTypes
    <3>2. \A j \in DOMAIN wire : wire[j] \in Datagrams
      BY DatagramTypes
    <3> QED BY <2>4, <2>5, <2>n, <3>1, <3>2
  <2>7. Once(w, arrived) /\ InLine(w, arrived) /\ AfterArrived(w, arrived)
    BY <1>d, <2>1, <2>4, <2>5, <2>6, OrderGrows, DatagramTypes DEF w
  <2>8. ASSUME NEW e \in Datagrams, NEW l \in DOMAIN rest, Cut(e, writeChain[l + off])
        PROVE  Cut(e, rest[l])
    <3>1. l + off \in DOMAIN writeChain /\ rest[l].frame = writeChain[l + off].frame
      BY <1>6
    <3>2. CASE l + off # 1
      BY <1>6, <2>8, <3>1, <3>2 DEF Cut
    <3>3. CASE l + off = 1
      <4>1. rest[l].next = task.next + 1 /\ writeChain[l + off] = task
        BY <1>6, <3>3 DEF task
      <4>2. task.next \in Nat /\ e.index \in Nat
        BY <1>3 DEF Datagrams
      <4>3. e.index < task.next => e.index < task.next + 1
        BY <4>2
      <4> QED BY <2>8, <3>1, <4>1, <4>3 DEF Cut
    <3> QED BY <3>2, <3>3
  <2>9. CutArrived(arrived, rest)
    <3> SUFFICES ASSUME NEW l \in DOMAIN rest, NEW e \in arrived, e.count = Fragments
                 PROVE  Cut(e, rest[l])
      BY DEF CutArrived
    <3>1. e \in Datagrams /\ l + off \in DOMAIN writeChain
      BY <1>6, DatagramTypes
    <3>2. Cut(e, writeChain[l + off])
      BY <2>1, <3>1 DEF InOrder, CutArrived
    <3> QED BY <2>8, <3>1, <3>2
  <2>10. CutWritten(w, rest)
    <3> SUFFICES ASSUME NEW l \in DOMAIN rest, NEW j \in DOMAIN w, w[j].count = Fragments
                 PROVE  Cut(w[j], rest[l])
      BY DEF CutWritten
    <3>0. l \in Nat /\ l + off \in DOMAIN writeChain /\ rest[l].frame = writeChain[l + off].frame
      BY <1>6
    <3>1. CASE j # Len(wire) + 1
      <4>1. j \in DOMAIN wire /\ w[j] = wire[j] /\ wire[j] \in Datagrams
        BY <1>4, <3>1, DatagramTypes
      <4>2. Cut(wire[j], writeChain[l + off])
        BY <2>1, <3>0, <4>1 DEF InOrder, CutWritten
      <4> QED BY <2>8, <4>1, <4>2
    <3>2. CASE j = Len(wire) + 1 /\ l + off = 1
      <4>1. w[j] = d /\ rest[l].frame = task.frame /\ rest[l].next = task.next + 1 /\ task.next \in Nat
        BY <1>3, <1>4, <1>6, <3>0, <3>2 DEF task
      <4> QED BY <1>d, <4>1 DEF Cut
    <3>3. CASE j = Len(wire) + 1 /\ l + off # 1
      <4>1. w[j] = d /\ 1 < l + off
        BY <1>4, <3>0, <3>3, DatagramTypes
      <4>2. task.frame < writeChain[l + off].frame
        BY <1>1, <2>1, <3>0, <4>1 DEF InOrder, CutInLine, task
      <4> QED BY <1>d, <3>0, <4>1, <4>2 DEF Cut
    <3> QED BY <3>1, <3>2, <3>3
  <2>11. CutInLine(rest)
    <3> SUFFICES ASSUME NEW k \in DOMAIN rest, NEW l \in DOMAIN rest, k < l
                 PROVE  rest[k].frame < rest[l].frame
      BY DEF CutInLine
    <3>1. k + off \in DOMAIN writeChain /\ rest[k].frame = writeChain[k + off].frame /\ k \in Nat
      BY <1>6
    <3>2. l + off \in DOMAIN writeChain /\ rest[l].frame = writeChain[l + off].frame /\ l \in Nat
      BY <1>6
    <3>3. k + off < l + off
      BY <3>1, <3>2
    <3> QED BY <2>1, <3>1, <3>2, <3>3 DEF InOrder, CutInLine
  <2>12. InOrder(wire, arrived, writeChain)'
    <3>1. InOrder(w, arrived, rest)
      BY <2>7, <2>9, <2>10, <2>11 DEF InOrder
    <3> QED BY <1>1, <3>1
          DEF InOrder, Once, InLine, AfterArrived, CutArrived, CutWritten, CutInLine, Before, Cut
  <2>13. Spent(wire, arrived)' = Spent(wire, arrived)
    <3>1. Copies(w, arrived) = Copies(wire, arrived)
      BY <1>d, <2>6, CopiesStay, DatagramTypes DEF w
    <3> QED BY <1>1, <3>1 DEF Spent, Copies
  <2>14. ASSUME NEW c \in Counters, Missed(wire, arrived, writeChain, c)
         PROVE  Missed(wire, arrived, writeChain, c)'
    <3>1. PICK i \in 1..Fragments : Frag(c, i) \notin arrived /\ ~Comes(wire, writeChain, c, i)
      BY <2>14 DEF Missed
    <3>2. ASSUME NEW l \in DOMAIN rest, rest[l].frame = c, rest[l].next <= i
          PROVE  FALSE
      <4>1. l + off \in DOMAIN writeChain /\ writeChain[l + off].frame = c
        BY <1>6, <3>2
      <4>2. CASE l + off # 1
        BY <1>6, <3>1, <3>2, <4>1, <4>2 DEF Comes
      <4>3. CASE l + off = 1
        <5>1. rest[l].next = task.next + 1 /\ writeChain[l + off] = task /\ task.next \in Nat
          BY <1>3, <1>6, <4>3 DEF task
        <5>2. task.next <= i
          BY <3>2, <5>1
        <5> QED BY <3>1, <4>1, <5>1, <5>2 DEF Comes
      <4> QED BY <4>2, <4>3
    <3>3. ASSUME NEW j \in DOMAIN w, w[j] = Frag(c, i)
          PROVE  FALSE
      <4>1. CASE j = Len(wire) + 1
        <5>1. d = Frag(c, i)
          BY <1>4, <3>3, <4>1
        <5>2. task.frame = c /\ task.next = i
          BY <1>d, <5>1 DEF Frag
        <5>3. task.next <= i
          BY <1>3, <5>2
        <5> QED BY <1>1, <3>1, <5>2, <5>3 DEF Comes, task
      <4>2. CASE j # Len(wire) + 1
        <5>1. j \in DOMAIN wire /\ w[j] = wire[j]
          BY <1>4, <4>2, DatagramTypes
        <5> QED BY <3>1, <3>3, <5>1 DEF Comes
      <4> QED BY <4>1, <4>2
    <3>4. ~Comes(w, rest, c, i)
      BY <3>2, <3>3 DEF Comes
    <3> QED BY <1>1, <3>1, <3>4 DEF Missed, Comes, Frag
  <2>15. AllHeld(wire, arrived, writeChain, inflight)'
    BY <1>1, <2>1, <2>13, <2>14, HeldStays, SpentIsInt, DatagramTypes
  <2> QED BY <2>1, <2>12, <2>13, <2>15
<1> QED BY <1>7, <1>8, <1>9 DEF ReassemblyInv

-----------------------------------------------------------------------------
(* The link. *)

\* A datagram is lost: nothing comes that did not come before, and a copy the less.
LEMMA LoseKeeps ==
  ASSUME DatagramInv, ReassemblyInv, Lose
  PROVE  ReassemblyInv'
<1>1. UNCHANGED <<sendCounter, writeChain, inflight, window, opened, arrived, repeats>>
  BY DEF Lose
<1>2. AllSealed(wire, arrived, writeChain) /\ EntriesFit(inflight, arrived)
  BY DEF ReassemblyInv
<1>3. PICK u : wire' \in Seq(Datagrams) /\ ComesFrom(wire', wire, u, 0) /\ 1 \in DOMAIN wire
  <2>1. PICK k \in DOMAIN wire : wire' = RemoveAt(wire, k)
    BY DEF Lose
  <2>2. 1 \in DOMAIN wire
    BY <2>1, DatagramTypes
  <2>3. wire \in Seq(Datagrams)
    BY DatagramTypes
  <2> QED BY <2>1, <2>2, <2>3, LossComesFrom
<1>4. /\ DOMAIN wire' = 1..Len(wire') /\ 0 \notin DOMAIN wire'
      /\ \A j \in DOMAIN wire' : u[j] \in DOMAIN wire /\ wire'[j] = wire[u[j]]
  <2>1. DOMAIN wire' = 1..Len(wire') /\ 0 \notin DOMAIN wire'
    BY <1>3, LenProperties
  <2> QED BY <1>3, <2>1 DEF ComesFrom
<1>5. AllSealed(wire, arrived, writeChain)'
  <2>1. \A j \in DOMAIN wire' : wire'[j].frame < sendCounter /\ Placed(wire'[j])
    BY <1>2, <1>4 DEF AllSealed
  <2> QED BY <1>1, <1>2, <2>1 DEF AllSealed, Placed
<1>6. EntriesFit(inflight, arrived)' /\ repeats' \in 0..MaxRepeats
      /\ (\A e \in arrived : e.count = 1 => Done(e.frame))'
  BY <1>1, <1>2 DEF ReassemblyInv, EntriesFit, Done, Frag
<1>7. ASSUME Fragments > 1
      PROVE  /\ InOrder(wire, arrived, writeChain)' /\ Spent(wire, arrived)' >= 0
             /\ AllHeld(wire, arrived, writeChain, inflight)'
  <2>1. InOrder(wire, arrived, writeChain) /\ Spent(wire, arrived) >= 0 /\ AllHeld(wire, arrived, writeChain, inflight)
    BY <1>7 DEF ReassemblyInv
  <2>2. Thinned(wire', wire, arrived, arrived, u, 0)
    BY <1>3, <1>4 DEF Thinned
  <2>3. InOrder(wire', arrived, writeChain)
    BY <1>3, <2>1, <2>2, OrderThins, DatagramTypes
  <2>4. InOrder(wire, arrived, writeChain)'
    BY <1>1, <2>3 DEF InOrder, Once, InLine, AfterArrived, CutArrived, CutWritten, CutInLine, Before, Cut
  <2>5. Spent(wire, arrived)' \in Int /\ Spent(wire, arrived) <= Spent(wire, arrived)'
    <3>1. Copies(wire', arrived) \in SUBSET (DOMAIN wire') /\ Copies(wire, arrived) \in SUBSET (DOMAIN wire)
      BY DEF Copies
    <3>2. 0 \notin Copies(wire', arrived) /\ \A j \in Copies(wire', arrived) : u[j] \in Copies(wire, arrived)
      BY <1>4 DEF Copies
    <3>3. /\ Cardinality(Copies(wire, arrived)) \in Nat /\ Cardinality(Copies(wire', arrived)) \in Nat
          /\ Cardinality(Copies(wire', arrived)) <= Cardinality(Copies(wire, arrived))
      <4> DEFINE T == Copies(wire', arrived)
                 R == Copies(wire, arrived)
      <4>1. T \in SUBSET (DOMAIN wire') /\ R \in SUBSET (DOMAIN wire) /\ 0 \notin T /\ \A j \in T : u[j] \in R
        BY <3>1, <3>2
      <4>2. wire \in Seq(Datagrams) /\ wire' \in Seq(Datagrams) /\ ComesFrom(wire', wire, u, 0)
        BY <1>3, DatagramTypes
      <4> HIDE DEF T, R
      <4>3. Cardinality(R) \in Nat /\ Cardinality(T) \in Nat /\ Cardinality(T) <= Cardinality(R)
        BY <4>1, <4>2, CountThins
      <4> QED BY <4>3 DEF T, R
    <3>4. Spent(wire, arrived)' = repeats - Cardinality(Copies(wire', arrived))
      BY <1>1 DEF Spent, Copies
    <3> QED BY <3>3, <3>4, DatagramTypes DEF Spent
  <2>6. ASSUME NEW c \in Counters, Missed(wire, arrived, writeChain, c)
        PROVE  Missed(wire, arrived, writeChain, c)'
    <3>1. PICK i \in 1..Fragments : Frag(c, i) \notin arrived /\ ~Comes(wire, writeChain, c, i)
      BY <2>6 DEF Missed
    <3>2. ~Comes(wire', writeChain, c, i)
      BY <1>4, <3>1 DEF Comes
    <3> QED BY <1>1, <3>1, <3>2 DEF Missed, Comes, Frag
  <2>7. AllHeld(wire, arrived, writeChain, inflight)'
    BY <1>1, <2>1, <2>5, <2>6, HeldStays, SpentIsInt, DatagramTypes
  <2> QED BY <2>1, <2>4, <2>5, <2>7, SpentIsInt
<1> QED BY <1>5, <1>6, <1>7 DEF ReassemblyInv

\* The wire of a link that is left, and the entries: nothing of it is waited for.
LEMMA MigrateKeeps ==
  ASSUME DatagramInv, ReassemblyInv, Migrate
  PROVE  ReassemblyInv'
<1>1. /\ wire' = <<>> /\ inflight' = <<>> /\ arrived' = {}
      /\ UNCHANGED <<sendCounter, writeChain, window, opened, repeats>>
  BY DEF Migrate
<1>2. AllSealed(wire, arrived, writeChain)
  BY DEF ReassemblyInv
<1>3. DOMAIN wire' = {} /\ DOMAIN inflight' = {} /\ inflight' \in Seq(Entries)
  BY <1>1, EmptySeq
<1>4. AllSealed(wire, arrived, writeChain)'
  BY <1>1, <1>2, <1>3 DEF AllSealed
<1>5. EntriesFit(inflight, arrived)'
  BY <1>3 DEF EntriesFit
<1>6. repeats' \in 0..MaxRepeats /\ (\A e \in arrived : e.count = 1 => Done(e.frame))'
  BY <1>1 DEF ReassemblyInv
<1>7. ASSUME Fragments > 1
      PROVE  /\ InOrder(wire, arrived, writeChain)' /\ Spent(wire, arrived)' >= 0
             /\ AllHeld(wire, arrived, writeChain, inflight)'
  <2>1. InOrder(wire, arrived, writeChain)
    BY <1>7 DEF ReassemblyInv
  <2>2. InOrder(wire, arrived, writeChain)'
    BY <1>1, <1>3, <2>1 DEF InOrder, Once, InLine, AfterArrived, CutArrived, CutWritten, CutInLine
  <2>3. Spent(wire, arrived)' = repeats
    <3>1. Copies(wire, arrived)' = {}
      BY <1>3 DEF Copies
    <3>2. Spent(wire, arrived)' = repeats' - Cardinality(Copies(wire, arrived)')
      BY DEF Spent
    <3>3. Cardinality({}) = 0
      BY FS_EmptySet
    <3>4. Spent(wire, arrived)' = repeats' - 0
      BY <3>1, <3>2, <3>3
    <3>5. repeats' = repeats /\ repeats \in Nat
      BY <1>1, DatagramTypes
    <3> QED BY <3>4, <3>5
  <2>4. AllHeld(wire, arrived, writeChain, inflight)'
    BY <1>1 DEF AllHeld
  <2> QED BY <2>2, <2>3, <2>4, DatagramTypes
<1> QED BY <1>4, <1>5, <1>6, <1>7 DEF ReassemblyInv

\* The reassembler's oldest entry is given up, with what arrived of its frame; the others are
\* one place nearer.
LEMMA ExpireKeeps ==
  ASSUME DatagramInv, ReassemblyInv, Expire
  PROVE  ReassemblyInv'
<1> DEFINE x == Head(inflight).frame
<1>1. /\ inflight # <<>> /\ wire = <<>> /\ wire' = <<>> /\ inflight' = Tail(inflight)
      /\ arrived' = {d \in arrived : d.frame # x}
      /\ UNCHANGED <<sendCounter, writeChain, window, opened, repeats>>
  BY DEF Expire
<1>2. AllSealed(wire, arrived, writeChain) /\ EntriesFit(inflight, arrived)
  BY DEF ReassemblyInv
<1>3. /\ x = inflight[1].frame /\ 1 \in DOMAIN inflight
      /\ DOMAIN inflight = 1..Len(inflight) /\ Len(inflight) \in Nat
      /\ inflight' \in Seq(Entries) /\ Len(inflight') = Len(inflight) - 1
      /\ DOMAIN inflight' = 1..(Len(inflight) - 1)
      /\ \A k \in DOMAIN inflight' : k + 1 \in DOMAIN inflight /\ inflight'[k] = inflight[k + 1]
  BY <1>1, DatagramTypes
<1> HIDE DEF x
<1>4. \A k \in DOMAIN inflight : k # 1 => inflight[k].frame # x
  BY <1>2, <1>3 DEF EntriesFit
<1>5. \A c, i : c # x => (Frag(c, i) \in arrived' <=> Frag(c, i) \in arrived)
  BY <1>1 DEF Frag
<1>6. AllSealed(wire, arrived, writeChain)'
  BY <1>1, <1>2 DEF AllSealed, Placed
<1>7. EntriesFit(inflight, arrived)'
  <2>1. ASSUME NEW k \in DOMAIN inflight'
        PROVE  /\ inflight'[k].parts # {} /\ inflight'[k].parts # 1..Fragments
               /\ \A i \in inflight'[k].parts : Frag(inflight'[k].frame, i) \in arrived'
    <3>1. k + 1 \in DOMAIN inflight /\ inflight'[k] = inflight[k + 1] /\ k + 1 # 1
      BY <1>3
    <3>2. inflight[k + 1].frame # x
      BY <1>4, <3>1
    <3> QED BY <1>2, <1>5, <3>1, <3>2 DEF EntriesFit
  <2>2. ASSUME NEW k \in DOMAIN inflight', NEW l \in DOMAIN inflight', inflight'[k].frame = inflight'[l].frame
        PROVE  k = l
    <3>1. k + 1 \in DOMAIN inflight /\ l + 1 \in DOMAIN inflight /\ inflight[k + 1].frame = inflight[l + 1].frame
      BY <1>3, <2>2
    <3>2. k + 1 = l + 1
      BY <1>2, <3>1 DEF EntriesFit
    <3> QED BY <1>3, <3>2
  <2> QED BY <1>3, <2>1, <2>2 DEF EntriesFit, Frag
<1>8. repeats' \in 0..MaxRepeats /\ (\A e \in arrived : e.count = 1 => Done(e.frame))'
  BY <1>1 DEF ReassemblyInv, Done
<1>9. ASSUME Fragments > 1
      PROVE  /\ InOrder(wire, arrived, writeChain)' /\ Spent(wire, arrived)' >= 0
             /\ AllHeld(wire, arrived, writeChain, inflight)'
  <2>1. InOrder(wire, arrived, writeChain) /\ Spent(wire, arrived) >= 0 /\ AllHeld(wire, arrived, writeChain, inflight)
    BY <1>9 DEF ReassemblyInv
  <2>2. DOMAIN wire = {} /\ DOMAIN wire' = {}
    BY <1>1
  <2>3. InOrder(wire, arrived, writeChain)'
    <3>1. CutArrived(arrived', writeChain) /\ CutInLine(writeChain)
      BY <1>1, <2>1 DEF InOrder, CutArrived
    <3> QED BY <1>1, <2>2, <3>1
          DEF InOrder, Once, InLine, AfterArrived, CutArrived, CutWritten, CutInLine, Cut
  <2>4. Spent(wire, arrived)' = Spent(wire, arrived)
    <3>1. Copies(wire, arrived)' = {} /\ Copies(wire, arrived) = {}
      BY <2>2 DEF Copies
    <3>2. Spent(wire, arrived)' = repeats' - Cardinality(Copies(wire, arrived)')
      BY DEF Spent
    <3> QED BY <1>1, <3>1, <3>2 DEF Spent
  <2>5. AllHeld(wire, arrived, writeChain, inflight)'
    <3> SUFFICES ASSUME NEW c \in Counters, NEW e \in 1..Fragments, Frag(c, e) \in arrived',
                        ~Done(c)', ~Missed(wire, arrived, writeChain, c)'
                 PROVE  \E k \in DOMAIN inflight' : Holds(inflight', arrived', c, k, Spent(wire, arrived)')
      BY DEF AllHeld, Frag
    <3>1. c # x /\ Frag(c, e) \in arrived /\ ~Done(c)
      BY <1>1 DEF Done, Frag
    <3>2. ~Missed(wire, arrived, writeChain, c)
      <4> SUFFICES ASSUME NEW i \in 1..Fragments, Frag(c, i) \notin arrived, ~Comes(wire, writeChain, c, i)
                   PROVE  FALSE
        BY DEF Missed
      <4>1. Frag(c, i) \notin arrived'
        BY <1>1
      <4>2. ~Comes(wire', writeChain', c, i)
        BY <1>1
      <4> QED BY <4>1, <4>2 DEF Missed, Comes, Frag
    <3>3. PICK k \in DOMAIN inflight : Holds(inflight, arrived, c, k, Spent(wire, arrived))
      BY <2>1, <3>1, <3>2 DEF AllHeld
    <3>4. k # 1
      BY <1>3, <3>1, <3>3 DEF Holds
    <3>5. k - 1 \in DOMAIN inflight' /\ inflight'[k - 1] = inflight[k] /\ Len(inflight') - (k - 1) = Len(inflight) - k
      <4>1. k - 1 \in DOMAIN inflight' /\ (k - 1) + 1 = k
        BY <1>3, <3>4
      <4> QED BY <1>3, <4>1
    <3>6. \A i \in 1..Fragments : i \in inflight'[k - 1].parts <=> Frag(c, i) \in arrived'
      BY <1>5, <3>1, <3>3, <3>5 DEF Holds
    <3>7. inflight'[k - 1].frame = c /\ Len(inflight') - (k - 1) <= Spent(wire, arrived)'
      BY <2>4, <3>3, <3>5 DEF Holds
    <3> HIDE DEF Done
    <3>8. Holds(inflight', arrived', c, k - 1, Spent(wire, arrived)')
      BY <3>5, <3>6, <3>7 DEF Holds
    <3> QED BY <3>5, <3>8
  <2> QED BY <2>1, <2>3, <2>4, <2>5
<1> QED BY <1>6, <1>7, <1>8, <1>9 DEF ReassemblyInv

-----------------------------------------------------------------------------
(* Receiving: the wire. *)

\* What a delivery does to the wire: u says where each datagram was, k where the first was put
\* back, if it was.
Redelivered(u, k) ==
  /\ MovesUp(wire', wire, u, k)
  /\ \/ k \notin DOMAIN wire' /\ repeats' = repeats
     \/ k \in DOMAIN wire' /\ wire'[k] = wire[1] /\ repeats' = repeats + 1 /\ repeats < MaxRepeats

\* A delivery, in these terms.
LEMMA DeliverFacts ==
  ASSUME DatagramInv, ReassemblyInv, Deliver
  PROVE  /\ 1 \in DOMAIN wire /\ wire[1] \in Datagrams /\ Handle(wire[1])
         /\ wire' \in Seq(Datagrams) /\ DOMAIN wire' = 1..Len(wire')
         /\ arrived' = arrived \union {wire[1]}
         /\ UNCHANGED <<sendCounter, writeChain>>
         /\ \E u, k : Redelivered(u, k)
<1>1. wire \in Seq(Datagrams) /\ wire # <<>>
  BY DatagramTypes DEF Deliver
<1>2. Head(wire) = wire[1] /\ 1 \in DOMAIN wire /\ wire[1] \in Datagrams
  BY <1>1
<1>3. /\ Handle(wire[1]) /\ arrived' = arrived \union {wire[1]} /\ UNCHANGED <<sendCounter, writeChain>>
  BY <1>2 DEF Deliver
<1>4. CASE wire' = Tail(wire) /\ repeats' = repeats
  <2>1. wire' \in Seq(Datagrams)
        /\ \E u : MovesUp(wire', wire, u, 0)
    BY <1>1, <1>4, TailComesFrom
  <2>2. PICK u : MovesUp(wire', wire, u, 0)
    BY <2>1
  <2>3. DOMAIN wire' = 1..Len(wire') /\ 0 \notin DOMAIN wire'
    BY <2>1, LenProperties
  <2>4. Redelivered(u, 0)
    BY <1>4, <2>2, <2>3 DEF Redelivered
  <2> QED BY <1>2, <1>3, <2>1, <2>3, <2>4
<1>5. CASE /\ repeats < MaxRepeats /\ repeats' = repeats + 1
           /\ \E k \in 1..Len(wire) : wire' = InsertAt(Tail(wire), k, Head(wire))
  <2>1. PICK k \in 1..Len(wire) : wire' = InsertAt(Tail(wire), k, Head(wire))
    BY <1>5
  <2>2. /\ wire' \in Seq(Datagrams) /\ k \in DOMAIN wire' /\ wire'[k] = wire[1]
        /\ \E u : MovesUp(wire', wire, u, k)
    BY <1>1, <2>1, InsertComesFrom
  <2>3. PICK u : MovesUp(wire', wire, u, k)
    BY <2>2
  <2>4. DOMAIN wire' = 1..Len(wire')
    BY <2>2, LenProperties
  <2>5. Redelivered(u, k)
    BY <1>5, <2>2, <2>3 DEF Redelivered
  <2> QED BY <1>2, <1>3, <2>2, <2>4, <2>5
<1> QED BY <1>4, <1>5 DEF Deliver

\* What is on the wire afterwards was there before.
LEMMA DeliveredFromWire ==
  ASSUME DatagramInv, ReassemblyInv, Deliver, NEW j \in DOMAIN wire'
  PROVE  \E i \in DOMAIN wire : wire'[j] = wire[i]
<1>1. PICK u, k : Redelivered(u, k)
  BY DeliverFacts
<1>2. 1 \in DOMAIN wire
  BY DeliverFacts
<1> QED BY <1>1, <1>2 DEF Redelivered, MovesUp, ComesFrom

\* The order stays.
LEMMA DeliverKeepsOrder ==
  ASSUME DatagramInv, ReassemblyInv, Deliver, Fragments > 1
  PROVE  InOrder(wire, arrived, writeChain)'
<1>1. PICK u, k : Redelivered(u, k)
  BY DeliverFacts
<1>2. InOrder(wire, arrived, writeChain)
  BY DEF ReassemblyInv
<1>3. Thinned(wire', wire, arrived, arrived', u, k)
  BY <1>1, DeliverFacts DEF Thinned, Redelivered, MovesUp
<1>4. InOrder(wire', arrived', writeChain)
  BY <1>2, <1>3, OrderThins, DeliverFacts, DatagramTypes
<1> QED BY <1>4, DeliverFacts
      DEF InOrder, Once, InLine, AfterArrived, CutArrived, CutWritten, CutInLine, Before, Cut

\* A repetition that comes is spent; a datagram that comes for the first time spends none.
LEMMA DeliverSpends ==
  ASSUME DatagramInv, ReassemblyInv, Deliver, Fragments > 1
  PROVE  /\ Spent(wire, arrived)' \in Int /\ Spent(wire, arrived) <= Spent(wire, arrived)'
         /\ wire[1] \in arrived => /\ Spent(wire, arrived) + 1 <= Spent(wire, arrived)'
                                   /\ Spent(wire, arrived) + 1 <= repeats
<1>1. PICK u, k : Redelivered(u, k)
  BY DeliverFacts
<1> DEFINE C == Copies(wire, arrived)
           D == Copies(wire', arrived')
           T == D \ {k}
           R == C \ {1}
<1>2. wire \in Seq(Datagrams) /\ wire' \in Seq(Datagrams) /\ ComesFrom(wire', wire, u, k)
  BY <1>1, DeliverFacts, DatagramTypes DEF Redelivered, MovesUp
<1>3. T \in SUBSET (DOMAIN wire') /\ R \in SUBSET (DOMAIN wire) /\ k \notin T
  BY DEF Copies
<1>4. \A j \in T : u[j] \in R
  <2> SUFFICES ASSUME NEW j \in DOMAIN wire', wire'[j] \in arrived', j # k
               PROVE  u[j] \in DOMAIN wire /\ wire[u[j]] \in arrived /\ u[j] # 1
    BY DEF Copies
  <2>1. u[j] \in DOMAIN wire /\ wire'[j] = wire[u[j]] /\ u[j] # 1
    BY <1>1 DEF Redelivered, MovesUp, ComesFrom
  <2>2. CASE wire[u[j]] \notin arrived
    <3>1. wire[u[j]] = wire[1] /\ wire[1] \notin arrived /\ 1 \in DOMAIN wire
      BY <2>1, <2>2, DeliverFacts
    <3>2. 1 < u[j]
      BY <2>1, DatagramTypes
    <3> QED BY <2>1, <2>2, <3>1, <3>2 DEF ReassemblyInv, InOrder, Once
  <2> QED BY <2>1, <2>2
<1>5. IsFiniteSet(C) /\ IsFiniteSet(D) /\ Cardinality(C) \in Nat /\ Cardinality(D) \in Nat
  BY <1>2, CopiesAreFinite
<1>6. 1 \in C <=> wire[1] \in arrived
  BY DeliverFacts DEF Copies
<1>7. k \in D <=> k \in DOMAIN wire'
  BY <1>1, DeliverFacts DEF Copies, Redelivered
<1>s. Spent(wire, arrived)' = repeats' - Cardinality(D) /\ Spent(wire, arrived) = repeats - Cardinality(C)
  BY DEF Spent, Copies
<1> HIDE DEF C, D
<1>8. Cardinality(T) = IF k \in D THEN Cardinality(D) - 1 ELSE Cardinality(D)
  BY <1>5, FS_RemoveElement
<1>9. Cardinality(R) = IF 1 \in C THEN Cardinality(C) - 1 ELSE Cardinality(C)
  BY <1>5, FS_RemoveElement
<1> HIDE DEF T, R
<1>10. Cardinality(T) <= Cardinality(R) /\ Cardinality(R) \in Nat
  BY <1>2, <1>3, <1>4, CountThins
<1>11. repeats' = IF k \in D THEN repeats + 1 ELSE repeats
  BY <1>1, <1>7 DEF Redelivered
<1>r. repeats \in Nat
  BY DatagramTypes
<1>12. CASE k \in D
  BY <1>5, <1>6, <1>8, <1>9, <1>10, <1>11, <1>s, <1>r, <1>12
<1>13. CASE k \notin D
  BY <1>5, <1>6, <1>8, <1>9, <1>10, <1>11, <1>s, <1>r, <1>13
<1> QED BY <1>12, <1>13

\* A fragment that will never come still will not.
LEMMA DeliverKeepsMissed ==
  ASSUME DatagramInv, ReassemblyInv, Deliver, NEW c \in Counters, Missed(wire, arrived, writeChain, c)
  PROVE  Missed(wire, arrived, writeChain, c)'
<1>1. PICK i \in 1..Fragments : Frag(c, i) \notin arrived /\ ~Comes(wire, writeChain, c, i)
  BY DEF Missed
<1>2. Frag(c, i) \notin arrived'
  BY <1>1, DeliverFacts DEF Comes
<1>3. ~Comes(wire', writeChain', c, i)
  BY <1>1, DeliverFacts, DeliveredFromWire DEF Comes
<1> QED BY <1>2, <1>3 DEF Missed, Comes, Frag

\* What was done stays done.
LEMMA DeliverKeepsDone ==
  ASSUME DatagramInv, ReassemblyInv, Deliver, NEW c \in Counters, Done(c)
  PROVE  Done(c)'
<1>1. Handle(wire[1]) /\ wire[1].frame \in Counters
  BY DeliverFacts DEF Datagrams
<1>2. Open(wire[1].frame) \/ UNCHANGED <<window, opened>>
  BY <1>1 DEF Handle
<1>3. CASE UNCHANGED <<window, opened>>
  BY <1>3 DEF Done
<1> QED BY <1>1, <1>2, <1>3, OpenKeepsDone

-----------------------------------------------------------------------------
(* Receiving: the reassembler. *)

\* What a fragment does to the entries: it is added to the m-th,
PartAdded(fl, nl, d, m) ==
  /\ m \in DOMAIN fl /\ fl[m].frame = d.frame
  /\ nl \in Seq(Entries) /\ Len(nl) = Len(fl)
  /\ nl[m].parts = fl[m].parts \union {d.index} /\ nl[m].parts # 1..Fragments
  /\ \A j \in DOMAIN fl : nl[j].frame = fl[j].frame /\ (j # m => nl[j].parts = fl[j].parts)

\* or completes the m-th, which is taken out,
EntryTaken(fl, nl, d, m) ==
  /\ m \in DOMAIN fl /\ fl[m].frame = d.frame
  /\ nl \in Seq(Entries) /\ Len(nl) = Len(fl) - 1
  /\ \A j \in 1..(Len(fl) - 1) : nl[j] = fl[IF j < m THEN j ELSE j + 1]

\* or makes an entry, the last, when all are taken in place of the first.
EntryMade(fl, nl, d, off) ==
  /\ \A j \in DOMAIN fl : fl[j].frame # d.frame
  /\ off = 1 <=> Len(fl) >= Slots
  /\ nl \in Seq(Entries) /\ Len(nl) = Len(fl) - off + 1
  /\ nl[Len(nl)] = [frame |-> d.frame, parts |-> {d.index}]
  /\ \A j \in 1..(Len(nl) - 1) : j + off \in DOMAIN fl /\ nl[j] = fl[j + off]

\* Parts are counted as a set of numbers is.
LEMMA PartsCount ==
  ASSUME Fragments \in Nat, NEW s \in SUBSET (1..Fragments)
  PROVE  Cardinality(s) = Fragments <=> s = 1..Fragments
<1>1. IsFiniteSet(1..Fragments) /\ Cardinality(1..Fragments) = Fragments
  BY FS_Interval
<1> QED BY <1>1, FS_Subset

\* One part is one.
LEMMA OnePartCount ==
  ASSUME NEW x
  PROVE  Cardinality({x}) = 1
  BY FS_Singleton

\* push() does one of the three.
LEMMA FragmentHandled ==
  ASSUME DatagramInv, ReassemblyInv, Fragments > 1, NEW d \in Datagrams, d.count = Fragments,
         d.index \in 1..Fragments, Handle(d)
  PROVE  \/ \E m : PartAdded(inflight, inflight', d, m) /\ UNCHANGED <<window, opened>>
         \/ \E m : EntryTaken(inflight, inflight', d, m) /\ Open(d.frame)
         \/ \E off \in {0, 1} : EntryMade(inflight, inflight', d, off) /\ UNCHANGED <<window, opened>>
<1> DEFINE entries == WithEntry(d.frame)
           k       == CHOOSE j \in DOMAIN entries : entries[j].frame = d.frame
           parts   == entries[k].parts \union {d.index}
<1>1. IF Cardinality(parts) = Fragments
      THEN inflight' = RemoveAt(entries, k) /\ Open(d.frame)
      ELSE inflight' = [entries EXCEPT ![k].parts = parts] /\ UNCHANGED <<window, opened>>
  BY DatagramTypes DEF Handle
<1>2. inflight \in Seq(Entries) /\ DOMAIN inflight = 1..Len(inflight) /\ Len(inflight) \in Nat
      /\ Slots \in Nat \ {0} /\ Fragments \in Nat
  BY DatagramTypes
<1>3. CASE \E j \in DOMAIN inflight : inflight[j].frame = d.frame
  <2>1. entries = inflight
    BY <1>3 DEF WithEntry
  <2>2. k \in DOMAIN inflight /\ inflight[k].frame = d.frame
    BY <1>3, <2>1
  <2> HIDE DEF entries, k
  <2>3. inflight[k] \in Entries /\ inflight[k].parts \in SUBSET (1..Fragments)
    <3>1. inflight[k] \in Entries
      BY <1>2, <2>2
    <3> QED BY <3>1 DEF Entries
  <2>4. parts \in SUBSET (1..Fragments) /\ parts = inflight[k].parts \union {d.index}
    BY <2>1, <2>3
  <2> HIDE DEF parts
  <2>5. CASE Cardinality(parts) = Fragments
    <3>1. inflight' = RemoveAt(inflight, k) /\ Open(d.frame)
      BY <1>1, <2>1, <2>5
    <3>2. /\ inflight' \in Seq(Entries) /\ Len(inflight') = Len(inflight) - 1
          /\ \A i \in 1..(Len(inflight) - 1) : inflight'[i] = inflight[IF i < k THEN i ELSE i + 1]
      BY <1>2, <2>2, <3>1, RemovedFrom
    <3>3. EntryTaken(inflight, inflight', d, k)
      BY <2>2, <3>2 DEF EntryTaken
    <3> QED BY <3>1, <3>3
  <2>6. CASE Cardinality(parts) # Fragments
    <3>1. inflight' = [inflight EXCEPT ![k].parts = parts] /\ UNCHANGED <<window, opened>>
      BY <1>1, <2>1, <2>6
    <3> DEFINE e == [inflight[k] EXCEPT !.parts = parts]
    <3>2. e \in Entries /\ e.frame = inflight[k].frame /\ e.parts = parts
      BY <2>3, <2>4 DEF Entries
    <3>3. inflight' = [inflight EXCEPT ![k] = e]
      BY <3>1
    <3> HIDE DEF e
    <3>4. inflight' \in Seq(Entries) /\ Len(inflight') = Len(inflight)
      BY <1>2, <2>2, <3>2, <3>3, ExceptSeq
    <3>5. inflight'[k] = e /\ \A j \in DOMAIN inflight : j # k => inflight'[j] = inflight[j]
      BY <2>2, <3>3
    <3>6. parts # 1..Fragments
      BY <1>2, <2>4, <2>6, PartsCount
    <3>7. PartAdded(inflight, inflight', d, k)
      BY <2>2, <2>4, <3>2, <3>4, <3>5, <3>6 DEF PartAdded
    <3> QED BY <3>1, <3>7
  <2> QED BY <2>5, <2>6
<1>4. CASE ~\E j \in DOMAIN inflight : inflight[j].frame = d.frame
  <2> DEFINE x    == [frame |-> d.frame, parts |-> {}]
             y    == [frame |-> d.frame, parts |-> {d.index}]
             base == IF Len(inflight) >= Slots THEN Tail(inflight) ELSE inflight
             off  == IF Len(inflight) >= Slots THEN 1 ELSE 0
  <2>1. entries = Append(base, x)
    BY <1>4 DEF WithEntry
  <2>2. x \in Entries /\ x.frame = d.frame /\ x.parts = {} /\ y \in Entries
    BY DEF Entries, Datagrams
  <2>3. /\ base \in Seq(Entries) /\ Len(base) = Len(inflight) - off /\ off \in {0, 1}
        /\ DOMAIN base = 1..Len(base) /\ Len(base) \in Nat
        /\ \A j \in DOMAIN base : j + off \in DOMAIN inflight /\ base[j] = inflight[j + off]
    <3>1. CASE Len(inflight) >= Slots
      BY <1>2, <3>1
    <3>2. CASE ~(Len(inflight) >= Slots)
      BY <1>2, <3>2
    <3> QED BY <3>1, <3>2
  <2>4. off = 1 <=> Len(inflight) >= Slots
    OBVIOUS
  <2>y. y.frame = d.frame /\ y.parts = {d.index}
    OBVIOUS
  <2>x. [x EXCEPT !.parts = {d.index}] = y
    OBVIOUS
  <2> HIDE DEF base, off, x, y
  <2>5. /\ entries \in Seq(Entries) /\ DOMAIN entries = 1..(Len(base) + 1) /\ Len(entries) = Len(base) + 1
        /\ entries[Len(base) + 1] = x /\ \A j \in DOMAIN base : entries[j] = base[j]
    BY <2>1, <2>2, <2>3
  <2> HIDE DEF entries
  <2>6. \A j \in DOMAIN entries : entries[j].frame = d.frame <=> j = Len(base) + 1
    BY <1>4, <2>2, <2>3, <2>5
  <2>7. k = Len(base) + 1
    BY <2>3, <2>5, <2>6
  <2> HIDE DEF k
  <2>8. parts = {d.index}
    BY <2>2, <2>5, <2>7
  <2> HIDE DEF parts
  <2>9. Cardinality(parts) # Fragments /\ {d.index} # 1..Fragments
    <3>1. Cardinality({d.index}) = 1
      BY OnePartCount
    <3>2. {d.index} \in SUBSET (1..Fragments)
      OBVIOUS
    <3> DEFINE one == {d.index}
    <3>3. Cardinality(one) = 1 /\ one \in SUBSET (1..Fragments) /\ parts = one
      BY <2>8, <3>1, <3>2
    <3> HIDE DEF one
    <3>4. Cardinality(one) # Fragments
      BY <1>2, <3>3
    <3>5. one # 1..Fragments
      BY <1>2, <3>3, <3>4, PartsCount
    <3> QED BY <3>3, <3>4, <3>5 DEF one
  <2>10. inflight' = [entries EXCEPT ![k].parts = parts] /\ UNCHANGED <<window, opened>>
    BY <1>1, <2>9
  <2>11. inflight' = [entries EXCEPT ![k] = y]
    BY <2>5, <2>7, <2>8, <2>10, <2>x
  <2>12. k \in DOMAIN entries
    BY <2>3, <2>5, <2>7
  <2>13. inflight' \in Seq(Entries) /\ Len(inflight') = Len(entries)
    BY <2>2, <2>5, <2>11, <2>12, ExceptSeq
  <2>14. inflight'[k] = y /\ \A j \in DOMAIN entries : j # k => inflight'[j] = entries[j]
    BY <2>11, <2>12
  <2>15. ASSUME NEW j \in 1..(Len(inflight') - 1)
         PROVE  j + off \in DOMAIN inflight /\ inflight'[j] = inflight[j + off]
    <3>1. j \in DOMAIN base /\ j \in DOMAIN entries /\ j # k
      BY <2>3, <2>5, <2>7, <2>13
    <3> QED BY <2>3, <2>5, <2>14, <3>1
  <2>16. Len(inflight') = Len(inflight) - off + 1 /\ inflight'[Len(inflight')] = y
    BY <1>2, <2>3, <2>5, <2>7, <2>13, <2>14
  <2>17. EntryMade(inflight, inflight', d, off)
    BY <1>4, <2>4, <2>13, <2>15, <2>16 DEF EntryMade, y
  <2> QED BY <2>3, <2>10, <2>17
<1> QED BY <1>3, <1>4

\* The entries after each of the three.
LEMMA PartAddedFits ==
  ASSUME NEW fl, NEW a, EntriesFit(fl, a), NEW nl, NEW d, NEW m, PartAdded(fl, nl, d, m),
         NEW b, b = a \union {d}, d = Frag(d.frame, d.index)
  PROVE  EntriesFit(nl, b)
<1>1. DOMAIN nl = DOMAIN fl
  <2>1. DOMAIN nl = 1..Len(nl) /\ DOMAIN fl = 1..Len(fl)
    BY LenProperties DEF PartAdded, EntriesFit
  <2> QED BY <2>1 DEF PartAdded
<1>2. ASSUME NEW k \in DOMAIN nl
      PROVE  /\ nl[k].parts # {} /\ nl[k].parts # 1..Fragments
             /\ \A i \in nl[k].parts : Frag(nl[k].frame, i) \in b
  <2>1. CASE k = m
    <3>1. nl[k].frame = d.frame /\ fl[k].frame = d.frame /\ nl[k].parts = fl[k].parts \union {d.index}
      BY <1>1, <2>1 DEF PartAdded
    <3>2. \A i \in fl[k].parts : Frag(d.frame, i) \in a
      BY <1>1, <3>1 DEF EntriesFit
    <3> QED BY <2>1, <3>1, <3>2 DEF PartAdded
  <2>2. CASE k # m
    BY <1>1, <2>2 DEF PartAdded, EntriesFit
  <2> QED BY <2>1, <2>2
<1>3. \A k, l \in DOMAIN nl : nl[k].frame = nl[l].frame => k = l
  BY <1>1 DEF PartAdded, EntriesFit
<1>4. nl \in Seq(Entries)
  BY DEF PartAdded
<1> QED BY <1>2, <1>3, <1>4 DEF EntriesFit

\* Without the entry that was completed they fit,
LEMMA EntryTakenFits ==
  ASSUME NEW fl, NEW a, EntriesFit(fl, a), NEW nl, NEW d, NEW m, EntryTaken(fl, nl, d, m),
         NEW b, a \subseteq b
  PROVE  EntriesFit(nl, b)
<1>1. /\ DOMAIN fl = 1..Len(fl) /\ Len(fl) \in Nat /\ DOMAIN nl = 1..(Len(fl) - 1) /\ m \in 1..Len(fl)
      /\ nl \in Seq(Entries)
  <2>1. DOMAIN nl = 1..Len(nl) /\ DOMAIN fl = 1..Len(fl) /\ Len(fl) \in Nat
    BY LenProperties DEF EntryTaken, EntriesFit
  <2> QED BY <2>1 DEF EntryTaken
<1> DEFINE f(k) == IF k < m THEN k ELSE k + 1
<1>2. \A k \in DOMAIN nl : f(k) \in DOMAIN fl
  BY <1>1
<1>3. \A k \in DOMAIN nl : nl[k] = fl[f(k)]
  BY <1>1 DEF EntryTaken
<1>4. \A k, l \in DOMAIN nl : f(k) = f(l) => k = l
  BY <1>1
<1> HIDE DEF f
<1>5. ASSUME NEW k \in DOMAIN nl
      PROVE  /\ nl[k].parts # {} /\ nl[k].parts # 1..Fragments
             /\ \A i \in nl[k].parts : Frag(nl[k].frame, i) \in b
  BY <1>2, <1>3 DEF EntriesFit
<1>6. \A k, l \in DOMAIN nl : nl[k].frame = nl[l].frame => k = l
  BY <1>2, <1>3, <1>4 DEF EntriesFit
<1> QED BY <1>1, <1>5, <1>6 DEF EntriesFit

\* and with one made for a fragment.
LEMMA EntryMadeFits ==
  ASSUME Fragments \in Nat, Fragments > 1, NEW fl, NEW a, EntriesFit(fl, a), NEW nl, NEW d,
         NEW off \in {0, 1}, EntryMade(fl, nl, d, off),
         NEW b, b = a \union {d}, d = Frag(d.frame, d.index)
  PROVE  EntriesFit(nl, b)
<1>1. /\ DOMAIN fl = 1..Len(fl) /\ Len(fl) \in Nat /\ DOMAIN nl = 1..Len(nl) /\ Len(nl) \in Nat
      /\ nl \in Seq(Entries)
  BY LenProperties DEF EntryMade, EntriesFit
<1>2. {d.index} # 1..Fragments
  <2>1. 1 \in 1..Fragments /\ 2 \in 1..Fragments
    OBVIOUS
  <2> QED BY <2>1
<1>3. nl[Len(nl)].frame = d.frame /\ nl[Len(nl)].parts = {d.index}
  BY DEF EntryMade
<1>4. ASSUME NEW j \in DOMAIN nl, j # Len(nl)
      PROVE  j + off \in DOMAIN fl /\ nl[j] = fl[j + off]
  <2>1. j \in 1..(Len(nl) - 1)
    BY <1>1, <1>4
  <2> QED BY <2>1 DEF EntryMade
<1>5. ASSUME NEW k \in DOMAIN nl
      PROVE  /\ nl[k].parts # {} /\ nl[k].parts # 1..Fragments
             /\ \A i \in nl[k].parts : Frag(nl[k].frame, i) \in b
  <2>1. CASE k = Len(nl)
    BY <1>2, <1>3, <2>1
  <2>2. CASE k # Len(nl)
    <3>1. k + off \in DOMAIN fl /\ nl[k] = fl[k + off]
      BY <1>4, <2>2
    <3> QED BY <3>1 DEF EntriesFit
  <2> QED BY <2>1, <2>2
<1>6. ASSUME NEW k \in DOMAIN nl, NEW l \in DOMAIN nl, nl[k].frame = nl[l].frame
      PROVE  k = l
  <2>1. ASSUME NEW j \in DOMAIN nl, j # Len(nl)  PROVE nl[j].frame # d.frame
    BY <1>4, <2>1 DEF EntryMade
  <2>2. CASE k = Len(nl) \/ l = Len(nl)
    BY <1>3, <1>6, <2>1, <2>2
  <2>3. CASE k # Len(nl) /\ l # Len(nl)
    <3>1. k + off \in DOMAIN fl /\ nl[k] = fl[k + off] /\ l + off \in DOMAIN fl /\ nl[l] = fl[l + off]
      BY <1>4, <2>3
    <3>2. k + off = l + off
      BY <1>6, <3>1 DEF EntriesFit
    <3> QED BY <1>1, <3>2
  <2> QED BY <2>2, <2>3
<1> QED BY <1>1, <1>5, <1>6 DEF EntriesFit

\* A frame that is held after a delivery, and of which something had arrived before, was held.
LEMMA HeldBefore ==
  ASSUME DatagramInv, ReassemblyInv, Fragments > 1, Deliver, NEW c \in Counters,
         NEW e \in 1..Fragments, Frag(c, e) \in arrived,
         ~Done(c)', ~Missed(wire, arrived, writeChain, c)'
  PROVE  \E k \in DOMAIN inflight : Holds(inflight, arrived, c, k, Spent(wire, arrived))
<1>1. ~Done(c) /\ ~Missed(wire, arrived, writeChain, c)
  BY DeliverKeepsDone, DeliverKeepsMissed
<1> QED BY <1>1 DEF ReassemblyInv, AllHeld

\* When a fragment comes for the first time, no other frame is waited for: its datagrams were cut
\* before, so that they are all here or one of them is lost.
LEMMA NoOtherIsHeld ==
  ASSUME DatagramInv, ReassemblyInv, Fragments > 1, 1 \in DOMAIN wire, wire[1].count = Fragments,
         wire[1] \notin arrived, NEW c \in Counters, c # wire[1].frame,
         ~Missed(wire, arrived, writeChain, c),
         NEW k, NEW n, Holds(inflight, arrived, c, k, n)
  PROVE  FALSE
<1>1. /\ InOrder(wire, arrived, writeChain) /\ EntriesFit(inflight, arrived)
  BY DEF ReassemblyInv
<1>2. k \in DOMAIN inflight /\ inflight[k].frame = c /\ inflight[k] \in Entries
  BY DatagramTypes DEF Holds
<1>3. inflight[k].parts \in SUBSET (1..Fragments) /\ inflight[k].parts # {} /\ inflight[k].parts # 1..Fragments
  BY <1>1, <1>2 DEF EntriesFit, Entries
<1>4. PICK e \in 1..Fragments : Frag(c, e) \in arrived
  BY <1>1, <1>2, <1>3 DEF EntriesFit
<1>5. PICK i \in 1..Fragments : Frag(c, i) \notin arrived
  BY <1>3 DEF Holds
<1>6. wire[1].frame \in Nat /\ c \in Nat
  <2>1. wire[1] \in Datagrams
    BY DatagramTypes
  <2>2. wire[1].frame \in Counters
    BY <2>1 DEF Datagrams
  <2> QED BY <2>2, DatagramTypes DEF Counters
<1>7. c < wire[1].frame
  <2>1. Frag(c, e).count = Fragments /\ Frag(c, e).frame = c
    BY DEF Frag
  <2>2. Before(Frag(c, e), wire[1])
    BY <1>1, <1>4, <2>1 DEF InOrder, AfterArrived
  <2> QED BY <2>1, <2>2 DEF Before
<1>8. Comes(wire, writeChain, c, i)
  BY <1>5 DEF Missed
<1>9. CASE \E j \in DOMAIN wire : wire[j] = Frag(c, i)
  <2>1. PICK j \in DOMAIN wire : wire[j] = Frag(c, i)
    BY <1>9
  <2>2. wire[j].count = Fragments /\ wire[j].frame = c /\ wire[j] \notin arrived
    BY <1>5, <2>1 DEF Frag
  <2>3. 1 < j
    BY <2>2, DatagramTypes
  <2>4. Before(wire[1], wire[j])
    BY <1>1, <2>2, <2>3 DEF InOrder, InLine
  <2> QED BY <1>6, <1>7, <2>2, <2>4 DEF Before
<1>10. CASE \E l \in DOMAIN writeChain : writeChain[l].frame = c /\ writeChain[l].next <= i
  <2>1. PICK l \in DOMAIN writeChain : writeChain[l].frame = c
    BY <1>10
  <2>2. Cut(wire[1], writeChain[l])
    BY <1>1 DEF InOrder, CutWritten
  <2> QED BY <1>6, <1>7, <2>1, <2>2 DEF Cut
<1> QED BY <1>8, <1>9, <1>10 DEF Comes

\* Who is held after a fragment was added to an entry, as before,
LEMMA HeldAfterAdding ==
  ASSUME DatagramInv, ReassemblyInv, Fragments > 1, Deliver, wire[1] = Frag(wire[1].frame, wire[1].index),
         NEW m, PartAdded(inflight, inflight', wire[1], m)
  PROVE  AllHeld(wire, arrived, writeChain, inflight)'
<1> DEFINE d == wire[1]
<1> SUFFICES ASSUME NEW c \in Counters, NEW e \in 1..Fragments, Frag(c, e) \in arrived',
                    ~Done(c)', ~Missed(wire, arrived, writeChain, c)'
             PROVE  \E k \in DOMAIN inflight' : Holds(inflight', arrived', c, k, Spent(wire, arrived)')
  BY DEF AllHeld, Frag
<1>1. /\ DOMAIN inflight = 1..Len(inflight) /\ Len(inflight) \in Nat
      /\ DOMAIN inflight' = DOMAIN inflight /\ Len(inflight') = Len(inflight)
  <2>1. /\ DOMAIN inflight = 1..Len(inflight) /\ Len(inflight) \in Nat
        /\ DOMAIN inflight' = 1..Len(inflight')
    BY DatagramTypes, LenProperties DEF PartAdded
  <2> QED BY <2>1 DEF PartAdded
<1>2. arrived' = arrived \union {d} /\ EntriesFit(inflight, arrived)
  BY DeliverFacts DEF ReassemblyInv
<1>3. \A b, i : Frag(b, i) = d <=> b = d.frame /\ i = d.index
  BY DEF Frag
<1>4. \E i \in 1..Fragments : Frag(c, i) \in arrived
  <2>1. CASE c = d.frame
    <3>1. m \in DOMAIN inflight /\ inflight[m].frame = c /\ inflight[m] \in Entries
      BY <2>1, DatagramTypes DEF PartAdded
    <3>2. inflight[m].parts \in SUBSET (1..Fragments) /\ inflight[m].parts # {}
      BY <1>2, <3>1 DEF EntriesFit, Entries
    <3> QED BY <1>2, <3>1, <3>2 DEF EntriesFit
  <2>2. CASE c # d.frame
    BY <1>2, <1>3, <2>2
  <2> QED BY <2>1, <2>2
<1>5. PICK k \in DOMAIN inflight : Holds(inflight, arrived, c, k, Spent(wire, arrived))
  BY <1>4, HeldBefore
<1>6. inflight'[k].frame = c
  BY <1>5 DEF Holds, PartAdded
<1>7. \A i \in 1..Fragments : i \in inflight'[k].parts <=> Frag(c, i) \in arrived'
  <2>1. CASE c = d.frame
    <3>1. k = m
      BY <1>2, <1>5, <2>1 DEF Holds, PartAdded, EntriesFit
    <3>2. inflight'[k].parts = inflight[k].parts \union {d.index}
      BY <3>1 DEF PartAdded
    <3> QED BY <1>2, <1>3, <1>5, <2>1, <3>2 DEF Holds
  <2>2. CASE c # d.frame
    <3>1. k # m
      BY <1>5, <2>2 DEF Holds, PartAdded
    <3>2. inflight'[k].parts = inflight[k].parts
      BY <1>5, <3>1 DEF PartAdded
    <3> QED BY <1>2, <1>3, <1>5, <2>2, <3>2 DEF Holds
  <2> QED BY <2>1, <2>2
<1>8. Len(inflight') - k <= Spent(wire, arrived)'
  <2>1. Len(inflight) - k <= Spent(wire, arrived) /\ k \in Nat
    BY <1>1, <1>5 DEF Holds
  <2> QED BY <1>1, <2>1, DeliverSpends, SpentIsInt
<1> HIDE DEF d
<1>9. Holds(inflight', arrived', c, k, Spent(wire, arrived)')
  BY <1>1, <1>6, <1>7, <1>8 DEF Holds
<1> QED BY <1>1, <1>9

\* a frame was completed, all others still,
LEMMA HeldAfterTaking ==
  ASSUME DatagramInv, ReassemblyInv, Fragments > 1, Deliver, wire[1] = Frag(wire[1].frame, wire[1].index),
         NEW m, EntryTaken(inflight, inflight', wire[1], m), Open(wire[1].frame)
  PROVE  AllHeld(wire, arrived, writeChain, inflight)'
<1> DEFINE d == wire[1]
<1> SUFFICES ASSUME NEW c \in Counters, NEW e \in 1..Fragments, Frag(c, e) \in arrived',
                    ~Done(c)', ~Missed(wire, arrived, writeChain, c)'
             PROVE  \E k \in DOMAIN inflight' : Holds(inflight', arrived', c, k, Spent(wire, arrived)')
  BY DEF AllHeld, Frag
<1>1. /\ DOMAIN inflight = 1..Len(inflight) /\ Len(inflight) \in Nat
      /\ DOMAIN inflight' = 1..(Len(inflight) - 1) /\ Len(inflight') = Len(inflight) - 1
  <2>1. /\ DOMAIN inflight = 1..Len(inflight) /\ Len(inflight) \in Nat
        /\ DOMAIN inflight' = 1..Len(inflight')
    BY DatagramTypes, LenProperties DEF EntryTaken
  <2> QED BY <2>1 DEF EntryTaken
<1>2. arrived' = arrived \union {d}
  BY DeliverFacts
<1>3. \A b, i : Frag(b, i) = d <=> b = d.frame /\ i = d.index
  BY DEF Frag
<1>4. c # d.frame
  <2>1. d.frame \in Counters
    BY DeliverFacts DEF Datagrams
  <2> QED BY <2>1, OpenDone
<1>5. Frag(c, e) \in arrived
  BY <1>2, <1>3, <1>4
<1>6. PICK k \in DOMAIN inflight : Holds(inflight, arrived, c, k, Spent(wire, arrived))
  BY <1>5, HeldBefore
<1>7. k # m /\ m \in DOMAIN inflight
  BY <1>4, <1>6 DEF Holds, EntryTaken
<1> DEFINE l == IF k < m THEN k ELSE k - 1
<1>8. l \in DOMAIN inflight' /\ Len(inflight') - l <= Len(inflight) - k /\ l \in Int /\ k \in Int
  BY <1>1, <1>7
<1>9. inflight'[l] = inflight[k]
  <2>1. l \in 1..(Len(inflight) - 1) /\ (IF l < m THEN l ELSE l + 1) = k
    BY <1>1, <1>7
  <2> HIDE DEF l
  <2> QED BY <2>1 DEF EntryTaken
<1> HIDE DEF l, d
<1>10. inflight'[l].frame = c
  BY <1>6, <1>9 DEF Holds
<1>11. \A i \in 1..Fragments : i \in inflight'[l].parts <=> Frag(c, i) \in arrived'
  BY <1>2, <1>3, <1>4, <1>6, <1>9 DEF Holds
<1>12. Len(inflight') - l <= Spent(wire, arrived)'
  <2>1. Len(inflight) - k <= Spent(wire, arrived)
    BY <1>6 DEF Holds
  <2> QED BY <1>1, <1>8, <2>1, DeliverSpends, SpentIsInt
<1>13. Holds(inflight', arrived', c, l, Spent(wire, arrived)')
  BY <1>8, <1>10, <1>11, <1>12 DEF Holds
<1> QED BY <1>8, <1>13

\* and an entry was made: for a fragment that is new nothing else was held, and for one that is
\* repeated there is a place.
LEMMA HeldAfterMaking ==
  ASSUME MaxRepeats < Slots,
         DatagramInv, ReassemblyInv, Fragments > 1, Deliver, wire[1] = Frag(wire[1].frame, wire[1].index),
         NEW off \in {0, 1}, EntryMade(inflight, inflight', wire[1], off)
  PROVE  AllHeld(wire, arrived, writeChain, inflight)'
<1> DEFINE d == wire[1]
<1> SUFFICES ASSUME NEW c \in Counters, NEW e \in 1..Fragments, Frag(c, e) \in arrived',
                    ~Done(c)', ~Missed(wire, arrived, writeChain, c)'
             PROVE  \E k \in DOMAIN inflight' : Holds(inflight', arrived', c, k, Spent(wire, arrived)')
  BY DEF AllHeld, Frag
<1>1. /\ DOMAIN inflight = 1..Len(inflight) /\ Len(inflight) \in Nat /\ off \in Int
      /\ DOMAIN inflight' = 1..(Len(inflight) - off + 1) /\ Len(inflight') = Len(inflight) - off + 1
  <2>1. /\ DOMAIN inflight = 1..Len(inflight) /\ Len(inflight) \in Nat
        /\ DOMAIN inflight' = 1..Len(inflight')
    BY DatagramTypes, LenProperties DEF EntryMade
  <2> QED BY <2>1 DEF EntryMade
<1>2. arrived' = arrived \union {d}
  BY DeliverFacts
<1>3. \A b, i : Frag(b, i) = d <=> b = d.frame /\ i = d.index
  BY DEF Frag
<1>s. /\ Spent(wire, arrived) \in Int /\ Spent(wire, arrived)' \in Int
      /\ 0 <= Spent(wire, arrived) /\ Spent(wire, arrived) <= Spent(wire, arrived)'
  BY DeliverSpends, SpentIsInt DEF ReassemblyInv
<1>4. CASE c = d.frame
  <2>1. \A i \in 1..Fragments : Frag(c, i) \notin arrived
    <3> SUFFICES ASSUME NEW i \in 1..Fragments, Frag(c, i) \in arrived
                 PROVE  FALSE
      OBVIOUS
    <3>1. PICK k \in DOMAIN inflight : Holds(inflight, arrived, c, k, Spent(wire, arrived))
      BY HeldBefore
    <3> QED BY <1>4, <3>1 DEF Holds, EntryMade
  <2> DEFINE k == Len(inflight')
  <2>2. k \in DOMAIN inflight' /\ k - k = 0
    <3>1. off = 1 => Len(inflight) >= Slots
      BY DEF EntryMade
    <3> QED BY <1>1, <3>1, DatagramTypes
  <2>3. inflight'[k].frame = c /\ inflight'[k].parts = {d.index}
    BY <1>4 DEF EntryMade
  <2>4. \A i \in 1..Fragments : i \in inflight'[k].parts <=> Frag(c, i) \in arrived'
    BY <1>2, <1>3, <1>4, <2>1, <2>3
  <2>5. Len(inflight') - k <= Spent(wire, arrived)'
    BY <1>s, <2>2
  <2> HIDE DEF k, d
  <2>6. Holds(inflight', arrived', c, k, Spent(wire, arrived)')
    BY <2>2, <2>3, <2>4, <2>5 DEF Holds
  <2> QED BY <2>2, <2>6
<1>5. CASE c # d.frame
  <2>1. Frag(c, e) \in arrived
    BY <1>2, <1>3, <1>5
  <2>2. PICK k \in DOMAIN inflight : Holds(inflight, arrived, c, k, Spent(wire, arrived))
    BY <2>1, HeldBefore
  <2>3. d \in arrived
    <3>1. ~Missed(wire, arrived, writeChain, c)
      BY DeliverKeepsMissed
    <3>2. 1 \in DOMAIN wire /\ wire[1].count = Fragments
      BY DeliverFacts DEF Frag
    <3> QED BY <1>5, <2>2, <3>1, <3>2, NoOtherIsHeld
  <2>4. Spent(wire, arrived) + 1 <= Spent(wire, arrived)' /\ Spent(wire, arrived) + 1 <= repeats
    BY <2>3, DeliverSpends
  <2>5. Len(inflight) - k <= Spent(wire, arrived) /\ k \in Int
    BY <1>1, <2>2 DEF Holds
  <2>6. repeats <= MaxRepeats /\ repeats \in Nat /\ MaxRepeats \in Nat /\ Slots \in Nat
    BY DatagramTypes DEF ReassemblyInv
  <2>7. off = 1 => Len(inflight) >= Slots
    BY DEF EntryMade
  <2>8. k - off \in 1..(Len(inflight') - 1) /\ (k - off) + off = k
    <3>1. CASE off = 0
      BY <1>1, <3>1
    <3>2. CASE off = 1
      <4>1. k # 1
        BY <1>1, <1>s, <2>4, <2>5, <2>6, <2>7, <3>2
      <4> QED BY <1>1, <3>2, <4>1
    <3> QED BY <3>1, <3>2
  <2>9. inflight'[k - off] = inflight[k]
    <3>1. \A j \in 1..(Len(inflight') - 1) : inflight'[j] = inflight[j + off]
      BY DEF EntryMade
    <3> QED BY <2>8, <3>1
  <2>10. k - off \in DOMAIN inflight' /\ Len(inflight') - (k - off) <= Spent(wire, arrived)'
    BY <1>1, <1>s, <2>4, <2>5, <2>8
  <2>11. \A i \in 1..Fragments : i \in inflight'[k - off].parts <=> Frag(c, i) \in arrived'
    BY <1>2, <1>3, <1>5, <2>2, <2>9 DEF Holds
  <2>12. inflight'[k - off].frame = c
    BY <2>2, <2>9 DEF Holds
  <2> HIDE DEF d
  <2>13. Holds(inflight', arrived', c, k - off, Spent(wire, arrived)')
    BY <2>10, <2>11, <2>12 DEF Holds
  <2> QED BY <2>10, <2>13
<1> QED BY <1>4, <1>5

\* A datagram of the realtime channel leaves the entries alone.
LEMMA HeldAfterSingle ==
  ASSUME DatagramInv, ReassemblyInv, Fragments > 1, Deliver, wire[1].count = 1, inflight' = inflight
  PROVE  AllHeld(wire, arrived, writeChain, inflight)'
<1> SUFFICES ASSUME NEW c \in Counters, NEW e \in 1..Fragments, Frag(c, e) \in arrived',
                    ~Done(c)', ~Missed(wire, arrived, writeChain, c)'
             PROVE  \E k \in DOMAIN inflight' : Holds(inflight', arrived', c, k, Spent(wire, arrived)')
  BY DEF AllHeld, Frag
<1>1. arrived' = arrived \union {wire[1]}
  BY DeliverFacts
<1>2. \A i : Frag(c, i) \in arrived' <=> Frag(c, i) \in arrived
  BY <1>1 DEF Frag
<1>3. PICK k \in DOMAIN inflight : Holds(inflight, arrived, c, k, Spent(wire, arrived))
  BY <1>2, HeldBefore
<1>4. Len(inflight) - k <= Spent(wire, arrived)'
  <2>1. Len(inflight) - k <= Spent(wire, arrived) /\ k \in Int /\ Len(inflight) \in Int
    BY <1>3, DatagramTypes DEF Holds
  <2> QED BY <2>1, DeliverSpends, SpentIsInt
<1>5. Holds(inflight', arrived', c, k, Spent(wire, arrived)')
  BY <1>2, <1>3, <1>4 DEF Holds
<1> QED BY <1>3, <1>5

\* A delivery.
LEMMA DeliverKeeps ==
  ASSUME MaxRepeats < Slots, DatagramInv, ReassemblyInv, Deliver
  PROVE  ReassemblyInv'
<1> DEFINE d == wire[1]
<1>1. AllSealed(wire, arrived, writeChain) /\ EntriesFit(inflight, arrived)
  BY DEF ReassemblyInv
<1>2. /\ d \in Datagrams /\ d.frame \in Counters /\ 1 \in DOMAIN wire
      /\ arrived' = arrived \union {d} /\ UNCHANGED <<sendCounter, writeChain>>
  BY DeliverFacts DEF Datagrams
<1>3. d.frame < sendCounter /\ Placed(d)
  BY <1>1, <1>2 DEF AllSealed
<1>4. AllSealed(wire, arrived, writeChain)'
  <2>1. \A j \in DOMAIN wire' : wire'[j].frame < sendCounter /\ Placed(wire'[j])
    BY <1>1, DeliveredFromWire DEF AllSealed
  <2>2. \A e \in arrived' : e.frame < sendCounter /\ Placed(e)
    BY <1>1, <1>2, <1>3 DEF AllSealed
  <2>3. arrived' \subseteq Datagrams
    BY <1>1, <1>2 DEF AllSealed
  <2> QED BY <1>1, <1>2, <2>1, <2>2, <2>3 DEF AllSealed, Placed
<1>5. repeats' \in 0..MaxRepeats
  <2>1. PICK u, k : Redelivered(u, k)
    BY DeliverFacts
  <2> QED BY <2>1, DatagramTypes DEF Redelivered, ReassemblyInv
<1>6. Handle(d)
  BY DeliverFacts
<1>7. (\A e \in arrived : e.count = 1 => Done(e.frame))'
  <2> SUFFICES ASSUME NEW e \in arrived', e.count = 1
               PROVE  Done(e.frame)'
    OBVIOUS
  <2>1. CASE e \in arrived
    <3>1. Done(e.frame) /\ e.frame \in Counters
      BY <2>1, DatagramTypes DEF ReassemblyInv, Datagrams
    <3> QED BY <3>1, DeliverKeepsDone
  <2>2. CASE e = d
    <3>1. Open(d.frame)
      BY <1>6, <2>2 DEF Handle
    <3> QED BY <1>2, <2>2, <3>1, OpenDone
  <2> QED BY <1>2, <2>1, <2>2
<1>8. CASE d.count = 1
  <2>1. inflight' = inflight
    BY <1>6, <1>8 DEF Handle
  <2>2. EntriesFit(inflight, arrived)'
    BY <1>1, <1>2, <2>1 DEF EntriesFit, Frag
  <2>3. Fragments > 1 => AllHeld(wire, arrived, writeChain, inflight)'
    BY <1>8, <2>1, HeldAfterSingle
  <2>4. Fragments > 1 => Spent(wire, arrived)' >= 0
    BY DeliverSpends, SpentIsInt DEF ReassemblyInv
  <2> QED BY <1>4, <1>5, <1>7, <2>2, <2>3, <2>4, DeliverKeepsOrder DEF ReassemblyInv
<1>9. CASE d.count # 1
  <2>1. d.count = Fragments /\ d.index \in 1..Fragments /\ Fragments > 1
    BY <1>3, <1>9, DatagramTypes DEF Placed
  <2>2. d = Frag(d.frame, d.index)
    BY <1>2, <2>1 DEF Datagrams, Frag
  <2>3. Spent(wire, arrived)' >= 0
    BY <2>1, DeliverSpends, SpentIsInt DEF ReassemblyInv
  <2>4. EntriesFit(inflight, arrived)' /\ AllHeld(wire, arrived, writeChain, inflight)'
    <3>1. CASE \E m : PartAdded(inflight, inflight', d, m)
      BY <1>1, <1>2, <2>1, <2>2, <3>1, PartAddedFits, HeldAfterAdding
    <3>2. CASE \E m : EntryTaken(inflight, inflight', d, m) /\ Open(d.frame)
      BY <1>1, <1>2, <2>1, <2>2, <3>2, EntryTakenFits, HeldAfterTaking
    <3>3. CASE \E off \in {0, 1} : EntryMade(inflight, inflight', d, off)
      BY <1>1, <1>2, <2>1, <2>2, <3>3, EntryMadeFits, HeldAfterMaking, DatagramTypes
    <3> QED BY <1>2, <1>6, <2>1, <3>1, <3>2, <3>3, FragmentHandled
  <2> QED BY <1>4, <1>5, <1>7, <2>1, <2>3, <2>4, DeliverKeepsOrder DEF ReassemblyInv
<1> QED BY <1>8, <1>9

-----------------------------------------------------------------------------
(* Whole frames are opened. *)

\* Nothing is on its way yet.
LEMMA ReassemblyInit == DatagramInit => ReassemblyInv
<1> SUFFICES ASSUME DatagramInit  PROVE ReassemblyInv
  OBVIOUS
<1>1. /\ DOMAIN wire = {} /\ DOMAIN inflight = {} /\ DOMAIN writeChain = {} /\ arrived = {} /\ repeats = 0
      /\ inflight \in Seq(Entries)
  BY EmptySeq DEF DatagramInit
<1>2. Spent(wire, arrived) = 0
  <2>1. Copies(wire, arrived) = {}
    BY <1>1 DEF Copies
  <2> QED BY <1>1, <2>1, FS_EmptySet DEF Spent
<1>3. InOrder(wire, arrived, writeChain)
  BY <1>1 DEF InOrder, Once, InLine, AfterArrived, CutArrived, CutWritten, CutInLine
<1>4. AllHeld(wire, arrived, writeChain, inflight)
  BY <1>1 DEF AllHeld
<1>5. AllSealed(wire, arrived, writeChain) /\ EntriesFit(inflight, arrived)
  BY <1>1 DEF AllSealed, EntriesFit
<1> QED BY <1>1, <1>2, <1>3, <1>4, <1>5, DatagramAssumption DEF ReassemblyInv

\* Every step keeps the invariant.
LEMMA ReassemblyStepHolds ==
  ASSUME MaxRepeats < Slots
  PROVE  DatagramInv /\ ReassemblyInv /\ [DatagramNext]_datagramVars => ReassemblyInv'
<1> SUFFICES ASSUME DatagramInv, ReassemblyInv, [DatagramNext]_datagramVars  PROVE ReassemblyInv'
  OBVIOUS
<1>1. CASE UNCHANGED datagramVars
  <2>1. UNCHANGED <<sendCounter, writeChain, wire, inflight, window, opened, arrived, repeats>>
    BY <1>1 DEF datagramVars
  <2>2. AllSealed(wire, arrived, writeChain) => AllSealed(wire, arrived, writeChain)'
    BY <2>1 DEF AllSealed, Placed
  <2>3. EntriesFit(inflight, arrived) => EntriesFit(inflight, arrived)'
    BY <2>1 DEF EntriesFit, Frag
  <2>4. InOrder(wire, arrived, writeChain) => InOrder(wire, arrived, writeChain)'
    BY <2>1 DEF InOrder, Once, InLine, AfterArrived, CutArrived, CutWritten, CutInLine, Before, Cut
  <2>5. Spent(wire, arrived)' = Spent(wire, arrived)
    BY <2>1 DEF Spent, Copies
  <2>6. \A c \in Counters : Missed(wire, arrived, writeChain, c) => Missed(wire, arrived, writeChain, c)'
    BY <2>1 DEF Missed, Comes, Frag
  <2>7. AllHeld(wire, arrived, writeChain, inflight) => AllHeld(wire, arrived, writeChain, inflight)'
    BY <2>1, <2>5, <2>6, HeldStays, SpentIsInt, DatagramTypes
  <2>8. (\A d \in arrived : d.count = 1 => Done(d.frame)) => (\A d \in arrived : d.count = 1 => Done(d.frame))'
    BY <2>1 DEF Done
  <2> QED BY <2>1, <2>2, <2>3, <2>4, <2>5, <2>7, <2>8 DEF ReassemblyInv
<1> QED BY <1>1, WriteReliableKeeps, WriteRealtimeKeeps, WriteFragmentKeeps, LoseKeeps, DeliverKeeps,
           ExpireKeeps, MigrateKeeps DEF DatagramNext

\* All the fragments of a frame have arrived: it is not missed, and the entry that would hold it
\* would be complete.
LEMMA ReassemblyInvIsEnough == DatagramInv /\ ReassemblyInv => WholeIsOpened
<1> SUFFICES ASSUME DatagramInv, ReassemblyInv, NEW c \in Counters, NEW n \in {1, Fragments},
                    \A i \in 1..n : [frame |-> c, index |-> i, count |-> n] \in arrived
             PROVE  opened[c] = 1 \/ c + WindowSize <= window.highest
  BY DEF WholeIsOpened
<1>1. Fragments \in Nat \ {0}
  BY DatagramTypes
<1>2. Done(c)
  <2>1. CASE n = 1
    <3> DEFINE e == [frame |-> c, index |-> 1, count |-> 1]
    <3>1. e \in arrived /\ e.count = 1 /\ e.frame = c
      BY <2>1
    <3> QED BY <3>1 DEF ReassemblyInv
  <2>2. CASE n = Fragments /\ Fragments > 1
    <3>1. \A i \in 1..Fragments : Frag(c, i) \in arrived
      BY <2>2 DEF Frag
    <3>2. ~Missed(wire, arrived, writeChain, c) /\ 1 \in 1..Fragments
      BY <1>1, <3>1 DEF Missed
    <3> SUFFICES ASSUME ~Done(c)  PROVE FALSE
      OBVIOUS
    <3>3. PICK k \in DOMAIN inflight : Holds(inflight, arrived, c, k, Spent(wire, arrived))
      BY <2>2, <3>1, <3>2 DEF ReassemblyInv, AllHeld
    <3>4. inflight[k] \in Entries
      BY DatagramTypes
    <3>5. inflight[k].parts = 1..Fragments
      BY <3>1, <3>3, <3>4 DEF Holds, Entries
    <3> QED BY <3>5 DEF ReassemblyInv, EntriesFit
  <2> QED BY <1>1, <2>1, <2>2
<1> QED BY <1>2 DEF Done

\* WholeIsOpened, of protocol/frame.ts and the session that feeds it: a frame all of whose
\* datagrams have arrived was opened or is too old, whatever was lost, repeated or given up on
\* the way.  A repetition can make an entry of its own and push the oldest out: so the link may
\* repeat no more datagrams than leave one of the FRAGMENT_REASSEMBLY_SLOTS (96) entries.
THEOREM WholeFramesAreOpened ==
  ASSUME MaxRepeats < Slots
  PROVE  DatagramSpec => []WholeIsOpened
<1>1. DatagramInit => ReassemblyInv
  BY ReassemblyInit
<1>2. DatagramInv /\ ReassemblyInv /\ [DatagramNext]_datagramVars => ReassemblyInv'
  BY ReassemblyStepHolds
<1>3. DatagramInv /\ ReassemblyInv => WholeIsOpened
  BY ReassemblyInvIsEnough
<1> QED BY <1>1, <1>2, <1>3, DatagramInvHolds, PTL DEF DatagramSpec

=============================================================================
