--------------------------- MODULE TogetherProofs ---------------------------
(***************************************************************************)
(* Proofs about what phones do together.                                   *)
(*                                                                         *)
(* GroupMesh: a packet is delivered at most once to a member, whatever the *)
(* room's shape, its size, its rosters and its losses.  The seen-set alone *)
(* does not give it: adopt() empties the seen-set of a phone that takes a  *)
(* group from a code.  It is sound because it does so only for a phone     *)
(* that has no group, and because a phone that has heard anything never    *)
(* again is one, which depends on every snapshot that travels naming a     *)
(* host.  MeshInv says all of that.                                        *)
(*                                                                         *)
(* WatchTogether: the player of a phone does what its line says.           *)
(* applyAnchor() leaves the player alone when a line of the same epoch     *)
(* comes again, which is right only if the epoch tells the line.  It does  *)
(* so among all the lines of a session that any phone holds or has sent,   *)
(* because one phone hosts a session and counts its lines: WatchInv says   *)
(* it of what is held and under way together, whatever overtakes what.     *)
(*                                                                         *)
(* GameRoom: the counters of a session fit its board, the guest shows the  *)
(* moves the host made, and the host finds its game as it left it.  The    *)
(* host's log carries the argument.  It only grows, and it is a line of    *)
(* play (Played), so that none of its events is refused when it is read    *)
(* back; its room shows all of it and writes behind it.  Every board,      *)
(* event and snapshot that is held, logged by the guest or under way has   *)
(* the host's moves of that log, each under its number (HostMade), and     *)
(* that stays so as the log grows.  GameInv says it of all of them.        *)
(***************************************************************************)
EXTENDS GameRoom, GroupMesh, WatchTogether, SequenceTheorems, FiniteSetTheorems,
        NaturalsInduction, WellFoundedInduction, TLAPS

-----------------------------------------------------------------------------
(* The group mesh. *)

\* A snapshot of a group: whatever its members, it is not NoGroup.
IsSnapshot(g) == DOMAIN g = {"host", "epoch", "members"} /\ g.host # 0

IsMessage(m) == "type" \in DOMAIN m /\ (m.type = "state" => IsSnapshot(m.snapshot))

\* A queue of messages: members are of no type, and so the elements are their own.
IsQueue(s) == s \in Seq(ToSet(s)) /\ \A m \in ToSet(s) : IsMessage(m)

GroupsAreNamed ==
  /\ DOMAIN group = People
  /\ \A p \in People : group[p] = NoGroup \/ IsSnapshot(group[p])

AreQueues(q) == DOMAIN q = People \X People /\ \A l \in People \X People : IsQueue(q[l])

\* What a member has heard it has seen, once; and who has no group has heard nothing.
HearingInv ==
  /\ DOMAIN heard = People /\ DOMAIN seenSet = People
  /\ \A p \in People : /\ heard[p] \in Seq(seenSet[p])
                       /\ IsInjective(heard[p])
                       /\ group[p] = NoGroup => heard[p] = <<>>

MeshInv == GroupsAreNamed /\ AreQueues(pipe) /\ HearingInv

-----------------------------------------------------------------------------
(* Queues. *)

\* A sequence is a sequence of its own elements.
LEMMA OwnElements ==
  ASSUME NEW S, NEW s \in Seq(S)
  PROVE  s \in Seq(ToSet(s)) /\ ToSet(s) \subseteq S
  BY DEF ToSet

\* Nothing is under way at first.
LEMMA EmptyIsQueue == IsQueue(<<>>)
  BY DEF IsQueue, ToSet

\* Sending appends a message to a queue.
LEMMA AppendIsQueue ==
  ASSUME NEW s, IsQueue(s), NEW m, IsMessage(m)
  PROVE  IsQueue(Append(s, m))
<1> DEFINE S == ToSet(s) \cup {m}
<1>1. s \in Seq(S) /\ m \in S
  <2>1. s \in Seq(ToSet(s)) /\ ToSet(s) \subseteq S
    BY DEF IsQueue
  <2> QED BY <2>1
<1>2. \A x \in S : IsMessage(x)
  BY DEF IsQueue
<1> HIDE DEF S
<1>3. Append(s, m) \in Seq(S)
  BY <1>1
<1> QED BY <1>2, <1>3, OwnElements DEF IsQueue

\* Receiving takes the first message off.
LEMMA TailIsQueue ==
  ASSUME NEW s, IsQueue(s), s # <<>>
  PROVE  IsQueue(Tail(s)) /\ IsMessage(Head(s))
<1> DEFINE S == ToSet(s)
<1>1. s \in Seq(S) /\ \A x \in S : IsMessage(x)
  BY DEF IsQueue
<1> HIDE DEF S
<1>2. Tail(s) \in Seq(S) /\ Head(s) \in S
  BY <1>1
<1> QED BY <1>1, <1>2, OwnElements DEF IsQueue

\* Sending to several peers.
LEMMA SendingKeeps ==
  ASSUME NEW q, AreQueues(q), NEW p, NEW targets, NEW m, IsMessage(m)
  PROVE  AreQueues(Sending(q, p, targets, m))
  BY AppendIsQueue DEF AreQueues, Sending

\* broadcast() to the members of a group.
LEMMA ToMembersKeeps ==
  ASSUME NEW q, AreQueues(q), NEW p, NEW g, NEW m, IsMessage(m), NEW except
  PROVE  AreQueues(ToMembers(q, p, g, m, except))
  BY SendingKeeps DEF ToMembers

\* sendTo() one peer.
LEMMA ToPeerKeeps ==
  ASSUME NEW q, AreQueues(q), NEW p, NEW r, NEW m, IsMessage(m)
  PROVE  AreQueues(ToPeer(q, p, r, m))
  BY SendingKeeps DEF ToPeer

-----------------------------------------------------------------------------
(* Snapshots. *)

\* What announceState() sends carries a snapshot.
LEMMA StateIsMessage == ASSUME NEW g, IsSnapshot(g)  PROVE IsMessage(State(g))
  BY DEF IsMessage, State

\* A JOIN or LEAVE carries none.
LEMMA NewsIsMessage ==
  ASSUME NEW type \in {"join", "leave"}, NEW q
  PROVE  IsMessage(News(type, q))
  BY DEF IsMessage, News

\* Nor does a request for the state.
LEMMA AskIsMessage == IsMessage(Ask)
  BY DEF IsMessage, Ask

\* Having no group is no snapshot, and nobody is a member of none.
LEMMA NoGroupIsNone == ~IsSnapshot(NoGroup) /\ \A p : ~IsMember(NoGroup, p)
  BY DEF IsSnapshot, NoGroup, IsMember, Contains

\* addMember(), removeMember() and a new epoch change the members and keep the host.
LEMMA ChangesKeepSnapshots ==
  ASSUME NEW g, IsSnapshot(g), NEW q
  PROVE  IsSnapshot(Joined(g, q)) /\ IsSnapshot(Departed(g, q)) /\ IsSnapshot(Bumped(g))
<1>1. IsSnapshot(Joined(g, q))
  BY DEF IsSnapshot, Joined
<1>2. IsSnapshot(Departed(g, q))
  BY DEF IsSnapshot, Departed
<1>3. IsSnapshot(Bumped(g))
  BY DEF IsSnapshot, Bumped
<1> QED BY <1>1, <1>2, <1>3

\* A step that gives one phone a snapshot, and touches neither what is seen nor what is
\* heard.
LEMMA GroupChangeKeeps ==
  ASSUME MeshInv, NEW p \in People, NEW g, IsSnapshot(g),
         group' = [group EXCEPT ![p] = g], AreQueues(pipe'), UNCHANGED <<seenSet, heard>>
  PROVE  MeshInv'
<1>1. GroupsAreNamed'
  BY DEF MeshInv, GroupsAreNamed
<1>2. g # NoGroup
  BY NoGroupIsNone
<1>3. HearingInv'
  BY <1>2 DEF MeshInv, GroupsAreNamed, HearingInv
<1>4. (AreQueues(pipe))'
  BY DEF AreQueues
<1> QED BY <1>1, <1>3, <1>4 DEF MeshInv

\* A step that leaves the groups, what is seen and what is heard.
LEMMA TrafficKeeps ==
  ASSUME MeshInv, AreQueues(pipe'), UNCHANGED <<group, seenSet, heard>>
  PROVE  MeshInv'
<1>1. GroupsAreNamed'
  BY DEF MeshInv, GroupsAreNamed
<1>2. HearingInv'
  BY DEF MeshInv, HearingInv
<1>3. (AreQueues(pipe))'
  BY DEF AreQueues
<1> QED BY <1>1, <1>2, <1>3 DEF MeshInv

\* A new snapshot of one's own group leaves the seen-set and what was heard alone.
LEMMA NumberedKeeps ==
  ASSUME MeshInv, NEW p \in People, NEW g, IsSnapshot(g), NEW q, AreQueues(q),
         Numbered(p, g, q), UNCHANGED <<seenSet, heard>>
  PROVE  MeshInv'
<1>1. IsSnapshot(Bumped(g))
  BY ChangesKeepSnapshots
<1>2. CASE g.host = p
  <2>1. group' = [group EXCEPT ![p] = Bumped(g)] /\ pipe' = ToMembers(q, p, g, State(Bumped(g)), 0)
    BY <1>2 DEF Numbered
  <2>2. AreQueues(pipe')
    BY <1>1, <2>1, ToMembersKeeps, StateIsMessage
  <2> QED BY <1>1, <2>1, <2>2, GroupChangeKeeps
<1>3. CASE g.host # p
  <2>1. group' = [group EXCEPT ![p] = g] /\ pipe' = q
    BY <1>3 DEF Numbered
  <2> QED BY <2>1, GroupChangeKeeps
<1> QED BY <1>2, <1>3

-----------------------------------------------------------------------------
(* What the app asks of a phone. *)

\* The founders have their group, the others none, and nobody has heard anything.
LEMMA MeshInitHolds == MeshInit => MeshInv
<1> SUFFICES ASSUME MeshInit  PROVE MeshInv
  OBVIOUS
<1> PICK o \in Outings :
      /\ group = [p \in People |->
           IF Contains(o.founders, p)
             THEN [host |-> Head(o.founders), epoch |-> Len(o.founders), members |-> o.founders]
             ELSE NoGroup]
      /\ pipe = [l \in People \X People |-> <<>>]
      /\ seenSet = [p \in People |-> {}]
      /\ heard = [p \in People |-> <<>>]
  BY DEF MeshInit
<1>1. o.founders \in Seq(People)
  BY MeshAssumption
<1>2. ASSUME NEW p \in People, Contains(o.founders, p)  PROVE Head(o.founders) # 0
  <2>1. o.founders # <<>>
    BY <1>1, <1>2 DEF Contains
  <2>2. Head(o.founders) \in People
    BY <1>1, <2>1
  <2> QED BY <2>2, MeshAssumption
<1>3. GroupsAreNamed
  BY <1>2 DEF GroupsAreNamed, IsSnapshot
<1>4. AreQueues(pipe)
  BY EmptyIsQueue DEF AreQueues
<1>5. HearingInv
  BY DEF HearingInv, IsInjective
<1> QED BY <1>3, <1>4, <1>5 DEF MeshInv

\* Taking a group from a code: the seen-set is emptied, of a phone that has heard nothing.
LEMMA AdoptFromCodeKeeps ==
  ASSUME MeshInv, NEW p \in People, NEW q \in People, AdoptFromCode(p, q)
  PROVE  MeshInv'
<1>1. IsSnapshot(group[q])
  BY NoGroupIsNone DEF AdoptFromCode, MeshInv, GroupsAreNamed
<1>2. heard[p] = <<>> /\ heard' = heard /\ seenSet' = [seenSet EXCEPT ![p] = {}]
  BY DEF AdoptFromCode, MeshInv, HearingInv
<1>3. group' = [group EXCEPT ![p] = group[q]] /\ pipe' = pipe
  BY DEF AdoptFromCode
<1>4. GroupsAreNamed'
  BY <1>1, <1>3 DEF MeshInv, GroupsAreNamed
<1>5. (AreQueues(pipe))'
  BY <1>3 DEF MeshInv, AreQueues
<1>6. HearingInv'
  <2>1. DOMAIN heard' = People /\ DOMAIN seenSet' = People
    BY <1>2 DEF MeshInv, HearingInv
  <2>2. ASSUME NEW r \in People
        PROVE  /\ heard'[r] \in Seq(seenSet'[r])
               /\ IsInjective(heard'[r])
               /\ group'[r] = NoGroup => heard'[r] = <<>>
    <3>1. CASE r = p
      BY <1>2, <3>1 DEF MeshInv, HearingInv, IsInjective
    <3>2. CASE r # p
      BY <1>2, <1>3, <3>2 DEF MeshInv, HearingInv, GroupsAreNamed
    <3> QED BY <3>1, <3>2
  <2> QED BY <2>1, <2>2 DEF HearingInv
<1> QED BY <1>4, <1>5, <1>6 DEF MeshInv

\* The steps of the roster: announcing, adding, removing, promoting.
LEMMA RosterStepKeeps ==
  ASSUME MeshInv, NEW p \in People, NEW q \in People,
         \/ AnnounceSelf(p) \/ AddMember(p, q) \/ RemoveMember(p, q) \/ PromoteHost(p, q)
  PROVE  MeshInv'
<1>1. AreQueues(pipe) /\ (group[p] # NoGroup => IsSnapshot(group[p]))
  BY DEF MeshInv, GroupsAreNamed
<1>2. CASE AnnounceSelf(p)
  <2> DEFINE g == Joined(group[p], p)
  <2>1. IsSnapshot(g)
    BY <1>1, <1>2, ChangesKeepSnapshots DEF AnnounceSelf
  <2>2. /\ group' = [group EXCEPT ![p] = g] /\ UNCHANGED <<seenSet, heard>>
        /\ pipe' = ToMembers(pipe, p, g, News("join", p), 0)
    BY <1>2 DEF AnnounceSelf
  <2> HIDE DEF g
  <2>3. AreQueues(pipe')
    BY <1>1, <2>2, ToMembersKeeps, NewsIsMessage
  <2> QED BY <2>1, <2>2, <2>3, GroupChangeKeeps
<1>3. CASE AddMember(p, q)
  <2> DEFINE g == Joined(group[p], q)
             invited == ToPeer(pipe, p, q, State(g))
             queues == ToMembers(invited, p, g, News("join", q), q)
  <2>1. IsSnapshot(g)
    BY <1>1, <1>3, ChangesKeepSnapshots DEF AddMember
  <2>2. Numbered(p, g, queues) /\ UNCHANGED <<seenSet, heard>>
    BY <1>3 DEF AddMember
  <2>3. AreQueues(invited)
    BY <1>1, <2>1, ToPeerKeeps, StateIsMessage
  <2>4. AreQueues(queues)
    BY <2>3, ToMembersKeeps, NewsIsMessage
  <2> HIDE DEF g, queues
  <2> QED BY <2>1, <2>2, <2>4, NumberedKeeps
<1>4. CASE RemoveMember(p, q)
  <2> DEFINE g == Departed(group[p], q)
             queues == ToMembers(pipe, p, g, News("leave", q), 0)
  <2>1. IsSnapshot(g)
    BY <1>1, <1>4, ChangesKeepSnapshots, NoGroupIsNone DEF RemoveMember
  <2>2. /\ group' = [group EXCEPT ![p] = g] /\ UNCHANGED <<seenSet, heard>>
        /\ pipe' = ToPeer(queues, p, q, News("leave", q))
    BY <1>4 DEF RemoveMember
  <2> HIDE DEF g
  <2>3. AreQueues(queues)
    BY <1>1, ToMembersKeeps, NewsIsMessage
  <2> HIDE DEF queues
  <2>4. AreQueues(pipe')
    BY <2>2, <2>3, ToPeerKeeps, NewsIsMessage
  <2> QED BY <2>1, <2>2, <2>4, GroupChangeKeeps
<1>5. CASE PromoteHost(p, q)
  <2> DEFINE b == Bumped(group[p])
             g == [b EXCEPT !.host = q]
  <2>1. IsSnapshot(b)
    BY <1>1, <1>5, ChangesKeepSnapshots, NoGroupIsNone DEF PromoteHost
  <2>2. /\ group' = [group EXCEPT ![p] = g] /\ UNCHANGED <<seenSet, heard>>
        /\ pipe' = ToMembers(pipe, p, g, State(g), 0)
    BY <1>5 DEF PromoteHost
  <2> HIDE DEF b
  <2>3. IsSnapshot(g)
    BY <2>1, MeshAssumption DEF IsSnapshot
  <2> HIDE DEF g
  <2>4. AreQueues(pipe')
    BY <1>1, <2>2, <2>3, ToMembersKeeps, StateIsMessage
  <2> QED BY <2>2, <2>3, <2>4, GroupChangeKeeps
<1> QED BY <1>2, <1>3, <1>4, <1>5

\* A phone's own packet is seen before it leaves.
LEMMA SendPacketKeeps ==
  ASSUME MeshInv, NEW p \in People, NEW dest, SendPacket(p, dest)
  PROVE  MeshInv'
<1> DEFINE m == [type |-> "relay", id |-> left.packets, origin |-> p, dest |-> dest,
                 hops |-> MaxHops]
<1>1. /\ seenSet' = [seenSet EXCEPT ![p] = @ \cup {m.id}] /\ UNCHANGED <<group, heard>>
      /\ pipe' = Sending(pipe, p, ForwardTargets(p, m, 0), m)
  BY DEF SendPacket
<1>2. IsMessage(m)
  BY DEF IsMessage
<1> HIDE DEF m
<1>3. (AreQueues(pipe))'
  <2>1. AreQueues(pipe')
    BY <1>1, <1>2, SendingKeeps DEF MeshInv
  <2> QED BY <2>1 DEF AreQueues
<1>4. GroupsAreNamed'
  BY <1>1 DEF MeshInv, GroupsAreNamed
<1>5. HearingInv'
  <2>1. \A r \in People : seenSet[r] \subseteq seenSet'[r]
    BY <1>1 DEF MeshInv, HearingInv
  <2>2. \A r \in People : heard[r] \in Seq(seenSet'[r])
    BY <2>1 DEF MeshInv, HearingInv
  <2> QED BY <1>1, <2>2 DEF MeshInv, HearingInv
<1> QED BY <1>3, <1>4, <1>5 DEF MeshInv

-----------------------------------------------------------------------------
(* What arrives. *)

\* onState() adopts a newer snapshot, which empties no seen-set.
LEMMA OnSnapshotKeeps ==
  ASSUME MeshInv, NEW p \in People, NEW via \in People, NEW g, IsSnapshot(g),
         NEW rest, AreQueues(rest), OnSnapshot(p, via, g, rest)
  PROVE  MeshInv'
<1>1. UNCHANGED <<seenSet, heard>>
  BY DEF OnSnapshot
<1>2. CASE group' = [group EXCEPT ![p] = g] /\ pipe' = ToMembers(rest, p, g, State(g), via)
  <2>1. AreQueues(pipe')
    BY <1>2, ToMembersKeeps, StateIsMessage
  <2> QED BY <1>1, <1>2, <2>1, GroupChangeKeeps
<1>3. CASE Answers(p, via, g) /\ pipe' = ToPeer(rest, p, via, State(group[p])) /\ UNCHANGED group
  <2>1. IsSnapshot(group[p])
    BY <1>3 DEF Answers, MeshInv, GroupsAreNamed
  <2>2. AreQueues(pipe')
    BY <1>3, <2>1, ToPeerKeeps, StateIsMessage
  <2> QED BY <1>1, <1>3, <2>2, TrafficKeeps
<1>4. CASE pipe' = rest /\ UNCHANGED group
  BY <1>1, <1>4, TrafficKeeps
<1> QED BY <1>2, <1>3, <1>4 DEF OnSnapshot

\* JOIN and LEAVE change the roster of the one who hears them.
LEMMA OnNewsKeeps ==
  ASSUME MeshInv, NEW p \in People, NEW via \in People, NEW m, IsMessage(m),
         NEW rest, AreQueues(rest), OnNews(p, via, m, rest)
  PROVE  MeshInv'
<1> DEFINE g == IF m.type = "join" THEN Joined(group[p], m.who) ELSE Departed(group[p], m.who)
           queues == ToMembers(rest, p, g, m, via)
<1>1. UNCHANGED <<seenSet, heard>>
  BY DEF OnNews
<1>2. AreQueues(queues)
  BY ToMembersKeeps
<1>3. CASE Heeded(p, via, m.who) /\ IsNews(p, m)
  <2>1. Numbered(p, g, queues)
    BY <1>3 DEF OnNews
  <2>2. IsSnapshot(group[p])
    BY <1>3 DEF Heeded, MeshInv, GroupsAreNamed
  <2>3. IsSnapshot(g)
    BY <2>2, ChangesKeepSnapshots
  <2> HIDE DEF g, queues
  <2> QED BY <1>1, <1>2, <2>1, <2>3, NumberedKeeps
<1>4. CASE ~(Heeded(p, via, m.who) /\ IsNews(p, m))
  <2>1. pipe' = rest /\ UNCHANGED group
    BY <1>4 DEF OnNews
  <2> QED BY <1>1, <2>1, TrafficKeeps
<1> QED BY <1>3, <1>4

\* A packet is delivered only if it was not seen, and is seen from then on.
LEMMA OnRelayKeeps ==
  ASSUME MeshInv, NEW p \in People, NEW via \in People, NEW m, IsMessage(m), m.type = "relay",
         NEW rest, AreQueues(rest), OnRelay(p, via, m, rest)
  PROVE  MeshInv'
<1> DEFINE fresh  == Carries(p, via, m) /\ m.id \notin seenSet[p]
           onward == fresh /\ m.dest # p /\ m.hops > 1 /\ spent[p][m.origin] < RelayBudget
           on     == [m EXCEPT !.hops = @ - 1]
<1>1. /\ seenSet' = IF fresh THEN [seenSet EXCEPT ![p] = Remembered(p, m)] ELSE seenSet
      /\ heard' = IF fresh /\ m.dest \in {p, Everyone}
                    THEN [heard EXCEPT ![p] = Append(@, m.id)] ELSE heard
      /\ pipe' = IF onward THEN Sending(rest, p, ForwardTargets(p, m, via), on) ELSE rest
      /\ UNCHANGED group
  BY DEF OnRelay
<1>2. IsMessage(on)
  BY DEF IsMessage
<1>3. (AreQueues(pipe))'
  <2> HIDE DEF on, onward
  <2>1. AreQueues(pipe')
    BY <1>1, <1>2, SendingKeeps
  <2> QED BY <2>1 DEF AreQueues
<1>4. GroupsAreNamed'
  BY <1>1 DEF MeshInv, GroupsAreNamed
<1>5. HearingInv'
  <2>1. DOMAIN heard' = People /\ DOMAIN seenSet' = People
    BY <1>1 DEF MeshInv, HearingInv
  <2>2. ASSUME NEW r \in People
        PROVE  /\ heard'[r] \in Seq(seenSet'[r])
               /\ IsInjective(heard'[r])
               /\ group'[r] = NoGroup => heard'[r] = <<>>
    <3>1. /\ heard[r] \in Seq(seenSet[r]) /\ IsInjective(heard[r])
          /\ group[r] = NoGroup => heard[r] = <<>>
          /\ DOMAIN heard = People /\ DOMAIN seenSet = People
      BY DEF MeshInv, HearingInv
    <3>2. CASE r = p /\ fresh
      <4>1. /\ seenSet'[r] = seenSet[r] \cup {m.id} /\ m.id \notin seenSet[r]
            /\ heard'[r] \in {heard[r], Append(heard[r], m.id)}
        BY <1>1, <3>1, <3>2 DEF Remembered
      <4>2. group'[r] # NoGroup
        BY <1>1, <3>2 DEF Carries
      <4>3. heard[r] \in Seq(seenSet'[r]) /\ m.id \in seenSet'[r]
        BY <3>1, <4>1
      <4>4. \A i \in DOMAIN heard[r] : heard[r][i] # m.id
        BY <3>1, <4>1
      <4>5. Append(heard[r], m.id) \in Seq(seenSet'[r])
        BY <4>3, AppendProperties
      <4>6. IsInjective(Append(heard[r], m.id))
        <5>1. DOMAIN heard[r] = 1..Len(heard[r]) /\ Len(heard[r]) \in Nat
          BY <3>1
        <5>2. /\ DOMAIN Append(heard[r], m.id) = 1..(Len(heard[r]) + 1)
              /\ \A i \in 1..Len(heard[r]) : Append(heard[r], m.id)[i] = heard[r][i]
              /\ Append(heard[r], m.id)[Len(heard[r]) + 1] = m.id
          BY <3>1
        <5> DEFINE longer == Append(heard[r], m.id)
        <5> HIDE DEF fresh, longer
        <5>3. \A i, j \in 1..Len(heard[r]) : heard[r][i] = heard[r][j] => i = j
          BY <3>1, <5>1 DEF IsInjective
        <5>4. ASSUME NEW i \in 1..(Len(heard[r]) + 1), NEW j \in 1..(Len(heard[r]) + 1),
                     longer[i] = longer[j]
              PROVE  i = j
          <6>1. CASE i \in 1..Len(heard[r]) /\ j \in 1..Len(heard[r])
            BY <5>2, <5>3, <5>4, <6>1 DEF longer
          <6>2. CASE i = Len(heard[r]) + 1 /\ j \in 1..Len(heard[r])
            BY <4>4, <5>1, <5>2, <5>4, <6>2 DEF longer
          <6>3. CASE j = Len(heard[r]) + 1 /\ i \in 1..Len(heard[r])
            BY <4>4, <5>1, <5>2, <5>4, <6>3 DEF longer
          <6> QED BY <5>1, <6>1, <6>2, <6>3
        <5>5. DOMAIN longer = 1..(Len(heard[r]) + 1)
          BY <5>2 DEF longer
        <5>6. IsInjective(longer)
          BY <5>4, <5>5 DEF IsInjective
        <5> QED BY <5>6 DEF longer
      <4> QED BY <3>1, <4>1, <4>2, <4>3, <4>5, <4>6
    <3>3. CASE ~(r = p /\ fresh)
      <4>1. heard'[r] = heard[r] /\ seenSet'[r] = seenSet[r] /\ group'[r] = group[r]
        BY <1>1, <3>1, <3>3
      <4> QED BY <3>1, <4>1
    <3> QED BY <3>2, <3>3
  <2> QED BY <2>1, <2>2 DEF HearingInv
<1> QED BY <1>3, <1>4, <1>5 DEF MeshInv

\* A message of the group is taken off its queue and handled.
LEMMA TakeGroupMessageKeeps ==
  ASSUME MeshInv, NEW p \in People, NEW via \in People, TakeGroupMessage(via, p)
  PROVE  MeshInv'
<1> DEFINE l    == <<via, p>>
           m    == Head(pipe[l])
           rest == [pipe EXCEPT ![l] = Tail(@)]
<1>1. IsQueue(pipe[l]) /\ pipe[l] # <<>> /\ l \in People \X People
  BY DEF TakeGroupMessage, MeshInv, AreQueues
<1>2. IsMessage(m) /\ IsQueue(Tail(pipe[l]))
  BY <1>1, TailIsQueue
<1>3. AreQueues(rest)
  BY <1>2 DEF MeshInv, AreQueues
<1>4. \/ m.type = "state" /\ OnSnapshot(p, via, m.snapshot, rest)
      \/ m.type \in {"join", "leave"} /\ OnNews(p, via, m, rest)
      \/ m.type = "ask" /\ OnStateRequest(p, via, rest)
      \/ m.type = "relay" /\ OnRelay(p, via, m, rest)
  BY DEF TakeGroupMessage
<1> HIDE DEF m, rest
<1>5. CASE m.type = "state" /\ OnSnapshot(p, via, m.snapshot, rest)
  BY <1>2, <1>3, <1>5, OnSnapshotKeeps DEF IsMessage
<1>6. CASE OnNews(p, via, m, rest)
  BY <1>2, <1>3, <1>6, OnNewsKeeps
<1>7. CASE OnStateRequest(p, via, rest)
  <2>1. group[p] # NoGroup => IsSnapshot(group[p])
    BY DEF MeshInv, GroupsAreNamed
  <2>2. AreQueues(pipe') /\ UNCHANGED <<group, seenSet, heard>>
    BY <1>3, <1>7, <2>1, ToPeerKeeps, StateIsMessage DEF OnStateRequest
  <2> QED BY <2>2, TrafficKeeps
<1>8. CASE m.type = "relay" /\ OnRelay(p, via, m, rest)
  BY <1>2, <1>3, <1>8, OnRelayKeeps
<1> QED BY <1>4, <1>5, <1>6, <1>7, <1>8

\* Leaving, asking, the window of the rate limit, and going out of reach.
LEMMA TrafficStepKeeps ==
  ASSUME MeshInv, NEW p \in People, NEW q \in People,
         \/ LeaveGroup(p) \/ RequestState(p) \/ NewWindow(p, q)
         \/ OutOfReach(p, q) \/ BackInReach(p, q)
  PROVE  MeshInv'
<1>1. AreQueues(pipe)
  BY DEF MeshInv
<1>2. CASE LeaveGroup(p)
  <2>1. AreQueues(pipe') /\ UNCHANGED <<group, seenSet, heard>>
    BY <1>1, <1>2, ToMembersKeeps, NewsIsMessage DEF LeaveGroup
  <2> QED BY <2>1, TrafficKeeps
<1>3. CASE RequestState(p)
  <2>1. AreQueues(pipe') /\ UNCHANGED <<group, seenSet, heard>>
    BY <1>1, <1>3, ToMembersKeeps, AskIsMessage DEF RequestState
  <2> QED BY <2>1, TrafficKeeps
<1>4. CASE NewWindow(p, q) \/ BackInReach(p, q)
  BY <1>1, <1>4, TrafficKeeps DEF NewWindow, BackInReach
<1>5. CASE OutOfReach(p, q)
  <2>1. /\ pipe' = [pipe EXCEPT ![<<p, q>>] = <<>>, ![<<q, p>>] = <<>>]
        /\ UNCHANGED <<group, seenSet, heard>>
    BY <1>5 DEF OutOfReach
  <2>2. AreQueues(pipe')
    BY <1>1, <2>1, EmptyIsQueue DEF AreQueues
  <2> QED BY <2>1, <2>2, TrafficKeeps
<1> QED BY <1>2, <1>3, <1>4, <1>5

-----------------------------------------------------------------------------
\* Every step of the mesh keeps the invariant.
LEMMA MeshStepHolds == MeshInv /\ [MeshNext]_meshVars => MeshInv'
<1> SUFFICES ASSUME MeshInv, [MeshNext]_meshVars  PROVE MeshInv'
  OBVIOUS
<1>1. CASE UNCHANGED meshVars
  BY <1>1, TrafficKeeps DEF meshVars, MeshInv
<1>2. CASE MeshNext
  <2> PICK p \in People, q \in People :
        \/ TakeGroupMessage(p, q) \/ AdoptFromCode(p, q) \/ AnnounceSelf(p)
        \/ AddMember(p, q) \/ RemoveMember(p, q) \/ LeaveGroup(p) \/ RequestState(p)
        \/ PromoteHost(p, q) \/ SendPacket(p, q) \/ SendPacket(p, Everyone)
        \/ NewWindow(p, q) \/ OutOfReach(p, q) \/ BackInReach(p, q)
    BY <1>2 DEF MeshNext
  <2> QED BY TakeGroupMessageKeeps, AdoptFromCodeKeeps, RosterStepKeeps, SendPacketKeeps,
             TrafficStepKeeps
<1> QED BY <1>1, <1>2

\* HeardOnce, of groupSession.ts and seenSet.ts: in a room of any size and shape, with
\* any outings, members coming and going by invitation, by code and by promotion, and
\* links lost and found, a packet is delivered at most once to a member.
THEOREM PacketsAreHeardOnce == MeshSpec => []HeardOnce
<1>1. MeshInit => MeshInv
  BY MeshInitHolds
<1>2. MeshInv /\ [MeshNext]_meshVars => MeshInv'
  BY MeshStepHolds
<1>3. MeshInv => HeardOnce
  BY DEF MeshInv, HearingInv, HeardOnce
<1> QED BY <1>1, <1>2, <1>3, PTL DEF MeshSpec

-----------------------------------------------------------------------------
(* Removing from a queue. *)

\* Removing an element leaves the others, and each of them once.
LEMMA RemovedOnce ==
  ASSUME NEW S, NEW q \in Seq(S), NEW k \in DOMAIN q
  PROVE  /\ RemoveAt(q, k) \in Seq(S)
         /\ \A i \in DOMAIN RemoveAt(q, k) : \E j \in DOMAIN q : j # k /\ RemoveAt(q, k)[i] = q[j]
         /\ \A j \in DOMAIN q : j # k => \E i \in DOMAIN RemoveAt(q, k) : RemoveAt(q, k)[i] = q[j]
         /\ (\A i, j \in DOMAIN q : q[i] = q[j] => i = j)
              => \A i, j \in DOMAIN RemoveAt(q, k) : RemoveAt(q, k)[i] = RemoveAt(q, k)[j] => i = j
<1> DEFINE a == SubSeq(q, 1, k - 1)
           b == SubSeq(q, k + 1, Len(q))
           r == RemoveAt(q, k)
<1>1. DOMAIN q = 1..Len(q) /\ Len(q) \in Nat /\ k \in 1..Len(q)
  OBVIOUS
<1>2. a \in Seq(S) /\ Len(a) = k - 1 /\ \A i \in 1..(k - 1) : a[i] = q[i]
  BY <1>1
<1>3. b \in Seq(S) /\ Len(b) = Len(q) - k /\ \A i \in 1..(Len(q) - k) : b[i] = q[k + i]
  BY <1>1
<1>4. r = a \o b
  BY DEF RemoveAt
<1> HIDE DEF a, b, r
<1>5. r \in Seq(S) /\ Len(r) = Len(q) - 1 /\ DOMAIN r = 1..(Len(q) - 1)
  <2>1. r \in Seq(S) /\ Len(r) = Len(a) + Len(b)
    BY <1>2, <1>3, <1>4, ConcatProperties
  <2>2. Len(r) = Len(q) - 1
    BY <1>1, <1>2, <1>3, <2>1
  <2> QED BY <2>1, <2>2
<1>6. \A i \in 1..(Len(q) - 1) : r[i] = q[IF i < k THEN i ELSE i + 1]
  <2> TAKE i \in 1..(Len(q) - 1)
  <2>1. CASE i < k
    BY <1>1, <1>2, <1>3, <1>4, <2>1
  <2>2. CASE ~(i < k)
    <3>1. i - (k - 1) \in 1..(Len(q) - k) /\ k + (i - (k - 1)) = i + 1
      BY <1>1, <2>2
    <3>2. r[i] = b[i - (k - 1)]
      BY <1>1, <1>2, <1>3, <1>4, <2>2
    <3> QED BY <1>3, <2>2, <3>1, <3>2
  <2> QED BY <2>1, <2>2
<1>7. \A i \in DOMAIN r : \E j \in DOMAIN q : j # k /\ r[i] = q[j]
  <2> TAKE i \in DOMAIN r
  <2>1. /\ (IF i < k THEN i ELSE i + 1) \in 1..Len(q) /\ (IF i < k THEN i ELSE i + 1) # k
    BY <1>1, <1>5
  <2> QED BY <1>1, <1>5, <1>6, <2>1
<1>8. \A j \in DOMAIN q : j # k => \E i \in DOMAIN r : r[i] = q[j]
  <2> TAKE j \in DOMAIN q
  <2> SUFFICES ASSUME j # k  PROVE \E i \in DOMAIN r : r[i] = q[j]
    OBVIOUS
  <2> DEFINE i == IF j < k THEN j ELSE j - 1
  <2>1. i \in 1..(Len(q) - 1) /\ (IF i < k THEN i ELSE i + 1) = j
    BY <1>1
  <2> HIDE DEF i
  <2> QED BY <1>5, <1>6, <2>1
<1>9. ASSUME \A i, j \in DOMAIN q : q[i] = q[j] => i = j
      PROVE  \A i, j \in DOMAIN r : r[i] = r[j] => i = j
  <2> TAKE i, j \in DOMAIN r
  <2> DEFINE u(x) == IF x < k THEN x ELSE x + 1
  <2>1. u(i) \in 1..Len(q) /\ u(j) \in 1..Len(q) /\ (u(i) = u(j) => i = j)
    BY <1>1, <1>5
  <2>2. r[i] = q[u(i)] /\ r[j] = q[u(j)]
    BY <1>5, <1>6
  <2> HIDE DEF u
  <2> QED BY <1>1, <1>9, <2>1, <2>2
<1> QED BY <1>5, <1>7, <1>8, <1>9 DEF r

-----------------------------------------------------------------------------
(* The film: the player, its timer and the lines that travel. *)

WatchFields ==
  {"state", "role", "sid", "anchor", "epoch", "query", "invite", "peerPresent", "timer"}
Lines == [epoch : Nat, playing : BOOLEAN]

Messages ==
  [type : {"query"}, id : Nat]
    \cup [type : {"reply"}, id : Nat, have : BOOLEAN]
    \cup [type : {"create", "join", "farewell"}, sid : Nat]
    \cup [type : {"request"}, sid : Nat, kind : Kinds]
    \cup [type : {"command", "beat"}, sid : Nat, anchor : Lines]

WatchTyped(w, used) ==
  /\ DOMAIN w = WatchFields
  /\ w.anchor \in Lines /\ w.epoch \in Nat /\ w.sid \in Nat /\ w.query \in Nat
  /\ w.invite \in used \cup {0}

\* The player does what the line says, and a timer that runs is the line's.
PlayerObeys(w, playing) ==
  /\ playing \in BOOLEAN
  /\ w.anchor # NoLine =>
       IF w.anchor.playing THEN playing \/ w.timer = w.anchor.epoch ELSE ~playing
  /\ w.timer # 0 => w.anchor.playing /\ w.timer = w.anchor.epoch

\* Who hosts has no query and no invitation, and its line is the last it counted; where the
\* screen is closed there is no line.
RoleFits(w) ==
  /\ w.state = "hosting" <=> w.role = "host"
  /\ w.state = "following" => w.role = "guest"
  /\ w.role = "host" => /\ w.query = 0 /\ w.invite = 0
                        /\ w.anchor # NoLine /\ w.anchor.epoch = w.epoch
  /\ w.state = "off" => w.anchor = NoLine /\ w.timer = 0

PhoneFits(w, playing, used) == WatchTyped(w, used) /\ RoleFits(w) /\ PlayerObeys(w, playing)

AirFits(a, used) ==
  /\ DOMAIN a = Phones
  /\ \A p \in Phones :
       /\ a[p] \in Seq(Messages)
       /\ \A i \in DOMAIN a[p] : a[p][i].type = "create" => a[p][i].sid \in used

\* A line and its session, held by a phone or on its way.
Holds(w, x) == \E p \in Phones : w[p].anchor # NoLine /\ x = <<w[p].sid, w[p].anchor>>

Sends(a, x) ==
  \E p \in Phones : \E i \in DOMAIN a[p] :
    a[p][i].type \in {"command", "beat"} /\ x = <<a[p][i].sid, a[p][i].anchor>>

Known(w, a, x) == Holds(w, x) \/ Sends(a, x)

\* A line of a session is told by its epoch, and the first stands still; the host of a
\* session has counted them all, and no session has two hosts.
LinesAgree(w, a, used) ==
  /\ \A x, y : Known(w, a, x) /\ Known(w, a, y) /\ x[1] = y[1] /\ x[2].epoch = y[2].epoch => x = y
  /\ \A x : Known(w, a, x) => x[1] \in used /\ x[2].epoch # 0 /\ (x[2].epoch = 1 => ~x[2].playing)
  /\ \A x : Known(w, a, x) =>
       \A p \in Phones : w[p].role = "host" /\ x[1] = w[p].sid => x[2].epoch <= w[p].epoch
  /\ \A p, q \in Phones : w[p].role = "host" /\ w[q].role = "host" /\ p # q => w[p].sid # w[q].sid

WatchInv ==
  /\ usedIds \subseteq Nat \ {0} /\ queries \in Nat
  /\ DOMAIN watch = Phones /\ DOMAIN media = Phones
  /\ \A p \in Phones : PhoneFits(watch[p], media[p], usedIds)
  /\ AirFits(air, usedIds)
  /\ LinesAgree(watch, air, usedIds)

\* There are two phones.
LEMMA PeerIsOther ==
  ASSUME NEW p \in Phones
  PROVE  Peer(p) \in Phones /\ Peer(p) # p
<1>1. PICK a, b : a # b /\ Phones = {a, b}
  BY WatchAssumption
<1>2. \E q \in Phones : q # p
  BY <1>1
<1> QED BY <1>2 DEF Peer

\* Lines and messages are what they look like.
LEMMA LineFacts ==
  /\ NoLine \in Lines
  /\ \A e \in Nat : \A b \in BOOLEAN :
       Line(e, b) \in Lines /\ Line(e, b).epoch = e /\ Line(e, b).playing = b
  /\ \A e \in Nat : \A b \in BOOLEAN : e # 0 => Line(e, b) # NoLine
  /\ \A a, b \in Lines : a.epoch = b.epoch /\ a.playing = b.playing => a = b
BY DEF Lines, NoLine, Line

\* One message less on its way.
LEMMA TakenAway ==
  ASSUME NEW a, NEW used, AirFits(a, used), NEW q \in Phones, NEW i \in DOMAIN a[q],
         NEW rest, rest = [a EXCEPT ![q] = RemoveAt(@, i)]
  PROVE  AirFits(rest, used)
<1>1. /\ DOMAIN a = Phones /\ \A p \in Phones : a[p] \in Seq(Messages)
      /\ \A p \in Phones : \A j \in DOMAIN a[p] : a[p][j].type = "create" => a[p][j].sid \in used
  BY DEF AirFits
<1>2. /\ RemoveAt(a[q], i) \in Seq(Messages)
      /\ \A k \in DOMAIN RemoveAt(a[q], i) : \E j \in DOMAIN a[q] : j # i /\ RemoveAt(a[q], i)[k] = a[q][j]
  BY <1>1, RemovedOnce
<1>3. /\ DOMAIN rest = Phones /\ rest[q] = RemoveAt(a[q], i)
      /\ \A p \in Phones : p # q => rest[p] = a[p]
  BY <1>1
<1>4. \A p \in Phones : \A k \in DOMAIN rest[p] : \E j \in DOMAIN a[p] : rest[p][k] = a[p][j]
  <2> TAKE p \in Phones
  <2>1. CASE p = q
    BY <1>2, <1>3, <2>1
  <2>2. CASE p # q
    BY <1>3, <2>2
  <2> QED BY <2>1, <2>2
<1>5. \A p \in Phones : rest[p] \in Seq(Messages)
  BY <1>1, <1>2, <1>3
<1> QED BY <1>1, <1>3, <1>4, <1>5 DEF AirFits

\* The lines on their way then.
LEMMA LinesLeft ==
  ASSUME NEW a, NEW used, AirFits(a, used), NEW q \in Phones, NEW i \in DOMAIN a[q],
         NEW x, Sends([a EXCEPT ![q] = RemoveAt(@, i)], x)
  PROVE  Sends(a, x)
<1> DEFINE rest == [a EXCEPT ![q] = RemoveAt(@, i)]
<1>1. /\ DOMAIN a = Phones /\ a[q] \in Seq(Messages)
  BY DEF AirFits
<1>2. \A k \in DOMAIN RemoveAt(a[q], i) : \E j \in DOMAIN a[q] : j # i /\ RemoveAt(a[q], i)[k] = a[q][j]
  BY <1>1, RemovedOnce
<1>3. PICK p \in Phones : \E k \in DOMAIN rest[p] :
        rest[p][k].type \in {"command", "beat"} /\ x = <<rest[p][k].sid, rest[p][k].anchor>>
  BY DEF Sends
<1>4. PICK k \in DOMAIN rest[p] :
        rest[p][k].type \in {"command", "beat"} /\ x = <<rest[p][k].sid, rest[p][k].anchor>>
  BY <1>3
<1>5. PICK j \in DOMAIN a[p] : rest[p][k] = a[p][j]
  <2>1. CASE p = q
    BY <1>1, <1>2, <2>1
  <2>2. CASE p # q
    BY <1>1, <2>2
  <2> QED BY <2>1, <2>2
<1> QED BY <1>4, <1>5 DEF Sends

\* A message on its way is one, and its line is on its way.
LEMMA MessageTaken ==
  ASSUME NEW a, NEW used, AirFits(a, used), NEW q \in Phones, NEW i \in DOMAIN a[q]
  PROVE  /\ a[q][i] \in Messages
         /\ a[q][i].type = "create" => a[q][i].sid \in used
         /\ a[q][i].type \in {"command", "beat"} => Sends(a, <<a[q][i].sid, a[q][i].anchor>>)
BY DEF AirFits, Sends

\* One message more.
LEMMA SentOff ==
  ASSUME NEW a, NEW used, AirFits(a, used), NEW p \in Phones, NEW m \in Messages,
         m.type = "create" => m.sid \in used, NEW more, more = [a EXCEPT ![p] = Append(@, m)]
  PROVE  AirFits(more, used)
<1>1. /\ DOMAIN a = Phones /\ \A q \in Phones : a[q] \in Seq(Messages)
      /\ \A q \in Phones : \A j \in DOMAIN a[q] : a[q][j].type = "create" => a[q][j].sid \in used
  BY DEF AirFits
<1>2. /\ DOMAIN more = Phones /\ more[p] = Append(a[p], m)
      /\ \A q \in Phones : q # p => more[q] = a[q]
  BY <1>1
<1>3. /\ Append(a[p], m) \in Seq(Messages)
      /\ \A k \in DOMAIN Append(a[p], m) :
           Append(a[p], m)[k] = m \/ (k \in DOMAIN a[p] /\ Append(a[p], m)[k] = a[p][k])
  BY <1>1
<1>4. \A q \in Phones : \A k \in DOMAIN more[q] :
        more[q][k] = m \/ (k \in DOMAIN a[q] /\ more[q][k] = a[q][k])
  BY <1>2, <1>3
<1>5. \A q \in Phones : more[q] \in Seq(Messages)
  BY <1>1, <1>2, <1>3
<1> QED BY <1>1, <1>2, <1>4, <1>5 DEF AirFits

\* The lines on their way with it.
LEMMA LinesSent ==
  ASSUME NEW a, NEW used, AirFits(a, used), NEW p \in Phones, NEW m \in Messages,
         NEW more, more = [a EXCEPT ![p] = Append(@, m)], NEW x, Sends(more, x)
  PROVE  Sends(a, x) \/ (m.type \in {"command", "beat"} /\ x = <<m.sid, m.anchor>>)
<1>1. PICK q \in Phones : \E k \in DOMAIN more[q] :
        more[q][k].type \in {"command", "beat"} /\ x = <<more[q][k].sid, more[q][k].anchor>>
  BY DEF Sends
<1>2. PICK k \in DOMAIN more[q] :
        more[q][k].type \in {"command", "beat"} /\ x = <<more[q][k].sid, more[q][k].anchor>>
  BY <1>1
<1>3. /\ DOMAIN a = Phones /\ a[p] \in Seq(Messages)
  BY DEF AirFits
<1>4. more[q] = IF q = p THEN Append(a[p], m) ELSE a[q]
  BY <1>3
<1>5. \A j \in DOMAIN Append(a[p], m) :
        Append(a[p], m)[j] = m \/ (j \in DOMAIN a[p] /\ Append(a[p], m)[j] = a[p][j])
  BY <1>3
<1>6. CASE more[q][k] = m
  BY <1>2, <1>6
<1>7. CASE k \in DOMAIN a[q] /\ more[q][k] = a[q][k]
  BY <1>2, <1>7 DEF Sends
<1> QED BY <1>4, <1>5, <1>6, <1>7

\* What a step may add to what is known: lines of one session each that nobody can mistake
\* for another, all counted by the host of that session if it is not the phone that moves.
MayAppear(x, p, used) ==
  /\ x[1] \in used /\ x[2].epoch # 0 /\ (x[2].epoch = 1 => ~x[2].playing)
  /\ \A y : Known(watch, air, y) /\ y[1] = x[1] /\ y[2].epoch = x[2].epoch => y = x
  /\ \A q \in Phones : q # p /\ watch[q].role = "host" /\ watch[q].sid = x[1] =>
       x[2].epoch <= watch[q].epoch

\* A phone that hosts has hosted this session before, or made it up just now.
HostFits(p, w, new) ==
  w.role = "host" =>
    /\ \A x \in new : x[1] = w.sid => x[2].epoch <= w.epoch
    /\ \/ watch[p].role = "host" /\ watch[p].sid = w.sid /\ watch[p].epoch <= w.epoch
       \/ w.sid \notin usedIds

\* The variables of one phone become w and n.
Moves(p, w, n) ==
  /\ DOMAIN watch' = Phones /\ watch'[p] = w /\ \A q \in Phones : q # p => watch'[q] = watch[q]
  /\ DOMAIN media' = Phones /\ media'[p] = n /\ \A q \in Phones : q # p => media'[q] = media[q]

\* A step of one phone.
LEMMA PhoneSteps ==
  ASSUME WatchInv, NEW p \in Phones, NEW w, NEW n, NEW new,
         Moves(p, w, n),
         usedIds \subseteq usedIds', usedIds' \subseteq Nat \ {0}, queries' \in Nat,
         PhoneFits(w, n, usedIds'), AirFits(air', usedIds'),
         \A x : Sends(air', x) => Known(watch, air, x) \/ x \in new,
         w.anchor # NoLine => Known(watch, air, <<w.sid, w.anchor>>) \/ <<w.sid, w.anchor>> \in new,
         \A x, y \in new : x = y, \A x \in new : MayAppear(x, p, usedIds'),
         HostFits(p, w, new)
  PROVE  WatchInv'
<1>1. /\ DOMAIN watch = Phones /\ DOMAIN media = Phones
      /\ \A q \in Phones : PhoneFits(watch[q], media[q], usedIds)
      /\ LinesAgree(watch, air, usedIds)
  BY DEF WatchInv
<1>2. /\ DOMAIN watch' = Phones /\ watch'[p] = w /\ \A q \in Phones : q # p => watch'[q] = watch[q]
      /\ DOMAIN media' = Phones /\ media'[p] = n /\ \A q \in Phones : q # p => media'[q] = media[q]
  BY DEF Moves
<1>3. \A q \in Phones : PhoneFits(watch'[q], media'[q], usedIds')
  <2> TAKE q \in Phones
  <2>1. CASE q = p
    BY <1>2, <2>1
  <2>2. CASE q # p
    <3>1. WatchTyped(watch[q], usedIds) => WatchTyped(watch[q], usedIds')
      BY DEF WatchTyped
    <3> QED BY <1>1, <1>2, <2>2, <3>1 DEF PhoneFits
  <2> QED BY <2>1, <2>2
<1>4. \A x : Known(watch', air', x) => Known(watch, air, x) \/ x \in new
  <2> SUFFICES ASSUME NEW x, Known(watch', air', x), ~Sends(air', x)
               PROVE  Known(watch, air, x) \/ x \in new
    BY DEF Known
  <2>1. PICK q \in Phones : watch'[q].anchor # NoLine /\ x = <<watch'[q].sid, watch'[q].anchor>>
    BY DEF Known, Holds
  <2>2. CASE q = p
    BY <1>2, <2>1, <2>2
  <2>3. CASE q # p
    BY <1>2, <2>1, <2>3 DEF Known, Holds
  <2> QED BY <2>2, <2>3
<1> DEFINE known(x) == Known(watch, air, x)
<1>5. /\ \A x, y : known(x) /\ known(y) /\ x[1] = y[1] /\ x[2].epoch = y[2].epoch => x = y
      /\ \A x : known(x) => x[1] \in usedIds /\ x[2].epoch # 0 /\ (x[2].epoch = 1 => ~x[2].playing)
      /\ \A x : known(x) =>
           \A q \in Phones : watch[q].role = "host" /\ x[1] = watch[q].sid => x[2].epoch <= watch[q].epoch
      /\ \A q, r \in Phones : watch[q].role = "host" /\ watch[r].role = "host" /\ q # r
                                => watch[q].sid # watch[r].sid
  BY <1>1 DEF LinesAgree
<1>6. \A q \in Phones : watch[q].role = "host" => watch[q].sid \in usedIds /\ watch[q].epoch \in Nat
  <2> TAKE q \in Phones
  <2>1. watch[q].role = "host" => watch[q].anchor # NoLine /\ watch[q].epoch \in Nat
    BY <1>1 DEF PhoneFits, RoleFits, WatchTyped
  <2>2. watch[q].anchor # NoLine => known(<<watch[q].sid, watch[q].anchor>>)
    BY DEF Known, Holds
  <2> QED BY <1>5, <2>1, <2>2
<1>7. \A x : known(x) => x[2].epoch \in Nat
  <2> SUFFICES ASSUME NEW x, known(x)  PROVE x[2].epoch \in Nat
    OBVIOUS
  <2>1. CASE Holds(watch, x)
    BY <1>1, <2>1 DEF Holds, PhoneFits, WatchTyped, Lines
  <2>2. CASE Sends(air, x)
    <3>1. PICK q \in Phones : \E i \in DOMAIN air[q] :
            air[q][i].type \in {"command", "beat"} /\ x = <<air[q][i].sid, air[q][i].anchor>>
      BY <2>2 DEF Sends
    <3>2. PICK i \in DOMAIN air[q] :
            air[q][i].type \in {"command", "beat"} /\ x = <<air[q][i].sid, air[q][i].anchor>>
      BY <3>1
    <3>3. air[q][i] \in Messages
      BY DEF WatchInv, AirFits
    <3> QED BY <3>2, <3>3 DEF Messages, Lines
  <2> QED BY <2>1, <2>2 DEF Known
<1> HIDE DEF known
<1>8. /\ \A x \in new : /\ x[1] \in usedIds' /\ x[2].epoch # 0 /\ (x[2].epoch = 1 => ~x[2].playing)
      /\ \A x \in new : \A y : known(y) /\ y[1] = x[1] /\ y[2].epoch = x[2].epoch => y = x
      /\ \A x \in new : \A q \in Phones : q # p /\ watch[q].role = "host" /\ watch[q].sid = x[1]
                                             => x[2].epoch <= watch[q].epoch
  BY DEF MayAppear, known
<1>9. ASSUME NEW x, NEW y, known(x) \/ x \in new, known(y) \/ y \in new, x[1] = y[1],
             x[2].epoch = y[2].epoch
      PROVE  x = y
  <2>1. CASE known(x) /\ known(y)
    BY <1>5, <1>9, <2>1
  <2>2. CASE x \in new /\ y \in new
    BY <2>2
  <2>3. CASE x \in new /\ known(y)
    BY <1>8, <1>9, <2>3
  <2>4. CASE known(x) /\ y \in new
    BY <1>8, <1>9, <2>4
  <2> QED BY <1>9, <2>1, <2>2, <2>3, <2>4
<1>10. ASSUME NEW x, known(x) \/ x \in new
       PROVE  x[1] \in usedIds' /\ x[2].epoch # 0 /\ (x[2].epoch = 1 => ~x[2].playing)
  <2>1. CASE known(x)
    BY <1>5, <2>1
  <2>2. CASE x \in new
    BY <1>8, <2>2
  <2> QED BY <1>10, <2>1, <2>2
<1>11. ASSUME NEW x, known(x) \/ x \in new, NEW q \in Phones, watch'[q].role = "host",
              x[1] = watch'[q].sid
       PROVE  x[2].epoch <= watch'[q].epoch
  <2>1. CASE q # p /\ known(x)
    BY <1>2, <1>5, <1>11, <2>1
  <2>2. CASE q # p /\ x \in new
    BY <1>2, <1>8, <1>11, <2>2
  <2>3. CASE q = p /\ x \in new
    BY <1>2, <1>11, <2>3 DEF HostFits
  <2>4. CASE q = p /\ known(x)
    <3>1. w.role = "host" /\ x[1] = w.sid /\ x[1] \in usedIds
      BY <1>2, <1>5, <1>11, <2>4
    <3>2. watch[p].role = "host" /\ watch[p].sid = w.sid /\ watch[p].epoch <= w.epoch
      BY <3>1 DEF HostFits
    <3>3. x[2].epoch <= watch[p].epoch
      BY <1>5, <2>4, <3>1, <3>2
    <3>4. x[2].epoch \in Nat /\ watch[p].epoch \in Nat /\ w.epoch \in Nat
      BY <1>6, <1>7, <2>4, <3>2 DEF PhoneFits, WatchTyped
    <3>5. x[2].epoch <= w.epoch
      BY <3>2, <3>3, <3>4
    <3> QED BY <1>2, <2>4, <3>5
  <2> QED BY <1>11, <2>1, <2>2, <2>3, <2>4
<1>12. ASSUME NEW q \in Phones, NEW r \in Phones, watch'[q].role = "host", watch'[r].role = "host",
              q # r
       PROVE  watch'[q].sid # watch'[r].sid
  <2>1. ASSUME NEW s \in Phones, s # p, watch[s].role = "host", w.role = "host"
        PROVE  watch[s].sid # w.sid
    BY <1>5, <1>6, <2>1 DEF HostFits
  <2>2. CASE q = p
    BY <1>2, <1>12, <2>1, <2>2
  <2>3. CASE r = p
    BY <1>2, <1>12, <2>1, <2>3
  <2>4. CASE q # p /\ r # p
    BY <1>2, <1>5, <1>12, <2>4
  <2> QED BY <2>2, <2>3, <2>4
<1>13. LinesAgree(watch', air', usedIds')
  <2>1. \A x : Known(watch', air', x) => known(x) \/ x \in new
    BY <1>4 DEF known
  <2> QED BY <2>1, <1>9, <1>10, <1>11, <1>12 DEF LinesAgree
<1> QED BY <1>2, <1>3, <1>13 DEF WatchInv

\* applyAnchor(): a phone whose player obeyed obeys the line it takes, if a line of the same
\* epoch is the same line.
LEMMA AnchorApplied ==
  ASSUME NEW p \in Phones, NEW w, NEW a \in Lines, NEW started \in BOOLEAN,
         DOMAIN watch = Phones, DOMAIN media = Phones, DOMAIN w = WatchFields,
         PlayerObeys(w, media[p]), SameLine(a, w.anchor) => a = w.anchor,
         ApplyAnchor(p, w, a, started)
  PROVE  \E v, n : /\ Moves(p, v, n)
                   /\ DOMAIN v = WatchFields /\ v.anchor = a /\ PlayerObeys(v, n)
                   /\ \A f \in WatchFields \ {"anchor", "timer"} : v[f] = w[f]
<1>1. CASE SameLine(a, w.anchor)
  <2> DEFINE v == [w EXCEPT !.anchor = a]
  <2>1. /\ DOMAIN v = WatchFields /\ v.anchor = a /\ v.timer = w.timer
        /\ \A f \in WatchFields \ {"anchor", "timer"} : v[f] = w[f]
    BY DEF WatchFields
  <2>2. Moves(p, v, media[p])
    BY <1>1 DEF ApplyAnchor, Moves
  <2> HIDE DEF v
  <2>3. PlayerObeys(v, media[p])
    BY <1>1, <2>1 DEF PlayerObeys
  <2> QED BY <2>1, <2>2, <2>3
<1>2. CASE ~SameLine(a, w.anchor)
  <2> DEFINE t == IF a.playing /\ ~started THEN a.epoch ELSE 0
             v == [w EXCEPT !.anchor = a, !.timer = t]
             n == a.playing /\ started
  <2>1. /\ DOMAIN v = WatchFields /\ v.anchor = a /\ v.timer = t
        /\ \A f \in WatchFields \ {"anchor", "timer"} : v[f] = w[f]
    BY DEF WatchFields
  <2>2. Moves(p, v, n)
    BY <1>2 DEF ApplyAnchor, Moves
  <2> HIDE DEF v
  <2>3. a.playing \in BOOLEAN /\ a.epoch \in Nat
    BY DEF Lines
  <2>4. PlayerObeys(v, n)
    BY <2>1, <2>3 DEF PlayerObeys
  <2> QED BY <2>1, <2>2, <2>4
<1> QED BY <1>1, <1>2

\* A step of one phone that adds no line.
LEMMA QuietSteps ==
  ASSUME WatchInv, NEW p \in Phones, NEW w, NEW n, Moves(p, w, n),
         usedIds' = usedIds, queries' \in Nat, PhoneFits(w, n, usedIds), AirFits(air', usedIds),
         \A x : Sends(air', x) => Known(watch, air, x),
         w.anchor # NoLine => w.anchor = watch[p].anchor /\ w.sid = watch[p].sid,
         w.role = "host" => watch[p].role = "host" /\ watch[p].sid = w.sid /\ watch[p].epoch = w.epoch
  PROVE  WatchInv'
<1>1. usedIds \subseteq Nat \ {0} /\ w.epoch \in Nat
  BY DEF WatchInv, PhoneFits, WatchTyped
<1>2. HostFits(p, w, {})
  BY <1>1 DEF HostFits
<1>3. w.anchor # NoLine => Known(watch, air, <<w.sid, w.anchor>>)
  BY DEF Known, Holds
<1> QED BY <1>1, <1>2, <1>3, PhoneSteps

\* A phone without a session.
LEMMA NewWatchFits ==
  ASSUME NEW s, s \notin {"hosting", "following"}, NEW n \in BOOLEAN, NEW used
  PROVE  /\ PhoneFits(NewWatch(s), n, used)
         /\ NewWatch(s).anchor = NoLine /\ NewWatch(s).role = "none"
<1>1. /\ DOMAIN NewWatch(s) = WatchFields /\ NewWatch(s).state = s /\ NewWatch(s).role = "none"
      /\ NewWatch(s).sid = 0 /\ NewWatch(s).anchor = NoLine /\ NewWatch(s).epoch = 0
      /\ NewWatch(s).query = 0 /\ NewWatch(s).invite = 0 /\ NewWatch(s).timer = 0
  BY DEF NewWatch, WatchFields
<1> HIDE DEF NewWatch
<1> QED BY <1>1, LineFacts DEF PhoneFits, WatchTyped, RoleFits, PlayerObeys

\* What the invariant says of one phone.
LEMMA OnePhone ==
  ASSUME WatchInv, NEW p \in Phones
  PROVE  /\ PhoneFits(watch[p], media[p], usedIds) /\ AirFits(air, usedIds)
         /\ DOMAIN watch = Phones /\ DOMAIN media = Phones /\ DOMAIN watch[p] = WatchFields
         /\ media[p] \in BOOLEAN /\ watch[p].sid \in Nat /\ watch[p].query \in Nat
         /\ watch[p].epoch \in Nat /\ watch[p].invite \in usedIds \cup {0} /\ watch[p].invite \in Nat
         /\ watch[p].anchor \in Lines /\ queries \in Nat /\ usedIds \subseteq Nat \ {0}
<1>1. /\ PhoneFits(watch[p], media[p], usedIds) /\ AirFits(air, usedIds) /\ DOMAIN watch = Phones
      /\ DOMAIN media = Phones /\ queries \in Nat /\ usedIds \subseteq Nat \ {0}
  BY DEF WatchInv
<1>2. WatchTyped(watch[p], usedIds) /\ media[p] \in BOOLEAN
  <2>1. WatchTyped(watch[p], usedIds) /\ PlayerObeys(watch[p], media[p])
    BY <1>1 DEF PhoneFits
  <2> QED BY <2>1 DEF PlayerObeys
<1>3. watch[p].invite \in usedIds \cup {0} /\ watch[p].invite \in Nat
  <2>1. \A x : x \in usedIds \cup {0} => x \in Nat
    BY <1>1
  <2> QED BY <1>2, <2>1 DEF WatchTyped
<1> QED BY <1>1, <1>2, <1>3 DEF WatchTyped

\* A message that is no line, after a message may have been taken.
LEMMA PlainSent ==
  ASSUME NEW a, NEW used, AirFits(a, used), \A x : Sends(a, x) => Sends(air, x),
         NEW p \in Phones, NEW m \in Messages, m.type \notin {"command", "beat"},
         m.type = "create" => m.sid \in used, air' = [a EXCEPT ![p] = Append(@, m)]
  PROVE  AirFits(air', used) /\ \A x : Sends(air', x) => Known(watch, air, x)
<1> DEFINE more == air'
<1>1. more = [a EXCEPT ![p] = Append(@, m)]
  OBVIOUS
<1> HIDE DEF more
<1>2. AirFits(more, used)
  BY <1>1, SentOff
<1>3. \A x : Sends(more, x) => Known(watch, air, x)
  <2> SUFFICES ASSUME NEW x, Sends(more, x)  PROVE Known(watch, air, x)
    OBVIOUS
  <2>1. Sends(a, x)
    BY <1>1, LinesSent
  <2> QED BY <2>1 DEF Known
<1> QED BY <1>2, <1>3 DEF more

\* The messages, typed.
LEMMA MessageFacts ==
  /\ \A i \in Nat : [type |-> "query", id |-> i] \in Messages
  /\ \A i \in Nat, b \in BOOLEAN : [type |-> "reply", id |-> i, have |-> b] \in Messages
  /\ \A s \in Nat : /\ [type |-> "create", sid |-> s] \in Messages
                    /\ [type |-> "join", sid |-> s] \in Messages
                    /\ [type |-> "farewell", sid |-> s] \in Messages
  /\ \A s \in Nat, k \in Kinds : [type |-> "request", sid |-> s, kind |-> k] \in Messages
  /\ \A s \in Nat, a \in Lines : /\ [type |-> "command", sid |-> s, anchor |-> a] \in Messages
                                 /\ [type |-> "beat", sid |-> s, anchor |-> a] \in Messages
BY DEF Messages

\* A step of one phone that leaves its player and its line alone.
LEMMA FieldSteps ==
  ASSUME WatchInv, NEW p \in Phones, NEW w, DOMAIN w = WatchFields, Moves(p, w, media[p]),
         usedIds' = usedIds, queries' \in Nat, AirFits(air', usedIds),
         \A x : Sends(air', x) => Known(watch, air, x),
         \A f \in WatchFields \ {"state", "query", "invite", "peerPresent"} : w[f] = watch[p][f],
         w.query \in Nat, w.invite \in usedIds \cup {0},
         \/ w.state = watch[p].state
         \/ w.state \notin {"hosting", "following", "off"} /\ watch[p].role # "host",
         watch[p].role = "host" => w.query = 0 /\ w.invite = 0
  PROVE  WatchInv'
<1>1. PhoneFits(watch[p], media[p], usedIds)
  BY OnePhone
<1>2. /\ w.role = watch[p].role /\ w.sid = watch[p].sid /\ w.anchor = watch[p].anchor
      /\ w.epoch = watch[p].epoch /\ w.timer = watch[p].timer
  BY DEF WatchFields
<1>3. PhoneFits(w, media[p], usedIds)
  BY <1>1, <1>2 DEF PhoneFits, WatchTyped, RoleFits, PlayerObeys
<1> QED BY <1>2, <1>3, QuietSteps

\* A session of a phone ends.
LEMMA ResetSteps ==
  ASSUME WatchInv, NEW p \in Phones, NEW s \in {"idle", "ended", "off"}, NEW n \in BOOLEAN,
         Moves(p, NewWatch(s), n), usedIds' = usedIds, queries' = queries, AirFits(air', usedIds),
         \A x : Sends(air', x) => Known(watch, air, x)
  PROVE  WatchInv'
<1>1. queries \in Nat
  BY OnePhone
<1> QED BY <1>1, NewWatchFits, QuietSteps

\* beginPlayback
LEMMA StartTimerObeys ==
  ASSUME WatchInv, NEW p \in Phones, StartTimer(p)
  PROVE  WatchInv'
<1> DEFINE w == [watch[p] EXCEPT !.timer = 0]
           n == media[p] \/ watch[p].anchor.epoch = watch[p].timer
<1>1. /\ PhoneFits(watch[p], media[p], usedIds) /\ AirFits(air, usedIds) /\ queries \in Nat
      /\ DOMAIN watch = Phones /\ DOMAIN media = Phones /\ DOMAIN watch[p] = WatchFields
  BY OnePhone
<1>2. Moves(p, w, n) /\ UNCHANGED <<air, usedIds, queries>> /\ watch[p].timer # 0
  BY <1>1 DEF StartTimer, Moves
<1>3. /\ DOMAIN w = WatchFields /\ w.timer = 0
      /\ \A f \in WatchFields \ {"timer"} : w[f] = watch[p][f]
  BY <1>1 DEF WatchFields
<1>4. /\ w.state = watch[p].state /\ w.role = watch[p].role /\ w.sid = watch[p].sid
      /\ w.anchor = watch[p].anchor /\ w.epoch = watch[p].epoch /\ w.query = watch[p].query
      /\ w.invite = watch[p].invite
  BY <1>3 DEF WatchFields
<1>5. n = TRUE /\ watch[p].anchor.playing
  BY <1>1, <1>2 DEF PhoneFits, PlayerObeys
<1> HIDE DEF w, n
<1>6. PhoneFits(w, n, usedIds)
  BY <1>1, <1>3, <1>4, <1>5 DEF PhoneFits, WatchTyped, RoleFits, PlayerObeys
<1>7. \A x : Sends(air', x) => Known(watch, air, x)
  BY <1>2 DEF Known
<1> QED BY <1>1, <1>2, <1>4, <1>6, <1>7, QuietSteps

\* The screen opens, closes and looks for the film; sessions end and invitations are declined.
LEMMA ScreenObeys ==
  ASSUME WatchInv, NEW p \in Phones,
         \/ OpenScreen(p) \/ QueryPeerContent(p) \/ QueryTimeout(p) \/ EndWatch(p) \/ CloseScreen(p)
         \/ DeclineWatch(p)
  PROVE  WatchInv'
<1> DEFINE o == watch[p]
           q == queries'
<1>1. /\ PhoneFits(o, media[p], usedIds) /\ AirFits(air, usedIds) /\ queries \in Nat
      /\ DOMAIN watch = Phones /\ DOMAIN media = Phones /\ DOMAIN o = WatchFields
      /\ media[p] \in BOOLEAN /\ o.sid \in Nat /\ o.invite \in Nat
      /\ o.invite \in usedIds \cup {0} /\ o.query \in Nat
  BY OnePhone
<1>2. UNCHANGED air => AirFits(air', usedIds) /\ \A x : Sends(air', x) => Known(watch, air, x)
  BY <1>1 DEF Known
<1>3. ASSUME NEW s \in Nat, Sent(p, [type |-> "farewell", sid |-> s])
      PROVE  AirFits(air', usedIds) /\ \A x : Sends(air', x) => Known(watch, air, x)
  <2>1. [type |-> "farewell", sid |-> s] \in Messages
    BY MessageFacts
  <2> QED BY <1>1, <1>3, <2>1, PlainSent DEF Sent
<1>4. o.role = "host" => o.state = "hosting" /\ o.query = 0 /\ o.invite = 0
  BY <1>1 DEF PhoneFits, RoleFits
<1>5. CASE OpenScreen(p)
  <2>1. Moves(p, NewWatch("idle"), media[p]) /\ UNCHANGED <<air, usedIds, queries>>
    BY <1>1, <1>5 DEF OpenScreen, Moves
  <2> QED BY <1>1, <1>2, <2>1, ResetSteps
<1>6. CASE QueryPeerContent(p)
  <2> DEFINE w == [o EXCEPT !.state = "matching", !.query = q]
  <2>1. /\ Moves(p, w, media[p]) /\ q = queries + 1 /\ UNCHANGED usedIds
        /\ o.state \in {"idle", "ended"} /\ Sent(p, [type |-> "query", id |-> q])
    BY <1>1, <1>6 DEF QueryPeerContent, Moves
  <2>2. q \in Nat /\ [type |-> "query", id |-> q] \in Messages
    BY <1>1, <2>1, MessageFacts
  <2>3. AirFits(air', usedIds) /\ \A x : Sends(air', x) => Known(watch, air, x)
    BY <1>1, <2>1, <2>2, PlainSent DEF Sent
  <2>4. /\ DOMAIN w = WatchFields /\ w.state = "matching" /\ w.query = q /\ w.invite = o.invite
        /\ \A f \in WatchFields \ {"state", "query", "invite", "peerPresent"} : w[f] = o[f]
    BY <1>1 DEF WatchFields
  <2> HIDE DEF w
  <2> QED BY <1>1, <1>4, <2>1, <2>2, <2>3, <2>4, FieldSteps
<1>7. CASE QueryTimeout(p)
  <2> DEFINE w == [o EXCEPT !.query = 0, !.state = IF @ = "matching" THEN "idle" ELSE @]
  <2>1. Moves(p, w, media[p]) /\ UNCHANGED <<air, usedIds, queries>>
    BY <1>1, <1>7 DEF QueryTimeout, Moves
  <2>2. /\ DOMAIN w = WatchFields /\ w.query = 0 /\ w.invite = o.invite
        /\ w.state = IF o.state = "matching" THEN "idle" ELSE o.state
        /\ \A f \in WatchFields \ {"state", "query", "invite", "peerPresent"} : w[f] = o[f]
    BY <1>1 DEF WatchFields
  <2> HIDE DEF w
  <2> QED BY <1>1, <1>2, <1>4, <2>1, <2>2, FieldSteps
<1>8. CASE EndWatch(p)
  <2>1. IsActive(o) /\ UNCHANGED <<media, usedIds, queries>> /\ o.state \in {"hosting", "following"}
    BY <1>8 DEF EndWatch, IsActive
  <2>2. Moves(p, NewWatch("ended"), media[p]) /\ Sent(p, [type |-> "farewell", sid |-> o.sid])
    BY <1>1, <1>8, <2>1 DEF EndWatch, Ending, Finished, Moves
  <2> QED BY <1>1, <1>3, <2>1, <2>2, ResetSteps
<1>9. CASE CloseScreen(p)
  <2>1. /\ Moves(p, NewWatch("off"), FALSE) /\ UNCHANGED <<usedIds, queries>>
        /\ \/ UNCHANGED air
           \/ Sent(p, [type |-> "farewell", sid |-> o.invite])
           \/ Sent(p, [type |-> "farewell", sid |-> o.sid])
    BY <1>1, <1>9 DEF CloseScreen, Moves
  <2> QED BY <1>1, <1>2, <1>3, <2>1, ResetSteps
<1>10. CASE DeclineWatch(p)
  <2> DEFINE w == [o EXCEPT !.invite = 0, !.state = "idle"]
  <2>1. /\ Moves(p, w, media[p]) /\ UNCHANGED <<usedIds, queries>> /\ o.invite # 0
        /\ Sent(p, [type |-> "farewell", sid |-> o.invite])
    BY <1>1, <1>10 DEF DeclineWatch, Moves
  <2>2. /\ DOMAIN w = WatchFields /\ w.query = o.query /\ w.invite = 0 /\ w.state = "idle"
        /\ \A f \in WatchFields \ {"state", "query", "invite", "peerPresent"} : w[f] = o[f]
    BY <1>1 DEF WatchFields
  <2> HIDE DEF w
  <2>3. o.query \in Nat
    BY OnePhone
  <2> QED BY <1>1, <1>3, <1>4, <2>1, <2>2, <2>3, FieldSteps
<1> QED BY <1>5, <1>6, <1>7, <1>8, <1>9, <1>10

\* The first line of a session: it stands still.
LEMMA FirstLine ==
  /\ Line(1, FALSE) \in Lines /\ Line(1, FALSE) # NoLine /\ Line(1, FALSE).epoch = 1
  /\ ~Line(1, FALSE).playing
  /\ \A a \in Lines : a.epoch = 1 /\ ~a.playing => a = Line(1, FALSE)
<1>0. 1 \in Nat /\ 1 # 0 /\ FALSE \in BOOLEAN
  OBVIOUS
<1>1. /\ Line(1, FALSE) \in Lines /\ Line(1, FALSE) # NoLine /\ Line(1, FALSE).epoch = 1
      /\ Line(1, FALSE).playing = FALSE
  BY <1>0, LineFacts
<1>2. ASSUME NEW a \in Lines, a.epoch = 1, ~a.playing
      PROVE  a = Line(1, FALSE)
  <2>1. a.playing = FALSE
    BY <1>2 DEF Lines
  <2> QED BY <1>1, <1>2, <2>1, LineFacts
<1> QED BY <1>1, <1>2

\* What is known is typed, and every host's session is in use and has counted a line.
LEMMA KnownFacts ==
  ASSUME WatchInv
  PROVE  /\ \A x : Known(watch, air, x) => /\ x[1] \in usedIds /\ x[2] \in Lines /\ x[2].epoch # 0
                                           /\ (x[2].epoch = 1 => ~x[2].playing)
         /\ \A p \in Phones : watch[p].role = "host" =>
              /\ watch[p].sid \in usedIds /\ watch[p].epoch \in Nat \ {0}
              /\ watch[p].anchor.epoch = watch[p].epoch /\ watch[p].anchor # NoLine
         /\ \A x, y : Known(watch, air, x) /\ Known(watch, air, y) /\ x[1] = y[1]
                        /\ x[2].epoch = y[2].epoch => x = y
         /\ \A p \in Phones : watch[p].anchor # NoLine => Known(watch, air, <<watch[p].sid, watch[p].anchor>>)
<1>1. \A p \in Phones : watch[p].anchor # NoLine => Known(watch, air, <<watch[p].sid, watch[p].anchor>>)
  BY DEF Known, Holds
<1>2. /\ \A x, y : Known(watch, air, x) /\ Known(watch, air, y) /\ x[1] = y[1]
                     /\ x[2].epoch = y[2].epoch => x = y
      /\ \A x : Known(watch, air, x) => /\ x[1] \in usedIds /\ x[2].epoch # 0
                                        /\ (x[2].epoch = 1 => ~x[2].playing)
  BY DEF WatchInv, LinesAgree
<1>3. \A x : Known(watch, air, x) => x[2] \in Lines
  <2> SUFFICES ASSUME NEW x, Known(watch, air, x)  PROVE x[2] \in Lines
    OBVIOUS
  <2>1. CASE Holds(watch, x)
    <3>1. PICK q \in Phones : x = <<watch[q].sid, watch[q].anchor>>
      BY <2>1 DEF Holds
    <3> QED BY <3>1, OnePhone
  <2>2. CASE Sends(air, x)
    <3>1. PICK q \in Phones : \E i \in DOMAIN air[q] :
            air[q][i].type \in {"command", "beat"} /\ x = <<air[q][i].sid, air[q][i].anchor>>
      BY <2>2 DEF Sends
    <3>2. PICK i \in DOMAIN air[q] :
            air[q][i].type \in {"command", "beat"} /\ x = <<air[q][i].sid, air[q][i].anchor>>
      BY <3>1
    <3>3. air[q][i] \in Messages
      BY DEF WatchInv, AirFits
    <3> QED BY <3>2, <3>3 DEF Messages
  <2> QED BY <2>1, <2>2 DEF Known
<1>4. \A p \in Phones : watch[p].role = "host" =>
        /\ watch[p].sid \in usedIds /\ watch[p].epoch \in Nat \ {0}
        /\ watch[p].anchor.epoch = watch[p].epoch /\ watch[p].anchor # NoLine
  <2> SUFFICES ASSUME NEW p \in Phones, watch[p].role = "host"
               PROVE  /\ watch[p].sid \in usedIds /\ watch[p].epoch \in Nat \ {0}
                      /\ watch[p].anchor.epoch = watch[p].epoch /\ watch[p].anchor # NoLine
    OBVIOUS
  <2>1. watch[p].anchor.epoch = watch[p].epoch /\ watch[p].anchor # NoLine /\ watch[p].epoch \in Nat
    <3>1. PhoneFits(watch[p], media[p], usedIds) /\ watch[p].epoch \in Nat
      BY OnePhone
    <3> QED BY <3>1 DEF PhoneFits, RoleFits
  <2>2. /\ <<watch[p].sid, watch[p].anchor>>[1] \in usedIds
        /\ <<watch[p].sid, watch[p].anchor>>[2].epoch # 0
    BY <1>1, <1>2, <2>1
  <2> QED BY <2>1, <2>2
<1> QED BY <1>1, <1>2, <1>3, <1>4

\* acceptInvite() of a session that is in use.
LEMMA AcceptObeys ==
  ASSUME WatchInv, NEW p \in Phones, NEW w, DOMAIN w = WatchFields, w.query \in Nat,
         NEW id \in usedIds, NEW queue, AirFits(queue, usedIds),
         \A x : Sends(queue, x) => Sends(air, x),
         AcceptInvited(p, w, id, queue), UNCHANGED <<usedIds, queries>>
  PROVE  WatchInv'
<1> DEFINE u == [w EXCEPT !.state = "following", !.role = "guest", !.sid = id, !.epoch = 1,
                          !.invite = 0, !.timer = 0, !.peerPresent = TRUE, !.anchor = NoLine]
           a == Line(1, FALSE)
           m == [type |-> "join", sid |-> id]
           now == FALSE
<1>1. /\ DOMAIN watch = Phones /\ DOMAIN media = Phones /\ media[p] \in BOOLEAN
      /\ usedIds \subseteq Nat \ {0} /\ queries \in Nat
  BY OnePhone
<1>2. /\ DOMAIN u = WatchFields /\ u.state = "following" /\ u.role = "guest" /\ u.sid = id
      /\ u.epoch = 1 /\ u.invite = 0 /\ u.timer = 0 /\ u.anchor = NoLine /\ u.query = w.query
  BY DEF WatchFields
<1>3. ApplyAnchor(p, u, a, now) /\ air' = [queue EXCEPT ![p] = Append(@, m)]
  BY DEF AcceptInvited
<1>0. a \in Lines /\ a # NoLine /\ a.epoch = 1 /\ ~a.playing /\ now \in BOOLEAN
  BY FirstLine
<1>00. \A b \in Lines : b.epoch = 1 /\ ~b.playing => b = a
  BY FirstLine
<1>01. m \in Messages /\ m.type = "join"
  BY <1>1, MessageFacts
<1> HIDE DEF u, a, now, m
<1>4. PlayerObeys(u, media[p]) /\ (SameLine(a, u.anchor) => a = u.anchor)
  BY <1>1, <1>2 DEF PlayerObeys, SameLine
<1>5. PICK v, n : /\ Moves(p, v, n)
                  /\ DOMAIN v = WatchFields /\ v.anchor = a /\ PlayerObeys(v, n)
                  /\ \A f \in WatchFields \ {"anchor", "timer"} : v[f] = u[f]
  BY <1>0, <1>1, <1>2, <1>3, <1>4, AnchorApplied
<1>6. /\ v.state = "following" /\ v.role = "guest" /\ v.sid = id /\ v.epoch = 1 /\ v.invite = 0
      /\ v.query = w.query
  BY <1>2, <1>5 DEF WatchFields
<1>7. PhoneFits(v, n, usedIds)
  BY <1>0, <1>1, <1>5, <1>6 DEF PhoneFits, WatchTyped, RoleFits
<1>8. /\ AirFits(air', usedIds) /\ \A x : Sends(air', x) => Known(watch, air, x)
  BY <1>01, <1>3, PlainSent
<1>9. MayAppear(<<id, a>>, p, usedIds)
  <2>1. \A y : Known(watch, air, y) /\ y[1] = id /\ y[2].epoch = 1 => y = <<id, a>>
    <3> SUFFICES ASSUME NEW y, Known(watch, air, y), y[1] = id, y[2].epoch = 1
                 PROVE  y = <<id, a>>
      OBVIOUS
    <3>1. y[2] = a
      BY <1>00, KnownFacts
    <3>2. y = <<y[1], y[2]>>
      BY DEF Known, Holds, Sends
    <3> QED BY <3>1, <3>2
  <2>2. \A q \in Phones : watch[q].role = "host" => 1 <= watch[q].epoch
    <3> TAKE q \in Phones
    <3>1. watch[q].role = "host" => watch[q].epoch \in Nat \ {0}
      BY KnownFacts
    <3> QED BY <3>1
  <2>3. <<id, a>>[1] = id /\ <<id, a>>[2] = a
    OBVIOUS
  <2> QED BY <1>0, <2>1, <2>2, <2>3 DEF MayAppear
<1>10. HostFits(p, v, {<<id, a>>})
  BY <1>6 DEF HostFits
<1> DEFINE new == {<<id, a>>}
<1>11. /\ \A x, y \in new : x = y
       /\ \A x \in new : MayAppear(x, p, usedIds')
       /\ <<v.sid, v.anchor>> \in new
       /\ usedIds' = usedIds /\ queries' = queries
  BY <1>5, <1>6, <1>9
<1> HIDE DEF new
<1>12. HostFits(p, v, new)
  BY <1>10 DEF new
<1> QED BY <1>1, <1>5, <1>7, <1>8, <1>11, <1>12, PhoneSteps

\* createSession()
LEMMA CreateObeys ==
  ASSUME WatchInv, NEW p \in Phones, NEW id \in Nat \ {0}, id \notin usedIds, CreateWatch(p, id)
  PROVE  WatchInv'
<1> DEFINE o == watch[p]
           u == [o EXCEPT !.state = "hosting", !.role = "host", !.sid = id, !.epoch = 1, !.query = 0,
                          !.peerPresent = FALSE]
           a == Line(1, FALSE)
           new == {<<id, a>>}
           m == [type |-> "create", sid |-> id]
           now == FALSE
<1>1. /\ DOMAIN watch = Phones /\ DOMAIN media = Phones /\ DOMAIN o = WatchFields
      /\ usedIds \subseteq Nat \ {0} /\ queries \in Nat /\ AirFits(air, usedIds)
      /\ PhoneFits(o, media[p], usedIds)
  BY OnePhone
<1>2. /\ DOMAIN u = WatchFields /\ u.state = "hosting" /\ u.role = "host" /\ u.sid = id
      /\ u.epoch = 1 /\ u.invite = o.invite /\ u.timer = o.timer /\ u.anchor = o.anchor /\ u.query = 0
  BY <1>1 DEF WatchFields
<1>3. /\ ApplyAnchor(p, u, a, now) /\ o.invite = 0 /\ usedIds' = usedIds \cup {id}
      /\ air' = [air EXCEPT ![p] = Append(@, m)] /\ queries' = queries
  BY DEF CreateWatch, Sent
<1>4. o.anchor # NoLine => o.anchor \in Lines /\ (o.anchor.epoch = 1 => ~o.anchor.playing)
  <2>1. o.anchor # NoLine => Known(watch, air, <<o.sid, o.anchor>>)
    BY KnownFacts
  <2>2. <<o.sid, o.anchor>>[2] = o.anchor
    OBVIOUS
  <2> QED BY <2>1, <2>2, KnownFacts
<1>0. a \in Lines /\ a # NoLine /\ a.epoch = 1 /\ ~a.playing /\ now \in BOOLEAN
  BY FirstLine
<1>00. \A b \in Lines : b.epoch = 1 /\ ~b.playing => b = a
  BY FirstLine
<1>01. m \in Messages /\ m.type = "create" /\ m.sid \in usedIds'
  BY <1>3, MessageFacts
<1> HIDE DEF u, o, a, now, m
<1>5. PlayerObeys(u, media[p]) /\ (SameLine(a, u.anchor) => a = u.anchor)
  BY <1>0, <1>00, <1>1, <1>2, <1>4 DEF PhoneFits, PlayerObeys, SameLine
<1>6. PICK v, n : /\ Moves(p, v, n)
                  /\ DOMAIN v = WatchFields /\ v.anchor = a /\ PlayerObeys(v, n)
                  /\ \A f \in WatchFields \ {"anchor", "timer"} : v[f] = u[f]
  BY <1>0, <1>1, <1>2, <1>3, <1>5, AnchorApplied
<1>7. /\ v.state = "hosting" /\ v.role = "host" /\ v.sid = id /\ v.epoch = 1 /\ v.invite = 0
      /\ v.query = 0
  BY <1>2, <1>3, <1>6 DEF WatchFields
<1>8. PhoneFits(v, n, usedIds')
  BY <1>0, <1>1, <1>3, <1>6, <1>7 DEF PhoneFits, WatchTyped, RoleFits
<1>9. AirFits(air, usedIds')
  BY <1>1, <1>3 DEF AirFits
<1>10. AirFits(air', usedIds') /\ \A x : Sends(air', x) => Known(watch, air, x)
  BY <1>01, <1>3, <1>9, PlainSent
<1>11. \A y : Known(watch, air, y) => y[1] # id
  BY KnownFacts
<1>12. \A q \in Phones : watch[q].role = "host" => watch[q].sid # id
  BY KnownFacts
<1>13. MayAppear(<<id, a>>, p, usedIds')
  <2>1. <<id, a>>[1] = id /\ <<id, a>>[2] = a /\ id \in usedIds'
    BY <1>3
  <2> QED BY <1>0, <1>11, <1>12, <2>1 DEF MayAppear
<1>14. HostFits(p, v, new)
  BY <1>0, <1>7 DEF HostFits
<1>15. /\ \A x, y \in new : x = y /\ MayAppear(x, p, usedIds')
       /\ <<v.sid, v.anchor>> \in new /\ usedIds \subseteq usedIds' /\ usedIds' \subseteq Nat \ {0}
  BY <1>1, <1>3, <1>6, <1>7, <1>13
<1> HIDE DEF new
<1> QED BY <1>1, <1>3, <1>6, <1>8, <1>10, <1>14, <1>15, PhoneSteps

\* The host of a session has counted its lines, and is its only host.
LEMMA HostCounts ==
  ASSUME WatchInv, NEW p \in Phones, watch[p].role = "host"
  PROVE  /\ \A x : Known(watch, air, x) /\ x[1] = watch[p].sid => x[2].epoch <= watch[p].epoch
         /\ \A q \in Phones : q # p /\ watch[q].role = "host" => watch[q].sid # watch[p].sid
BY DEF WatchInv, LinesAgree

\* The host's next line.
LEMMA PublishObeys ==
  ASSUME WatchInv, NEW p \in Phones, watch[p].role = "host", NEW kind, NEW queue,
         AirFits(queue, usedIds), \A x : Sends(queue, x) => Sends(air, x),
         Publish(p, kind, queue), UNCHANGED <<usedIds, queries>>
  PROVE  WatchInv'
<1> DEFINE o == watch[p]
           u == [o EXCEPT !.epoch = @ + 1]
           b == NextPlaying(u, kind)
           a == Line(u.epoch, b)
           m == [type |-> "command", sid |-> u.sid, anchor |-> a]
           now == kind = "rate"
           new == {<<o.sid, a>>}
<1>1. /\ DOMAIN watch = Phones /\ DOMAIN media = Phones /\ DOMAIN o = WatchFields
      /\ usedIds \subseteq Nat \ {0} /\ queries \in Nat /\ o.sid \in Nat
      /\ PhoneFits(o, media[p], usedIds)
  BY OnePhone
<1>2. /\ o.sid \in usedIds /\ o.epoch \in Nat \ {0} /\ o.anchor.epoch = o.epoch /\ o.anchor # NoLine
  BY KnownFacts
<1>3. /\ DOMAIN u = WatchFields /\ u.epoch = o.epoch + 1
      /\ \A f \in WatchFields \ {"epoch"} : u[f] = o[f]
  BY <1>1 DEF WatchFields
<1>4. /\ u.state = o.state /\ u.role = o.role /\ u.sid = o.sid /\ u.invite = o.invite
      /\ u.query = o.query /\ u.anchor = o.anchor /\ u.timer = o.timer
  BY <1>3 DEF WatchFields
<1>5. b \in BOOLEAN /\ now \in BOOLEAN
  BY DEF NextPlaying
<1>6. ApplyAnchor(p, u, a, now) /\ air' = [queue EXCEPT ![p] = Append(@, m)]
  BY DEF Publish
<1> HIDE DEF u, b
<1>7. /\ a \in Lines /\ a.epoch = o.epoch + 1 /\ a.epoch \in Nat /\ a # NoLine
  <2>1. u.epoch \in Nat /\ u.epoch # 0
    BY <1>2, <1>3
  <2> QED BY <1>3, <1>5, <2>1, LineFacts
<1>8. m \in Messages /\ m.type = "command" /\ m.sid = o.sid /\ m.anchor = a
  <2>1. u.sid \in Nat
    BY <1>1, <1>4
  <2> QED BY <1>4, <1>7, <2>1, MessageFacts
<1> HIDE DEF o, a, now, m
<1>9. PlayerObeys(u, media[p]) /\ (SameLine(a, u.anchor) => a = u.anchor)
  BY <1>1, <1>2, <1>4, <1>7 DEF PhoneFits, PlayerObeys, SameLine
<1>10. PICK v, n : /\ Moves(p, v, n)
                   /\ DOMAIN v = WatchFields /\ v.anchor = a /\ PlayerObeys(v, n)
                   /\ \A f \in WatchFields \ {"anchor", "timer"} : v[f] = u[f]
  BY <1>1, <1>3, <1>5, <1>6, <1>7, <1>9, AnchorApplied
<1>11. /\ v.state = o.state /\ v.role = o.role /\ v.sid = o.sid /\ v.epoch = o.epoch + 1
       /\ v.invite = o.invite /\ v.query = o.query
  BY <1>3, <1>4, <1>10 DEF WatchFields
<1>12. PhoneFits(v, n, usedIds)
  BY <1>1, <1>2, <1>7, <1>10, <1>11 DEF PhoneFits, WatchTyped, RoleFits
<1>13. AirFits(air', usedIds)
  BY <1>6, <1>8, SentOff
<1>14. \A x : Sends(air', x) => Known(watch, air, x) \/ x \in new
  <2> SUFFICES ASSUME NEW x, Sends(air', x)  PROVE Known(watch, air, x) \/ x \in new
    OBVIOUS
  <2> DEFINE more == air'
  <2>1. more = [queue EXCEPT ![p] = Append(@, m)] /\ Sends(more, x)
    BY <1>6
  <2> HIDE DEF more
  <2>2. Sends(queue, x) \/ x = <<m.sid, m.anchor>>
    BY <1>8, <2>1, LinesSent
  <2> QED BY <1>8, <2>2 DEF Known
<1>15. o.role = "host" /\ o.epoch <= o.epoch + 1
  BY <1>2 DEF o
<1>16. MayAppear(<<o.sid, a>>, p, usedIds)
  <2>1. <<o.sid, a>>[1] = o.sid /\ <<o.sid, a>>[2] = a
    OBVIOUS
  <2>2. \A y : Known(watch, air, y) /\ y[1] = o.sid => y[2].epoch # o.epoch + 1
    <3> SUFFICES ASSUME NEW y, Known(watch, air, y), y[1] = o.sid  PROVE y[2].epoch # o.epoch + 1
      OBVIOUS
    <3>1. y[2].epoch <= o.epoch
      BY HostCounts DEF o
    <3>2. y[2].epoch \in Nat
      <4>1. y[2] \in Lines
        BY KnownFacts
      <4> QED BY <4>1 DEF Lines
    <3> QED BY <1>2, <3>1, <3>2
  <2>3. \A q \in Phones : q # p /\ watch[q].role = "host" => watch[q].sid # o.sid
    BY HostCounts DEF o
  <2>4. a.epoch # 0 /\ a.epoch # 1
    BY <1>2, <1>7
  <2> QED BY <1>2, <1>7, <2>1, <2>2, <2>3, <2>4 DEF MayAppear
<1>17. HostFits(p, v, new)
  <2>1. \A x \in new : x[2] = a
    OBVIOUS
  <2>2. a.epoch <= o.epoch + 1
    BY <1>2, <1>7
  <2> QED BY <1>11, <1>15, <2>1, <2>2 DEF HostFits, o
<1>18. /\ \A x, y \in new : x = y /\ MayAppear(x, p, usedIds')
       /\ <<v.sid, v.anchor>> \in new /\ usedIds' = usedIds /\ queries' = queries
  BY <1>10, <1>11, <1>16
<1> HIDE DEF new
<1> QED BY <1>1, <1>10, <1>12, <1>13, <1>14, <1>17, <1>18, PhoneSteps

\* One that runs a session and is no guest hosts it.
LEMMA ActiveHosts ==
  ASSUME WatchInv, NEW p \in Phones, IsActive(watch[p]), watch[p].role # "guest"
  PROVE  watch[p].role = "host"
BY OnePhone DEF IsActive, PhoneFits, RoleFits

\* Nothing changes but what is on its way.
LEMMA AirSteps ==
  ASSUME WatchInv, NEW p \in Phones, UNCHANGED <<watch, media, usedIds, queries>>,
         AirFits(air', usedIds), \A x : Sends(air', x) => Known(watch, air, x)
  PROVE  WatchInv'
<1>1. /\ DOMAIN watch = Phones /\ DOMAIN media = Phones /\ queries \in Nat
      /\ PhoneFits(watch[p], media[p], usedIds)
  BY OnePhone
<1>2. Moves(p, watch[p], media[p])
  BY <1>1 DEF Moves
<1> QED BY <1>1, <1>2, QuietSteps

\* play(), pause(), seek(), setRate(); the end of the film.
LEMMA CommandObeys ==
  ASSUME WatchInv, NEW p \in Phones,
         (\E kind \in Kinds : Command(p, kind)) \/ FilmEnds(p)
  PROVE  WatchInv'
<1>1. AirFits(air, usedIds) /\ watch[p].sid \in Nat
  BY OnePhone
<1>2. CASE FilmEnds(p)
  <2> DEFINE k == "pause"
  <2>1. Publish(p, k, air) /\ watch[p].role = "host" /\ UNCHANGED <<usedIds, queries>>
    BY <1>2 DEF FilmEnds
  <2> HIDE DEF k
  <2> QED BY <1>1, <2>1, PublishObeys
<1>3. ASSUME NEW kind \in Kinds, Command(p, kind)
      PROVE  WatchInv'
  <2>1. CASE watch[p].role # "guest"
    <3>1. Publish(p, kind, air) /\ IsActive(watch[p]) /\ UNCHANGED <<usedIds, queries>>
      BY <1>3, <2>1 DEF Command
    <3> QED BY <1>1, <2>1, <3>1, ActiveHosts, PublishObeys
  <2>2. CASE watch[p].role = "guest"
    <3> DEFINE m == [type |-> "request", sid |-> watch[p].sid, kind |-> kind]
    <3>1. air' = [air EXCEPT ![p] = Append(@, m)] /\ UNCHANGED <<watch, media, usedIds, queries>>
      BY <1>3, <2>2 DEF Command, Sent
    <3>2. m \in Messages /\ m.type = "request"
      BY <1>1, MessageFacts
    <3> HIDE DEF m
    <3>3. AirFits(air', usedIds) /\ \A x : Sends(air', x) => Known(watch, air, x)
      BY <1>1, <3>1, <3>2, PlainSent
    <3> QED BY <3>1, <3>3, AirSteps
  <2> QED BY <2>1, <2>2
<1> QED BY <1>2, <1>3

\* heartbeat()
LEMMA HeartbeatObeys ==
  ASSUME WatchInv, NEW p \in Phones, Heartbeat(p)
  PROVE  WatchInv'
<1> DEFINE w == watch[p]
           m == [type |-> "beat", sid |-> w.sid, anchor |-> w.anchor]
<1>1. AirFits(air, usedIds) /\ w.sid \in Nat /\ w.anchor \in Lines
  BY OnePhone
<1>2. /\ air' = [air EXCEPT ![p] = Append(@, m)] /\ w.anchor # NoLine
      /\ UNCHANGED <<watch, media, usedIds, queries>>
  BY DEF Heartbeat, Sent
<1>3. m \in Messages /\ m.type = "beat" /\ m.sid = w.sid /\ m.anchor = w.anchor
  BY <1>1, MessageFacts
<1>4. Known(watch, air, <<w.sid, w.anchor>>)
  BY <1>2, KnownFacts
<1> HIDE DEF w, m
<1>5. AirFits(air', usedIds)
  BY <1>1, <1>2, <1>3, SentOff
<1>6. \A x : Sends(air', x) => Known(watch, air, x)
  <2> SUFFICES ASSUME NEW x, Sends(air', x)  PROVE Known(watch, air, x)
    OBVIOUS
  <2> DEFINE more == air'
  <2>1. more = [air EXCEPT ![p] = Append(@, m)] /\ Sends(more, x)
    BY <1>2
  <2> HIDE DEF more
  <2>2. Sends(air, x) \/ x = <<m.sid, m.anchor>>
    BY <1>1, <1>3, <2>1, LinesSent
  <2> QED BY <1>3, <1>4, <2>2 DEF Known
<1> QED BY <1>2, <1>5, <1>6, AirSteps

\* acceptInvite()
LEMMA JoinObeys ==
  ASSUME WatchInv, NEW p \in Phones, JoinWatch(p)
  PROVE  WatchInv'
<1> DEFINE w == watch[p]
           id == watch[p].invite
<1>1. /\ DOMAIN w = WatchFields /\ w.query \in Nat /\ id \in usedIds \cup {0} /\ AirFits(air, usedIds)
  BY OnePhone
<1>2. AcceptInvited(p, w, id, air) /\ UNCHANGED <<usedIds, queries>> /\ id # 0
  BY DEF JoinWatch
<1> HIDE DEF w, id
<1>3. id \in usedIds
  BY <1>1, <1>2
<1> QED BY <1>1, <1>2, <1>3, AcceptObeys

\* createSession() of the peer: the smaller id wins.
LEMMA OnCreateObeys ==
  ASSUME WatchInv, NEW p \in Phones, NEW m, NEW rest, m.sid \in usedIds, AirFits(rest, usedIds),
         \A x : Sends(rest, x) => Sends(air, x), OnCreate(p, m, rest), UNCHANGED <<usedIds, queries>>
  PROVE  WatchInv'
<1> DEFINE o == watch[p]
           hosting == o.role = "host" /\ IsActive(o)
           y == IF hosting THEN Finished(o) ELSE o
           id == m.sid
<1>1. /\ PhoneFits(o, media[p], usedIds) /\ DOMAIN watch = Phones /\ DOMAIN media = Phones
      /\ DOMAIN o = WatchFields /\ media[p] \in BOOLEAN /\ o.query \in Nat /\ queries \in Nat
      /\ o.anchor \in Lines
  BY OnePhone
<1>2. o.role = "host" => hosting
  BY <1>1 DEF PhoneFits, RoleFits, IsActive
<1>3. \/ air' = rest /\ UNCHANGED <<watch, media>>
      \/ AcceptInvited(p, y, id, rest)
      \/ /\ watch' = [watch EXCEPT ![p] = [y EXCEPT !.invite = id, !.state = "invited"]]
         /\ air' = rest /\ UNCHANGED media
  BY DEF OnCreate
<1>4. DOMAIN y = WatchFields /\ y.query \in Nat
  BY <1>1 DEF Finished, NewWatch, WatchFields
<1>5. /\ y.anchor # NoLine => y = o
      /\ y.role # "host"
      /\ PhoneFits(y, media[p], usedIds)
  <2>1. CASE hosting
    <3> DEFINE s == "ended"
    <3>1. y = NewWatch(s) /\ s \notin {"hosting", "following"}
      BY <2>1 DEF Finished
    <3> HIDE DEF s, y
    <3>2. /\ PhoneFits(NewWatch(s), media[p], usedIds)
          /\ NewWatch(s).anchor = NoLine /\ NewWatch(s).role = "none"
      BY <1>1, <3>1, NewWatchFits
    <3> QED BY <3>1, <3>2
  <2>2. CASE ~hosting
    BY <1>1, <1>2, <2>2
  <2> QED BY <2>1, <2>2
<1> HIDE DEF y, hosting
<1>6. CASE air' = rest /\ UNCHANGED <<watch, media>>
  BY <1>6, AirSteps DEF Known
<1>7. CASE AcceptInvited(p, y, id, rest)
  <2>1. id \in usedIds
    OBVIOUS
  <2> HIDE DEF id
  <2> QED BY <1>4, <1>7, <2>1, AcceptObeys
<1>8. CASE /\ watch' = [watch EXCEPT ![p] = [y EXCEPT !.invite = id, !.state = "invited"]]
           /\ air' = rest /\ UNCHANGED media
  <2> DEFINE w == [y EXCEPT !.invite = id, !.state = "invited"]
  <2>1. Moves(p, w, media[p])
    BY <1>1, <1>8 DEF Moves
  <2>2. /\ DOMAIN w = WatchFields /\ w.invite = id /\ w.state = "invited"
        /\ \A f \in WatchFields \ {"state", "invite"} : w[f] = y[f]
    BY <1>4 DEF WatchFields
  <2> HIDE DEF w
  <2>3. /\ w.role = y.role /\ w.sid = y.sid /\ w.anchor = y.anchor /\ w.epoch = y.epoch
        /\ w.timer = y.timer /\ w.query = y.query
    BY <2>2 DEF WatchFields
  <2>4. PhoneFits(w, media[p], usedIds)
    BY <1>5, <2>2, <2>3 DEF PhoneFits, WatchTyped, RoleFits, PlayerObeys
  <2>5. w.anchor # NoLine => w.anchor = watch[p].anchor /\ w.sid = watch[p].sid
    BY <1>5, <2>3
  <2>6. \A x : Sends(air', x) => Known(watch, air, x)
    BY <1>8 DEF Known
  <2>7. w.role # "host" /\ queries' \in Nat /\ AirFits(air', usedIds) /\ usedIds' = usedIds
    BY <1>1, <1>5, <1>8, <2>3
  <2> QED BY <2>1, <2>4, <2>5, <2>6, <2>7, QuietSteps
<1> QED BY <1>3, <1>6, <1>7, <1>8

\* Queries, their answers, those who join, and farewells.
LEMMA OnTalkObeys ==
  ASSUME WatchInv, NEW p \in Phones, NEW m \in Messages, NEW rest, AirFits(rest, usedIds),
         \A x : Sends(rest, x) => Sends(air, x), UNCHANGED <<usedIds, queries>>,
         \/ m.type = "query" /\ OnQuery(p, m, rest)
         \/ m.type = "reply" /\ OnReply(p, m, rest)
         \/ m.type = "join" /\ OnJoin(p, m, rest)
         \/ m.type = "farewell" /\ OnFarewell(p, m, rest)
  PROVE  WatchInv'
<1> DEFINE o == watch[p]
<1>1. /\ PhoneFits(o, media[p], usedIds) /\ DOMAIN watch = Phones /\ DOMAIN media = Phones
      /\ DOMAIN o = WatchFields /\ media[p] \in BOOLEAN /\ o.query \in Nat /\ queries \in Nat
      /\ o.invite \in usedIds \cup {0} /\ usedIds \subseteq Nat \ {0}
  BY OnePhone
<1>2. air' = rest => AirFits(air', usedIds) /\ \A x : Sends(air', x) => Known(watch, air, x)
  BY DEF Known
<1>3. o.role = "host" => o.state = "hosting" /\ o.query = 0 /\ o.invite = 0 /\ o.sid # 0
  <2>1. o.role = "host" => o.sid \in usedIds
    BY KnownFacts
  <2> QED BY <1>1, <2>1 DEF PhoneFits, RoleFits
<1>4. CASE m.type = "query" /\ OnQuery(p, m, rest)
  <2>1. PICK have \in BOOLEAN :
          air' = [rest EXCEPT ![p] = Append(@, [type |-> "reply", id |-> m.id, have |-> have])]
    BY <1>4 DEF OnQuery
  <2> DEFINE a == [type |-> "reply", id |-> m.id, have |-> have]
  <2>2. m.id \in Nat
    BY <1>4 DEF Messages
  <2>3. a \in Messages /\ a.type = "reply" /\ air' = [rest EXCEPT ![p] = Append(@, a)]
    BY <2>1, <2>2, MessageFacts
  <2> HIDE DEF a
  <2>4. AirFits(air', usedIds) /\ \A x : Sends(air', x) => Known(watch, air, x)
    BY <2>3, PlainSent
  <2>5. UNCHANGED <<watch, media>>
    BY <1>4 DEF OnQuery
  <2> QED BY <2>4, <2>5, AirSteps
<1>5. CASE m.type = "reply" /\ OnReply(p, m, rest)
  <2>1. CASE watch[p].query # m.id \/ watch[p].query = 0
    BY <1>2, <1>5, <2>1, AirSteps DEF OnReply
  <2>2. CASE ~(watch[p].query # m.id \/ watch[p].query = 0)
    <3> DEFINE w == [o EXCEPT !.query = 0, !.state = IF m.have THEN "ready" ELSE "idle"]
    <3>1. Moves(p, w, media[p]) /\ air' = rest
      BY <1>1, <1>5, <2>2 DEF OnReply, Moves
    <3>2. /\ DOMAIN w = WatchFields /\ w.query = 0 /\ w.invite = o.invite
          /\ w.state \in {"ready", "idle"}
          /\ \A f \in WatchFields \ {"state", "query", "invite", "peerPresent"} : w[f] = o[f]
      BY <1>1 DEF WatchFields
    <3> HIDE DEF w
    <3> QED BY <1>1, <1>2, <1>3, <2>2, <3>1, <3>2, FieldSteps
  <2> QED BY <2>1, <2>2
<1>6. CASE m.type = "join" /\ OnJoin(p, m, rest)
  <2> DEFINE w == [o EXCEPT !.peerPresent = @ \/ (o.role = "host" /\ IsActive(o) /\ m.sid = o.sid)]
  <2>1. Moves(p, w, media[p]) /\ air' = rest
    BY <1>1, <1>6 DEF OnJoin, Moves
  <2>2. /\ DOMAIN w = WatchFields /\ w.query = o.query /\ w.invite = o.invite /\ w.state = o.state
        /\ \A f \in WatchFields \ {"state", "query", "invite", "peerPresent"} : w[f] = o[f]
    BY <1>1 DEF WatchFields
  <2> HIDE DEF w
  <2> QED BY <1>1, <1>2, <1>3, <2>1, <2>2, FieldSteps
<1>7. CASE m.type = "farewell" /\ OnFarewell(p, m, rest)
  <2>1. CASE o.invite = m.sid /\ o.sid = 0
    <3> DEFINE w == [o EXCEPT !.invite = 0, !.state = "idle"]
    <3>1. Moves(p, w, media[p]) /\ air' = rest
      BY <1>1, <1>7, <2>1 DEF OnFarewell, Moves
    <3>2. /\ DOMAIN w = WatchFields /\ w.query = o.query /\ w.invite = 0 /\ w.state = "idle"
          /\ \A f \in WatchFields \ {"state", "query", "invite", "peerPresent"} : w[f] = o[f]
      BY <1>1 DEF WatchFields
    <3> HIDE DEF w
    <3> QED BY <1>1, <1>2, <1>3, <2>1, <3>1, <3>2, FieldSteps
  <2>2. CASE ~(o.invite = m.sid /\ o.sid = 0) /\ o.sid = m.sid
    <3>1. Moves(p, NewWatch("ended"), media[p]) /\ air' = rest
      BY <1>1, <1>7, <2>2 DEF OnFarewell, Moves, Finished
    <3> QED BY <1>1, <1>2, <3>1, ResetSteps
  <2>3. CASE ~(o.invite = m.sid /\ o.sid = 0) /\ o.sid # m.sid
    <3>1. Moves(p, o, media[p]) /\ air' = rest
      BY <1>1, <1>7, <2>3 DEF OnFarewell, Moves
    <3> QED BY <1>1, <1>2, <1>3, <3>1, FieldSteps
  <2> QED BY <2>1, <2>2, <2>3
<1> QED BY <1>4, <1>5, <1>6, <1>7

\* Requests and lines.
LEMMA OnCommandObeys ==
  ASSUME WatchInv, NEW p \in Phones, NEW m \in Messages, NEW rest, AirFits(rest, usedIds),
         \A x : Sends(rest, x) => Sends(air, x), m.type \in {"command", "request", "beat"},
         m.type \in {"command", "beat"} => Sends(air, <<m.sid, m.anchor>>),
         OnCommand(p, m, rest), UNCHANGED <<usedIds, queries>>
  PROVE  WatchInv'
<1> DEFINE w == watch[p]
           a == m.anchor
<1>1. /\ PhoneFits(w, media[p], usedIds) /\ DOMAIN watch = Phones /\ DOMAIN media = Phones
      /\ DOMAIN w = WatchFields /\ queries \in Nat
  BY OnePhone
<1>2. CASE w.role = "host" /\ Publish(p, m.kind, rest)
  <2> DEFINE k == m.kind
  <2>1. Publish(p, k, rest)
    BY <1>2
  <2> HIDE DEF k
  <2> QED BY <1>2, <2>1, PublishObeys
<1>3. ASSUME IsActive(w), m.sid = w.sid, w.role = "guest", m.type # "request", NEW started \in BOOLEAN,
             ApplyAnchor(p, w, a, started), air' = rest
      PROVE  WatchInv'
  <2>1. m.type \in {"command", "beat"} /\ a \in Lines
    BY <1>3 DEF Messages
  <2>2. Known(watch, air, <<m.sid, a>>)
    BY <2>1 DEF Known
  <2>3. <<m.sid, a>>[1] = m.sid /\ <<m.sid, a>>[2] = a /\ <<w.sid, w.anchor>>[1] = w.sid
        /\ <<w.sid, w.anchor>>[2] = w.anchor
    OBVIOUS
  <2>4. SameLine(a, w.anchor) => a = w.anchor
    <3>1. w.anchor # NoLine => Known(watch, air, <<w.sid, w.anchor>>)
      BY KnownFacts
    <3>2. SUFFICES ASSUME w.anchor # NoLine, a.epoch = w.anchor.epoch  PROVE a = w.anchor
      BY DEF SameLine
    <3>3. <<m.sid, a>> = <<w.sid, w.anchor>>
      BY <1>3, <2>2, <2>3, <3>1, <3>2, KnownFacts
    <3> QED BY <2>3, <3>3
  <2>5. PlayerObeys(w, media[p])
    BY <1>1 DEF PhoneFits
  <2> HIDE DEF w, a
  <2>6. PICK v, n : /\ Moves(p, v, n)
                    /\ DOMAIN v = WatchFields /\ v.anchor = a /\ PlayerObeys(v, n)
                    /\ \A f \in WatchFields \ {"anchor", "timer"} : v[f] = w[f]
    BY <1>1, <1>3, <2>1, <2>4, <2>5, AnchorApplied
  <2>7. /\ v.state = w.state /\ v.role = w.role /\ v.sid = w.sid /\ v.epoch = w.epoch
        /\ v.invite = w.invite /\ v.query = w.query
    BY <2>6 DEF WatchFields
  <2>8. PhoneFits(v, n, usedIds)
    <3>1. w.state \in {"hosting", "following"}
      BY <1>3 DEF IsActive, w
    <3> QED BY <1>1, <1>3, <2>1, <2>6, <2>7, <3>1 DEF PhoneFits, WatchTyped, RoleFits
  <2>9. Known(watch, air, <<v.sid, v.anchor>>)
    BY <1>3, <2>2, <2>6, <2>7
  <2>10. \A x : Sends(air', x) => Known(watch, air, x)
    BY <1>3 DEF Known
  <2> DEFINE new == {}
  <2>11. /\ \A x, y \in new : x = y /\ MayAppear(x, p, usedIds')
         /\ HostFits(p, v, new)
    BY <1>3, <2>7 DEF HostFits
  <2>12. /\ usedIds \subseteq usedIds' /\ usedIds' \subseteq Nat \ {0} /\ queries' \in Nat
         /\ usedIds' = usedIds
    BY <1>1, OnePhone
  <2>13. AirFits(air', usedIds') /\ PhoneFits(v, n, usedIds')
    BY <1>3, <2>8, <2>12
  <2> HIDE DEF new
  <2> QED BY <2>6, <2>9, <2>10, <2>11, <2>12, <2>13, PhoneSteps
<1>4. CASE air' = rest /\ UNCHANGED <<watch, media>>
  BY <1>4, AirSteps DEF Known
<1> QED BY <1>2, <1>3, <1>4 DEF OnCommand

\* Phone p takes a message of its peer.
LEMMA TakeObeys ==
  ASSUME WatchInv, NEW p \in Phones, TakesMessage(p)
  PROVE  WatchInv'
<1>1. PICK i \in 1..Len(air[Peer(p)]) : TakeWatch(p, i)
  BY DEF TakesMessage
<1> DEFINE q == Peer(p)
           m == air[q][i]
           rest == [air EXCEPT ![q] = RemoveAt(@, i)]
<1>2. q \in Phones /\ AirFits(air, usedIds)
  BY PeerIsOther, OnePhone
<1>3. i \in DOMAIN air[q]
  <2>1. air[q] \in Seq(Messages)
    BY <1>2 DEF AirFits
  <2> QED BY <2>1
<1>4. /\ UNCHANGED <<usedIds, queries>>
      /\ \/ air' = rest /\ UNCHANGED <<watch, media>>
         \/ \/ m.type = "query" /\ OnQuery(p, m, rest)
            \/ m.type = "reply" /\ OnReply(p, m, rest)
            \/ m.type = "create" /\ OnCreate(p, m, rest)
            \/ m.type = "join" /\ OnJoin(p, m, rest)
            \/ m.type = "farewell" /\ OnFarewell(p, m, rest)
            \/ m.type \in {"command", "request", "beat"} /\ OnCommand(p, m, rest)
  BY <1>1 DEF TakeWatch
<1> HIDE DEF q
<1>5. rest = [air EXCEPT ![q] = RemoveAt(@, i)]
  OBVIOUS
<1> HIDE DEF rest
<1>6. AirFits(rest, usedIds)
  BY <1>2, <1>3, <1>5, TakenAway
<1>7. \A x : Sends(rest, x) => Sends(air, x)
  <2> SUFFICES ASSUME NEW x, Sends(rest, x)  PROVE Sends(air, x)
    OBVIOUS
  <2> QED BY <1>2, <1>3, <1>5, LinesLeft
<1>8. /\ m \in Messages /\ (m.type = "create" => m.sid \in usedIds)
      /\ m.type \in {"command", "beat"} => Sends(air, <<m.sid, m.anchor>>)
  BY <1>2, <1>3, MessageTaken
<1> HIDE DEF m
<1>9. CASE air' = rest /\ UNCHANGED <<watch, media>>
  BY <1>4, <1>6, <1>7, <1>9, AirSteps DEF Known
<1>10. CASE \/ m.type = "query" /\ OnQuery(p, m, rest)
            \/ m.type = "reply" /\ OnReply(p, m, rest)
            \/ m.type = "join" /\ OnJoin(p, m, rest)
            \/ m.type = "farewell" /\ OnFarewell(p, m, rest)
  BY <1>4, <1>6, <1>7, <1>8, <1>10, OnTalkObeys
<1>11. CASE m.type = "create" /\ OnCreate(p, m, rest)
  BY <1>4, <1>6, <1>7, <1>8, <1>11, OnCreateObeys
<1>12. CASE m.type \in {"command", "request", "beat"} /\ OnCommand(p, m, rest)
  BY <1>4, <1>6, <1>7, <1>8, <1>12, OnCommandObeys
<1> QED BY <1>4, <1>9, <1>10, <1>11, <1>12

\* A message lost.
LEMMA LossObeys ==
  ASSUME WatchInv, NEW p \in Phones, NEW i \in 1..Len(air[p]), WatchMessageLost(p, i)
  PROVE  WatchInv'
<1> DEFINE rest == air'
<1>1. AirFits(air, usedIds)
  BY OnePhone
<1>2. i \in DOMAIN air[p]
  <2>1. air[p] \in Seq(Messages)
    BY <1>1 DEF AirFits
  <2> QED BY <2>1
<1>3. rest = [air EXCEPT ![p] = RemoveAt(@, i)] /\ UNCHANGED <<watch, media, usedIds, queries>>
  BY DEF WatchMessageLost
<1> HIDE DEF rest
<1>4. AirFits(rest, usedIds)
  BY <1>1, <1>2, <1>3, TakenAway
<1>5. \A x : Sends(rest, x) => Sends(air, x)
  <2> SUFFICES ASSUME NEW x, Sends(rest, x)  PROVE Sends(air, x)
    OBVIOUS
  <2> QED BY <1>1, <1>2, <1>3, LinesLeft
<1> QED BY <1>3, <1>4, <1>5, AirSteps DEF Known, rest

\* A state in which nobody holds or sends a line.
LEMMA NothingKnown ==
  ASSUME NEW w, NEW a, NEW used, DOMAIN a = Phones,
         \A p \in Phones : w[p].anchor = NoLine /\ w[p].role # "host" /\ a[p] = <<>>
  PROVE  AirFits(a, used) /\ LinesAgree(w, a, used)
<1>1. AirFits(a, used)
  <2>1. <<>> \in Seq(Messages) /\ DOMAIN <<>> = {}
    OBVIOUS
  <2> QED BY <2>1 DEF AirFits
<1>2. \A x : ~Known(w, a, x)
  BY DEF Known, Holds, Sends
<1> QED BY <1>1, <1>2 DEF LinesAgree

\* The peer session closes.
LEMMA ClosingObeys ==
  ASSUME WatchInv, PeerSessionCloses
  PROVE  WatchInv'
<1>1. /\ usedIds \subseteq Nat \ {0} /\ queries \in Nat
      /\ \A p \in Phones : PhoneFits(watch[p], media[p], usedIds)
  BY DEF WatchInv
<1> DEFINE idle == "idle"
<1>2. /\ DOMAIN watch' = Phones /\ DOMAIN media' = Phones /\ DOMAIN air' = Phones
      /\ usedIds' = usedIds /\ queries' = queries /\ idle \notin {"hosting", "following"}
      /\ \A p \in Phones : /\ watch'[p] = IF watch[p].state = "off" THEN watch[p] ELSE NewWatch(idle)
                           /\ media'[p] = FALSE /\ air'[p] = <<>>
  BY DEF PeerSessionCloses
<1> HIDE DEF idle
<1>3. \A p \in Phones : /\ PhoneFits(watch'[p], media'[p], usedIds')
                        /\ watch'[p].anchor = NoLine /\ watch'[p].role # "host"
  <2> TAKE p \in Phones
  <2>1. CASE watch[p].state = "off"
    BY <1>1, <1>2, <2>1 DEF PhoneFits, RoleFits, WatchTyped, PlayerObeys
  <2>2. CASE watch[p].state # "off"
    <3>1. watch'[p] = NewWatch(idle) /\ media'[p] \in BOOLEAN
      BY <1>2, <2>2
    <3> QED BY <1>2, <3>1, NewWatchFits
  <2> QED BY <2>1, <2>2
<1>4. AirFits(air', usedIds') /\ LinesAgree(watch', air', usedIds')
  BY <1>2, <1>3, NothingKnown
<1> QED BY <1>1, <1>2, <1>3, <1>4 DEF WatchInv

\* The watch session starts as it goes on.
LEMMA WatchStarts ==
  ASSUME WatchInit
  PROVE  WatchInv
<1> DEFINE idle == "idle"
<1>1. /\ DOMAIN watch = Phones /\ DOMAIN media = Phones /\ DOMAIN air = Phones /\ usedIds = {}
      /\ queries = 0 /\ idle \notin {"hosting", "following"}
      /\ \A p \in Phones : watch[p] = NewWatch(idle) /\ media[p] = FALSE /\ air[p] = <<>>
  BY DEF WatchInit
<1> HIDE DEF idle
<1>2. \A p \in Phones : /\ PhoneFits(watch[p], media[p], usedIds)
                        /\ watch[p].anchor = NoLine /\ watch[p].role = "none"
  <2> TAKE p \in Phones
  <2>1. watch[p] = NewWatch(idle) /\ media[p] \in BOOLEAN
    BY <1>1
  <2> QED BY <1>1, <2>1, NewWatchFits
<1>3. AirFits(air, usedIds) /\ LinesAgree(watch, air, usedIds)
  BY <1>1, <1>2, NothingKnown
<1> QED BY <1>1, <1>2, <1>3 DEF WatchInv

\* One step of either phone, or of the peer session.
LEMMA WatchContinues ==
  ASSUME WatchInv, [WatchNext]_watchVars
  PROVE  WatchInv'
<1>1. CASE UNCHANGED watchVars
  BY <1>1 DEF watchVars, WatchInv, LinesAgree, Known, Holds, Sends
<1>2. ASSUME NEW p \in Phones,
             \/ OpenScreen(p) \/ QueryPeerContent(p) \/ QueryTimeout(p) \/ EndWatch(p)
             \/ CloseScreen(p) \/ DeclineWatch(p)
      PROVE  WatchInv'
  BY <1>2, ScreenObeys
<1>3. ASSUME NEW p \in Phones, TakesMessage(p)
      PROVE  WatchInv'
  BY <1>3, TakeObeys
<1>4. ASSUME NEW p \in Phones, StartTimer(p)
      PROVE  WatchInv'
  BY <1>4, StartTimerObeys
<1>5. ASSUME NEW p \in Phones, Heartbeat(p)
      PROVE  WatchInv'
  BY <1>5, HeartbeatObeys
<1>6. ASSUME NEW p \in Phones, FilmEnds(p) \/ \E kind \in Kinds : Command(p, kind)
      PROVE  WatchInv'
  BY <1>6, CommandObeys
<1>7. ASSUME NEW p \in Phones, NEW id \in 1..MaxSessionId \ usedIds, CreateWatch(p, id)
      PROVE  WatchInv'
  <2>1. id \in Nat \ {0} /\ id \notin usedIds
    BY WatchAssumption
  <2> QED BY <1>7, <2>1, CreateObeys
<1>8. ASSUME NEW p \in Phones, JoinWatch(p)
      PROVE  WatchInv'
  BY <1>8, JoinObeys
<1>9. ASSUME NEW p \in Phones, NEW i \in 1..Len(air[p]), WatchMessageLost(p, i)
      PROVE  WatchInv'
  BY <1>9, LossObeys
<1>10. CASE PeerSessionCloses
  BY <1>10, ClosingObeys
<1> QED BY <1>1, <1>2, <1>3, <1>4, <1>5, <1>6, <1>7, <1>8, <1>9, <1>10 DEF WatchNext

\* Watch sessions of two phones, of any number of sessions, lines, messages under way and
\* losses: the player of a phone in a session does what the line it holds says, or the timer
\* of that line is still to do it.
THEOREM PlayersFollowTheLine == WatchSpec => []PlayerFollowsLine
<1>1. WatchInit => WatchInv
  BY WatchStarts
<1>2. WatchInv /\ [WatchNext]_watchVars => WatchInv'
  BY WatchContinues
<1>3. WatchInv => PlayerFollowsLine
  <2> SUFFICES ASSUME WatchInv, NEW p \in Phones, watch[p].anchor # NoLine
               PROVE  IF watch[p].anchor.playing THEN media[p] \/ watch[p].timer = watch[p].anchor.epoch
                                                 ELSE ~media[p]
    BY DEF PlayerFollowsLine
  <2>1. PlayerObeys(watch[p], media[p])
    BY OnePhone DEF PhoneFits
  <2> QED BY <2>1 DEF PlayerObeys
<1> QED BY <1>1, <1>2, <1>3, PTL DEF WatchSpec

-----------------------------------------------------------------------------
(* A game between two phones. *)

GameMoves  == [player : Sides, pick : Picks]
GameEvents == [player : Sides, pick : Picks, seq : Nat]
Counters   == [Sides -> Nat]

\* The host's move number n, counted from 0, is in its log.
HostMade(log, n, pick) ==
  \E j \in DOMAIN log :
    log[j].player = "host" /\ MovesBy(log, "host", j) = n + 1 /\ log[j].pick = pick

\* The host's moves on a board are in its log, each under its number.
Shown(log, board) ==
  \A i \in DOMAIN board :
    board[i].player = "host" => HostMade(log, MovesBy(board, "host", i) - 1, board[i].pick)

Counted(board, seq, version) ==
  /\ board \in Seq(GameMoves) /\ seq \in Counters
  /\ version = Len(board)
  /\ \A p \in Sides : seq[p] = MovesBy(board, p, Len(board))

GameFields == {"board", "seq", "localSeq", "version", "adopted", "abandoned"}

GameRight(log, g, s) ==
  /\ DOMAIN g = GameFields
  /\ Counted(g.board, g.seq, g.version)
  /\ g.localSeq = g.seq[s]
  /\ Shown(log, g.board)

\* The host's log is a line of play, and its events carry their numbers.
TurnAfter(log, n) ==
  IF n = 0 THEN "host" ELSE IF log[n].pick = "again" THEN log[n].player ELSE Other(log[n].player)

Played(log) ==
  /\ Len(log) <= MaxMoves
  /\ \A j \in DOMAIN log : /\ log[j].player = TurnAfter(log, j - 1)
                           /\ log[j].seq = MovesBy(log, log[j].player, j - 1)

\* The position after the first n events of a log.
BoardOf(log, n) == [j \in 1..n |-> [player |-> log[j].player, pick |-> log[j].pick]]

\* What may be under way from a phone.
GameTalk  == [type : {"event"}, pick : Picks, seq : Nat]
GameBoards == [type : {"state"}, board : Seq(GameMoves), seq : Counters, version : Nat]

FromHost(log) ==
  [type : {"invite"}, id : Nat] \union [type : {"leave"}]
    \union {m \in GameTalk : HostMade(log, m.seq, m.pick)}
    \union {m \in GameBoards : Counted(m.board, m.seq, m.version) /\ Shown(log, m.board)}

FromGuest ==
  [type : {"inviteAck"}, id : Nat] \union [type : {"accept", "decline", "syncRequest", "leave"}]
    \union GameTalk

Says(log, s) == IF s = "host" THEN FromHost(log) ELSE FromGuest

RoomFields == {"phase", "bound", "diverged", "asked", "index"}

RoomOK(r, on) ==
  /\ DOMAIN r = RoomFields /\ r.index \in Nat
  /\ r.bound => on /\ r.phase # "unavailable"

\* The host's room shows what is in its log, and writes behind it.
HostLogged(r, g, log) ==
  r.phase \notin {"closed", "unavailable"} => g.board = BoardOf(log, Len(log)) /\ r.index = Len(log)

\* What the guest logged of the host's moves is in the host's log.
GuestLogged(log, theirs) ==
  \A j \in DOMAIN log : log[j].player = "host" => HostMade(theirs, log[j].seq, log[j].pick)

GameInv ==
  /\ DOMAIN room = Sides /\ DOMAIN game = Sides /\ DOMAIN gameWire = Sides
  /\ gameLog \in [Sides -> Seq(GameEvents)]
  /\ inviteId \in Nat /\ question \in Nat
  /\ Played(gameLog["host"])
  /\ GuestLogged(gameLog["guest"], gameLog["host"])
  /\ HostLogged(room["host"], game["host"], gameLog["host"])
  /\ \A s \in Sides : /\ RoomOK(room[s], sessionOn)
                      /\ GameRight(gameLog["host"], game[s], s)
                      /\ gameWire[s] \in Seq(Says(gameLog["host"], s))

\* A set of numbers has a least element.
LEMMA LeastElement ==
  ASSUME NEW T, T \subseteq Nat, T # {}
  PROVE  \E x \in T : \A y \in T : x <= y
<1> DEFINE R == OpToRel(<, Nat)
<1>1. IsWellFoundedOn(R, Nat)
  BY NatLessThanWellFounded
<1>2. \A x, y \in Nat : x < y => <<x, y>> \in R
  BY DEF OpToRel
<1> HIDE DEF R
<1>3. PICK x \in T : \A y \in T : ~(<<y, x>> \in R)
  BY <1>1, WFMin
<1>4. \A y \in T : x <= y
  <2> TAKE y \in T
  <2>1. x \in Nat /\ y \in Nat /\ ~(y < x)
    BY <1>2, <1>3
  <2> QED BY <2>1
<1> QED BY <1>4

\* The two phones.
LEMMA TwoSides ==
  /\ "host" \in Sides /\ "guest" \in Sides
  /\ \A s \in Sides : s = "host" \/ s = "guest"
  /\ \A s \in Sides : Other(s) \in Sides /\ Other(s) # s
  /\ Other("host") = "guest" /\ Other("guest") = "host"
  BY DEF Sides, Other

\* Counting the moves of a player, one move after the other.
LEMMA MovesByNone ==
  ASSUME NEW moves, NEW p
  PROVE  MovesBy(moves, p, 0) = 0
<1>1. {i \in 1..0 : moves[i].player = p} = {}
  OBVIOUS
<1> QED BY <1>1, FS_EmptySet DEF MovesBy

\* It is a number.
LEMMA MovesByFinite ==
  ASSUME NEW moves, NEW p, NEW n \in Nat
  PROVE  IsFiniteSet({i \in 1..n : moves[i].player = p}) /\ MovesBy(moves, p, n) \in Nat
<1>1. IsFiniteSet(1..n)
  BY FS_Interval
<1>2. {i \in 1..n : moves[i].player = p} \subseteq 1..n
  OBVIOUS
<1>3. IsFiniteSet({i \in 1..n : moves[i].player = p})
  BY <1>1, <1>2, FS_Subset
<1> QED BY <1>3, FS_CardinalityType DEF MovesBy

\* One move more.
LEMMA MovesByNext ==
  ASSUME NEW moves, NEW p, NEW n \in Nat
  PROVE  MovesBy(moves, p, n + 1)
           = IF moves[n + 1].player = p THEN MovesBy(moves, p, n) + 1 ELSE MovesBy(moves, p, n)
<1> DEFINE S == {i \in 1..n : moves[i].player = p}
           T == {i \in 1..(n + 1) : moves[i].player = p}
<1>1. CASE moves[n + 1].player = p
  <2>1. T = S \union {n + 1}
    BY <1>1
  <2>2. n + 1 \notin S
    OBVIOUS
  <2>3. IsFiniteSet(S)
    BY MovesByFinite
  <2> HIDE DEF S, T
  <2>4. Cardinality(T) = Cardinality(S) + 1
    BY <2>1, <2>2, <2>3, FS_AddElement
  <2> QED BY <1>1, <2>4 DEF S, T, MovesBy
<1>2. CASE moves[n + 1].player # p
  <2>1. T = S
    BY <1>2
  <2> QED BY <1>2, <2>1 DEF MovesBy
<1> QED BY <1>1, <1>2

\* It depends on the players of those moves only.
LEMMA MovesBySame ==
  ASSUME NEW a, NEW b, NEW p, NEW n \in Nat, \A i \in 1..n : a[i].player = b[i].player
  PROVE  MovesBy(a, p, n) = MovesBy(b, p, n)
<1>1. {i \in 1..n : a[i].player = p} = {i \in 1..n : b[i].player = p}
  OBVIOUS
<1> QED BY <1>1 DEF MovesBy

\* A move is put at the end.
LEMMA MovesByAppend ==
  ASSUME NEW S, NEW moves \in Seq(S), NEW move \in S, NEW p
  PROVE  /\ \A n \in 0..Len(moves) : MovesBy(Append(moves, move), p, n) = MovesBy(moves, p, n)
         /\ MovesBy(Append(moves, move), p, Len(moves) + 1)
              = MovesBy(moves, p, Len(moves)) + (IF move.player = p THEN 1 ELSE 0)
<1> DEFINE more == Append(moves, move)
<1>1. Len(moves) \in Nat /\ \A i \in 1..Len(moves) : more[i] = moves[i]
  OBVIOUS
<1>2. more[Len(moves) + 1] = move
  OBVIOUS
<1> HIDE DEF more
<1>3. \A n \in 0..Len(moves) : MovesBy(more, p, n) = MovesBy(moves, p, n)
  <2> TAKE n \in 0..Len(moves)
  <2>1. n \in Nat /\ \A i \in 1..n : more[i].player = moves[i].player
    BY <1>1
  <2> QED BY <2>1, MovesBySame
<1>4. MovesBy(more, p, Len(moves)) = MovesBy(moves, p, Len(moves)) /\ MovesBy(moves, p, Len(moves)) \in Nat
  <2>1. Len(moves) \in 0..Len(moves)
    BY <1>1
  <2> QED BY <1>1, <1>3, <2>1, MovesByFinite
<1>5. MovesBy(more, p, Len(moves) + 1)
        = IF move.player = p THEN MovesBy(more, p, Len(moves)) + 1 ELSE MovesBy(more, p, Len(moves))
  BY <1>1, <1>2, MovesByNext
<1>6. MovesBy(more, p, Len(moves) + 1)
        = MovesBy(moves, p, Len(moves)) + (IF move.player = p THEN 1 ELSE 0)
  BY <1>4, <1>5
<1> QED BY <1>3, <1>6 DEF more

\* What was in the host's log stays there.
LEMMA MadeStays ==
  ASSUME NEW log \in Seq(GameEvents), NEW event \in GameEvents
  PROVE  \A n, pick : HostMade(log, n, pick) => HostMade(Append(log, event), n, pick)
<1> SUFFICES ASSUME NEW n, NEW pick, HostMade(log, n, pick)
             PROVE  HostMade(Append(log, event), n, pick)
  OBVIOUS
<1>1. PICK j \in DOMAIN log : log[j].player = "host" /\ MovesBy(log, "host", j) = n + 1 /\ log[j].pick = pick
  BY DEF HostMade
<1>2. j \in 0..Len(log) /\ j \in DOMAIN Append(log, event) /\ Append(log, event)[j] = log[j]
  OBVIOUS
<1>3. MovesBy(Append(log, event), "host", j) = MovesBy(log, "host", j)
  BY <1>2, MovesByAppend
<1> QED BY <1>1, <1>2, <1>3 DEF HostMade

\* A board that the log explains stays explained.
LEMMA ShownStays ==
  ASSUME NEW log \in Seq(GameEvents), NEW event \in GameEvents, NEW board, Shown(log, board)
  PROVE  Shown(Append(log, event), board)
  BY MadeStays DEF Shown

\* What may be said stays sayable.
LEMMA SaysStays ==
  ASSUME NEW log \in Seq(GameEvents), NEW event \in GameEvents, NEW s
  PROVE  Says(log, s) \subseteq Says(Append(log, event), s)
<1>1. FromHost(log) \subseteq FromHost(Append(log, event))
  <2>1. {m \in GameTalk : HostMade(log, m.seq, m.pick)}
          \subseteq {m \in GameTalk : HostMade(Append(log, event), m.seq, m.pick)}
    BY MadeStays
  <2>2. {m \in GameBoards : Counted(m.board, m.seq, m.version) /\ Shown(log, m.board)}
          \subseteq {m \in GameBoards : Counted(m.board, m.seq, m.version) /\ Shown(Append(log, event), m.board)}
    BY ShownStays
  <2> QED BY <2>1, <2>2 DEF FromHost
<1> QED BY <1>1 DEF Says

\* The host logs a move.
LEMMA MadeNow ==
  ASSUME NEW log \in Seq(GameEvents), NEW event \in GameEvents, event.player = "host"
  PROVE  HostMade(Append(log, event), MovesBy(log, "host", Len(log)), event.pick)
<1>1. Len(log) \in Nat /\ Len(log) + 1 \in DOMAIN Append(log, event) /\ Append(log, event)[Len(log) + 1] = event
  OBVIOUS
<1>2. MovesBy(Append(log, event), "host", Len(log) + 1) = MovesBy(log, "host", Len(log)) + 1
  BY MovesByAppend
<1> QED BY <1>1, <1>2 DEF HostMade

-----------------------------------------------------------------------------
(* Moves. *)

\* The counters after a move.
LEMMA CountsGrow ==
  ASSUME NEW board, NEW seq, NEW version, Counted(board, seq, version),
         NEW p \in Sides, NEW pick \in Picks
  PROVE  Counted(Append(board, [player |-> p, pick |-> pick]), [seq EXCEPT ![p] = @ + 1], version + 1)
<1> DEFINE move == [player |-> p, pick |-> pick]
           more == Append(board, move)
<1>1. board \in Seq(GameMoves) /\ move \in GameMoves /\ move.player = p /\ seq \in [Sides -> Nat]
      /\ version = Len(board) /\ \A q \in Sides : seq[q] = MovesBy(board, q, Len(board))
  BY DEF Counted, GameMoves, Counters
<1>2. Len(board) \in Nat /\ Len(more) = Len(board) + 1 /\ more \in Seq(GameMoves)
  BY <1>1
<1>3. \A q \in Sides : MovesBy(more, q, Len(board) + 1)
                         = MovesBy(board, q, Len(board)) + (IF p = q THEN 1 ELSE 0)
  BY <1>1, MovesByAppend
<1> HIDE DEF move, more
<1>4. [seq EXCEPT ![p] = @ + 1] \in [Sides -> Nat]
  BY <1>1
<1>5. \A q \in Sides : [seq EXCEPT ![p] = @ + 1][q] = MovesBy(more, q, Len(more))
  <2> TAKE q \in Sides
  <2>1. [seq EXCEPT ![p] = @ + 1][q] = IF p = q THEN seq[q] + 1 ELSE seq[q]
    BY <1>1
  <2>2. seq[q] \in Nat /\ MovesBy(more, q, Len(more)) = seq[q] + (IF p = q THEN 1 ELSE 0)
    BY <1>1, <1>2, <1>3
  <2> QED BY <2>1, <2>2
<1> QED BY <1>1, <1>2, <1>4, <1>5 DEF Counted, Counters, more, move

\* The board after a move: the host's is in its log.
LEMMA ShownGrows ==
  ASSUME NEW log, NEW board \in Seq(GameMoves), Shown(log, board),
         NEW p \in Sides, NEW pick \in Picks,
         p = "host" => HostMade(log, MovesBy(board, "host", Len(board)), pick)
  PROVE  Shown(log, Append(board, [player |-> p, pick |-> pick]))
<1> DEFINE move == [player |-> p, pick |-> pick]
           more == Append(board, move)
<1>1. move \in GameMoves /\ move.player = p /\ move.pick = pick
  BY DEF GameMoves
<1>2. Len(board) \in Nat /\ MovesBy(board, "host", Len(board)) \in Nat
  <2>1. Len(board) \in Nat
    OBVIOUS
  <2> QED BY <2>1, MovesByFinite
<1>3. /\ \A i \in 0..Len(board) : MovesBy(more, "host", i) = MovesBy(board, "host", i)
      /\ MovesBy(more, "host", Len(board) + 1)
           = MovesBy(board, "host", Len(board)) + (IF p = "host" THEN 1 ELSE 0)
  BY <1>1, MovesByAppend
<1>4. /\ \A i \in DOMAIN more : i \in DOMAIN board \/ i = Len(board) + 1
      /\ \A i \in DOMAIN board : more[i] = board[i] /\ i \in 0..Len(board)
      /\ more[Len(board) + 1] = move
  BY <1>1
<1> HIDE DEF move, more
<1>5. ASSUME NEW i \in DOMAIN more, more[i].player = "host"
      PROVE  HostMade(log, MovesBy(more, "host", i) - 1, more[i].pick)
  <2>1. CASE i \in DOMAIN board
    BY <1>3, <1>4, <1>5, <2>1 DEF Shown
  <2>2. CASE i = Len(board) + 1
    <3>1. p = "host" /\ more[i].pick = pick
      BY <1>1, <1>4, <1>5, <2>2
    <3>2. MovesBy(more, "host", i) - 1 = MovesBy(board, "host", Len(board))
      BY <1>2, <1>3, <2>2, <3>1
    <3> QED BY <3>1, <3>2
  <2> QED BY <1>4, <2>1, <2>2
<1> QED BY <1>5 DEF Shown, more, move

\* A session after the other player's move, and after its own.
LEMMA MovedIsRight ==
  ASSUME NEW log, NEW g, NEW s \in Sides, GameRight(log, g, s), NEW p \in Sides, p # s, NEW pick \in Picks,
         p = "host" => HostMade(log, g.seq["host"], pick)
  PROVE  GameRight(log, Moved(g, p, pick), s)
<1>1. /\ g.board \in Seq(GameMoves) /\ g.seq \in [Sides -> Nat]
      /\ g.seq["host"] = MovesBy(g.board, "host", Len(g.board))
  BY TwoSides DEF GameRight, Counted, Counters
<1>2. /\ Moved(g, p, pick).board = Append(g.board, [player |-> p, pick |-> pick])
      /\ Moved(g, p, pick).seq = [g.seq EXCEPT ![p] = @ + 1]
      /\ Moved(g, p, pick).version = g.version + 1
      /\ Moved(g, p, pick).localSeq = g.localSeq
      /\ DOMAIN Moved(g, p, pick) = GameFields
  BY DEF Moved, GameRight, GameFields
<1>3. Counted(Moved(g, p, pick).board, Moved(g, p, pick).seq, Moved(g, p, pick).version)
  BY <1>2, CountsGrow DEF GameRight
<1>4. Shown(log, Moved(g, p, pick).board)
  BY <1>1, <1>2, ShownGrows DEF GameRight
<1>5. Moved(g, p, pick).localSeq = Moved(g, p, pick).seq[s]
  BY <1>1, <1>2 DEF GameRight
<1> QED BY <1>2, <1>3, <1>4, <1>5 DEF GameRight

\* The same for its own move.
LEMMA SubmittedIsRight ==
  ASSUME NEW log, NEW g, NEW s \in Sides, GameRight(log, g, s), NEW pick \in Picks,
         s = "host" => HostMade(log, g.seq["host"], pick)
  PROVE  GameRight(log, Submitted(g, s, pick), s)
<1>1. /\ g.board \in Seq(GameMoves) /\ g.seq \in [Sides -> Nat]
      /\ g.seq["host"] = MovesBy(g.board, "host", Len(g.board))
  BY TwoSides DEF GameRight, Counted, Counters
<1>2. /\ Submitted(g, s, pick).board = Append(g.board, [player |-> s, pick |-> pick])
      /\ Submitted(g, s, pick).seq = [g.seq EXCEPT ![s] = @ + 1]
      /\ Submitted(g, s, pick).version = g.version + 1
      /\ Submitted(g, s, pick).localSeq = g.localSeq + 1
      /\ DOMAIN Submitted(g, s, pick) = GameFields
  BY DEF Submitted, Moved, GameRight, GameFields
<1>3. Counted(Submitted(g, s, pick).board, Submitted(g, s, pick).seq, Submitted(g, s, pick).version)
  BY <1>2, CountsGrow DEF GameRight
<1>4. Shown(log, Submitted(g, s, pick).board)
  BY <1>1, <1>2, ShownGrows DEF GameRight
<1>5. Submitted(g, s, pick).localSeq = Submitted(g, s, pick).seq[s]
  BY <1>1, <1>2 DEF GameRight
<1> QED BY <1>2, <1>3, <1>4, <1>5 DEF GameRight

\* A session that was just created.
LEMMA NewIsRight ==
  ASSUME NEW log, NEW s \in Sides
  PROVE  GameRight(log, NewGame, s) /\ ~NewGame.abandoned /\ NewGame.board = <<>>
<1>1. \A p \in Sides : MovesBy(<<>>, p, 0) = 0
  BY MovesByNone
<1>2. Counted(<<>>, [p \in Sides |-> 0], 0)
  BY <1>1 DEF Counted, Counters
<1> QED BY <1>2 DEF GameRight, NewGame, GameFields, Shown

-----------------------------------------------------------------------------
(* Replays. *)

FreshReplay == [game |-> NewGame, index |-> 0, stopped |-> FALSE]

\* A function that replays each beginning of a log.
Replays(f, s, log, N) ==
  f = [n \in 0..N |-> IF n = 0 THEN FreshReplay ELSE ReplayStep(s, f[n - 1], log[n])]

\* The recursive function of ReplayLog exists: a least argument without a value would have one.
LEMMA ReplaysExist ==
  ASSUME NEW s, NEW log, NEW N \in Nat
  PROVE  \E f : Replays(f, s, log, N)
<1> DEFINE T == {k \in Nat : ~\E f : Replays(f, s, log, k)}
<1>1. SUFFICES ASSUME T # {}  PROVE FALSE
  <2>1. T = {}
    BY <1>1
  <2> QED BY <2>1
<1>2. PICK k \in T : \A y \in T : k <= y
  <2> HIDE DEF T
  <2>1. T \subseteq Nat
    BY DEF T
  <2> QED BY <1>1, <2>1, LeastElement
<1>3. k # 0
  <2>1. Replays([n \in 0..0 |-> FreshReplay], s, log, 0)
    BY DEF Replays
  <2> QED BY <2>1
<1>4. PICK f : Replays(f, s, log, k - 1)
  <2>1. k - 1 \in Nat /\ k - 1 \notin T
    BY <1>2, <1>3
  <2> QED BY <2>1
<1> DEFINE g == [n \in 0..k |-> IF n = k THEN ReplayStep(s, f[k - 1], log[k]) ELSE f[n]]
<1>5. Replays(g, s, log, k)
  <2>1. ASSUME NEW n \in 0..k
        PROVE  g[n] = IF n = 0 THEN FreshReplay ELSE ReplayStep(s, g[n - 1], log[n])
    <3>1. CASE n = k
      BY <3>1, <1>3
    <3>2. CASE n # k
      <4>1. n \in 0..(k - 1) /\ (n # 0 => n - 1 \in 0..(k - 1))
        BY <3>2
      <4>2. f[n] = IF n = 0 THEN FreshReplay ELSE ReplayStep(s, f[n - 1], log[n])
        BY <4>1, <1>4 DEF Replays
      <4>3. g[n] = f[n] /\ (n # 0 => g[n - 1] = f[n - 1])
        BY <4>1, <3>2
      <4> QED BY <4>2, <4>3
    <3> QED BY <3>1, <3>2
  <2>2. g = [n \in 0..k |-> g[n]]
    OBVIOUS
  <2> HIDE DEF g
  <2> QED BY <2>1, <2>2 DEF Replays
<1> QED BY <1>5

\* A replay, event by event.
LEMMA ReplayUnfolds ==
  ASSUME NEW s, NEW N \in Nat, N = Len(gameLog[s])
  PROVE  \E f : /\ ReplayLog(s) = f[N]
                /\ f[0] = FreshReplay
                /\ \A n \in 0..(N - 1) : f[n + 1] = ReplayStep(s, f[n], gameLog[s][n + 1])
<1> DEFINE f == CHOOSE f : Replays(f, s, gameLog[s], N)
<1>1. ReplayLog(s) = f[N]
  BY DEF ReplayLog, Replays, FreshReplay
<1>2. Replays(f, s, gameLog[s], N)
  BY ReplaysExist
<1> HIDE DEF f
<1>3. \A n \in 0..N : f[n] = IF n = 0 THEN FreshReplay ELSE ReplayStep(s, f[n - 1], gameLog[s][n])
  BY <1>2 DEF Replays
<1>4. \A n \in 0..(N - 1) : f[n + 1] = ReplayStep(s, f[n], gameLog[s][n + 1])
  <2> TAKE n \in 0..(N - 1)
  <2>1. n + 1 \in 0..N /\ n + 1 # 0 /\ (n + 1) - 1 = n
    OBVIOUS
  <2> QED BY <1>3, <2>1
<1> QED BY <1>1, <1>3, <1>4

ReplayFields == {"game", "index", "stopped"}

\* The host's log replayed up to its n-th event.
HostReplayed(log, r, n) ==
  /\ DOMAIN r = ReplayFields /\ ~r.stopped /\ r.index = n
  /\ GameRight(log, r.game, "host")
  /\ r.game.board = BoardOf(log, n) /\ ~r.game.abandoned

\* The position before an event, and after it.
LEMMA BoardGrows ==
  ASSUME NEW log \in Seq(GameEvents), NEW n \in Nat, n < Len(log)
  PROVE  /\ BoardOf(log, n) \in Seq(GameMoves) /\ Len(BoardOf(log, n)) = n
         /\ BoardOf(log, n + 1)
              = Append(BoardOf(log, n), [player |-> log[n + 1].player, pick |-> log[n + 1].pick])
         /\ TurnOf(BoardOf(log, n)) = TurnAfter(log, n)
         /\ \A p : MovesBy(BoardOf(log, n), p, n) = MovesBy(log, p, n)
<1>1. \A j \in 1..(n + 1) : log[j] \in GameEvents
  OBVIOUS
<1>2. \A j \in 1..(n + 1) : [player |-> log[j].player, pick |-> log[j].pick] \in GameMoves
  BY <1>1 DEF GameEvents, GameMoves
<1>3. BoardOf(log, n) \in Seq(GameMoves) /\ Len(BoardOf(log, n)) = n
  BY <1>2 DEF BoardOf
<1>4. BoardOf(log, n + 1)
        = Append(BoardOf(log, n), [player |-> log[n + 1].player, pick |-> log[n + 1].pick])
  BY <1>2, <1>3 DEF BoardOf
<1>5. TurnOf(BoardOf(log, n)) = TurnAfter(log, n)
  <2>1. CASE n = 0
    <3>1. BoardOf(log, n) = <<>>
      <4>1. \A q \in Seq(GameMoves) : q # <<>> => Len(q) \in Nat \ {0}
        BY EmptySeq
      <4>2. BoardOf(log, n) \in Seq(GameMoves) /\ Len(BoardOf(log, n)) = 0
        BY <1>3, <2>1
      <4> QED BY <4>1, <4>2
    <3> QED BY <2>1, <3>1 DEF TurnOf, TurnAfter
  <2>2. CASE n # 0
    <3>1. BoardOf(log, n) # <<>>
      BY <1>3, <2>2
    <3>2. Last(BoardOf(log, n)) = [player |-> log[n].player, pick |-> log[n].pick]
      BY <1>3, <2>2 DEF Last, BoardOf
    <3> HIDE DEF BoardOf
    <3> QED BY <2>2, <3>1, <3>2 DEF TurnOf, TurnAfter
  <2> QED BY <2>1, <2>2
<1>6. ASSUME NEW p  PROVE MovesBy(BoardOf(log, n), p, n) = MovesBy(log, p, n)
  <2>1. \A i \in 1..n : BoardOf(log, n)[i].player = log[i].player
    BY DEF BoardOf
  <2> QED BY <2>1, MovesBySame
<1> QED BY <1>3, <1>4, <1>5, <1>6

\* No event of the host's log is refused.
LEMMA HostReplaySteps ==
  ASSUME GameAssumption, NEW log \in Seq(GameEvents), Played(log), NEW n \in Nat, n < Len(log),
         NEW r, HostReplayed(log, r, n)
  PROVE  HostReplayed(log, ReplayStep("host", r, log[n + 1]), n + 1)
<1> DEFINE event == log[n + 1]
           g     == r.game
           k     == IF event.player = "host" THEN g.localSeq ELSE event.seq
<1>1. n + 1 \in DOMAIN log /\ event \in GameEvents /\ Len(log) \in Nat /\ MaxMoves \in Nat
      /\ Len(log) <= MaxMoves /\ (n + 1) - 1 = n
  BY DEF Played, GameAssumption
<1>2. event.player \in Sides /\ event.pick \in Picks /\ event.seq \in Nat
  BY <1>1 DEF GameEvents
<1>3. event.player = TurnAfter(log, n) /\ event.seq = MovesBy(log, event.player, n)
  BY <1>1 DEF Played
<1> HIDE DEF event
<1>4. /\ g.board = BoardOf(log, n) /\ Len(g.board) = n /\ TurnOf(g.board) = event.player
      /\ ~g.abandoned
  BY <1>3, BoardGrows DEF HostReplayed
<1>5. g.seq \in [Sides -> Nat] /\ g.localSeq = g.seq["host"]
      /\ \A p \in Sides : g.seq[p] = MovesBy(log, p, n)
  <2>1. /\ g.seq \in [Sides -> Nat] /\ g.localSeq = g.seq["host"]
        /\ \A p \in Sides : g.seq[p] = MovesBy(g.board, p, Len(g.board))
    BY DEF HostReplayed, GameRight, Counted, Counters
  <2>2. \A p : MovesBy(g.board, p, Len(g.board)) = MovesBy(log, p, n)
    <3>1. \A p : MovesBy(BoardOf(log, n), p, n) = MovesBy(log, p, n)
      BY BoardGrows
    <3>2. g.board = BoardOf(log, n) /\ Len(g.board) = n
      BY <1>4
    <3> QED BY <3>1, <3>2
  <2> QED BY <2>1, <2>2
<1>6. k = g.seq[event.player] /\ k \in Nat
  BY <1>2, <1>3, <1>5
<1> HIDE DEF k
<1>7. ~IsOver(g)
  BY <1>1, <1>4 DEF IsOver
<1>8. Outcome(g, event.player, k) = "accepted"
  BY <1>4, <1>6, <1>7 DEF Outcome
<1>9. event.player = "host" => HostMade(log, g.seq["host"], event.pick)
  <2> SUFFICES ASSUME event.player = "host"  PROVE HostMade(log, g.seq["host"], event.pick)
    OBVIOUS
  <2>1. MovesBy(log, "host", n + 1) = MovesBy(log, "host", n) + 1
    BY MovesByNext DEF event
  <2>2. g.seq["host"] = MovesBy(log, "host", n)
    BY <1>5, TwoSides
  <2> QED BY <1>1, <2>1, <2>2 DEF HostMade, event
<1> DEFINE after == IF event.player = "host" THEN Submitted(g, event.player, event.pick)
                                             ELSE Moved(g, event.player, event.pick)
<1>10. GameRight(log, after, "host")
  <2>1. GameRight(log, g, "host")
    BY DEF HostReplayed
  <2> QED BY <1>2, <1>9, <2>1, MovedIsRight, SubmittedIsRight, TwoSides
<1>11. after.board = BoardOf(log, n + 1) /\ ~after.abandoned
  <2>1. after.board = Append(g.board, [player |-> event.player, pick |-> event.pick])
        /\ after.abandoned = g.abandoned
    BY DEF Submitted, Moved, HostReplayed, GameRight, GameFields
  <2> QED BY <1>4, <2>1, BoardGrows DEF event
<1>12. ReplayStep("host", r, event) = [[r EXCEPT !.game = after] EXCEPT !.index = n + 1]
  BY <1>8 DEF ReplayStep, HostReplayed, ReplayFields, k
<1> HIDE DEF after, g
<1>13. HostReplayed(log, [[r EXCEPT !.game = after] EXCEPT !.index = n + 1], n + 1)
  BY <1>10, <1>11 DEF HostReplayed, ReplayFields
<1> QED BY <1>12, <1>13 DEF event

\* The host's log replays to the end.
LEMMA HostReplays ==
  ASSUME GameAssumption, gameLog["host"] \in Seq(GameEvents), Played(gameLog["host"])
  PROVE  HostReplayed(gameLog["host"], ReplayLog("host"), Len(gameLog["host"]))
<1> DEFINE log == gameLog["host"]
           N   == Len(log)
<1>1. N \in Nat
  OBVIOUS
<1>2. PICK f : /\ ReplayLog("host") = f[N]
               /\ f[0] = FreshReplay
               /\ \A n \in 0..(N - 1) : f[n + 1] = ReplayStep("host", f[n], log[n + 1])
  BY <1>1, ReplayUnfolds
<1> DEFINE T == {n \in 0..N : ~HostReplayed(log, f[n], n)}
<1>3. T = {}
  <2> SUFFICES ASSUME T # {}  PROVE FALSE
    OBVIOUS
  <2>1. PICK k \in T : \A y \in T : k <= y
    <3>1. T \subseteq Nat
      OBVIOUS
    <3> HIDE DEF T
    <3> QED BY <3>1, LeastElement
  <2>2. k # 0
    <3>1. HostReplayed(log, FreshReplay, 0)
      <4>1. GameRight(log, NewGame, "host") /\ ~NewGame.abandoned /\ NewGame.board = <<>>
        BY NewIsRight, TwoSides
      <4>2. BoardOf(log, 0) = <<>>
        BY DEF BoardOf
      <4> HIDE DEF log
      <4> QED BY <4>1, <4>2 DEF HostReplayed, FreshReplay, ReplayFields
    <3> QED BY <1>2, <3>1
  <2>3. k - 1 \in 0..(N - 1) /\ (k - 1) + 1 = k /\ k - 1 \in Nat /\ k - 1 < N /\ k - 1 \in 0..N
    BY <1>1, <2>1, <2>2
  <2>4. k - 1 \notin T
    BY <1>1, <2>1, <2>3
  <2>5. HostReplayed(log, f[k - 1], k - 1)
    BY <2>3, <2>4
  <2> HIDE DEF log, N
  <2>6. HostReplayed(log, ReplayStep("host", f[k - 1], log[(k - 1) + 1]), (k - 1) + 1)
    BY <2>3, <2>5, HostReplaySteps DEF log, N
  <2>7. HostReplayed(log, f[k], k)
    BY <1>2, <2>3, <2>6
  <2> QED BY <2>1, <2>7
<1>4. HostReplayed(log, f[N], N)
  BY <1>1, <1>3
<1> QED BY <1>2, <1>4

\* A replay of the guest's log, which may be refused anywhere.
GuestReplayed(log, r) ==
  /\ DOMAIN r = ReplayFields /\ r.index \in Nat
  /\ GameRight(log, r.game, "guest")

\* One event more of the guest's log, accepted or refused.
LEMMA GuestReplaySteps ==
  ASSUME NEW log, NEW event \in GameEvents,
         event.player = "host" => HostMade(log, event.seq, event.pick),
         NEW r, GuestReplayed(log, r)
  PROVE  GuestReplayed(log, ReplayStep("guest", r, event))
<1> DEFINE g == r.game
           k == IF event.player = "guest" THEN g.localSeq ELSE event.seq
           after == IF event.player = "guest" THEN Submitted(g, event.player, event.pick)
                                              ELSE Moved(g, event.player, event.pick)
<1>1. event.player \in Sides /\ event.pick \in Picks /\ event.seq \in Nat
  BY DEF GameEvents
<1>2. CASE r.stopped \/ Outcome(g, event.player, k) # "accepted"
  <2>1. ReplayStep("guest", r, event) = [r EXCEPT !.stopped = TRUE]
    BY <1>2 DEF ReplayStep
  <2> QED BY <2>1 DEF GuestReplayed, ReplayFields
<1>3. CASE ~(r.stopped \/ Outcome(g, event.player, k) # "accepted")
  <2>1. Outcome(g, event.player, k) = "accepted"
    BY <1>3
  <2>2. g.seq \in [Sides -> Nat]
    BY DEF GuestReplayed, GameRight, Counted, Counters
  <2>3. event.player = "host" => g.seq["host"] = event.seq
    <3>1. ~(k < g.seq[event.player]) /\ ~(k > g.seq[event.player])
      BY <2>1 DEF Outcome
    <3> QED BY <1>1, <2>2, <3>1, TwoSides
  <2>4. GameRight(log, g, "guest")
    BY DEF GuestReplayed
  <2>5. GameRight(log, after, "guest")
    BY <1>1, <2>3, <2>4, MovedIsRight, SubmittedIsRight, TwoSides
  <2>6. ReplayStep("guest", r, event) = [[r EXCEPT !.game = after] EXCEPT !.index = r.index + 1]
    BY <1>3 DEF ReplayStep, GuestReplayed, ReplayFields
  <2> HIDE DEF after, g
  <2>7. GuestReplayed(log, [[r EXCEPT !.game = after] EXCEPT !.index = r.index + 1])
    BY <2>5 DEF GuestReplayed, ReplayFields
  <2> QED BY <2>6, <2>7
<1> QED BY <1>2, <1>3

\* The guest's log replays to a session that fits the host's log.
LEMMA GuestReplays ==
  ASSUME gameLog["guest"] \in Seq(GameEvents), GuestLogged(gameLog["guest"], gameLog["host"])
  PROVE  GuestReplayed(gameLog["host"], ReplayLog("guest"))
<1> DEFINE log  == gameLog["guest"]
           made == gameLog["host"]
           N    == Len(log)
<1>1. N \in Nat
  OBVIOUS
<1>2. PICK f : /\ ReplayLog("guest") = f[N]
               /\ f[0] = FreshReplay
               /\ \A n \in 0..(N - 1) : f[n + 1] = ReplayStep("guest", f[n], log[n + 1])
  BY <1>1, ReplayUnfolds
<1> DEFINE T == {n \in 0..N : ~GuestReplayed(made, f[n])}
<1>3. T = {}
  <2> SUFFICES ASSUME T # {}  PROVE FALSE
    OBVIOUS
  <2>1. PICK k \in T : \A y \in T : k <= y
    <3>1. T \subseteq Nat
      OBVIOUS
    <3> HIDE DEF T
    <3> QED BY <3>1, LeastElement
  <2>2. k # 0
    <3>1. GuestReplayed(made, FreshReplay)
      <4>1. GameRight(made, NewGame, "guest")
        BY NewIsRight, TwoSides
      <4> HIDE DEF made
      <4> QED BY <4>1 DEF GuestReplayed, FreshReplay, ReplayFields
    <3> QED BY <1>2, <3>1
  <2>3. k - 1 \in 0..(N - 1) /\ (k - 1) + 1 = k /\ k - 1 \in 0..N /\ k \in DOMAIN log
    BY <1>1, <2>1, <2>2
  <2>4. k - 1 \notin T
    BY <1>1, <2>1, <2>3
  <2>5. GuestReplayed(made, f[k - 1])
    BY <2>3, <2>4
  <2>6. log[k] \in GameEvents /\ (log[k].player = "host" => HostMade(made, log[k].seq, log[k].pick))
    BY <2>3 DEF GuestLogged
  <2> HIDE DEF log, N, made
  <2>7. GuestReplayed(made, ReplayStep("guest", f[k - 1], log[k]))
    BY <2>5, <2>6, GuestReplaySteps
  <2>8. GuestReplayed(made, f[k])
    BY <1>2, <2>3, <2>7
  <2> QED BY <2>1, <2>8
<1>4. GuestReplayed(made, f[N])
  BY <1>1, <1>3
<1> QED BY <1>2, <1>4

-----------------------------------------------------------------------------
(* What travels. *)

\* A function that keeps what the reliable channel carries of each beginning of a queue.
Filters(f, queue, N) ==
  f = [n \in 0..N |->
         IF n = 0 THEN <<>>
                  ELSE f[n - 1] \o IF queue[n].type = "state" THEN <<>> ELSE <<queue[n]>>]

\* The recursive function of OnChannel exists.
LEMMA FiltersExist ==
  ASSUME NEW queue, NEW N \in Nat
  PROVE  \E f : Filters(f, queue, N)
<1> DEFINE T == {k \in Nat : ~\E f : Filters(f, queue, k)}
           part(k) == IF queue[k].type = "state" THEN <<>> ELSE <<queue[k]>>
<1>1. SUFFICES ASSUME T # {}  PROVE FALSE
  <2>1. T = {}
    BY <1>1
  <2> QED BY <2>1
<1>2. PICK k \in T : \A y \in T : k <= y
  <2> HIDE DEF T
  <2>1. T \subseteq Nat
    BY DEF T
  <2> QED BY <1>1, <2>1, LeastElement
<1>3. k # 0
  <2>1. Filters([n \in 0..0 |-> <<>>], queue, 0)
    BY DEF Filters
  <2> QED BY <2>1
<1>4. PICK f : Filters(f, queue, k - 1)
  <2>1. k - 1 \in Nat /\ k - 1 \notin T
    BY <1>2, <1>3
  <2> QED BY <2>1
<1> DEFINE g == [n \in 0..k |-> IF n = k THEN f[k - 1] \o part(k) ELSE f[n]]
<1>5. Filters(g, queue, k)
  <2>1. ASSUME NEW n \in 0..k
        PROVE  g[n] = IF n = 0 THEN <<>> ELSE g[n - 1] \o part(n)
    <3>1. CASE n = k
      <4>1. n = k /\ k \in 0..k /\ k - 1 \in 0..k /\ k - 1 # k /\ k # 0
        BY <3>1, <1>3
      <4> HIDE DEF part
      <4>2. g[k] = f[k - 1] \o part(k) /\ g[k - 1] = f[k - 1]
        BY <4>1
      <4> HIDE DEF g
      <4> QED BY <4>1, <4>2
    <3>2. CASE n # k
      <4>1. n \in 0..(k - 1) /\ (n # 0 => n - 1 \in 0..(k - 1))
        BY <3>2
      <4>2. f[n] = IF n = 0 THEN <<>> ELSE f[n - 1] \o part(n)
        BY <4>1, <1>4 DEF Filters
      <4>3. g[n] = f[n] /\ (n # 0 => g[n - 1] = f[n - 1])
        BY <4>1, <3>2
      <4> QED BY <4>2, <4>3
    <3> QED BY <3>1, <3>2
  <2>2. g = [n \in 0..k |-> g[n]]
    OBVIOUS
  <2> HIDE DEF g
  <2> QED BY <2>1, <2>2 DEF Filters
<1> QED BY <1>5

\* What is kept of a queue was in it.
LEMMA KeepsOnly ==
  ASSUME NEW S, NEW queue \in Seq(S)
  PROVE  OnChannel(queue) \in Seq(S)
<1> DEFINE N == Len(queue)
           f == CHOOSE f : Filters(f, queue, N)
           part(k) == IF queue[k].type = "state" THEN <<>> ELSE <<queue[k]>>
           T == {n \in 0..N : f[n] \notin Seq(S)}
<1>1. N \in Nat
  OBVIOUS
<1>2. OnChannel(queue) = f[N]
  BY DEF OnChannel, Filters
<1>3. \A n \in 0..N : f[n] = IF n = 0 THEN <<>> ELSE f[n - 1] \o part(n)
  <2>1. Filters(f, queue, N)
    BY <1>1, FiltersExist
  <2> HIDE DEF f
  <2> QED BY <2>1 DEF Filters
<1> HIDE DEF f
<1>4. \A n \in 1..N : part(n) \in Seq(S)
  OBVIOUS
<1> HIDE DEF part
<1>5. T = {}
  <2> SUFFICES ASSUME T # {}  PROVE FALSE
    OBVIOUS
  <2>1. PICK k \in T : \A y \in T : k <= y
    <3>1. T \subseteq Nat
      OBVIOUS
    <3> HIDE DEF T
    <3> QED BY <3>1, LeastElement
  <2>2. k # 0
    <3>1. 0 \in 0..N
      BY <1>1
    <3>2. f[0] = <<>>
      BY <1>3, <3>1
    <3>3. f[0] \in Seq(S)
      BY <3>2
    <3>4. f[k] \notin Seq(S)
      BY <2>1
    <3> HIDE DEF T
    <3> QED BY <3>3, <3>4
  <2>3. k - 1 \in 0..N /\ k \in 1..N /\ k - 1 \notin T
    BY <1>1, <2>1, <2>2
  <2>4. f[k - 1] \in Seq(S) /\ part(k) \in Seq(S)
    BY <1>4, <2>3
  <2>5. f[k] = f[k - 1] \o part(k)
    BY <1>3, <2>2, <2>3
  <2>6. f[k] \in Seq(S)
    BY <2>4, <2>5
  <2> QED BY <2>1, <2>6
<1>6. N \in 0..N /\ N \notin T
  BY <1>1, <1>5
<1>7. f[N] \in Seq(S)
  BY <1>6
<1> QED BY <1>2, <1>7

\* Sequences of messages.
LEMMA Queues ==
  ASSUME NEW S, NEW q \in Seq(S)
  PROVE  /\ q # <<>> => Tail(q) \in Seq(S) /\ Head(q) \in S
         /\ \A m \in S : Append(q, m) \in Seq(S)
         /\ \A r \in Seq(S) : q \o r \in Seq(S)
         /\ \A i \in 1..Len(q) : RemoveAt(q, i) \in Seq(S)
<1>1. q # <<>> => Tail(q) \in Seq(S) /\ Head(q) \in S
  OBVIOUS
<1>2. ASSUME NEW i \in 1..Len(q)
      PROVE  RemoveAt(q, i) \in Seq(S)
  <2>1. SubSeq(q, 1, i - 1) \in Seq(S) /\ SubSeq(q, i + 1, Len(q)) \in Seq(S)
    OBVIOUS
  <2> QED BY <2>1 DEF RemoveAt
<1> QED BY <1>1, <1>2

\* What the messages of each phone say.
LEMMA HostSays ==
  ASSUME NEW log, NEW m \in Says(log, "host")
  PROVE  /\ m.type \in {"invite", "leave", "event", "state"}
         /\ m.type = "invite" => m.id \in Nat
         /\ m.type = "event" => m.pick \in Picks /\ m.seq \in Nat /\ HostMade(log, m.seq, m.pick)
         /\ m.type = "state" => Counted(m.board, m.seq, m.version) /\ Shown(log, m.board)
  BY DEF Says, FromHost, GameTalk, GameBoards

\* The messages of the guest.
LEMMA GuestSays ==
  ASSUME NEW log, NEW m \in Says(log, "guest")
  PROVE  /\ m.type \in {"inviteAck", "accept", "decline", "syncRequest", "leave", "event"}
         /\ m.type = "event" => m.pick \in Picks /\ m.seq \in Nat
  BY DEF Says, FromGuest, GameTalk

\* The messages the phones make.
LEMMA Sayings ==
  ASSUME NEW log
  PROVE  /\ \A id \in Nat : Invite(id) \in Says(log, "host") /\ InviteAck(id) \in Says(log, "guest")
         /\ \A s \in Sides : Message("leave") \in Says(log, s)
         /\ \A w \in {"accept", "decline", "syncRequest"} : Message(w) \in Says(log, "guest")
         /\ \A pick \in Picks, n \in Nat :
              /\ [type |-> "event", pick |-> pick, seq |-> n] \in Says(log, "guest")
              /\ HostMade(log, n, pick)
                   => [type |-> "event", pick |-> pick, seq |-> n] \in Says(log, "host")
<1>1. \A id \in Nat : Invite(id) \in Says(log, "host") /\ InviteAck(id) \in Says(log, "guest")
  BY DEF Says, FromHost, FromGuest, Invite, InviteAck
<1>2. \A s \in Sides : Message("leave") \in Says(log, s)
  BY DEF Says, FromHost, FromGuest, Message
<1>3. \A w \in {"accept", "decline", "syncRequest"} : Message(w) \in Says(log, "guest")
  BY DEF Says, FromGuest, Message
<1>4. \A pick \in Picks, n \in Nat :
        /\ [type |-> "event", pick |-> pick, seq |-> n] \in Says(log, "guest")
        /\ HostMade(log, n, pick)
             => [type |-> "event", pick |-> pick, seq |-> n] \in Says(log, "host")
  BY DEF Says, FromHost, FromGuest, GameTalk
<1> QED BY <1>1, <1>2, <1>3, <1>4

\* A snapshot says what its session does.
LEMMA Snapshots ==
  ASSUME NEW log, NEW s, NEW g, GameRight(log, g, s)
  PROVE  SnapshotEnvelope(g) \in Says(log, "host")
<1>1. Counted(g.board, g.seq, g.version) /\ Shown(log, g.board)
  BY DEF GameRight
<1>2. g.version \in Nat /\ g.board \in Seq(GameMoves) /\ g.seq \in Counters
  BY <1>1 DEF Counted
<1>3. SnapshotEnvelope(g) \in {m \in GameBoards : Counted(m.board, m.seq, m.version) /\ Shown(log, m.board)}
  BY <1>1, <1>2 DEF SnapshotEnvelope, GameBoards
<1> QED BY <1>3 DEF Says, FromHost

\* What a room sends to repair a divergence, and on entering a phase.
LEMMA ResyncSays ==
  ASSUME NEW log, NEW s \in Sides, NEW g, GameRight(log, g, s), NEW asks \in BOOLEAN
  PROVE  Resync(s, g, asks) \in Seq(Says(log, s))
<1>1. SnapshotEnvelope(g) \in Says(log, "host") /\ Message("syncRequest") \in Says(log, "guest")
  BY Snapshots, Sayings
<1>2. CASE ~asks
  BY <1>2 DEF Resync
<1>3. CASE asks /\ s = "guest"
  BY <1>1, <1>3 DEF Resync
<1>4. CASE asks /\ s = "host"
  BY <1>1, <1>4 DEF Resync
<1> QED BY <1>2, <1>3, <1>4, TwoSides

\* The announcements of a room.
LEMMA AnnouncedSays ==
  ASSUME NEW log, NEW s \in Sides, NEW p, NEW id \in Nat, s = "guest" => p # "inviting"
  PROVE  Announced(s, p, id) \in Seq(Says(log, s))
<1>1. Invite(id) \in Says(log, "host") /\ Message("accept") \in Says(log, "guest")
      /\ Message("syncRequest") \in Says(log, "guest")
  BY Sayings
<1>2. CASE p = "inviting"
  BY <1>1, <1>2, TwoSides DEF Announced
<1>3. CASE p = "playing" /\ linkUp /\ s = "host"
  BY <1>1, <1>3 DEF Announced
<1>4. CASE p = "playing" /\ linkUp /\ s = "guest"
  BY <1>1, <1>4 DEF Announced
<1>5. CASE p # "inviting" /\ ~(p = "playing" /\ linkUp /\ s = "host") /\ ~(p = "playing" /\ linkUp /\ s = "guest")
  BY <1>5 DEF Announced
<1> QED BY <1>2, <1>3, <1>4, <1>5

-----------------------------------------------------------------------------
(* Steps that leave the logs alone. *)

StaysOpen(r, next) ==
  next.phase \notin {"closed", "unavailable"}
    => r.phase \notin {"closed", "unavailable"} /\ next.index = r.index

\* The invariant, for one phone.
LEMMA GameFacts ==
  ASSUME GameInv, NEW s \in Sides
  PROVE  /\ DOMAIN room = Sides /\ DOMAIN game = Sides /\ DOMAIN gameWire = Sides
         /\ gameLog["host"] \in Seq(GameEvents) /\ gameLog["guest"] \in Seq(GameEvents)
         /\ RoomOK(room[s], sessionOn) /\ GameRight(gameLog["host"], game[s], s)
         /\ gameWire[s] \in Seq(Says(gameLog["host"], s))
  BY TwoSides DEF GameInv

\* Rooms, games and queues may change, as long as the host's board stays while its room is open.
LEMMA LogsStay ==
  ASSUME GameInv, gameLog' = gameLog, inviteId' \in Nat, question' \in Nat,
         DOMAIN room' = Sides, DOMAIN game' = Sides, DOMAIN gameWire' = Sides,
         \A s \in Sides : /\ RoomOK(room'[s], sessionOn')
                          /\ GameRight(gameLog["host"], game'[s], s)
                          /\ gameWire'[s] \in Seq(Says(gameLog["host"], s)),
         StaysOpen(room["host"], room'["host"]),
         room'["host"].phase \in {"closed", "unavailable"} \/ game'["host"].board = game["host"].board
  PROVE  GameInv'
<1>1. HostLogged(room'["host"], game'["host"], gameLog["host"])
  BY DEF GameInv, HostLogged, StaysOpen
<1> QED BY <1>1 DEF GameInv

\* A step that only talks.
LEMMA WiresChange ==
  ASSUME GameInv, gameLog' = gameLog, inviteId' \in Nat, question' \in Nat,
         game' = game, sessionOn' = sessionOn,
         DOMAIN room' = Sides, DOMAIN gameWire' = Sides,
         \A s \in Sides : /\ RoomOK(room'[s], sessionOn)
                          /\ gameWire'[s] \in Seq(Says(gameLog["host"], s)),
         StaysOpen(room["host"], room'["host"])
  PROVE  GameInv'
<1>1. DOMAIN game = Sides /\ \A s \in Sides : GameRight(gameLog["host"], game[s], s)
  BY DEF GameInv
<1> QED BY <1>1, LogsStay

\* A room that goes from one phase to another.
LEMMA PhaseChanges ==
  ASSUME NEW r, NEW on, RoomOK(r, on), NEW x
  PROVE  /\ x # "unavailable" => RoomOK([r EXCEPT !.phase = x], on)
         /\ r.phase \notin {"closed", "unavailable"} => StaysOpen(r, [r EXCEPT !.phase = x])
         /\ RoomOK([r EXCEPT !.asked = x], on) /\ StaysOpen(r, [r EXCEPT !.asked = x])
         /\ StaysOpen(r, r)
  BY DEF RoomOK, RoomFields, StaysOpen

\* One queue changes.
LEMMA WireSet ==
  ASSUME GameInv, NEW s \in Sides, NEW q \in Seq(Says(gameLog["host"], s)),
         gameWire' = [gameWire EXCEPT ![s] = q]
  PROVE  /\ DOMAIN gameWire' = Sides
         /\ \A r \in Sides : gameWire'[r] \in Seq(Says(gameLog["host"], r))
  BY DEF GameInv

\* One room changes.
LEMMA RoomSet ==
  ASSUME GameInv, NEW s \in Sides, NEW next, RoomOK(next, sessionOn), StaysOpen(room[s], next),
         room' = [room EXCEPT ![s] = next]
  PROVE  /\ DOMAIN room' = Sides
         /\ \A r \in Sides : RoomOK(room'[r], sessionOn)
         /\ StaysOpen(room["host"], room'["host"])
<1>1. DOMAIN room = Sides /\ \A r \in Sides : RoomOK(room[r], sessionOn)
  BY DEF GameInv
<1>2. StaysOpen(room["host"], room["host"])
  BY DEF StaysOpen
<1>3. DOMAIN room' = Sides /\ \A r \in Sides : room'[r] = IF r = s THEN next ELSE room[r]
  BY <1>1
<1> QED BY <1>1, <1>2, <1>3, TwoSides

\* No room changes.
LEMMA RoomsSame ==
  ASSUME GameInv, room' = room
  PROVE  /\ DOMAIN room' = Sides
         /\ \A r \in Sides : RoomOK(room'[r], sessionOn)
         /\ StaysOpen(room["host"], room'["host"])
  BY DEF GameInv, StaysOpen

\* No queue changes.
LEMMA WiresSame ==
  ASSUME GameInv, gameWire' = gameWire
  PROVE  /\ DOMAIN gameWire' = Sides
         /\ \A r \in Sides : gameWire'[r] \in Seq(Says(gameLog["host"], r))
  BY DEF GameInv

\* The invitation is repeated, expires or is made again.
LEMMA AskAgainKeeps == ASSUME GameInv, AskAgain  PROVE GameInv'
<1>1. /\ gameLog' = gameLog /\ inviteId' = inviteId /\ question' = question /\ game' = game
      /\ sessionOn' = sessionOn /\ room' = room
      /\ gameWire' = [gameWire EXCEPT !["host"] = <<Invite(inviteId)>>]
  BY DEF AskAgain
<1>2. inviteId \in Nat /\ question \in Nat
  BY DEF GameInv
<1>3. <<Invite(inviteId)>> \in Seq(Says(gameLog["host"], "host"))
  BY <1>2, Sayings
<1>4. /\ DOMAIN gameWire' = Sides
      /\ \A r \in Sides : gameWire'[r] \in Seq(Says(gameLog["host"], r))
  BY <1>1, <1>3, WireSet, TwoSides
<1> QED BY <1>1, <1>2, <1>4, RoomsSame, WiresChange

\* Nobody answers in time.
LEMMA InviteExpiresKeeps == ASSUME GameInv, InviteExpires  PROVE GameInv'
<1> DEFINE next == [room["host"] EXCEPT !.phase = "unanswered"]
<1>1. /\ gameLog' = gameLog /\ inviteId' = inviteId /\ question' = question /\ game' = game
      /\ sessionOn' = sessionOn /\ gameWire' = gameWire /\ room["host"].phase \in {"inviting", "delivered"}
      /\ room' = [room EXCEPT !["host"] = next]
  BY DEF InviteExpires
<1>2. inviteId \in Nat /\ question \in Nat
  BY DEF GameInv
<1>3. RoomOK(next, sessionOn) /\ StaysOpen(room["host"], next)
  <2>1. RoomOK(room["host"], sessionOn)
    BY GameFacts, TwoSides
  <2> QED BY <1>1, <2>1, PhaseChanges
<1> HIDE DEF next
<1>4. /\ DOMAIN room' = Sides /\ \A r \in Sides : RoomOK(room'[r], sessionOn)
      /\ StaysOpen(room["host"], room'["host"])
  BY <1>1, <1>3, RoomSet, TwoSides
<1> QED BY <1>1, <1>2, <1>4, WiresSame, WiresChange

\* The host tries again.
LEMMA RetryInviteKeeps == ASSUME GameInv, RetryInvite  PROVE GameInv'
<1> DEFINE next == [room["host"] EXCEPT !.phase = "inviting"]
           q    == IF sessionOn THEN Append(gameWire["host"], Invite(inviteId')) ELSE gameWire["host"]
<1>1. /\ gameLog' = gameLog /\ inviteId' = inviteId + 1 /\ question' = question /\ game' = game
      /\ sessionOn' = sessionOn /\ room["host"].phase = "unanswered"
      /\ room' = [room EXCEPT !["host"] = next]
      /\ gameWire' = [gameWire EXCEPT !["host"] = q]
  BY DEF RetryInvite
<1>2. inviteId' \in Nat /\ question \in Nat
  BY <1>1 DEF GameInv
<1>3. RoomOK(next, sessionOn) /\ StaysOpen(room["host"], next)
  <2>1. RoomOK(room["host"], sessionOn)
    BY GameFacts, TwoSides
  <2> QED BY <1>1, <2>1, PhaseChanges
<1>4. q \in Seq(Says(gameLog["host"], "host"))
  <2>1. gameWire["host"] \in Seq(Says(gameLog["host"], "host"))
    BY GameFacts, TwoSides
  <2>2. Invite(inviteId') \in Says(gameLog["host"], "host")
    BY <1>2, Sayings
  <2> QED BY <2>1, <2>2, Queues
<1> HIDE DEF next, q
<1>5. /\ DOMAIN room' = Sides /\ \A r \in Sides : RoomOK(room'[r], sessionOn)
      /\ StaysOpen(room["host"], room'["host"])
  BY <1>1, <1>3, RoomSet, TwoSides
<1>6. /\ DOMAIN gameWire' = Sides
      /\ \A r \in Sides : gameWire'[r] \in Seq(Says(gameLog["host"], r))
  BY <1>1, <1>4, WireSet, TwoSides
<1> QED BY <1>1, <1>2, <1>5, <1>6, WiresChange

\* The guest says no.
LEMMA DeclineInviteKeeps == ASSUME GameInv, DeclineInvite  PROVE GameInv'
<1> DEFINE q == IF sessionOn THEN Append(gameWire["guest"], Message("decline")) ELSE gameWire["guest"]
<1>1. /\ gameLog' = gameLog /\ inviteId' = inviteId /\ question' = 0 /\ game' = game
      /\ sessionOn' = sessionOn /\ room' = room
      /\ gameWire' = [gameWire EXCEPT !["guest"] = q]
  BY DEF DeclineInvite
<1>2. inviteId \in Nat
  BY DEF GameInv
<1>3. q \in Seq(Says(gameLog["host"], "guest"))
  <2>1. gameWire["guest"] \in Seq(Says(gameLog["host"], "guest"))
    BY GameFacts, TwoSides
  <2>2. Message("decline") \in Says(gameLog["host"], "guest")
    BY Sayings
  <2> QED BY <2>1, <2>2, Queues
<1> HIDE DEF q
<1>4. /\ DOMAIN gameWire' = Sides
      /\ \A r \in Sides : gameWire'[r] \in Seq(Says(gameLog["host"], r))
  BY <1>1, <1>3, WireSet, TwoSides
<1> QED BY <1>1, <1>2, <1>4, RoomsSame, WiresChange

\* A second passes, and a snapshot is lost.
LEMMA SecondPassesKeeps == ASSUME GameInv, NEW s \in Sides, SecondPasses(s)  PROVE GameInv'
<1> DEFINE next == [room[s] EXCEPT !.asked = FALSE]
<1>1. /\ gameLog' = gameLog /\ inviteId' = inviteId /\ question' = question /\ game' = game
      /\ sessionOn' = sessionOn /\ gameWire' = gameWire
      /\ room' = [room EXCEPT ![s] = next]
  BY DEF SecondPasses
<1>2. inviteId \in Nat /\ question \in Nat
  BY DEF GameInv
<1>3. RoomOK(next, sessionOn) /\ StaysOpen(room[s], next)
  BY GameFacts, PhaseChanges
<1> HIDE DEF next
<1>4. /\ DOMAIN room' = Sides /\ \A r \in Sides : RoomOK(room'[r], sessionOn)
      /\ StaysOpen(room["host"], room'["host"])
  BY <1>1, <1>3, RoomSet
<1> QED BY <1>1, <1>2, <1>4, WiresSame, WiresChange

\* A snapshot is lost.
LEMMA BoardLostKeeps ==
  ASSUME GameInv, NEW i \in 1..Len(gameWire["host"]), BoardLost(i)
  PROVE  GameInv'
<1>1. /\ gameLog' = gameLog /\ inviteId' = inviteId /\ question' = question /\ game' = game
      /\ sessionOn' = sessionOn /\ room' = room
      /\ gameWire' = [gameWire EXCEPT !["host"] = RemoveAt(gameWire["host"], i)]
  BY DEF BoardLost
<1>2. inviteId \in Nat /\ question \in Nat
  BY DEF GameInv
<1>3. RemoveAt(gameWire["host"], i) \in Seq(Says(gameLog["host"], "host"))
  <2>1. gameWire["host"] \in Seq(Says(gameLog["host"], "host"))
    BY GameFacts, TwoSides
  <2> QED BY <2>1, Queues
<1>4. /\ DOMAIN gameWire' = Sides
      /\ \A r \in Sides : gameWire'[r] \in Seq(Says(gameLog["host"], r))
  BY <1>1, <1>3, WireSet, TwoSides
<1> QED BY <1>1, <1>2, <1>4, RoomsSame, WiresChange

-----------------------------------------------------------------------------
(* What goes wrong. *)

\* The channel gives up on a message, and the room repairs what it can.
LEMMA ChannelGivesUpKeeps ==
  ASSUME GameInv, NEW s \in Sides, ChannelGivesUp(s)
  PROVE  GameInv'
<1> DEFINE asks == Listening(s) /\ Head(gameWire[s]).type = "event" /\ Asks(room[s])
           next == [room[s] EXCEPT !.asked = @ \/ asks,
                      !.diverged = @ \/ (Listening(s) /\ Head(gameWire[s]).type = "event")]
           q    == Tail(gameWire[s]) \o Resync(s, game[s], asks)
<1>1. /\ gameLog' = gameLog /\ inviteId' = inviteId /\ question' = question /\ game' = game
      /\ sessionOn' = sessionOn /\ gameWire[s] # <<>>
      /\ room' = [room EXCEPT ![s].asked = @ \/ asks,
           ![s].diverged = @ \/ (Listening(s) /\ Head(gameWire[s]).type = "event")]
      /\ gameWire' = [gameWire EXCEPT ![s] = q]
  BY DEF ChannelGivesUp
<1>2. inviteId \in Nat /\ question \in Nat
  BY DEF GameInv
<1>3. room' = [room EXCEPT ![s] = next]
  <2>1. DOMAIN room = Sides
    BY GameFacts
  <2> HIDE DEF asks
  <2> QED BY <1>1, <2>1
<1>4. RoomOK(next, sessionOn) /\ StaysOpen(room[s], next)
  <2>1. RoomOK(room[s], sessionOn)
    BY GameFacts
  <2> HIDE DEF asks
  <2> QED BY <2>1 DEF RoomOK, RoomFields, StaysOpen
<1>5. q \in Seq(Says(gameLog["host"], s))
  <2>1. gameWire[s] \in Seq(Says(gameLog["host"], s)) /\ GameRight(gameLog["host"], game[s], s)
    BY GameFacts
  <2>2. Tail(gameWire[s]) \in Seq(Says(gameLog["host"], s))
    BY <1>1, <2>1, Queues
  <2>3. asks \in BOOLEAN
    BY DEF Listening, Asks
  <2> HIDE DEF asks
  <2>4. Resync(s, game[s], asks) \in Seq(Says(gameLog["host"], s))
    BY <2>1, <2>3, ResyncSays
  <2> QED BY <2>2, <2>4, Queues
<1> HIDE DEF next, q, asks
<1>6. /\ DOMAIN room' = Sides /\ \A r \in Sides : RoomOK(room'[r], sessionOn)
      /\ StaysOpen(room["host"], room'["host"])
  BY <1>3, <1>4, RoomSet
<1>7. /\ DOMAIN gameWire' = Sides
      /\ \A r \in Sides : gameWire'[r] \in Seq(Says(gameLog["host"], r))
  BY <1>1, <1>5, WireSet
<1> QED BY <1>1, <1>2, <1>6, <1>7, WiresChange

\* The link goes down, and comes back.
LEMMA LinkDropsKeeps == ASSUME GameInv, LinkDrops  PROVE GameInv'
<1>1. /\ gameLog' = gameLog /\ inviteId' = inviteId /\ question' = question /\ game' = game
      /\ sessionOn' = sessionOn /\ room' = room
      /\ gameWire' = [s \in Sides |-> OnChannel(gameWire[s])]
  BY DEF LinkDrops
<1>2. inviteId \in Nat /\ question \in Nat
  BY DEF GameInv
<1>3. \A r \in Sides : gameWire'[r] \in Seq(Says(gameLog["host"], r))
  <2> TAKE r \in Sides
  <2>1. gameWire[r] \in Seq(Says(gameLog["host"], r))
    BY GameFacts
  <2>2. OnChannel(gameWire[r]) \in Seq(Says(gameLog["host"], r))
    BY <2>1, KeepsOnly
  <2> QED BY <1>1, <2>2
<1>4. DOMAIN gameWire' = Sides
  BY <1>1
<1> QED BY <1>1, <1>2, <1>3, <1>4, RoomsSame, WiresChange

\* The link is back.
LEMMA LinkReturnsKeeps == ASSUME GameInv, LinkReturns  PROVE GameInv'
<1> DEFINE repair == [s \in Sides |-> Listening(s) /\ room[s].diverged /\ Asks(room[s])]
           back(s) == IF ~Listening(s) \/ room[s].phase # "playing" THEN <<>>
                      ELSE IF s = "host" THEN <<Invite(inviteId)>>
                      ELSE <<Message("accept"), Message("syncRequest")>>
<1>1. /\ gameLog' = gameLog /\ inviteId' = inviteId /\ question' = question /\ game' = game
      /\ sessionOn' = sessionOn
      /\ room' = [s \in Sides |->
           IF Listening(s) THEN [room[s] EXCEPT !.diverged = FALSE, !.asked = @ \/ repair[s]]
                           ELSE room[s]]
      /\ gameWire' = [s \in Sides |-> gameWire[s] \o Resync(s, game[s], repair[s]) \o back(s)]
  BY DEF LinkReturns
<1>2. inviteId \in Nat /\ question \in Nat
  BY DEF GameInv
<1>3. ASSUME NEW s \in Sides
      PROVE  gameWire'[s] \in Seq(Says(gameLog["host"], s))
  <2>1. gameWire[s] \in Seq(Says(gameLog["host"], s)) /\ GameRight(gameLog["host"], game[s], s)
    BY GameFacts
  <2>2. repair[s] \in BOOLEAN
    <3>1. repair[s] = (Listening(s) /\ room[s].diverged /\ Asks(room[s]))
      OBVIOUS
    <3>2. (Listening(s) /\ room[s].diverged /\ Asks(room[s])) \in BOOLEAN
      BY DEF Listening, Asks
    <3> HIDE DEF repair
    <3> QED BY <3>1, <3>2
  <2>3. back(s) \in Seq(Says(gameLog["host"], s))
    <3>1. Invite(inviteId) \in Says(gameLog["host"], "host") /\ Message("accept") \in Says(gameLog["host"], "guest")
          /\ Message("syncRequest") \in Says(gameLog["host"], "guest")
      BY <1>2, Sayings
    <3>2. CASE ~Listening(s) \/ room[s].phase # "playing"
      <4>1. back(s) = <<>>
        BY <3>2
      <4> HIDE DEF back
      <4> QED BY <4>1
    <3>3. CASE Listening(s) /\ room[s].phase = "playing" /\ s = "host"
      BY <3>1, <3>3
    <3>4. CASE Listening(s) /\ room[s].phase = "playing" /\ s = "guest"
      BY <3>1, <3>4
    <3> QED BY <3>2, <3>3, <3>4, TwoSides
  <2> HIDE DEF repair, back
  <2>4. Resync(s, game[s], repair[s]) \in Seq(Says(gameLog["host"], s))
    BY <2>1, <2>2, ResyncSays
  <2>5. gameWire[s] \o Resync(s, game[s], repair[s]) \in Seq(Says(gameLog["host"], s))
    BY <2>1, <2>4, Queues
  <2>6. gameWire[s] \o Resync(s, game[s], repair[s]) \o back(s) \in Seq(Says(gameLog["host"], s))
    BY <2>3, <2>5, Queues
  <2> QED BY <1>1, <2>6
<1> HIDE DEF repair, back
<1>4. ASSUME NEW s \in Sides
      PROVE  RoomOK(room'[s], sessionOn) /\ StaysOpen(room[s], room'[s])
  <2>1. RoomOK(room[s], sessionOn)
    BY GameFacts
  <2>2. room'[s] = IF Listening(s) THEN [room[s] EXCEPT !.diverged = FALSE, !.asked = @ \/ repair[s]]
                                   ELSE room[s]
    BY <1>1
  <2> QED BY <2>1, <2>2 DEF RoomOK, RoomFields, StaysOpen
<1>5. DOMAIN room' = Sides /\ DOMAIN gameWire' = Sides
  BY <1>1
<1> QED BY <1>1, <1>2, <1>3, <1>4, <1>5, TwoSides, WiresChange

\* A session ends, and another begins.
LEMMA CutIs ==
  ASSUME NEW rooms, NEW s \in Sides, DOMAIN rooms[s] = RoomFields, rooms[s].index \in Nat, NEW on
  PROVE  /\ DOMAIN Cut(rooms) = Sides
         /\ RoomOK(Cut(rooms)[s], on)
         /\ Cut(rooms)[s].phase = rooms[s].phase /\ Cut(rooms)[s].index = rooms[s].index
<1>1. DOMAIN Cut(rooms) = Sides /\ Cut(rooms)[s] = [rooms[s] EXCEPT !.bound = FALSE]
  BY DEF Cut
<1> QED BY <1>1 DEF RoomOK, RoomFields

\* The session is gone.
LEMMA SessionClosesKeeps == ASSUME GameInv, SessionCloses  PROVE GameInv'
<1>1. /\ gameLog' = gameLog /\ inviteId' = inviteId /\ question' = question /\ game' = game
      /\ gameWire' = [s \in Sides |-> <<>>] /\ room' = Cut(room)
  BY DEF SessionCloses
<1>2. inviteId \in Nat /\ question \in Nat /\ DOMAIN game = Sides
  BY DEF GameInv
<1>3. ASSUME NEW s \in Sides
      PROVE  /\ DOMAIN room' = Sides /\ RoomOK(room'[s], sessionOn') /\ StaysOpen(room[s], room'[s])
             /\ GameRight(gameLog["host"], game[s], s)
             /\ gameWire'[s] \in Seq(Says(gameLog["host"], s))
  <2>1. DOMAIN room[s] = RoomFields /\ room[s].index \in Nat
    BY GameFacts DEF RoomOK
  <2>2. DOMAIN room' = Sides /\ RoomOK(room'[s], sessionOn') /\ StaysOpen(room[s], room'[s])
    BY <1>1, <2>1, CutIs DEF StaysOpen
  <2>3. GameRight(gameLog["host"], game[s], s)
    BY GameFacts
  <2>4. gameWire'[s] = <<>>
    BY <1>1
  <2> QED BY <2>2, <2>3, <2>4
<1>4. DOMAIN gameWire' = Sides
  BY <1>1
<1> QED BY <1>1, <1>2, <1>3, <1>4, TwoSides, LogsStay

\* A new session.
LEMMA SessionOpensKeeps == ASSUME GameInv, SessionOpens  PROVE GameInv'
<1>1. /\ gameLog' = gameLog /\ inviteId' = inviteId /\ question' = question /\ game' = game
      /\ gameWire' = gameWire /\ room' = room /\ sessionOn' = TRUE
  BY DEF SessionOpens
<1>2. inviteId \in Nat /\ question \in Nat /\ DOMAIN game = Sides /\ DOMAIN room = Sides
      /\ DOMAIN gameWire = Sides
  BY DEF GameInv
<1>3. ASSUME NEW s \in Sides
      PROVE  RoomOK(room'[s], sessionOn') /\ GameRight(gameLog["host"], game[s], s)
             /\ gameWire'[s] \in Seq(Says(gameLog["host"], s)) /\ StaysOpen(room[s], room'[s])
  BY <1>1, GameFacts DEF RoomOK, StaysOpen
<1> QED BY <1>1, <1>2, <1>3, TwoSides, LogsStay

\* The app dies on one phone.
LEMMA AppKilledKeeps == ASSUME GameInv, NEW d \in Sides, AppKilled(d)  PROVE GameInv'
<1> DEFINE rooms == [room EXCEPT ![d] = NoRoom]
<1>1. /\ gameLog' = gameLog /\ inviteId' = inviteId
      /\ question' = IF d = "guest" THEN 0 ELSE question
      /\ game' = [game EXCEPT ![d] = NewGame]
      /\ gameWire' = [s \in Sides |-> <<>>] /\ room' = Cut(rooms)
  BY DEF AppKilled
<1>2. inviteId \in Nat /\ question \in Nat /\ DOMAIN game = Sides /\ DOMAIN room = Sides
  BY DEF GameInv
<1>3. ASSUME NEW s \in Sides
      PROVE  /\ DOMAIN room' = Sides /\ RoomOK(room'[s], sessionOn')
             /\ room'[s].phase = IF s = d THEN "closed" ELSE room[s].phase
             /\ s # d => room'[s].index = room[s].index
             /\ GameRight(gameLog["host"], game'[s], s)
             /\ gameWire'[s] \in Seq(Says(gameLog["host"], s))
  <2>1. DOMAIN room[s] = RoomFields /\ room[s].index \in Nat
    BY GameFacts DEF RoomOK
  <2>2. rooms[s] = IF s = d THEN NoRoom ELSE room[s]
    BY <1>2
  <2> HIDE DEF rooms
  <2>3. DOMAIN rooms[s] = RoomFields /\ rooms[s].index \in Nat
        /\ rooms[s].phase = IF s = d THEN "closed" ELSE room[s].phase
    BY <2>1, <2>2 DEF NoRoom, RoomFields
  <2>4. /\ DOMAIN room' = Sides /\ RoomOK(room'[s], sessionOn')
        /\ room'[s].phase = rooms[s].phase /\ room'[s].index = rooms[s].index
    BY <1>1, <2>3, CutIs
  <2>5. GameRight(gameLog["host"], game[s], s) /\ GameRight(gameLog["host"], NewGame, s)
    BY GameFacts, NewIsRight
  <2>6. game'[s] = IF s = d THEN NewGame ELSE game[s]
    BY <1>1, <1>2
  <2>7. gameWire'[s] = <<>>
    BY <1>1
  <2> QED BY <2>2, <2>3, <2>4, <2>5, <2>6, <2>7
<1> HIDE DEF rooms
<1>4. StaysOpen(room["host"], room'["host"])
  BY <1>3, TwoSides DEF StaysOpen
<1>5. room'["host"].phase \in {"closed", "unavailable"} \/ game'["host"].board = game["host"].board
  BY <1>1, <1>2, <1>3, TwoSides
<1>6. DOMAIN gameWire' = Sides /\ DOMAIN game' = Sides /\ DOMAIN room' = Sides
  BY <1>1, <1>2, <1>3, TwoSides
<1>7. inviteId' \in Nat /\ question' \in Nat
  BY <1>1, <1>2
<1> QED BY <1>1, <1>3, <1>4, <1>5, <1>6, <1>7, LogsStay

-----------------------------------------------------------------------------
(* Boards that are left, abandoned and adopted. *)

\* A room without a session.
LEMMA RoomVanishesKeeps == ASSUME GameInv, NEW d \in Sides, RoomVanishes(d)  PROVE GameInv'
<1>1. /\ gameLog' = gameLog /\ inviteId' = inviteId /\ question' = question /\ gameWire' = gameWire
      /\ sessionOn' = sessionOn /\ ~sessionOn
      /\ game' = [game EXCEPT ![d] = NewGame]
      /\ room' = [room EXCEPT ![d].phase = "unavailable"]
  BY DEF RoomVanishes
<1>2. /\ inviteId \in Nat /\ question \in Nat /\ DOMAIN game = Sides /\ DOMAIN room = Sides
      /\ DOMAIN gameWire = Sides
  BY DEF GameInv
<1>3. ASSUME NEW s \in Sides
      PROVE  /\ RoomOK(room'[s], sessionOn') /\ GameRight(gameLog["host"], game'[s], s)
             /\ gameWire'[s] \in Seq(Says(gameLog["host"], s))
             /\ room'[s].phase = IF s = d THEN "unavailable" ELSE room[s].phase
             /\ room'[s].index = room[s].index
  <2>1. /\ RoomOK(room[s], sessionOn) /\ GameRight(gameLog["host"], game[s], s)
        /\ gameWire[s] \in Seq(Says(gameLog["host"], s))
    BY GameFacts
  <2>2. game'[s] = IF s = d THEN NewGame ELSE game[s]
    BY <1>1, <1>2
  <2>3. room'[s] = IF s = d THEN [room[s] EXCEPT !.phase = "unavailable"] ELSE room[s]
    BY <1>1, <1>2
  <2>4. RoomOK(room'[s], sessionOn') /\ room'[s].index = room[s].index
        /\ room'[s].phase = IF s = d THEN "unavailable" ELSE room[s].phase
    BY <1>1, <2>1, <2>3 DEF RoomOK, RoomFields
  <2>5. GameRight(gameLog["host"], NewGame, s)
    BY NewIsRight
  <2>6. GameRight(gameLog["host"], game'[s], s)
    BY <2>1, <2>2, <2>5
  <2> QED BY <1>1, <2>1, <2>4, <2>6
<1>4. StaysOpen(room["host"], room'["host"])
  BY <1>3, TwoSides DEF StaysOpen
<1>5. room'["host"].phase \in {"closed", "unavailable"} \/ game'["host"].board = game["host"].board
  BY <1>1, <1>2, <1>3, TwoSides
<1> QED BY <1>1, <1>2, <1>3, <1>4, <1>5, LogsStay

\* A player leaves the room.
LEMMA LeaveKeeps == ASSUME GameInv, NEW d \in Sides, Leave(d)  PROVE GameInv'
<1> DEFINE q == IF Listening(d) /\ sessionOn THEN Append(gameWire[d], Message("leave")) ELSE gameWire[d]
<1>1. /\ gameLog' = gameLog /\ inviteId' = inviteId /\ question' = question
      /\ gameWire' = [gameWire EXCEPT ![d] = q]
      /\ sessionOn' = sessionOn
      /\ game' = [game EXCEPT ![d] = NewGame]
      /\ room' = [room EXCEPT ![d] = NoRoom]
  BY DEF Leave
<1>2. inviteId \in Nat /\ question \in Nat /\ DOMAIN game = Sides /\ DOMAIN room = Sides
  BY DEF GameInv
<1>3. q \in Seq(Says(gameLog["host"], d))
  <2>1. gameWire[d] \in Seq(Says(gameLog["host"], d)) /\ Message("leave") \in Says(gameLog["host"], d)
    BY GameFacts, Sayings
  <2>2. Append(gameWire[d], Message("leave")) \in Seq(Says(gameLog["host"], d))
    BY <2>1, Queues
  <2> QED BY <2>1, <2>2
<1> HIDE DEF q
<1>4. DOMAIN gameWire' = Sides /\ \A r \in Sides : gameWire'[r] \in Seq(Says(gameLog["host"], r))
  BY <1>1, <1>3, WireSet
<1>5. RoomOK(NoRoom, sessionOn) /\ NoRoom.phase = "closed"
  BY DEF RoomOK, NoRoom, RoomFields
<1>6. ASSUME NEW s \in Sides
      PROVE  /\ RoomOK(room'[s], sessionOn') /\ GameRight(gameLog["host"], game'[s], s)
             /\ room'[s].phase = IF s = d THEN "closed" ELSE room[s].phase
             /\ s # d => room'[s] = room[s]
  <2>1. RoomOK(room[s], sessionOn) /\ GameRight(gameLog["host"], game[s], s)
    BY GameFacts
  <2>2. game'[s] = IF s = d THEN NewGame ELSE game[s]
    BY <1>1, <1>2
  <2>3. room'[s] = IF s = d THEN NoRoom ELSE room[s]
    BY <1>1, <1>2
  <2>4. GameRight(gameLog["host"], NewGame, s)
    BY NewIsRight
  <2>5. GameRight(gameLog["host"], game'[s], s)
    BY <2>1, <2>2, <2>4
  <2> QED BY <1>1, <1>5, <2>1, <2>3, <2>5
<1>7. StaysOpen(room["host"], room'["host"])
  BY <1>6, TwoSides DEF StaysOpen
<1>8. room'["host"].phase \in {"closed", "unavailable"} \/ game'["host"].board = game["host"].board
  BY <1>1, <1>2, <1>6, TwoSides
<1>9. DOMAIN room' = Sides /\ DOMAIN game' = Sides
  BY <1>1, <1>2
<1> QED BY <1>1, <1>2, <1>4, <1>6, <1>7, <1>8, <1>9, LogsStay

\* The guest adopts a snapshot of the host's.
LEMMA AdoptedIsRight ==
  ASSUME NEW log, NEW g, GameRight(log, g, "guest"), NEW e,
         Counted(e.board, e.seq, e.version), Shown(log, e.board)
  PROVE  GameRight(log, Adopted(g, e), "guest")
<1>1. CASE e.version < g.adopted
  BY <1>1 DEF Adopted
<1>2. CASE ~(e.version < g.adopted)
  <2> DEFINE n == Adopted(g, e)
  <2>1. /\ n.board = e.board /\ n.version = e.version /\ n.seq = e.seq
        /\ n.localSeq = e.seq["guest"] /\ DOMAIN n = GameFields
    BY <1>2 DEF Adopted, GameRight, GameFields
  <2> HIDE DEF n
  <2>2. GameRight(log, n, "guest")
    BY <2>1 DEF GameRight
  <2> QED BY <2>2 DEF n
<1> QED BY <1>1, <1>2

\* A snapshot arrives.
LEMMA TakeBoardKeeps ==
  ASSUME GameInv, NEW i \in 1..Len(gameWire["host"]), TakeBoard(i)
  PROVE  GameInv'
<1> DEFINE e == gameWire["host"][i]
           next == [room["guest"] EXCEPT !.asked = @ /\ e.version < game["guest"].adopted]
<1>1. /\ gameLog' = gameLog /\ inviteId' = inviteId /\ question' = question /\ sessionOn' = sessionOn
      /\ gameWire' = [gameWire EXCEPT !["host"] = RemoveAt(gameWire["host"], i)]
      /\ e.type = "state"
  BY DEF TakeBoard
<1>2. inviteId \in Nat /\ question \in Nat /\ DOMAIN game = Sides /\ DOMAIN room = Sides
  BY DEF GameInv
<1>3. gameWire["host"] \in Seq(Says(gameLog["host"], "host"))
  BY GameFacts, TwoSides
<1>4. DOMAIN gameWire' = Sides /\ \A r \in Sides : gameWire'[r] \in Seq(Says(gameLog["host"], r))
  <2>1. RemoveAt(gameWire["host"], i) \in Seq(Says(gameLog["host"], "host"))
    BY <1>3, Queues
  <2> QED BY <1>1, <2>1, WireSet, TwoSides
<1>5. Counted(e.board, e.seq, e.version) /\ Shown(gameLog["host"], e.board)
  <2>1. e \in Says(gameLog["host"], "host")
    BY <1>3
  <2> HIDE DEF e
  <2> QED BY <1>1, <2>1, HostSays
<1>6. CASE Listening("guest")
  <2>1. /\ game' = [game EXCEPT !["guest"] = Adopted(game["guest"], e)]
        /\ room' = [room EXCEPT !["guest"] = next]
    BY <1>2, <1>6, TwoSides DEF TakeBoard
  <2>2. GameRight(gameLog["host"], Adopted(game["guest"], e), "guest")
    <3>1. GameRight(gameLog["host"], game["guest"], "guest")
      BY GameFacts, TwoSides
    <3> HIDE DEF e
    <3> QED BY <1>5, <3>1, AdoptedIsRight
  <2>3. RoomOK(next, sessionOn) /\ StaysOpen(room["guest"], next)
    <3>1. RoomOK(room["guest"], sessionOn)
      BY GameFacts, TwoSides
    <3> QED BY <3>1, PhaseChanges
  <2> HIDE DEF next, e
  <2>4. /\ DOMAIN room' = Sides /\ \A r \in Sides : RoomOK(room'[r], sessionOn)
        /\ StaysOpen(room["host"], room'["host"])
    BY <2>1, <2>3, RoomSet, TwoSides
  <2>5. /\ DOMAIN game' = Sides /\ game'["host"] = game["host"]
        /\ \A s \in Sides : GameRight(gameLog["host"], game'[s], s)
    <3>1. \A s \in Sides : GameRight(gameLog["host"], game[s], s)
      BY GameFacts
    <3>2. DOMAIN game' = Sides /\ \A s \in Sides :
            game'[s] = IF s = "guest" THEN Adopted(game["guest"], e) ELSE game[s]
      BY <1>2, <2>1
    <3> QED BY <2>2, <3>1, <3>2, TwoSides
  <2> QED BY <1>1, <1>2, <1>4, <2>4, <2>5, LogsStay
<1>7. CASE ~Listening("guest")
  <2>1. game' = game /\ room' = room
    BY <1>7 DEF TakeBoard
  <2> QED BY <1>1, <1>2, <1>4, <2>1, RoomsSame, WiresChange
<1> QED BY <1>6, <1>7

-----------------------------------------------------------------------------
(* Messages that bring no move. *)

\* A message was taken off the wire.
LEMMA TakenOff ==
  ASSUME GameInv, NEW p \in Sides, gameWire[p] # <<>>
  PROVE  /\ Head(gameWire[p]) \in Says(gameLog["host"], p)
         /\ Tail(gameWire[p]) \in Seq(Says(gameLog["host"], p))
  BY GameFacts, Queues

\* And something was said in answer.
LEMMA Answered ==
  ASSUME GameInv, NEW p \in Sides, NEW s \in Sides, s # p, gameWire[p] # <<>>,
         NEW q \in Seq(Says(gameLog["host"], s)),
         DOMAIN gameWire' = Sides, gameWire'[p] = Tail(gameWire[p]), gameWire'[s] = gameWire[s] \o q
  PROVE  \A r \in Sides : gameWire'[r] \in Seq(Says(gameLog["host"], r))
<1>1. Tail(gameWire[p]) \in Seq(Says(gameLog["host"], p))
  BY TakenOff
<1>2. gameWire[s] \o q \in Seq(Says(gameLog["host"], s))
  BY GameFacts, Queues
<1>3. \A r \in Sides : r = p \/ r = s
  BY TwoSides
<1> QED BY <1>1, <1>2, <1>3

\* Nothing was said in answer.
LEMMA TakenOnly ==
  ASSUME GameInv, NEW p \in Sides, gameWire[p] # <<>>,
         gameWire' = [gameWire EXCEPT ![p] = Tail(@)]
  PROVE  DOMAIN gameWire' = Sides /\ \A r \in Sides : gameWire'[r] \in Seq(Says(gameLog["host"], r))
<1>1. DOMAIN gameWire = Sides /\ \A r \in Sides : gameWire[r] \in Seq(Says(gameLog["host"], r))
  BY DEF GameInv
<1>2. Tail(gameWire[p]) \in Seq(Says(gameLog["host"], p))
  BY TakenOff
<1> QED BY <1>1, <1>2

\* An invitation is heard on the guest's phone.
LEMMA TakeInviteKeeps ==
  ASSUME GameInv, NEW m, m = Head(gameWire["host"]), gameWire["host"] # <<>>, m.type = "invite",
         TakeInvite(m), gameLog' = gameLog, inviteId' = inviteId, sessionOn' = sessionOn
  PROVE  GameInv'
<1>1. m \in Says(gameLog["host"], "host")
  BY TakenOff, TwoSides
<1>2. m.id \in Nat
  BY <1>1, HostSays
<1>3. inviteId \in Nat /\ question \in Nat
  BY DEF GameInv
<1>4. question' \in Nat /\ room' = room /\ game' = game
  BY <1>2, <1>3 DEF TakeInvite
<1>5. gameWire' = [host  |-> Tail(gameWire["host"]),
                   guest |-> Append(gameWire["guest"], InviteAck(m.id))]
  BY DEF TakeInvite
<1>6. Append(gameWire["guest"], InviteAck(m.id)) \in Seq(Says(gameLog["host"], "guest"))
  <2>1. gameWire["guest"] \in Seq(Says(gameLog["host"], "guest"))
        /\ InviteAck(m.id) \in Says(gameLog["host"], "guest")
    BY <1>2, GameFacts, Sayings, TwoSides
  <2> QED BY <2>1, Queues
<1>7. Tail(gameWire["host"]) \in Seq(Says(gameLog["host"], "host"))
  BY TakenOff, TwoSides
<1>8. DOMAIN gameWire' = Sides /\ \A r \in Sides : gameWire'[r] \in Seq(Says(gameLog["host"], r))
  <2>1. DOMAIN gameWire' = Sides
    BY <1>5 DEF Sides
  <2>2. gameWire'["host"] = Tail(gameWire["host"])
        /\ gameWire'["guest"] = Append(gameWire["guest"], InviteAck(m.id))
    BY <1>5
  <2> QED BY <1>6, <1>7, <2>1, <2>2, TwoSides
<1> QED BY <1>3, <1>4, <1>8, RoomsSame, WiresChange

\* The other player leaves.
LEMMA TakeLeaveKeeps ==
  ASSUME GameInv, NEW s \in Sides, gameWire[Other(s)] # <<>>, Listening(s), TakeLeave(s),
         inviteId' = inviteId, sessionOn' = sessionOn, question' = question
  PROVE  GameInv'
<1> DEFINE x    == IF room[s].phase = "ended" THEN "ended" ELSE "left"
           next == [room[s] EXCEPT !.phase = x]
           over == ~IsOver(game[s]) \/ game[s].abandoned
<1>1. /\ game' = [game EXCEPT ![s].abandoned = ~IsOver(game[s]) \/ @]
      /\ room' = [room EXCEPT ![s].phase = IF @ = "ended" THEN @ ELSE "left"]
      /\ gameWire' = [gameWire EXCEPT ![Other(s)] = Tail(@)]
      /\ gameLog' = gameLog
  BY DEF TakeLeave
<1>2. inviteId \in Nat /\ question \in Nat /\ DOMAIN game = Sides /\ DOMAIN room = Sides
  BY DEF GameInv
<1>3. room' = [room EXCEPT ![s] = next]
  BY <1>1, <1>2
<1>4. RoomOK(next, sessionOn) /\ StaysOpen(room[s], next)
  <2>1. RoomOK(room[s], sessionOn)
    BY GameFacts
  <2>2. room[s].phase \notin {"closed", "unavailable"}
    BY <2>1 DEF Listening, InRoom, RoomOK
  <2> QED BY <2>1, <2>2, PhaseChanges
<1> HIDE DEF next
<1>5. /\ DOMAIN room' = Sides /\ \A r \in Sides : RoomOK(room'[r], sessionOn)
      /\ StaysOpen(room["host"], room'["host"])
  BY <1>3, <1>4, RoomSet
<1>6. DOMAIN gameWire' = Sides /\ \A r \in Sides : gameWire'[r] \in Seq(Says(gameLog["host"], r))
  BY <1>1, TakenOnly, TwoSides
<1>7. /\ DOMAIN game' = Sides
      /\ \A r \in Sides : game'[r] = IF r = s THEN [game[r] EXCEPT !.abandoned = over] ELSE game[r]
  BY <1>1, <1>2
<1> HIDE DEF over
<1>8. ASSUME NEW r \in Sides
      PROVE  GameRight(gameLog["host"], game'[r], r) /\ game'[r].board = game[r].board
  <2>1. GameRight(gameLog["host"], game[r], r)
    BY GameFacts
  <2> QED BY <1>7, <2>1 DEF GameRight, GameFields
<1> QED BY <1>1, <1>2, <1>5, <1>6, <1>7, <1>8, TwoSides, LogsStay

\* The host hears an answer to its invitation.
LEMMA TakeAnswerKeeps ==
  ASSUME GameInv, NEW m, gameWire["guest"] # <<>>, Listening("host"), TakeAnswer(m),
         inviteId' = inviteId, sessionOn' = sessionOn, question' = question
  PROVE  GameInv'
<1> DEFINE rest == [gameWire EXCEPT !["guest"] = Tail(@)]
<1>1. gameLog' = gameLog /\ game' = game
  BY DEF TakeAnswer
<1>2. /\ inviteId \in Nat /\ question \in Nat /\ DOMAIN room = Sides /\ DOMAIN gameWire = Sides
      /\ RoomOK(room["host"], sessionOn) /\ room["host"].phase \notin {"closed", "unavailable"}
  <2>1. RoomOK(room["host"], sessionOn)
    BY GameFacts, TwoSides
  <2>2. room["host"].phase \notin {"closed", "unavailable"}
    BY <2>1 DEF Listening, InRoom, RoomOK
  <2> QED BY <2>1, <2>2 DEF GameInv
<1>3. ASSUME NEW x, x # "unavailable", room' = [room EXCEPT !["host"].phase = x]
      PROVE  /\ DOMAIN room' = Sides /\ \A r \in Sides : RoomOK(room'[r], sessionOn)
             /\ StaysOpen(room["host"], room'["host"])
  <2> DEFINE next == [room["host"] EXCEPT !.phase = x]
  <2>1. room' = [room EXCEPT !["host"] = next]
    BY <1>2, <1>3
  <2>2. RoomOK(next, sessionOn) /\ StaysOpen(room["host"], next)
    BY <1>2, <1>3, PhaseChanges
  <2> HIDE DEF next
  <2> QED BY <2>1, <2>2, RoomSet, TwoSides
<1>4. ASSUME gameWire' = rest
      PROVE  DOMAIN gameWire' = Sides /\ \A r \in Sides : gameWire'[r] \in Seq(Says(gameLog["host"], r))
  BY <1>4, TakenOnly, TwoSides
<1>5. ASSUME gameWire' = [rest EXCEPT !["host"] = Append(@, Invite(inviteId))]
      PROVE  DOMAIN gameWire' = Sides /\ \A r \in Sides : gameWire'[r] \in Seq(Says(gameLog["host"], r))
  <2>1. Invite(inviteId) \in Says(gameLog["host"], "host")
        /\ gameWire["host"] \in Seq(Says(gameLog["host"], "host"))
    BY <1>2, Sayings, GameFacts, TwoSides
  <2>2. Append(gameWire["host"], Invite(inviteId)) \in Seq(Says(gameLog["host"], "host"))
    BY <2>1, Queues
  <2>3. Tail(gameWire["guest"]) \in Seq(Says(gameLog["host"], "guest"))
    BY TakenOff, TwoSides
  <2>4. /\ DOMAIN gameWire' = Sides /\ gameWire'["guest"] = Tail(gameWire["guest"])
        /\ gameWire'["host"] = Append(gameWire["host"], Invite(inviteId))
    BY <1>2, <1>5, TwoSides
  <2> QED BY <2>2, <2>3, <2>4, TwoSides
<1>6. CASE m.type = "inviteAck" /\ gameWire' = rest
           /\ room' = [room EXCEPT !["host"].phase =
                         IF @ = "inviting" /\ m.id = inviteId THEN "delivered" ELSE @]
  <2> DEFINE x == IF room["host"].phase = "inviting" /\ m.id = inviteId THEN "delivered"
                                                                        ELSE room["host"].phase
  <2>1. x # "unavailable" /\ room' = [room EXCEPT !["host"].phase = x]
    BY <1>2, <1>6
  <2> HIDE DEF x
  <2> QED BY <1>1, <1>2, <1>3, <1>4, <1>6, <2>1, WiresChange
<1>7. CASE room' = [room EXCEPT !["host"].phase = "playing"]
           /\ gameWire' = [rest EXCEPT !["host"] = Append(@, Invite(inviteId))]
  BY <1>1, <1>2, <1>3, <1>5, <1>7, WiresChange
<1>8. CASE gameWire' = rest /\ room' = room
  BY <1>1, <1>2, <1>4, <1>8, RoomsSame, WiresChange
<1>9. CASE room' = [room EXCEPT !["host"].phase = "declined"] /\ gameWire' = rest
  BY <1>1, <1>2, <1>3, <1>4, <1>9, WiresChange
<1> QED BY <1>6, <1>7, <1>8, <1>9 DEF TakeAnswer

\* The guest asks the host for the position.
LEMMA TakeSyncRequestKeeps ==
  ASSUME GameInv, gameWire["guest"] # <<>>, TakeSyncRequest,
         inviteId' = inviteId, sessionOn' = sessionOn, question' = question
  PROVE  GameInv'
<1>1. /\ gameLog' = gameLog /\ game' = game /\ room' = room
      /\ gameWire' = [guest |-> Tail(gameWire["guest"]),
                      host  |-> Append(gameWire["host"], SnapshotEnvelope(game["host"]))]
  BY DEF TakeSyncRequest
<1>2. inviteId \in Nat /\ question \in Nat
  BY DEF GameInv
<1>3. Append(gameWire["host"], SnapshotEnvelope(game["host"])) \in Seq(Says(gameLog["host"], "host"))
  <2>1. gameWire["host"] \in Seq(Says(gameLog["host"], "host"))
        /\ GameRight(gameLog["host"], game["host"], "host")
    BY GameFacts, TwoSides
  <2>2. SnapshotEnvelope(game["host"]) \in Says(gameLog["host"], "host")
    BY <2>1, Snapshots
  <2> QED BY <2>1, <2>2, Queues
<1>4. Tail(gameWire["guest"]) \in Seq(Says(gameLog["host"], "guest"))
  BY TakenOff, TwoSides
<1>5. DOMAIN gameWire' = Sides /\ \A r \in Sides : gameWire'[r] \in Seq(Says(gameLog["host"], r))
  <2>1. DOMAIN gameWire' = Sides
    BY <1>1 DEF Sides
  <2>2. /\ gameWire'["guest"] = Tail(gameWire["guest"])
        /\ gameWire'["host"] = Append(gameWire["host"], SnapshotEnvelope(game["host"]))
    BY <1>1
  <2> QED BY <1>3, <1>4, <2>1, <2>2, TwoSides
<1> QED BY <1>1, <1>2, <1>5, RoomsSame, WiresChange

\* A move is refused.
LEMMA RefusedKeeps ==
  ASSUME GameInv, NEW s \in Sides, gameWire[Other(s)] # <<>>, NEW asks \in BOOLEAN,
         room' = [room EXCEPT ![s].asked = @ \/ asks],
         gameWire' = [[gameWire EXCEPT ![Other(s)] = Tail(@)]
                        EXCEPT ![s] = @ \o Resync(s, game[s], asks)],
         gameLog' = gameLog, game' = game, inviteId' = inviteId, sessionOn' = sessionOn,
         question' = question
  PROVE  GameInv'
<1> DEFINE y    == room[s].asked \/ asks
           next == [room[s] EXCEPT !.asked = y]
<1>1. /\ inviteId \in Nat /\ question \in Nat /\ DOMAIN room = Sides /\ DOMAIN gameWire = Sides
      /\ Other(s) \in Sides /\ Other(s) # s
  BY TwoSides DEF GameInv
<1>2. room' = [room EXCEPT ![s] = next]
  BY <1>1
<1> HIDE DEF y
<1>3. RoomOK(next, sessionOn) /\ StaysOpen(room[s], next)
  BY GameFacts, PhaseChanges
<1> HIDE DEF next
<1>4. /\ DOMAIN room' = Sides /\ \A r \in Sides : RoomOK(room'[r], sessionOn)
      /\ StaysOpen(room["host"], room'["host"])
  BY <1>2, <1>3, RoomSet
<1>5. Resync(s, game[s], asks) \in Seq(Says(gameLog["host"], s))
  BY GameFacts, ResyncSays
<1>6. /\ DOMAIN gameWire' = Sides
      /\ gameWire'[Other(s)] = Tail(gameWire[Other(s)])
      /\ gameWire'[s] = gameWire[s] \o Resync(s, game[s], asks)
  BY <1>1
<1>7. \A r \in Sides : gameWire'[r] \in Seq(Says(gameLog["host"], r))
  BY <1>1, <1>5, <1>6, Answered
<1> QED BY <1>1, <1>4, <1>6, <1>7, WiresChange

\* A message nobody listens for.
LEMMA UnheardKeeps ==
  ASSUME GameInv, NEW p \in Sides, gameWire[p] # <<>>, gameWire' = [gameWire EXCEPT ![p] = Tail(@)],
         room' = room, game' = game, gameLog' = gameLog, question' = question,
         inviteId' = inviteId, sessionOn' = sessionOn
  PROVE  GameInv'
<1>1. inviteId \in Nat /\ question \in Nat
  BY DEF GameInv
<1>2. DOMAIN gameWire' = Sides /\ \A r \in Sides : gameWire'[r] \in Seq(Says(gameLog["host"], r))
  BY TakenOnly
<1> QED BY <1>1, <1>2, RoomsSame, WiresChange

-----------------------------------------------------------------------------
(* Rooms that are opened. *)

\* What a phone reads back from its log.
LEMMA ReplayIsRight ==
  ASSUME GameAssumption, GameInv, NEW s \in Sides
  PROVE  /\ GameRight(gameLog["host"], ReplayLog(s).game, s) /\ ReplayLog(s).index \in Nat
         /\ s = "host" => /\ ReplayLog(s).game.board = BoardOf(gameLog["host"], Len(gameLog["host"]))
                          /\ ReplayLog(s).index = Len(gameLog["host"])
<1>1. gameLog["host"] \in Seq(GameEvents) /\ gameLog["guest"] \in Seq(GameEvents)
  BY GameFacts, TwoSides
<1>2. CASE s = "host"
  <2>1. HostReplayed(gameLog["host"], ReplayLog("host"), Len(gameLog["host"]))
    BY <1>1, HostReplays DEF GameInv
  <2>2. Len(gameLog["host"]) \in Nat
    BY <1>1
  <2> QED BY <1>2, <2>1, <2>2 DEF HostReplayed
<1>3. CASE s = "guest"
  <2>1. GuestReplayed(gameLog["host"], ReplayLog("guest"))
    BY <1>1, GuestReplays DEF GameInv
  <2> QED BY <1>3, <2>1 DEF GuestReplayed
<1> QED BY <1>2, <1>3, TwoSides

\* A room is built on what its phone logged.
LEMMA BuiltKeeps ==
  ASSUME GameAssumption, GameInv, NEW s \in Sides, NEW r, NEW id \in Nat, Built(s, r, id),
         gameLog' = gameLog, inviteId' \in Nat, question' \in Nat, sessionOn, sessionOn' = sessionOn
  PROVE  GameInv'
<1> DEFINE row    == IF gameRow[s] = "none" THEN "invited" ELSE gameRow[s]
           phase  == IF row = "active" \/ s = "guest" THEN "playing" ELSE "inviting"
           replay == ReplayLog(s)
           asks   == linkUp /\ r.diverged /\ Asks(r)
           next   == [phase |-> phase, bound |-> TRUE, diverged |-> r.diverged /\ ~linkUp,
                      asked |-> r.asked \/ (linkUp /\ r.diverged), index |-> replay.index]
           q      == (gameWire[s] \o Resync(s, replay.game, asks)) \o Announced(s, phase, id)
<1>1. /\ room' = [room EXCEPT ![s] = next]
      /\ game' = [game EXCEPT ![s] = replay.game]
      /\ gameWire' = [gameWire EXCEPT ![s] = q]
  BY DEF Built
<1>2. DOMAIN room = Sides /\ DOMAIN game = Sides /\ DOMAIN gameWire = Sides
  BY DEF GameInv
<1>3. /\ GameRight(gameLog["host"], replay.game, s) /\ replay.index \in Nat
      /\ s = "host" => /\ replay.game.board = BoardOf(gameLog["host"], Len(gameLog["host"]))
                       /\ replay.index = Len(gameLog["host"])
  BY ReplayIsRight
<1>4. phase \in {"playing", "inviting"} /\ (s = "guest" => phase # "inviting")
  OBVIOUS
<1> HIDE DEF phase, replay
<1>5. RoomOK(next, sessionOn)
  BY <1>3, <1>4 DEF RoomOK, RoomFields
<1>6. next.index = replay.index
  OBVIOUS
<1>7. q \in Seq(Says(gameLog["host"], s))
  <2>1. gameWire[s] \in Seq(Says(gameLog["host"], s))
    BY GameFacts
  <2>2. asks \in BOOLEAN
    BY DEF Asks
  <2> HIDE DEF asks
  <2>3. Resync(s, replay.game, asks) \in Seq(Says(gameLog["host"], s))
    BY <1>3, <2>2, ResyncSays
  <2>4. Announced(s, phase, id) \in Seq(Says(gameLog["host"], s))
    BY <1>4, AnnouncedSays
  <2>5. gameWire[s] \o Resync(s, replay.game, asks) \in Seq(Says(gameLog["host"], s))
    BY <2>1, <2>3, Queues
  <2> QED BY <2>4, <2>5, Queues
<1> HIDE DEF next, q
<1>8. DOMAIN gameWire' = Sides /\ \A t \in Sides : gameWire'[t] \in Seq(Says(gameLog["host"], t))
  BY <1>1, <1>7, WireSet
<1>9. ASSUME NEW t \in Sides
      PROVE  /\ RoomOK(room'[t], sessionOn) /\ GameRight(gameLog["host"], game'[t], t)
             /\ t # s => room'[t] = room[t] /\ game'[t] = game[t]
             /\ t = s => room'[t] = next /\ game'[t] = replay.game
  <2>1. RoomOK(room[t], sessionOn) /\ GameRight(gameLog["host"], game[t], t)
    BY GameFacts
  <2>2. /\ room'[t] = IF t = s THEN next ELSE room[t]
        /\ game'[t] = IF t = s THEN replay.game ELSE game[t]
    BY <1>1, <1>2
  <2> QED BY <1>3, <1>5, <2>1, <2>2
<1>10. HostLogged(room'["host"], game'["host"], gameLog["host"])
  <2>1. CASE s = "host"
    BY <1>3, <1>6, <1>9, <2>1 DEF HostLogged
  <2>2. CASE s # "host"
    BY <1>9, <2>2, TwoSides DEF GameInv
  <2> QED BY <2>1, <2>2
<1>11. DOMAIN room' = Sides /\ DOMAIN game' = Sides
  BY <1>1, <1>2
<1> QED BY <1>8, <1>9, <1>10, <1>11 DEF GameInv

\* A room is opened, built again, and opened by accepting.
LEMMA OpenRoomKeeps == ASSUME GameAssumption, GameInv, NEW s \in Sides, OpenRoom(s)  PROVE GameInv'
<1>1. /\ gameLog' = gameLog /\ question' = question /\ sessionOn' = sessionOn
      /\ ~InRoom(s)
  BY DEF OpenRoom
<1>2. inviteId \in Nat /\ question \in Nat /\ DOMAIN room = Sides
  BY DEF GameInv
<1>3. CASE sessionOn
  <2>1. /\ Built(s, NoRoom, inviteId + 1)
        /\ inviteId' = inviteId + 1 \/ inviteId' = inviteId
    BY <1>3 DEF OpenRoom
  <2>2. inviteId + 1 \in Nat /\ inviteId' \in Nat
    BY <1>2, <2>1
  <2> QED BY <1>1, <1>2, <1>3, <2>1, <2>2, BuiltKeeps
<1>4. CASE ~sessionOn
  <2> DEFINE next == [NoRoom EXCEPT !.phase = "unavailable"]
  <2>1. /\ game' = game /\ gameWire' = gameWire /\ inviteId' = inviteId
        /\ room' = [room EXCEPT ![s] = next]
    BY <1>4 DEF OpenRoom
  <2>2. RoomOK(next, sessionOn) /\ StaysOpen(room[s], next)
    BY DEF RoomOK, RoomFields, NoRoom, StaysOpen
  <2> HIDE DEF next
  <2>3. /\ DOMAIN room' = Sides /\ \A t \in Sides : RoomOK(room'[t], sessionOn)
        /\ StaysOpen(room["host"], room'["host"])
    BY <2>1, <2>2, RoomSet
  <2> QED BY <1>1, <1>2, <2>1, <2>3, WiresSame, WiresChange
<1> QED BY <1>3, <1>4

\* A room is built again on a new session.
LEMMA RoomRebuiltKeeps == ASSUME GameAssumption, GameInv, NEW s \in Sides, RoomRebuilt(s)  PROVE GameInv'
<1>1. /\ gameLog' = gameLog /\ question' = question /\ sessionOn' = sessionOn /\ sessionOn
      /\ Built(s, room[s], inviteId')
      /\ inviteId' = inviteId + 1 \/ inviteId' = inviteId
  BY DEF RoomRebuilt
<1>2. inviteId \in Nat /\ question \in Nat
  BY DEF GameInv
<1>3. inviteId' \in Nat
  BY <1>1, <1>2
<1> QED BY <1>1, <1>2, <1>3, BuiltKeeps

\* The guest accepts, and its room is opened.
LEMMA AcceptInviteKeeps == ASSUME GameAssumption, GameInv, AcceptInvite  PROVE GameInv'
<1>1. /\ gameLog' = gameLog /\ inviteId' = inviteId /\ question' = 0 /\ sessionOn' = sessionOn /\ sessionOn
      /\ Built("guest", NoRoom, 0)
  BY DEF AcceptInvite
<1>2. inviteId \in Nat
  BY DEF GameInv
<1> QED BY <1>1, <1>2, BuiltKeeps, TwoSides

-----------------------------------------------------------------------------
(* Moves that are made. *)

\* The counts of a log that grows.
LEMMA LogByAppend ==
  ASSUME NEW log \in Seq(GameEvents), NEW event \in GameEvents, NEW p
  PROVE  \A n \in 0..Len(log) : MovesBy(Append(log, event), p, n) = MovesBy(log, p, n)
  BY MovesByAppend

\* The row that logs a move.
EventOf(p, pick, n) == [player |-> p, pick |-> pick, seq |-> n]

\* Whose turn it is on the host's board, and the number of that player's next move.
HostTurn(p, n) ==
  /\ room["host"].phase \notin {"closed", "unavailable"} /\ ~IsOver(game["host"])
  /\ p = TurnOf(game["host"].board) /\ n = game["host"].seq[p]

\* A move is put behind the others, and goes on with their line of play.
HostGoesOn(p, n, pick) ==
  LET log  == gameLog["host"]
      more == Append(log, EventOf(p, pick, n))
  IN  /\ EventOf(p, pick, n) \in GameEvents
      /\ Persisted("host", [player |-> p, pick |-> pick], n) = more
      /\ Played(more)
      /\ BoardOf(more, Len(log) + 1) = Append(game["host"].board, [player |-> p, pick |-> pick])
      /\ room["host"].index = Len(log)
      /\ p = "host" => HostMade(more, n, pick)

\* The host's log with one more move of the player whose turn it is.
LEMMA HostLogGrows ==
  ASSUME GameAssumption, GameInv, NEW p \in Sides, NEW pick \in Picks, NEW n, HostTurn(p, n)
  PROVE  HostGoesOn(p, n, pick)
<1> DEFINE event == EventOf(p, pick, n)
           log   == gameLog["host"]
           more  == Append(log, event)
           board == game["host"].board
           N     == Len(log)
<1>1. log \in Seq(GameEvents) /\ Played(log) /\ N \in Nat
  BY GameFacts, TwoSides DEF GameInv
<1>2. board = BoardOf(log, N) /\ room["host"].index = N
  BY DEF GameInv, HostLogged, HostTurn
<1>3. ~IsOver(game["host"]) /\ p = TurnOf(board) /\ n = game["host"].seq[p]
  BY DEF HostTurn
<1>4. /\ board \in Seq(GameMoves) /\ game["host"].seq \in [Sides -> Nat]
      /\ \A q \in Sides : game["host"].seq[q] = MovesBy(board, q, Len(board))
  BY GameFacts, TwoSides DEF GameRight, Counted, Counters
<1>5. n \in Nat /\ event \in GameEvents
  BY <1>4, <1>3 DEF GameEvents, EventOf
<1>6. Persisted("host", [player |-> p, pick |-> pick], n) = more
  BY <1>1, <1>2 DEF Persisted, Logged, EventOf
<1>7. more \in Seq(GameEvents) /\ Len(more) = N + 1 /\ more[N + 1] = event
      /\ \A j \in 1..N : more[j] = log[j]
  BY <1>1, <1>5
<1>8. event.player = p /\ event.pick = pick /\ event.seq = n
  BY DEF EventOf
<1> HIDE DEF log, N, more, event
<1>9. BoardOf(more, N) = BoardOf(log, N)
  <2>1. \A j \in 1..N : [player |-> more[j].player, pick |-> more[j].pick]
                          = [player |-> log[j].player, pick |-> log[j].pick]
    BY <1>7
  <2> QED BY <2>1 DEF BoardOf
<1>10. /\ Len(board) = N
      /\ BoardOf(more, N + 1) = Append(board, [player |-> p, pick |-> pick])
      /\ TurnOf(board) = TurnAfter(more, N)
      /\ \A q : MovesBy(board, q, N) = MovesBy(more, q, N)
  <2>1. board = BoardOf(more, N) /\ N < Len(more)
    BY <1>1, <1>2, <1>7, <1>9
  <2>2. /\ Len(BoardOf(more, N)) = N
        /\ BoardOf(more, N + 1)
             = Append(BoardOf(more, N), [player |-> more[N + 1].player, pick |-> more[N + 1].pick])
        /\ TurnOf(BoardOf(more, N)) = TurnAfter(more, N)
        /\ \A q : MovesBy(BoardOf(more, N), q, N) = MovesBy(more, q, N)
    BY <1>1, <1>7, <2>1, BoardGrows
  <2>3. more[N + 1].player = p /\ more[N + 1].pick = pick
    BY <1>7, <1>8
  <2>4. Len(board) = N /\ TurnOf(board) = TurnAfter(more, N)
    BY <2>1, <2>2
  <2>5. BoardOf(more, N + 1) = Append(board, [player |-> p, pick |-> pick])
    BY <2>1, <2>2, <2>3
  <2>6. \A q : MovesBy(board, q, N) = MovesBy(more, q, N)
    BY <2>1, <2>2
  <2> QED BY <2>4, <2>5, <2>6
<1>11. ASSUME NEW q  PROVE \A j \in 0..N : MovesBy(more, q, j) = MovesBy(log, q, j)
  <2>1. \A j \in 0..Len(log) : MovesBy(Append(log, event), q, j) = MovesBy(log, q, j)
    BY <1>1, <1>5, LogByAppend
  <2> QED BY <2>1 DEF more, N
<1>12. \A j \in 0..(N - 1) : TurnAfter(more, j) = TurnAfter(log, j)
  BY <1>1, <1>7 DEF TurnAfter
<1>13. N + 1 <= MaxMoves
  <2>1. Len(board) < MaxMoves
    BY <1>1, <1>10, <1>3 DEF IsOver, GameAssumption
  <2> QED BY <1>1, <1>10, <2>1 DEF GameAssumption
<1>14. ASSUME NEW j \in DOMAIN more
       PROVE  more[j].player = TurnAfter(more, j - 1) /\ more[j].seq = MovesBy(more, more[j].player, j - 1)
  <2>1. CASE j = N + 1
    <3>1. (N + 1) - 1 = N
      BY <1>1
    <3>2. n = MovesBy(more, p, N)
      BY <1>4, <1>10, <1>3
    <3> QED BY <1>7, <1>8, <1>10, <1>3, <2>1, <3>1, <3>2
  <2>2. CASE j # N + 1
    <3>1. j \in 1..N /\ j - 1 \in 0..(N - 1) /\ j - 1 \in 0..N /\ j \in DOMAIN log
      BY <1>1, <1>7, <2>2 DEF N
    <3>2. log[j].player = TurnAfter(log, j - 1) /\ log[j].seq = MovesBy(log, log[j].player, j - 1)
      BY <1>1, <3>1 DEF Played
    <3>3. more[j] = log[j]
      BY <1>7, <3>1
    <3>4. TurnAfter(more, j - 1) = TurnAfter(log, j - 1)
      BY <1>12, <3>1
    <3>5. MovesBy(more, log[j].player, j - 1) = MovesBy(log, log[j].player, j - 1)
      BY <1>11, <3>1
    <3> QED BY <3>2, <3>3, <3>4, <3>5
  <2> QED BY <2>1, <2>2
<1>15. Played(more)
  BY <1>7, <1>13, <1>14 DEF Played
<1>16. p = "host" => HostMade(more, n, pick)
  <2> SUFFICES ASSUME p = "host"  PROVE HostMade(more, n, pick)
    OBVIOUS
  <2>1. HostMade(more, MovesBy(log, "host", N), pick)
    BY <1>1, <1>5, <1>8, MadeNow DEF more, N
  <2>2. MovesBy(log, "host", N) = n
    <3>1. N \in 0..N
      BY <1>1
    <3>2. MovesBy(more, "host", N) = MovesBy(log, "host", N)
      BY <1>11, <3>1
    <3> QED BY <1>4, <1>10, <1>3, <3>2
  <2> QED BY <2>1, <2>2
<1> QED BY <1>2, <1>5, <1>6, <1>10, <1>15, <1>16 DEF more, log, N, event, HostGoesOn

\* A move of the host's is in the log.
InLog(log, p, n, pick) == p = "host" => HostMade(log, n, pick)

\* Whatever the host's log, what was right before a move is right with the move logged.
RightAfter(p, n, pick, next) ==
  \A log : GameRight(log, game["host"], "host") /\ InLog(log, p, n, pick) => GameRight(log, next, "host")

SaidAfter(p, n, pick) ==
  \A log : /\ \A r \in Sides : gameWire[r] \in Seq(Says(log, r))
           /\ InLog(log, p, n, pick)
           => \A r \in Sides : gameWire'[r] \in Seq(Says(log, r))

\* The host makes a move, or takes the guest's.
LEMMA HostMovesKeep ==
  ASSUME GameAssumption, GameInv, NEW p \in Sides, NEW n, HostTurn(p, n), NEW pick \in Picks,
         NEW next, NEW after,
         gameLog' = [gameLog EXCEPT !["host"] = Persisted("host", [player |-> p, pick |-> pick], n)],
         game' = [game EXCEPT !["host"] = next], room' = [room EXCEPT !["host"] = after],
         next.board = Append(game["host"].board, [player |-> p, pick |-> pick]),
         RightAfter(p, n, pick, next), SaidAfter(p, n, pick),
         RoomOK(after, sessionOn), after.index = room["host"].index + 1,
         DOMAIN gameWire' = Sides,
         inviteId' = inviteId, question' = question, sessionOn' = sessionOn
  PROVE  GameInv'
<1> DEFINE event == EventOf(p, pick, n)
           log   == gameLog["host"]
           more  == Append(log, event)
<1>1. /\ event \in GameEvents
      /\ Persisted("host", [player |-> p, pick |-> pick], n) = more
      /\ Played(more)
      /\ BoardOf(more, Len(log) + 1) = next.board
      /\ room["host"].index = Len(log)
      /\ p = "host" => HostMade(more, n, pick)
  <2>1. HostGoesOn(p, n, pick)
    BY HostLogGrows
  <2> QED BY <2>1 DEF HostGoesOn
<1>2. log \in Seq(GameEvents) /\ gameLog["guest"] \in Seq(GameEvents) /\ DOMAIN gameLog = Sides
      /\ inviteId \in Nat /\ question \in Nat /\ DOMAIN room = Sides /\ DOMAIN game = Sides
  BY TwoSides DEF GameInv
<1> HIDE DEF event
<1>3. more \in Seq(GameEvents) /\ Len(more) = Len(log) + 1
  BY <1>1, <1>2
<1> HIDE DEF log
<1>4. gameLog' \in [Sides -> Seq(GameEvents)] /\ gameLog'["host"] = more
      /\ gameLog'["guest"] = gameLog["guest"]
  <2> HIDE DEF more
  <2>1. gameLog' = [gameLog EXCEPT !["host"] = more]
    BY <1>1
  <2>2. gameLog \in [Sides -> Seq(GameEvents)]
    BY DEF GameInv
  <2> QED BY <1>3, <2>1, <2>2, TwoSides
<1>5. GuestLogged(gameLog["guest"], more)
  <2>1. GuestLogged(gameLog["guest"], log)
    BY DEF GameInv, log
  <2> QED BY <1>1, <1>2, <2>1, MadeStays DEF GuestLogged
<1>6. ASSUME NEW s \in Sides
      PROVE  /\ GameRight(more, game[s], s) /\ gameWire[s] \in Seq(Says(more, s))
  <2>1. GameRight(log, game[s], s) /\ gameWire[s] \in Seq(Says(log, s))
    BY GameFacts DEF log
  <2>2. Shown(more, game[s].board)
    BY <1>1, <1>2, <2>1, ShownStays DEF GameRight
  <2>3. GameRight(more, game[s], s)
    BY <2>1, <2>2 DEF GameRight
  <2>4. Says(log, s) \subseteq Says(more, s)
    BY <1>1, <1>2, SaysStays
  <2> HIDE DEF more
  <2>5. gameWire[s] \in Seq(Says(more, s))
    BY <2>1, <2>4
  <2> QED BY <2>3, <2>5
<1> HIDE DEF more
<1>7. GameRight(more, next, "host")
  BY <1>1, <1>6, TwoSides DEF RightAfter, InLog
<1>8. \A r \in Sides : gameWire'[r] \in Seq(Says(more, r))
  BY <1>1, <1>6 DEF SaidAfter, InLog
<1>9. ASSUME NEW s \in Sides
      PROVE  GameRight(more, game'[s], s) /\ RoomOK(room'[s], sessionOn)
  <2>1. /\ game'[s] = IF s = "host" THEN next ELSE game[s]
        /\ room'[s] = IF s = "host" THEN after ELSE room[s]
    BY <1>2
  <2>2. RoomOK(room[s], sessionOn)
    BY GameFacts
  <2> QED BY <1>6, <1>7, <2>1, <2>2
<1>10. HostLogged(room'["host"], game'["host"], more)
  <2>1. game'["host"] = next /\ room'["host"] = after
    BY <1>2, TwoSides
  <2>2. next.board = BoardOf(more, Len(more)) /\ after.index = Len(more)
    BY <1>1, <1>3
  <2> QED BY <2>1, <2>2 DEF HostLogged
<1>11. DOMAIN room' = Sides /\ DOMAIN game' = Sides
  BY <1>2
<1> QED BY <1>1, <1>2, <1>4, <1>5, <1>8, <1>9, <1>10, <1>11 DEF GameInv

\* The guest makes a move, or takes the host's.
LEMMA GuestMovesKeep ==
  ASSUME GameInv, NEW p \in Sides, NEW pick \in Picks, NEW n \in Nat, NEW next, NEW after,
         p = "host" => HostMade(gameLog["host"], n, pick),
         gameLog' = [gameLog EXCEPT !["guest"] = Persisted("guest", [player |-> p, pick |-> pick], n)],
         game' = [game EXCEPT !["guest"] = next], room' = [room EXCEPT !["guest"] = after],
         GameRight(gameLog["host"], next, "guest"), RoomOK(after, sessionOn),
         DOMAIN gameWire' = Sides,
         \A r \in Sides : gameWire'[r] \in Seq(Says(gameLog["host"], r)),
         inviteId' = inviteId, question' = question, sessionOn' = sessionOn
  PROVE  GameInv'
<1> DEFINE event == [player |-> p, pick |-> pick, seq |-> n]
           log   == gameLog["guest"]
           i     == room["guest"].index
           more  == Logged(log, i, event)
<1>1. /\ event \in GameEvents /\ event.player = p /\ event.pick = pick /\ event.seq = n
      /\ Persisted("guest", [player |-> p, pick |-> pick], n) = more
  BY DEF GameEvents, Persisted
<1>2. /\ log \in Seq(GameEvents) /\ gameLog \in [Sides -> Seq(GameEvents)] /\ i \in Nat
      /\ inviteId \in Nat /\ question \in Nat /\ DOMAIN room = Sides /\ DOMAIN game = Sides
  BY GameFacts, TwoSides DEF GameInv, RoomOK
<1> HIDE DEF event, log, i
<1>3. more \in Seq(GameEvents) /\ \A j \in DOMAIN more : more[j] = event \/ (j \in DOMAIN log /\ more[j] = log[j])
  <2>1. CASE i < Len(log)
    <3>1. more = [log EXCEPT ![i + 1] = event] /\ i + 1 \in DOMAIN log
      BY <1>2, <2>1 DEF Logged
    <3> HIDE DEF more
    <3> QED BY <1>1, <1>2, <3>1
  <2>2. CASE ~(i < Len(log))
    <3>1. more = Append(log, event)
      BY <2>2 DEF Logged
    <3> HIDE DEF more
    <3> QED BY <1>1, <1>2, <3>1
  <2> QED BY <2>1, <2>2
<1> HIDE DEF more
<1>4. gameLog' \in [Sides -> Seq(GameEvents)] /\ gameLog'["guest"] = more
      /\ gameLog'["host"] = gameLog["host"]
  <2>1. gameLog' = [gameLog EXCEPT !["guest"] = more]
    BY <1>1
  <2> QED BY <1>2, <1>3, <2>1, TwoSides
<1>5. GuestLogged(more, gameLog["host"])
  <2>1. \A j \in DOMAIN log : log[j].player = "host" => HostMade(gameLog["host"], log[j].seq, log[j].pick)
    BY DEF GameInv, GuestLogged, log
  <2> QED BY <1>1, <1>3, <2>1 DEF GuestLogged
<1>6. ASSUME NEW s \in Sides
      PROVE  GameRight(gameLog["host"], game'[s], s) /\ RoomOK(room'[s], sessionOn)
  <2>1. /\ game'[s] = IF s = "guest" THEN next ELSE game[s]
        /\ room'[s] = IF s = "guest" THEN after ELSE room[s]
    BY <1>2
  <2> QED BY <2>1, GameFacts
<1>7. HostLogged(room'["host"], game'["host"], gameLog["host"])
  <2>1. game'["host"] = game["host"] /\ room'["host"] = room["host"]
    BY <1>2, TwoSides
  <2> QED BY <2>1 DEF GameInv
<1>8. DOMAIN room' = Sides /\ DOMAIN game' = Sides /\ Played(gameLog["host"])
  BY <1>2 DEF GameInv
<1> QED BY <1>2, <1>4, <1>5, <1>6, <1>7, <1>8 DEF GameInv

\* What it takes for a move to be accepted.
LEMMA AcceptedMeans ==
  ASSUME NEW log, NEW s \in Sides, NEW g, GameRight(log, g, s), NEW p \in Sides, NEW n \in Nat,
         Outcome(g, p, n) = "accepted"
  PROVE  ~IsOver(g) /\ n = g.seq[p] /\ p = TurnOf(g.board)
<1>1. g.seq[p] \in Nat
  BY DEF GameRight, Counted, Counters
<1>2. ~IsOver(g) /\ ~(n < g.seq[p]) /\ ~(n > g.seq[p]) /\ p = TurnOf(g.board)
  BY DEF Outcome
<1> QED BY <1>1, <1>2

\* A player makes a move.
LEMMA DispatchKeeps ==
  ASSUME GameAssumption, GameInv, NEW s \in Sides, NEW pick \in Picks, Dispatch(s, pick)
  PROVE  GameInv'
<1> DEFINE g     == game[s]
           n     == g.localSeq
           next  == Submitted(g, s, pick)
           sent  == room[s].bound /\ sessionOn
           x     == PhaseAfter(s, next)
           y     == room[s].diverged \/ ~sent
           after == [room[s] EXCEPT !.index = room[s].index + 1, !.diverged = y, !.phase = x]
           m     == [type |-> "event", pick |-> pick, seq |-> n]
           q     == IF sent THEN Append(gameWire[s], m) ELSE gameWire[s]
<1>1. /\ room[s].phase = "playing" /\ Outcome(g, s, n) = "accepted"
      /\ game' = [game EXCEPT ![s] = next]
      /\ gameLog' = [gameLog EXCEPT ![s] = Persisted(s, [player |-> s, pick |-> pick], n)]
      /\ gameWire' = [gameWire EXCEPT ![s] = q]
      /\ inviteId' = inviteId /\ question' = question /\ sessionOn' = sessionOn
  BY DEF Dispatch
<1>2. DOMAIN room = Sides /\ DOMAIN game = Sides /\ DOMAIN gameWire = Sides
  BY DEF GameInv
<1>3. room' = [room EXCEPT ![s] = after]
  <2>1. room' = [room EXCEPT ![s].index = @ + 1, ![s].diverged = @ \/ ~sent, ![s].phase = x]
    BY DEF Dispatch
  <2> HIDE DEF x, sent
  <2> QED BY <1>2, <2>1
<1>4. RoomOK(room[s], sessionOn) /\ GameRight(gameLog["host"], g, s)
  BY GameFacts
<1>5. RoomOK(after, sessionOn) /\ after.index = room[s].index + 1
  <2>1. x \in {"ended", room[s].phase} /\ room[s].phase \notin {"closed", "unavailable"}
    BY <1>1 DEF PhaseAfter
  <2> HIDE DEF x, y
  <2> QED BY <1>4, <2>1 DEF RoomOK, RoomFields
<1>6. n \in Nat /\ n = g.seq[s]
  BY <1>4 DEF GameRight, Counted, Counters
<1>7. ~IsOver(g) /\ s = TurnOf(g.board)
  <2> HIDE DEF g, n
  <2> QED BY <1>1, <1>4, <1>6, AcceptedMeans
<1>8. ASSUME NEW log, \A r \in Sides : gameWire[r] \in Seq(Says(log, r)), s = "host" => HostMade(log, n, pick)
      PROVE  \A r \in Sides : gameWire'[r] \in Seq(Says(log, r))
  <2>1. m \in Says(log, s)
    BY <1>6, <1>8, Sayings, TwoSides
  <2> HIDE DEF m, sent
  <2>2. q \in Seq(Says(log, s))
    BY <1>8, <2>1, Queues
  <2> HIDE DEF q
  <2>3. \A r \in Sides : gameWire'[r] = IF r = s THEN q ELSE gameWire[r]
    BY <1>1, <1>2
  <2> QED BY <1>8, <2>2, <2>3
<1>9. DOMAIN gameWire' = Sides
  BY <1>1, <1>2
<1>10. CASE s = "host"
  <2>1. HostTurn("host", n)
    BY <1>1, <1>6, <1>7, <1>10 DEF HostTurn
  <2>2. next.board = Append(game["host"].board, [player |-> "host", pick |-> pick])
    BY <1>4, <1>10 DEF Submitted, Moved, GameRight, GameFields
  <2>3. RightAfter("host", n, pick, next)
    BY <1>6, <1>10, SubmittedIsRight DEF RightAfter, InLog
  <2> HIDE DEF g, n, next, after, q
  <2>4. SaidAfter("host", n, pick)
    BY <1>8 DEF SaidAfter, InLog
  <2> QED BY <1>1, <1>3, <1>5, <1>9, <1>10, <2>1, <2>2, <2>3, <2>4, HostMovesKeep, TwoSides
<1>11. CASE s = "guest"
  <2>1. GameRight(gameLog["host"], next, "guest")
    BY <1>4, <1>11, SubmittedIsRight
  <2> HIDE DEF g, n, next, after, q
  <2>2. \A r \in Sides : gameWire'[r] \in Seq(Says(gameLog["host"], r))
    <3>1. \A r \in Sides : gameWire[r] \in Seq(Says(gameLog["host"], r))
      BY GameFacts
    <3> QED BY <1>8, <1>11, <3>1
  <2> QED BY <1>1, <1>3, <1>5, <1>6, <1>9, <1>11, <2>1, <2>2, GuestMovesKeep, TwoSides
<1> QED BY <1>10, <1>11, TwoSides

\* A player hears of the other's move.
LEMMA TakeEventKeeps ==
  ASSUME GameAssumption, GameInv, NEW s \in Sides, NEW m, m = Head(gameWire[Other(s)]),
         gameWire[Other(s)] # <<>>, m.type = "event", Listening(s), TakeEvent(s, m),
         inviteId' = inviteId, sessionOn' = sessionOn, question' = question
  PROVE  GameInv'
<1> DEFINE p     == Other(s)
           g     == game[s]
           next  == Moved(g, p, m.pick)
           asks  == Outcome(g, p, m.seq) = "outOfOrder" /\ Asks(room[s])
           x     == PhaseAfter(s, next)
           after == [room[s] EXCEPT !.index = room[s].index + 1, !.diverged = room[s].diverged, !.phase = x]
<1>1. p \in Sides /\ p # s /\ (s = "host" => p = "guest") /\ (s = "guest" => p = "host")
  BY TwoSides
<1>2. m \in Says(gameLog["host"], p)
  BY <1>1, TakenOff
<1>3. m.pick \in Picks /\ m.seq \in Nat /\ (p = "host" => HostMade(gameLog["host"], m.seq, m.pick))
  BY <1>1, <1>2, HostSays, GuestSays, TwoSides
<1>4. /\ DOMAIN room = Sides /\ DOMAIN game = Sides /\ DOMAIN gameWire = Sides
      /\ RoomOK(room[s], sessionOn) /\ GameRight(gameLog["host"], g, s)
  BY GameFacts
<1>5. CASE /\ Outcome(g, p, m.seq) # "accepted"
           /\ room' = [room EXCEPT ![s].asked = @ \/ asks]
           /\ gameWire' = [[gameWire EXCEPT ![p] = Tail(@)] EXCEPT ![s] = @ \o Resync(s, game[s], asks)]
           /\ UNCHANGED <<game, gameLog, gameRow>>
  <2>1. asks \in BOOLEAN
    BY DEF Asks
  <2> HIDE DEF asks
  <2> QED BY <1>5, <2>1, RefusedKeeps
<1>6. CASE /\ Outcome(g, p, m.seq) = "accepted"
           /\ game' = [game EXCEPT ![s] = next]
           /\ gameLog' = [gameLog EXCEPT ![s] = Persisted(s, [player |-> p, pick |-> m.pick], m.seq)]
           /\ room' = [room EXCEPT ![s].index = @ + 1, ![s].phase = x]
           /\ gameWire' = [gameWire EXCEPT ![p] = Tail(@)]
  <2>1. ~IsOver(g) /\ m.seq = g.seq[p] /\ p = TurnOf(g.board)
    <3> HIDE DEF g, p
    <3> QED BY <1>1, <1>3, <1>4, <1>6, AcceptedMeans
  <2>2. room[s].phase \notin {"closed", "unavailable"}
    BY <1>4 DEF Listening, InRoom, RoomOK
  <2>3. RoomOK(after, sessionOn) /\ after.index = room[s].index + 1
    <3>1. x \in {"ended", room[s].phase}
      BY DEF PhaseAfter
    <3> HIDE DEF x
    <3> QED BY <1>4, <2>2, <3>1 DEF RoomOK, RoomFields
  <2>4. room' = [room EXCEPT ![s] = after]
    <3>1. [room[s] EXCEPT !.index = room[s].index + 1, !.phase = x] = after
      BY <1>4 DEF RoomOK, RoomFields
    <3> HIDE DEF x, after
    <3> QED BY <1>4, <1>6, <3>1
  <2>5. DOMAIN gameWire' = Sides
    BY <1>4, <1>6
  <2>6. ASSUME NEW log, \A r \in Sides : gameWire[r] \in Seq(Says(log, r))
        PROVE  \A r \in Sides : gameWire'[r] \in Seq(Says(log, r))
    <3>1. Tail(gameWire[p]) \in Seq(Says(log, p))
      BY <1>1, <2>6, Queues
    <3> HIDE DEF p
    <3>2. \A r \in Sides : gameWire'[r] = IF r = p THEN Tail(gameWire[p]) ELSE gameWire[r]
      BY <1>4, <1>6
    <3> QED BY <2>6, <3>1, <3>2
  <2>7. next.board = Append(g.board, [player |-> p, pick |-> m.pick])
    BY <1>4 DEF Moved, GameRight, GameFields
  <2>8. CASE s = "host"
    <3>1. RightAfter(p, m.seq, m.pick, next)
      BY <1>1, <1>3, <2>8, MovedIsRight, TwoSides DEF RightAfter
    <3>2. p = "guest" /\ p \in Sides /\ g = game["host"]
      BY <1>1, <2>8
    <3>3. SaidAfter(p, m.seq, m.pick)
      BY <2>6 DEF SaidAfter
    <3>4. HostTurn(p, m.seq)
      BY <2>1, <2>2, <2>8 DEF HostTurn
    <3> HIDE DEF g, next, after, p
    <3> QED BY <1>3, <1>6, <2>3, <2>4, <2>5, <2>7, <2>8, <3>1, <3>2, <3>3, <3>4, HostMovesKeep
  <2>9. CASE s = "guest"
    <3>1. p = "host" /\ p \in Sides /\ g = game["guest"] /\ p # "guest"
      BY <1>1, <2>9
    <3>2. GameRight(gameLog["host"], next, "guest")
      <4> HIDE DEF g, p
      <4> QED BY <1>3, <1>4, <2>1, <2>9, <3>1, MovedIsRight, TwoSides
    <3>3. \A r \in Sides : gameWire'[r] \in Seq(Says(gameLog["host"], r))
      BY <2>6, GameFacts
    <3> HIDE DEF g, next, after, p
    <3> QED BY <1>3, <1>6, <2>3, <2>4, <2>5, <2>9, <3>1, <3>2, <3>3, GuestMovesKeep
  <2> QED BY <2>8, <2>9, TwoSides
<1> QED BY <1>5, <1>6 DEF TakeEvent

\* A phone hears the next message.
LEMMA TakeMessageKeeps == ASSUME GameAssumption, GameInv, NEW s \in Sides, TakeMessage(s)  PROVE GameInv'
<1> DEFINE p == Other(s)
           m == Head(gameWire[p])
<1>1. /\ gameWire[p] # <<>> /\ inviteId' = inviteId /\ sessionOn' = sessionOn
      /\ p \in Sides /\ (s = "host" => p = "guest") /\ (s = "guest" => p = "host")
  BY TwoSides DEF TakeMessage
<1>2. m \in Says(gameLog["host"], p)
  BY <1>1, TakenOff
<1>3. s = "host" => m.type \in {"inviteAck", "accept", "decline", "syncRequest", "leave", "event"}
  BY <1>1, <1>2, GuestSays
<1>4. s = "guest" => m.type \in {"invite", "leave", "event", "state"}
  BY <1>1, <1>2, HostSays
<1>5. CASE m.type = "invite" /\ s = "guest" /\ TakeInvite(m) /\ gameLog' = gameLog
  <2>1. p = "host"
    BY <1>1, <1>5
  <2> QED BY <1>1, <1>5, <2>1, TakeInviteKeeps
<1>6. CASE m.type = "event" /\ Listening(s) /\ TakeEvent(s, m) /\ question' = question
  BY <1>1, <1>6, TakeEventKeeps
<1>7. CASE Listening(s) /\ TakeLeave(s) /\ question' = question
  BY <1>1, <1>7, TakeLeaveKeeps
<1>8. CASE /\ m.type \in {"inviteAck", "accept", "decline"} /\ Listening(s)
           /\ TakeAnswer(m) /\ question' = question
  <2>1. s = "host" /\ p = "guest"
    BY <1>1, <1>4, <1>8, TwoSides
  <2> QED BY <1>1, <1>8, <2>1, TakeAnswerKeeps
<1>9. CASE /\ m.type = "syncRequest" /\ Listening(s)
           /\ TakeSyncRequest /\ question' = question
  <2>1. s = "host" /\ p = "guest"
    BY <1>1, <1>4, <1>9, TwoSides
  <2> QED BY <1>1, <1>9, <2>1, TakeSyncRequestKeeps
<1>10. CASE /\ gameWire' = [gameWire EXCEPT ![p] = Tail(@)]
            /\ UNCHANGED <<room, game, gameRow, gameLog, question>>
  BY <1>1, <1>10, UnheardKeeps
<1> QED BY <1>5, <1>6, <1>7, <1>8, <1>9, <1>10 DEF TakeMessage

\* Before the first invitation.
LEMMA GameStartsRight == ASSUME GameAssumption, GameInit  PROVE GameInv
<1>1. /\ room = [s \in Sides |-> NoRoom] /\ game = [s \in Sides |-> NewGame]
      /\ gameLog = [s \in Sides |-> <<>>] /\ gameWire = [s \in Sides |-> <<>>]
      /\ inviteId = 0 /\ question = 0
  BY DEF GameInit
<1>2. \A s \in Sides : RoomOK(room[s], sessionOn) /\ GameRight(gameLog["host"], game[s], s)
  <2> TAKE s \in Sides
  <2>1. room[s] = NoRoom /\ game[s] = NewGame
    BY <1>1
  <2>2. RoomOK(NoRoom, sessionOn)
    BY DEF RoomOK, NoRoom, RoomFields
  <2> QED BY <2>1, <2>2, NewIsRight
<1>3. \A s \in Sides : gameWire[s] \in Seq(Says(gameLog["host"], s))
  <2> TAKE s \in Sides
  <2>1. gameWire[s] = <<>>
    BY <1>1
  <2> QED BY <2>1
<1>4. HostLogged(room["host"], game["host"], gameLog["host"])
  BY <1>1, TwoSides DEF HostLogged, NoRoom
<1>5. gameLog["host"] = <<>> /\ gameLog["guest"] = <<>> /\ gameLog \in [Sides -> Seq(GameEvents)]
  BY <1>1, TwoSides
<1>6. Played(gameLog["host"]) /\ GuestLogged(gameLog["guest"], gameLog["host"])
  BY <1>5 DEF Played, GuestLogged, GameAssumption
<1>7. DOMAIN room = Sides /\ DOMAIN game = Sides /\ DOMAIN gameWire = Sides
  BY <1>1
<1> QED BY <1>1, <1>2, <1>3, <1>4, <1>5, <1>6, <1>7 DEF GameInv

\* Every step of a game keeps the invariant.
LEMMA GameStepKeeps == ASSUME GameAssumption, GameInv, [GameNext]_gameVars  PROVE GameInv'
<1>1. CASE UNCHANGED gameVars
  BY <1>1 DEF gameVars, GameInv, HostLogged
<1>2. CASE GameNext
  <2>1. CASE \E s \in Sides :
               \/ OpenRoom(s) \/ RoomVanishes(s) \/ RoomRebuilt(s) \/ Leave(s)
               \/ \E pick \in Picks : Dispatch(s, pick)
               \/ TakeMessage(s) \/ SecondPasses(s)
               \/ ChannelGivesUp(s) \/ AppKilled(s)
    BY <2>1, OpenRoomKeeps, RoomVanishesKeeps, RoomRebuiltKeeps, LeaveKeeps, DispatchKeeps,
       TakeMessageKeeps, SecondPassesKeeps, ChannelGivesUpKeeps, AppKilledKeeps
  <2>2. CASE AskAgain \/ InviteExpires \/ RetryInvite \/ AcceptInvite \/ DeclineInvite
    BY <2>2, AskAgainKeeps, InviteExpiresKeeps, RetryInviteKeeps, AcceptInviteKeeps, DeclineInviteKeeps
  <2>3. CASE \E i \in 1..Len(gameWire["host"]) : TakeBoard(i) \/ BoardLost(i)
    BY <2>3, TakeBoardKeeps, BoardLostKeeps
  <2>4. CASE LinkDrops \/ LinkReturns \/ SessionCloses \/ SessionOpens
    BY <2>4, LinkDropsKeeps, LinkReturnsKeeps, SessionClosesKeeps, SessionOpensKeeps
  <2> QED BY <1>2, <2>1, <2>2, <2>3, <2>4 DEF GameNext
<1> QED BY <1>1, <1>2

\* What the invariant says of the boards.
LEMMA GameRightMeans == ASSUME GameAssumption, GameInv  PROVE GameIsKept
<1>1. CountersFollowBoard
  <2> SUFFICES ASSUME NEW s \in Sides
               PROVE  LET g == game[s] IN
                      /\ g.version = Len(g.board)
                      /\ \A p \in Sides : g.seq[p] = MovesBy(g.board, p, Len(g.board))
                      /\ g.localSeq = g.seq[s]
    BY DEF CountersFollowBoard
  <2> QED BY GameFacts DEF GameRight, Counted
<1>2. GuestShowsHostMoves
  <2> DEFINE shown == game["guest"].board
             made  == gameLog["host"]
  <2>1. Shown(made, shown) /\ shown \in Seq(GameMoves)
    BY GameFacts, TwoSides DEF GameRight, Counted
  <2> SUFFICES ASSUME NEW i \in DOMAIN shown, shown[i].player = "host"
               PROVE  \E j \in DOMAIN made :
                        /\ made[j].player = "host"
                        /\ MovesBy(made, "host", j) = MovesBy(shown, "host", i)
                        /\ made[j].pick = shown[i].pick
    BY DEF GuestShowsHostMoves
  <2>2. HostMade(made, MovesBy(shown, "host", i) - 1, shown[i].pick)
    BY <2>1 DEF Shown
  <2>3. PICK j \in DOMAIN made :
          made[j].player = "host" /\ MovesBy(made, "host", j) = (MovesBy(shown, "host", i) - 1) + 1
            /\ made[j].pick = shown[i].pick
    BY <2>2 DEF HostMade
  <2>4. i \in Nat
    BY <2>1
  <2>5. MovesBy(shown, "host", i) \in Nat
    BY <2>4, MovesByFinite
  <2> HIDE DEF shown, made
  <2>6. MovesBy(made, "host", j) = MovesBy(shown, "host", i)
    BY <2>3, <2>5
  <2> QED BY <2>3, <2>6
<1>3. HostReopensAsLeft
  <2>1. ReplayLog("host").game.board = BoardOf(gameLog["host"], Len(gameLog["host"]))
    BY ReplayIsRight, TwoSides
  <2> QED BY <2>1 DEF HostReopensAsLeft, InRoom, GameInv, HostLogged
<1> QED BY <1>1, <1>2, <1>3 DEF GameIsKept

\* THEOREM: whatever is lost, repeated, overtaken, closed or killed, the counters
\* of each phone's session fit its board, the host's moves on the guest's board
\* are the ones the host logged, each under its number, and the host's log
\* replays to the position its room shows (runtime.ts, useGameRoom.ts).
THEOREM GamesAreKept == GameSpec => []GameIsKept
<1>1. GameInit => GameInv
  BY GameAssumption, GameStartsRight
<1>2. GameInv /\ [GameNext]_gameVars => GameInv'
  BY GameAssumption, GameStepKeeps
<1>3. GameInv => GameIsKept
  BY GameAssumption, GameRightMeans
<1> QED BY <1>1, <1>2, <1>3, PTL DEF GameSpec
=============================================================================
