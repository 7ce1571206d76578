------------------------------ MODULE GroupMesh ------------------------------
(***************************************************************************)
(* A group of phones that relay for each other: the GroupSession of every  *)
(* phone (packages/core/src/mesh/groupSession.ts, seenSet.ts and           *)
(* compareSnapshots of codec.ts).                                          *)
(*                                                                         *)
(* Two phones in each other's reach hold a peer session, which keeps the   *)
(* order of what it carries and loses only what is under way when it ends. *)
(* One group is modelled, and members are numbers, which order as their    *)
(* ids do.  Names, wall clocks and payloads are left out, and so are the   *)
(* byte share of the relay budget, the age of seen-set entries and, since  *)
(* no more packets are sent than it holds, its eviction of the oldest.     *)
(***************************************************************************)
EXTENDS Naturals, Sequences, FiniteSets, SequencesExt

CONSTANTS
  People,           \* phones, numbered
  Outings,          \* records [links, founders, adds, codes, removals, promotions,
                    \* asks, packets, losses]: who is in whose reach, the group
                    \* formed there, and how often each thing may happen
  MaxGroupSize,     \* MESH_LIMITS.maxMembers
  MaxHops,          \* MESH_LIMITS.maxHops
  RelayBudget,      \* packets relayed for one origin in a window
  MaxGroupEpoch,    \* the ceiling of the epoch
  MaxEpochAdvance   \* the largest believable jump

ASSUME MeshAssumption ==
  /\ People \subseteq Nat \ {0}
  /\ {MaxGroupSize, MaxHops, RelayBudget, MaxGroupEpoch, MaxEpochAdvance} \subseteq Nat \ {0}
  /\ \A o \in Outings :
       /\ o.founders \in Seq(People) /\ Len(o.founders) <= MaxGroupSize
       /\ IsInjective(o.founders)

VARIABLES
  group,     \* per phone: its snapshot, or NoGroup
  links,     \* pairs of phones that hold a session
  pipe,      \* per ordered pair of phones: what is under way
  seenSet,   \* per phone: the packets it has seen
  spent,     \* per phone and origin: packets relayed in this window
  heard,     \* per phone: the packets delivered to it, in order
  left,      \* what may still happen: an outing, counting down
  done       \* the kinds of things that have happened

meshVars == <<group, links, pipe, seenSet, spent, heard, left, done>>

NoGroup  == [host |-> 0, epoch |-> 0, members |-> <<>>]
Everyone == 0        \* the destination of a broadcast

IsMember(g, p) == Contains(g.members, p)
InReach(p)     == {q \in People : {p, q} \in links}

\* The founders have met, the first of them has created the group and added the
\* others, and their rosters have settled.
MeshInit ==
  \E o \in Outings :
    /\ left = o /\ done = {}
    /\ links = o.links
    /\ group = [p \in People |->
         IF Contains(o.founders, p)
           THEN [host |-> Head(o.founders), epoch |-> Len(o.founders), members |-> o.founders]
           ELSE NoGroup]
    /\ pipe = [l \in People \X People |-> <<>>]
    /\ seenSet = [p \in People |-> {}]
    /\ spent = [p \in People |-> [q \in People |-> 0]]
    /\ heard = [p \in People |-> <<>>]

May(what) == left[what] > 0
Use(what) == left' = [left EXCEPT ![what] = @ - 1] /\ done' = done \cup {what}

-----------------------------------------------------------------------------
(* Sending.                                                                  *)

Sending(queues, p, targets, m) ==
  [l \in DOMAIN queues |->
     IF l[1] = p /\ l[2] \in targets THEN Append(queues[l], m) ELSE queues[l]]

\* sendToMembers(): the neighbours that the phone holds for members, but one.
ToMembers(queues, p, g, m, except) ==
  Sending(queues, p, {q \in InReach(p) : IsMember(g, q)} \ {except}, m)

\* sendCborTo(): a neighbour, member or not.
ToPeer(queues, p, q, m) == Sending(queues, p, InReach(p) \cap {q}, m)

State(g)       == [type |-> "state", snapshot |-> g]
News(type, q)  == [type |-> type, who |-> q]
Ask            == [type |-> "ask"]

Joined(g, q) ==
  IF IsMember(g, q) \/ Len(g.members) >= MaxGroupSize THEN g
  ELSE [g EXCEPT !.members = Append(@, q)]

Departed(g, q) == [g EXCEPT !.members = SelectSeq(@, LAMBDA r : r # q)]

\* A bug: a change is gossiped without a number of its own.
MutantBumped(g) == g

\* bumpEpoch() saturates.
Bumped(g) == [g EXCEPT !.epoch = IF @ >= MaxGroupEpoch THEN MaxGroupEpoch ELSE @ + 1]

\* The host turns a change into a numbered state and gossips it; anybody else
\* leaves the roster as g.
Numbered(p, g, queues) ==
  IF g.host = p
    THEN /\ group' = [group EXCEPT ![p] = Bumped(g)]
         /\ pipe' = ToMembers(queues, p, g, State(Bumped(g)), 0)
    ELSE /\ group' = [group EXCEPT ![p] = g]
         /\ pipe' = queues

-----------------------------------------------------------------------------
(* What the app asks of a phone.                                             *)

\* adopt(): a group taken from a code on another member's screen.
AdoptFromCode(p, q) ==
  /\ group[p] = NoGroup /\ IsMember(group[q], q) /\ May("codes")
  /\ group' = [group EXCEPT ![p] = group[q]]
  /\ seenSet' = [seenSet EXCEPT ![p] = {}]
  /\ spent' = [spent EXCEPT ![p] = [r \in People |-> 0]]
  /\ Use("codes")
  /\ UNCHANGED <<links, pipe, heard>>

\* announceSelf(), by a phone that the roster it holds has no place for yet.
AnnounceSelf(p) ==
  LET g == Joined(group[p], p) IN
  /\ group[p] # NoGroup /\ ~IsMember(group[p], p) /\ May("codes")
  /\ Len(group[p].members) < MaxGroupSize
  /\ group' = [group EXCEPT ![p] = g]
  /\ pipe' = ToMembers(pipe, p, g, News("join", p), 0)
  /\ Use("codes")
  /\ UNCHANGED <<links, seenSet, spent, heard>>

\* addMember(): an invitation to the new member, one line of news to the others.
AddMember(p, q) ==
  LET g       == Joined(group[p], q)
      invited == ToPeer(pipe, p, q, State(g))
  IN  /\ group[p] # NoGroup /\ ~IsMember(group[p], q) /\ May("adds")
      /\ Len(group[p].members) < MaxGroupSize
      /\ Numbered(p, g, ToMembers(invited, p, g, News("join", q), q))
      /\ Use("adds")
      /\ UNCHANGED <<links, seenSet, spent, heard>>

\* removeMember(): the members are told, and the one removed; not even the host
\* numbers the change.
RemoveMember(p, q) ==
  LET g == Departed(group[p], q) IN
  /\ IsMember(group[p], q) /\ May("removals")
  /\ group' = [group EXCEPT ![p] = g]
  /\ pipe' = ToPeer(ToMembers(pipe, p, g, News("leave", q), 0), p, q, News("leave", q))
  /\ Use("removals")
  /\ UNCHANGED <<links, seenSet, spent, heard>>

\* leave(): the phone keeps its own state.
LeaveGroup(p) ==
  /\ group[p] # NoGroup /\ May("removals")
  /\ pipe' = ToMembers(pipe, p, group[p], News("leave", p), 0)
  /\ Use("removals")
  /\ UNCHANGED <<group, links, seenSet, spent, heard>>

RequestState(p) ==
  /\ group[p] # NoGroup /\ May("asks")
  /\ pipe' = ToMembers(pipe, p, group[p], Ask, 0)
  /\ Use("asks")
  /\ UNCHANGED <<group, links, seenSet, spent, heard>>

PromoteHost(p, q) ==
  LET g == [Bumped(group[p]) EXCEPT !.host = q] IN
  /\ IsMember(group[p], q) /\ group[p].host # q /\ May("promotions")
  /\ group' = [group EXCEPT ![p] = g]
  /\ pipe' = ToMembers(pipe, p, g, State(g), 0)
  /\ Use("promotions")
  /\ UNCHANGED <<links, seenSet, spent, heard>>

\* forwardTargets(): straight to a destination in reach, otherwise to every member
\* in reach but the neighbour it came from and its origin.
ForwardTargets(p, m, except) ==
  IF m.dest \in InReach(p) THEN {m.dest} \ {except}
  ELSE {q \in InReach(p) : IsMember(group[p], q)} \ {except, m.origin}

\* sendTo() and broadcast(): the phone remembers its own packet before it leaves.
SendPacket(p, dest) ==
  LET m == [type |-> "relay", id |-> left.packets, origin |-> p, dest |-> dest,
            hops |-> MaxHops]
  IN  /\ group[p] # NoGroup /\ May("packets")
      /\ dest = Everyone \/ (dest # p /\ IsMember(group[p], dest))
      /\ seenSet' = [seenSet EXCEPT ![p] = @ \cup {m.id}]
      /\ pipe' = Sending(pipe, p, ForwardTargets(p, m, 0), m)
      /\ Use("packets")
      /\ UNCHANGED <<group, links, spent, heard>>

-----------------------------------------------------------------------------
(* What arrives.  rest is what is under way once the message is taken.       *)

\* compareSnapshots() > 0.
Wins(a, b) ==
  \/ a.epoch > b.epoch
  \/ a.epoch = b.epoch /\ a.host < b.host
  \/ a.epoch = b.epoch /\ a.host = b.host /\ Len(a.members) > Len(b.members)
  \/ /\ a.epoch = b.epoch /\ a.host = b.host /\ Len(a.members) = Len(b.members)
     /\ \E i \in 1..Len(a.members) :
          /\ a.members[i] < b.members[i]
          /\ \A j \in 1..(i - 1) : a.members[j] = b.members[j]

\* A snapshot is adopted as an invitation, or because it wins.
Adopts(p, via, g) ==
  IF group[p] = NoGroup THEN IsMember(g, p) /\ IsMember(g, via)
  ELSE /\ IsMember(group[p], via)
       /\ g.epoch <= group[p].epoch + MaxEpochAdvance
       /\ Wins(g, group[p])

\* Whoever is behind is answered.
Answers(p, via, g) ==
  /\ group[p] # NoGroup /\ IsMember(group[p], via)
  /\ Wins(group[p], g)

OnSnapshot(p, via, g, rest) ==
  /\ \/ /\ Adopts(p, via, g)
        /\ group' = [group EXCEPT ![p] = g]
        /\ pipe' = ToMembers(rest, p, g, State(g), via)
     \/ /\ Answers(p, via, g)
        /\ pipe' = ToPeer(rest, p, via, State(group[p]))
        /\ UNCHANGED group
     \/ /\ ~Adopts(p, via, g) /\ ~Answers(p, via, g)
        /\ pipe' = rest
        /\ UNCHANGED group
  /\ UNCHANGED <<seenSet, spent, heard>>

\* News of a member is heeded from that member or from any other.
Heeded(p, via, who) == group[p] # NoGroup /\ (via = who \/ IsMember(group[p], via))

IsNews(p, m) ==
  IF m.type = "join"
    THEN ~IsMember(group[p], m.who) /\ Len(group[p].members) < MaxGroupSize
    ELSE IsMember(group[p], m.who)

\* onJoin(), onLeave(): news is passed on, repetitions are not.
OnNews(p, via, m, rest) ==
  LET g == IF m.type = "join" THEN Joined(group[p], m.who) ELSE Departed(group[p], m.who)
  IN  /\ IF Heeded(p, via, m.who) /\ IsNews(p, m)
           THEN Numbered(p, g, ToMembers(rest, p, g, m, via))
           ELSE pipe' = rest /\ UNCHANGED group
      /\ UNCHANGED <<seenSet, spent, heard>>

OnStateRequest(p, via, rest) ==
  /\ pipe' = IF group[p] # NoGroup /\ IsMember(group[p], via)
               THEN ToPeer(rest, p, via, State(group[p])) ELSE rest
  /\ UNCHANGED <<group, seenSet, spent, heard>>

Carries(p, via, m) ==
  /\ group[p] # NoGroup /\ IsMember(group[p], via)
  /\ IsMember(group[p], m.origin) /\ m.origin # p
  /\ m.dest = Everyone \/ IsMember(group[p], m.dest)

\* A bug: only what comes through a relay is remembered.
MutantRemembered(p, m) == IF m.hops < MaxHops THEN seenSet[p] \cup {m.id} ELSE seenSet[p]

\* The seen-set with the packet: its test and its setting are one step.
Remembered(p, m) == seenSet[p] \cup {m.id}

\* onRelay(): a packet is delivered, and carried further while it has hops and its
\* origin has budget.
OnRelay(p, via, m, rest) ==
  LET fresh   == Carries(p, via, m) /\ m.id \notin seenSet[p]
      onward  == fresh /\ m.dest # p /\ m.hops > 1 /\ spent[p][m.origin] < RelayBudget
  IN  /\ seenSet' = IF fresh THEN [seenSet EXCEPT ![p] = Remembered(p, m)] ELSE seenSet
      /\ heard' = IF fresh /\ m.dest \in {p, Everyone}
                    THEN [heard EXCEPT ![p] = Append(@, m.id)] ELSE heard
      /\ spent' = IF onward THEN [spent EXCEPT ![p][m.origin] = @ + 1] ELSE spent
      /\ pipe' = IF onward
                   THEN Sending(rest, p, ForwardTargets(p, m, via), [m EXCEPT !.hops = @ - 1])
                   ELSE rest
      /\ UNCHANGED group

\* handleMessage().
TakeGroupMessage(via, p) ==
  LET l    == <<via, p>>
      m    == Head(pipe[l])
      rest == [pipe EXCEPT ![l] = Tail(@)]
  IN  /\ pipe[l] # <<>>
      /\ \/ m.type = "state" /\ OnSnapshot(p, via, m.snapshot, rest)
         \/ m.type \in {"join", "leave"} /\ OnNews(p, via, m, rest)
         \/ m.type = "ask" /\ OnStateRequest(p, via, rest)
         \/ m.type = "relay" /\ OnRelay(p, via, m, rest)
      /\ UNCHANGED <<links, left, done>>

\* admitRelay(): a second has passed since the window of this origin began.
NewWindow(p, q) ==
  /\ spent[p][q] > 0
  /\ spent' = [spent EXCEPT ![p][q] = 0]
  /\ UNCHANGED <<group, links, pipe, seenSet, heard, left, done>>

\* detach() on both sides: two phones are out of reach.
OutOfReach(p, q) ==
  /\ {p, q} \in links /\ May("losses")
  /\ links' = links \ {{p, q}}
  /\ pipe' = [pipe EXCEPT ![<<p, q>>] = <<>>, ![<<q, p>>] = <<>>]
  /\ Use("losses")
  /\ UNCHANGED <<group, seenSet, spent, heard>>

\* attach() on both sides.
BackInReach(p, q) ==
  /\ {p, q} \in left.links \ links
  /\ links' = links \cup {{p, q}}
  /\ UNCHANGED <<group, pipe, seenSet, spent, heard, left, done>>

-----------------------------------------------------------------------------
MeshNext ==
  \E p, q \in People :
    \/ TakeGroupMessage(p, q)
    \/ AdoptFromCode(p, q)
    \/ AnnounceSelf(p)
    \/ AddMember(p, q)
    \/ RemoveMember(p, q)
    \/ LeaveGroup(p)
    \/ RequestState(p)
    \/ PromoteHost(p, q)
    \/ SendPacket(p, q) \/ SendPacket(p, Everyone)
    \/ NewWindow(p, q)
    \/ OutOfReach(p, q)
    \/ BackInReach(p, q)

MeshSpec == MeshInit /\ [][MeshNext]_meshVars

\* Every session carries what it was given.
MeshFairness == \A p, q \in People : WF_meshVars(TakeGroupMessage(p, q))

FairMeshSpec == MeshSpec /\ MeshFairness

-----------------------------------------------------------------------------
(* Properties.                                                               *)

\* "Gossip only on change. That is what makes the epidemic terminate": once the
\* users have done what they do, the room falls silent.
Silent == \A l \in DOMAIN pipe : pipe[l] = <<>>

\* A packet is delivered at most once to a member, however many ways it takes
\* through a room that has cycles.
HeardOnce == \A p \in People : IsInjective(heard[p])

\* "A member list that converges without a server": when members have invited
\* others from different ends of the room, and every invitation, announcement
\* and numbered state has crossed every other, the members hold one roster.
\* (Not so once somebody was removed, promoted or came with a code: see the
\* README.)
RostersAgree ==
  Silent /\ done \subseteq {"adds", "asks", "packets"} =>
    \A p, q \in People :
      IsMember(group[p], p) /\ IsMember(group[q], q) => group[p] = group[q]

=============================================================================
