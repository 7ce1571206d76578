--------------------------- MODULE DialArbitration ---------------------------
(***************************************************************************)
(* Two phones that ring each other at once: connect(), the incoming link's *)
(* introduction, adoptIdentity(), loserOf() and discardHandle() of         *)
(* apps/mobile/src/client/AirLinkClient.ts.  A session is named by the     *)
(* phone that dialled it; each phone files its handles in a map under a    *)
(* discovery row's key, an `inbound:` placeholder or the peer id.          *)
(***************************************************************************)
EXTENDS Naturals, FiniteSets, Functions

Low  == 1             \* initiatorWins() compares installation ids
High == 2
Callers   == {Low, High}
Sessions == Callers
Keys     == {"row", "inbound", "peerId"}
None     == 0

VARIABLES
  recognised,  \* phones that recognise the other in discovery, as a friend: their
               \* row for it is keyed on the peer id
  stage,       \* stage[p][s]: how far session s has come on phone p
  key,         \* key[p][s]: the name its handle is filed under
  known,       \* known[p]: sessions whose handle has a peerId
  peers,       \* peers[p]: the map, from keys to sessions
  goodbyes     \* <<p, s>>: a BYE on its way to p on session s

dialVars == <<recognised, stage, key, known, peers, goodbyes>>

OtherCaller(p) == IF p = Low THEN High ELSE Low

\* The key of p's discovery row for the other phone.
RowKey(p) == IF p \in recognised THEN "peerId" ELSE "row"

DialInit ==
  /\ recognised \in SUBSET Callers
  /\ stage = [p \in Callers |-> [s \in Sessions |-> "none"]]
  /\ key = [p \in Callers |-> [s \in Sessions |-> IF s = p THEN RowKey(p) ELSE "inbound"]]
  /\ known = [p \in Callers |-> {}]
  /\ peers = [p \in Callers |-> [k \in Keys |-> None]]
  /\ goodbyes = {}

-----------------------------------------------------------------------------
\* The map without session s, if it is what its key leads to.
Without(map, k, s) == IF map[k] = s THEN [map EXCEPT ![k] = None] ELSE map

\* connect(): nobody answers to the row's key yet; a handle is created and the radio
\* starts to dial.
Connect(p) ==
  /\ stage[p][p] = "none"
  /\ peers[p][RowKey(p)] = None
  /\ stage' = [stage EXCEPT ![p][p] = "dialling"]
  /\ peers' = [peers EXCEPT ![p][RowKey(p)] = p]
  /\ UNCHANGED <<recognised, key, known, goodbyes>>

\* connect() after its await: the attempt was superseded and the link is dropped.
DialSuperseded(p) ==
  /\ stage[p][p] = "dialling"
  /\ peers[p][key[p][p]] # p
  /\ stage' = [stage EXCEPT ![p][p] = "closed"]
  /\ UNCHANGED <<recognised, key, known, peers, goodbyes>>

\* connect() after its await: the handshake starts, and its hello makes the other
\* phone's router introduce a responder.
DialSucceeds(p) ==
  LET q == OtherCaller(p) IN
  /\ stage[p][p] = "dialling"
  /\ peers[p][key[p][p]] = p
  /\ stage' = [stage EXCEPT ![p][p] = "handshaking", ![q][p] = "handshaking"]
  /\ peers' = [peers EXCEPT ![q]["inbound"] = p]
  /\ UNCHANGED <<recognised, key, known, goodbyes>>

\* connect(): the radio could not, and the handle is discarded.
DialFails(p) ==
  /\ stage[p][p] = "dialling"
  /\ stage' = [stage EXCEPT ![p][p] = "closed"]
  /\ peers' = [peers EXCEPT ![p] = Without(@, key[p][p], p)]
  /\ UNCHANGED <<recognised, key, known, goodbyes>>

-----------------------------------------------------------------------------
InitiatorWins(local, remote) == local < remote

\* loserOf(a, b): both are secure and have the same installation at the other end,
\* so the ids decide.
LoserOf(p, a, b) ==
  LET weInitiate == InitiatorWins(p, OtherCaller(p))
      aIsOurs    == key[p][a] # "inbound"
  IN  IF weInitiate = aIsOurs THEN b ELSE a

\* Mutant of adoptIdentity(): the incumbent is looked up by key, not by identity.
MutantIncumbents(p, s) == {t \in Range(peers[p]) \ {s, None} : key[p][t] = key[p][s]}

\* adoptIdentity(): another handle that has the same identity.
Incumbents(p, s) == {t \in Range(peers[p]) \ {s, None} : t \in known[p]}

\* adoptIdentity(): the handle is filed under its peer id, unless that is its key
\* already.
Rekeyed(map, k, s) ==
  IF k = "peerId" THEN map ELSE [[map EXCEPT ![k] = None] EXCEPT !["peerId"] = s]

\* The handshake of session s completes on phone p, and adoptIdentity() resolves a
\* duplicate: discardHandle() takes the loser out of the map and says goodbye.
Authenticate(p, s) ==
  /\ stage[p][s] = "handshaking"
  /\ p = s \/ stage[s][s] \in {"secure", "closed"}
  /\ known' = [known EXCEPT ![p] = @ \union {s}]
  /\ UNCHANGED recognised
  /\ \/ /\ Incumbents(p, s) = {}
        /\ stage' = [stage EXCEPT ![p][s] = "secure"]
        /\ peers' = [peers EXCEPT ![p] = Rekeyed(@, key[p][s], s)]
        /\ key' = [key EXCEPT ![p][s] = "peerId"]
        /\ UNCHANGED goodbyes
     \/ \E t \in Incumbents(p, s) :
          /\ LoserOf(p, t, s) = s
          /\ stage' = [stage EXCEPT ![p][s] = "closed"]
          /\ peers' = [peers EXCEPT ![p] = Without(@, key[p][s], s)]
          /\ goodbyes' = goodbyes \union {<<OtherCaller(p), s>>}
          /\ UNCHANGED key
     \/ \E t \in Incumbents(p, s) :
          /\ LoserOf(p, t, s) = t
          /\ stage' = [stage EXCEPT ![p][s] = "secure", ![p][t] = "closed"]
          /\ peers' = [peers EXCEPT ![p] = Rekeyed(Without(@, key[p][t], t), key[p][s], s)]
          /\ key' = [key EXCEPT ![p][s] = "peerId"]
          /\ goodbyes' = goodbyes \union {<<OtherCaller(p), t>>}

\* The other phone said goodbye: the session closes and its handle is dropped.
Goodbye(p, s) ==
  /\ <<p, s>> \in goodbyes
  /\ stage[p][s] \in {"secure", "closed"}
  /\ goodbyes' = goodbyes \ {<<p, s>>}
  /\ stage' = [stage EXCEPT ![p][s] = "closed"]
  /\ peers' = [peers EXCEPT ![p] = Without(@, key[p][s], s)]
  /\ UNCHANGED <<recognised, key, known>>

DialNext ==
  \E p \in Callers :
    \/ Connect(p)
    \/ DialSuperseded(p)
    \/ DialSucceeds(p)
    \/ DialFails(p)
    \/ \E s \in Sessions : Authenticate(p, s) \/ Goodbye(p, s)

DialSpec == DialInit /\ [][DialNext]_dialVars

-----------------------------------------------------------------------------
(***************************************************************************)
(* Correctness.                                                            *)
(***************************************************************************)
\* A phone never keeps two secure sessions with one person, which would show two
\* different six-digit codes: adoptIdentity() has resolved every duplicate.
OneSessionPerPerson == \A p \in Callers : Cardinality({s \in Sessions : stage[p][s] = "secure"}) <= 1

\* Nothing is under way any more.
Quiet ==
  /\ goodbyes = {}
  /\ \A p \in Callers, s \in Sessions : stage[p][s] \in {"none", "secure", "closed"}

\* "Connected means connected": a live session with somebody met as a stranger can
\* be found in the map, whatever was discarded, re-keyed and said goodbye to
\* around it, so that no screen draws a Connect button over it.  (A friend's
\* dialled session can win the arbitration after the answered one has taken its
\* place under the peer id, and is then live but not in the map.)
LiveIsFound ==
  \A p \in Callers \ recognised, s \in Sessions : stage[p][s] = "secure" => s \in Range(peers[p])

\* What adoptIdentity() leaves behind on each phone: one session per person, and that
\* one where the screens look for it.
BooksAreRight == OneSessionPerPerson /\ LiveIsFound

\* "Exactly one of them survives, chosen by comparing the two installation ids,
\* which both sides can do independently and reach the same answer": when both
\* phones rang and both rings were answered, one session is left on both phones.
OneSurvives ==
  (Quiet /\ \A p \in Callers : known[p] = Sessions)
    => \E s \in Sessions : \A p \in Callers : stage[p][s] = "secure"

=============================================================================
