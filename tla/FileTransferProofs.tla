-------------------------- MODULE FileTransferProofs --------------------------
(***************************************************************************)
(* Proofs of FileTransfer.  Neither the receiver's bitmap nor the one in   *)
(* its row claims a chunk that cannot be read back, and a file the sender  *)
(* shows as completed is whole in the receiver's inbox, for files of any   *)
(* size and however writes, damaged chunks, timeouts, sessions and         *)
(* restarts fall, as long as every link carries runs of one length.        *)
(*                                                                         *)
(* A part file is named by the offset of its run, so a shorter run at the  *)
(* same offset would replace a longer one.  None is ever written: the grid *)
(* falls into cells, one full run each, and what is sent is a cell, or the *)
(* first chunk of a cell that the receiver has already, which is not       *)
(* written again.  That depends on what the sender believes: the books     *)
(* that acknowledgements, refusals and timeouts leave open a cell, none of *)
(* it, or the first chunk of one that was acknowledged.                    *)
(*                                                                         *)
(* That COMPLETED is said only of a file that was saved (SavedInv) rests   *)
(* on the bitmap: assembly begins when the bitmap is full, and then reads  *)
(* every chunk back.                                                       *)
(***************************************************************************)
EXTENDS FileTransfer, SequenceTheorems, WellFoundedInduction, TLAPS

\* Every link carries runs of the same length.
OneLength == \E n : RunLengths = {n}
Length == CHOOSE n \in RunLengths : TRUE

\* The grid in cells of that length, each named by its first chunk.
Offsets  == {o \in Chunks : \E k \in 0..NumChunks : o = Length * k}
Cell(o)  == {c \in Chunks : o <= c /\ c < o + Length}
Whole(S) == S \subseteq Chunks /\ \A o \in Offsets : Cell(o) \subseteq S \/ Cell(o) \cap S = {}

\* A run that is a cell, and one that is the first chunk of one.
IsCell(r)  == r \in Nat \X Nat /\ r[1] \in Offsets /\ RunOf(r) = Cell(r[1])
IsHead(r)  == r[1] \in Offsets /\ r = <<r[1], 1>>
IsEntry(r) == IsCell(r) \/ IsHead(r)

-----------------------------------------------------------------------------
(* The inductive invariant. *)

SenderMessages ==
  [type : {"ACCEPT", "DECLINE", "COMPLETE", "CANCEL", "ERROR"}]
    \cup [type : {"RESUME"}, held : SUBSET Chunks]
    \cup [type : {"ACK"}, held : SUBSET Chunks, missing : SUBSET Offsets]
ReceiverMessages == [type : {"OFFER", "CANCEL", "ERROR"}]
OutFields == {"state", "acked", "sent", "inFlight", "attempts", "reading"}
InFields  == {"state", "received", "writes", "nak", "sinceAck", "ackPending"}

Receiving == in.state \in {"TRANSFERRING", "VERIFYING"}

FileTypeOK ==
  /\ runLength = Length
  /\ DOMAIN in = InFields
  /\ in.nak \subseteq Offsets
  /\ in.writes \in Seq(Nat \X Nat)
  /\ in.writes # <<>> => Receiving
  /\ disk \in [Chunks -> Nat]
  /\ toSender \in Seq(SenderMessages)
  /\ toReceiver \in Seq(ReceiverMessages)

\* The disk has cells only; what is being written are cells; bitmaps are of cells that
\* the disk has.
PartsAreCells(parts) == \A c \in Chunks : parts[c] = 0 \/ IsCell(<<c, parts[c]>>)
DiskInv ==
  /\ PartsAreCells(disk)
  /\ \A k \in DOMAIN in.writes : IsCell(in.writes[k])
  /\ Whole(in.received) /\ Whole(row.bitmap)
  /\ BitmapIsHonest

\* Without a session, or before the file is offered, nothing is under way; an offer is
\* the first thing a session says, and nothing happens before it is answered.
Idle == /\ out = NoOut /\ in = NoIn
        /\ chunks = <<>> /\ toReceiver = <<>> /\ toSender = <<>>
Calm == out \in {Offering, NoOut} /\ chunks = <<>> /\ toSender = <<>>
FreshInv ==
  /\ ~joined \/ sendRecord = "none" => Idle
  /\ \A i \in DOMAIN toReceiver : toReceiver[i].type = "OFFER" => i = 1 /\ in.state = "none" /\ Calm
  /\ in.state = "OFFERED" => Calm

\* What the sender believes of the cell at f: nothing of it was acknowledged, all, or all
\* but the first chunk, which was refused later; and the same of what is not to be sent.
CellBooks(o, f) ==
  LET C == Cell(f)
      X == o.acked \cup o.sent
  IN  /\ \/ C \cap o.acked = {}
         \/ C \subseteq o.acked
         \/ C \cap o.acked = C \ {f}
      /\ \/ C \cap X = {}
         \/ C \subseteq X
         \/ C \cap X = C \ {f} /\ C \cap o.acked = C \ {f}

\* What is in flight are cells and heads, one for each cell, and with what was acknowledged
\* it accounts for all that was sent; what is being read is a cell, or the head of a cell
\* that was acknowledged.
BooksOpen(o) ==
  /\ DOMAIN o = OutFields
  /\ o.acked \subseteq Chunks /\ o.sent \subseteq Chunks
  /\ \A e \in o.inFlight : IsEntry(e)
  /\ \A e, f \in o.inFlight : e[1] = f[1] => e = f
  /\ \A f \in Offsets : CellBooks(o, f)
  /\ \A c \in o.sent \ o.acked : \E e \in o.inFlight : c \in RunOf(e)
  /\ o.reading # <<>> =>
       /\ \/ IsCell(o.reading)
          \/ IsHead(o.reading) /\ Cell(o.reading[1]) \ {o.reading[1]} \subseteq o.acked
       /\ \A e \in o.inFlight : e[1] # o.reading[1]

Books(o) == BooksOpen(o) /\ \A e \in o.inFlight : RunOf(e) \subseteq o.acked \cup o.sent

\* What was and will be reported to the sender are whole sets that only grow, up to what
\* is received.
Reports(m) == m.type \in {"RESUME", "ACK"}
Chain(acked, messages, received) ==
  /\ acked \subseteq received
  /\ \A i \in DOMAIN messages : Reports(messages[i]) =>
       /\ Whole(messages[i].held)
       /\ acked \subseteq messages[i].held
       /\ messages[i].held \subseteq received
  /\ \A i, j \in DOMAIN messages : i < j /\ Reports(messages[i]) /\ Reports(messages[j]) =>
       messages[i].held \subseteq messages[j].held
ReportsInv == Chain(out.acked, toSender, in.received)

\* A chunk under way is a cell, or the head of one that is received.
Flying(runs, received) ==
  /\ runs \in Seq(Nat \X Nat)
  /\ \A k \in DOMAIN runs :
       \/ IsCell(runs[k])
       \/ IsHead(runs[k]) /\ Cell(runs[k][1]) \subseteq received
ChunksInv == Flying(chunks, in.received)

FileInv ==
  /\ FileTypeOK /\ DiskInv /\ FreshInv
  /\ Receiving => Books(out) /\ ReportsInv /\ ChunksInv

-----------------------------------------------------------------------------
(* The grid and its cells. *)

\* The length of a run is a number of chunks.
LEMMA LengthFacts ==
  ASSUME OneLength
  PROVE  Length \in Nat \ {0} /\ RunLengths = {Length} /\ NumChunks \in Nat \ {0}
<1>1. PICK n : RunLengths = {n}
  BY DEF OneLength
<1>2. Length = n
  BY <1>1 DEF Length
<1>3. n \in 1..NumChunks /\ NumChunks \in Nat \ {0}
  BY <1>1, FileAssumption
<1> QED BY <1>1, <1>2, <1>3

\* Division with a remainder.
LEMMA Quotient ==
  ASSUME NEW a \in Nat, NEW W \in Nat \ {0}
  PROVE  a = W * (a \div W) + (a % W) /\ a \div W \in Nat /\ a % W \in 0..(W - 1)
  OBVIOUS

\* Multiples of W are W apart.
LEMMA Multiples ==
  ASSUME NEW j \in Int, NEW k \in Int, NEW W \in Nat \ {0}, j < k
  PROVE  W * j + W <= W * k
  OBVIOUS

\* A quotient is no greater than what was divided.
LEMMA QuotientBound ==
  ASSUME NEW q \in Nat, NEW W \in Nat \ {0}
  PROVE  q <= W * q
  OBVIOUS

\* The cells are disjoint and cover the grid.
LEMMA Cells ==
  ASSUME OneLength
  PROVE  /\ \A f \in Offsets : f \in Cell(f) /\ Cell(f) \subseteq Chunks
         /\ \A c \in Chunks : \E f \in Offsets : c \in Cell(f)
         /\ \A f, g \in Offsets : \A c : c \in Cell(f) /\ c \in Cell(g) => f = g
<1> DEFINE W == Length
<1>1. W \in Nat \ {0} /\ NumChunks \in Nat \ {0}
  BY LengthFacts
<1> HIDE DEF W
<1>2. \A f \in Offsets : f \in Nat /\ f \in Chunks /\ \E k \in 0..NumChunks : f = W * k
  BY <1>1 DEF Offsets, Chunks, W
<1>3. \A f \in Offsets : f \in Cell(f) /\ Cell(f) \subseteq Chunks
  BY <1>1, <1>2 DEF Cell, W
<1>4. ASSUME NEW c \in Chunks
      PROVE  \E f \in Offsets : c \in Cell(f)
  <2> DEFINE q == c \div W
             r == c % W
             f == W * q
  <2>1. c \in Nat /\ c < NumChunks
    BY <1>1 DEF Chunks
  <2>2. c = f + r /\ q \in Nat /\ r \in 0..(W - 1)
    BY <1>1, <2>1, Quotient
  <2>3. q <= f /\ f \in Nat
    <3> HIDE DEF q
    <3>1. q <= W * q
      BY <1>1, <2>2, QuotientBound
    <3>2. W * q \in Nat
      BY <1>1, <2>2
    <3> QED BY <3>1, <3>2
  <2> HIDE DEF q, r
  <2>4. q \in 0..NumChunks /\ f \in Chunks
    <3> HIDE DEF f
    <3> QED BY <1>1, <2>1, <2>2, <2>3 DEF Chunks
  <2>5. f \in Offsets
    BY <2>4 DEF Offsets, W
  <2>6. c \in Cell(f)
    <3> HIDE DEF f
    <3> QED BY <1>1, <2>1, <2>2, <2>3 DEF Cell, W
  <2> QED BY <2>5, <2>6
<1>5. ASSUME NEW f \in Offsets, NEW g \in Offsets, NEW c, c \in Cell(f), c \in Cell(g)
      PROVE  f = g
  <2>1. PICK j \in 0..NumChunks : f = W * j
    BY <1>2
  <2>2. PICK k \in 0..NumChunks : g = W * k
    BY <1>2
  <2>3. c \in Nat /\ f <= c /\ c < f + W /\ g <= c /\ c < g + W
    BY <1>1, <1>5 DEF Cell, Chunks, W
  <2>4. ~(j < k)
    <3>1. j < k => W * j + W <= W * k
      BY <1>1, Multiples
    <3> QED BY <3>1, <2>1, <2>2, <2>3, <1>1, <1>2
  <2>5. ~(k < j)
    <3>1. k < j => W * k + W <= W * j
      BY <1>1, Multiples
    <3> QED BY <3>1, <2>1, <2>2, <2>3, <1>1, <1>2
  <2> QED BY <2>1, <2>2, <2>4, <2>5, <1>1
<1> QED BY <1>3, <1>4, <1>5

\* What an entry covers: its cell, or the first chunk of it.
LEMMA Entry ==
  ASSUME OneLength, NEW e, IsEntry(e)
  PROVE  /\ e[1] \in Offsets /\ e[1] \in RunOf(e) /\ RunOf(e) \subseteq Cell(e[1])
         /\ e \in Nat \X Nat
         /\ RunOf(e) = Cell(e[1]) \/ RunOf(e) = {e[1]}
         /\ IsHead(e) => RunOf(e) = {e[1]}
<1>1. ASSUME IsHead(e)
      PROVE  e[1] \in Offsets /\ RunOf(e) = {e[1]} /\ e \in Nat \X Nat
  <2>1. e[1] \in Offsets /\ e[1] \in Nat /\ e = <<e[1], 1>>
    BY <1>1, LengthFacts DEF IsHead, Offsets, Chunks
  <2>2. e[2] = 1
    BY <2>1
  <2>3. RunOf(e) = e[1]..e[1]
    BY <2>1, <2>2 DEF RunOf
  <2> QED BY <2>1, <2>3
<1>2. CASE IsCell(e)
  BY <1>1, <1>2, Cells DEF IsCell
<1>3. CASE IsHead(e)
  BY <1>1, <1>3, Cells
<1> QED BY <1>2, <1>3 DEF IsEntry

\* What a set of runs covers, chunk by chunk.
LEMMA Covered ==
  ASSUME NEW runs
  PROVE  \A c : c \in ChunksOf(runs) <=> \E r \in runs : c \in RunOf(r)
  BY DEF ChunksOf

\* Whole sets: they have the cell of each of their chunks, and may be joined.
LEMMA Wholes ==
  ASSUME OneLength
  PROVE  /\ Whole({}) /\ \A f \in Offsets : Whole(Cell(f))
         /\ \A S, T : Whole(S) /\ Whole(T) => Whole(S \cup T)
         /\ \A S : Whole(S) => \A f \in Offsets : \A c \in Cell(f) : c \in S => Cell(f) \subseteq S
<1>1. Whole({})
  BY DEF Whole
<1>2. ASSUME NEW f \in Offsets
      PROVE  Whole(Cell(f))
  <2>1. Cell(f) \subseteq Chunks
    BY Cells
  <2>2. ASSUME NEW g \in Offsets
        PROVE  Cell(g) \subseteq Cell(f) \/ Cell(g) \cap Cell(f) = {}
    BY Cells
  <2> QED BY <2>1, <2>2 DEF Whole
<1>3. ASSUME NEW S, NEW T, Whole(S), Whole(T)
      PROVE  Whole(S \cup T)
  BY <1>3 DEF Whole
<1>4. ASSUME NEW S, Whole(S), NEW f \in Offsets, NEW c \in Cell(f), c \in S
      PROVE  Cell(f) \subseteq S
  BY <1>4 DEF Whole
<1> QED BY <1>1, <1>2, <1>3, <1>4

-----------------------------------------------------------------------------
(* Numbers: the least and the greatest of a set. *)

\* A set of numbers has a least element.
LEMMA LeastElement ==
  ASSUME NEW T, T \subseteq Nat, T # {}
  PROVE  \E x \in T : \A y \in T : x <= y
<1> DEFINE R == OpToRel(<, Nat)
<1>1. IsWellFoundedOn(R, Nat)
  BY NatLessThanWellFounded
<1>2. \A x, y \in Nat : x < y => <<x, y>> \in R
  BY DEF OpToRel
<1> HIDE DEF R
<1>3. PICK x \in T : \A y \in T : ~(<<y, x>> \in R)
  BY <1>1, WFMin
<1>4. \A y \in T : x <= y
  <2> TAKE y \in T
  <2>1. x \in Nat /\ y \in Nat /\ ~(y < x)
    BY <1>2, <1>3
  <2> QED BY <2>1
<1> QED BY <1>4

\* Min picks it.
LEMMA Least ==
  ASSUME NEW T, T \subseteq Nat, T # {}
  PROVE  Min(T) \in T /\ \A y \in T : Min(T) <= y
BY LeastElement DEF Min

\* Max picks the greatest of a set of numbers that has a bound.
LEMMA Greatest ==
  ASSUME NEW n \in Nat, NEW T, T \subseteq 0..n, T # {}
  PROVE  Max(T) \in T /\ \A y \in T : y <= Max(T)
<1> DEFINE D == {d \in 0..n : n - d \in T}
<1>1. PICK t \in T : TRUE
  OBVIOUS
<1>2. n - t \in D
  <2>1. t \in 0..n /\ n - t \in 0..n /\ n - (n - t) = t
    OBVIOUS
  <2> QED BY <2>1, <1>1
<1>3. PICK d \in D : \A e \in D : d <= e
  <2>1. D \subseteq Nat /\ D # {}
    BY <1>2
  <2> HIDE DEF D
  <2> QED BY <2>1, LeastElement
<1>4. n - d \in T
  OBVIOUS
<1>5. ASSUME NEW y \in T
      PROVE  n - d >= y
  <2>1. n - y \in 0..n /\ n - (n - y) = y /\ y \in 0..n
    OBVIOUS
  <2>2. n - y \in D
    BY <2>1
  <2>3. d <= n - y
    BY <1>3, <2>2
  <2>4. d \in 0..n
    OBVIOUS
  <2> QED BY <2>1, <2>3, <2>4
<1>6. \E x \in T : \A y \in T : x >= y
  BY <1>4, <1>5
<1>7. Max(T) \in T /\ \A y \in T : Max(T) >= y
  BY <1>6 DEF Max
<1>8. ASSUME NEW y \in T
      PROVE  y <= Max(T)
  <2>1. y \in 0..n /\ Max(T) \in 0..n /\ Max(T) >= y
    BY <1>7
  <2> QED BY <2>1
<1> QED BY <1>7, <1>8

-----------------------------------------------------------------------------
(* The parts on disk. *)

\* What can be read back, chunk by chunk.
LEMMA Held ==
  ASSUME NEW parts
  PROVE  \A c : c \in HeldBy(parts) <=> \E o \in Chunks : c \in RunOf(<<o, parts[o]>>)
<1> DEFINE runs == {<<o, parts[o]>> : o \in Chunks}
<1>1. HeldBy(parts) = ChunksOf(runs)
  BY DEF HeldBy
<1>2. \A c : c \in ChunksOf(runs) <=> \E r \in runs : c \in RunOf(r)
  <2> HIDE DEF runs
  <2> QED BY Covered
<1> QED BY <1>1, <1>2

\* Nothing is read back from an offset without a part.
LEMMA NoPart ==
  ASSUME NEW o \in Chunks
  PROVE  RunOf(<<o, 0>>) = {}
<1>1. o \in Int
  BY DEF Chunks
<1> QED BY <1>1 DEF RunOf

\* Parts that hold cells at more offsets hold more.
LEMMA MoreParts ==
  ASSUME OneLength, NEW p, NEW q, PartsAreCells(p),
         \A o \in Chunks : p[o] # 0 => q[o] = p[o] \/ IsCell(<<o, q[o]>>)
  PROVE  HeldBy(p) \subseteq HeldBy(q)
<1> SUFFICES ASSUME NEW c \in HeldBy(p)
             PROVE  c \in HeldBy(q)
  OBVIOUS
<1>1. PICK o \in Chunks : c \in RunOf(<<o, p[o]>>)
  BY Held
<1>2. p[o] # 0
  BY <1>1, NoPart
<1>3. IsCell(<<o, p[o]>>)
  BY <1>2 DEF PartsAreCells
<1>4. CASE q[o] = p[o]
  BY <1>1, <1>4, Held
<1>5. CASE IsCell(<<o, q[o]>>)
  <2>1. RunOf(<<o, p[o]>>) = Cell(o) /\ RunOf(<<o, q[o]>>) = Cell(o)
    BY <1>3, <1>5 DEF IsCell
  <2> QED BY <1>1, <2>1, Held
<1> QED BY <1>2, <1>4, <1>5

\* Writing cells leaves cells, and nothing that could be read back is lost.
LEMMA WritesKeep ==
  ASSUME OneLength, disk \in [Chunks -> Nat], PartsAreCells(disk),
         NEW ws \in Seq(Nat \X Nat), \A k \in DOMAIN ws : IsCell(ws[k])
  PROVE  /\ Written(ws) \in [Chunks -> Nat] /\ PartsAreCells(Written(ws))
         /\ HeldBy(disk) \subseteq HeldBy(Written(ws))
<1> DEFINE at(c) == {k \in DOMAIN ws : ws[k][1] = c}
<1>1. ASSUME NEW c \in Chunks
      PROVE  /\ at(c) = {} => Written(ws)[c] = disk[c]
             /\ at(c) # {} => Written(ws)[c] = ws[Max(at(c))][2]
  BY <1>1 DEF Written
<1>2. ASSUME NEW c \in Chunks, at(c) # {}
      PROVE  Written(ws)[c] \in Nat /\ IsCell(<<c, Written(ws)[c]>>)
  <2> DEFINE m == Max(at(c))
  <2>1. DOMAIN ws = 1..Len(ws) /\ Len(ws) \in Nat
    OBVIOUS
  <2>2. m \in at(c)
    <3>1. at(c) \subseteq 0..Len(ws)
      BY <2>1
    <3> HIDE DEF at
    <3> QED BY <1>2, <2>1, <3>1, Greatest
  <2>3. Written(ws)[c] = ws[m][2]
    BY <1>1, <1>2
  <2> HIDE DEF m
  <2>4. m \in DOMAIN ws /\ ws[m][1] = c /\ IsCell(ws[m])
    BY <2>2
  <2>5. ws[m] \in Nat \X Nat /\ ws[m] = <<c, ws[m][2]>>
    BY <2>1, <2>4
  <2> QED BY <2>3, <2>4, <2>5
<1>3. Written(ws) \in [Chunks -> Nat]
  <2>1. \A c \in Chunks : Written(ws)[c] \in Nat
    BY <1>1, <1>2
  <2>2. Written(ws) = [c \in Chunks |-> Written(ws)[c]]
    BY DEF Written
  <2> QED BY <2>1, <2>2
<1>4. PartsAreCells(Written(ws))
  BY <1>1, <1>2 DEF PartsAreCells
<1>5. HeldBy(disk) \subseteq HeldBy(Written(ws))
  <2>1. \A o \in Chunks : disk[o] # 0 => Written(ws)[o] = disk[o] \/ IsCell(<<o, Written(ws)[o]>>)
    BY <1>1, <1>2
  <2> QED BY <2>1, MoreParts
<1> QED BY <1>3, <1>4, <1>5

\* A cell that was written can be read back.
LEMMA WriteIsHeld ==
  ASSUME OneLength, NEW run, IsCell(run)
  PROVE  RunOf(run) \subseteq HeldBy(Written(<<run>>))
<1> DEFINE o == run[1]
           at == {k \in DOMAIN <<run>> : <<run>>[k][1] = o}
<1>1. o \in Chunks /\ run = <<o, run[2]>>
  BY DEF IsCell, Offsets
<1>2. at = {1}
  OBVIOUS
<1>3. Max({1}) = 1
  BY DEF Max
<1>4. Written(<<run>>)[o] = run[2]
  BY <1>1, <1>2, <1>3 DEF Written
<1> HIDE DEF o
<1> QED BY <1>1, <1>4, Held

-----------------------------------------------------------------------------
(* The sender's books. *)

\* An entry that covers a chunk of a cell is the entry of that cell.
LEMMA OwnEntry ==
  ASSUME OneLength, NEW e, IsEntry(e), NEW f \in Offsets, NEW c \in Cell(f), c \in RunOf(e)
  PROVE  e[1] = f
<1>1. e[1] \in Offsets /\ c \in Cell(e[1])
  BY Entry
<1> QED BY <1>1, Cells

\* A chunk that is sent and not acknowledged is covered by the only entry of its cell; if
\* that is a head, it covers the first chunk only.
LEMMA CoveredOnce ==
  ASSUME OneLength, NEW o, BooksOpen(o), NEW f \in Offsets, NEW c \in Cell(f),
         c \in o.sent, c \notin o.acked
  PROVE  \E e \in o.inFlight : e[1] = f /\ c \in RunOf(e) /\ \A x \in o.inFlight : x[1] = f => x = e
<1>1. PICK e \in o.inFlight : c \in RunOf(e)
  BY DEF BooksOpen
<1>2. IsEntry(e)
  BY DEF BooksOpen
<1>3. e[1] = f
  BY <1>1, <1>2, OwnEntry
<1>4. \A x \in o.inFlight : x[1] = f => x = e
  BY <1>3 DEF BooksOpen
<1> QED BY <1>1, <1>3, <1>4

\* Books that differ in nothing but the state and the attempts.
LEMMA SameBooks ==
  ASSUME NEW o, NEW p, DOMAIN p = OutFields, p.acked = o.acked, p.sent = o.sent,
         p.inFlight = o.inFlight, p.reading = o.reading
  PROVE  /\ BooksOpen(o) => BooksOpen(p)
         /\ Books(o) => Books(p)
BY DEF BooksOpen, Books, CellBooks

\* reopen(): a cell is opened as a whole, or its head alone.
LEMMA BooksReopened ==
  ASSUME OneLength, NEW o, NEW p, NEW entries, BooksOpen(o), entries \subseteq o.inFlight,
         \A e \in o.inFlight \ entries : RunOf(e) \subseteq o.acked \cup o.sent,
         DOMAIN p = OutFields, p.acked = o.acked,
         p.sent = o.sent \ (ChunksOf(entries) \ o.acked),
         p.inFlight = o.inFlight \ entries, p.reading = o.reading
  PROVE  Books(p)
<1> DEFINE open(c) == \E r \in entries : c \in RunOf(r)
<1>1. \A c : c \in p.sent <=> c \in o.sent /\ (c \in o.acked \/ ~open(c))
  BY Covered
<1>2. \A e \in o.inFlight : IsEntry(e)
  BY DEF BooksOpen
<1>3. ASSUME NEW f \in Offsets
      PROVE  CellBooks(p, f)
  <2> DEFINE C == Cell(f)
             X == o.acked \cup o.sent
             Y == p.acked \cup p.sent
  <2>1. /\ \/ C \cap o.acked = {}
           \/ C \subseteq o.acked
           \/ C \cap o.acked = C \ {f}
        /\ \/ C \cap X = {}
           \/ C \subseteq X
           \/ C \cap X = C \ {f} /\ C \cap o.acked = C \ {f}
    BY DEF BooksOpen, CellBooks
  <2>2. \A c : c \in Y <=> c \in o.acked \/ (c \in o.sent /\ ~open(c))
    BY <1>1
  <2>3. \/ C \cap Y = {}
        \/ C \subseteq Y
        \/ C \cap Y = C \ {f} /\ C \cap o.acked = C \ {f}
    <3>1. CASE \A e \in entries : e[1] # f
      <4>1. \A c \in C : ~open(c)
        BY <3>1, <1>2, OwnEntry
      <4>2. C \cap Y = C \cap X
        BY <4>1, <2>2
      <4> QED BY <4>2, <2>1
    <3>2. ASSUME NEW e \in entries, e[1] = f, IsCell(e)
          PROVE  C \cap Y = C \cap o.acked
      <4>1. \A c \in C : open(c)
        BY <3>2 DEF IsCell
      <4> QED BY <4>1, <2>2
    <3>3. ASSUME NEW e \in entries, e[1] = f, IsHead(e), ~(C \subseteq {f})
          PROVE  \/ C \cap Y = {}
                 \/ C \subseteq Y
                 \/ C \cap Y = C \ {f} /\ C \cap o.acked = C \ {f}
      <4>1. RunOf(e) = {f} /\ e \in o.inFlight
        BY <3>3, Entry DEF IsEntry
      <4>2. \A c \in C : open(c) <=> c = f
        <5>1. ASSUME NEW c \in C, NEW r \in entries, c \in RunOf(r)
              PROVE  c = f
          <6>1. r[1] = f /\ r \in o.inFlight
            BY <5>1, <1>2, OwnEntry
          <6>2. r = e
            BY <6>1, <4>1, <3>3 DEF BooksOpen
          <6> QED BY <6>2, <4>1, <5>1
        <5> QED BY <5>1, <4>1
      <4>3. PICK d \in C : d # f
        BY <3>3
      <4>4. C \subseteq X => ~(C \cap o.acked = {})
        <5> SUFFICES ASSUME C \subseteq X, C \cap o.acked = {}
                     PROVE  FALSE
          OBVIOUS
        <5>1. d \in o.sent /\ d \notin o.acked
          OBVIOUS
        <5>2. PICK x \in o.inFlight : x[1] = f /\ d \in RunOf(x)
          BY <5>1, CoveredOnce
        <5>3. x = e
          BY <5>2, <4>1, <3>3 DEF BooksOpen
        <5> QED BY <5>2, <5>3, <4>1, <4>3
      <4>5. CASE C \cap X = {}
        BY <4>5, <2>2
      <4>6. CASE C \subseteq o.acked
        BY <4>6, <2>2
      <4>7. CASE C \cap o.acked = C \ {f} /\ (C \subseteq X \/ C \cap X = C \ {f})
        BY <4>7, <4>2, <2>2
      <4> QED BY <4>4, <4>5, <4>6, <4>7, <2>1
    <3>4. ASSUME NEW e \in entries, e[1] = f, IsHead(e), C \subseteq {f}
          PROVE  C \cap Y = {} \/ C \subseteq Y
      BY <3>4
    <3> HIDE DEF C, X, Y, open
    <3>5. ASSUME NEW e \in entries, e[1] = f
          PROVE  IsCell(e) \/ IsHead(e)
      BY <1>2 DEF IsEntry
    <3> QED BY <3>1, <3>2, <3>3, <3>4, <3>5, <2>1
  <2> QED BY <2>1, <2>3 DEF CellBooks
<1>4. \A c \in p.sent \ p.acked : \E e \in p.inFlight : c \in RunOf(e)
  BY <1>1 DEF BooksOpen
<1>5. ASSUME NEW e \in p.inFlight, NEW c \in RunOf(e)
      PROVE  c \in p.acked \cup p.sent
  <2>1. e \in o.inFlight /\ e \notin entries /\ c \in o.acked \cup o.sent
    OBVIOUS
  <2>2. ASSUME NEW r \in entries, c \in RunOf(r)
        PROVE  FALSE
    <3>1. e[1] \in Offsets /\ c \in Cell(e[1])
      BY <1>2, <2>1, Entry
    <3>2. r[1] = e[1]
      BY <3>1, <1>2, <2>2, OwnEntry
    <3> QED BY <3>2, <2>1, <2>2 DEF BooksOpen
  <2> QED BY <2>1, <2>2, <1>1
<1>6. /\ p.acked \subseteq Chunks /\ p.sent \subseteq Chunks
      /\ \A e \in p.inFlight : IsEntry(e)
      /\ \A e, f \in p.inFlight : e[1] = f[1] => e = f
      /\ p.reading # <<>> =>
           /\ \/ IsCell(p.reading)
              \/ IsHead(p.reading) /\ Cell(p.reading[1]) \ {p.reading[1]} \subseteq p.acked
           /\ \A e \in p.inFlight : e[1] # p.reading[1]
  BY DEF BooksOpen
<1>7. BooksOpen(p)
  BY <1>3, <1>4, <1>6 DEF BooksOpen
<1> QED BY <1>5, <1>7 DEF Books

\* retireInFlight(): from open books to closed ones.
LEMMA BooksRetired ==
  ASSUME OneLength, NEW o, BooksOpen(o)
  PROVE  Books(Retired(o)) /\ Retired(o).acked = o.acked
<1> DEFINE complete == {e \in o.inFlight : RunOf(e) \subseteq o.acked}
           broken   == {e \in o.inFlight : ~(RunOf(e) \subseteq o.acked \cup o.sent)}
           fresh    == [c \in Chunks |-> IF \E e \in complete : e[1] = c THEN 0 ELSE o.attempts[c]]
           q == [o EXCEPT !.inFlight = @ \ complete, !.attempts = fresh]
           p == Reopened(q, broken)
<1>1. Retired(o) = p
  BY DEF Retired
<1>2. DOMAIN o = OutFields
  BY DEF BooksOpen
<1> HIDE DEF fresh
<1>3. /\ DOMAIN q = OutFields /\ q.acked = o.acked /\ q.sent = o.sent /\ q.reading = o.reading
      /\ q.inFlight = o.inFlight \ complete
  BY <1>2 DEF OutFields
<1>4. BooksOpen(q)
  <2> HIDE DEF q
  <2>1. \A f \in Offsets : CellBooks(q, f)
    BY <1>3 DEF BooksOpen, CellBooks
  <2>2. \A c \in q.sent \ q.acked : \E e \in q.inFlight : c \in RunOf(e)
    <3> SUFFICES ASSUME NEW c \in o.sent, c \notin o.acked
                 PROVE  \E e \in o.inFlight \ complete : c \in RunOf(e)
      BY <1>3
    <3>1. PICK e \in o.inFlight : c \in RunOf(e)
      BY DEF BooksOpen
    <3>2. e \notin complete
      BY <3>1
    <3> QED BY <3>1, <3>2
  <2> QED BY <1>3, <2>1, <2>2 DEF BooksOpen
<1>5. /\ DOMAIN p = OutFields /\ p.acked = q.acked /\ p.reading = q.reading
      /\ p.sent = q.sent \ (ChunksOf(broken) \ q.acked) /\ p.inFlight = q.inFlight \ broken
  <2> HIDE DEF q, broken
  <2> QED BY <1>3 DEF Reopened, OutFields
<1> HIDE DEF q, p
<1>6. broken \subseteq q.inFlight
  BY <1>3
<1>7. \A e \in q.inFlight \ broken : RunOf(e) \subseteq q.acked \cup q.sent
  BY <1>3
<1> HIDE DEF broken, complete
<1>8. Books(p)
  BY <1>4, <1>5, <1>6, <1>7, BooksReopened
<1> QED BY <1>1, <1>3, <1>5, <1>8

\* handleAck(), before the books are mended: a refused cell is open, or its head is.
LEMMA BooksAcknowledged ==
  ASSUME OneLength, NEW o, NEW p, NEW held, NEW missing, Books(o), Whole(held), o.acked \subseteq held,
         missing \subseteq Offsets, DOMAIN p = OutFields,
         NEW refused, \A e : e \in refused <=> e \in o.inFlight /\ e[1] \in missing,
         NEW open, \A c : c \in open <=> c \in missing \/ \E r \in refused : c \in RunOf(r),
         p.acked = (o.acked \cup held) \ open, p.sent = o.sent \ open,
         p.inFlight = o.inFlight \ refused, p.reading = o.reading
  PROVE  BooksOpen(p) /\ p.acked \subseteq held
<1>1. \A c : c \in open <=> c \in missing \/ \E r \in refused : c \in RunOf(r)
  OBVIOUS
<1>2. BooksOpen(o) /\ \A e \in o.inFlight : IsEntry(e)
  BY DEF Books, BooksOpen
<1>3. p.acked = held \ open
  OBVIOUS
<1>4. ASSUME NEW f \in Offsets
      PROVE  \/ Cell(f) \cap open = {}
             \/ Cell(f) \cap open = {f} /\ f \in missing
             \/ Cell(f) \subseteq open /\ f \in missing
  <2>1. ASSUME NEW c \in Cell(f), c \in open, c # f
        PROVE  \E e \in refused : e[1] = f /\ IsCell(e)
    <3>1. c \notin missing
      <4>1. c \in missing => c \in Cell(c) /\ c \in Offsets
        BY Cells
      <4> QED BY <4>1, <2>1, Cells
    <3>2. PICK e \in refused : c \in RunOf(e)
      BY <3>1, <2>1, <1>1
    <3>3. e[1] = f /\ IsEntry(e)
      BY <3>2, <1>2, OwnEntry
    <3>4. ~IsHead(e)
      BY <3>2, <3>3, <2>1, Entry
    <3> QED BY <3>2, <3>3, <3>4 DEF IsEntry
  <2>2. ASSUME NEW e \in refused, e[1] = f, IsCell(e)
        PROVE  Cell(f) \subseteq open /\ f \in missing
    BY <1>1, <2>2 DEF IsCell
  <2>3. f \in open => f \in missing
    <3>1. ASSUME NEW e \in refused, f \in RunOf(e)
          PROVE  f \in missing
      <4>1. f \in Cell(f)
        BY Cells
      <4>2. e[1] = f
        BY <3>1, <4>1, <1>2, OwnEntry
      <4> QED BY <4>2
    <3> QED BY <3>1, <1>1
  <2>4. f \in Cell(f)
    BY Cells
  <2> QED BY <2>1, <2>2, <2>3, <2>4
<1>5. ASSUME NEW f \in Offsets
      PROVE  CellBooks(p, f)
  <2> DEFINE C == Cell(f)
             X == o.acked \cup o.sent
             Y == p.acked \cup p.sent
  <2>1. C \cap held = {} \/ C \subseteq held
    BY DEF Whole
  <2>2. f \in C
    BY Cells
  <2>3. CASE C \subseteq held
    <3>1. C \cap p.acked = C \ open /\ C \cap Y = C \ open
      BY <2>3, <1>3
    <3>2. \/ C \cap open = {} \/ C \cap open = {f} \/ C \subseteq open
      BY <1>4
    <3>3. CASE C \cap open = {}
      BY <3>1, <3>3 DEF CellBooks
    <3>4. CASE C \cap open = {f}
      <4>1. C \ open = C \ {f}
        BY <3>4
      <4> QED BY <3>1, <4>1 DEF CellBooks
    <3>5. CASE C \subseteq open
      BY <3>1, <3>5 DEF CellBooks
    <3> QED BY <3>2, <3>3, <3>4, <3>5
  <2>4. CASE C \cap held = {}
    <3>1. C \cap p.acked = {} /\ C \cap o.acked = {} /\ C \cap Y = (C \cap o.sent) \ open
      BY <2>4, <1>3
    <3>2. C \cap o.sent = {} \/ C \subseteq o.sent
      <4>1. \/ C \cap X = {}
            \/ C \subseteq X
            \/ C \cap X = C \ {f} /\ C \cap o.acked = C \ {f}
        BY <1>2 DEF BooksOpen, CellBooks
      <4> QED BY <4>1, <3>1
    <3>3. CASE C \cap o.sent = {}
      BY <3>1, <3>3 DEF CellBooks
    <3>4. CASE C \subseteq o.sent /\ C \cap open = {}
      BY <3>1, <3>4 DEF CellBooks
    <3>5. CASE C \subseteq o.sent /\ C \subseteq open
      BY <3>1, <3>5 DEF CellBooks
    <3>6. ASSUME C \subseteq o.sent, f \in missing
          PROVE  C \subseteq open
      <4>1. PICK e \in o.inFlight : e[1] = f /\ f \in RunOf(e) /\ \A x \in o.inFlight : x[1] = f => x = e
        <5>1. f \in o.sent /\ f \notin o.acked
          BY <3>6, <2>2, <3>1
        <5> QED BY <5>1, <2>2, <1>2, CoveredOnce
      <4>2. e \in refused
        BY <3>6, <4>1
      <4>3. ASSUME NEW c \in C
            PROVE  c \in open
        <5>1. c \in o.sent /\ c \notin o.acked
          BY <3>6, <3>1
        <5>2. PICK x \in o.inFlight : x[1] = f /\ c \in RunOf(x)
          BY <5>1, <1>2, CoveredOnce
        <5>3. x = e
          BY <5>2, <4>1
        <5> QED BY <5>2, <5>3, <4>2, <1>1
      <4> QED BY <4>3
    <3> QED BY <1>4, <3>2, <3>3, <3>4, <3>5, <3>6
  <2> QED BY <2>1, <2>3, <2>4
<1>6. ASSUME NEW c \in p.sent \ p.acked
      PROVE  \E e \in p.inFlight : c \in RunOf(e)
  <2>1. c \in o.sent /\ c \notin o.acked /\ c \notin open
    OBVIOUS
  <2>2. PICK e \in o.inFlight : c \in RunOf(e)
    BY <2>1, <1>2 DEF BooksOpen
  <2> QED BY <2>1, <2>2, <1>1
<1>7. p.reading # <<>> =>
        /\ \/ IsCell(p.reading)
           \/ IsHead(p.reading) /\ Cell(p.reading[1]) \ {p.reading[1]} \subseteq p.acked
        /\ \A e \in p.inFlight : e[1] # p.reading[1]
  <2> SUFFICES ASSUME o.reading # <<>>
               PROVE  /\ \/ IsCell(o.reading)
                         \/ IsHead(o.reading) /\ Cell(o.reading[1]) \ {o.reading[1]} \subseteq p.acked
                      /\ \A e \in p.inFlight : e[1] # o.reading[1]
    OBVIOUS
  <2>1. /\ IsCell(o.reading) \/ (IsHead(o.reading) /\ Cell(o.reading[1]) \ {o.reading[1]} \subseteq o.acked)
        /\ \A e \in o.inFlight : e[1] # o.reading[1]
    BY <1>2 DEF BooksOpen
  <2>2. ASSUME IsHead(o.reading), NEW c \in Cell(o.reading[1]), c # o.reading[1], c \in open
        PROVE  FALSE
    <3> DEFINE f == o.reading[1]
    <3>1. f \in Offsets
      BY <2>2 DEF IsHead
    <3>2. c \notin missing
      <4>1. c \in missing => c \in Cell(c) /\ c \in Offsets
        BY Cells
      <4> QED BY <4>1, <3>1, <2>2, Cells
    <3>3. PICK e \in refused : c \in RunOf(e)
      BY <3>2, <2>2, <1>1
    <3>4. e[1] = f
      BY <3>1, <3>3, <1>2, <2>2, OwnEntry
    <3> QED BY <3>4, <2>1
  <2> QED BY <2>1, <2>2, <1>3
<1>8. /\ p.acked \subseteq Chunks /\ p.sent \subseteq Chunks
      /\ \A e \in p.inFlight : IsEntry(e)
      /\ \A e, f \in p.inFlight : e[1] = f[1] => e = f
  BY <1>2, <1>3 DEF BooksOpen, Whole
<1> QED BY <1>3, <1>5, <1>6, <1>7, <1>8 DEF BooksOpen

\* handleResume(): the books of a whole set, with nothing in flight.
LEMMA BooksResumed ==
  ASSUME OneLength, NEW o, NEW p, NEW held, BooksOpen(o), Whole(held), o.acked \subseteq held,
         DOMAIN p = OutFields, p.acked = held, p.sent = held, p.inFlight = {}, p.reading = o.reading
  PROVE  Books(p)
<1>1. \A f \in Offsets : CellBooks(p, f)
  BY DEF Whole, CellBooks
<1>2. p.reading # <<>> =>
        /\ \/ IsCell(p.reading)
           \/ IsHead(p.reading) /\ Cell(p.reading[1]) \ {p.reading[1]} \subseteq p.acked
        /\ \A e \in p.inFlight : e[1] # p.reading[1]
  BY DEF BooksOpen
<1>3. p.acked \subseteq Chunks /\ p.sent \subseteq Chunks
  BY DEF Whole
<1> QED BY <1>1, <1>2, <1>3 DEF Books, BooksOpen

\* repairStrandedChunks()
LEMMA BooksRepaired ==
  ASSUME OneLength, NEW o, Books(o)
  PROVE  Books(Repaired(o)) /\ Repaired(o).acked = o.acked
<1>1. CASE o.inFlight # {}
  BY <1>1 DEF Repaired
<1>2. CASE o.inFlight = {}
  <2> DEFINE p == [o EXCEPT !.sent = @ \cap o.acked]
  <2>1. DOMAIN o = OutFields /\ Repaired(o) = p
    BY <1>2 DEF Books, BooksOpen, Repaired
  <2>2. /\ DOMAIN p = OutFields /\ p.acked = o.acked /\ p.sent = o.sent \cap o.acked
        /\ p.inFlight = {} /\ p.reading = o.reading
    BY <2>1, <1>2 DEF OutFields
  <2> HIDE DEF p
  <2>3. \A f \in Offsets : CellBooks(p, f)
    BY <2>2 DEF Books, BooksOpen, CellBooks
  <2>4. Books(p)
    BY <2>2, <2>3, <1>2 DEF Books, BooksOpen
  <2> QED BY <2>1, <2>2, <2>4
<1> QED BY <1>1, <1>2

\* pump(), once the run is read: it is sent and in flight.
LEMMA BooksRead ==
  ASSUME OneLength, NEW o, NEW p, Books(o), o.reading # <<>>, DOMAIN p = OutFields,
         p.acked = o.acked, p.sent = o.sent \cup RunOf(o.reading),
         p.inFlight = {e \in o.inFlight : e[1] # o.reading[1]} \cup {o.reading}, p.reading = <<>>
  PROVE  Books(p)
<1> DEFINE run == o.reading
           f   == run[1]
<1>1. /\ IsCell(run) \/ (IsHead(run) /\ Cell(f) \ {f} \subseteq o.acked)
      /\ \A e \in o.inFlight : e[1] # f
  BY DEF Books, BooksOpen
<1>2. IsEntry(run) /\ f \in Offsets /\ RunOf(run) \subseteq Cell(f) /\ f \in RunOf(run)
  BY <1>1, Entry DEF IsEntry
<1>3. p.inFlight = o.inFlight \cup {run}
  BY <1>1
<1>4. Cell(f) \subseteq p.acked \cup p.sent
  <2>1. CASE IsCell(run)
    BY <2>1 DEF IsCell
  <2>2. CASE Cell(f) \ {f} \subseteq o.acked
    BY <2>2, <1>2
  <2> QED BY <1>1, <2>1, <2>2
<1>5. ASSUME NEW g \in Offsets
      PROVE  CellBooks(p, g)
  <2>1. CellBooks(o, g)
    BY DEF Books, BooksOpen
  <2>2. CASE g = f
    BY <2>1, <2>2, <1>4 DEF CellBooks
  <2>3. CASE g # f
    <3>1. Cell(g) \cap RunOf(run) = {}
      BY <2>3, <1>2, Cells
    <3>2. Cell(g) \cap (p.acked \cup p.sent) = Cell(g) \cap (o.acked \cup o.sent)
      BY <3>1
    <3>3. Cell(g) \subseteq p.acked \cup p.sent <=> Cell(g) \subseteq o.acked \cup o.sent
      BY <3>1
    <3> HIDE DEF run
    <3> QED BY <2>1, <3>2, <3>3 DEF CellBooks
  <2> QED BY <2>2, <2>3
<1>6. p.acked \subseteq Chunks /\ p.sent \subseteq Chunks
  BY <1>2, Cells DEF Books, BooksOpen
<1>7. /\ \A e \in p.inFlight : IsEntry(e)
      /\ \A e, g \in p.inFlight : e[1] = g[1] => e = g
      /\ \A c \in p.sent \ p.acked : \E e \in p.inFlight : c \in RunOf(e)
  BY <1>1, <1>2, <1>3 DEF Books, BooksOpen
<1>8. \A e \in p.inFlight : RunOf(e) \subseteq p.acked \cup p.sent
  BY <1>3 DEF Books
<1> QED BY <1>5, <1>6, <1>7, <1>8 DEF Books, BooksOpen

\* The longest run from the first chunk that may be sent is the cell of it, or the first
\* chunk of a cell of which the rest was acknowledged.
LEMMA NextRun ==
  ASSUME OneLength, NEW o, Books(o), Sendable(o) # {},
         NEW first, first = Min(Sendable(o)),
         NEW longest, longest = Max({n \in 1..Length : RunOf(<<first, n>>) \subseteq Sendable(o)})
  PROVE  /\ \/ IsCell(<<first, longest>>)
            \/ IsHead(<<first, longest>>) /\ Cell(first) \ {first} \subseteq o.acked
         /\ \A e \in o.inFlight : e[1] # first
<1> DEFINE S == Sendable(o)
           fits == {n \in 1..Length : RunOf(<<first, n>>) \subseteq S}
           X == o.acked \cup o.sent
<1>1. Length \in Nat \ {0} /\ NumChunks \in Nat \ {0}
  BY LengthFacts
<1>2. S \subseteq Chunks /\ S \subseteq Nat /\ \A c \in Chunks : c \in S <=> c \notin X
  BY DEF Sendable, Chunks
<1>3. first \in S /\ first \in Nat /\ first < NumChunks /\ \A c \in S : first <= c
  <2>1. first \in S /\ \A c \in S : first <= c
    BY <1>2, Least
  <2> QED BY <2>1, <1>2, <1>1 DEF Chunks
<1> HIDE DEF S
<1>4. PICK f \in Offsets : first \in Cell(f)
  BY <1>2, <1>3, Cells
<1>5. f \in Cell(f) /\ Cell(f) \subseteq Chunks /\ f \in Nat
  BY <1>4, Cells, <1>1 DEF Chunks
<1>6. first \notin X
  BY <1>2, <1>3
<1>7. \A c \in Cell(f) : f <= c
  BY DEF Cell
<1>8. /\ f = first
      /\ Cell(f) \cap X = {} \/ (Cell(f) \ {f} \subseteq o.acked /\ Cell(f) \cap X = Cell(f) \ {f})
  <2>1. CellBooks(o, f)
    BY DEF Books, BooksOpen
  <2>2. CASE Cell(f) \cap X = {}
    <3>1. f \in S
      BY <2>2, <1>2, <1>5
    <3>2. first <= f /\ f <= first
      BY <3>1, <1>3, <1>4, <1>7
    <3> QED BY <3>2, <2>2, <1>3, <1>5
  <2>3. CASE Cell(f) \subseteq X
    BY <2>3, <1>4, <1>6
  <2>4. CASE Cell(f) \cap X = Cell(f) \ {f} /\ Cell(f) \cap o.acked = Cell(f) \ {f}
    BY <2>4, <1>4, <1>6
  <2> QED BY <2>1, <2>2, <2>3, <2>4 DEF CellBooks
<1>9. \A n \in Nat : RunOf(<<first, n>>) = first..(first + n - 1)
  BY DEF RunOf
<1>10. 1 \in fits
  <2>1. RunOf(<<first, 1>>) = {first}
    BY <1>3, <1>9
  <2> QED BY <2>1, <1>1, <1>3
<1>11. longest \in fits /\ \A n \in fits : n <= longest
  <2>1. fits \subseteq 0..Length
    OBVIOUS
  <2>2. longest = Max(fits)
    BY DEF S
  <2> HIDE DEF fits
  <2> QED BY <2>1, <2>2, <1>1, <1>10, Greatest
<1>12. /\ longest \in 1..Length /\ longest \in Nat
       /\ RunOf(<<first, longest>>) \subseteq S
       /\ RunOf(<<first, longest>>) = first..(first + longest - 1)
  <2>1. longest \in 1..Length /\ RunOf(<<first, longest>>) \subseteq S
    BY <1>11
  <2>2. longest \in Nat
    BY <2>1, <1>1
  <2> QED BY <2>1, <2>2, <1>9
<1>13. ASSUME Cell(f) \cap X = {}
       PROVE  IsCell(<<first, longest>>)
  <2>1. Cell(f) \subseteq S
    BY <1>13, <1>2, <1>5
  <2>2. RunOf(<<first, longest>>) \subseteq Cell(f)
    <3> SUFFICES ASSUME NEW c \in first..(first + longest - 1)
                 PROVE  c \in Cell(f)
      BY <1>12
    <3>1. c \in S
      BY <1>12
    <3>2. c \in Chunks /\ f <= c /\ c < f + Length
      BY <3>1, <1>2, <1>1, <1>3, <1>8, <1>12
    <3> QED BY <3>2 DEF Cell
  <2>3. ASSUME NEW c \in Cell(f)
        PROVE  c \in RunOf(<<first, longest>>)
    <3> DEFINE n == c - first + 1
    <3>1. c \in Nat /\ first <= c /\ c < first + Length /\ c < NumChunks
      BY <1>1, <1>3, <1>8 DEF Cell, Chunks
    <3>2. n \in 1..Length /\ n \in Nat /\ first + n - 1 = c
      BY <3>1, <1>1, <1>3
    <3>3. ASSUME NEW d \in first..c
          PROVE  d \in S
      <4>1. d \in Cell(f)
        BY <3>1, <1>1, <1>3, <1>8 DEF Cell, Chunks
      <4> QED BY <4>1, <2>1
    <3>4. n \in fits
      <4>1. RunOf(<<first, n>>) = first..c
        BY <3>2, <1>9
      <4> QED BY <3>2, <3>3, <4>1
    <3>5. n <= longest
      BY <3>4, <1>11
    <3> QED BY <3>1, <3>5, <1>3, <1>9, <1>12
  <2>4. IsCell(<<first, longest>>)
    <3>1. RunOf(<<first, longest>>) = Cell(f)
      BY <2>2, <2>3
    <3>2. <<first, longest>>[1] = first /\ <<first, longest>> \in Nat \X Nat
      BY <1>3, <1>12
    <3> QED BY <3>1, <3>2, <1>4, <1>8 DEF IsCell
  <2> QED BY <2>4
<1>14. ASSUME Cell(f) \ {f} \subseteq o.acked, ~(Cell(f) \cap X = {})
       PROVE  IsHead(<<first, longest>>) /\ Cell(first) \ {first} \subseteq o.acked
  <2>1. Cell(f) \cap X = Cell(f) \ {f}
    BY <1>8, <1>14
  <2>2. PICK c \in Cell(f) : c # f /\ c \in X
    BY <1>14, <2>1
  <2>3. c \in Nat /\ f < c /\ c < f + Length /\ c < NumChunks
    BY <2>2, <1>1, <1>5 DEF Cell, Chunks
  <2>4. f + 1 \in Cell(f)
    BY <2>3, <1>1, <1>5 DEF Cell, Chunks
  <2>5. f + 1 \notin S
    <3>1. f + 1 # f
      BY <1>5
    <3> QED BY <3>1, <2>1, <2>4, <1>2, <1>5
  <2>6. longest = 1
    <3>1. longest # 1 => f + 1 \in first..(first + longest - 1)
      <4>1. longest \in Int /\ 1 <= longest
        BY <1>1, <1>12
      <4> QED BY <4>1, <1>3, <1>5, <1>8
    <3> QED BY <3>1, <2>5, <1>12
  <2> QED BY <2>6, <1>8, <1>14 DEF IsHead
<1>15. \A e \in o.inFlight : e[1] # first
  <2> SUFFICES ASSUME NEW e \in o.inFlight, e[1] = first
               PROVE  FALSE
    OBVIOUS
  <2>1. first \in RunOf(e)
    BY Entry DEF Books, BooksOpen
  <2> QED BY <2>1, <1>6 DEF Books
<1> QED BY <1>8, <1>13, <1>14, <1>15

\* pump(), up to the read.
LEMMA BooksPumped ==
  ASSUME OneLength, NEW o, Books(o)
  PROVE  Books(PumpedOn(o, Length)) /\ PumpedOn(o, Length).acked = o.acked
<1> DEFINE first == Min(Sendable(o))
           longest == Max({n \in 1..Length : RunOf(<<first, n>>) \subseteq Sendable(o)})
           p == [o EXCEPT !.reading = <<first, longest>>]
           pumps == o.state = "TRANSFERRING" /\ o.reading = <<>> /\ Cardinality(o.inFlight) < Window
                      /\ Sendable(o) # {}
<1>1. PumpedOn(o, Length) = IF pumps THEN p ELSE o
  BY DEF PumpedOn
<1>2. CASE ~pumps
  BY <1>1, <1>2
<1>3. CASE pumps
  <2>1. /\ \/ IsCell(<<first, longest>>)
           \/ IsHead(<<first, longest>>) /\ Cell(first) \ {first} \subseteq o.acked
        /\ \A e \in o.inFlight : e[1] # first
    BY <1>3, NextRun
  <2>2. DOMAIN o = OutFields /\ PumpedOn(o, Length) = p
    BY <1>1, <1>3 DEF Books, BooksOpen
  <2> HIDE DEF first, longest
  <2>3. /\ DOMAIN p = OutFields /\ p.acked = o.acked /\ p.sent = o.sent /\ p.inFlight = o.inFlight
        /\ p.reading = <<first, longest>>
    BY <2>2 DEF OutFields
  <2>4. p.reading[1] = first
    BY <2>3
  <2> HIDE DEF p
  <2>5. Books(p)
    <3>1. \A f \in Offsets : CellBooks(p, f)
      BY <2>3 DEF Books, BooksOpen, CellBooks
    <3>2. p.reading # <<>> =>
            /\ \/ IsCell(p.reading)
               \/ IsHead(p.reading) /\ Cell(p.reading[1]) \ {p.reading[1]} \subseteq p.acked
            /\ \A e \in p.inFlight : e[1] # p.reading[1]
      BY <2>1, <2>3, <2>4
    <3> QED BY <2>3, <3>1, <3>2 DEF Books, BooksOpen
  <2> QED BY <2>2, <2>3, <2>5
<1> QED BY <1>2, <1>3

-----------------------------------------------------------------------------
(* The channels. *)

\* A message for the sender, as its type says.
LEMMA Messages ==
  ASSUME NEW m \in SenderMessages
  PROVE  /\ m.type \in {"ACCEPT", "DECLINE", "COMPLETE", "CANCEL", "ERROR", "RESUME", "ACK"}
         /\ m.type \in {"RESUME", "ACK"} => m.held \subseteq Chunks
         /\ m.type = "ACK" => m.missing \subseteq Offsets
<1>1. CASE m \in [type : {"ACCEPT", "DECLINE", "COMPLETE", "CANCEL", "ERROR"}]
  BY <1>1
<1>2. CASE m \in [type : {"RESUME"}, held : SUBSET Chunks]
  BY <1>2
<1>3. CASE m \in [type : {"ACK"}, held : SUBSET Chunks, missing : SUBSET Offsets]
  BY <1>3
<1> QED BY <1>1, <1>2, <1>3 DEF SenderMessages

\* A message that reports at least as much goes to the end of the chain.
LEMMA ChainGrows ==
  ASSUME NEW acked, NEW q, q \in Seq(SenderMessages), NEW received, NEW top,
         Chain(acked, q, received), received \subseteq top, Whole(top),
         NEW m \in SenderMessages, Reports(m) => m.held = top
  PROVE  /\ Append(q, m) \in Seq(SenderMessages)
         /\ Chain(acked, Append(q, m), top)
<1> DEFINE r == Append(q, m)
<1>1. /\ r \in Seq(SenderMessages) /\ Len(q) \in Nat /\ DOMAIN q = 1..Len(q)
      /\ DOMAIN r = 1..(Len(q) + 1) /\ r[Len(q) + 1] = m
      /\ \A i \in 1..Len(q) : r[i] = q[i]
  OBVIOUS
<1> HIDE DEF r
<1>2. \A i \in DOMAIN r : i \in 1..Len(q) \/ i = Len(q) + 1
  BY <1>1
<1>3. acked \subseteq top
  BY DEF Chain
<1>4. \A i \in DOMAIN q : Reports(q[i]) =>
        /\ Whole(q[i].held) /\ acked \subseteq q[i].held /\ q[i].held \subseteq top
  BY DEF Chain
<1>5. ASSUME NEW i \in DOMAIN r, Reports(r[i])
      PROVE  Whole(r[i].held) /\ acked \subseteq r[i].held /\ r[i].held \subseteq top
  <2>1. CASE i \in 1..Len(q)
    BY <2>1, <1>1, <1>4, <1>5
  <2>2. CASE i = Len(q) + 1
    BY <2>2, <1>1, <1>3, <1>5
  <2> QED BY <1>2, <2>1, <2>2
<1>6. ASSUME NEW i \in DOMAIN r, NEW j \in DOMAIN r, i < j, Reports(r[i]), Reports(r[j])
      PROVE  r[i].held \subseteq r[j].held
  <2>1. CASE j = Len(q) + 1
    BY <2>1, <1>1, <1>5, <1>6
  <2>2. CASE j \in 1..Len(q)
    <3>1. i \in 1..Len(q)
      BY <2>2, <1>1, <1>6
    <3> QED BY <2>2, <3>1, <1>1, <1>6 DEF Chain
  <2> QED BY <1>2, <2>1, <2>2
<1>7. Chain(acked, r, top)
  BY <1>3, <1>5, <1>6 DEF Chain
<1> QED BY <1>1, <1>7 DEF r

\* The first message leaves the chain, and what it reports may be believed.
LEMMA ChainTail ==
  ASSUME NEW acked, NEW q, q \in Seq(SenderMessages), q # <<>>, NEW received, Chain(acked, q, received)
  PROVE  /\ Tail(q) \in Seq(SenderMessages) /\ Head(q) \in SenderMessages
         /\ Chain(acked, Tail(q), received)
         /\ Reports(Head(q)) =>
              /\ Whole(Head(q).held) /\ acked \subseteq Head(q).held
              /\ \A some : some \subseteq Head(q).held => Chain(some, Tail(q), received)
<1> DEFINE r == Tail(q)
           m == Head(q)
<1>1. /\ r \in Seq(SenderMessages) /\ m \in SenderMessages /\ m = q[1] /\ 1 \in DOMAIN q
      /\ Len(q) \in Nat /\ Len(q) >= 1 /\ DOMAIN q = 1..Len(q)
      /\ DOMAIN r = 1..(Len(q) - 1)
      /\ \A i \in 1..(Len(q) - 1) : r[i] = q[i + 1]
  OBVIOUS
<1> HIDE DEF r, m
<1>2. \A i \in DOMAIN r : i + 1 \in DOMAIN q /\ r[i] = q[i + 1] /\ 1 < i + 1
  BY <1>1
<1>3. ASSUME NEW i \in DOMAIN r, Reports(r[i])
      PROVE  Whole(r[i].held) /\ acked \subseteq r[i].held /\ r[i].held \subseteq received
  BY <1>2, <1>3 DEF Chain
<1>4. ASSUME NEW i \in DOMAIN r, NEW j \in DOMAIN r, i < j, Reports(r[i]), Reports(r[j])
      PROVE  r[i].held \subseteq r[j].held
  <2>1. i + 1 < j + 1
    BY <1>1, <1>4
  <2> QED BY <2>1, <1>2, <1>4 DEF Chain
<1>5. Chain(acked, r, received)
  BY <1>3, <1>4 DEF Chain
<1>6. ASSUME Reports(m)
      PROVE  /\ Whole(m.held) /\ acked \subseteq m.held /\ m.held \subseteq received
             /\ \A i \in DOMAIN r : Reports(r[i]) => m.held \subseteq r[i].held
  BY <1>1, <1>2, <1>6 DEF Chain
<1>7. ASSUME Reports(m), NEW some, some \subseteq m.held
      PROVE  Chain(some, r, received)
  <2>1. some \subseteq received
    BY <1>6, <1>7
  <2>2. \A i \in DOMAIN r : Reports(r[i]) => some \subseteq r[i].held
    BY <1>6, <1>7
  <2> QED BY <2>1, <2>2, <1>3, <1>4 DEF Chain
<1> QED BY <1>1, <1>5, <1>6, <1>7 DEF r, m

\* What is received grows while chunks are under way, arrive, or are given up.
LEMMA FlyingKeeps ==
  ASSUME NEW q, NEW received, Flying(q, received)
  PROVE  /\ \A top : received \subseteq top => Flying(q, top)
         /\ q # <<>> => Flying(Tail(q), received) /\ Head(q) = q[1] /\ 1 \in DOMAIN q
         /\ \A k \in DOMAIN q : Flying(SubSeq(q, 1, k - 1), received)
<1>1. q \in Seq(Nat \X Nat) /\ Len(q) \in Nat /\ DOMAIN q = 1..Len(q)
  BY DEF Flying
<1>2. ASSUME NEW top, received \subseteq top
      PROVE  Flying(q, top)
  BY <1>2 DEF Flying
<1>3. ASSUME q # <<>>
      PROVE  Flying(Tail(q), received) /\ Head(q) = q[1] /\ 1 \in DOMAIN q
  <2>1. /\ Tail(q) \in Seq(Nat \X Nat) /\ Head(q) = q[1] /\ 1 \in DOMAIN q
        /\ \A k \in DOMAIN Tail(q) : k + 1 \in DOMAIN q /\ Tail(q)[k] = q[k + 1]
    BY <1>1, <1>3
  <2>2. \A k \in DOMAIN Tail(q) :
          \/ IsCell(Tail(q)[k])
          \/ IsHead(Tail(q)[k]) /\ Cell(Tail(q)[k][1]) \subseteq received
    BY <2>1 DEF Flying
  <2> QED BY <2>1, <2>2 DEF Flying
<1>4. ASSUME NEW k \in DOMAIN q
      PROVE  Flying(SubSeq(q, 1, k - 1), received)
  <2> DEFINE r == SubSeq(q, 1, k - 1)
  <2>1. /\ r \in Seq(Nat \X Nat)
        /\ \A i \in DOMAIN r : i \in DOMAIN q /\ r[i] = q[i]
    BY <1>1
  <2> HIDE DEF r
  <2>2. \A i \in DOMAIN r : IsCell(r[i]) \/ (IsHead(r[i]) /\ Cell(r[i][1]) \subseteq received)
    BY <2>1 DEF Flying
  <2> QED BY <2>1, <2>2 DEF Flying, r
<1> QED BY <1>2, <1>3, <1>4

\* A run is sent.
LEMMA FlyingGrows ==
  ASSUME NEW q, NEW received, Flying(q, received), NEW run, run \in Nat \X Nat,
         IsCell(run) \/ (IsHead(run) /\ Cell(run[1]) \subseteq received)
  PROVE  Flying(Append(q, run), received)
<1> DEFINE r == Append(q, run)
<1>1. q \in Seq(Nat \X Nat) /\ Len(q) \in Nat /\ DOMAIN q = 1..Len(q)
  BY DEF Flying
<1>2. /\ r \in Seq(Nat \X Nat)
      /\ \A i \in DOMAIN r : (i \in DOMAIN q /\ r[i] = q[i]) \/ r[i] = run
  BY <1>1
<1> HIDE DEF r
<1>3. \A i \in DOMAIN r : IsCell(r[i]) \/ (IsHead(r[i]) /\ Cell(r[i][1]) \subseteq received)
  BY <1>2 DEF Flying
<1> QED BY <1>2, <1>3 DEF Flying, r

-----------------------------------------------------------------------------
(* What the steps share. *)

\* A transfer that is not held has nothing.
LEMMA NoTransfer ==
  /\ DOMAIN NoIn = InFields /\ NoIn.state = "none" /\ NoIn.received = {} /\ NoIn.writes = <<>>
  /\ NoIn.nak = {}
  /\ \A o \in {Offering, NoOut} :
       /\ DOMAIN o = OutFields /\ o.state \in {"OFFERED", "none"} /\ o.acked = {} /\ o.sent = {}
       /\ o.inFlight = {} /\ o.reading = <<>>
  /\ NoOut.state = "none" /\ Offering.state = "OFFERED"
BY DEF NoIn, NoOut, Offering, InFields, OutFields

\* The books of a transfer that has not started.
LEMMA NoBooks ==
  ASSUME OneLength, NEW o \in {Offering, NoOut}
  PROVE  Books(o)
<1>1. /\ DOMAIN o = OutFields /\ o.acked = {} /\ o.sent = {} /\ o.inFlight = {} /\ o.reading = <<>>
  BY NoTransfer
<1>2. \A f \in Offsets : CellBooks(o, f)
  BY <1>1 DEF CellBooks
<1> QED BY <1>1, <1>2 DEF Books, BooksOpen

\* Whoever has something under way is in a session, with no offer left to be heard.
LEMMA Busy ==
  ASSUME FreshInv, ~Calm \/ Receiving
  PROVE  /\ joined /\ sendRecord # "none" /\ in.state # "OFFERED"
         /\ \A i \in DOMAIN toReceiver : toReceiver[i].type # "OFFER"
<1>1. ~Idle
  BY NoTransfer DEF Idle, Calm, Receiving
<1>2. Receiving => in.state \notin {"none", "OFFERED"}
  BY DEF Receiving
<1> QED BY <1>1, <1>2 DEF FreshInv

\* It stays so, when nothing is said to the receiver but that a transfer ended.
LEMMA StaysFresh ==
  ASSUME FileInv, ~Calm \/ Receiving, joined' = joined, sendRecord' # "none",
         in'.state # "OFFERED",
         \/ toReceiver' = toReceiver
         \/ \E m \in ReceiverMessages : m.type # "OFFER" /\ toReceiver' = Append(toReceiver, m)
  PROVE  FreshInv' /\ toReceiver' \in Seq(ReceiverMessages)
<1>1. /\ joined /\ sendRecord # "none" /\ in.state # "OFFERED"
      /\ \A i \in DOMAIN toReceiver : toReceiver[i].type # "OFFER"
      /\ toReceiver \in Seq(ReceiverMessages)
  BY Busy DEF FileInv, FileTypeOK
<1>2. /\ \A i \in DOMAIN toReceiver' : toReceiver'[i].type # "OFFER"
      /\ toReceiver' \in Seq(ReceiverMessages)
  <2>1. CASE toReceiver' = toReceiver
    BY <2>1, <1>1
  <2>2. ASSUME NEW m \in ReceiverMessages, m.type # "OFFER", toReceiver' = Append(toReceiver, m)
        PROVE  /\ \A i \in DOMAIN toReceiver' : toReceiver'[i].type # "OFFER"
               /\ toReceiver' \in Seq(ReceiverMessages)
    <3>1. /\ toReceiver' \in Seq(ReceiverMessages)
          /\ \A i \in DOMAIN toReceiver' : (i \in DOMAIN toReceiver /\ toReceiver'[i] = toReceiver[i])
                                             \/ toReceiver'[i] = m
      BY <2>2, <1>1
    <3> QED BY <2>2, <3>1, <1>1
  <2> QED BY <2>1, <2>2
<1> QED BY <1>1, <1>2 DEF FreshInv

\* A step of the sender: the receiver and its disk are left alone.
LEMMA SenderStep ==
  ASSUME FileInv, in' = in, disk' = disk, row' = row, runLength' = Length,
         toSender' \in Seq(SenderMessages), toReceiver' \in Seq(ReceiverMessages), FreshInv',
         Receiving => Books(out') /\ Chain(out'.acked, toSender', in.received)
                        /\ Flying(chunks', in.received)
  PROVE  FileInv'
<1>1. FileTypeOK'
  BY DEF FileInv, FileTypeOK, Receiving
<1>2. DiskInv'
  BY DEF FileInv, DiskInv, BitmapIsHonest
<1>3. Receiving' => Books(out)' /\ ReportsInv' /\ ChunksInv'
  BY DEF Receiving, Books, BooksOpen, CellBooks, ReportsInv, ChunksInv
<1> QED BY <1>1, <1>2, <1>3 DEF FileInv

\* The transfer ends on the receiver's phone, or was not there.
LEMMA ReceiverGone ==
  ASSUME FileInv, in' = NoIn, runLength' = Length, disk' \in [Chunks -> Nat],
         PartsAreCells(disk'), Whole(row'.bitmap), row'.bitmap \subseteq HeldBy(disk'),
         toSender' \in Seq(SenderMessages), toReceiver' \in Seq(ReceiverMessages), FreshInv',
         OneLength
  PROVE  FileInv'
<1>1. FileTypeOK' /\ ~Receiving'
  BY NoTransfer DEF FileInv, FileTypeOK, Receiving
<1>2. DiskInv'
  <2>1. Whole({})
    BY Wholes
  <2> QED BY <2>1, NoTransfer DEF DiskInv, BitmapIsHonest
<1> QED BY <1>1, <1>2 DEF FileInv

\* An empty disk.
LEMMA NoDisk ==
  ASSUME OneLength
  PROVE  NoParts \in [Chunks -> Nat] /\ PartsAreCells(NoParts)
BY DEF NoParts, PartsAreCells

\* At the beginning nothing is under way.
LEMMA InitInv ==
  ASSUME OneLength, FileInit
  PROVE  FileInv
<1>1. Length = runLength
  BY LengthFacts DEF FileInit
<1>2. FileTypeOK /\ ~Receiving
  BY <1>1, NoTransfer, NoDisk DEF FileInit, FileTypeOK, Receiving
<1>3. DiskInv
  <2>1. Whole({})
    BY Wholes
  <2>2. in.received = {} /\ row.bitmap = {} /\ in.writes = <<>> /\ disk = NoParts
    BY NoTransfer DEF FileInit, NoRow
  <2> QED BY <2>1, <2>2, NoDisk DEF DiskInv, BitmapIsHonest
<1>4. FreshInv
  BY NoTransfer DEF FileInit, FreshInv, Idle
<1> QED BY <1>2, <1>3, <1>4 DEF FileInv

-----------------------------------------------------------------------------
(* The sender's steps. *)

\* Believing less breaks no chain.
LEMMA ChainOfNothing ==
  ASSUME NEW acked, NEW q, NEW received, Chain(acked, q, received)
  PROVE  Chain({}, q, received)
BY DEF Chain

\* A transfer that is running is not calm.
LEMMA NotCalm ==
  ASSUME out.state = "TRANSFERRING" \/ out.reading # <<>> \/ toSender # <<>> \/ chunks # <<>>
  PROVE  ~Calm
BY NoTransfer DEF Calm

\* The sender chooses what to send, and says nothing yet.
LEMMA SenderChooses ==
  ASSUME FileInv, OneLength, ~Calm, SenderKeeps, sendRecord' = sendRecord, runLength' = Length,
         UNCHANGED <<chunks, toReceiver, toSender>>,
         Receiving => Books(out') /\ out'.acked = out.acked
  PROVE  FileInv'
<1>1. in' = in /\ disk' = disk /\ row' = row /\ joined' = joined
  BY DEF SenderKeeps
<1>2. in.state # "OFFERED" /\ sendRecord # "none"
  BY Busy DEF FileInv
<1>3. FreshInv' /\ toReceiver' \in Seq(ReceiverMessages)
  BY <1>1, <1>2, StaysFresh
<1>4. toSender' \in Seq(SenderMessages)
  BY DEF FileInv, FileTypeOK
<1>5. Receiving => Chain(out'.acked, toSender', in.received) /\ Flying(chunks', in.received)
  BY DEF FileInv, ReportsInv, ChunksInv
<1> QED BY <1>1, <1>3, <1>4, <1>5, SenderStep

\* Pumping closed books, on a link of the one length.
LEMMA BooksPumpedNow ==
  ASSUME OneLength, NEW o, Books(o), NEW n, n = Length
  PROVE  Books(PumpedOn(o, n)) /\ PumpedOn(o, n).acked = o.acked
BY BooksPumped

\* reopen() of closed books, whatever entries are opened.
LEMMA BooksReopenedNow ==
  ASSUME OneLength, NEW o, Books(o), NEW entries, entries \subseteq o.inFlight
  PROVE  Books(Reopened(o, entries)) /\ Reopened(o, entries).acked = o.acked
<1> DEFINE p == Reopened(o, entries)
<1>1. DOMAIN o = OutFields /\ BooksOpen(o) /\ \A e \in o.inFlight : RunOf(e) \subseteq o.acked \cup o.sent
  BY DEF Books, BooksOpen
<1>2. /\ DOMAIN p = OutFields /\ p.acked = o.acked /\ p.sent = o.sent \ (ChunksOf(entries) \ o.acked)
      /\ p.inFlight = o.inFlight \ entries /\ p.reading = o.reading
  BY <1>1 DEF Reopened, OutFields
<1> HIDE DEF p
<1>3. Books(p)
  BY <1>1, <1>2, BooksReopened
<1> QED BY <1>2, <1>3 DEF p

\* onLinkChanged() on the sender's phone
LEMMA SenderMovesKeeps ==
  ASSUME FileInv, OneLength, SenderMoves
  PROVE  FileInv'
<1>1. /\ runLength' = Length /\ runLength = Length
      /\ UNCHANGED <<chunks, toReceiver, toSender, sendRecord>> /\ SenderKeeps
  BY LengthFacts DEF SenderMoves, FileInv, FileTypeOK
<1>2. CASE out.state # "TRANSFERRING"
  <2>1. out' = out
    BY <1>2 DEF SenderMoves
  <2>2. in' = in /\ disk' = disk /\ row' = row /\ joined' = joined
    BY <1>1 DEF SenderKeeps
  <2>3. FreshInv'
    BY <1>1, <2>1, <2>2 DEF FileInv, FreshInv, Idle, Calm
  <2>4. toSender' \in Seq(SenderMessages) /\ toReceiver' \in Seq(ReceiverMessages)
    BY <1>1 DEF FileInv, FileTypeOK
  <2>5. Receiving => Books(out') /\ Chain(out'.acked, toSender', in.received)
                       /\ Flying(chunks', in.received)
    BY <1>1, <2>1 DEF FileInv, ReportsInv, ChunksInv
  <2> QED BY <1>1, <2>2, <2>3, <2>4, <2>5, SenderStep
<1>3. CASE out.state = "TRANSFERRING"
  <2> DEFINE o == [out EXCEPT !.attempts = NoParts]
             p == Reopened(o, o.inFlight)
  <2>1. ASSUME Receiving
        PROVE  Books(o) /\ o.acked = out.acked /\ o.inFlight = out.inFlight
    <3>1. DOMAIN out = OutFields /\ Books(out)
      BY <2>1 DEF FileInv, Books, BooksOpen
    <3>2. /\ DOMAIN o = OutFields /\ o.acked = out.acked /\ o.sent = out.sent
          /\ o.inFlight = out.inFlight /\ o.reading = out.reading
      BY <3>1 DEF OutFields
    <3> HIDE DEF o
    <3>3. Books(o)
      BY <3>1, <3>2, SameBooks
    <3> QED BY <3>2, <3>3
  <2>2. o.inFlight = out.inFlight
    OBVIOUS
  <2>3. out' = PumpedOn(p, runLength')
    BY <1>3, <2>2 DEF SenderMoves
  <2> HIDE DEF o
  <2>4. ASSUME Receiving
        PROVE  Books(p) /\ p.acked = out.acked
    BY <2>1, <2>4, BooksReopenedNow
  <2> HIDE DEF p
  <2>5. Receiving => Books(out') /\ out'.acked = out.acked
    BY <2>3, <2>4, <1>1, BooksPumpedNow
  <2>6. ~Calm
    BY <1>3, NotCalm
  <2> QED BY <1>1, <2>5, <2>6, SenderChooses
<1> QED BY <1>2, <1>3

\* The tick, when it only mends and fills.
LEMMA SenderTickKeeps ==
  ASSUME FileInv, OneLength, SenderTick
  PROVE  FileInv'
<1>1. /\ out.state = "TRANSFERRING" /\ out' = PumpedOn(Repaired(out), runLength)
      /\ SenderKeeps /\ UNCHANGED <<runLength, sendRecord, chunks, toReceiver, toSender>>
  BY DEF SenderTick, Pumped
<1>2. runLength = Length
  BY DEF FileInv, FileTypeOK
<1>3. Receiving => Books(Repaired(out)) /\ Repaired(out).acked = out.acked
  BY BooksRepaired DEF FileInv
<1>4. Receiving => Books(out') /\ out'.acked = out.acked
  BY <1>1, <1>2, <1>3, BooksPumpedNow
<1>5. ~Calm
  BY <1>1, NotCalm
<1> QED BY <1>1, <1>2, <1>4, <1>5, SenderChooses

\* The sender's transfer ends, and the receiver may be told.
LEMMA SenderGone ==
  ASSUME FileInv, OneLength, SenderKeeps, out' = NoOut, UNCHANGED <<runLength, chunks>>,
         FreshInv', toReceiver' \in Seq(ReceiverMessages), toSender' \in Seq(SenderMessages),
         Receiving => Chain({}, toSender', in.received)
  PROVE  FileInv'
<1>1. in' = in /\ disk' = disk /\ row' = row /\ runLength' = Length
  BY DEF SenderKeeps, FileInv, FileTypeOK
<1>2. Books(out') /\ out'.acked = {}
  BY NoBooks, NoTransfer
<1>3. Receiving => Flying(chunks', in.received)
  BY DEF FileInv, ChunksInv
<1> QED BY <1>1, <1>2, <1>3, SenderStep

\* What the sender says when it ends is heard as an end.
LEMMA SenderSays ==
  ASSUME FileInv, SenderKeeps, out' = NoOut, UNCHANGED <<chunks, toSender>>, sendRecord' # "none",
         joined, NEW m \in ReceiverMessages, m.type # "OFFER", toReceiver' = Append(toReceiver, m)
  PROVE  FreshInv' /\ toReceiver' \in Seq(ReceiverMessages)
<1>1. toReceiver \in Seq(ReceiverMessages) /\ in' = in /\ joined' = joined
  BY DEF FileInv, FileTypeOK, SenderKeeps
<1>2. /\ toReceiver' \in Seq(ReceiverMessages)
      /\ \A i \in DOMAIN toReceiver' : (i \in DOMAIN toReceiver /\ toReceiver'[i] = toReceiver[i])
                                         \/ toReceiver'[i] = m
  BY <1>1
<1>3. Calm => Calm'
  BY DEF Calm
<1>4. \A i \in DOMAIN toReceiver' : toReceiver'[i].type = "OFFER" =>
        i = 1 /\ in.state = "none" /\ Calm'
  BY <1>2, <1>3 DEF FileInv, FreshInv
<1>5. in.state = "OFFERED" => Calm'
  BY <1>3 DEF FileInv, FreshInv
<1> QED BY <1>1, <1>2, <1>4, <1>5 DEF FreshInv

\* fail()
LEMMA SenderFailsKeeps ==
  ASSUME FileInv, OneLength, SenderFails, joined, SenderKeeps,
         UNCHANGED <<runLength, chunks, toSender>>
  PROVE  FileInv'
<1>1. /\ out' = NoOut /\ sendRecord' = "FAILED" /\ toReceiver' = Append(toReceiver, [type |-> "ERROR"])
  BY DEF SenderFails, SenderEnds
<1>2. [type |-> "ERROR"] \in ReceiverMessages /\ [type |-> "ERROR"].type # "OFFER"
  BY DEF ReceiverMessages
<1>3. FreshInv' /\ toReceiver' \in Seq(ReceiverMessages)
  BY <1>1, <1>2, SenderSays
<1>4. toSender' \in Seq(SenderMessages) /\ (Receiving => Chain({}, toSender', in.received))
  BY ChainOfNothing DEF FileInv, FileTypeOK, ReportsInv
<1> QED BY <1>1, <1>3, <1>4, SenderGone

\* An entry is opened again, or given up with the transfer.
LEMMA ChunkTimeoutKeeps ==
  ASSUME FileInv, OneLength, NEW e \in out.inFlight, ChunkTimeout(e)
  PROVE  FileInv'
<1>1. /\ out.state = "TRANSFERRING" /\ SenderKeeps /\ UNCHANGED <<runLength, chunks, toSender>>
  BY DEF ChunkTimeout
<1>2. ~Calm /\ joined /\ runLength = Length
  BY <1>1, NotCalm, Busy DEF FileInv, FileTypeOK
<1>3. CASE SenderFails
  BY <1>1, <1>2, <1>3, SenderFailsKeeps
<1>4. CASE out' = Pumped(Repaired(Reopened(out, {e}))) /\ UNCHANGED <<sendRecord, toReceiver>>
  <2> DEFINE p == Reopened(out, {e})
             q == Repaired(p)
  <2>1. {e} \subseteq out.inFlight
    OBVIOUS
  <2>2. Receiving => Books(p) /\ p.acked = out.acked
    BY <2>1, BooksReopenedNow DEF FileInv
  <2> HIDE DEF p
  <2>3. Receiving => Books(q) /\ q.acked = out.acked
    BY <2>2, BooksRepaired
  <2>4. out' = PumpedOn(q, runLength)
    BY <1>4 DEF Pumped, p
  <2> HIDE DEF q
  <2>5. Receiving => Books(out') /\ out'.acked = out.acked
    BY <2>3, <2>4, <1>2, BooksPumpedNow
  <2> QED BY <1>1, <1>2, <1>4, <2>5, SenderChooses
<1> QED BY <1>3, <1>4 DEF ChunkTimeout

\* A run is sent as it was chosen, and the next one chosen.
LEMMA ReadDoneKeeps ==
  ASSUME FileInv, OneLength, ReadDone
  PROVE  FileInv'
<1> DEFINE run == out.reading
           times == [out.attempts EXCEPT ![run[1]] = IF @ < MaxChunkAttempts THEN @ + 1 ELSE @]
           o == [out EXCEPT !.reading = <<>>, !.sent = @ \cup RunOf(run),
                            !.inFlight = {e \in @ : e[1] # run[1]} \cup {run}, !.attempts = times]
<1>1. /\ run # <<>> /\ SenderKeeps /\ out' = PumpedOn(o, runLength)
      /\ chunks' = chunks \/ chunks' = Append(chunks, run)
      /\ UNCHANGED <<runLength, sendRecord, toReceiver, toSender>>
  BY DEF ReadDone, Pumped
<1>2. ~Calm /\ runLength = Length /\ in' = in /\ disk' = disk /\ row' = row /\ joined' = joined
  BY <1>1, NotCalm DEF FileInv, FileTypeOK, SenderKeeps
<1> HIDE DEF times
<1>3. ASSUME Receiving
      PROVE  Books(o) /\ o.acked = out.acked
  <2>1. DOMAIN out = OutFields /\ Books(out)
    BY <1>3 DEF FileInv, Books, BooksOpen
  <2>2. /\ DOMAIN o = OutFields /\ o.acked = out.acked /\ o.sent = out.sent \cup RunOf(run)
        /\ o.inFlight = {e \in out.inFlight : e[1] # run[1]} \cup {run} /\ o.reading = <<>>
    BY <2>1 DEF OutFields
  <2> HIDE DEF o
  <2>3. Books(o)
    BY <2>1, <2>2, <1>1, BooksRead
  <2> QED BY <2>2, <2>3
<1> HIDE DEF o
<1>4. ASSUME Receiving
      PROVE  Flying(chunks', in.received)
  <2>1. IsCell(run) \/ (IsHead(run) /\ Cell(run[1]) \ {run[1]} \subseteq out.acked)
    BY <1>1, <1>4 DEF FileInv, Books, BooksOpen
  <2>2. run \in Nat \X Nat /\ run[1] \in Offsets
    BY <2>1, Entry DEF IsEntry
  <2>3. out.acked \subseteq in.received /\ Flying(chunks, in.received) /\ Whole(in.received)
    BY <1>4 DEF FileInv, ReportsInv, Chain, ChunksInv, DiskInv
  <2>4. IsCell(run) \/ (IsHead(run) /\ Cell(run[1]) \subseteq in.received)
    <3>1. CASE Cell(run[1]) \subseteq {run[1]} /\ IsHead(run)
      <4>1. Cell(run[1]) = {run[1]}
        BY <3>1, <2>2, Cells
      <4>2. RunOf(run) = {run[1]}
        BY <3>1, Entry DEF IsEntry
      <4> QED BY <4>1, <4>2, <2>2 DEF IsCell
    <3>2. ASSUME NEW c \in Cell(run[1]), c # run[1], Cell(run[1]) \ {run[1]} \subseteq out.acked
          PROVE  Cell(run[1]) \subseteq in.received
      <4>1. c \in in.received
        BY <3>2, <2>3
      <4> QED BY <4>1, <2>2, <2>3, Wholes
    <3> QED BY <2>1, <3>1, <3>2
  <2>5. Flying(Append(chunks, run), in.received)
    BY <2>2, <2>3, <2>4, FlyingGrows
  <2> QED BY <1>1, <2>3, <2>5
<1>5. Receiving => Books(out') /\ out'.acked = out.acked
  BY <1>1, <1>2, <1>3, BooksPumpedNow
<1>6. in.state # "OFFERED" /\ sendRecord # "none"
  BY <1>2, Busy DEF FileInv
<1>7. FreshInv' /\ toReceiver' \in Seq(ReceiverMessages)
  BY <1>1, <1>2, <1>6, StaysFresh
<1>8. toSender' \in Seq(SenderMessages) /\ (Receiving => Chain(out'.acked, toSender', in.received))
  BY <1>1, <1>5 DEF FileInv, FileTypeOK, ReportsInv
<1> QED BY <1>1, <1>2, <1>4, <1>5, <1>7, <1>8, SenderStep

\* Nobody answered the offer.
LEMMA SenderExpiresKeeps ==
  ASSUME FileInv, OneLength, SenderExpires
  PROVE  FileInv'
<1>1. /\ out.state = "OFFERED" /\ SenderFails /\ SenderKeeps
      /\ UNCHANGED <<runLength, chunks, toSender>>
  BY DEF SenderExpires
<1>2. joined
  BY <1>1, NoTransfer DEF FileInv, FreshInv, Idle
<1> QED BY <1>1, <1>2, SenderFailsKeeps

\* cancel() on the sender's phone, with or without a session.
LEMMA SenderCancelsKeeps ==
  ASSUME FileInv, OneLength, SenderCancels
  PROVE  FileInv'
<1>1. /\ sendRecord \in {"OFFERED", "TRANSFERRING"} /\ out' = NoOut /\ sendRecord' = "CANCELLED"
      /\ SenderKeeps /\ UNCHANGED <<runLength, chunks, toSender>>
  BY DEF SenderCancels, SenderEnds
<1>2. toSender' \in Seq(SenderMessages) /\ (Receiving => Chain({}, toSender', in.received))
  BY <1>1, ChainOfNothing DEF FileInv, FileTypeOK, ReportsInv
<1>3. CASE out.state = "none"
  <2>1. toReceiver' = toReceiver /\ toReceiver \in Seq(ReceiverMessages)
    BY <1>3 DEF SenderCancels, FileInv, FileTypeOK
  <2>2. in' = in /\ joined' = joined
    BY <1>1 DEF SenderKeeps
  <2>3. FreshInv'
    BY <1>1, <2>1, <2>2 DEF FileInv, FreshInv, Idle, Calm
  <2> QED BY <1>1, <1>2, <2>1, <2>3, SenderGone
<1>4. CASE out.state # "none"
  <2>1. joined
    BY <1>4, NoTransfer DEF FileInv, FreshInv, Idle
  <2>2. /\ toReceiver' = Append(toReceiver, [type |-> "CANCEL"])
        /\ [type |-> "CANCEL"] \in ReceiverMessages /\ [type |-> "CANCEL"].type # "OFFER"
    BY <1>4 DEF SenderCancels, ReceiverMessages
  <2>3. FreshInv' /\ toReceiver' \in Seq(ReceiverMessages)
    BY <1>1, <2>1, <2>2, SenderSays
  <2> QED BY <1>1, <1>2, <2>3, SenderGone
<1> QED BY <1>3, <1>4

\* What the sender concludes from an acknowledgement.
LEMMA AcknowledgingKeeps ==
  ASSUME FileInv, OneLength, Receiving, NEW m \in SenderMessages, m.type = "ACK",
         Whole(m.held), out.acked \subseteq m.held
  PROVE  Books(Acknowledging(out, m)) /\ Acknowledging(out, m).acked \subseteq m.held
<1> DEFINE refused == {e \in out.inFlight : e[1] \in m.missing}
           open == ChunksOf(refused) \cup m.missing
           o == [out EXCEPT !.acked = (@ \cup m.held) \ open, !.sent = @ \ open,
                            !.inFlight = @ \ refused]
           p == Retired(o)
<1>1. Books(out) /\ DOMAIN out = OutFields /\ runLength = Length /\ m.missing \subseteq Offsets
  BY Messages DEF FileInv, FileTypeOK, Books, BooksOpen
<1>2. Acknowledging(out, m) = PumpedOn(p, runLength)
  BY DEF Acknowledging, Pumped
<1>3. /\ DOMAIN o = OutFields /\ o.acked = (out.acked \cup m.held) \ open
      /\ o.sent = out.sent \ open /\ o.inFlight = out.inFlight \ refused /\ o.reading = out.reading
  <2> HIDE DEF refused, open
  <2> QED BY <1>1 DEF OutFields
<1> HIDE DEF o
<1>4. BooksOpen(o) /\ o.acked \subseteq m.held
  <2> DEFINE held == m.held
             missing == m.missing
  <2>1. /\ Whole(held) /\ out.acked \subseteq held /\ missing \subseteq Offsets
        /\ \A e : e \in refused <=> e \in out.inFlight /\ e[1] \in missing
        /\ \A c : c \in open <=> c \in missing \/ \E r \in refused : c \in RunOf(r)
        /\ o.acked = (out.acked \cup held) \ open
    BY <1>1, <1>3, Covered
  <2> HIDE DEF held, missing, refused, open
  <2>2. BooksOpen(o) /\ o.acked \subseteq held
    BY <1>1, <1>3, <2>1, BooksAcknowledged
  <2> QED BY <2>2 DEF held
<1>5. Books(p) /\ p.acked = o.acked
  BY <1>4, BooksRetired
<1> HIDE DEF p
<1>6. Books(PumpedOn(p, runLength)) /\ PumpedOn(p, runLength).acked = p.acked
  BY <1>1, <1>5, BooksPumpedNow
<1> QED BY <1>2, <1>4, <1>5, <1>6

\* What the sender concludes from the receiver's word.
LEMMA ResumingKeeps ==
  ASSUME FileInv, OneLength, Receiving, NEW held, Whole(held), out.acked \subseteq held
  PROVE  Books(Resuming(out, held)) /\ Resuming(out, held).acked = held
<1> DEFINE o == [out EXCEPT !.state = "TRANSFERRING", !.acked = held, !.sent = held, !.inFlight = {}]
<1>1. BooksOpen(out) /\ DOMAIN out = OutFields /\ runLength = Length
  BY DEF FileInv, FileTypeOK, Books, BooksOpen
<1>2. Resuming(out, held) = PumpedOn(o, runLength)
  BY DEF Resuming, Pumped
<1>3. /\ DOMAIN o = OutFields /\ o.acked = held /\ o.sent = held /\ o.inFlight = {}
      /\ o.reading = out.reading
  BY <1>1 DEF OutFields
<1> HIDE DEF o
<1>4. Books(o)
  BY <1>1, <1>3, BooksResumed
<1> QED BY <1>1, <1>2, <1>3, <1>4, BooksPumpedNow

\* A message for the sender is heard.
LEMMA SenderReceivesKeeps ==
  ASSUME FileInv, OneLength, SenderReceives
  PROVE  FileInv'
<1> DEFINE m == Head(toSender)
<1>1. /\ toSender # <<>> /\ toSender' = Tail(toSender) /\ SenderKeeps
      /\ UNCHANGED <<runLength, chunks, toReceiver>>
  BY DEF SenderReceives
<1>2. ~Calm /\ runLength = Length /\ toSender \in Seq(SenderMessages)
  BY <1>1, NotCalm DEF FileInv, FileTypeOK
<1>3. in' = in /\ disk' = disk /\ row' = row /\ joined' = joined /\ runLength' = Length
  BY <1>1, <1>2 DEF SenderKeeps
<1>4. m \in SenderMessages /\ toSender' \in Seq(SenderMessages)
  BY <1>1, <1>2
<1>5. ASSUME Receiving
      PROVE  /\ Chain(out.acked, toSender', in.received)
             /\ Reports(m) => /\ Whole(m.held) /\ out.acked \subseteq m.held
                              /\ \A some : some \subseteq m.held => Chain(some, toSender', in.received)
  <2>1. Chain(out.acked, toSender, in.received)
    BY <1>5 DEF FileInv, ReportsInv
  <2> QED BY <1>1, <1>2, <2>1, ChainTail
<1> HIDE DEF m
<1>6. sendRecord' # "none" /\ (Receiving => Books(out') /\ Chain(out'.acked, toSender', in.received))
  <2>1. sendRecord # "none"
    BY <1>2, Busy DEF FileInv
  <2>2. Receiving => Books(out)
    BY DEF FileInv
  <2>3. CASE UNCHANGED <<out, sendRecord>>
    BY <2>1, <2>2, <2>3, <1>5
  <2>4. CASE /\ out' = IF out.state = "OFFERED" THEN Pumped([out EXCEPT !.state = "TRANSFERRING"]) ELSE out
             /\ sendRecord' = "TRANSFERRING"
    <3>1. CASE out.state # "OFFERED"
      BY <2>2, <2>4, <3>1, <1>5
    <3>2. CASE out.state = "OFFERED"
      <4> DEFINE o == [out EXCEPT !.state = "TRANSFERRING"]
      <4>1. ASSUME Receiving
            PROVE  Books(o) /\ o.acked = out.acked
        <5>1. Books(out) /\ DOMAIN out = OutFields
          BY <4>1, <2>2 DEF Books, BooksOpen
        <5>2. /\ DOMAIN o = OutFields /\ o.acked = out.acked /\ o.sent = out.sent
              /\ o.inFlight = out.inFlight /\ o.reading = out.reading
          BY <5>1 DEF OutFields
        <5> HIDE DEF o
        <5> QED BY <5>1, <5>2, SameBooks
      <4>2. out' = PumpedOn(o, runLength)
        BY <2>4, <3>2 DEF Pumped
      <4> HIDE DEF o
      <4>3. Receiving => Books(out') /\ out'.acked = out.acked
        BY <4>1, <4>2, <1>2, BooksPumpedNow
      <4> QED BY <4>3, <2>4, <1>5
    <3> QED BY <3>1, <3>2
  <2>5. CASE m.type = "RESUME" /\ out' = Resuming(out, m.held) /\ sendRecord' = "TRANSFERRING"
    <3>1. ASSUME Receiving
          PROVE  Books(out') /\ Chain(out'.acked, toSender', in.received)
      <4>1. Reports(m)
        BY <2>5 DEF Reports
      <4>2. Books(out') /\ out'.acked = m.held
        BY <2>5, <3>1, <4>1, <1>5, ResumingKeeps
      <4> QED BY <3>1, <4>1, <4>2, <1>5
    <3> QED BY <3>1, <2>5
  <2>6. CASE m.type = "ACK" /\ out' = Acknowledging(out, m) /\ UNCHANGED sendRecord
    <3>1. ASSUME Receiving
          PROVE  Books(out') /\ Chain(out'.acked, toSender', in.received)
      <4>1. Reports(m)
        BY <2>6 DEF Reports
      <4>2. Books(out') /\ out'.acked \subseteq m.held
        BY <2>6, <3>1, <4>1, <1>4, <1>5, AcknowledgingKeeps
      <4> QED BY <3>1, <4>1, <4>2, <1>5
    <3> QED BY <3>1, <2>1, <2>6
  <2>7. CASE out' = NoOut /\ sendRecord' \in {"DECLINED", "COMPLETED", "CANCELLED", "FAILED"}
    <3>1. Books(NoOut) /\ NoOut.acked = {}
      BY NoBooks, NoTransfer
    <3>2. Receiving => Chain({}, toSender', in.received)
      BY <1>5, ChainOfNothing
    <3> QED BY <2>7, <3>1, <3>2
  <2> QED BY <2>3, <2>4, <2>5, <2>6, <2>7 DEF SenderReceives, SenderEnds, m
<1>7. in.state # "OFFERED"
  BY <1>2, Busy DEF FileInv
<1>8. FreshInv' /\ toReceiver' \in Seq(ReceiverMessages)
  BY <1>1, <1>2, <1>3, <1>6, <1>7, StaysFresh
<1>9. Receiving => Flying(chunks', in.received)
  BY <1>1 DEF FileInv, ChunksInv
<1> QED BY <1>3, <1>4, <1>6, <1>8, <1>9, SenderStep

\* An offer goes out on a fresh session.
LEMMA SendFileKeeps ==
  ASSUME FileInv, OneLength, SendFile \/ Join
  PROVE  FileInv'
<1>1. Idle
  BY DEF FileInv, FreshInv, SendFile, Join
<1>2. /\ in' = in /\ disk' = disk /\ row' = row /\ chunks' = chunks /\ toSender' = toSender
      /\ runLength' = Length /\ joined' = TRUE
  BY LengthFacts DEF SendFile, Join, FileInv, FileTypeOK
<1>3. \/ out' = Offering /\ toReceiver' = <<[type |-> "OFFER"]>> /\ sendRecord' # "none"
      \/ out' = out /\ toReceiver' = toReceiver
  BY <1>1 DEF SendFile, Join, Idle
<1>4. FreshInv' /\ toReceiver' \in Seq(ReceiverMessages)
  <2>1. in.state = "none" /\ chunks' = <<>> /\ toSender' = <<>> /\ in' = NoIn /\ out = NoOut
    BY <1>1, <1>2, NoTransfer DEF Idle
  <2>2. CASE out' = Offering /\ toReceiver' = <<[type |-> "OFFER"]>> /\ sendRecord' # "none"
    <3>1. toReceiver' \in Seq(ReceiverMessages) /\ \A i \in DOMAIN toReceiver' : i = 1
      BY <2>2 DEF ReceiverMessages
    <3> QED BY <1>2, <2>1, <2>2, <3>1 DEF FreshInv, Calm
  <2>3. CASE out' = out /\ toReceiver' = toReceiver
    <3>1. toReceiver' = <<>> /\ Idle'
      BY <1>1, <1>2, <2>3 DEF Idle
    <3> QED BY <1>2, <2>1, <3>1 DEF FreshInv
  <2> QED BY <1>3, <2>2, <2>3
<1>5. ~Receiving /\ toSender' \in Seq(SenderMessages)
  BY <1>1, <1>2, NoTransfer DEF Idle, Receiving
<1> QED BY <1>2, <1>4, <1>5, SenderStep

-----------------------------------------------------------------------------
(* Sessions, and what is written down. *)

\* A session ends with whatever was under way, and some of the writes have landed.
LEMMA SeveredKeeps ==
  ASSUME FileInv, OneLength, Severed, UNCHANGED runLength,
         row'.bitmap = {} \/ row'.bitmap = row.bitmap
  PROVE  FileInv'
<1>1. PICK k \in 0..Len(in.writes) : disk' = Written(SubSeq(in.writes, 1, k))
  BY DEF Severed
<1> DEFINE ws == SubSeq(in.writes, 1, k)
<1>2. /\ joined' = FALSE /\ out' = NoOut /\ in' = NoIn /\ chunks' = <<>> /\ toReceiver' = <<>>
      /\ toSender' = <<>> /\ runLength' = Length
  BY DEF Severed, FileInv, FileTypeOK
<1>3. ws \in Seq(Nat \X Nat) /\ \A j \in DOMAIN ws : IsCell(ws[j])
  <2>1. in.writes \in Seq(Nat \X Nat) /\ \A j \in DOMAIN in.writes : IsCell(in.writes[j])
    BY DEF FileInv, FileTypeOK, DiskInv
  <2>2. ws \in Seq(Nat \X Nat) /\ \A j \in DOMAIN ws : j \in DOMAIN in.writes /\ ws[j] = in.writes[j]
    BY <2>1
  <2> QED BY <2>1, <2>2
<1>4. disk' = Written(ws)
  BY <1>1
<1> HIDE DEF ws
<1>5. /\ disk' \in [Chunks -> Nat] /\ PartsAreCells(disk') /\ HeldBy(disk) \subseteq HeldBy(disk')
  BY <1>3, <1>4, WritesKeep DEF FileInv, FileTypeOK, DiskInv
<1>6. Whole(row'.bitmap) /\ row'.bitmap \subseteq HeldBy(disk')
  <2>1. Whole({}) /\ Whole(row.bitmap) /\ row.bitmap \subseteq HeldBy(disk)
    BY Wholes DEF FileInv, DiskInv, BitmapIsHonest
  <2> QED BY <2>1, <1>5
<1>7. FreshInv'
  BY <1>2, NoTransfer DEF FreshInv, Idle
<1>8. toReceiver' \in Seq(ReceiverMessages) /\ toSender' \in Seq(SenderMessages)
  BY <1>2
<1> QED BY <1>2, <1>5, <1>6, <1>7, <1>8, ReceiverGone

\* detach(), and the end of the receiving app
LEMMA PartKeeps ==
  ASSUME FileInv, OneLength, Part \/ Restart
  PROVE  FileInv'
<1>1. Severed /\ UNCHANGED runLength
  BY DEF Part, Restart
<1>2. row'.bitmap = {} \/ row'.bitmap = row.bitmap
  BY DEF Part, Restart
<1> QED BY <1>1, <1>2, SeveredKeeps

\* Nothing but the row, the link, and what the invariant does not speak of changes.
LEMMA RowStep ==
  ASSUME FileInv, UNCHANGED <<joined, runLength, sendRecord, out, in, disk, chunks, toReceiver, toSender>>,
         Whole(row'.bitmap), row'.bitmap \subseteq HeldBy(disk)
  PROVE  FileInv'
<1>1. FileTypeOK'
  BY DEF FileInv, FileTypeOK, Receiving
<1>2. DiskInv'
  BY DEF FileInv, DiskInv, BitmapIsHonest
<1>3. FreshInv'
  BY DEF FileInv, FreshInv, Idle, Calm
<1>4. Receiving' => Books(out)' /\ ReportsInv' /\ ChunksInv'
  BY DEF FileInv, Receiving, Books, BooksOpen, CellBooks, ReportsInv, ChunksInv
<1> QED BY <1>1, <1>2, <1>3, <1>4 DEF FileInv

\* The receiver's progress is written: the bitmap is no more than what is received.
LEMMA PersistKeeps ==
  ASSUME FileInv, Persist
  PROVE  FileInv'
<1>1. row'.bitmap = in.received
  BY DEF Persist
<1>2. Whole(row'.bitmap) /\ row'.bitmap \subseteq HeldBy(disk)
  BY <1>1 DEF FileInv, DiskInv, BitmapIsHonest
<1> QED BY <1>2, RowStep DEF Persist

\* A step that changes nothing the invariant speaks of.
LEMMA OtherStep ==
  ASSUME FileInv,
         UNCHANGED <<joined, runLength, sendRecord, out, in, disk, row, chunks, toReceiver, toSender>>
  PROVE  FileInv'
<1>1. Whole(row'.bitmap) /\ row'.bitmap \subseteq HeldBy(disk)
  BY DEF FileInv, DiskInv, BitmapIsHonest
<1> QED BY <1>1, RowStep

\* A chunk of the bulk channel is given up, with the later ones.
LEMMA GiveUpChunkKeeps ==
  ASSUME FileInv, GiveUpChunk
  PROVE  FileInv'
<1>1. PICK k \in DOMAIN chunks : chunks' = SubSeq(chunks, 1, k - 1)
  BY DEF GiveUpChunk
<1>2. UNCHANGED <<joined, runLength, sendRecord, out, in, disk, row, toReceiver, toSender>>
  BY DEF GiveUpChunk
<1>3. ~Calm
  <2>1. chunks # <<>>
    BY <1>1
  <2> QED BY <2>1, NotCalm
<1>4. in.state # "OFFERED" /\ sendRecord # "none"
  BY <1>3, Busy DEF FileInv
<1>5. FreshInv' /\ toReceiver' \in Seq(ReceiverMessages)
  BY <1>2, <1>3, <1>4, StaysFresh
<1>6. runLength' = Length /\ toSender' \in Seq(SenderMessages)
  BY <1>2 DEF FileInv, FileTypeOK
<1>7. ASSUME Receiving
      PROVE  Books(out') /\ Chain(out'.acked, toSender', in.received) /\ Flying(chunks', in.received)
  <2>1. Books(out) /\ Chain(out.acked, toSender, in.received) /\ Flying(chunks, in.received)
    BY <1>7 DEF FileInv, ReportsInv, ChunksInv
  <2> QED BY <2>1, <1>1, <1>2, FlyingKeeps
<1> QED BY <1>2, <1>5, <1>6, <1>7, SenderStep

-----------------------------------------------------------------------------
(* The receiver's steps. *)

\* The disk and the row of a transfer that ended.
LEMMA EndedDisk ==
  ASSUME FileInv, OneLength, NEW state, ReceiverEnds(state)
  PROVE  /\ in' = NoIn /\ disk' \in [Chunks -> Nat] /\ PartsAreCells(disk')
         /\ Whole(row'.bitmap) /\ row'.bitmap \subseteq HeldBy(disk')
<1>1. in' = NoIn /\ row'.bitmap = {} /\ (disk' = NoParts \/ disk' = disk)
  BY DEF ReceiverEnds
<1>2. disk \in [Chunks -> Nat] /\ PartsAreCells(disk)
  BY DEF FileInv, FileTypeOK, DiskInv
<1>3. Whole({})
  BY Wholes
<1> QED BY <1>1, <1>2, <1>3, NoDisk

\* The transfer ends on the receiver's phone, and the sender is told if it can be.
LEMMA StopKeeps ==
  ASSUME FileInv, OneLength, NEW state, ReceiverEnds(state), ReceiverKeeps,
         UNCHANGED <<chunks, toReceiver>>,
         NEW m \in SenderMessages,
         toSender' = toSender \/ (in.state # "none" /\ toSender' = Append(toSender, m))
  PROVE  FileInv'
<1>1. /\ in' = NoIn /\ disk' \in [Chunks -> Nat] /\ PartsAreCells(disk')
      /\ Whole(row'.bitmap) /\ row'.bitmap \subseteq HeldBy(disk')
  BY EndedDisk
<1>2. /\ joined' = joined /\ sendRecord' = sendRecord /\ out' = out /\ runLength' = Length
      /\ toReceiver' \in Seq(ReceiverMessages) /\ toReceiver' = toReceiver
      /\ toSender \in Seq(SenderMessages)
  BY DEF ReceiverKeeps, FileInv, FileTypeOK
<1>3. toSender' \in Seq(SenderMessages)
  BY <1>2
<1>4. FreshInv'
  <2>1. in'.state = "none"
    BY <1>1, NoTransfer
  <2>2. Idle => Idle'
    BY <1>1, <1>2, NoTransfer DEF Idle
  <2>3. in.state = "none" /\ Calm => Calm'
    BY <1>2 DEF Calm
  <2> QED BY <1>2, <2>1, <2>2, <2>3 DEF FileInv, FreshInv
<1> QED BY <1>1, <1>2, <1>3, <1>4, ReceiverGone

\* The messages that say so.
LEMMA EndMessages ==
  ASSUME NEW type \in {"ACCEPT", "DECLINE", "COMPLETE", "CANCEL", "ERROR"}
  PROVE  [type |-> type] \in SenderMessages /\ ~Reports([type |-> type])
<1>1. [type |-> type] \in [type : {"ACCEPT", "DECLINE", "COMPLETE", "CANCEL", "ERROR"}]
  OBVIOUS
<1>2. [type |-> type].type = type
  OBVIOUS
<1> QED BY <1>1, <1>2 DEF SenderMessages, Reports

\* decline(), cancel(), an offer that expires, and a write that fails
LEMMA StopsKeeps ==
  ASSUME FileInv, OneLength, UserDeclines \/ UserStops \/ ReceiverExpires \/ WriteFails
  PROVE  FileInv'
<1>1. PICK state \in {"DECLINED", "CANCELLED", "FAILED"}, type \in {"DECLINE", "CANCEL", "ERROR"} :
        ReceiverStops(state, type)
  BY DEF UserDeclines, UserStops, ReceiverExpires, WriteFails
<1>2. /\ ReceiverEnds(state) /\ ReceiverKeeps /\ UNCHANGED <<chunks, toReceiver>>
      /\ toSender' = toSender \/ (in.state # "none" /\ toSender' = Append(toSender, [type |-> type]))
  BY <1>1 DEF ReceiverStops
<1>3. [type |-> type] \in SenderMessages
  BY EndMessages
<1> QED BY <1>2, <1>3, StopKeeps

\* The end of the hash
LEMMA VerifyDoneKeeps ==
  ASSUME FileInv, OneLength, VerifyDone
  PROVE  FileInv'
<1>1. in.state # "none"
  BY DEF VerifyDone
<1>2. PICK state \in {"COMPLETED", "FAILED"}, type \in {"COMPLETE", "ERROR"} :
        /\ ReceiverEnds(state) /\ ReceiverKeeps /\ UNCHANGED <<chunks, toReceiver>>
        /\ toSender' = Append(toSender, [type |-> type])
  BY <1>1 DEF VerifyDone, ReceiverStops
<1>3. [type |-> type] \in SenderMessages
  BY EndMessages
<1> QED BY <1>1, <1>2, <1>3, StopKeeps

\* The peer says that the transfer is over.
LEMMA ReceiveEndKeeps ==
  ASSUME FileInv, OneLength, ReceiveEnd
  PROVE  FileInv'
<1>1. /\ toReceiver # <<>> /\ Head(toReceiver).type # "OFFER" /\ toReceiver' = Tail(toReceiver)
      /\ ReceiverKeeps /\ UNCHANGED <<chunks, toSender>>
  BY DEF ReceiveEnd
<1>2. /\ joined' = joined /\ sendRecord' = sendRecord /\ out' = out /\ runLength' = Length
      /\ toReceiver \in Seq(ReceiverMessages) /\ toSender' \in Seq(SenderMessages)
  BY <1>1 DEF ReceiverKeeps, FileInv, FileTypeOK
<1>3. joined /\ sendRecord # "none"
  BY <1>1 DEF FileInv, FreshInv, Idle
<1>4. /\ toReceiver' \in Seq(ReceiverMessages)
      /\ \A i \in DOMAIN toReceiver' : i + 1 \in DOMAIN toReceiver /\ toReceiver'[i] = toReceiver[i + 1]
                                         /\ i + 1 # 1
  BY <1>1, <1>2
<1>5. \A i \in DOMAIN toReceiver' : toReceiver'[i].type # "OFFER"
  BY <1>4 DEF FileInv, FreshInv
<1>6. Calm => Calm'
  BY <1>1, <1>2 DEF Calm
<1>7. CASE in.state = "none"
  <2>1. UNCHANGED <<in, row, disk>>
    BY <1>7 DEF ReceiveEnd
  <2>2. FreshInv'
    BY <1>2, <1>3, <1>5, <1>7, <2>1 DEF FreshInv
  <2>3. ~Receiving
    BY <1>7 DEF Receiving
  <2> QED BY <1>2, <1>4, <2>1, <2>2, <2>3, SenderStep
<1>8. CASE in.state # "none"
  <2>1. PICK state \in {"CANCELLED", "FAILED"} : ReceiverEnds(state)
    BY <1>8 DEF ReceiveEnd
  <2>2. /\ in' = NoIn /\ disk' \in [Chunks -> Nat] /\ PartsAreCells(disk')
        /\ Whole(row'.bitmap) /\ row'.bitmap \subseteq HeldBy(disk')
    BY <2>1, EndedDisk
  <2>3. FreshInv'
    BY <1>2, <1>3, <1>5, <2>2, NoTransfer DEF FreshInv
  <2> QED BY <1>2, <1>4, <2>2, <2>3, ReceiverGone
<1> QED BY <1>7, <1>8

\* An acknowledgement of what is received, and the books after it.
LEMMA Acknowledges ==
  ASSUME OneLength, NEW i, DOMAIN i = InFields, Whole(i.received), i.nak \subseteq Offsets
  PROVE  /\ AckOf(i) \in SenderMessages /\ AckOf(i).held = i.received
         /\ DOMAIN Acked(i) = InFields /\ Acked(i).received = i.received /\ Acked(i).writes = i.writes
         /\ Acked(i).state = i.state /\ Acked(i).nak = {}
<1>1. i.received \subseteq Chunks
  BY DEF Whole
<1>2. AckOf(i) \in [type : {"ACK"}, held : SUBSET Chunks, missing : SUBSET Offsets]
  BY <1>1 DEF AckOf
<1> QED BY <1>2 DEF AckOf, Acked, SenderMessages, InFields

\* A receiver that is running, or begins to: what its step has to keep.
LEMMA ReceiverStep ==
  ASSUME FileInv, runLength' = runLength, Receiving',
         DOMAIN in' = InFields, in'.nak \subseteq Offsets, in'.writes \in Seq(Nat \X Nat),
         \A k \in DOMAIN in'.writes : IsCell(in'.writes[k]), Whole(in'.received),
         disk' \in [Chunks -> Nat], PartsAreCells(disk'), Whole(row'.bitmap),
         in'.received \cup row'.bitmap \subseteq HeldBy(disk'),
         toSender' \in Seq(SenderMessages), toReceiver' \in Seq(ReceiverMessages), FreshInv',
         Books(out'), Chain(out'.acked, toSender', in'.received), Flying(chunks', in'.received)
  PROVE  FileInv'
<1>1. FileTypeOK'
  BY DEF FileInv, FileTypeOK
<1>2. DiskInv'
  BY DEF DiskInv, BitmapIsHonest
<1>3. Books(out)' /\ ReportsInv' /\ ChunksInv'
  BY DEF Books, BooksOpen, CellBooks, ReportsInv, ChunksInv
<1> QED BY <1>1, <1>2, <1>3 DEF FileInv

\* Sequences joined with none or one more element.
LEMMA Joins ==
  ASSUME NEW S, NEW q \in Seq(S), NEW a \in S
  PROVE  q \o <<a>> = Append(q, a) /\ q \o <<>> = q /\ <<>> \o q = q /\ Append(<<>>, a) = <<a>>
OBVIOUS

\* accept(): from a calm session, with the bitmap of the row.
LEMMA AcceptedKeeps ==
  ASSUME FileInv, OneLength, Calm, joined, sendRecord # "none", Accepted, ReceiverKeeps,
         UNCHANGED <<disk, chunks>>, toReceiver' \in Seq(ReceiverMessages),
         \A i \in DOMAIN toReceiver' : toReceiver'[i].type # "OFFER"
  PROVE  FileInv'
<1> DEFINE held == IF row.known THEN row.bitmap ELSE {}
           i    == [NoIn EXCEPT !.state = "TRANSFERRING", !.received = held]
           said == <<[type |-> "ACCEPT"]>>
                     \o (IF held = {} THEN <<>> ELSE <<[type |-> "RESUME", held |-> held]>>)
           done == Finishing(i)
<1>1. /\ row'.bitmap = held
      /\ in' = IF done THEN [Acked(i) EXCEPT !.state = "VERIFYING"] ELSE i
      /\ toSender' = toSender \o said \o (IF done THEN <<AckOf(i)>> ELSE <<>>)
  BY DEF Accepted
<1>2. /\ toSender = <<>> /\ chunks' = <<>> /\ out' \in {Offering, NoOut}
      /\ joined' = joined /\ sendRecord' = sendRecord /\ runLength' = runLength
  BY DEF Calm, ReceiverKeeps
<1>3. Whole(held) /\ held \subseteq HeldBy(disk) /\ held \subseteq Chunks
  BY Wholes DEF FileInv, DiskInv, BitmapIsHonest, Whole
<1> HIDE DEF held
<1>4. /\ DOMAIN i = InFields /\ i.state = "TRANSFERRING" /\ i.received = held
      /\ i.writes = <<>> /\ i.nak = {}
  BY DEF NoIn, InFields
<1> HIDE DEF i, done
<1>5. /\ AckOf(i) \in SenderMessages /\ AckOf(i).held = held
      /\ DOMAIN Acked(i) = InFields /\ Acked(i).received = held /\ Acked(i).writes = <<>>
      /\ Acked(i).nak = {}
  BY <1>3, <1>4, Acknowledges
<1>6. /\ DOMAIN in' = InFields /\ in'.received = held /\ in'.writes = <<>> /\ in'.nak = {}
      /\ Receiving' /\ in'.state \in {"TRANSFERRING", "VERIFYING"}
  BY <1>1, <1>4, <1>5 DEF Receiving, InFields
<1>7. toSender' \in Seq(SenderMessages) /\ Chain({}, toSender', held)
  <2> DEFINE a == [type |-> "ACCEPT"]
             b == [type |-> "RESUME", held |-> held]
             q1 == Append(<<>>, a)
             q2 == IF held = {} THEN q1 ELSE Append(q1, b)
             q3 == IF done THEN Append(q2, AckOf(i)) ELSE q2
  <2>1. a \in SenderMessages /\ ~Reports(a)
    BY EndMessages
  <2>2. b \in SenderMessages /\ b.held = held
    BY <1>3 DEF SenderMessages
  <2>3. toSender' = q3
    <3> DEFINE more == IF held = {} THEN <<>> ELSE <<b>>
               last == IF done THEN <<AckOf(i)>> ELSE <<>>
    <3>1. toSender' = <<>> \o (<<a>> \o more) \o last
      BY <1>1, <1>2
    <3> HIDE DEF a, b
    <3>2. q1 = <<a>> /\ q1 \in Seq(SenderMessages)
      BY <2>1, Joins
    <3> HIDE DEF q1
    <3>3. q1 \o more = q2 /\ q2 \in Seq(SenderMessages)
      <4>1. q1 \o <<>> = q1 /\ q1 \o <<b>> = Append(q1, b) /\ Append(q1, b) \in Seq(SenderMessages)
        BY <3>2, <2>2, Joins
      <4> QED BY <4>1, <3>2
    <3> HIDE DEF q2, more
    <3>4. <<>> \o q2 = q2 /\ q2 \o last = q3
      BY <3>3, <1>5, Joins
    <3> QED BY <3>1, <3>2, <3>3, <3>4
  <2> HIDE DEF a, b
  <2>4. <<>> \in Seq(SenderMessages) /\ Chain({}, <<>>, held)
    BY DEF Chain
  <2>5. q1 \in Seq(SenderMessages) /\ Chain({}, q1, held)
    BY <2>1, <2>4, <1>3, ChainGrows
  <2> HIDE DEF q1
  <2>6. q2 \in Seq(SenderMessages) /\ Chain({}, q2, held)
    BY <2>2, <2>5, <1>3, ChainGrows
  <2> HIDE DEF q2
  <2>7. q3 \in Seq(SenderMessages) /\ Chain({}, q3, held)
    BY <2>6, <1>3, <1>5, ChainGrows
  <2> QED BY <2>3, <2>7
<1>8. Books(out') /\ out'.acked = {}
  BY <1>2, NoBooks, NoTransfer
<1>9. Flying(chunks', in'.received)
  BY <1>2 DEF Flying
<1>10. FreshInv'
  BY <1>2, <1>6 DEF FreshInv
<1>11. disk' \in [Chunks -> Nat] /\ PartsAreCells(disk') /\ HeldBy(disk') = HeldBy(disk)
  BY DEF FileInv, FileTypeOK, DiskInv
<1>12. /\ in'.nak \subseteq Offsets /\ in'.writes \in Seq(Nat \X Nat)
       /\ \A k \in DOMAIN in'.writes : IsCell(in'.writes[k])
  BY <1>6
<1>13. /\ Whole(in'.received) /\ Whole(row'.bitmap) /\ in'.received \cup row'.bitmap \subseteq HeldBy(disk')
       /\ Chain(out'.acked, toSender', in'.received)
  BY <1>1, <1>3, <1>6, <1>7, <1>8, <1>11
<1> QED BY <1>2, <1>6, <1>7, <1>8, <1>9, <1>10, <1>11, <1>12, <1>13, ReceiverStep

\* An offer is heard: it is accepted at once, or asked about.
LEMMA ReceiveOfferKeeps ==
  ASSUME FileInv, OneLength, ReceiveOffer
  PROVE  FileInv'
<1>1. /\ toReceiver # <<>> /\ Head(toReceiver).type = "OFFER" /\ toReceiver' = Tail(toReceiver)
      /\ ReceiverKeeps /\ UNCHANGED <<disk, chunks>>
  BY DEF ReceiveOffer
<1>2. /\ toReceiver \in Seq(ReceiverMessages) /\ Head(toReceiver) = toReceiver[1]
      /\ 1 \in DOMAIN toReceiver
  BY <1>1 DEF FileInv, FileTypeOK
<1>3. Calm /\ in.state = "none" /\ joined /\ sendRecord # "none"
  BY <1>1, <1>2 DEF FileInv, FreshInv, Idle
<1>4. /\ toReceiver' \in Seq(ReceiverMessages)
      /\ \A i \in DOMAIN toReceiver' : i + 1 \in DOMAIN toReceiver /\ toReceiver'[i] = toReceiver[i + 1]
                                         /\ i + 1 # 1
  BY <1>1, <1>2
<1>5. \A i \in DOMAIN toReceiver' : toReceiver'[i].type # "OFFER"
  BY <1>4 DEF FileInv, FreshInv
<1>6. CASE Accepted
  BY <1>1, <1>3, <1>4, <1>5, <1>6, AcceptedKeeps
<1>7. CASE /\ in' = [NoIn EXCEPT !.state = "OFFERED"] /\ UNCHANGED toSender
           /\ row' = row \/ row'.bitmap = {}
  <2>1. /\ DOMAIN in' = InFields /\ in'.state = "OFFERED" /\ in'.received = {} /\ in'.writes = <<>>
        /\ in'.nak = {}
    BY <1>7 DEF NoIn, InFields
  <2>2. /\ joined' = joined /\ sendRecord' = sendRecord /\ out' = out /\ runLength' = runLength
        /\ chunks' = chunks /\ disk' = disk /\ toSender' = toSender
    BY <1>1, <1>7 DEF ReceiverKeeps
  <2>3. FreshInv'
    BY <1>3, <1>5, <2>1, <2>2 DEF FreshInv, Calm
  <2>4. FileTypeOK' /\ ~Receiving'
    BY <1>4, <2>1, <2>2 DEF FileInv, FileTypeOK, Receiving
  <2>5. DiskInv'
    <3>1. Whole({})
      BY Wholes
    <3>2. PartsAreCells(disk') /\ HeldBy(disk') = HeldBy(disk)
      BY <2>2 DEF FileInv, DiskInv
    <3>3. Whole(row'.bitmap) /\ row'.bitmap \subseteq HeldBy(disk)
      BY <1>7, <3>1 DEF FileInv, DiskInv, BitmapIsHonest
    <3> QED BY <2>1, <3>1, <3>2, <3>3 DEF DiskInv, BitmapIsHonest
  <2> QED BY <2>3, <2>4, <2>5 DEF FileInv
<1> QED BY <1>6, <1>7 DEF ReceiveOffer

\* The user says yes: to an offer of this session, or to one that is no longer there.
LEMMA UserAcceptsKeeps ==
  ASSUME FileInv, OneLength, UserAccepts
  PROVE  FileInv'
<1>1. ReceiverKeeps /\ UNCHANGED <<chunks, toReceiver>>
  BY DEF UserAccepts
<1>2. CASE in.state = "OFFERED"
  <2>1. Accepted /\ UNCHANGED disk
    BY <1>2 DEF UserAccepts
  <2>2. Calm /\ joined /\ sendRecord # "none"
    BY <1>2, NoTransfer DEF FileInv, FreshInv, Idle
  <2>3. toReceiver' \in Seq(ReceiverMessages) /\ \A i \in DOMAIN toReceiver' : toReceiver'[i].type # "OFFER"
    BY <1>1, <1>2 DEF FileInv, FileTypeOK, FreshInv
  <2> QED BY <1>1, <2>1, <2>2, <2>3, AcceptedKeeps
<1>3. CASE in.state # "OFFERED"
  <2>1. ReceiverEnds("CANCELLED") /\ toSender' = toSender
    BY <1>3 DEF UserAccepts
  <2>2. [type |-> "CANCEL"] \in SenderMessages
    BY EndMessages
  <2> QED BY <1>1, <2>1, <2>2, StopKeeps
<1> QED BY <1>2, <1>3

\* What a running receiver leaves alone.
LEMMA RunningStep ==
  ASSUME FileInv, Receiving, ReceiverKeeps, UNCHANGED toReceiver, in'.state # "OFFERED"
  PROVE  /\ FreshInv' /\ toReceiver' \in Seq(ReceiverMessages)
         /\ runLength' = runLength /\ out' = out /\ Books(out')
<1>1. sendRecord # "none" /\ joined' = joined /\ sendRecord' = sendRecord /\ out' = out
      /\ runLength' = runLength
  BY Busy DEF FileInv, ReceiverKeeps
<1>2. FreshInv' /\ toReceiver' \in Seq(ReceiverMessages)
  BY <1>1, StaysFresh
<1>3. Books(out)
  BY DEF FileInv
<1> QED BY <1>1, <1>2, <1>3

\* A chunk arrives and is written, or only counted.
LEMMA ReceiveChunkKeeps ==
  ASSUME FileInv, OneLength, ReceiveChunk
  PROVE  FileInv'
<1> DEFINE run == Head(chunks)
<1>1. /\ chunks # <<>> /\ chunks' = Tail(chunks) /\ ReceiverKeeps
      /\ UNCHANGED <<disk, row, toReceiver, toSender>>
  BY DEF ReceiveChunk
<1>2. CASE in.state # "TRANSFERRING"
  <2>1. in' = in
    BY <1>2 DEF ReceiveChunk
  <2>2. joined' = joined /\ sendRecord' = sendRecord /\ out' = out /\ runLength' = Length
    BY <1>1 DEF ReceiverKeeps, FileInv, FileTypeOK
  <2>3. ~Calm /\ in.state # "OFFERED" /\ sendRecord # "none"
    BY <1>1, NotCalm, Busy DEF FileInv
  <2>4. FreshInv' /\ toReceiver' \in Seq(ReceiverMessages)
    BY <1>1, <2>1, <2>2, <2>3, StaysFresh
  <2>5. toSender' \in Seq(SenderMessages)
    BY <1>1 DEF FileInv, FileTypeOK
  <2>6. ASSUME Receiving
        PROVE  Books(out') /\ Chain(out'.acked, toSender', in.received) /\ Flying(chunks', in.received)
    <3>1. Books(out) /\ Chain(out.acked, toSender, in.received) /\ Flying(chunks, in.received)
      BY <2>6 DEF FileInv, ReportsInv, ChunksInv
    <3> QED BY <3>1, <1>1, <2>2, FlyingKeeps
  <2> QED BY <1>1, <2>1, <2>2, <2>4, <2>5, <2>6, SenderStep
<1>3. CASE in.state = "TRANSFERRING"
  <2> DEFINE ws == IF RunOf(run) \subseteq in.received \/ Len(in.writes) >= MaxWrites THEN in.writes
                   ELSE Append(in.writes, run)
  <2>1. Receiving
    BY <1>3 DEF Receiving
  <2>2. /\ DOMAIN in = InFields /\ in.nak \subseteq Offsets /\ in.writes \in Seq(Nat \X Nat)
        /\ \A k \in DOMAIN in.writes : IsCell(in.writes[k])
        /\ Whole(in.received) /\ Whole(row.bitmap) /\ in.received \cup row.bitmap \subseteq HeldBy(disk)
        /\ disk \in [Chunks -> Nat] /\ PartsAreCells(disk) /\ toSender \in Seq(SenderMessages)
        /\ Chain(out.acked, toSender, in.received) /\ Flying(chunks, in.received)
    BY <2>1 DEF FileInv, FileTypeOK, DiskInv, BitmapIsHonest, ReportsInv, ChunksInv
  <2>3. Flying(chunks', in.received) /\ run = chunks[1] /\ 1 \in DOMAIN chunks
    BY <1>1, <2>2, FlyingKeeps
  <2>4. IsCell(run) \/ (IsHead(run) /\ Cell(run[1]) \subseteq in.received)
    BY <2>2, <2>3 DEF Flying
  <2>5. RunOf(run) \subseteq in.received \/ IsCell(run)
    <3>1. IsHead(run) => RunOf(run) = {run[1]} /\ run[1] \in Cell(run[1])
      BY Entry, Cells DEF IsEntry
    <3> QED BY <2>4, <3>1
  <2>6. run \in Nat \X Nat
    BY <2>4, Entry DEF IsEntry
  <2>7. in' = [in EXCEPT !.sinceAck = IF @ < AckEvery THEN @ + 1 ELSE @, !.ackPending = TRUE, !.writes = ws]
    BY <1>3 DEF ReceiveChunk, Taken
  <2> HIDE DEF run
  <2>8. ws \in Seq(Nat \X Nat) /\ \A k \in DOMAIN ws : IsCell(ws[k])
    <3>1. CASE ws = in.writes
      BY <3>1, <2>2
    <3>2. CASE ws = Append(in.writes, run) /\ IsCell(run)
      <4>1. /\ ws \in Seq(Nat \X Nat)
            /\ \A k \in DOMAIN ws : (k \in DOMAIN in.writes /\ ws[k] = in.writes[k]) \/ ws[k] = run
        BY <3>2, <2>2, <2>6
      <4> QED BY <3>2, <4>1, <2>2
    <3> QED BY <3>1, <3>2, <2>5
  <2> HIDE DEF ws
  <2>9. /\ DOMAIN in' = InFields /\ in'.nak = in.nak /\ in'.writes = ws /\ in'.received = in.received
        /\ in'.state = "TRANSFERRING"
    BY <1>3, <2>2, <2>7 DEF InFields
  <2>10. Receiving' /\ in'.state # "OFFERED"
    BY <2>9 DEF Receiving
  <2>11. /\ FreshInv' /\ toReceiver' \in Seq(ReceiverMessages)
         /\ runLength' = runLength /\ out' = out /\ Books(out')
    BY <1>1, <2>1, <2>10, RunningStep
  <2> QED BY <1>1, <2>2, <2>3, <2>8, <2>9, <2>10, <2>11, ReceiverStep
<1> QED BY <1>2, <1>3

\* A damaged chunk is asked for again.
LEMMA ReceiveDamagedKeeps ==
  ASSUME FileInv, OneLength, ReceiveDamaged
  PROVE  FileInv'
<1> DEFINE run == Head(chunks)
<1>1. /\ chunks # <<>> /\ chunks' = Tail(chunks) /\ ReceiverKeeps /\ in.state = "TRANSFERRING"
      /\ UNCHANGED <<disk, row, toReceiver, toSender>>
      /\ in' = [in EXCEPT !.nak = @ \cup {run[1]}, !.ackPending = TRUE]
  BY DEF ReceiveDamaged
<1>2. Receiving
  BY <1>1 DEF Receiving
<1>3. /\ DOMAIN in = InFields /\ in.nak \subseteq Offsets /\ in.writes \in Seq(Nat \X Nat)
      /\ \A k \in DOMAIN in.writes : IsCell(in.writes[k])
      /\ Whole(in.received) /\ Whole(row.bitmap) /\ in.received \cup row.bitmap \subseteq HeldBy(disk)
      /\ disk \in [Chunks -> Nat] /\ PartsAreCells(disk) /\ toSender \in Seq(SenderMessages)
      /\ Chain(out.acked, toSender, in.received) /\ Flying(chunks, in.received)
  BY <1>2 DEF FileInv, FileTypeOK, DiskInv, BitmapIsHonest, ReportsInv, ChunksInv
<1>4. Flying(chunks', in.received) /\ run = chunks[1] /\ 1 \in DOMAIN chunks
  BY <1>1, <1>3, FlyingKeeps
<1>5. run[1] \in Offsets
  BY <1>3, <1>4 DEF Flying, IsCell, IsHead
<1> HIDE DEF run
<1>6. /\ DOMAIN in' = InFields /\ in'.nak \subseteq Offsets /\ in'.writes = in.writes
      /\ in'.received = in.received /\ in'.state = "TRANSFERRING"
  BY <1>1, <1>3, <1>5 DEF InFields
<1>7. Receiving' /\ in'.state # "OFFERED"
  BY <1>6 DEF Receiving
<1>8. /\ FreshInv' /\ toReceiver' \in Seq(ReceiverMessages)
      /\ runLength' = runLength /\ out' = out /\ Books(out')
  BY <1>1, <1>2, <1>7, RunningStep
<1> QED BY <1>1, <1>3, <1>4, <1>6, <1>7, <1>8, ReceiverStep

\* What is left of a sequence when one element is taken out was in it.
LEMMA Removed ==
  ASSUME NEW S, NEW q \in Seq(S), NEW k \in DOMAIN q
  PROVE  /\ RemoveAt(q, k) \in Seq(S)
         /\ \A i \in DOMAIN RemoveAt(q, k) : \E j \in DOMAIN q : RemoveAt(q, k)[i] = q[j]
<1> DEFINE a == SubSeq(q, 1, k - 1)
           b == SubSeq(q, k + 1, Len(q))
<1>1. DOMAIN q = 1..Len(q) /\ Len(q) \in Nat /\ k \in 1..Len(q)
  OBVIOUS
<1>2. /\ a \in Seq(S) /\ Len(a) \in Nat /\ DOMAIN a = 1..Len(a)
      /\ \A i \in DOMAIN a : i \in DOMAIN q /\ a[i] = q[i]
  BY <1>1
<1>3. b \in Seq(S) /\ Len(b) \in Nat /\ DOMAIN b = 1..Len(b)
  BY <1>1
<1>4. \A i \in DOMAIN b : k + i \in DOMAIN q /\ b[i] = q[k + i]
  BY <1>1
<1> HIDE DEF a, b
<1>5. /\ a \o b \in Seq(S) /\ DOMAIN (a \o b) = 1..(Len(a) + Len(b))
      /\ \A i \in 1..(Len(a) + Len(b)) : (a \o b)[i] = IF i <= Len(a) THEN a[i] ELSE b[i - Len(a)]
  BY <1>2, <1>3
<1>6. ASSUME NEW i \in DOMAIN (a \o b)
      PROVE  \E j \in DOMAIN q : (a \o b)[i] = q[j]
  <2>1. CASE i <= Len(a)
    <3>1. i \in DOMAIN a
      BY <1>2, <1>5, <2>1
    <3> QED BY <1>2, <1>5, <2>1, <3>1
  <2>2. CASE ~(i <= Len(a))
    <3>1. i - Len(a) \in DOMAIN b
      BY <1>2, <1>3, <1>5, <2>2
    <3> QED BY <1>4, <1>5, <2>2, <3>1
  <2> QED BY <2>1, <2>2
<1>7. RemoveAt(q, k) = a \o b
  BY DEF RemoveAt, a, b
<1> QED BY <1>5, <1>6, <1>7

\* The bytes are down: the bits are set, and what is due is reported.
LEMMA WriteDoneKeeps ==
  ASSUME FileInv, OneLength, NEW k \in DOMAIN in.writes, WriteDone(k)
  PROVE  FileInv'
<1> DEFINE run   == in.writes[k]
           left  == RemoveAt(in.writes, k)
           top   == in.received \cup RunOf(run)
           wrote == [in EXCEPT !.writes = left, !.received = top, !.nak = @ \ {run[1]}]
           acks  == wrote.sinceAck >= AckEvery
           after == IF acks THEN Acked(wrote) ELSE wrote
           done  == Finishing(after)
<1>1. /\ disk' = Written(<<run>>)
      /\ in' = IF done THEN [Acked(after) EXCEPT !.state = "VERIFYING"] ELSE after
      /\ toSender' = toSender \o (IF acks THEN <<AckOf(wrote)>> ELSE <<>>)
                              \o (IF done THEN <<AckOf(after)>> ELSE <<>>)
      /\ ReceiverKeeps /\ UNCHANGED <<row, chunks, toReceiver>>
  BY DEF WriteDone
<1>2. Receiving
  <2>1. in.writes # <<>>
    OBVIOUS
  <2> QED BY <2>1 DEF FileInv, FileTypeOK
<1>3. /\ DOMAIN in = InFields /\ in.nak \subseteq Offsets /\ in.writes \in Seq(Nat \X Nat)
      /\ \A j \in DOMAIN in.writes : IsCell(in.writes[j])
      /\ Whole(in.received) /\ Whole(row.bitmap) /\ in.received \cup row.bitmap \subseteq HeldBy(disk)
      /\ disk \in [Chunks -> Nat] /\ PartsAreCells(disk) /\ toSender \in Seq(SenderMessages)
      /\ Chain(out.acked, toSender, in.received) /\ Flying(chunks, in.received)
  BY <1>2 DEF FileInv, FileTypeOK, DiskInv, BitmapIsHonest, ReportsInv, ChunksInv
<1>4. IsCell(run) /\ run \in Nat \X Nat
  BY <1>3
<1>5. left \in Seq(Nat \X Nat) /\ \A j \in DOMAIN left : IsCell(left[j])
  BY <1>3, Removed
<1>6. Whole(top) /\ in.received \subseteq top
  <2>1. RunOf(run) = Cell(run[1]) /\ run[1] \in Offsets
    BY <1>4 DEF IsCell
  <2> QED BY <2>1, <1>3, Wholes
<1>7. /\ disk' \in [Chunks -> Nat] /\ PartsAreCells(disk') /\ HeldBy(disk) \subseteq HeldBy(disk')
      /\ RunOf(run) \subseteq HeldBy(disk')
  <2> DEFINE ws == <<run>>
  <2>1. ws \in Seq(Nat \X Nat) /\ \A j \in DOMAIN ws : IsCell(ws[j])
    BY <1>4
  <2>2. RunOf(run) \subseteq HeldBy(Written(ws))
    BY <1>4, WriteIsHeld
  <2>3. disk' = Written(ws)
    BY <1>1
  <2> HIDE DEF ws, run
  <2> QED BY <1>3, <2>1, <2>2, <2>3, WritesKeep
<1>8. top \cup row.bitmap \subseteq HeldBy(disk')
  BY <1>3, <1>7
<1> HIDE DEF left, top
<1>9. /\ DOMAIN wrote = InFields /\ wrote.writes = left /\ wrote.received = top
      /\ wrote.nak \subseteq Offsets /\ wrote.state = in.state
  BY <1>3 DEF InFields
<1> HIDE DEF wrote
<1>10. /\ AckOf(wrote) \in SenderMessages /\ AckOf(wrote).held = top
       /\ DOMAIN after = InFields /\ after.writes = left /\ after.received = top
       /\ after.nak \subseteq Offsets /\ after.state = in.state
  BY <1>6, <1>9, Acknowledges
<1> HIDE DEF acks, after
<1>11. /\ AckOf(after) \in SenderMessages /\ AckOf(after).held = top
       /\ DOMAIN Acked(after) = InFields /\ Acked(after).writes = left /\ Acked(after).received = top
       /\ Acked(after).nak = {}
  BY <1>6, <1>10, Acknowledges
<1> HIDE DEF done
<1>12. /\ DOMAIN in' = InFields /\ in'.writes = left /\ in'.received = top /\ in'.nak \subseteq Offsets
       /\ in'.state \in {in.state, "VERIFYING"}
  <2>1. CASE ~done
    BY <2>1, <1>1, <1>10
  <2>2. CASE done
    BY <2>2, <1>1, <1>11 DEF InFields
  <2> QED BY <2>1, <2>2
<1>13. Receiving' /\ in'.state # "OFFERED"
  BY <1>2, <1>12 DEF Receiving
<1>14. /\ FreshInv' /\ toReceiver' \in Seq(ReceiverMessages)
       /\ runLength' = runLength /\ out' = out /\ Books(out')
  BY <1>1, <1>2, <1>13, RunningStep
<1>15. toSender' \in Seq(SenderMessages) /\ Chain(out.acked, toSender', top)
  <2> DEFINE q1 == IF acks THEN Append(toSender, AckOf(wrote)) ELSE toSender
             q2 == IF done THEN Append(q1, AckOf(after)) ELSE q1
  <2>1. Chain(out.acked, toSender, top)
    BY <1>3, <1>6 DEF Chain
  <2>2. q1 \in Seq(SenderMessages) /\ Chain(out.acked, q1, top)
    BY <2>1, <1>3, <1>6, <1>10, ChainGrows
  <2>3. q1 = toSender \o (IF acks THEN <<AckOf(wrote)>> ELSE <<>>)
    BY <1>3, <1>10, Joins
  <2> HIDE DEF q1
  <2>4. q2 \in Seq(SenderMessages) /\ Chain(out.acked, q2, top)
    BY <2>2, <1>6, <1>11, ChainGrows
  <2>5. q2 = q1 \o (IF done THEN <<AckOf(after)>> ELSE <<>>)
    BY <2>2, <1>11, Joins
  <2> QED BY <1>1, <2>3, <2>4, <2>5
<1>16. Flying(chunks', top)
  BY <1>1, <1>3, <1>6, FlyingKeeps
<1>17. /\ \A j \in DOMAIN in'.writes : IsCell(in'.writes[j])
       /\ in'.writes \in Seq(Nat \X Nat) /\ Whole(in'.received) /\ Whole(row'.bitmap)
       /\ in'.received \cup row'.bitmap \subseteq HeldBy(disk')
       /\ Chain(out'.acked, toSender', in'.received) /\ Flying(chunks', in'.received)
  BY <1>1, <1>3, <1>5, <1>6, <1>8, <1>12, <1>14, <1>15, <1>16
<1> QED BY <1>7, <1>12, <1>13, <1>14, <1>15, <1>17, ReceiverStep

\* The receiver says what it has: on its tick, and when the session has changed links.
LEMMA ReceiverReports ==
  ASSUME FileInv, OneLength, ReceiverTick \/ ReceiverMoves
  PROVE  FileInv'
<1>1. ReceiverKeeps /\ UNCHANGED <<disk, row, chunks, toReceiver>>
  BY DEF ReceiverTick, ReceiverMoves
<1>2. CASE in.state # "TRANSFERRING"
  <2>1. UNCHANGED <<in, toSender>>
    BY <1>2 DEF ReceiverTick, ReceiverMoves
  <2> QED BY <1>1, <2>1, OtherStep DEF ReceiverKeeps
<1>3. CASE in.state = "TRANSFERRING"
  <2>1. Receiving
    BY <1>3 DEF Receiving
  <2>2. /\ DOMAIN in = InFields /\ in.nak \subseteq Offsets /\ in.writes \in Seq(Nat \X Nat)
        /\ \A j \in DOMAIN in.writes : IsCell(in.writes[j])
        /\ Whole(in.received) /\ Whole(row.bitmap) /\ in.received \cup row.bitmap \subseteq HeldBy(disk)
        /\ disk \in [Chunks -> Nat] /\ PartsAreCells(disk) /\ toSender \in Seq(SenderMessages)
        /\ Chain(out.acked, toSender, in.received) /\ Flying(chunks, in.received)
    BY <2>1 DEF FileInv, FileTypeOK, DiskInv, BitmapIsHonest, ReportsInv, ChunksInv
  <2>3. /\ AckOf(in) \in SenderMessages /\ AckOf(in).held = in.received
        /\ DOMAIN Acked(in) = InFields /\ Acked(in).received = in.received
        /\ Acked(in).writes = in.writes /\ Acked(in).state = in.state /\ Acked(in).nak = {}
    BY <2>2, Acknowledges
  <2>4. /\ DOMAIN in' = InFields /\ in'.received = in.received /\ in'.writes = in.writes
        /\ in'.state = in.state /\ in'.nak \subseteq Offsets
    BY <2>2, <2>3 DEF ReceiverTick, ReceiverMoves
  <2>5. PICK n \in SenderMessages : n.held = in.received /\ toSender' = Append(toSender, n)
    <3>1. CASE ReceiverTick
      BY <3>1, <2>3 DEF ReceiverTick
    <3>2. CASE ReceiverMoves
      <4>1. in.received \subseteq Chunks
        BY <2>2 DEF Whole
      <4>2. [type |-> "RESUME", held |-> in.received] \in SenderMessages
        BY <4>1 DEF SenderMessages
      <4> QED BY <3>2, <1>3, <4>2 DEF ReceiverMoves
    <3> QED BY <3>1, <3>2
  <2>6. Receiving' /\ in'.state # "OFFERED"
    BY <1>3, <2>4 DEF Receiving
  <2>7. /\ FreshInv' /\ toReceiver' \in Seq(ReceiverMessages)
        /\ runLength' = runLength /\ out' = out /\ Books(out')
    BY <1>1, <2>1, <2>6, RunningStep
  <2>8. toSender' \in Seq(SenderMessages) /\ Chain(out.acked, toSender', in.received)
    BY <2>2, <2>5, ChainGrows
  <2>9. /\ \A j \in DOMAIN in'.writes : IsCell(in'.writes[j])
        /\ in'.writes \in Seq(Nat \X Nat) /\ Whole(in'.received) /\ Whole(row'.bitmap)
        /\ in'.received \cup row'.bitmap \subseteq HeldBy(disk')
        /\ Chain(out'.acked, toSender', in'.received) /\ Flying(chunks', in'.received)
        /\ disk' \in [Chunks -> Nat] /\ PartsAreCells(disk')
    BY <1>1, <2>2, <2>4, <2>7, <2>8
  <2> QED BY <2>4, <2>6, <2>7, <2>8, <2>9, ReceiverStep
<1> QED BY <1>2, <1>3

-----------------------------------------------------------------------------
(* The theorem. *)

\* Every step keeps the invariant.
LEMMA NextInv ==
  ASSUME FileInv, OneLength, FileNext
  PROVE  FileInv'
<1>1. CASE FileEnvironment
  <2>1. MoveLink => UNCHANGED <<joined, runLength, sendRecord, out, in, disk, row, chunks,
                                toReceiver, toSender>>
    BY DEF MoveLink
  <2> QED BY <1>1, <2>1, SendFileKeeps, PartKeeps, OtherStep, PersistKeeps, SenderCancelsKeeps,
             UserAcceptsKeeps, StopsKeeps, ReceiveDamagedKeeps, GiveUpChunkKeeps DEF FileEnvironment
<1>2. CASE FileProtocol
  BY <1>2, ReadDoneKeeps, ReceiveChunkKeeps, ReceiverReports, SenderReceivesKeeps, ReceiveOfferKeeps,
     ReceiveEndKeeps, SenderExpiresKeeps, StopsKeeps, VerifyDoneKeeps, SenderMovesKeeps,
     SenderTickKeeps, WriteDoneKeeps, ChunkTimeoutKeeps DEF FileProtocol
<1> QED BY <1>1, <1>2 DEF FileNext

\* The invariant holds throughout: what is written are cells, and the sender's books, the
\* reports to it and the chunks under way stay in step with what is received.
THEOREM TransfersKeepBooks ==
  ASSUME OneLength
  PROVE  FileSpec => []FileInv
<1>1. FileInit => FileInv
  BY InitInv
<1>2. FileInv /\ [FileNext]_fileVars => FileInv'
  <2> SUFFICES ASSUME FileInv, [FileNext]_fileVars
               PROVE  FileInv'
    OBVIOUS
  <2>1. CASE FileNext
    BY <2>1, NextInv
  <2>2. CASE UNCHANGED fileVars
    BY <2>2, OtherStep DEF fileVars
  <2> QED BY <2>1, <2>2
<1> QED BY <1>1, <1>2, PTL DEF FileSpec

\* "A bitmap persisted at any instant never claims more than the disk actually holds"
\* (transfer.ts), for a file of any size, any window, any number of mishaps, and links that
\* carry runs of one length.
THEOREM BitmapsAreHonest ==
  ASSUME OneLength
  PROVE  FileSpec => []BitmapIsHonest
<1>1. FileInv => BitmapIsHonest
  BY DEF FileInv, DiskInv
<1>2. FileSpec => []FileInv
  BY TransfersKeepBooks
<1> QED BY <1>1, <1>2, PTL

-----------------------------------------------------------------------------
(* The file that is stitched together. *)

\* The first chunks of the file, in order.
UpTo(e) == [k \in 1..e |-> k - 1]

\* A function that stitches the parts below each offset.
Stitches(f, N) ==
  f = [c \in 0..N |-> IF c = 0 THEN <<>> ELSE f[c - 1] \o PartAt(c - 1)]

\* The recursive function of Stitched exists: a least argument without a value would have one.
LEMMA StitchesExist ==
  ASSUME NEW N \in Nat
  PROVE  \E f : Stitches(f, N)
<1> DEFINE T == {k \in Nat : ~\E f : Stitches(f, k)}
<1>1. SUFFICES ASSUME T # {}  PROVE FALSE
  <2>1. T = {}
    BY <1>1
  <2> QED BY <2>1
<1>2. PICK k \in T : \A y \in T : k <= y
  <2> HIDE DEF T
  <2>1. T \subseteq Nat
    BY DEF T
  <2> QED BY <1>1, <2>1, LeastElement
<1>3. k # 0
  <2>1. Stitches([n \in 0..0 |-> <<>>], 0)
    BY DEF Stitches
  <2> QED BY <2>1
<1>4. PICK f : Stitches(f, k - 1)
  <2>1. k - 1 \in Nat /\ k - 1 \notin T
    BY <1>2, <1>3
  <2> QED BY <2>1
<1> DEFINE g == [n \in 0..k |-> IF n = k THEN f[k - 1] \o PartAt(k - 1) ELSE f[n]]
<1>5. Stitches(g, k)
  <2>1. ASSUME NEW n \in 0..k
        PROVE  g[n] = IF n = 0 THEN <<>> ELSE g[n - 1] \o PartAt(n - 1)
    <3>1. CASE n = k
      BY <3>1, <1>3
    <3>2. CASE n # k
      <4>1. n \in 0..(k - 1) /\ (n # 0 => n - 1 \in 0..(k - 1))
        BY <3>2
      <4>2. f[n] = IF n = 0 THEN <<>> ELSE f[n - 1] \o PartAt(n - 1)
        BY <4>1, <1>4 DEF Stitches
      <4>3. g[n] = f[n] /\ (n # 0 => g[n - 1] = f[n - 1])
        BY <4>1, <3>2
      <4> QED BY <4>2, <4>3
    <3> QED BY <3>1, <3>2
  <2>2. g = [n \in 0..k |-> g[n]]
    OBVIOUS
  <2> HIDE DEF g
  <2> QED BY <2>1, <2>2 DEF Stitches
<1> QED BY <1>5

\* A part after the chunks before it.
LEMMA PartJoins ==
  ASSUME NEW c \in Nat, NEW n \in Nat
  PROVE  UpTo(c) \o [k \in 1..n |-> c + k - 1] = UpTo(c + n)
<1>1. UpTo(c) \in Seq(Nat) /\ [k \in 1..n |-> c + k - 1] \in Seq(Nat)
  <2>1. \A k \in 1..c : k - 1 \in Nat
    OBVIOUS
  <2>2. \A k \in 1..n : c + k - 1 \in Nat
    OBVIOUS
  <2> QED BY <2>1, <2>2 DEF UpTo
<1>2. Len(UpTo(c)) = c /\ Len([k \in 1..n |-> c + k - 1]) = n
  BY DEF UpTo
<1> QED BY <1>1, <1>2 DEF UpTo

\* The parts, when every chunk can be read back: a cell at each of its offsets, and no other.
LEMMA PartsOfAll ==
  ASSUME OneLength, PartsAreCells(disk), disk \in [Chunks -> Nat], HeldBy(disk) = Chunks,
         NEW c \in Chunks
  PROVE  /\ c \notin Offsets => disk[c] = 0
         /\ c \in Offsets => /\ disk[c] \in Nat \ {0} /\ c + disk[c] <= NumChunks
                             /\ \A x \in (c + 1)..(c + disk[c] - 1) : x \notin Offsets
                             /\ c + disk[c] = NumChunks \/ c + disk[c] \in Offsets
<1>1. c \in Nat /\ c < NumChunks /\ Length \in Nat \ {0} /\ NumChunks \in Nat \ {0}
  BY LengthFacts DEF Chunks
<1>2. c \notin Offsets => disk[c] = 0
  BY DEF PartsAreCells, IsCell
<1>3. ASSUME c \in Offsets
      PROVE  /\ disk[c] \in Nat \ {0} /\ c + disk[c] <= NumChunks
             /\ \A x \in (c + 1)..(c + disk[c] - 1) : x \notin Offsets
             /\ c + disk[c] = NumChunks \/ c + disk[c] \in Offsets
  <2> DEFINE d == disk[c]
  <2>1. d \in Nat \ {0} /\ RunOf(<<c, d>>) = Cell(c)
    <3>1. PICK o \in Chunks : c \in RunOf(<<o, disk[o]>>)
      BY Held
    <3>2. disk[o] # 0
      BY <3>1, NoPart
    <3>3. IsCell(<<o, disk[o]>>)
      BY <3>2 DEF PartsAreCells
    <3>4. o \in Offsets /\ RunOf(<<o, disk[o]>>) = Cell(o)
      BY <3>3 DEF IsCell
    <3>5. o = c
      BY <1>3, <3>1, <3>4, Cells
    <3> QED BY <3>2, <3>4, <3>5
  <2> HIDE DEF d
  <2>2. \A x : x \in c..(c + d - 1) <=> x \in Cell(c)
    BY <2>1 DEF RunOf
  <2>3. \A x \in Int : x \in Cell(c) <=> (x < NumChunks /\ c <= x /\ x < c + Length)
    BY <1>1 DEF Cell, Chunks
  <2>4. c + d - 1 \in Int /\ c + d - 1 \in Cell(c) /\ c + d \in Int /\ c + d \notin Cell(c)
    BY <1>1, <2>1, <2>2
  <2>5. c + d <= NumChunks /\ (c + d = NumChunks \/ c + d = c + Length)
    BY <1>1, <2>1, <2>3, <2>4
  <2>6. \A x \in (c + 1)..(c + d - 1) : x \notin Offsets
    <3> TAKE x \in (c + 1)..(c + d - 1)
    <3>1. x \in Cell(c) /\ x # c
      BY <1>1, <2>1, <2>2
    <3> QED BY <1>3, <3>1, Cells
  <2>7. c + d = NumChunks \/ c + d \in Offsets
    <3> SUFFICES ASSUME c + d # NumChunks  PROVE c + d \in Offsets
      OBVIOUS
    <3>1. PICK k \in 0..NumChunks : c = Length * k
      BY <1>3 DEF Offsets
    <3>2. c + d = Length * (k + 1) /\ c + d \in Chunks
      BY <1>1, <2>1, <2>5, <3>1 DEF Chunks
    <3>3. k + 1 <= Length * (k + 1)
      BY <1>1, QuotientBound
    <3>4. k + 1 \in 0..NumChunks
      BY <1>1, <2>5, <3>2, <3>3
    <3> QED BY <3>2, <3>4 DEF Offsets
  <2> QED BY <2>1, <2>5, <2>6, <2>7 DEF d
<1> QED BY <1>2, <1>3

\* What is stitched, once every chunk can be read back, is the file.
LEMMA StitchedIsTheFile ==
  ASSUME OneLength, PartsAreCells(disk), disk \in [Chunks -> Nat], HeldBy(disk) = Chunks
  PROVE  Stitched = UpTo(NumChunks)
<1> DEFINE f == CHOOSE f : Stitches(f, NumChunks)
           \* Below c the parts make up the file as far as the next offset from c on.
           Right(c) == \E e \in c..NumChunks :
                         /\ f[c] = UpTo(e)
                         /\ \A x \in c..(e - 1) : x \notin Offsets
                         /\ e = NumChunks \/ e \in Offsets
           Wrong == {c \in 0..NumChunks : ~Right(c)}
<1>1. NumChunks \in Nat \ {0} /\ Length \in Nat \ {0}
  BY LengthFacts
<1>2. Stitched = f[NumChunks]
  BY DEF Stitched, Stitches
<1>3. \A c \in 0..NumChunks : f[c] = IF c = 0 THEN <<>> ELSE f[c - 1] \o PartAt(c - 1)
  <2>1. Stitches(f, NumChunks)
    BY <1>1, StitchesExist
  <2> HIDE DEF f
  <2> QED BY <2>1 DEF Stitches
<1> HIDE DEF f
<1>4. Right(0)
  <2>1. f[0] = UpTo(0)
    BY <1>1, <1>3 DEF UpTo
  <2>2. 0 \in Offsets
    <3>1. 0 \in Chunks /\ 0 \in 0..NumChunks /\ 0 = Length * 0
      BY <1>1 DEF Chunks
    <3> QED BY <3>1 DEF Offsets
  <2> QED BY <1>1, <2>1, <2>2
<1>5. ASSUME NEW n \in 1..NumChunks, Right(n - 1)
      PROVE  Right(n)
  <2> DEFINE c == n - 1
  <2>1. c \in Chunks /\ c \in Nat /\ c < NumChunks /\ n = c + 1
    BY <1>1 DEF Chunks
  <2>2. PICK e \in c..NumChunks : /\ f[c] = UpTo(e)
                                  /\ \A x \in c..(e - 1) : x \notin Offsets
                                  /\ e = NumChunks \/ e \in Offsets
    BY <1>5
  <2>3. f[n] = f[c] \o PartAt(c)
    <3>1. n \in 0..NumChunks /\ n # 0
      BY <1>1
    <3> QED BY <1>3, <3>1
  <2> HIDE DEF c
  <2>4. e \in Nat /\ c <= e /\ e <= NumChunks
    BY <1>1, <2>1
  <2>5. CASE c \in Offsets
    <3>1. e = c
      <4>1. c < e => c \in c..(e - 1)
        BY <2>1, <2>4
      <4> QED BY <2>1, <2>2, <2>4, <2>5, <4>1
    <3>2. /\ disk[c] \in Nat \ {0} /\ c + disk[c] <= NumChunks
          /\ \A x \in (c + 1)..(c + disk[c] - 1) : x \notin Offsets
          /\ c + disk[c] = NumChunks \/ c + disk[c] \in Offsets
      BY <2>1, <2>5, PartsOfAll
    <3>3. f[n] = UpTo(c + disk[c])
      BY <2>1, <2>2, <2>3, <3>1, <3>2, PartJoins DEF PartAt
    <3>4. c + disk[c] \in n..NumChunks
      BY <1>1, <2>1, <3>2
    <3> QED BY <2>1, <3>2, <3>3, <3>4
  <2>6. CASE c \notin Offsets
    <3>1. c + 1 <= e
      BY <1>1, <2>1, <2>2, <2>4, <2>6
    <3>2. disk[c] = 0
      BY <2>1, <2>6, PartsOfAll
    <3>3. f[n] = UpTo(e + 0)
      <4>1. PartAt(c) = [k \in 1..0 |-> e + k - 1]
        BY <3>2 DEF PartAt
      <4> QED BY <2>2, <2>3, <2>4, <4>1, PartJoins
    <3>4. f[n] = UpTo(e)
      BY <2>4, <3>3
    <3>5. e \in n..NumChunks /\ \A x \in n..(e - 1) : x \notin Offsets
      BY <1>1, <2>1, <2>2, <2>4, <3>1
    <3> QED BY <2>2, <3>4, <3>5
  <2> QED BY <2>5, <2>6
<1>6. Wrong = {}
  <2> SUFFICES ASSUME Wrong # {}  PROVE FALSE
    OBVIOUS
  <2>1. Wrong \subseteq Nat
    OBVIOUS
  <2>2. PICK n \in Wrong : \A y \in Wrong : n <= y
    <3> HIDE DEF Wrong
    <3> QED BY <2>1, LeastElement
  <2> HIDE DEF Right
  <2>3. n # 0 /\ n \in 1..NumChunks
    BY <1>1, <1>4
  <2>4. n - 1 \in 0..NumChunks /\ n - 1 \notin Wrong
    BY <1>1, <2>2, <2>3
  <2> QED BY <1>5, <2>3, <2>4
<1>7. Right(NumChunks)
  <2> HIDE DEF Right
  <2>1. NumChunks \in 0..NumChunks
    BY <1>1
  <2> QED BY <1>6, <2>1
<1>8. PICK e \in NumChunks..NumChunks : f[NumChunks] = UpTo(e)
  BY <1>7
<1>9. e = NumChunks
  BY <1>1
<1> QED BY <1>2, <1>8, <1>9


-----------------------------------------------------------------------------
(* What the sender shows as completed. *)

Completes(messages) == \E i \in DOMAIN messages : messages[i].type = "COMPLETE"

\* Nothing or the whole file has been saved, the whole file before the sender is told, and
\* before the sender shows it.
SavedInv ==
  /\ saved = <<>> \/ saved = UpTo(NumChunks)
  /\ Completes(toSender) \/ sendRecord = "COMPLETED" => saved = UpTo(NumChunks)

\* The sender is told of completion by no other message.
LEMMA OtherWords ==
  ASSUME NEW q \in Seq(SenderMessages), ~Completes(q)
  PROVE  /\ q # <<>> => ~Completes(Tail(q))
         /\ \A m \in SenderMessages : m.type # "COMPLETE" => ~Completes(Append(q, m))
<1>1. ASSUME q # <<>>
      PROVE  ~Completes(Tail(q))
  <2>1. \A i \in DOMAIN Tail(q) : i + 1 \in DOMAIN q /\ Tail(q)[i] = q[i + 1]
    BY <1>1
  <2> QED BY <2>1 DEF Completes
<1>2. ASSUME NEW m \in SenderMessages, m.type # "COMPLETE"
      PROVE  ~Completes(Append(q, m))
  <2>1. \A i \in DOMAIN Append(q, m) : (i \in DOMAIN q /\ Append(q, m)[i] = q[i]) \/ Append(q, m)[i] = m
    OBVIOUS
  <2> QED BY <1>2, <2>1 DEF Completes
<1> QED BY <1>1, <1>2

\* A sequence without the message, after a sequence without it.
LEMMA OtherAnswers ==
  ASSUME NEW q \in Seq(SenderMessages), NEW r \in Seq(SenderMessages), ~Completes(q), ~Completes(r)
  PROVE  ~Completes(q \o r)
<1>1. \A i \in DOMAIN (q \o r) : \/ i \in DOMAIN q /\ (q \o r)[i] = q[i]
                                 \/ i - Len(q) \in DOMAIN r /\ (q \o r)[i] = r[i - Len(q)]
  OBVIOUS
<1> QED BY <1>1 DEF Completes

\* Most steps neither save, nor complete, nor say so.
LEMMA SavedStays ==
  ASSUME SavedInv, saved' = saved,
         Completes(toSender') => Completes(toSender),
         sendRecord' = "COMPLETED" => sendRecord = "COMPLETED" \/ Completes(toSender)
  PROVE  SavedInv'
<1>1. Completes(toSender)' => Completes(toSender)
  BY DEF Completes
<1> QED BY <1>1 DEF SavedInv

\* accept() answers with an acceptance, the bitmap and an acknowledgement, as they apply.
LEMMA AcceptedSays ==
  ASSUME FileInv, OneLength, ~Completes(toSender), Accepted
  PROVE  ~Completes(toSender')
<1> DEFINE held == IF row.known THEN row.bitmap ELSE {}
           i == [NoIn EXCEPT !.state = "TRANSFERRING", !.received = held]
           accept == [type |-> "ACCEPT"]
           resume == [type |-> "RESUME", held |-> held]
           r1 == IF held = {} THEN <<>> ELSE <<resume>>
           r2 == IF Finishing(i) THEN <<AckOf(i)>> ELSE <<>>
<1>1. toSender' = toSender \o (<<accept>> \o r1) \o r2
  BY DEF Accepted
<1>2. /\ toSender \in Seq(SenderMessages) /\ Whole(row.bitmap)
      /\ Whole(held) /\ held \subseteq Chunks
  BY Wholes DEF FileInv, FileTypeOK, DiskInv, Whole
<1>3. accept \in SenderMessages /\ accept.type # "COMPLETE"
  BY DEF SenderMessages
<1>4. resume \in SenderMessages /\ resume.type # "COMPLETE"
  BY <1>2 DEF SenderMessages
<1>5. AckOf(i) \in SenderMessages /\ AckOf(i).type # "COMPLETE"
  <2>1. DOMAIN i = InFields /\ i.received = held /\ i.nak = {}
    BY NoTransfer DEF InFields
  <2> HIDE DEF i
  <2>2. AckOf(i) \in SenderMessages
    BY <1>2, <2>1, Acknowledges
  <2> QED BY <2>2 DEF AckOf
<1> HIDE DEF accept, resume, i
<1>6. \A m \in SenderMessages : m.type # "COMPLETE" => <<m>> \in Seq(SenderMessages) /\ ~Completes(<<m>>)
  BY DEF Completes
<1>7. <<>> \in Seq(SenderMessages) /\ ~Completes(<<>>)
  BY DEF Completes
<1>8. r1 \in Seq(SenderMessages) /\ ~Completes(r1)
  BY <1>4, <1>6, <1>7
<1>9. r2 \in Seq(SenderMessages) /\ ~Completes(r2)
  BY <1>5, <1>6, <1>7
<1> HIDE DEF r1, r2
<1> DEFINE r == <<accept>>
           said == r \o r1
<1>10. r \in Seq(SenderMessages) /\ ~Completes(r)
  BY <1>3, <1>6
<1>11. toSender' = toSender \o said \o r2
  BY <1>1
<1> HIDE DEF r
<1>12. said \in Seq(SenderMessages) /\ ~Completes(said)
  BY <1>8, <1>10, OtherAnswers, ConcatProperties
<1> HIDE DEF said
<1>13. toSender \o said \in Seq(SenderMessages) /\ ~Completes(toSender \o said)
  BY <1>2, <1>12, OtherAnswers, ConcatProperties
<1> QED BY <1>9, <1>11, <1>13, OtherAnswers

\* The steps of the sender complete nothing, but on the receiver's word.
LEMMA SenderCompletes ==
  ASSUME FileInv, SavedInv,
         \/ SendFile \/ Join \/ SenderMoves \/ SenderTick \/ ReadDone \/ SenderExpires
         \/ SenderCancels \/ SenderReceives \/ \E e \in out.inFlight : ChunkTimeout(e)
  PROVE  SavedInv'
<1>1. toSender \in Seq(SenderMessages)
  BY DEF FileInv, FileTypeOK
<1>2. CASE SenderReceives
  <2>1. /\ toSender # <<>> /\ toSender' = Tail(toSender) /\ saved' = saved
        /\ sendRecord' = "COMPLETED" => sendRecord = "COMPLETED" \/ Head(toSender).type = "COMPLETE"
    BY <1>2 DEF SenderReceives, SenderEnds, SenderKeeps
  <2>2. Head(toSender).type = "COMPLETE" => Completes(toSender)
    BY <1>1, <2>1 DEF Completes
  <2> QED BY <1>1, <2>1, <2>2, OtherWords, SavedStays
<1>3. CASE SendFile \/ Join \/ SenderMoves \/ SenderTick \/ ReadDone \/ SenderExpires
           \/ SenderCancels \/ \E e \in out.inFlight : ChunkTimeout(e)
  <2>1. saved' = saved /\ toSender' = toSender
    BY <1>3 DEF SendFile, Join, SenderMoves, SenderTick, ReadDone, SenderExpires, SenderCancels,
                ChunkTimeout, SenderKeeps
  <2>2. sendRecord' = sendRecord \/ sendRecord' \in {"OFFERED", "FAILED", "CANCELLED"}
    BY <1>3 DEF SendFile, Join, SenderMoves, SenderTick, ReadDone, SenderExpires, SenderCancels,
                ChunkTimeout, SenderFails, SenderEnds
  <2> QED BY <2>1, <2>2, SavedStays
<1> QED BY <1>2, <1>3

\* Sessions, restarts and rows save nothing, and what was said is lost.
LEMMA SessionsComplete ==
  ASSUME FileInv, SavedInv, Part \/ Restart \/ MoveLink \/ Persist \/ GiveUpChunk
  PROVE  SavedInv'
<1>1. saved' = saved /\ sendRecord' = sendRecord /\ (toSender' = toSender \/ toSender' = <<>>)
  BY DEF Part, Restart, MoveLink, Persist, GiveUpChunk, Severed
<1>2. ~Completes(<<>>)
  BY DEF Completes
<1> QED BY <1>1, <1>2, SavedStays

\* The ends of a transfer that the receiver reports.
LEMMA StopsComplete ==
  ASSUME FileInv, SavedInv, NEW state, NEW type \in {"DECLINE", "CANCEL", "ERROR"},
         ReceiverStops(state, type)
  PROVE  SavedInv'
<1> DEFINE m == [type |-> type]
<1>1. /\ saved' = saved /\ sendRecord' = sendRecord
      /\ toSender' = toSender \/ toSender' = Append(toSender, m)
  BY DEF ReceiverStops, ReceiverKeeps
<1>2. toSender \in Seq(SenderMessages) /\ m \in SenderMessages /\ m.type # "COMPLETE"
  BY DEF FileInv, FileTypeOK, SenderMessages
<1> HIDE DEF m
<1> QED BY <1>1, <1>2, OtherWords, SavedStays

\* What the receiver acknowledges and reports while it runs.
LEMMA ReportsComplete ==
  ASSUME FileInv, SavedInv, OneLength,
         \/ ReceiveOffer \/ ReceiveEnd \/ UserAccepts \/ ReceiveChunk \/ ReceiveDamaged
         \/ ReceiverTick \/ ReceiverMoves
  PROVE  SavedInv'
<1>1. /\ toSender \in Seq(SenderMessages) /\ DOMAIN in = InFields /\ Whole(in.received)
      /\ in.nak \subseteq Offsets /\ in.received \subseteq Chunks
  BY DEF FileInv, FileTypeOK, DiskInv, Whole
<1>2. saved' = saved /\ sendRecord' = sendRecord
  BY DEF ReceiveOffer, ReceiveEnd, UserAccepts, ReceiveChunk, ReceiveDamaged, ReceiverTick,
         ReceiverMoves, ReceiverKeeps
<1>3. CASE ReceiveOffer \/ UserAccepts
  <2>1. toSender' = toSender \/ Accepted
    BY <1>3 DEF ReceiveOffer, UserAccepts
  <2> QED BY <1>2, <2>1, AcceptedSays, SavedStays
<1>4. CASE ReceiveEnd \/ ReceiveChunk \/ ReceiveDamaged
  <2>1. toSender' = toSender
    BY <1>4 DEF ReceiveEnd, ReceiveChunk, ReceiveDamaged
  <2> QED BY <1>2, <2>1, SavedStays
<1>5. CASE ReceiverTick
  <2>1. AckOf(in) \in SenderMessages /\ AckOf(in).type # "COMPLETE"
    <3>1. AckOf(in) \in SenderMessages
      BY <1>1, Acknowledges
    <3> QED BY <3>1 DEF AckOf
  <2>2. toSender' = Append(toSender, AckOf(in))
    BY <1>5 DEF ReceiverTick
  <2> QED BY <1>1, <1>2, <2>1, <2>2, OtherWords, SavedStays
<1>6. CASE ReceiverMoves
  <2> DEFINE m == [type |-> "RESUME", held |-> in.received]
  <2>1. toSender' = toSender \/ toSender' = Append(toSender, m)
    BY <1>6 DEF ReceiverMoves
  <2>2. m \in SenderMessages /\ m.type # "COMPLETE"
    BY <1>1 DEF SenderMessages
  <2> HIDE DEF m
  <2> QED BY <1>1, <1>2, <2>1, <2>2, OtherWords, SavedStays
<1> QED BY <1>3, <1>4, <1>5, <1>6

\* A write that is done is acknowledged, once or twice.
LEMMA WritesComplete ==
  ASSUME FileInv, SavedInv, OneLength, NEW k \in DOMAIN in.writes, WriteDone(k)
  PROVE  SavedInv'
<1> DEFINE run   == in.writes[k]
           wrote == [in EXCEPT !.writes = RemoveAt(@, k), !.received = @ \union RunOf(run),
                               !.nak = @ \ {run[1]}]
           acks  == wrote.sinceAck >= AckEvery
           after == IF acks THEN Acked(wrote) ELSE wrote
           r1 == IF acks THEN <<AckOf(wrote)>> ELSE <<>>
           r2 == IF Finishing(after) THEN <<AckOf(after)>> ELSE <<>>
<1>1. toSender' = toSender \o r1 \o r2 /\ saved' = saved /\ sendRecord' = sendRecord
  BY DEF WriteDone, ReceiverKeeps
<1>2. /\ toSender \in Seq(SenderMessages) /\ DOMAIN in = InFields /\ Whole(in.received)
      /\ in.nak \subseteq Offsets
  BY DEF FileInv, FileTypeOK, DiskInv
<1>3. Whole(in.received \cup RunOf(run))
  <2>1. IsCell(run)
    BY DEF FileInv, DiskInv
  <2>2. Whole(RunOf(run))
    BY <2>1, Wholes DEF IsCell
  <2> QED BY <1>2, <2>2, Wholes
<1>4. /\ DOMAIN wrote = InFields /\ Whole(wrote.received) /\ wrote.nak \subseteq Offsets
  BY <1>2, <1>3 DEF InFields
<1> HIDE DEF wrote
<1>5. AckOf(wrote) \in SenderMessages /\ AckOf(wrote).type # "COMPLETE"
  <2>1. AckOf(wrote) \in SenderMessages
    BY <1>4, Acknowledges
  <2> QED BY <2>1 DEF AckOf
<1>6. /\ DOMAIN after = InFields /\ Whole(after.received) /\ after.nak \subseteq Offsets
  BY <1>4, Acknowledges
<1> HIDE DEF after
<1>7. AckOf(after) \in SenderMessages /\ AckOf(after).type # "COMPLETE"
  <2>1. AckOf(after) \in SenderMessages
    BY <1>6, Acknowledges
  <2> QED BY <2>1 DEF AckOf
<1>8. \A m \in SenderMessages : m.type # "COMPLETE" => <<m>> \in Seq(SenderMessages) /\ ~Completes(<<m>>)
  BY DEF Completes
<1>9. <<>> \in Seq(SenderMessages) /\ ~Completes(<<>>)
  BY DEF Completes
<1>10. r1 \in Seq(SenderMessages) /\ ~Completes(r1) /\ r2 \in Seq(SenderMessages) /\ ~Completes(r2)
  BY <1>5, <1>7, <1>8, <1>9
<1> HIDE DEF r1, r2
<1>11. ~Completes(toSender) => ~Completes(toSender \o r1) /\ toSender \o r1 \in Seq(SenderMessages)
  BY <1>2, <1>10, OtherAnswers
<1>12. ~Completes(toSender) => ~Completes(toSender')
  BY <1>1, <1>10, <1>11, OtherAnswers
<1> QED BY <1>1, <1>12, SavedStays

\* The hash is checked, and the file stitched together before the sender hears of it.
LEMMA VerifyCompletes ==
  ASSUME FileInv, SavedInv, OneLength, VerifyDone
  PROVE  SavedInv'
<1>1. CASE HeldBy(disk) = Chunks
  <2>1. saved' = Stitched
    BY <1>1 DEF VerifyDone
  <2>2. Stitched = UpTo(NumChunks)
    BY <1>1, StitchedIsTheFile DEF FileInv, FileTypeOK, DiskInv
  <2> QED BY <2>1, <2>2 DEF SavedInv, UpTo
<1>2. CASE HeldBy(disk) # Chunks
  <2>1. ReceiverStops("FAILED", "ERROR")
    BY <1>2 DEF VerifyDone
  <2> QED BY <2>1, StopsComplete
<1> QED BY <1>1, <1>2

\* Every step keeps it.
LEMMA NextSaved ==
  ASSUME FileInv, SavedInv, OneLength, FileNext
  PROVE  SavedInv'
<1>1. CASE FileEnvironment
  <2>1. UserDeclines => ReceiverStops("DECLINED", "DECLINE")
    BY DEF UserDeclines
  <2>2. UserStops => ReceiverStops("CANCELLED", "CANCEL")
    BY DEF UserStops
  <2>3. WriteFails => ReceiverStops("FAILED", "ERROR")
    BY DEF WriteFails
  <2> QED BY <1>1, <2>1, <2>2, <2>3, SenderCompletes, SessionsComplete, StopsComplete,
             ReportsComplete DEF FileEnvironment
<1>2. CASE FileProtocol
  <2>1. ReceiverExpires => ReceiverStops("DECLINED", "DECLINE")
    BY DEF ReceiverExpires
  <2> QED BY <1>2, <2>1, SenderCompletes, StopsComplete, ReportsComplete, WritesComplete,
             VerifyCompletes DEF FileProtocol
<1> QED BY <1>1, <1>2 DEF FileNext

\* What the sender shows as completed is in the receiver's storage, every chunk once and in
\* its place (finalize() in fileStore.ts, onCompleted() in transferCenter.ts): for a file of
\* any size, whatever writes, sessions, restarts and damaged chunks did on the way.
THEOREM SentFilesAreSaved ==
  ASSUME OneLength
  PROVE  FileSpec => []SentIsSaved
<1>1. FileInit => SavedInv
  BY DEF FileInit, SavedInv, Completes
<1>2. FileInv /\ SavedInv /\ [FileNext]_fileVars => SavedInv'
  <2> SUFFICES ASSUME FileInv, SavedInv, [FileNext]_fileVars
               PROVE  SavedInv'
    OBVIOUS
  <2>1. CASE FileNext
    BY <2>1, NextSaved
  <2>2. CASE UNCHANGED fileVars
    BY <2>2, SavedStays DEF fileVars
  <2> QED BY <2>1, <2>2
<1>3. SavedInv => SentIsSaved
  BY DEF SavedInv, SentIsSaved, UpTo
<1>4. FileSpec => []FileInv
  BY TransfersKeepBooks
<1> QED BY <1>1, <1>2, <1>3, <1>4, PTL DEF FileSpec
=============================================================================
