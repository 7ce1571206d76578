--------------------------- MODULE GameResultProofs ---------------------------
(***************************************************************************)
(* The results of the games, for every board, word, fleet and opening:     *)
(* what the rules work out from the last move alone, or carry along from   *)
(* move to move, is what the whole game says.                              *)
(*                                                                         *)
(* Each game has an invariant of its own, kept by every act on its table   *)
(* (ResultInv): a line that is new runs through the stone just put down;   *)
(* the table of edit distances, filled row by row, tells the words one     *)
(* edit apart; sums are carried without loss; what an honest fleet         *)
(* reported is what its reveal will say; and a legal chess move takes the  *)
(* rights with it that the men no longer bear out.                         *)
(***************************************************************************)
EXTENDS GameTableProofs

-----------------------------------------------------------------------------
(* The audit of battleship. *)

\* A shot that has been answered.
Shots == [cell : BoatCells, hit : BOOLEAN, sunk : {NoShip} \cup Boats]

\* No cell is shot at twice.
Once(shots) == \A j, k \in DOMAIN shots : shots[j].cell = shots[k].cell => j = k

\* What resolveReport() would have answered, each time.
Truthful(ships, shots) ==
  \A k \in DOMAIN shots : shots[k] = ResolveReport(ships, SubSeq(shots, 1, k - 1), shots[k].cell)

\* A fleet that was sunk, or a grid that was used up.
Beaten(shots) == FleetIsSunk(shots) \/ Len(shots) >= BoardSize * BoardSize

\* A map that tells things apart counts them.
LEMMA CountedBy ==
  ASSUME NEW S, NEW T, IsFiniteSet(T), NEW f \in [S -> T],
         \A x, y \in S : f[x] = f[y] => x = y
  PROVE  /\ IsFiniteSet(S) /\ Cardinality(S) \in Nat /\ Cardinality(T) \in Nat
         /\ Cardinality(S) <= Cardinality(T)
         /\ Cardinality(S) >= Cardinality(T) => \A z \in T : \E x \in S : f[x] = z
<1>1. f \in Injection(S, T)
  BY DEF Injection, IsInjective
<1>2. /\ IsFiniteSet(S) /\ Cardinality(S) <= Cardinality(T)
      /\ Cardinality(S) = Cardinality(T) <=> f \in Surjection(S, T)
  BY <1>1, FS_Injection
<1>3. Cardinality(S) \in Nat /\ Cardinality(T) \in Nat
  BY <1>2, FS_CardinalityType
<1> QED BY <1>2, <1>3 DEF Surjection

\* A finite set of numbers has a greatest element.
LEMMA GreatestElement ==
  ASSUME NEW n \in Nat, NEW T, T \subseteq 0..n, T # {}
  PROVE  \E x \in T : \A y \in T : y <= x
<1> DEFINE D == {n - x : x \in T}
<1>1. D \subseteq Nat /\ D # {}
  <2>1. \A x \in T : n - x \in Nat
    OBVIOUS
  <2> QED BY <2>1
<1>2. PICK d \in D : \A e \in D : d <= e
  BY <1>1, LeastElement
<1>3. PICK x \in T : d = n - x
  BY <1>2
<1>4. \A y \in T : y <= x
  <2> TAKE y \in T
  <2>1. n - x <= n - y /\ x \in 0..n /\ y \in 0..n
    BY <1>2, <1>3
  <2> QED BY <2>1
<1> QED BY <1>4

\* Rows do not overlap.
LEMMA RowsApart ==
  ASSUME NEW m \in Nat, NEW n \in Nat, NEW k \in Nat, m < n
  PROVE  m * k \in Nat /\ n * k \in Nat /\ m * k + k <= n * k
<1>1. PICK d \in Nat : n = m + 1 + d
  <2>1. n - m - 1 \in Nat /\ n = m + 1 + (n - m - 1)
    OBVIOUS
  <2> QED BY <2>1
<1>2. n * k = m * k + k + d * k
  BY <1>1
<1>3. m * k \in Nat /\ n * k \in Nat /\ d * k \in Nat
  BY <1>1
<1> QED BY <1>2, <1>3

\* A ship that fits has as many cells as it is long, all on the board.
LEMMA ShipHasCells ==
  ASSUME NEW ships \in Layouts, IsLegalLayout(ships), NEW i \in Boats
  PROVE  /\ IsFiniteSet(ShipCells(ships[i])) /\ ShipCells(ships[i]) \subseteq BoatCells
         /\ Cardinality(ShipCells(ships[i])) = Fleet[i] /\ Fleet[i] \in Nat \ {0}
<1> DEFINE ship == ships[i]
           At(k) == IF ship.vertical THEN (ship.row + k) * BoardSize + ship.col
                                     ELSE ship.row * BoardSize + ship.col + k
           n == Fleet[i]
           f == [k \in Cells(n) |-> At(k)]
<1>1. /\ ship.row \in Nat /\ ship.col \in Nat /\ ship.length = n /\ n \in Nat \ {0}
      /\ ship.row < BoardSize /\ ship.col < BoardSize /\ BoardSize \in Nat \ {0}
      /\ ship.vertical \in BOOLEAN
      /\ ship.vertical => ship.row + n - 1 < BoardSize
      /\ ~ship.vertical => ship.col + n - 1 < BoardSize
  <2>1. ship \in [row : Cells(BoardSize), col : Cells(BoardSize), vertical : BOOLEAN,
                  length : 1..BoardSize]
    BY BattleshipAssumption
  <2>2. ship.length = n /\ ShipFits(ship)
    BY DEF IsLegalLayout
  <2>3. ship.row \in Cells(BoardSize) /\ ship.col \in Cells(BoardSize) /\ ship.length \in 1..BoardSize
        /\ ship.vertical \in BOOLEAN
    BY <2>1
  <2> HIDE DEF ship, n
  <2> QED BY <2>2, <2>3, BattleshipAssumption DEF Cells, ShipFits
<1>2. ShipCells(ship) = {At(k) : k \in Cells(n)}
  BY <1>1 DEF ShipCells
<1> HIDE DEF ship, n
<1>3. \A k \in Cells(n) : At(k) \in BoatCells
  <2> TAKE k \in Cells(n)
  <2>1. k \in Nat /\ k <= n - 1
    BY <1>1 DEF Cells
  <2>2. CASE ship.vertical
    <3>1. ship.row + k \in Nat /\ ship.row + k < BoardSize
      BY <1>1, <2>1, <2>2
    <3>2. /\ (ship.row + k) * BoardSize \in Nat /\ BoardSize * BoardSize \in Nat
          /\ (ship.row + k) * BoardSize + BoardSize <= BoardSize * BoardSize
      BY <1>1, <3>1, RowsApart
    <3>3. At(k) = (ship.row + k) * BoardSize + ship.col
      BY <2>2
    <3> QED BY <1>1, <3>2, <3>3 DEF BoatCells, Cells
  <2>3. CASE ~ship.vertical
    <3>1. /\ ship.row * BoardSize \in Nat /\ BoardSize * BoardSize \in Nat
          /\ ship.row * BoardSize + BoardSize <= BoardSize * BoardSize
      BY <1>1, RowsApart
    <3>2. At(k) = ship.row * BoardSize + ship.col + k /\ ship.col + k < BoardSize
      BY <1>1, <2>1, <2>3
    <3> QED BY <1>1, <2>1, <3>1, <3>2 DEF BoatCells, Cells
  <2> QED BY <2>2, <2>3
<1>4. \A j, k \in Cells(n) : At(j) = At(k) => j = k
  <2> SUFFICES ASSUME NEW j \in Cells(n), NEW k \in Cells(n), At(j) = At(k), j # k
               PROVE  FALSE
    OBVIOUS
  <2>1. j \in Nat /\ k \in Nat
    BY <1>1 DEF Cells
  <2>2. CASE ship.vertical
    <3>1. /\ (ship.row + j) \in Nat /\ (ship.row + k) \in Nat
          /\ ship.row + j < ship.row + k \/ ship.row + k < ship.row + j
      BY <1>1, <2>1
    <3>2. (ship.row + j) * BoardSize # (ship.row + k) * BoardSize
          /\ (ship.row + j) * BoardSize \in Nat /\ (ship.row + k) * BoardSize \in Nat
      BY <1>1, <3>1, RowsApart
    <3>3. At(k) = (ship.row + k) * BoardSize + ship.col /\ At(j) = (ship.row + j) * BoardSize + ship.col
      BY <2>2
    <3> QED BY <1>1, <3>2, <3>3
  <2>3. CASE ~ship.vertical
    <3>1. ship.row * BoardSize \in Nat
      BY <1>1, RowsApart
    <3>2. At(k) = ship.row * BoardSize + ship.col + k /\ At(j) = ship.row * BoardSize + ship.col + j
      BY <2>3
    <3> QED BY <1>1, <2>1, <3>1, <3>2
  <2> QED BY <2>2, <2>3
<1>5. IsFiniteSet(Cells(n)) /\ Cardinality(Cells(n)) = n
  <2>1. 0 \in Int /\ n - 1 \in Int /\ ~(0 > n - 1) /\ n - 1 - 0 + 1 = n
    BY <1>1
  <2>2. /\ IsFiniteSet(0..(n - 1))
        /\ Cardinality(0..(n - 1)) = IF 0 > n - 1 THEN 0 ELSE n - 1 - 0 + 1
    BY <2>1, FS_Interval
  <2> QED BY <2>1, <2>2 DEF Cells
<1>6. f \in Bijection(Cells(n), ShipCells(ship))
  <2> HIDE DEF At
  <2>1. f \in [Cells(n) -> ShipCells(ship)] /\ \A c \in ShipCells(ship) : \E k \in Cells(n) : f[k] = c
    BY <1>2
  <2>2. \A j, k \in Cells(n) : f[j] = f[k] => j = k
    BY <1>4
  <2> HIDE DEF f
  <2> QED BY <2>1, <2>2 DEF Bijection, Injection, Surjection, IsInjective
<1>7. IsFiniteSet(ShipCells(ship)) /\ Cardinality(ShipCells(ship)) = n
  BY <1>5, <1>6, FS_Bijection DEF ExistsBijection
<1>8. ShipCells(ship) \subseteq BoatCells
  <2> HIDE DEF At
  <2> QED BY <1>2, <1>3
<1> QED BY <1>1, <1>7, <1>8 DEF ship, n

\* ShipAt() finds the ship that has the cell.
LEMMA ShipAtFinds ==
  ASSUME NEW ships, NEW cell
  PROVE  /\ ShipAt(ships, cell) \in {NoShip} \cup Boats
         /\ ShipAt(ships, cell) # NoShip => cell \in ShipCells(ships[ShipAt(ships, cell)])
         /\ IsLegalLayout(ships) =>
              \A i \in Boats : cell \in ShipCells(ships[i]) => ShipAt(ships, cell) = i
<1> DEFINE there == {i \in Boats : cell \in ShipCells(ships[i])}
<1>1. there \subseteq Nat /\ 0 \notin there
  BY BattleshipAssumption DEF Boats
<1>2. there # {} => Min(there) \in there
  BY <1>1, MinIsLeast
<1>3. ShipAt(ships, cell) = IF there = {} THEN NoShip ELSE Min(there)
  BY DEF ShipAt
<1>4. IsLegalLayout(ships) => \A i, j \in there : i = j
  BY DEF IsLegalLayout
<1> QED BY <1>1, <1>2, <1>3, <1>4 DEF NoShip

\* Only the cells count for the hits.
LEMMA HitsAlike ==
  ASSUME NEW ships, NEW a, NEW b, NEW k \in Nat \ {0}, \A j \in 1..k : a[j].cell = b[j].cell
  PROVE  HitsUpTo(ships, a, k) = HitsUpTo(ships, b, k)
<1>1. k \in 1..k
  OBVIOUS
<1>2. {j \in 1..k : ShipAt(ships, a[j].cell) = ShipAt(ships, a[k].cell)}
        = {j \in 1..k : ShipAt(ships, b[j].cell) = ShipAt(ships, b[k].cell)}
  BY <1>1
<1> QED BY <1>2 DEF HitsUpTo

\* A ship is hit no more often than it has cells.
LEMMA HitsAreFew ==
  ASSUME NEW ships \in Layouts, IsLegalLayout(ships), NEW shots \in Seq(Shots), Once(shots),
         NEW k \in DOMAIN shots, ShipAt(ships, shots[k].cell) # NoShip
  PROVE  HitsUpTo(ships, shots, k) \in Nat
         /\ HitsUpTo(ships, shots, k) <= Fleet[ShipAt(ships, shots[k].cell)]
<1> DEFINE i == ShipAt(ships, shots[k].cell)
           J == {j \in 1..k : ShipAt(ships, shots[j].cell) = i}
           f == [j \in J |-> shots[j].cell]
<1>1. i \in Boats /\ i # NoShip
  BY ShipAtFinds
<1>2. 1..k \subseteq DOMAIN shots
  BY LenProperties
<1>3. f \in [J -> ShipCells(ships[i])]
  <2>1. \A j \in J : shots[j].cell \in ShipCells(ships[i])
    BY <1>1, ShipAtFinds
  <2> QED BY <2>1
<1>4. \A x, y \in J : f[x] = f[y] => x = y
  BY <1>2 DEF Once
<1>5. IsFiniteSet(ShipCells(ships[i])) /\ Cardinality(ShipCells(ships[i])) = Fleet[i]
  BY <1>1, ShipHasCells
<1> HIDE DEF i, f
<1>6. Cardinality(J) \in Nat /\ Cardinality(J) <= Fleet[i]
  <2> HIDE DEF J
  <2> QED BY <1>3, <1>4, <1>5, CountedBy
<1>7. HitsUpTo(ships, shots, k) = Cardinality(J)
  BY DEF HitsUpTo, i
<1> QED BY <1>6, <1>7 DEF i

\* The audit of a legal fleet passes exactly the answers our app would have given.
LEMMA AuditAgrees ==
  ASSUME NEW ships \in Layouts, IsLegalLayout(ships), NEW shots \in Seq(Shots), Once(shots)
  PROVE  ReportsMatchLayout(ships, shots) <=> Truthful(ships, shots)
<1> DEFINE Ship(k) == ShipAt(ships, shots[k].cell)
           Sank(k) == Ship(k) # NoShip /\ HitsUpTo(ships, shots, k) = Fleet[Ship(k)]
           Hits(k) == HitsUpTo(ships, Append(SubSeq(shots, 1, k - 1), [cell |-> shots[k].cell]), k)
<1>1. ASSUME NEW k \in DOMAIN shots
      PROVE  /\ shots[k] \in Shots
             /\ ResolveReport(ships, SubSeq(shots, 1, k - 1), shots[k].cell)
                  = [cell |-> shots[k].cell, hit |-> Ship(k) # NoShip,
                     sunk |-> IF Sank(k) THEN Ship(k) ELSE NoShip]
             /\ \A j \in 1..(k - 1) : shots[j].cell # shots[k].cell
  <2>1. shots[k] \in Shots /\ k \in 1..Len(shots) /\ Len(shots) \in Nat
    BY LenProperties, ElementOfSeq
  <2>2. \A j \in 1..(k - 1) : shots[j].cell # shots[k].cell
    BY <2>1 DEF Once
  <2> DEFINE prior == SubSeq(shots, 1, k - 1)
             last  == [cell |-> shots[k].cell]
             all   == Append(prior, last)
  <2>3. prior \in Seq(Shots) /\ Len(prior) = k - 1 /\ \A j \in 1..(k - 1) : prior[j] = shots[j]
    BY <2>1, SubSeqProperties
  <2>4. all[k] = last /\ \A j \in 1..(k - 1) : all[j] = shots[j]
    <3>1. prior \in Seq(Shots \cup {last}) /\ last \in Shots \cup {last}
      BY <2>3
    <3> HIDE DEF prior, last
    <3>2. /\ \A j \in 1..Len(prior) : Append(prior, last)[j] = prior[j]
          /\ Append(prior, last)[Len(prior) + 1] = last
      BY <3>1, AppendProperties
    <3> QED BY <2>1, <2>3, <3>2
  <2>5. \A j \in 1..k : all[j].cell = shots[j].cell
    <3> HIDE DEF all
    <3>1. last.cell = shots[k].cell
      OBVIOUS
    <3> HIDE DEF last
    <3> QED BY <2>1, <2>4, <3>1
  <2>6. Hits(k) = HitsUpTo(ships, shots, k)
    <3> HIDE DEF all
    <3>1. k \in Nat \ {0}
      BY <2>1
    <3>2. HitsUpTo(ships, all, k) = HitsUpTo(ships, shots, k)
      BY <2>5, <3>1, HitsAlike
    <3> QED BY <3>2 DEF all
  <2>7. Ship(k) # NoShip => (Hits(k) >= Fleet[Ship(k)] <=> HitsUpTo(ships, shots, k) = Fleet[Ship(k)])
    <3>1. Ship(k) # NoShip =>
            /\ HitsUpTo(ships, shots, k) \in Nat /\ HitsUpTo(ships, shots, k) <= Fleet[Ship(k)]
            /\ Fleet[Ship(k)] \in Nat
      BY HitsAreFew, ShipAtFinds, ShipHasCells
    <3> HIDE DEF Hits, Ship
    <3> QED BY <2>6, <3>1
  <2>8. Len(prior) + 1 = k
    BY <2>1, <2>3
  <2>9. ResolveReport(ships, prior, shots[k].cell)
          = [cell |-> shots[k].cell, hit |-> Ship(k) # NoShip,
             sunk |-> IF Ship(k) # NoShip /\ Hits(k) >= Fleet[Ship(k)] THEN Ship(k) ELSE NoShip]
    <3> HIDE DEF prior
    <3> QED BY <2>8 DEF ResolveReport, prior
  <2> HIDE DEF Hits, Ship
  <2> QED BY <2>1, <2>2, <2>7, <2>9
<1>2. ASSUME NEW k \in DOMAIN shots
      PROVE  (shots[k] = ResolveReport(ships, SubSeq(shots, 1, k - 1), shots[k].cell))
               <=> /\ shots[k].hit <=> Ship(k) # NoShip
                   /\ shots[k].sunk = IF Sank(k) THEN Ship(k) ELSE NoShip
  <2> HIDE DEF Ship, Sank
  <2>1. \A r \in Shots, h \in BOOLEAN : \A x : r = [cell |-> r.cell, hit |-> h, sunk |-> x]
                                            <=> (r.hit <=> h) /\ r.sunk = x
    BY DEF Shots
  <2> DEFINE hit  == Ship(k) # NoShip
             sunk == IF Sank(k) THEN Ship(k) ELSE NoShip
             told == ResolveReport(ships, SubSeq(shots, 1, k - 1), shots[k].cell)
  <2>2. told = [cell |-> shots[k].cell, hit |-> hit, sunk |-> sunk] /\ shots[k] \in Shots
    BY <1>1
  <2>3. hit \in BOOLEAN
    OBVIOUS
  <2>4. (shots[k] = told) <=> (shots[k].hit <=> hit) /\ shots[k].sunk = sunk
    <3> HIDE DEF hit, sunk, told
    <3> QED BY <2>1, <2>2, <2>3
  <2> QED BY <2>4
<1> HIDE DEF Ship
<1>3. ReportsMatchLayout(ships, shots) <=>
        \A k \in DOMAIN shots : /\ \A j \in 1..(k - 1) : shots[j].cell # shots[k].cell
                                /\ shots[k].hit <=> Ship(k) # NoShip
                                /\ shots[k].sunk = IF Sank(k) THEN Ship(k) ELSE NoShip
  BY DEF ReportsMatchLayout, Ship
<1> HIDE DEF Sank
<1> QED BY <1>1, <1>2, <1>3 DEF Truthful

\* A grid that is used up has every ship down, if the answers are true.
LEMMA FullIsSunk ==
  ASSUME NEW ships \in Layouts, IsLegalLayout(ships), NEW shots \in Seq(Shots), Once(shots),
         ReportsMatchLayout(ships, shots), Len(shots) >= BoardSize * BoardSize
  PROVE  FleetIsSunk(shots)
<1> DEFINE D == DOMAIN shots
           n == Len(shots)
           Ship(k) == ShipAt(ships, shots[k].cell)
<1>1. n \in Nat /\ D = 1..n /\ \A k \in D : shots[k] \in Shots
  BY LenProperties, ElementOfSeq
<1>2. IsFiniteSet(D) /\ Cardinality(D) = n
  <2>1. /\ IsFiniteSet(1..n) /\ Cardinality(1..n) = IF 1 > n THEN 0 ELSE n - 1 + 1
    BY <1>1, FS_Interval
  <2> QED BY <1>1, <2>1
<1>3. \A c \in BoatCells : \E k \in D : shots[k].cell = c
  <2> DEFINE f == [k \in D |-> shots[k].cell]
             b == BoardSize * BoardSize
  <2>1. b \in Nat
    BY BattleshipAssumption
  <2>2. IsFiniteSet(BoatCells) /\ Cardinality(BoatCells) = b
    <3> HIDE DEF b
    <3>1. /\ IsFiniteSet(0..(b - 1)) /\ Cardinality(0..(b - 1)) = IF 0 > b - 1 THEN 0 ELSE b - 1 - 0 + 1
      BY <2>1, FS_Interval
    <3>2. BoatCells = 0..(b - 1)
      BY DEF BoatCells, Cells, b
    <3> QED BY <2>1, <3>1, <3>2
  <2>3. f \in [D -> BoatCells] /\ \A x, y \in D : f[x] = f[y] => x = y
    <3>1. \A k \in D : shots[k].cell \in BoatCells
      BY <1>1 DEF Shots
    <3> QED BY <3>1 DEF Once
  <2>4. Cardinality(D) >= Cardinality(BoatCells)
    BY <1>2, <2>2
  <2>5. \A c \in BoatCells : \E k \in D : f[k] = c
    <3> HIDE DEF f, D
    <3> QED BY <2>2, <2>3, <2>4, CountedBy
  <2> QED BY <2>5
<1>4. ASSUME NEW i \in Boats
      PROVE  \E k \in D : shots[k].sunk = i
  <2> DEFINE K == {k \in D : Ship(k) = i}
             C == ShipCells(ships[i])
  <2>1. /\ IsFiniteSet(C) /\ C \subseteq BoatCells /\ Cardinality(C) = Fleet[i]
        /\ Fleet[i] \in Nat \ {0}
    BY <1>4, ShipHasCells
  <2>2. \A c \in C : \E k \in K : shots[k].cell = c
    BY <1>3, <1>4, <2>1, ShipAtFinds
  <2>3. K # {}
    <3>1. C # {}
      <4> HIDE DEF C
      <4> QED BY <2>1, FS_EmptySet
    <3> QED BY <2>2, <3>1
  <2>4. PICK m \in K : \A k \in K : k <= m
    <3>1. K \subseteq 1..n
      BY <1>1
    <3> HIDE DEF K, n
    <3>2. K \subseteq 0..n
      BY <1>1, <3>1
    <3> QED BY <1>1, <2>3, <3>2, GreatestElement
  <2> DEFINE J == {j \in 1..m : Ship(j) = Ship(m)}
             g == [c \in C |-> CHOOSE k \in K : shots[k].cell = c]
  <2>5. m \in 1..n /\ m \in D /\ Ship(m) = i
    BY <1>1
  <2>6. K \subseteq J
    BY <1>1, <2>4, <2>5
  <2>7. g \in [C -> J] /\ \A c, d \in C : g[c] = g[d] => c = d
    <3>1. \A c \in C : g[c] \in K /\ shots[g[c]].cell = c
      <4> HIDE DEF C, K
      <4> QED BY <2>2
    <3>2. g = [c \in C |-> g[c]]
      OBVIOUS
    <3> HIDE DEF g, C, K, J
    <3> QED BY <2>6, <3>1, <3>2
  <2>8. IsFiniteSet(J)
    <3>1. IsFiniteSet(1..m)
      BY <2>5, FS_Interval
    <3> QED BY <3>1, FS_Subset
  <2>9. Cardinality(C) <= Cardinality(J) /\ Cardinality(J) \in Nat
    <3> HIDE DEF C, J, g
    <3> QED BY <2>7, <2>8, CountedBy
  <2>10. i # NoShip
    BY <1>4, BattleshipAssumption DEF Boats, NoShip
  <2>11. /\ HitsUpTo(ships, shots, m) = Cardinality(J)
         /\ HitsUpTo(ships, shots, m) <= Fleet[i]
    <3>1. HitsUpTo(ships, shots, m) = Cardinality(J)
      BY DEF HitsUpTo
    <3>2. HitsUpTo(ships, shots, m) <= Fleet[Ship(m)]
      BY <2>5, <2>10, HitsAreFew
    <3> QED BY <2>5, <3>1, <3>2
  <2>12. HitsUpTo(ships, shots, m) = Fleet[i]
    <3> HIDE DEF J, C
    <3> QED BY <2>1, <2>9, <2>11
  <2>13. shots[m].sunk = i
    <3>1. shots[m].sunk = IF Ship(m) # NoShip /\ HitsUpTo(ships, shots, m) = Fleet[Ship(m)]
                            THEN Ship(m) ELSE NoShip
      BY <2>5 DEF ReportsMatchLayout
    <3> HIDE DEF Ship
    <3> QED BY <2>5, <2>10, <2>12, <3>1
  <2> QED BY <2>5, <2>13
<1>5. Cardinality(Boats) <= SunkCount(shots)
  <2> DEFINE T == {k \in D : shots[k].sunk # NoShip}
             h == [i \in Boats |-> CHOOSE k \in D : shots[k].sunk = i]
  <2>1. NoShip \notin Boats
    BY BattleshipAssumption DEF Boats, NoShip
  <2>2. \A i \in Boats : h[i] \in D /\ shots[h[i]].sunk = i
    BY <1>4
  <2>3. h \in [Boats -> T] /\ \A x, y \in Boats : h[x] = h[y] => x = y
    <3>1. h = [i \in Boats |-> h[i]]
      OBVIOUS
    <3> HIDE DEF h, D
    <3> QED BY <2>1, <2>2, <3>1
  <2>4. IsFiniteSet(T)
    BY <1>2, FS_Subset
  <2>5. Cardinality(Boats) <= Cardinality(T)
    <3> HIDE DEF h, T
    <3> QED BY <2>3, <2>4, CountedBy
  <2> QED BY <2>5 DEF SunkCount
<1>6. Cardinality(Boats) = Len(Fleet) /\ Len(Fleet) \in Nat
  <2> DEFINE l == Len(Fleet)
  <2>1. l \in Nat
    BY BattleshipAssumption, LenProperties
  <2>2. Cardinality(1..l) = IF 1 > l THEN 0 ELSE l - 1 + 1
    <3> HIDE DEF l
    <3> QED BY <2>1, FS_Interval
  <2> HIDE DEF l
  <2> QED BY <2>1, <2>2 DEF Boats, l
<1>7. SunkCount(shots) \in Nat
  <2>1. IsFiniteSet({k \in D : shots[k].sunk # NoShip})
    BY <1>2, FS_Subset
  <2> QED BY <2>1, FS_CardinalityType DEF SunkCount
<1> QED BY <1>5, <1>6, <1>7 DEF FleetIsSunk

-----------------------------------------------------------------------------
(* What a game of battleship keeps. *)

\* The fields of a game of battleship.
FleetTypes(s) ==
  /\ FleetShape(s)
  /\ s.phase \in {"placement", "firing", "reveal", "finished"}
  /\ s.commitments \in [Seats -> Layouts \cup {NoFleet}]
  /\ s.reveals \in [Seats -> Layouts \cup {NoFleet}]
  /\ s.shots \in [Seats -> Seq(Shots)]
  /\ s.pending # NoShot => s.pending.shooter \in Seats /\ s.pending.cell \in BoatCells
  /\ s.cheated \in [Seats -> BOOLEAN]
  /\ s.ending \in {"none", "bothCheated", "cheat", "fleetSunk"}

\* No cell is shot at twice, nor is the shot under way at one that was.
ShotsApart(s) ==
  /\ \A p \in Seats : Once(s.shots[p])
  /\ s.pending # NoShot =>
       \A k \in DOMAIN s.shots[Rival(s.pending.shooter)] :
         s.shots[Rival(s.pending.shooter)][k].cell # s.pending.cell

\* Our app keeps to a legal fleet, answers truthfully and reveals what it committed to.
HonestPlay(s) ==
  \A p \in Seats \ Liars :
    /\ s.commitments[p] # NoFleet => IsLegalLayout(s.commitments[p])
    /\ Truthful(s.commitments[p], s.shots[p])
    /\ s.reveals[p] # NoFleet => s.reveals[p] = s.commitments[p]

\* Shooting starts with two fleets and stops with the first that is beaten.
Course(s) ==
  /\ s.phase = "placement" => s.pending = NoShot /\ \A p \in Seats : s.shots[p] = <<>>
  /\ s.phase \in {"placement", "firing"} =>
       \A p \in Seats : s.reveals[p] = NoFleet /\ ~Beaten(s.shots[p])
  /\ s.phase \in {"reveal", "finished"} =>
       \E p \in Seats : Beaten(s.shots[p]) /\ ~Beaten(s.shots[Rival(p)])
  /\ s.phase # "finished" => s.winner = Nobody /\ s.ending = "none"

\* A fleet that was revealed was audited, and a game is lost by cheating or by the fleet.
Verdicts(s) ==
  /\ \A p \in Seats :
       s.cheated[p] <=> /\ s.reveals[p] # NoFleet
                        /\ ~RevealIsHonest(s.commitments[p], s.reveals[p], s.shots[p])
  /\ \A p \in Seats : s.winner = Rival(p) => s.cheated[p] \/ FleetIsSunk(s.shots[p])

\* What holds of a game of battleship.
AuditInv(s) == FleetTypes(s) /\ ShotsApart(s) /\ HonestPlay(s) /\ Course(s) /\ Verdicts(s)

\* A fleet our app reveals passes the audit.
LEMMA HonestPass ==
  ASSUME NEW s, AuditInv(s), NEW p \in Seats \ Liars
  PROVE  ~s.cheated[p]
<1> SUFFICES ASSUME s.reveals[p] # NoFleet
             PROVE  RevealIsHonest(s.commitments[p], s.reveals[p], s.shots[p])
  BY DEF AuditInv, Verdicts
<1>1. /\ s.commitments[p] \in Layouts /\ IsLegalLayout(s.commitments[p])
      /\ s.shots[p] \in Seq(Shots) /\ Once(s.shots[p]) /\ s.reveals[p] = s.commitments[p]
      /\ Truthful(s.commitments[p], s.shots[p])
  BY DEF AuditInv, FleetTypes, ShotsApart, HonestPlay
<1> QED BY <1>1, AuditAgrees DEF RevealIsHonest

\* The invariant says what the audit promises.
LEMMA AuditFollows ==
  ASSUME NEW s, AuditInv(s)
  PROVE  AuditIsRight(s)
<1>1. ASSUME NEW p \in Seats, s.reveals[p] # NoFleet
      PROVE  s.cheated[p] <=>
               ~(/\ IsLegalLayout(s.commitments[p]) /\ s.reveals[p] = s.commitments[p]
                 /\ Truthful(s.commitments[p], s.shots[p]))
  <2>1. /\ s.commitments[p] \in Layouts \cup {NoFleet} /\ s.shots[p] \in Seq(Shots)
        /\ Once(s.shots[p])
        /\ s.cheated[p] <=> ~RevealIsHonest(s.commitments[p], s.reveals[p], s.shots[p])
    BY <1>1 DEF AuditInv, FleetTypes, ShotsApart, Verdicts
  <2>2. s.commitments[p] \in Layouts /\ IsLegalLayout(s.commitments[p]) =>
          (ReportsMatchLayout(s.commitments[p], s.shots[p]) <=> Truthful(s.commitments[p], s.shots[p]))
    BY <2>1, AuditAgrees
  <2> QED BY <1>1, <2>1, <2>2 DEF RevealIsHonest
<1>2. ASSUME NEW p \in Seats \ Liars
      PROVE  ~s.cheated[p] /\ (s.winner = Rival(p) => FleetIsSunk(s.shots[p]))
  <2>1. ~s.cheated[p]
    BY <1>2, HonestPass
  <2>2. s.winner = Rival(p) => s.cheated[p] \/ FleetIsSunk(s.shots[p])
    BY DEF AuditInv, Verdicts
  <2> QED BY <2>1, <2>2
<1>3. s.ending # "stalemate"
  BY DEF AuditInv, FleetTypes
<1> QED BY <1>1, <1>2, <1>3 DEF AuditIsRight, Truthful

\* A fleet is not what stands for none, and no number is a seat's rival.
LEMMA FleetFacts ==
  /\ NoFleet \notin Layouts
  /\ \A p \in Seats : Rival(p) \in Seats /\ Rival(p) # Nobody /\ Rival(Rival(p)) = p
  /\ ~Beaten(<<>>)
<1>1. Len(Fleet) \in Nat \ {0}
  <2>1. Len(Fleet) \in Nat /\ Len(Fleet) # 0
    BY BattleshipAssumption, LenProperties, EmptySeq
  <2> QED BY <2>1
<1>2. NoFleet \notin Layouts
  <2> SUFFICES ASSUME NoFleet \in Layouts
               PROVE  FALSE
    OBVIOUS
  <2>1. DOMAIN NoFleet = Boats /\ DOMAIN NoFleet = {}
    BY BattleshipAssumption DEF NoFleet
  <2>2. 1 \in Boats
    BY <1>1 DEF Boats
  <2> QED BY <2>1, <2>2
<1>3. ~Beaten(<<>>)
  <2>1. SunkCount(<<>>) = 0
    <3>1. {k \in DOMAIN <<>> : <<>>[k].sunk # NoShip} = {}
      OBVIOUS
    <3> QED BY <3>1, FS_EmptySet DEF SunkCount
  <2>2. BoardSize * BoardSize \in Nat \ {0} /\ Len(<<>>) = 0
    <3>1. BoardSize * BoardSize > 0
      BY BattleshipAssumption
    <3> QED BY <3>1, BattleshipAssumption
  <2> QED BY <1>1, <2>1, <2>2 DEF Beaten, FleetIsSunk
<1> QED BY <1>2, <1>3 DEF Seats, Rival, Nobody

\* A fleet is placed.
LEMMA PlaceKeeps ==
  ASSUME NEW s, AuditInv(s), NEW p \in Seats, NEW a \in BattleshipChoices(s, p), a.type = "place"
  PROVE  AuditInv(BattleshipApply(s, p, a))
<1> DEFINE t == BattleshipApply(s, p, a)
<1> SUFFICES AuditInv(t)
  OBVIOUS
<1>1. /\ s.phase = "placement" /\ s.commitments[p] = NoFleet /\ a.fleet \in Layouts
      /\ p \notin Liars => IsLegalLayout(a.fleet)
  BY DEF BattleshipChoices, FleetsOf
<1>2. FleetShape(s) /\ FleetShape(t)
  BY FleetKeeps DEF AuditInv, FleetTypes
<1>3. /\ t.commitments = [s.commitments EXCEPT ![p] = a.fleet]
      /\ t.phase \in {"placement", "firing"}
      /\ t.shots = s.shots /\ t.pending = s.pending /\ t.reveals = s.reveals
      /\ t.cheated = s.cheated /\ t.ending = s.ending /\ t.winner = s.winner
  BY <1>1, <1>2 DEF BattleshipApply, FleetShape
<1> HIDE DEF t
<1>4. s.pending = NoShot /\ \A q \in Seats : s.shots[q] = <<>> /\ s.reveals[q] = NoFleet
  BY <1>1 DEF AuditInv, Course
<1>5. FleetTypes(t)
  BY <1>1, <1>2, <1>3 DEF AuditInv, FleetTypes
<1>6. ShotsApart(t)
  BY <1>3, <1>4 DEF AuditInv, ShotsApart
<1>7. HonestPlay(t)
  <2> SUFFICES ASSUME NEW q \in Seats \ Liars
               PROVE  /\ t.commitments[q] # NoFleet => IsLegalLayout(t.commitments[q])
                      /\ Truthful(t.commitments[q], t.shots[q])
                      /\ t.reveals[q] # NoFleet => t.reveals[q] = t.commitments[q]
    BY DEF HonestPlay
  <2>1. Truthful(t.commitments[q], t.shots[q])
    BY <1>3, <1>4 DEF Truthful
  <2>2. t.commitments[q] # NoFleet => IsLegalLayout(t.commitments[q])
    BY <1>1, <1>3 DEF AuditInv, HonestPlay, FleetTypes
  <2> QED BY <1>3, <1>4, <2>1, <2>2
<1>8. Course(t)
  BY <1>1, <1>3, <1>4 DEF AuditInv, Course
<1>9. Verdicts(t)
  BY <1>3, <1>4 DEF AuditInv, Verdicts
<1> QED BY <1>5, <1>6, <1>7, <1>8, <1>9 DEF AuditInv

\* A shot is fired.
LEMMA FireKeeps ==
  ASSUME NEW s, AuditInv(s), NEW p \in Seats, NEW a \in BattleshipChoices(s, p), a.type = "fire"
  PROVE  AuditInv(BattleshipApply(s, p, a))
<1> DEFINE t == BattleshipApply(s, p, a)
<1> SUFFICES AuditInv(t)
  OBVIOUS
<1>1. /\ s.phase = "firing" /\ a.cell \in BoatCells
      /\ \A k \in DOMAIN s.shots[Rival(p)] : s.shots[Rival(p)][k].cell # a.cell
  BY DEF BattleshipChoices
<1>2. FleetShape(s) /\ FleetShape(t)
  BY FleetKeeps DEF AuditInv, FleetTypes
<1>3. /\ t.commitments = s.commitments /\ t.phase = s.phase
      /\ t.shots = s.shots /\ t.pending = [shooter |-> p, cell |-> a.cell] /\ t.reveals = s.reveals
      /\ t.cheated = s.cheated /\ t.ending = s.ending /\ t.winner = s.winner
  BY <1>1, <1>2 DEF BattleshipApply, FleetShape
<1> HIDE DEF t
<1>4. FleetTypes(t)
  BY <1>1, <1>2, <1>3 DEF AuditInv, FleetTypes
<1>5. ShotsApart(t)
  BY <1>1, <1>3 DEF AuditInv, ShotsApart
<1>6. HonestPlay(t)
  BY <1>3 DEF AuditInv, HonestPlay
<1>7. Course(t)
  BY <1>1, <1>3 DEF AuditInv, Course
<1>8. Verdicts(t)
  BY <1>3 DEF AuditInv, Verdicts
<1> QED BY <1>4, <1>5, <1>6, <1>7, <1>8 DEF AuditInv

\* One more answer.
LEMMA OneMoreAnswer ==
  ASSUME NEW shots \in Seq(Shots), NEW r \in Shots
  PROVE  /\ Append(shots, r) \in Seq(Shots)
         /\ Once(shots) /\ (\A k \in DOMAIN shots : shots[k].cell # r.cell) => Once(Append(shots, r))
         /\ \A ships : Truthful(ships, shots) /\ r = ResolveReport(ships, shots, r.cell)
                         => Truthful(ships, Append(shots, r))
<1> DEFINE n == Len(shots)
           all == Append(shots, r)
<1>1. /\ n \in Nat /\ DOMAIN shots = 1..n /\ all \in Seq(Shots) /\ DOMAIN all = 1..(n + 1)
      /\ Len(all) = n + 1 /\ all[n + 1] = r /\ \A k \in 1..n : all[k] = shots[k]
  BY LenProperties, AppendProperties
<1>2. ASSUME NEW k \in 1..(n + 1)
      PROVE  SubSeq(all, 1, k - 1) = SubSeq(shots, 1, k - 1)
  <2> HIDE DEF all, n
  <2>1. /\ SubSeq(all, 1, k - 1) = [j \in 1..(k - 1) |-> all[j]]
        /\ SubSeq(shots, 1, k - 1) = [j \in 1..(k - 1) |-> shots[j]]
    <3>1. /\ \A i \in 1..(k - 1) : all[1 + i - 1] = all[i]
          /\ \A i \in 1..(k - 1) : shots[1 + i - 1] = shots[i]
      BY <1>1
    <3> QED BY <1>1, <3>1, SubSeqProperties
  <2>2. \A j \in 1..(k - 1) : all[j] = shots[j]
    BY <1>1
  <2> QED BY <2>1, <2>2
<1>3. SubSeq(shots, 1, n) = shots
  BY <1>1, SubSeqFull
<1> HIDE DEF all, n
<1>4. Once(shots) /\ (\A k \in DOMAIN shots : shots[k].cell # r.cell) => Once(all)
  <2> SUFFICES ASSUME Once(shots), \A k \in DOMAIN shots : shots[k].cell # r.cell,
                      NEW j \in 1..(n + 1), NEW k \in 1..(n + 1), all[j].cell = all[k].cell
               PROVE  j = k
    BY <1>1 DEF Once
  <2>1. CASE j \in 1..n /\ k \in 1..n
    BY <1>1, <2>1 DEF Once
  <2>2. CASE j = n + 1 /\ k \in 1..n
    BY <1>1, <2>2
  <2>3. CASE k = n + 1 /\ j \in 1..n
    BY <1>1, <2>3
  <2> QED BY <1>1, <2>1, <2>2, <2>3
<1>5. ASSUME NEW ships, Truthful(ships, shots), r = ResolveReport(ships, shots, r.cell)
      PROVE  Truthful(ships, all)
  <2> SUFFICES ASSUME NEW k \in 1..(n + 1)
               PROVE  all[k] = ResolveReport(ships, SubSeq(all, 1, k - 1), all[k].cell)
    BY <1>1 DEF Truthful
  <2>1. CASE k \in 1..n
    BY <1>1, <1>2, <1>5, <2>1 DEF Truthful
  <2>2. CASE k = n + 1
    <3>1. k - 1 = n
      BY <1>1, <2>2
    <3>2. SubSeq(all, 1, k - 1) = shots
      BY <1>2, <1>3, <3>1
    <3> QED BY <1>1, <1>5, <2>2, <3>2
  <2> QED BY <1>1, <2>1, <2>2
<1> QED BY <1>1, <1>4, <1>5 DEF all

\* A shot is answered.
LEMMA ReportKeeps ==
  ASSUME NEW s, AuditInv(s), NEW p \in Seats, NEW a \in BattleshipChoices(s, p), a.type = "report"
  PROVE  AuditInv(BattleshipApply(s, p, a))
<1> DEFINE t == BattleshipApply(s, p, a)
           r == a.shot
           mine == Append(s.shots[p], r)
<1> SUFFICES AuditInv(t)
  OBVIOUS
<1>1. /\ s.phase = "firing" /\ s.pending # NoShot /\ r \in Claims(s, p) /\ s.pending.shooter # p
      /\ p \notin Liars => r = ResolveReport(s.commitments[p], s.shots[p], r.cell)
  BY DEF BattleshipChoices
<1>2. FleetShape(s) /\ FleetShape(t) /\ s.shots \in [Seats -> Seq(Shots)]
  BY FleetKeeps DEF AuditInv, FleetTypes
<1>3. /\ t.commitments = s.commitments
      /\ t.phase = IF Beaten(mine) THEN "reveal" ELSE "firing"
      /\ t.shots = [s.shots EXCEPT ![p] = mine] /\ t.pending = NoShot /\ t.reveals = s.reveals
      /\ t.cheated = s.cheated /\ t.ending = s.ending /\ t.winner = s.winner
  BY <1>1, <1>2 DEF BattleshipApply, FleetShape, Beaten
<1>4. /\ r \in Shots /\ \A k \in DOMAIN s.shots[p] : s.shots[p][k].cell # r.cell
  <2>1. s.pending.shooter \in Seats /\ s.pending.cell \in BoatCells
    BY <1>1 DEF AuditInv, FleetTypes
  <2>2. r \in Shots /\ r.cell = s.pending.cell
    BY <1>1, <2>1 DEF Claims, Shots
  <2>3. p = Rival(s.pending.shooter)
    BY <1>1, <2>1, TwoSeats
  <2> HIDE DEF r
  <2> QED BY <1>1, <2>2, <2>3 DEF AuditInv, ShotsApart
<1> HIDE DEF t, r
<1>5. /\ mine \in Seq(Shots)
      /\ Once(s.shots[p]) => Once(mine)
      /\ Truthful(s.commitments[p], s.shots[p]) /\ p \notin Liars => Truthful(s.commitments[p], mine)
  BY <1>1, <1>2, <1>4, OneMoreAnswer
<1> HIDE DEF mine
<1>6. t.shots[p] = mine /\ \A q \in Seats : q # p => t.shots[q] = s.shots[q]
  BY <1>2, <1>3
<1>7. FleetTypes(t)
  <2>1. t.shots \in [Seats -> Seq(Shots)] /\ t.phase \in {"reveal", "firing"}
    BY <1>2, <1>3, <1>5
  <2> QED BY <1>2, <1>3, <2>1 DEF AuditInv, FleetTypes
<1>8. ShotsApart(t)
  <2>1. \A q \in Seats : Once(s.shots[q])
    BY DEF AuditInv, ShotsApart
  <2>2. \A q \in Seats : Once(t.shots[q])
    BY <1>5, <1>6, <2>1
  <2> QED BY <1>3, <2>2 DEF ShotsApart
<1>9. HonestPlay(t)
  <2> SUFFICES ASSUME NEW q \in Seats \ Liars
               PROVE  /\ t.commitments[q] # NoFleet => IsLegalLayout(t.commitments[q])
                      /\ Truthful(t.commitments[q], t.shots[q])
                      /\ t.reveals[q] # NoFleet => t.reveals[q] = t.commitments[q]
    BY DEF HonestPlay
  <2>1. Truthful(t.commitments[q], t.shots[q])
    BY <1>3, <1>5, <1>6 DEF AuditInv, HonestPlay
  <2> QED BY <1>3, <2>1 DEF AuditInv, HonestPlay
<1>10. Course(t)
  <2>1. /\ \A q \in Seats : s.reveals[q] = NoFleet /\ ~Beaten(s.shots[q])
        /\ s.winner = Nobody /\ s.ending = "none"
    BY <1>1 DEF AuditInv, Course
  <2>2. CASE Beaten(mine)
    <3>1. Beaten(t.shots[p]) /\ ~Beaten(t.shots[Rival(p)])
      BY <1>6, <2>1, <2>2, TwoSeats
    <3> QED BY <1>3, <2>1, <2>2, <3>1 DEF Course
  <2>3. CASE ~Beaten(mine)
    <3>1. \A q \in Seats : ~Beaten(t.shots[q])
      BY <1>6, <2>1, <2>3
    <3> QED BY <1>3, <2>1, <2>3, <3>1 DEF Course
  <2> QED BY <2>2, <2>3
<1>11. Verdicts(t)
  <2>1. /\ \A q \in Seats : s.reveals[q] = NoFleet
        /\ s.winner = Nobody
    BY <1>1 DEF AuditInv, Course
  <2>2. \A q \in Seats : ~s.cheated[q]
    BY <2>1 DEF AuditInv, Verdicts
  <2> QED BY <1>3, <2>1, <2>2, FleetFacts DEF Verdicts
<1> QED BY <1>7, <1>8, <1>9, <1>10, <1>11 DEF AuditInv

\* Two audits settle the game, and not as a stalemate.
LEMMA SettledKeeps ==
  ASSUME NEW s, AuditInv(s), s.phase = "reveal", NoFleet \notin Range(s.reveals)
  PROVE  AuditInv(Settled(s))
<1> DEFINE t == Settled(s)
           liars == {p \in Seats : s.cheated[p]}
           down  == {p \in Seats : FleetIsSunk(s.shots[p])}
<1> SUFFICES AuditInv(t)
  OBVIOUS
<1>1. liars \subseteq Seats /\ down \subseteq Seats /\ Seats \subseteq Nat
  BY DEF Seats
<1>2. /\ liars # {} => Min(liars) \in liars
      /\ down # {} => Min(down) \in down
  BY <1>1, MinIsLeast
<1>3. ASSUME liars = {}
      PROVE  Cardinality(down) = 1
  <2>1. PICK q \in Seats : Beaten(s.shots[q]) /\ ~Beaten(s.shots[Rival(q)])
    BY DEF AuditInv, Course
  <2>2. /\ s.reveals[q] # NoFleet /\ ~s.cheated[q] /\ s.commitments[q] \in Layouts \cup {NoFleet}
        /\ s.shots[q] \in Seq(Shots) /\ Once(s.shots[q])
    BY <1>3 DEF AuditInv, FleetTypes, ShotsApart, Range
  <2>3. RevealIsHonest(s.commitments[q], s.reveals[q], s.shots[q])
    BY <2>2 DEF AuditInv, Verdicts
  <2>4. FleetIsSunk(s.shots[q])
    <3>1. /\ s.commitments[q] \in Layouts /\ IsLegalLayout(s.commitments[q])
          /\ ReportsMatchLayout(s.commitments[q], s.shots[q])
      BY <2>2, <2>3 DEF RevealIsHonest
    <3> QED BY <2>1, <2>2, <3>1, FullIsSunk DEF Beaten
  <2>5. ~FleetIsSunk(s.shots[Rival(q)])
    BY <2>1 DEF Beaten
  <2>6. down = {q}
    BY <2>4, <2>5, TwoSeats
  <2> HIDE DEF down
  <2> QED BY <2>6, FS_Singleton
<1>4. Cardinality(down) = 1 => down # {}
  <2> HIDE DEF down
  <2> QED BY FS_EmptySet
<1>5. FleetShape(s) /\ FleetShape(t)
  BY DEF AuditInv, FleetTypes, Settled, FleetShape
<1>6. /\ t.phase = "finished" /\ t.commitments = s.commitments /\ t.shots = s.shots
      /\ t.pending = s.pending /\ t.reveals = s.reveals /\ t.cheated = s.cheated
      /\ \/ t.ending = "bothCheated" /\ t.winner = Nobody
         \/ t.ending = "cheat" /\ liars # {} /\ t.winner = Rival(Min(liars))
         \/ t.ending = "fleetSunk" /\ down # {} /\ t.winner = Rival(Min(down))
  <2> DEFINE End(how, who) == [s EXCEPT !.phase = "finished", !.ending = how, !.winner = who]
  <2>1. \/ t = End("bothCheated", Nobody)
        \/ liars # {} /\ t = End("cheat", Rival(Min(liars)))
        \/ down # {} /\ t = End("fleetSunk", Rival(Min(down)))
    <3>1. t = IF liars = Seats THEN End("bothCheated", Nobody)
              ELSE IF liars # {} THEN End("cheat", Rival(Min(liars)))
              ELSE IF Cardinality(down) = 1 THEN End("fleetSunk", Rival(Min(down)))
              ELSE End("stalemate", Nobody)
      BY DEF Settled
    <3> HIDE DEF t, End, liars, down
    <3> QED BY <1>3, <1>4, <3>1
  <2>2. \A how, who :
          /\ End(how, who).phase = "finished" /\ End(how, who).commitments = s.commitments
          /\ End(how, who).shots = s.shots /\ End(how, who).pending = s.pending
          /\ End(how, who).reveals = s.reveals /\ End(how, who).cheated = s.cheated
          /\ End(how, who).ending = how /\ End(how, who).winner = who
    BY <1>5 DEF FleetShape
  <2> HIDE DEF t, End, liars, down
  <2> QED BY <2>1, <2>2
<1> HIDE DEF t
<1>7. FleetTypes(t)
  BY <1>5, <1>6 DEF AuditInv, FleetTypes
<1>8. ShotsApart(t)
  BY <1>6 DEF AuditInv, ShotsApart
<1>9. HonestPlay(t)
  BY <1>6 DEF AuditInv, HonestPlay
<1>10. Course(t)
  BY <1>6 DEF AuditInv, Course
<1>11. Verdicts(t)
  <2>1. ASSUME NEW p \in Seats, t.winner = Rival(p)
        PROVE  s.cheated[p] \/ FleetIsSunk(s.shots[p])
    <3>1. \A x \in Seats : Rival(x) = Rival(p) => x = p
      BY FleetFacts
    <3>2. t.winner # Nobody
      BY <2>1, FleetFacts
    <3>3. (liars # {} /\ p = Min(liars)) \/ (down # {} /\ p = Min(down))
      <4> HIDE DEF liars, down
      <4> QED BY <1>1, <1>2, <1>6, <2>1, <3>1, <3>2
    <3> QED BY <1>2, <3>3
  <2>2. \A p \in Seats :
       s.cheated[p] <=> /\ s.reveals[p] # NoFleet
                        /\ ~RevealIsHonest(s.commitments[p], s.reveals[p], s.shots[p])
    BY DEF AuditInv, Verdicts
  <2> QED BY <1>6, <2>1, <2>2 DEF Verdicts
<1> QED BY <1>7, <1>8, <1>9, <1>10, <1>11 DEF AuditInv

\* A fleet is revealed and audited.
LEMMA RevealKeeps ==
  ASSUME NEW s, AuditInv(s), NEW p \in Seats, NEW a \in BattleshipChoices(s, p), a.type = "reveal"
  PROVE  AuditInv(BattleshipApply(s, p, a))
<1> DEFINE lied == ~RevealIsHonest(s.commitments[p], a.fleet, s.shots[p])
           t == [s EXCEPT !.reveals[p] = a.fleet, !.cheated[p] = lied]
<1>1. /\ s.phase = "reveal" /\ a.fleet \in Layouts /\ s.reveals[p] = NoFleet
      /\ p \notin Liars => a.fleet = s.commitments[p]
  BY DEF BattleshipChoices
<1>2. BattleshipApply(s, p, a) = IF NoFleet \in Range(t.reveals) THEN t ELSE Settled(t)
  BY DEF BattleshipApply
<1>3. FleetShape(s) /\ lied \in BOOLEAN
  BY DEF AuditInv, FleetTypes
<1>4. /\ FleetShape(t)
      /\ t.reveals = [s.reveals EXCEPT ![p] = a.fleet] /\ t.cheated = [s.cheated EXCEPT ![p] = lied]
      /\ t.commitments = s.commitments /\ t.phase = s.phase /\ t.shots = s.shots
      /\ t.pending = s.pending /\ t.ending = s.ending /\ t.winner = s.winner
  <2> HIDE DEF lied
  <2> QED BY <1>3 DEF FleetShape
<1>5. /\ t.reveals[p] = a.fleet /\ t.cheated[p] = lied
      /\ \A q \in Seats : q # p => t.reveals[q] = s.reveals[q] /\ t.cheated[q] = s.cheated[q]
  <2> HIDE DEF t, lied
  <2> QED BY <1>3, <1>4 DEF FleetShape
<1> HIDE DEF t
<1>6. AuditInv(t)
  <2>1. FleetTypes(t)
    <3> HIDE DEF lied
    <3> QED BY <1>1, <1>3, <1>4 DEF AuditInv, FleetTypes
  <2>2. ShotsApart(t)
    BY <1>4 DEF AuditInv, ShotsApart
  <2>3. HonestPlay(t)
    BY <1>1, <1>4, <1>5 DEF AuditInv, HonestPlay
  <2>4. Course(t)
    BY <1>1, <1>4 DEF AuditInv, Course
  <2>5. Verdicts(t)
    <3>1. ASSUME NEW q \in Seats
          PROVE  t.cheated[q] <=> /\ t.reveals[q] # NoFleet
                                  /\ ~RevealIsHonest(t.commitments[q], t.reveals[q], t.shots[q])
      <4>1. CASE q = p
        BY <1>1, <1>4, <1>5, <4>1, FleetFacts
      <4>2. CASE q # p
        BY <1>4, <1>5, <4>2 DEF AuditInv, Verdicts
      <4> QED BY <4>1, <4>2
    <3>2. t.winner = Nobody
      BY <1>1, <1>4 DEF AuditInv, Course
    <3> QED BY <3>1, <3>2, FleetFacts DEF Verdicts
  <2> QED BY <2>1, <2>2, <2>3, <2>4, <2>5 DEF AuditInv
<1>7. NoFleet \notin Range(t.reveals) => AuditInv(Settled(t))
  BY <1>1, <1>4, <1>6, SettledKeeps
<1> QED BY <1>2, <1>6, <1>7

\* A game of battleship keeps its invariant, with every move.
LEMMA FleetPlayKeeps ==
  ASSUME NEW s, AuditInv(s), NEW p \in Seats, NEW a \in BattleshipChoices(s, p)
  PROVE  AuditInv(BattleshipApply(s, p, a))
<1>1. a.type \in {"place", "fire", "report", "reveal"}
  BY DEF BattleshipChoices
<1> QED BY <1>1, PlaceKeeps, FireKeeps, ReportKeeps, RevealKeeps

\* And starts with it.
LEMMA FleetsStart ==
  ASSUME NEW s \in BattleshipNew
  PROVE  AuditInv(s)
<1>1. FleetShape(s)
  BY BothStart
<1>2. /\ s.phase = "placement" /\ s.commitments = [p \in Seats |-> NoFleet]
      /\ s.shots = [p \in Seats |-> <<>>] /\ s.pending = NoShot
      /\ s.reveals = [p \in Seats |-> NoFleet] /\ s.cheated = [p \in Seats |-> FALSE]
      /\ s.ending = "none" /\ s.winner = Nobody
  BY DEF BattleshipNew
<1>3. FleetTypes(s)
  <2>1. <<>> \in Seq(Shots)
    OBVIOUS
  <2> QED BY <1>1, <1>2, <2>1 DEF FleetTypes
<1>4. ShotsApart(s)
  BY <1>2 DEF ShotsApart, Once
<1>5. HonestPlay(s)
  BY <1>2 DEF HonestPlay, Truthful
<1>6. Course(s)
  BY <1>2, FleetFacts DEF Course
<1>7. Verdicts(s)
  BY <1>2, FleetFacts DEF Verdicts
<1> QED BY <1>3, <1>4, <1>5, <1>6, <1>7 DEF AuditInv

-----------------------------------------------------------------------------
(* Darts. *)

\* The score a turn began with can be thrown from: a bust leaves nobody on one.
DartsInv(s) ==
  /\ DOMAIN s = {"game", "scores", "turn", "thrown", "turnStart", "turns", "winner", "last", "bust",
                 "thrower"}
  /\ s.scores \in [DartSeats -> Nat] /\ s.turn \in DartSeats /\ s.winner \in {Nobody} \cup DartSeats
  /\ s.thrown \in Nat /\ s.turnStart \in Nat /\ s.turnStart >= 2
  /\ DartsAddsUp(s)

\* Every bed is worth a number of points.
LEMMA BedsCount ==
  ASSUME NEW hit \in Beds
  PROVE  hit.points \in Nat
<1>1. \A n \in Sectors : n \in Nat /\ 2 * n \in Nat /\ 3 * n \in Nat
  BY RaceAssumption
<1> QED BY <1>1 DEF Beds

\* A dart keeps the books right.
LEMMA DartKeeps ==
  ASSUME NEW s, DartsInv(s), NEW p \in DartSeats, NEW hit \in DartsChoices(s, p)
  PROVE  DartsInv(DartsApply(s, p, hit))
<1> DEFINE after    == s.scores[p] - hit.points
           won      == after = 0 /\ hit.ring \in {"double", "innerBull"}
           bust     == ~won /\ after <= 1
           score    == IF won THEN 0 ELSE IF bust THEN s.turnStart ELSE after
           scores   == [s.scores EXCEPT ![p] = score]
           turnOver == won \/ bust \/ s.thrown + 1 >= DartsPerTurn
           passes   == turnOver /\ ~won
           next     == IF passes THEN 1 + (p % Throwers) ELSE p
           t        == DartsApply(s, p, hit)
<1> SUFFICES DartsInv(t)
  OBVIOUS
<1>1. s.winner = Nobody /\ p = s.turn /\ hit \in Beds
  BY DEF DartsChoices, DartsOver
<1>2. /\ DOMAIN t = DOMAIN s
      /\ t.scores = scores /\ t.turn = next /\ t.thrown = (IF turnOver THEN 0 ELSE s.thrown + 1)
      /\ t.turnStart = IF passes THEN scores[next] ELSE s.turnStart
      /\ t.winner = IF won THEN p ELSE s.winner
      /\ t.last = hit /\ t.thrower = p
  <2> HIDE DEF won, bust, scores, turnOver, passes, next
  <2>1. t = [s EXCEPT !.scores = scores, !.turn = next,
                !.thrown    = IF turnOver THEN 0 ELSE @ + 1,
                !.turnStart = IF passes THEN scores[next] ELSE @,
                !.turns     = @ + IF turnOver THEN 1 ELSE 0,
                !.winner    = IF won THEN p ELSE @,
                !.last = hit, !.bust = bust, !.thrower = p]
    BY DEF DartsApply, won, bust, scores, turnOver, passes, next
  <2> HIDE DEF t
  <2> QED BY <2>1 DEF DartsInv
<1>3. /\ \A q \in DartSeats : s.scores[q] \in Nat /\ s.scores[q] >= 2
      /\ s.scores[p] <= s.turnStart /\ s.thrown \in Nat /\ hit.points \in Nat
      /\ s.turnStart \in Nat /\ s.turnStart >= 2 /\ DOMAIN s.scores = DartSeats
  <2>1. \A q \in DartSeats : s.scores[q] \in Nat /\ s.scores[q] # 1 /\ s.scores[q] # 0
    <3>1. Nobody \notin DartSeats
      BY DEF DartSeats, Nobody
    <3> QED BY <1>1, <3>1 DEF DartsInv, DartsAddsUp
  <2>2. \A x \in Nat : x # 0 /\ x # 1 => x >= 2
    OBVIOUS
  <2> QED BY <1>1, <2>1, <2>2, BedsCount DEF DartsInv, DartsAddsUp
<1>4. next \in DartSeats /\ Nobody \notin DartSeats
  BY RaceAssumption DEF DartSeats, Nobody
<1>5. /\ score \in Nat /\ (score = 0 <=> won) /\ score # 1
      /\ ~turnOver => score <= s.turnStart
  BY <1>3
<1>6. scores \in [DartSeats -> Nat] /\ scores[p] = score
      /\ \A q \in DartSeats : q # p => scores[q] = s.scores[q]
  <2> HIDE DEF score
  <2> QED BY <1>3, <1>5
<1>7. t.winner = IF won THEN p ELSE Nobody
  BY <1>1, <1>2
<1>8. t.turnStart \in Nat /\ t.turnStart >= 2 /\ t.thrown \in Nat
  <2>1. CASE passes
    <3>1. scores[next] \in Nat /\ scores[next] >= 2
      <4>1. score # 0
        BY <1>5, <2>1
      <4> HIDE DEF score, scores, next
      <4>2. \A x \in Nat : x # 0 /\ x # 1 => x >= 2
        OBVIOUS
      <4> QED BY <1>3, <1>4, <1>5, <1>6, <4>1, <4>2
    <3> HIDE DEF t, scores, next, turnOver
    <3> QED BY <1>2, <1>3, <2>1, <3>1
  <2>2. CASE ~passes
    <3> HIDE DEF t, scores, next, turnOver
    <3> QED BY <1>2, <1>3, <2>2
  <2> QED BY <2>1, <2>2
<1>9. DartsAddsUp(t)
  <2>1. ASSUME NEW q \in DartSeats
        PROVE  t.scores[q] # 1 /\ (t.scores[q] = 0 <=> t.winner = q)
    <3> HIDE DEF t, scores, score, won
    <3>1. CASE q = p
      BY <1>2, <1>4, <1>5, <1>6, <1>7, <3>1
    <3>2. CASE q # p
      BY <1>2, <1>3, <1>4, <1>6, <1>7, <3>2
    <3> QED BY <3>1, <3>2
  <2>2. t.winner # Nobody => t.last.ring \in {"double", "innerBull"} /\ t.thrower = t.winner
    <3> HIDE DEF t
    <3> QED BY <1>2, <1>7
  <2>3. t.scores[t.turn] <= t.turnStart /\ (t.thrown = 0 /\ t.winner = Nobody => t.scores[t.turn] = t.turnStart)
    <3>1. CASE passes
      <4>1. t.scores[t.turn] = t.turnStart
        <5> HIDE DEF t, scores, next, passes
        <5> QED BY <1>2, <3>1
      <4> HIDE DEF t
      <4> QED BY <1>8, <4>1
    <3>2. CASE won
      <4>1. next = p /\ ~passes /\ score = 0
        BY <3>2
      <4>2. t.scores[t.turn] = 0 /\ t.winner = p
        <5> HIDE DEF t, scores, next, score, won, passes
        <5> QED BY <1>2, <1>6, <1>7, <3>2, <4>1
      <4> HIDE DEF t
      <4> QED BY <1>4, <1>8, <4>2
    <3>3. CASE ~turnOver
      <4>1. next = p /\ ~passes
        BY <3>3
      <4>2. t.scores[t.turn] = score /\ t.turnStart = s.turnStart /\ t.thrown = s.thrown + 1
        <5> HIDE DEF t, scores, next, score, turnOver, passes
        <5> QED BY <1>2, <1>6, <3>3, <4>1
      <4> HIDE DEF t, score, turnOver
      <4> QED BY <1>3, <1>5, <3>3, <4>2
    <3> QED BY <3>1, <3>2, <3>3
  <2> HIDE DEF t
  <2> QED BY <2>1, <2>2, <2>3 DEF DartsAddsUp
<1>10. t.scores \in [DartSeats -> Nat] /\ t.turn \in DartSeats /\ t.winner \in {Nobody} \cup DartSeats
  <2> HIDE DEF t, scores, next, won
  <2> QED BY <1>2, <1>4, <1>6, <1>7
<1>11. DOMAIN t = DOMAIN s
  BY <1>2
<1> HIDE DEF t
<1> QED BY <1>8, <1>9, <1>10, <1>11 DEF DartsInv

\* A game of darts starts with its books right.
LEMMA DartsStart ==
  ASSUME NEW s \in DartsNew
  PROVE  DartsInv(s)
<1>1. StartScore \in Nat /\ StartScore >= 2 /\ 1 \in DartSeats /\ Nobody \notin DartSeats
  BY RaceAssumption DEF DartSeats, Nobody
<1>2. /\ DOMAIN s = {"game", "scores", "turn", "thrown", "turnStart", "turns", "winner", "last", "bust",
                 "thrower"}
      /\ s.scores = [p \in DartSeats |-> StartScore] /\ s.turn = 1 /\ s.thrown = 0
      /\ s.turnStart = StartScore /\ s.winner = Nobody
  BY DEF DartsNew
<1>3. DartsAddsUp(s)
  BY <1>1, <1>2 DEF DartsAddsUp
<1> QED BY <1>1, <1>2, <1>3 DEF DartsInv

-----------------------------------------------------------------------------
(* The code breaker. *)

\* How many pegs of a code have a colour.
Pegs(code, c) == Cardinality({k \in 1..CodeLength : code[k] = c})

\* The cells where the codes agree on one of these colours.
Agreed(secret, guess, colours) ==
  {k \in 1..CodeLength : secret[k] = guess[k] /\ secret[k] \in colours}

\* The element the sum goes on with.
Chosen(s) == CHOOSE x \in s : TRUE

\* g is the table of the sums of f over the parts of S.
Adding(f, S, g) ==
  /\ SumFunction(f) = g[S]
  /\ g[{}] = 0
  /\ \A s \in SUBSET S : g[s] \in Nat
  /\ \A s \in SUBSET S : s # {} => g[s] = f[Chosen(s)] + g[s \ {Chosen(s)}]

\* What SumFunction() is of a finite set, one element at a time.
LEMMA SumSteps ==
  ASSUME NEW f, NEW S, DOMAIN f = S, IsFiniteSet(S), \A i \in S : f[i] \in Nat
  PROVE  \E g : Adding(f, S, g)
<1> DEFINE iter == CHOOSE g : g = Summed(f, g)
           Odd == {n \in Nat : \E s \in SUBSET S : Cardinality(s) = n /\ iter[s] \notin Nat}
<1>1. SumFunction(f) = iter[S]
  BY DEF SumFunction, SumFunctionOnSet, FoldFunctionOnSet, MapThenFoldSet, Summed
<1>2. iter = Summed(f, iter)
  BY SumsExist
<1> HIDE DEF iter
<1>3. iter[{}] = 0
  <2>1. Summed(f, iter)[{}] = 0
    BY DEF Summed
  <2> QED BY <1>2, <2>1
<1>4. ASSUME NEW s \in SUBSET S, s # {}
      PROVE  iter[s] = f[Chosen(s)] + iter[s \ {Chosen(s)}]
  <2>1. Summed(f, iter)[s] = f[Chosen(s)] + iter[s \ {Chosen(s)}]
    BY <1>4 DEF Summed, Chosen
  <2> QED BY <1>2, <2>1
<1>5. ASSUME Odd # {}
      PROVE  FALSE
  <2>1. PICK n \in Odd : \A m \in Odd : n <= m
    BY <1>5, LeastElement
  <2>2. PICK s \in SUBSET S : Cardinality(s) = n /\ iter[s] \notin Nat
    BY <2>1
  <2> DEFINE x == Chosen(s)
  <2>3. s # {}
    BY <1>3, <2>2
  <2>4. /\ x \in S /\ s \ {x} \in SUBSET S
        /\ Cardinality(s \ {x}) = n - 1 /\ Cardinality(s \ {x}) \in Nat
    BY <2>2, <2>3, OneLess DEF Chosen
  <2>5. iter[s] = f[x] + iter[s \ {x}]
    BY <1>4, <2>3
  <2> HIDE DEF x
  <2>6. iter[s \ {x}] \notin Nat
    BY <2>2, <2>4, <2>5
  <2>7. Cardinality(s \ {x}) \in Odd /\ ~(n <= Cardinality(s \ {x}))
    BY <2>1, <2>4, <2>6
  <2> QED BY <2>1, <2>7
<1>6. \A s \in SUBSET S : iter[s] \in Nat
  <2> SUFFICES ASSUME NEW s \in SUBSET S
               PROVE  iter[s] \in Nat
    OBVIOUS
  <2>1. Cardinality(s) \in Nat
    BY FS_Subset, FS_CardinalityType
  <2> QED BY <1>5, <2>1
<1> QED BY <1>1, <1>3, <1>4, <1>6 DEF Adding

\* The lesser of two numbers.
LEMMA MinOfTwo ==
  ASSUME NEW m \in Nat, NEW n \in Nat
  PROVE  Min({m, n}) = IF m <= n THEN m ELSE n
<1>1. Min({m, n}) \in {m, n} /\ \A x \in {m, n} : Min({m, n}) <= x
  BY MinIsLeast
<1> HIDE DEF Min
<1> QED BY <1>1

\* Parts of two disjoint sets are counted apart.
LEMMA CountedApart ==
  ASSUME NEW A, NEW B, NEW C, IsFiniteSet(C), A \subseteq C, B \subseteq C, A \cap B = {}
  PROVE  /\ Cardinality(A) \in Nat /\ Cardinality(B) \in Nat
         /\ Cardinality(A \cup B) = Cardinality(A) + Cardinality(B)
<1>1. IsFiniteSet(A) /\ IsFiniteSet(B)
  BY FS_Subset
<1>2. Cardinality(A \cup B) = Cardinality(A) + Cardinality(B) - Cardinality({})
  BY <1>1, FS_Union
<1> QED BY <1>1, <1>2, FS_CardinalityType, FS_EmptySet

\* The pegs in place and those out of place are the pegs whose colours match one to one.
LEMMA FeedbackAdds ==
  ASSUME NEW secret \in Codes, NEW guess \in Codes
  PROVE  ScoreGuess(secret, guess).exact + ScoreGuess(secret, guess).colour
           = SumFunction([c \in Cells(Colours) |-> Min({Pegs(secret, c), Pegs(guess, c)})])
<1> DEFINE S == Cells(Colours)
           P == 1..CodeLength
           A == [c \in S |-> Min({PegsLeft(secret, guess, c), PegsLeft(guess, secret, c)})]
           B == [c \in S |-> Min({Pegs(secret, c), Pegs(guess, c)})]
           Both(c) == Agreed(secret, guess, {c})
           Same(s) == Cardinality(Agreed(secret, guess, s))
<1>1. IsFiniteSet(S) /\ IsFiniteSet(P)
  <2>1. Colours - 1 \in Int /\ CodeLength \in Int /\ 0 \in Int /\ 1 \in Int
    BY ChoiceAssumption
  <2> QED BY <2>1, FS_Interval DEF Cells
<1>2. \A s : Agreed(secret, guess, s) \subseteq P
  BY DEF Agreed
<1>3. ASSUME NEW c \in S
      PROVE  /\ A[c] \in Nat /\ B[c] \in Nat /\ Same({c}) \in Nat
             /\ B[c] = A[c] + Same({c})
  <2> DEFINE L(x, y) == {i \in P : x[i] # y[i] /\ x[i] = c}
             W(x) == {k \in P : x[k] = c}
  <2>1. /\ W(secret) = L(secret, guess) \cup Both(c) /\ L(secret, guess) \cap Both(c) = {}
        /\ W(guess) = L(guess, secret) \cup Both(c) /\ L(guess, secret) \cap Both(c) = {}
    BY DEF Agreed
  <2>2. /\ Cardinality(L(secret, guess)) \in Nat /\ Cardinality(L(guess, secret)) \in Nat
        /\ Same({c}) \in Nat
        /\ Cardinality(W(secret)) = Cardinality(L(secret, guess)) + Same({c})
        /\ Cardinality(W(guess)) = Cardinality(L(guess, secret)) + Same({c})
    <3>1. L(secret, guess) \subseteq P /\ L(guess, secret) \subseteq P
      OBVIOUS
    <3> HIDE DEF L, W, P
    <3> QED BY <1>1, <1>2, <2>1, <3>1, CountedApart
  <2>3. /\ PegsLeft(secret, guess, c) = Cardinality(L(secret, guess))
        /\ PegsLeft(guess, secret, c) = Cardinality(L(guess, secret))
        /\ Pegs(secret, c) = Cardinality(W(secret)) /\ Pegs(guess, c) = Cardinality(W(guess))
    BY DEF PegsLeft, Pegs
  <2> DEFINE x == Cardinality(L(secret, guess))
             y == Cardinality(L(guess, secret))
             z == Same({c})
  <2>4. A[c] = Min({x, y}) /\ B[c] = Min({x + z, y + z})
    BY <2>2, <2>3
  <2>5. x \in Nat /\ y \in Nat /\ z \in Nat
    BY <2>2
  <2> HIDE DEF A, B, L, W, x, y, z
  <2>6. /\ Min({x, y}) = IF x <= y THEN x ELSE y
        /\ Min({x + z, y + z}) = IF x + z <= y + z THEN x + z ELSE y + z
    <3>1. x + z \in Nat /\ y + z \in Nat
      BY <2>5
    <3> QED BY <2>5, <3>1, MinOfTwo
  <2> QED BY <2>4, <2>5, <2>6 DEF z
<1>4. ScoreGuess(secret, guess).exact = Same(S)
  <2>1. Agreed(secret, guess, S) = {i \in P : secret[i] = guess[i]}
    BY DEF Agreed, Codes
  <2> QED BY <2>1 DEF ScoreGuess
<1>5. ScoreGuess(secret, guess).colour = SumFunction(A)
  BY DEF ScoreGuess
<1>6. DOMAIN A = S /\ DOMAIN B = S
  OBVIOUS
<1> HIDE DEF A, B
<1>7. PICK a : Adding(A, S, a)
  <2>1. \A c \in S : A[c] \in Nat
    BY <1>3
  <2>2. IsFiniteSet(S)
    BY <1>1
  <2>3. DOMAIN A = S
    BY <1>6
  <2> HIDE DEF S
  <2> QED BY <2>1, <2>2, <2>3, SumSteps
<1>8. PICK b : Adding(B, S, b)
  <2>1. \A c \in S : B[c] \in Nat
    BY <1>3
  <2>2. IsFiniteSet(S)
    BY <1>1
  <2>3. DOMAIN B = S
    BY <1>6
  <2> HIDE DEF S
  <2> QED BY <2>1, <2>2, <2>3, SumSteps
<1>20. /\ \A s \in SUBSET S : a[s] \in Nat /\ b[s] \in Nat
       /\ a[{}] = 0 /\ b[{}] = 0
       /\ SumFunction(A) = a[S] /\ SumFunction(B) = b[S]
       /\ \A s \in SUBSET S : s # {} => /\ a[s] = A[Chosen(s)] + a[s \ {Chosen(s)}]
                                        /\ b[s] = B[Chosen(s)] + b[s \ {Chosen(s)}]
  <2> HIDE DEF S
  <2> QED BY <1>7, <1>8 DEF Adding
<1> DEFINE Odd == {n \in Nat : \E s \in SUBSET S : Cardinality(s) = n /\ b[s] # a[s] + Same(s)}
<1>9. ASSUME Odd # {}
      PROVE  FALSE
  <2>1. PICK n \in Odd : \A m \in Odd : n <= m
    BY <1>9, LeastElement
  <2>2. PICK s \in SUBSET S : Cardinality(s) = n /\ b[s] # a[s] + Same(s)
    BY <2>1
  <2> DEFINE x == Chosen(s)
             rest == s \ {x}
  <2>3. s # {}
    <3>1. Agreed(secret, guess, {}) = {}
      BY DEF Agreed
    <3>2. Same({}) = 0
      BY <3>1, FS_EmptySet
    <3>3. a[{}] = 0 /\ b[{}] = 0
      BY <1>20
    <3>4. SUFFICES ASSUME s = {} PROVE FALSE
      OBVIOUS
    <3>5. b[{}] # a[{}] + Same({})
      BY <2>2, <3>4
    <3> HIDE DEF Same
    <3> QED BY <3>2, <3>3, <3>5
  <2>4. /\ x \in S /\ rest \in SUBSET S
        /\ Cardinality(rest) = n - 1 /\ Cardinality(rest) \in Nat
    BY <1>1, <2>2, <2>3, OneLess DEF Chosen
  <2>5. x \in s
    BY <2>3 DEF Chosen
  <2>6. a[s] = A[x] + a[rest] /\ b[s] = B[x] + b[rest]
    BY <1>20, <2>3
  <2> HIDE DEF x
  <2>7. Same(s) = Same(rest) + Same({x}) /\ Same(rest) \in Nat
    <3>1. /\ Agreed(secret, guess, s) = Agreed(secret, guess, rest) \cup Agreed(secret, guess, {x})
          /\ Agreed(secret, guess, rest) \cap Agreed(secret, guess, {x}) = {}
      BY <2>5 DEF Agreed
    <3> HIDE DEF rest, P
    <3> QED BY <1>1, <1>2, <3>1, CountedApart
  <2>8. b[rest] # a[rest] + Same(rest)
    <3>1. a[rest] \in Nat /\ b[rest] \in Nat /\ A[x] \in Nat /\ B[x] = A[x] + Same({x}) /\ Same({x}) \in Nat
      BY <1>3, <1>20, <2>4
    <3> HIDE DEF rest, Same
    <3> QED BY <2>2, <2>6, <2>7, <3>1
  <2>9. Cardinality(rest) \in Odd /\ ~(n <= Cardinality(rest))
    <3> HIDE DEF rest, Same
    <3> QED BY <2>1, <2>4, <2>8
  <2> QED BY <2>1, <2>9
<1>10. b[S] = a[S] + Same(S) /\ a[S] \in Nat
  <2>1. S \in SUBSET S /\ Cardinality(S) \in Nat
    BY <1>1, FS_CardinalityType
  <2> HIDE DEF S, Same
  <2> QED BY <1>20, <1>9, <2>1
<1>11. Same(S) \in Nat
  <2>1. IsFiniteSet(Agreed(secret, guess, S))
    BY <1>1, <1>2, FS_Subset
  <2> QED BY <2>1, FS_CardinalityType
<1> HIDE DEF S, Same
<1>12. ScoreGuess(secret, guess).exact + ScoreGuess(secret, guess).colour = SumFunction(B)
  BY <1>4, <1>5, <1>20, <1>10, <1>11
<1> QED BY <1>12 DEF B, S

\* Every guess on a board was scored against the secret.
CodeInv(s) ==
  /\ DOMAIN s = {"game", "secret", "boards"}
  /\ s.secret \in Codes
  /\ s.boards \in [Seats -> Seq({ScoreGuess(s.secret, guess) : guess \in Codes})]

\* A guess keeps it so.
LEMMA GuessKeeps ==
  ASSUME NEW s, CodeInv(s), NEW p \in Seats, NEW guess \in CodeBreakerChoices(s, p)
  PROVE  CodeInv(CodeBreakerApply(s, p, guess))
<1> DEFINE Scored == {ScoreGuess(s.secret, g) : g \in Codes}
           t == CodeBreakerApply(s, p, guess)
<1>1. guess \in Codes
  BY DEF CodeBreakerChoices
<1>2. /\ DOMAIN t = DOMAIN s /\ t.secret = s.secret
      /\ t.boards = [s.boards EXCEPT ![p] = Append(s.boards[p], ScoreGuess(s.secret, guess))]
  BY DEF CodeBreakerApply, CodeInv
<1>3. Append(s.boards[p], ScoreGuess(s.secret, guess)) \in Seq(Scored)
  <2>1. s.boards[p] \in Seq(Scored) /\ ScoreGuess(s.secret, guess) \in Scored
    BY <1>1 DEF CodeInv
  <2> HIDE DEF Scored
  <2> QED BY <2>1, AppendProperties
<1> HIDE DEF t
<1>4. t.boards \in [Seats -> Seq(Scored)]
  <2>1. s.boards \in [Seats -> Seq(Scored)]
    BY DEF CodeInv
  <2> HIDE DEF Scored
  <2> QED BY <1>2, <1>3, <2>1
<1>5. CodeInv(t)
  BY <1>2, <1>4 DEF CodeInv
<1> QED BY <1>5 DEF t

\* No game of it starts otherwise.
LEMMA CodesStart ==
  ASSUME NEW s \in CodeBreakerNew
  PROVE  CodeInv(s)
<1>1. PICK code \in Codes : s = [game |-> "codeBreaker", secret |-> code, boards |-> [p \in Seats |-> <<>>]]
  BY DEF CodeBreakerNew
<1>2. \A T : <<>> \in Seq(T)
  OBVIOUS
<1> QED BY <1>1, <1>2 DEF CodeInv

\* So every answer on the boards is right.
LEMMA FeedbackFollows ==
  ASSUME NEW s, CodeInv(s)
  PROVE  FeedbackIsRight(s)
<1> SUFFICES ASSUME NEW p \in Seats, NEW i \in DOMAIN s.boards[p]
             PROVE  s.boards[p][i].exact + s.boards[p][i].colour
                      = SumFunction([c \in Cells(Colours) |->
                                       Min({Pegs(s.secret, c), Pegs(s.boards[p][i].guess, c)})])
  BY DEF FeedbackIsRight, Pegs
<1> DEFINE Scored == {ScoreGuess(s.secret, g) : g \in Codes}
<1>1. s.boards[p] \in Seq(Scored) /\ s.secret \in Codes
  BY DEF CodeInv
<1>2. s.boards[p][i] \in Scored
  <2> HIDE DEF Scored
  <2> QED BY <1>1, LenProperties, ElementOfSeq
<1>3. PICK guess \in Codes : s.boards[p][i] = ScoreGuess(s.secret, guess)
  BY <1>2
<1>4. s.boards[p][i].guess = guess
  BY <1>3 DEF ScoreGuess
<1> QED BY <1>1, <1>3, <1>4, FeedbackAdds

-----------------------------------------------------------------------------
(* Reaction. *)

\* What holds of the empty set, and of a set when it holds without the element chosen
\* from it, holds of every part of a finite set.
LEMMA PartByPart ==
  ASSUME NEW S, IsFiniteSet(S), NEW Good, {} \in Good,
         \A s \in SUBSET S : s # {} /\ s \ {Chosen(s)} \in Good => s \in Good
  PROVE  \A s \in SUBSET S : s \in Good
<1> DEFINE Bad == {n \in Nat : \E s \in SUBSET S : Cardinality(s) = n /\ s \notin Good}
<1>1. ASSUME Bad # {}
      PROVE  FALSE
  <2>1. PICK n \in Bad : \A m \in Bad : n <= m
    BY <1>1, LeastElement
  <2>2. PICK s \in SUBSET S : Cardinality(s) = n /\ s \notin Good
    BY <2>1
  <2> DEFINE x == Chosen(s)
  <2>3. s # {}
    BY <2>2
  <2>4. s \ {x} \in SUBSET S /\ Cardinality(s \ {x}) = n - 1 /\ Cardinality(s \ {x}) \in Nat
    BY <2>2, <2>3, OneLess DEF Chosen
  <2>5. s \ {x} \notin Good
    BY <2>2, <2>3
  <2>6. Cardinality(s \ {x}) \in Bad /\ ~(n <= Cardinality(s \ {x}))
    <3> HIDE DEF x
    <3> QED BY <2>1, <2>4, <2>5
  <2> QED BY <2>1, <2>6
<1> SUFFICES ASSUME NEW s \in SUBSET S
             PROVE  s \in Good
  OBVIOUS
<1>2. Cardinality(s) \in Nat
  BY FS_Subset, FS_CardinalityType
<1> QED BY <1>1, <1>2

\* Zeros add up to zero.
LEMMA ZerosAdd ==
  ASSUME NEW S, IsFiniteSet(S), NEW f, DOMAIN f = S, \A i \in S : f[i] = 0
  PROVE  SumFunction(f) = 0
<1>1. PICK a : Adding(f, S, a)
  BY SumSteps
<1> DEFINE Good == {s \in SUBSET S : a[s] = 0}
<1>2. {} \in Good
  BY <1>1 DEF Adding
<1>3. ASSUME NEW s \in SUBSET S, s # {}, s \ {Chosen(s)} \in Good
      PROVE  s \in Good
  <2>1. Chosen(s) \in S
    BY <1>3 DEF Chosen
  <2>2. a[s] = f[Chosen(s)] + a[s \ {Chosen(s)}]
    BY <1>1, <1>3 DEF Adding
  <2> QED BY <1>3, <2>1, <2>2
<1>4. S \in Good
  <2> HIDE DEF Good
  <2> QED BY <1>2, <1>3, PartByPart
<1> QED BY <1>1, <1>4 DEF Adding

\* One more in one place is one more in the sum.
LEMMA OneMoreAdds ==
  ASSUME NEW S, IsFiniteSet(S), NEW f \in [S -> Nat], NEW g \in [S -> Nat], NEW w,
         \A i \in S : g[i] = f[i] + IF i = w THEN 1 ELSE 0
  PROVE  /\ SumFunction(f) \in Nat
         /\ SumFunction(g) = SumFunction(f) + IF w \in S THEN 1 ELSE 0
<1>1. PICK a : Adding(f, S, a)
  BY SumSteps
<1>2. PICK b : Adding(g, S, b)
  BY SumSteps
<1> DEFINE Good == {s \in SUBSET S : b[s] = a[s] + IF w \in s THEN 1 ELSE 0}
<1>3. {} \in Good
  BY <1>1, <1>2 DEF Adding
<1>4. ASSUME NEW s \in SUBSET S, s # {}, s \ {Chosen(s)} \in Good
      PROVE  s \in Good
  <2> DEFINE x == Chosen(s)
  <2>1. x \in S /\ x \in s /\ s \ {x} \in SUBSET S
    BY <1>4 DEF Chosen
  <2>2. a[s] = f[x] + a[s \ {x}] /\ b[s] = g[x] + b[s \ {x}]
    BY <1>1, <1>2, <1>4 DEF Adding
  <2>3. a[s \ {x}] \in Nat
    <3> HIDE DEF x
    <3> QED BY <1>1, <2>1 DEF Adding
  <2>4. b[s \ {x}] = a[s \ {x}] + IF w \in s \ {x} THEN 1 ELSE 0
    BY <1>4
  <2> HIDE DEF x
  <2>5. f[x] \in Nat /\ g[x] = f[x] + IF x = w THEN 1 ELSE 0
    BY <2>1
  <2>6. CASE x = w
    BY <2>1, <2>2, <2>3, <2>4, <2>5, <2>6
  <2>7. CASE x # w
    BY <2>1, <2>2, <2>3, <2>4, <2>5, <2>7
  <2> QED BY <2>6, <2>7
<1>5. S \in Good
  <2> HIDE DEF Good
  <2> QED BY <1>3, <1>4, PartByPart
<1>6. SumFunction(f) = a[S] /\ SumFunction(g) = b[S] /\ a[S] \in Nat
  BY <1>1, <1>2 DEF Adding
<1> QED BY <1>5, <1>6

\* Whoever was fastest has a time, and everybody else is slower or has none.
LEMMA FastestIsFirst ==
  ASSUME NEW reactions \in [RaceSeats -> Nat \cup {NoTime}]
  PROVE  /\ Fastest(reactions) \in RaceSeats \cup {Nobody}
         /\ Fastest(reactions) \in RaceSeats =>
              /\ reactions[Fastest(reactions)] # NoTime
              /\ \A q \in RaceSeats \ {Fastest(reactions)} :
                   reactions[q] = NoTime \/ reactions[Fastest(reactions)] < reactions[q]
<1> DEFINE times == {reactions[p] : p \in RaceSeats} \ {NoTime}
           quick == {p \in RaceSeats : times # {} /\ reactions[p] = Min(times)}
           w     == Fastest(reactions)
<1>1. w = IF Cardinality(quick) = 1 THEN CHOOSE p \in quick : TRUE ELSE Nobody
  BY DEF Fastest
<1>2. Nobody \notin RaceSeats
  BY DEF RaceSeats, Nobody
<1>3. times \subseteq Nat /\ NoTime \notin times
  OBVIOUS
<1>4. IsFiniteSet(quick)
  <2>1. IsFiniteSet(RaceSeats)
    <3>1. Racers \in Int /\ 1 \in Int
      BY RaceAssumption
    <3> QED BY <3>1, FS_Interval DEF RaceSeats
  <2> QED BY <2>1, FS_Subset
<1>5. ASSUME Cardinality(quick) = 1
      PROVE  /\ w \in RaceSeats /\ reactions[w] # NoTime
             /\ \A q \in RaceSeats \ {w} : reactions[q] = NoTime \/ reactions[w] < reactions[q]
  <2>1. PICK x : quick = {x}
    <3> HIDE DEF quick
    <3> QED BY <1>4, <1>5, FS_Singleton
  <2>2. w = x
    <3> HIDE DEF quick, w
    <3> QED BY <1>1, <1>5, <2>1
  <2>3. x \in RaceSeats /\ times # {} /\ reactions[x] = Min(times)
    BY <2>1
  <2>4. Min(times) \in times /\ \A y \in times : Min(times) <= y
    <3> HIDE DEF times
    <3> QED BY <1>3, <2>3, MinIsLeast
  <2>5. ASSUME NEW q \in RaceSeats, q # x, reactions[q] # NoTime
        PROVE  reactions[x] < reactions[q]
    <3>1. reactions[q] \in times /\ reactions[q] # Min(times)
      BY <2>1, <2>3, <2>5
    <3>2. reactions[q] \in Nat /\ reactions[x] \in Nat
      <4> HIDE DEF times
      <4> QED BY <1>3, <2>3, <2>4, <3>1
    <3> HIDE DEF times
    <3> QED BY <2>3, <2>4, <3>1, <3>2
  <2> HIDE DEF w, times, quick
  <2> QED BY <1>3, <2>2, <2>3, <2>4, <2>5
<1> HIDE DEF times, quick
<1> QED BY <1>1, <1>2, <1>5

\* A smaller best time leaves the total no less than the best over all rounds.
LEMMA BestOfAll ==
  ASSUME NEW h \in Nat, NEW tot \in Nat, NEW b \in Nat, NEW r \in Nat, tot >= h * b
  PROVE  LET m == IF b <= r THEN b ELSE r
         IN  tot + r >= (h + 1) * m
<1> DEFINE m == IF b <= r THEN b ELSE r
<1>1. m \in Nat /\ m <= b /\ m <= r
  OBVIOUS
<1>2. PICK d \in Nat : b = m + d
  <2>1. b - m \in Nat /\ b = m + (b - m)
    BY <1>1
  <2> QED BY <2>1
<1> HIDE DEF m
<1>3. h * b = h * m + h * d /\ h * d \in Nat /\ h * m \in Nat
  BY <1>1, <1>2
<1>4. (h + 1) * m = h * m + m
  BY <1>1
<1>5. tot + r >= (h + 1) * m
  <2> DEFINE u == h * b
             v == h * m
             x == h * d
             z == (h + 1) * m
  <2>1. tot >= u /\ u = v + x /\ x \in Nat /\ v \in Nat /\ z = v + m
    BY <1>3, <1>4
  <2> HIDE DEF u, v, x, z
  <2>2. tot + r >= z
    BY <1>1, <2>1
  <2> QED BY <2>2 DEF z
<1> QED BY <1>5 DEF m

\* The times on the board are those of honest taps, and its sums are right.
RaceInv(s) ==
  /\ ReactionShape(s)
  /\ s.waits \in [Cells(RaceRounds) -> MinWait..MaxWait]
  /\ s.round \in Nat /\ s.greenAt \in Nat
  /\ s.taps \in [RaceSeats -> Nat \cup {NotTapped}]
  /\ s.wins \in [RaceSeats -> Nat] /\ s.honest \in [RaceSeats -> Nat]
  /\ s.total \in [RaceSeats -> Nat] /\ s.falseStarts \in [RaceSeats -> Nat]
  /\ s.best \in [RaceSeats -> Nat \cup {NoTime}]
  /\ s.lastReactions \in [RaceSeats -> Nat \cup {NoTime}]
  /\ RaceAddsUp(s)

\* A round that is over adds up, whoever is spared when all others started falsely.
LEMMA ResolvedAddsUp ==
  ASSUME NEW s, RaceInv(s), NEW taps \in [RaceSeats -> Nat \cup {NotTapped}],
         NEW walkover \in RaceSeats \cup {Nobody},
         walkover # Nobody =>
           \A q \in RaceSeats : taps[q] = NotTapped \/ IsFalseStart(s.greenAt, taps[q])
  PROVE  RaceInv(RaceResolved(s, taps, walkover))
<1> DEFINE React(g) == [p \in RaceSeats |->
             IF taps[p] = NotTapped \/ IsFalseStart(g, taps[p]) THEN NoTime ELSE taps[p] - g]
           reactions == React(s.greenAt)
           winner == IF walkover # Nobody THEN walkover ELSE Fastest(reactions)
           wins   == [p \in RaceSeats |-> s.wins[p] + IF p = winner THEN 1 ELSE 0]
           honest == [p \in RaceSeats |-> s.honest[p] + IF reactions[p] # NoTime THEN 1 ELSE 0]
           total  == [p \in RaceSeats |-> s.total[p] + IF reactions[p] # NoTime THEN reactions[p] ELSE 0]
           best   == [p \in RaceSeats |-> IF ~(reactions[p] # NoTime) THEN s.best[p]
                                          ELSE IF s.best[p] = NoTime THEN reactions[p]
                                          ELSE Min({s.best[p], reactions[p]})]
           falses == [p \in RaceSeats |->
                       s.falseStarts[p] + IF ~(reactions[p] # NoTime) /\ taps[p] # NotTapped THEN 1 ELSE 0]
           t == RaceResolved(s, taps, walkover)
           c == Closed(s, s.round + 1, ForAll(FALSE), 0, ForAll(NotTapped), wins, honest, total, best,
                       falses, winner, reactions)
<1>1. t = c
  BY DEF RaceResolved, Closed
<1>2. ReactionShape(c)
  <2> HIDE DEF wins, honest, total, best, falses, winner, reactions
  <2> QED BY ClosedKeeps DEF RaceInv
<1>3. /\ c.waits = s.waits /\ c.round = s.round + 1 /\ c.greenAt = 0 /\ c.taps = ForAll(NotTapped)
      /\ c.wins = wins /\ c.honest = honest /\ c.total = total /\ c.best = best
      /\ c.falseStarts = falses /\ c.lastWinner = winner /\ c.lastReactions = reactions
  <2> DEFINE ready == ForAll(FALSE)
             free  == ForAll(NotTapped)
  <2>1. DOMAIN s = {"game", "waits", "round", "ready", "greenAt", "taps", "wins", "best", "total",
                    "honest", "falseStarts", "lastWinner", "lastReactions"}
    BY DEF RaceInv, ReactionShape
  <2> HIDE DEF wins, honest, total, best, falses, winner, reactions, ready, free
  <2> QED BY <2>1 DEF Closed, free
<1>4. reactions \in [RaceSeats -> Nat \cup {NoTime}]
  <2>1. ASSUME NEW p \in RaceSeats, taps[p] # NotTapped, ~IsFalseStart(s.greenAt, taps[p])
        PROVE  taps[p] - s.greenAt \in Nat
    <3>1. taps[p] \in Nat /\ s.greenAt \in Nat /\ HumanFloor \in Nat
      BY <2>1, RaceAssumption DEF RaceInv
    <3> QED BY <2>1, <3>1 DEF IsFalseStart
  <2> QED BY <2>1
<1>5. winner \in RaceSeats =>
        \A q \in RaceSeats \ {winner} :
          reactions[q] = NoTime \/ (reactions[winner] # NoTime /\ reactions[winner] < reactions[q])
  <2>1. CASE walkover # Nobody
    <3>1. \A q \in RaceSeats : reactions[q] = NoTime
      BY <2>1
    <3> HIDE DEF reactions, winner
    <3> QED BY <3>1
  <2>2. CASE walkover = Nobody
    <3> HIDE DEF reactions
    <3> QED BY <1>4, <2>2, FastestIsFirst
  <2> QED BY <2>1, <2>2
<1>6. winner \in RaceSeats \cup {Nobody}
  <2> HIDE DEF reactions
  <2> QED BY <1>4, FastestIsFirst
<1> HIDE DEF reactions, winner
<1>7. /\ wins \in [RaceSeats -> Nat] /\ honest \in [RaceSeats -> Nat]
      /\ falses \in [RaceSeats -> Nat] /\ total \in [RaceSeats -> Nat]
  BY <1>4 DEF RaceInv
<1>8. SumFunction(wins) <= s.round + 1
  <2>1. /\ s.wins \in [RaceSeats -> Nat] /\ SumFunction(s.wins) <= s.round /\ s.round \in Nat
    BY DEF RaceInv, RaceAddsUp
  <2>2. IsFiniteSet(RaceSeats)
    <3>1. Racers \in Int /\ 1 \in Int
      BY RaceAssumption
    <3> QED BY <3>1, FS_Interval DEF RaceSeats
  <2>3. \A i \in RaceSeats : wins[i] = s.wins[i] + IF i = winner THEN 1 ELSE 0
    OBVIOUS
  <2> HIDE DEF wins
  <2>4. /\ SumFunction(s.wins) \in Nat
        /\ SumFunction(wins) = SumFunction(s.wins) + IF winner \in RaceSeats THEN 1 ELSE 0
    BY <1>7, <2>1, <2>2, <2>3, OneMoreAdds
  <2> QED BY <2>1, <2>4
<1>9. ASSUME NEW p \in RaceSeats
      PROVE  /\ best[p] \in Nat \cup {NoTime}
             /\ honest[p] + falses[p] <= s.round + 1
             /\ honest[p] > 0 => total[p] >= honest[p] * best[p]
             /\ best[p] = NoTime <=> honest[p] = 0
  <2> DEFINE h == s.honest[p]
             b == s.best[p]
             tot == s.total[p]
             r == reactions[p]
  <2>1. /\ h \in Nat /\ tot \in Nat /\ s.falseStarts[p] \in Nat /\ s.round \in Nat
        /\ b \in Nat \cup {NoTime} /\ r \in Nat \cup {NoTime} /\ NoTime \notin Nat
        /\ h + s.falseStarts[p] <= s.round /\ (h > 0 => tot >= h * b) /\ (b = NoTime <=> h = 0)
    BY <1>4 DEF RaceInv, RaceAddsUp, NoTime
  <2>2. /\ honest[p] = h + IF r # NoTime THEN 1 ELSE 0
        /\ total[p] = tot + IF r # NoTime THEN r ELSE 0
        /\ best[p] = IF ~(r # NoTime) THEN b ELSE IF b = NoTime THEN r ELSE Min({b, r})
        /\ \/ falses[p] = s.falseStarts[p]
           \/ r = NoTime /\ falses[p] = s.falseStarts[p] + 1
    BY <2>1
  <2> HIDE DEF h, b, tot, r, honest, total, best, falses
  <2>3. honest[p] + falses[p] <= s.round + 1
    BY <2>1, <2>2
  <2>4. CASE r = NoTime
    BY <2>1, <2>2, <2>3, <2>4
  <2>5. CASE r # NoTime /\ b = NoTime
    <3>1. /\ r \in Nat /\ h = 0 /\ honest[p] = 1 /\ best[p] = r /\ total[p] = tot + r
      BY <2>1, <2>2, <2>5
    <3> QED BY <2>1, <2>3, <3>1
  <2>6. CASE r # NoTime /\ b # NoTime
    <3> DEFINE m == IF b <= r THEN b ELSE r
    <3>1. r \in Nat /\ b \in Nat /\ h # 0 /\ h > 0 /\ tot >= h * b
      BY <2>1, <2>6
    <3>2. Min({b, r}) = m /\ m \in Nat
      BY <3>1, MinOfTwo
    <3>3. tot + r >= (h + 1) * m
      BY <2>1, <3>1, BestOfAll
    <3>4. honest[p] = h + 1 /\ total[p] = tot + r /\ best[p] = m
      BY <2>2, <2>6, <3>2
    <3> HIDE DEF m
    <3>5. total[p] >= honest[p] * best[p]
      BY <3>3, <3>4
    <3> QED BY <2>1, <2>3, <3>1, <3>2, <3>4, <3>5
  <2> QED BY <2>4, <2>5, <2>6
<1>10. best \in [RaceSeats -> Nat \cup {NoTime}]
  <2>1. DOMAIN best = RaceSeats /\ best = [p \in DOMAIN best |-> best[p]]
    OBVIOUS
  <2> HIDE DEF best
  <2> QED BY <1>9, <2>1
<1>11. c.taps \in [RaceSeats -> Nat \cup {NotTapped}]
  BY <1>3 DEF ForAll
<1> HIDE DEF c, wins, honest, total, best, falses
<1>12. RaceAddsUp(c)
  BY <1>3, <1>5, <1>8, <1>9 DEF RaceAddsUp
<1>13. /\ c.round \in Nat /\ c.greenAt \in Nat /\ c.waits \in [Cells(RaceRounds) -> MinWait..MaxWait]
  BY <1>3 DEF RaceInv
<1>14. RaceInv(c)
  BY <1>2, <1>3, <1>4, <1>7, <1>10, <1>11, <1>12, <1>13 DEF RaceInv
<1> QED BY <1>1, <1>14

\* Whatever a player does, it stays so.
LEMMA RaceKeeps ==
  ASSUME NEW s, RaceInv(s), NEW p \in RaceSeats, NEW a \in ReactionChoices(s, p)
  PROVE  RaceInv(ReactionApply(s, p, a))
<1>1. CASE a.type = "ready"
  <2> DEFINE ready == [s.ready EXCEPT ![p] = TRUE]
             green == IF FALSE \in Range(ready) THEN 0 ELSE s.waits[s.round]
             t == [s EXCEPT !.ready = ready, !.greenAt = green]
  <2>1. ReactionApply(s, p, a) = t
    BY <1>1 DEF ReactionApply
  <2>2. ready \in [RaceSeats -> BOOLEAN]
    BY DEF RaceInv, ReactionShape
  <2>3. green \in Nat
    <3>1. s.round \in Nat /\ ~(s.round >= RaceRounds)
      BY DEF ReactionChoices, ReactionOver, RaceInv
    <3>2. s.round \in Cells(RaceRounds)
      BY <3>1, RaceAssumption DEF Cells
    <3>3. s.waits[s.round] \in MinWait..MaxWait
      BY <3>2 DEF RaceInv
    <3>4. MinWait..MaxWait \subseteq Nat /\ 0 \in Nat
      BY RaceAssumption
    <3> HIDE DEF ready
    <3> QED BY <3>3, <3>4
  <2> HIDE DEF ready, green
  <2>4. DOMAIN s = {"game", "waits", "round", "ready", "greenAt", "taps", "wins", "best", "total",
                    "honest", "falseStarts", "lastWinner", "lastReactions"}
    BY DEF RaceInv, ReactionShape
  <2>5. /\ DOMAIN t = DOMAIN s /\ t.ready = ready /\ t.greenAt = green /\ t.waits = s.waits
        /\ t.round = s.round /\ t.taps = s.taps /\ t.wins = s.wins /\ t.best = s.best
        /\ t.total = s.total /\ t.honest = s.honest /\ t.falseStarts = s.falseStarts
        /\ t.lastWinner = s.lastWinner /\ t.lastReactions = s.lastReactions
    BY <2>4
  <2> HIDE DEF t
  <2>6. ReactionShape(t)
    BY <2>2, <2>5 DEF RaceInv, ReactionShape
  <2>7. RaceAddsUp(t)
    BY <2>5 DEF RaceInv, RaceAddsUp
  <2>8. RaceInv(t)
    BY <2>3, <2>5, <2>6, <2>7 DEF RaceInv
  <2> QED BY <2>1, <2>8
<1>2. CASE a.type # "ready"
  <2> DEFINE taps    == [s.taps EXCEPT ![p] = a.at]
             pending == {q \in RaceSeats : taps[q] = NotTapped}
             honest  == {q \in RaceSeats \ pending : ~IsFalseStart(s.greenAt, taps[q])}
             t == [s EXCEPT !.taps = taps]
  <2>1. ReactionApply(s, p, a) =
          IF IsAwaited(pending, honest) THEN t
          ELSE RaceResolved(s, taps, IF pending = {} THEN Nobody ELSE CHOOSE q \in pending : TRUE)
    BY <1>2 DEF ReactionApply
  <2>2. a.at \in Nat
    BY <1>2, RaceAssumption DEF ReactionChoices
  <2>3. taps \in [RaceSeats -> Nat \cup {NotTapped}]
    BY <2>2 DEF RaceInv
  <2>4. RaceInv(t)
    <3> HIDE DEF taps
    <3>1. DOMAIN s = {"game", "waits", "round", "ready", "greenAt", "taps", "wins", "best", "total",
                      "honest", "falseStarts", "lastWinner", "lastReactions"}
      BY DEF RaceInv, ReactionShape
    <3>2. /\ DOMAIN t = DOMAIN s /\ t.ready = s.ready /\ t.greenAt = s.greenAt /\ t.waits = s.waits
          /\ t.round = s.round /\ t.taps = taps /\ t.wins = s.wins /\ t.best = s.best
          /\ t.total = s.total /\ t.honest = s.honest /\ t.falseStarts = s.falseStarts
          /\ t.lastWinner = s.lastWinner /\ t.lastReactions = s.lastReactions
      BY <3>1
    <3> HIDE DEF t
    <3>3. ReactionShape(t)
      BY <2>3, <3>2 DEF RaceInv, ReactionShape
    <3>4. RaceAddsUp(t)
      BY <3>2 DEF RaceInv, RaceAddsUp
    <3> QED BY <2>3, <3>2, <3>3, <3>4 DEF RaceInv
  <2>5. ASSUME ~IsAwaited(pending, honest)
        PROVE  RaceInv(RaceResolved(s, taps, IF pending = {} THEN Nobody ELSE CHOOSE q \in pending : TRUE))
    <3> DEFINE w == IF pending = {} THEN Nobody ELSE CHOOSE q \in pending : TRUE
    <3>1. w \in RaceSeats \cup {Nobody}
      BY DEF Nobody
    <3>2. ASSUME w # Nobody, NEW q \in RaceSeats
          PROVE  taps[q] = NotTapped \/ IsFalseStart(s.greenAt, taps[q])
      <4>1. pending # {}
        BY <3>2
      <4>2. honest = {}
        <5> HIDE DEF pending, honest
        <5> QED BY <2>5, <4>1 DEF IsAwaited
      <4> QED BY <4>2
    <3> HIDE DEF w, taps
    <3>3. RaceInv(RaceResolved(s, taps, w))
      BY <2>3, <3>1, <3>2, ResolvedAddsUp
    <3> QED BY <3>3 DEF w
  <2> HIDE DEF t, pending, honest, taps
  <2> QED BY <2>1, <2>4, <2>5
<1> QED BY <1>1, <1>2

\* Nobody has won or tapped when it starts.
LEMMA RacesStart ==
  ASSUME NEW s \in ReactionNew
  PROVE  RaceInv(s)
<1>1. ReactionShape(s)
  BY BothStart
<1> DEFINE zeros == ForAll(0)
           times == ForAll(NoTime)
<1>2. /\ zeros \in [RaceSeats -> Nat] /\ \A p \in RaceSeats : zeros[p] = 0
      /\ times \in [RaceSeats -> Nat \cup {NoTime}] /\ \A p \in RaceSeats : times[p] = NoTime
      /\ ForAll(NotTapped) \in [RaceSeats -> Nat \cup {NotTapped}]
  BY DEF ForAll
<1>3. PICK ws \in [Cells(RaceRounds) -> MinWait..MaxWait] :
        s = [game |-> "reaction", waits |-> ws, round |-> 0, ready |-> ForAll(FALSE), greenAt |-> 0,
             taps |-> ForAll(NotTapped), wins |-> ForAll(0), best |-> ForAll(NoTime),
             total |-> ForAll(0), honest |-> ForAll(0), falseStarts |-> ForAll(0),
             lastWinner |-> NoRoundYet, lastReactions |-> ForAll(NoTime)]
  BY DEF ReactionNew
<1>4. /\ s.waits = ws /\ s.round = 0 /\ s.greenAt = 0 /\ s.taps = ForAll(NotTapped)
      /\ s.wins = zeros /\ s.best = times /\ s.total = zeros /\ s.honest = zeros
      /\ s.falseStarts = zeros /\ s.lastWinner = NoRoundYet /\ s.lastReactions = times
  BY <1>3
<1>5. SumFunction(zeros) = 0
  <2>1. IsFiniteSet(RaceSeats)
    <3>1. Racers \in Int /\ 1 \in Int
      BY RaceAssumption
    <3> QED BY <3>1, FS_Interval DEF RaceSeats
  <2> HIDE DEF zeros
  <2> QED BY <1>2, <2>1, ZerosAdd
<1>6. NoRoundYet \notin RaceSeats
  BY RaceAssumption DEF RaceSeats, NoRoundYet
<1> HIDE DEF zeros, times
<1>7. RaceAddsUp(s)
  BY <1>2, <1>4, <1>5, <1>6 DEF RaceAddsUp
<1> QED BY <1>1, <1>2, <1>4, <1>7 DEF RaceInv

-----------------------------------------------------------------------------
(* Chess. *)

\* The king there is.
LEMMA TheKing ==
  ASSUME NEW board, NEW c, NEW k, Kings(board, c) = {k}
  PROVE  KingOf(board, c) = k /\ k \in Men(board, c) /\ board[k].type = "king"
  BY DEF KingOf, Kings

\* The greater of two numbers.
LEMMA MaxOfTwo ==
  ASSUME NEW m \in Nat, NEW n \in Nat, n <= m
  PROVE  Max({m, n}) = m
  BY DEF Max

\* The squares between a king and a rook at home.
LEMMA CastlingPath ==
  ASSUME NEW c \in Seats, NEW side \in {"king", "queen"}
  PROVE  LET i    == KingHome(c)
             r    == RookHome([color |-> c, side |-> side])
             step == IF side = "king" THEN 1 ELSE -1
         IN  /\ i \in Squares /\ i + step \in Squares /\ i + 2 * step \in Squares
             /\ i + step \in Between(i, r) /\ i + 2 * step \in Between(i, r)
             /\ File(i) = 4 /\ Rank(i) = HomeRank(c)
             /\ File(i + 2 * step) = 4 + 2 * step
             /\ r = Square(IF side = "king" THEN 7 ELSE 0, HomeRank(c)) /\ r \in Squares
             /\ i + step = Square(4 + step, HomeRank(c))
<1> DEFINE h == HomeRank(c)
           i == KingHome(c)
<1>1. h \in {0, 7} /\ i = h * 8 + 4
  BY DEF HomeRank, KingHome, Square
<1>2. i % 8 = 4 /\ i \div 8 = h /\ i \in Squares
  BY <1>1 DEF Squares
<1>3. CASE side = "king"
  <2> DEFINE r == h * 8 + 7
  <2>1. RookHome([color |-> c, side |-> side]) = r
    BY <1>3 DEF RookHome, Square
  <2>2. r % 8 = 7 /\ r \div 8 = h
    BY <1>1
  <2>3. Apart(File(i), File(r)) = 3 /\ Apart(Rank(i), Rank(r)) = 0
    <3> HIDE DEF i, r, h
    <3> QED BY <1>1, <1>2, <2>2 DEF Apart, File, Rank
  <2>4. Max({3, 0}) = 3
    BY MaxOfTwo
  <2>5. Between(i, r) = {Square(4 + k * 1, h + k * 0) : k \in 1..2}
    <3>1. (File(r) - File(i)) \div 3 = 1 /\ (Rank(r) - Rank(i)) \div 3 = 0
      <4> HIDE DEF i, r, h
      <4> QED BY <1>1, <1>2, <2>2 DEF File, Rank
    <3>2. File(i) = 4 /\ Rank(i) = h
      <4> HIDE DEF i, r, h
      <4> QED BY <1>2 DEF File, Rank
    <3> HIDE DEF i, r, h
    <3> QED BY <2>3, <2>4, <3>1, <3>2 DEF Between
  <2>6. Square(4 + 1 * 1, h + 1 * 0) = i + 1 /\ Square(4 + 2 * 1, h + 2 * 0) = i + 2
    BY <1>1 DEF Square
  <2>7. i + 1 \in Between(i, r) /\ i + 2 \in Between(i, r)
    <3> HIDE DEF i, r, h
    <3> QED BY <2>5, <2>6
  <2>8. /\ i + 1 \in Squares /\ i + 2 \in Squares /\ r \in Squares /\ (i + 2) % 8 = 6
        /\ i + 1 = Square(4 + 1, h)
    BY <1>1 DEF Squares, Square
  <2> HIDE DEF i, r, h
  <2> QED BY <1>2, <1>3, <2>1, <2>7, <2>8 DEF File, Rank, Square, r, i, h
<1>4. CASE side = "queen"
  <2> DEFINE r == h * 8
  <2>1. RookHome([color |-> c, side |-> side]) = r
    BY <1>4, <1>1 DEF RookHome, Square
  <2>2. r % 8 = 0 /\ r \div 8 = h
    BY <1>1
  <2>3. Apart(File(i), File(r)) = 4 /\ Apart(Rank(i), Rank(r)) = 0
    <3> HIDE DEF i, r, h
    <3> QED BY <1>1, <1>2, <2>2 DEF Apart, File, Rank
  <2>4. Max({4, 0}) = 4
    BY MaxOfTwo
  <2>5. Between(i, r) = {Square(4 + k * (-1), h + k * 0) : k \in 1..3}
    <3>1. (File(r) - File(i)) \div 4 = -1 /\ (Rank(r) - Rank(i)) \div 4 = 0
      <4> HIDE DEF i, r, h
      <4> QED BY <1>1, <1>2, <2>2 DEF File, Rank
    <3>2. File(i) = 4 /\ Rank(i) = h
      <4> HIDE DEF i, r, h
      <4> QED BY <1>2 DEF File, Rank
    <3> HIDE DEF i, r, h
    <3> QED BY <2>3, <2>4, <3>1, <3>2 DEF Between
  <2>6. Square(4 + 1 * (-1), h + 1 * 0) = i + (-1) /\ Square(4 + 2 * (-1), h + 2 * 0) = i + 2 * (-1)
    BY <1>1 DEF Square
  <2>7. i + (-1) \in Between(i, r) /\ i + 2 * (-1) \in Between(i, r)
    <3> HIDE DEF i, r, h
    <3> QED BY <2>5, <2>6
  <2>8. /\ i + (-1) \in Squares /\ i + 2 * (-1) \in Squares /\ r \in Squares /\ (i + 2 * (-1)) % 8 = 2
        /\ i + (-1) = Square(4 + (-1), h) /\ r = Square(0, h)
    BY <1>1 DEF Squares, Square
  <2> HIDE DEF i, r, h
  <2> QED BY <1>2, <1>4, <2>1, <2>7, <2>8 DEF File, Rank, r, i, h
<1> QED BY <1>3, <1>4

\* No move takes a king: whoever could do so would have found it in check.
LEMMA NoKingTaken ==
  ASSUME NEW pos, SoundPosition(pos), NEW i \in Men(pos.board, pos.turn),
         NEW j \in Men(pos.board, Rival(pos.turn)), Attacks(pos.board, i, j)
  PROVE  pos.board[j].type # "king"
<1> SUFFICES ASSUME pos.board[j].type = "king"
             PROVE  FALSE
  OBVIOUS
<1> DEFINE c == Rival(pos.turn)
<1>1. c \in Seats /\ Rival(c) = pos.turn
  BY DEF SoundPosition, Seats, Rival
<1>2. PICK k \in Squares : Kings(pos.board, c) = {k}
  BY <1>1 DEF SoundPosition
<1>3. j = k
  BY <1>2 DEF Kings
<1>4. KingOf(pos.board, c) = k
  BY <1>2, TheKing
<1>5. IsInCheck(pos.board, c)
  BY <1>1, <1>3, <1>4 DEF IsInCheck, IsAttacked
<1> QED BY <1>5 DEF SoundPosition

\* A king that castles goes over two free squares towards a rook of its own.
LEMMA CastleIs ==
  ASSUME NEW pos, SoundPosition(pos), NEW i, NEW j \in CastleTargets(pos, i)
  PROVE  \E side \in {"king", "queen"} :
           LET r    == RookHome([color |-> pos.turn, side |-> side])
               step == IF side = "king" THEN 1 ELSE -1
           IN  /\ i = KingHome(pos.turn) /\ j = i + 2 * step
               /\ r \in Men(pos.board, pos.turn) /\ pos.board[r].type = "rook"
               /\ i + step \notin DOMAIN pos.board /\ j \notin DOMAIN pos.board
<1>1. PICK right \in Rights :
        /\ right.color = pos.turn /\ i = KingHome(pos.turn)
        /\ RookHome(right) \in Men(pos.board, pos.turn) /\ pos.board[RookHome(right)].type = "rook"
        /\ Between(i, RookHome(right)) \cap DOMAIN pos.board = {}
        /\ j = i + 2 * (IF right.side = "king" THEN 1 ELSE -1)
  BY DEF CastleTargets
<1> DEFINE side == right.side
           step == IF side = "king" THEN 1 ELSE -1
           r    == RookHome([color |-> pos.turn, side |-> side])
<1>2. side \in {"king", "queen"} /\ RookHome(right) = r /\ pos.turn \in Seats
  BY <1>1 DEF Rights, RookHome, SoundPosition
<1>3. i + step \in Between(i, r) /\ i + 2 * step \in Between(i, r)
  BY <1>1, <1>2, CastlingPath
<1> HIDE DEF step, r
<1>4. /\ i = KingHome(pos.turn) /\ j = i + 2 * step
      /\ r \in Men(pos.board, pos.turn) /\ pos.board[r].type = "rook"
      /\ i + step \notin DOMAIN pos.board /\ j \notin DOMAIN pos.board
  BY <1>1, <1>2, <1>3 DEF step
<1> QED BY <1>2, <1>4 DEF step, r

\* Where a man may go.
LEMMA TargetFacts ==
  ASSUME NEW pos, SoundPosition(pos), NEW i \in Men(pos.board, pos.turn), NEW j \in Targets(pos, i)
  PROVE  /\ i \in Squares /\ j \in Squares /\ i # j /\ j \notin Men(pos.board, pos.turn)
         /\ j \in DOMAIN pos.board =>
              j \in Men(pos.board, Rival(pos.turn)) /\ pos.board[j].type # "king"
<1>1. i \in Squares /\ i \in DOMAIN pos.board /\ pos.turn \in Seats /\ Rival(pos.turn) # pos.turn
  BY DEF SoundPosition, Men, Seats, Rival
<1>2. \A k \in DOMAIN pos.board : pos.board[k].color \in Seats
  BY DEF SoundPosition, Man
<1>3. \A k \in DOMAIN pos.board \ Men(pos.board, pos.turn) : k \in Men(pos.board, Rival(pos.turn))
  BY <1>1, <1>2 DEF Men, Seats, Rival
<1>4. Men(pos.board, pos.turn) \cap Men(pos.board, Rival(pos.turn)) = {}
  BY <1>1 DEF Men
<1>5. CASE pos.board[i].type = "pawn"
  <2>1. j \in PawnTargets(pos, i)
    BY <1>5 DEF Targets
  <2>2. j \in Squares
    BY <2>1 DEF PawnTargets
  <2>3. CASE j \notin DOMAIN pos.board
    BY <1>1, <2>2, <2>3 DEF Men
  <2>4. CASE j \in DOMAIN pos.board
    <3>1. j \in Men(pos.board, Rival(pos.turn)) /\ Attacks(pos.board, i, j)
      BY <2>1, <2>4 DEF PawnTargets
    <3> QED BY <1>1, <1>4, <2>2, <3>1, NoKingTaken
  <2> QED BY <2>3, <2>4
<1>6. CASE j \in Squares \ Men(pos.board, pos.turn) /\ Attacks(pos.board, i, j)
  <2>1. i # j
    BY <1>6
  <2> QED BY <1>1, <1>3, <1>6, <2>1, NoKingTaken
<1>7. CASE pos.board[i].type = "king" /\ j \in CastleTargets(pos, i)
  <2>1. PICK side \in {"king", "queen"} :
          /\ i = KingHome(pos.turn) /\ j = i + 2 * (IF side = "king" THEN 1 ELSE -1)
          /\ j \notin DOMAIN pos.board
    BY <1>7, CastleIs
  <2>2. j \in Squares
    BY <1>1, <2>1, CastlingPath
  <2> QED BY <1>1, <2>1, <2>2 DEF Men
<1> QED BY <1>5, <1>6, <1>7 DEF Targets

\* How a pawn moves: ahead in its file, two squares over a free one, or aside, where a
\* pawn it takes in passing is the one behind the square that is marked.
LEMMA PawnFacts ==
  ASSUME NEW pos, SoundPosition(pos), NEW i \in Men(pos.board, pos.turn), NEW j \in Targets(pos, i),
         pos.board[i].type = "pawn"
  PROVE  /\ File(i) # File(j) /\ j \notin DOMAIN pos.board =>
              /\ pos.ep # NoSquare
              /\ Square(File(j), Rank(i)) = pos.ep - 8 * Forward(pos.turn)
         /\ Apart(Rank(i), Rank(j)) = 2 =>
              /\ (i + j) \div 2 \in Squares \ DOMAIN pos.board
              /\ (i + j) \div 2 \notin {i, j} /\ Rank(j) \notin {0, 7}
              /\ j = (i + j) \div 2 + 8 * Forward(pos.turn)
<1> DEFINE f == Forward(pos.turn)
<1>1. i \in Squares /\ j \in Squares /\ f \in {1, -1}
  BY TargetFacts DEF Forward
<1>2. j \in PawnTargets(pos, i)
  BY DEF Targets
<1>3. \A x \in Squares : x \in Int /\ x >= 0 /\ x < 64 /\ x = 8 * Rank(x) + File(x)
                         /\ File(x) \in 0..7 /\ Rank(x) \in 0..7
  BY DEF Squares, File, Rank
<1>4. \/ j = i + 8 * f
      \/ /\ j = i + 16 * f /\ Rank(i) = PawnRank(pos.turn)
         /\ i + 8 * f \notin DOMAIN pos.board
      \/ /\ Attacks(pos.board, i, j)
         /\ j \in DOMAIN pos.board \/ j = pos.ep
  BY <1>2 DEF PawnTargets, Men
<1>5. ASSUME Attacks(pos.board, i, j)
      PROVE  /\ Rank(j) - Rank(i) = f
             /\ j \notin DOMAIN pos.board => Square(File(j), Rank(i)) = j - 8 * f
  <2>1. Rank(j) - Rank(i) = Forward(pos.board[i].color)
    BY <1>5 DEF Attacks
  <2>2. pos.board[i].color = pos.turn
    BY DEF Men
  <2>3. Rank(j) - Rank(i) = f
    BY <2>1, <2>2
  <2> HIDE DEF f
  <2> QED BY <1>1, <1>3, <2>3 DEF Square
<1>6. CASE j = i + 8 * f
  <2>1. File(i) = File(j) /\ Apart(Rank(i), Rank(j)) = 1
    <3> HIDE DEF f
    <3> QED BY <1>1, <1>6 DEF File, Rank, Apart, Squares
  <2> QED BY <2>1
<1>7. CASE j = i + 16 * f /\ Rank(i) = PawnRank(pos.turn) /\ i + 8 * f \notin DOMAIN pos.board
  <2>1. File(i) = File(j) /\ (i + j) \div 2 = i + 8 * f /\ i + 8 * f \in Squares
    <3> HIDE DEF f
    <3> QED BY <1>1, <1>7 DEF File, Squares
  <2>2. Rank(j) \notin {0, 7}
    <3>1. Rank(i) \in {1, 6} /\ Rank(j) = Rank(i) + 2 * f
      <4>1. Rank(i) \in {1, 6}
        BY <1>7 DEF PawnRank
      <4> HIDE DEF f
      <4> QED BY <1>1, <1>7, <4>1 DEF Rank, Squares
    <3>2. Rank(i) = (IF f = 1 THEN 1 ELSE 6)
      BY <1>7 DEF PawnRank, Forward
    <3> HIDE DEF f
    <3> QED BY <1>1, <3>1, <3>2
  <2>3. i + 8 * f \notin {i, j} /\ j = i + 8 * f + 8 * f
    <3> HIDE DEF f
    <3> QED BY <1>1, <1>3, <1>7
  <2> HIDE DEF f
  <2> QED BY <1>7, <2>1, <2>2, <2>3 DEF f
<1>8. CASE Attacks(pos.board, i, j) /\ (j \in DOMAIN pos.board \/ j = pos.ep)
  <2>1. Rank(j) - Rank(i) = f
    BY <1>5, <1>8
  <2>2. Apart(Rank(i), Rank(j)) = 1
    <3> HIDE DEF f
    <3> QED BY <1>1, <1>3, <2>1 DEF Apart
  <2>3. j \notin DOMAIN pos.board => j = pos.ep /\ Square(File(j), Rank(i)) = pos.ep - 8 * f
    BY <1>5, <1>8
  <2>4. pos.ep = j => pos.ep # NoSquare
    BY <1>3, <1>1 DEF NoSquare
  <2> QED BY <2>2, <2>3, <2>4
<1> HIDE DEF f
<1> QED BY <1>4, <1>6, <1>7, <1>8

\* What a move leaves on the board.
LEMMA MovedBoard ==
  ASSUME NEW pos, SoundPosition(pos), NEW i \in Men(pos.board, pos.turn), NEW j \in Targets(pos, i),
         NEW t, Promotes(pos.board, i, j) => t \in {"queen", "rook", "bishop", "knight"}
  PROVE  LET a == pos.board
             b == BoardAfter(a, [from |-> i, to |-> j, promotion |-> t])
         IN  /\ DOMAIN b \subseteq Squares /\ b \in [DOMAIN b -> Man]
             /\ j \in DOMAIN b /\ b[j].color = pos.turn
             /\ b[j].type = "king" <=> a[i].type = "king"
             /\ a[i].type = "pawn" /\ Rank(j) \notin {0, 7} => b[j] = a[i]
             /\ \A x \in DOMAIN b \ {j} :
                  /\ b[x].type = "king" => x \in DOMAIN a \ {i} /\ b[x] = a[x]
                  /\ a[i].type = "pawn" => x \in DOMAIN a
             /\ \A x \in DOMAIN a \ {i, j} :
                  a[x].type # "pawn" /\ (a[x].color # pos.turn \/ a[i].type # "king") =>
                    x \in DOMAIN b /\ b[x] = a[x]
<1> DEFINE a       == pos.board
           man     == a[i]
           passes  == man.type = "pawn" /\ File(i) # File(j) /\ j \notin DOMAIN a
           passed  == IF passes THEN {Square(File(j), Rank(i))} ELSE {}
           castles == man.type = "king" /\ Apart(File(i), File(j)) = 2
           corner  == Square(IF File(j) = 6 THEN 7 ELSE 0, Rank(i))
           beside  == Square(IF File(j) = 6 THEN 5 ELSE 3, Rank(i))
           gone    == {i} \cup passed \cup (IF castles THEN {corner} ELSE {})
           there   == IF Promotes(a, i, j) THEN [man EXCEPT !.type = t] ELSE man
           D       == ((DOMAIN a) \ gone) \cup {j} \cup (IF castles THEN {beside} ELSE {})
           b       == BoardAfter(a, [from |-> i, to |-> j, promotion |-> t])
<1>1. b = [x \in D |-> IF x = j THEN there ELSE IF castles /\ x = beside THEN a[corner] ELSE a[x]]
  BY DEF BoardAfter
<1>2. /\ i \in Squares /\ j \in Squares /\ i # j /\ j \notin Men(a, pos.turn)
      /\ i \in DOMAIN a /\ DOMAIN a \subseteq Squares /\ man.color = pos.turn
      /\ \A x \in DOMAIN a : a[x] \in Man
      /\ pos.turn \in Seats /\ Rival(pos.turn) # pos.turn
  <2>1. i \in DOMAIN a /\ man.color = pos.turn
    BY DEF Men
  <2>2. pos.turn \in Seats /\ Rival(pos.turn) # pos.turn
    BY DEF SoundPosition, Seats, Rival
  <2>3. DOMAIN a \subseteq Squares /\ \A x \in DOMAIN a : a[x] \in Man
    BY DEF SoundPosition
  <2> QED BY <2>1, <2>2, <2>3, TargetFacts
<1>3. ASSUME castles
      PROVE  /\ corner \in Squares /\ beside \in Squares
             /\ corner \in DOMAIN a /\ a[corner].color = pos.turn /\ a[corner].type = "rook"
             /\ beside \notin DOMAIN a /\ beside # j
  <2>1. j \in CastleTargets(pos, i)
    <3>1. \/ Attacks(a, i, j)
          \/ j \in CastleTargets(pos, i)
      BY <1>3 DEF Targets
    <3>2. ASSUME Attacks(a, i, j) PROVE FALSE
      <4>1. Apart(File(i), File(j)) <= 1
        BY <1>3, <3>2 DEF Attacks
      <4> HIDE DEF a, man
      <4> QED BY <1>3, <4>1
    <3> QED BY <3>1, <3>2
  <2>2. PICK side \in {"king", "queen"} :
          LET r    == RookHome([color |-> pos.turn, side |-> side])
              step == IF side = "king" THEN 1 ELSE -1
          IN  /\ i = KingHome(pos.turn) /\ j = i + 2 * step
              /\ r \in Men(a, pos.turn) /\ a[r].type = "rook"
              /\ i + step \notin DOMAIN a /\ j \notin DOMAIN a
    BY <2>1, CastleIs
  <2> DEFINE h    == HomeRank(pos.turn)
             step == IF side = "king" THEN 1 ELSE -1
             r    == RookHome([color |-> pos.turn, side |-> side])
  <2>3. /\ i + step \in Squares /\ Rank(i) = h /\ File(j) = 4 + 2 * step
        /\ r = Square(IF side = "king" THEN 7 ELSE 0, h) /\ r \in Squares
        /\ i + step = Square(4 + step, h)
    BY <1>2, <2>2, CastlingPath
  <2>4. corner = r
    <3> HIDE DEF r, h
    <3> QED BY <2>3
  <2>5. beside = i + step
    <3> HIDE DEF h
    <3> QED BY <2>3
  <2>6. i + step # j
    BY <1>2, <2>2 DEF Squares
  <2> HIDE DEF corner, beside, step, r, castles
  <2> QED BY <2>2, <2>3, <2>4, <2>5, <2>6 DEF Men, step, r
<1>4. /\ there \in Man /\ there.color = pos.turn /\ (there.type = "king" <=> man.type = "king")
      /\ man.type = "pawn" /\ Rank(j) \notin {0, 7} => there = man
  <2>1. man \in Man
    BY <1>2
  <2>2. CASE Promotes(a, i, j)
    <3>1. there = [man EXCEPT !.type = t] /\ man.type = "pawn" /\ Rank(j) \in {0, 7}
      BY <2>2 DEF Promotes
    <3>2. t \in {"queen", "rook", "bishop", "knight"}
      BY <2>2
    <3> HIDE DEF there, man
    <3> QED BY <1>2, <2>1, <3>1, <3>2 DEF Man
  <2>3. CASE ~Promotes(a, i, j)
    <3>1. there = man
      BY <2>3
    <3> HIDE DEF there, man
    <3> QED BY <1>2, <2>1, <3>1
  <2> QED BY <2>2, <2>3
<1>5. ASSUME passes
      PROVE  \A x \in passed \cap DOMAIN a : a[x].type = "pawn"
  <2>1. pos.ep # NoSquare /\ Square(File(j), Rank(i)) = pos.ep - 8 * Forward(pos.turn)
    BY <1>5, PawnFacts
  <2>2. a[pos.ep - 8 * Forward(pos.turn)].type = "pawn"
    BY <2>1 DEF SoundPosition
  <2> QED BY <2>1, <2>2
<1>6. ~passes => passed = {}
  OBVIOUS
<1>7. passes => ~castles
  OBVIOUS
<1>8. castles => man.type = "king"
  OBVIOUS
<1>9. DOMAIN b = D /\ b[j] = there
      /\ \A x \in D \ {j} : b[x] = IF castles /\ x = beside THEN a[corner] ELSE a[x]
  <2> HIDE DEF b, there, castles, beside, corner
  <2> QED BY <1>1
<1> HIDE DEF b, there, castles, beside, corner, passes, passed
<1>10. DOMAIN b \subseteq Squares /\ b \in [DOMAIN b -> Man]
  <2>1. DOMAIN b \subseteq Squares
    BY <1>2, <1>3, <1>9
  <2>2. \A x \in DOMAIN b : b[x] \in Man
    BY <1>2, <1>3, <1>4, <1>9
  <2>3. b = [x \in DOMAIN b |-> b[x]]
    BY <1>1
  <2> QED BY <2>1, <2>2, <2>3
<1>11. j \in DOMAIN b /\ b[j].color = pos.turn /\ (b[j].type = "king" <=> man.type = "king")
       /\ (man.type = "pawn" /\ Rank(j) \notin {0, 7} => b[j] = man)
  BY <1>4, <1>9
<1>12. ASSUME NEW x \in DOMAIN b \ {j}
       PROVE  /\ b[x].type = "king" => x \in DOMAIN a \ {i} /\ b[x] = a[x]
              /\ man.type = "pawn" => x \in DOMAIN a
  BY <1>3, <1>8, <1>9, <1>12
<1>13. ASSUME NEW x \in DOMAIN a \ {i, j}, a[x].type # "pawn",
              a[x].color # pos.turn \/ man.type # "king"
       PROVE  x \in DOMAIN b /\ b[x] = a[x]
  <2>1. x \notin passed
    BY <1>5, <1>6, <1>13
  <2>2. castles => x # corner /\ x # beside
    BY <1>3, <1>8, <1>13
  <2> QED BY <1>9, <1>13, <2>1, <2>2
<1> QED BY <1>10, <1>11, <1>12, <1>13 DEF b

\* What legalMoves() lists.
LEMMA LegalMove ==
  ASSUME NEW pos, NEW m \in ChessMoves(pos)
  PROVE  \E i \in Men(pos.board, pos.turn) : \E j \in Targets(pos, i) : \E t :
           /\ m = [from |-> i, to |-> j, promotion |-> t]
           /\ Promotes(pos.board, i, j) => t \in {"queen", "rook", "bishop", "knight"}
           /\ LeavesKingSafe(pos, m)
<1> DEFINE Kinds(i, j) == IF Promotes(pos.board, i, j) THEN {"queen", "rook", "bishop", "knight"}
                                                        ELSE {Unpromoted}
           Moves(i, j) == {x \in {[from |-> i, to |-> j, promotion |-> t] : t \in Kinds(i, j)} :
                             LeavesKingSafe(pos, x)}
<1>1. ChessMoves(pos) = UNION {UNION {Moves(i, j) : j \in Targets(pos, i)} : i \in Men(pos.board, pos.turn)}
  BY DEF ChessMoves
<1>2. PICK i \in Men(pos.board, pos.turn) : \E j \in Targets(pos, i) : m \in Moves(i, j)
  <2> HIDE DEF Moves
  <2> QED BY <1>1
<1>3. PICK j \in Targets(pos, i) : m \in Moves(i, j)
  BY <1>2
<1>4. PICK t \in Kinds(i, j) : m = [from |-> i, to |-> j, promotion |-> t] /\ LeavesKingSafe(pos, m)
  BY <1>3
<1>5. Promotes(pos.board, i, j) => t \in {"queen", "rook", "bishop", "knight"}
  BY <1>4
<1> QED BY <1>4, <1>5

\* A position that follows from one of play by a legal move is one of play.
LEMMA MoveKeepsSound ==
  ASSUME NEW pos, SoundPosition(pos), NEW m \in ChessMoves(pos), NEW next,
         next.board = BoardAfter(pos.board, m), next.turn = Rival(pos.turn),
         next.castling = {r \in pos.castling :
                            /\ pos.board[m.from].type = "king" => r.color # pos.turn
                            /\ RookHome(r) \notin {m.from, m.to}},
         next.ep = IF pos.board[m.from].type = "pawn" /\ Apart(Rank(m.from), Rank(m.to)) = 2
                     THEN (m.from + m.to) \div 2 ELSE NoSquare
  PROVE  SoundPosition(next)
<1>10. PICK i \in Men(pos.board, pos.turn) : \E j \in Targets(pos, i) : \E t :
         /\ m = [from |-> i, to |-> j, promotion |-> t]
         /\ Promotes(pos.board, i, j) => t \in {"queen", "rook", "bishop", "knight"}
         /\ LeavesKingSafe(pos, m)
  BY LegalMove
<1>11. PICK j \in Targets(pos, i) : \E t :
         /\ m = [from |-> i, to |-> j, promotion |-> t]
         /\ Promotes(pos.board, i, j) => t \in {"queen", "rook", "bishop", "knight"}
         /\ LeavesKingSafe(pos, m)
  BY <1>10
<1>1. PICK t :
        /\ m = [from |-> i, to |-> j, promotion |-> t]
        /\ Promotes(pos.board, i, j) => t \in {"queen", "rook", "bishop", "knight"}
        /\ LeavesKingSafe(pos, m)
  BY <1>11
<1> DEFINE a == pos.board
           b == BoardAfter(a, [from |-> i, to |-> j, promotion |-> t])
<1>2. m.from = i /\ m.to = j /\ next.board = b
  BY <1>1
<1>3. /\ DOMAIN b \subseteq Squares /\ b \in [DOMAIN b -> Man]
      /\ j \in DOMAIN b /\ b[j].color = pos.turn
      /\ b[j].type = "king" <=> a[i].type = "king"
      /\ a[i].type = "pawn" /\ Rank(j) \notin {0, 7} => b[j] = a[i]
      /\ \A x \in DOMAIN b \ {j} :
           /\ b[x].type = "king" => x \in DOMAIN a \ {i} /\ b[x] = a[x]
           /\ a[i].type = "pawn" => x \in DOMAIN a
      /\ \A x \in DOMAIN a \ {i, j} :
           a[x].type # "pawn" /\ (a[x].color # pos.turn \/ a[i].type # "king") =>
             x \in DOMAIN b /\ b[x] = a[x]
  <2>1. Promotes(pos.board, i, j) => t \in {"queen", "rook", "bishop", "knight"}
    BY <1>1
  <2> QED BY <2>1, MovedBoard
<1>4. /\ i \in Squares /\ j \in Squares /\ i # j /\ i \in DOMAIN a /\ a[i].color = pos.turn
      /\ j \in DOMAIN a => a[j].color = Rival(pos.turn) /\ a[j].type # "king"
      /\ pos.turn \in Seats /\ Rival(pos.turn) \in Seats /\ Rival(Rival(pos.turn)) = pos.turn
      /\ Rival(pos.turn) # pos.turn
      /\ \A c \in Seats : c = pos.turn \/ c = Rival(pos.turn)
  <2>1. pos.turn \in Seats
    BY DEF SoundPosition
  <2>2. /\ Rival(pos.turn) \in Seats /\ Rival(Rival(pos.turn)) = pos.turn /\ Rival(pos.turn) # pos.turn
        /\ \A c \in Seats : c = pos.turn \/ c = Rival(pos.turn)
    BY <2>1 DEF Seats, Rival
  <2> QED BY <2>1, <2>2, TargetFacts DEF Men
<1> HIDE DEF b
<1>5. ASSUME NEW c \in Seats
      PROVE  \E k \in Squares :
               /\ Kings(b, c) = {k}
               /\ c # pos.turn \/ a[i].type # "king" => KingOf(a, c) = k
  <2>1. PICK k \in Squares : Kings(a, c) = {k}
    BY DEF SoundPosition
  <2>2. KingOf(a, c) = k /\ k \in DOMAIN a /\ a[k].color = c /\ a[k].type = "king"
    <3>1. KingOf(a, c) = k /\ k \in Men(a, c) /\ a[k].type = "king"
      <4> HIDE DEF a
      <4> QED BY <2>1, TheKing
    <3> QED BY <3>1 DEF Men
  <2>3. \A x \in DOMAIN a : a[x].color = c /\ a[x].type = "king" => x = k
    BY <2>1 DEF Kings, Men
  <2>4. CASE c = pos.turn /\ a[i].type = "king"
    <3>1. i = k
      BY <1>4, <2>3, <2>4
    <3>2. \A x \in DOMAIN b : b[x].color = c /\ b[x].type = "king" => x = j
      BY <1>3, <2>3, <3>1
    <3>3. Kings(b, c) = {j}
      BY <1>3, <2>4, <3>2 DEF Kings, Men
    <3> QED BY <1>4, <2>4, <3>3
  <2>5. CASE c # pos.turn \/ a[i].type # "king"
    <3>1. k # i /\ k # j
      BY <1>4, <2>2, <2>5
    <3>2. k \in DOMAIN b /\ b[k] = a[k]
      BY <1>3, <2>2, <2>5, <3>1
    <3>3. \A x \in DOMAIN b : b[x].color = c /\ b[x].type = "king" => x = k
      <4> SUFFICES ASSUME NEW x \in DOMAIN b, b[x].color = c, b[x].type = "king"
                   PROVE  x = k
        OBVIOUS
      <4>1. x # j
        BY <1>3, <2>5
      <4> QED BY <1>3, <2>3, <4>1
    <3>4. Kings(b, c) = {k}
      BY <2>2, <3>2, <3>3 DEF Kings, Men
    <3> QED BY <2>2, <3>4
  <2> QED BY <2>4, <2>5
<1>6. ~IsInCheck(b, pos.turn)
  BY <1>1, <1>2 DEF LeavesKingSafe
<1>7. ASSUME NEW r \in next.castling
      PROVE  /\ KingOf(b, r.color) = KingHome(r.color)
             /\ RookHome(r) \in Men(b, r.color) /\ b[RookHome(r)].type = "rook"
  <2>1. /\ r \in pos.castling /\ (a[i].type = "king" => r.color # pos.turn)
        /\ RookHome(r) # i /\ RookHome(r) # j
    BY <1>2
  <2>2. r.color \in Seats
    BY <2>1 DEF SoundPosition, Rights, Seats, White, Black
  <2>3. /\ KingOf(a, r.color) = KingHome(r.color)
        /\ RookHome(r) \in DOMAIN a /\ a[RookHome(r)].color = r.color /\ a[RookHome(r)].type = "rook"
    BY <2>1 DEF SoundPosition, Men
  <2>4. PICK k \in Squares :
          /\ Kings(b, r.color) = {k}
          /\ r.color # pos.turn \/ a[i].type # "king" => KingOf(a, r.color) = k
    BY <1>5, <2>2
  <2>5. KingOf(b, r.color) = k
    <3>1. Kings(b, r.color) = {k}
      BY <2>4
    <3>2. \A c : Kings(b, c) = {k} => KingOf(b, c) = k
      BY TheKing
    <3> QED BY <3>1, <3>2
  <2>6. RookHome(r) \in DOMAIN b /\ b[RookHome(r)] = a[RookHome(r)]
    BY <1>3, <2>1, <2>3
  <2> QED BY <2>1, <2>3, <2>4, <2>5, <2>6 DEF Men
<1>8. ASSUME next.ep # NoSquare
      PROVE  LET pawn == next.ep - 8 * Forward(next.turn)
             IN  /\ next.ep \in Squares \ DOMAIN b
                 /\ pawn \in Men(b, Rival(next.turn)) /\ b[pawn].type = "pawn"
  <2>1. a[i].type = "pawn" /\ Apart(Rank(i), Rank(j)) = 2 /\ next.ep = (i + j) \div 2
    BY <1>2, <1>8
  <2> DEFINE e == (i + j) \div 2
  <2>2. /\ e \in Squares \ DOMAIN a /\ e \notin {i, j} /\ Rank(j) \notin {0, 7}
        /\ j = e + 8 * Forward(pos.turn)
    BY <1>4, <2>1, PawnFacts
  <2>3. Forward(Rival(pos.turn)) = -Forward(pos.turn) /\ Forward(pos.turn) \in {1, -1}
    BY <1>4 DEF Forward, Seats, Rival, White
  <2>4. e - 8 * Forward(next.turn) = j
    <3>1. e \in Int
      BY <2>2 DEF Squares
    <3> HIDE DEF e
    <3> QED BY <2>2, <2>3, <3>1
  <2>5. e \notin DOMAIN b
    BY <1>3, <2>1, <2>2
  <2>6. b[j].type = "pawn" /\ j \in Men(b, pos.turn)
    BY <1>3, <1>4, <2>1, <2>2 DEF Men
  <2> HIDE DEF e
  <2> QED BY <1>4, <2>1, <2>2, <2>4, <2>5, <2>6 DEF e
<1>9. next.castling \subseteq Rights
  BY DEF SoundPosition
<1> QED BY <1>2, <1>3, <1>4, <1>5, <1>6, <1>7, <1>8, <1>9 DEF SoundPosition

\* What a game of chess keeps: what may recur has happened since the last pawn moved or man fell.
ChessInv(s) ==
  /\ DOMAIN s = {"game", "board", "turn", "castling", "ep", "halfmove", "fullmove", "history", "result"}
  /\ SoundPosition(s)
  /\ s.halfmove \in Nat
  /\ s.history \in Seq(Range(s.history)) /\ Len(s.history) = s.halfmove + 1
  /\ s.ep # NoSquare => s.halfmove = 0

\* Working out the result changes nothing else.
LEMMA EvaluatedKeeps ==
  ASSUME NEW s, ChessInv(s)
  PROVE  ChessInv(Evaluated(s))
<1> DEFINE t == Evaluated(s)
<1>1. PICK x : t = [s EXCEPT !.result = x]
  BY DEF Evaluated
<1>2. /\ DOMAIN t = DOMAIN s /\ t.board = s.board /\ t.turn = s.turn /\ t.castling = s.castling
      /\ t.ep = s.ep /\ t.halfmove = s.halfmove /\ t.history = s.history
  <2> HIDE DEF t
  <2> QED BY <1>1 DEF ChessInv
<1> HIDE DEF t
<1>3. SoundPosition(t)
  BY <1>2 DEF ChessInv, SoundPosition
<1>4. ChessInv(t)
  BY <1>2, <1>3 DEF ChessInv
<1> QED BY <1>4 DEF t

\* One position is a history, and one more is one more.
LEMMA OneMoreSeen ==
  ASSUME NEW x
  PROVE  /\ <<x>> \in Seq(Range(<<x>>)) /\ Len(<<x>>) = 1
         /\ \A h : h \in Seq(Range(h)) =>
              /\ Append(h, x) \in Seq(Range(Append(h, x)))
              /\ Len(Append(h, x)) = Len(h) + 1 /\ Len(h) \in Nat
<1>1. \A T, h : h \in Seq(T) => h \in Seq(Range(h))
  <2> SUFFICES ASSUME NEW T, NEW h \in Seq(T) PROVE h \in Seq(Range(h))
    OBVIOUS
  <2>1. Len(h) \in Nat /\ DOMAIN h = 1..Len(h) /\ h = [k \in 1..Len(h) |-> h[k]]
    BY LenProperties
  <2>2. h \in [1..Len(h) -> Range(h)]
    BY <2>1 DEF Range
  <2> QED BY <2>1, <2>2, SeqDef
<1>2. <<x>> \in Seq({x}) /\ Len(<<x>>) = 1
  OBVIOUS
<1>3. ASSUME NEW h, h \in Seq(Range(h))
      PROVE  /\ Append(h, x) \in Seq(Range(h) \cup {x})
             /\ Len(Append(h, x)) = Len(h) + 1 /\ Len(h) \in Nat
  <2>1. h \in Seq(Range(h) \cup {x})
    BY <1>3, SeqMonotonic
  <2> QED BY <1>3, <2>1, AppendProperties, LenProperties
<1> QED BY <1>1, <1>2, <1>3

\* A legal move keeps it all.
LEMMA ChessPlayKeeps ==
  ASSUME NEW s, ChessInv(s), NEW p, NEW m \in ChessChoices(s, p)
  PROVE  ChessInv(ChessApply(s, p, m))
<1> DEFINE man      == s.board[m.from]
           pawn     == man.type = "pawn"
           captured == m.to \in DOMAIN s.board \/ (pawn /\ File(m.from) # File(m.to))
           rank     == Apart(Rank(m.from), Rank(m.to))
           castling == {r \in s.castling : /\ man.type = "king" => r.color # s.turn
                                           /\ RookHome(r) \notin {m.from, m.to}}
           ep       == IF pawn /\ rank = 2 THEN (m.from + m.to) \div 2 ELSE NoSquare
           halfmove == IF pawn \/ captured THEN 0 ELSE s.halfmove + 1
           next     == [s EXCEPT
             !.board    = BoardAfter(s.board, m),
             !.turn     = Rival(s.turn),
             !.castling = {r \in @ : /\ man.type = "king" => r.color # s.turn
                                     /\ RookHome(r) \notin {m.from, m.to}},
             !.ep       = IF pawn /\ rank = 2 THEN (m.from + m.to) \div 2 ELSE NoSquare,
             !.halfmove = IF pawn \/ captured THEN 0 ELSE @ + 1,
             !.fullmove = @ + IF s.turn = Black THEN 1 ELSE 0]
           seen     == IF next.halfmove = 0 THEN <<PositionOf(next)>>
                       ELSE Append(next.history, PositionOf(next))
           t        == [next EXCEPT !.history = seen]
<1>1. ChessApply(s, p, m) = Evaluated(t)
  BY Zenon DEF ChessApply
<1>2. m \in ChessMoves(s)
  BY DEF ChessChoices
<1>3. /\ DOMAIN next = DOMAIN s /\ next.board = BoardAfter(s.board, m) /\ next.turn = Rival(s.turn)
      /\ next.castling = castling /\ next.ep = ep /\ next.halfmove = halfmove
      /\ next.history = s.history
  <2>1. DOMAIN s = {"game", "board", "turn", "castling", "ep", "halfmove", "fullmove", "history", "result"}
    BY DEF ChessInv
  <2> HIDE DEF man, pawn, captured, rank
  <2> QED BY <2>1
<1>4. /\ DOMAIN t = DOMAIN s /\ t.board = next.board /\ t.turn = next.turn
      /\ t.castling = next.castling /\ t.ep = next.ep /\ t.halfmove = next.halfmove
      /\ t.history = seen
  <2> HIDE DEF next, seen
  <2> QED BY <1>3 DEF ChessInv
<1>5. halfmove \in Nat /\ (halfmove = 0 \/ halfmove = s.halfmove + 1)
  BY DEF ChessInv
<1>6. ep # NoSquare => halfmove = 0
  OBVIOUS
<1> HIDE DEF t, next
<1>7. SoundPosition(t)
  <2>1. SoundPosition(s)
    BY DEF ChessInv
  <2>2. /\ t.board = BoardAfter(s.board, m) /\ t.turn = Rival(s.turn)
        /\ t.castling = castling /\ t.ep = ep
    BY <1>3, <1>4
  <2> QED BY <1>2, <2>1, <2>2, MoveKeepsSound
<1>8. seen \in Seq(Range(seen)) /\ Len(seen) = halfmove + 1
  <2>1. s.history \in Seq(Range(s.history)) /\ Len(s.history) = s.halfmove + 1
    BY DEF ChessInv
  <2>2. seen = IF halfmove = 0 THEN <<PositionOf(next)>> ELSE Append(s.history, PositionOf(next))
    <3> HIDE DEF halfmove
    <3> QED BY <1>3
  <2> HIDE DEF seen, halfmove
  <2> DEFINE x == PositionOf(next)
  <2>3. CASE halfmove = 0
    <3>1. seen = <<x>>
      BY <2>2, <2>3
    <3> HIDE DEF x
    <3>2. <<x>> \in Seq(Range(<<x>>)) /\ Len(<<x>>) = 1
      BY OneMoreSeen
    <3> QED BY <2>3, <3>1, <3>2
  <2>4. CASE halfmove # 0
    <3>1. seen = Append(s.history, x)
      BY <2>2, <2>4
    <3> HIDE DEF x
    <3>2. /\ Append(s.history, x) \in Seq(Range(Append(s.history, x)))
          /\ Len(Append(s.history, x)) = Len(s.history) + 1
      BY <2>1, OneMoreSeen
    <3>3. halfmove = s.halfmove + 1
      BY <1>5, <2>4
    <3> QED BY <2>1, <3>1, <3>2, <3>3
  <2> QED BY <2>3, <2>4
<1> HIDE DEF seen, halfmove, ep, castling
<1>9. ChessInv(t)
  BY <1>3, <1>4, <1>5, <1>6, <1>7, <1>8 DEF ChessInv
<1> QED BY <1>1, <1>9, EvaluatedKeeps

\* And a game starts from a position of play.
LEMMA ChessStarts ==
  ASSUME NEW s \in ChessNew
  PROVE  ChessInv(s)
<1>1. PICK o \in Openings :
        s = Evaluated([game |-> "chess", board |-> o.board, turn |-> o.turn, castling |-> o.castling,
              ep |-> o.ep, halfmove |-> 0, fullmove |-> o.fullmove,
              history |-> <<PositionOf(o)>>, result |-> "inProgress"])
  BY DEF ChessNew
<1> DEFINE h == <<PositionOf(o)>>
           t == [game |-> "chess", board |-> o.board, turn |-> o.turn, castling |-> o.castling,
                 ep |-> o.ep, halfmove |-> 0, fullmove |-> o.fullmove,
                 history |-> h, result |-> "inProgress"]
<1>2. SoundPosition(t)
  <2>1. t.board = o.board /\ t.turn = o.turn /\ t.castling = o.castling /\ t.ep = o.ep
    OBVIOUS
  <2> HIDE DEF t
  <2> QED BY <2>1, OpeningAssumption DEF SoundPosition
<1>3. h \in Seq(Range(h)) /\ Len(h) = 1
  BY OneMoreSeen
<1> HIDE DEF h
<1>4. ChessInv(t)
  <2>1. /\ DOMAIN t = {"game", "board", "turn", "castling", "ep", "halfmove", "fullmove", "history", "result"}
        /\ t.halfmove = 0 /\ t.history = h
    OBVIOUS
  <2> HIDE DEF t
  <2> QED BY <1>2, <1>3, <2>1 DEF ChessInv
<1> HIDE DEF t
<1>5. ChessInv(Evaluated(t))
  BY <1>4, EvaluatedKeeps
<1> QED BY <1>1, <1>5 DEF t, h

\* So its rights are earned.
LEMMA RightsFollow ==
  ASSUME NEW s, ChessInv(s)
  PROVE  RightsAreEarned(s)
  BY DEF ChessInv, SoundPosition, RightsAreEarned

-----------------------------------------------------------------------------
(* Lines on a board. *)

\* A product with a positive number is no smaller than that number.
LEMMA ProductGrows ==
  ASSUME NEW n \in Nat, NEW e \in Nat, e >= 1
  PROVE  n * e \in Nat /\ n * e >= n
<1>1. n * e = n + n * (e - 1)
  OBVIOUS
<1>2. n * (e - 1) \in Nat
  <2>1. e - 1 \in Nat
    OBVIOUS
  <2> QED BY <2>1
<1> QED BY <1>1, <1>2

\* Quotient and remainder are what they say.
LEMMA Division ==
  ASSUME NEW x \in Nat, NEW n \in Nat \ {0}
  PROVE  /\ x \div n \in Nat /\ x % n \in 0..(n - 1)
         /\ x = n * (x \div n) + (x % n)
<1>1. x % n \in 0..(n - 1)
  OBVIOUS
<1>2. x \div n \in Int
  OBVIOUS
<1>3. x = n * (x \div n) + (x % n)
  OBVIOUS
<1>4. x \div n \in Nat
  OBVIOUS
<1> QED BY <1>1, <1>3, <1>4

\* And nothing else is.
LEMMA Quotient ==
  ASSUME NEW q \in Int, NEW n \in Nat \ {0}, NEW m \in 0..(n - 1), q >= 0
  PROVE  /\ n * q + m \in Nat
         /\ (n * q + m) \div n = q /\ (n * q + m) % n = m
<1>1. n * q \in Nat /\ n * q + m \in Nat
  OBVIOUS
<1> DEFINE x == n * q + m
           y == x \div n
           z == x % n
<1>2. y \in Nat /\ z \in 0..(n - 1) /\ x = n * y + z
  BY <1>1, Division
<1>3. y = q
  <2>1. n * y + z = n * q + m
    BY <1>2
  <2> HIDE DEF x, y, z
  <2>2. CASE y < q
    <3>1. q = y + (q - y) /\ q - y \in Nat /\ q - y >= 1
      BY <1>2, <2>2
    <3>2. n * (q - y) >= n /\ n * (q - y) \in Nat
      BY <3>1, ProductGrows
    <3>3. n * q = n * y + n * (q - y)
      BY <1>2
    <3> QED BY <1>1, <1>2, <2>1, <3>2, <3>3
  <2>3. CASE q < y
    <3>1. y - q \in Nat /\ y - q >= 1
      BY <1>2, <2>3
    <3>2. n * (y - q) >= n /\ n * (y - q) \in Nat
      BY <3>1, ProductGrows
    <3>3. n * y = n * q + n * (y - q)
      BY <1>2
    <3> QED BY <1>1, <1>2, <2>1, <3>2, <3>3
  <2> QED BY <1>2, <2>2, <2>3
<1>4. z = m
  <2>1. n * y + z = n * q + m
    BY <1>2
  <2> HIDE DEF x, y, z
  <2> QED BY <1>1, <1>2, <1>3, <2>1
<1> QED BY <1>1, <1>3, <1>4

\* One step along an axis, or none.
Units == {-1, 0, 1}

\* What turning a unit round gives.
LEMMA Turned ==
  ASSUME NEW e \in Units
  PROVE  /\ e = 0 => -e = 0
         /\ e = 1 => -e = -1
         /\ e = -1 => -e = 1
<1>1. e \in Int /\ -e \in Int /\ e + (-e) = 0
  <2>1. \A z \in Int : -z \in Int /\ z + (-z) = 0
    OBVIOUS
  <2> QED BY <2>1 DEF Units
<1> DEFINE o == -e
<1>2. o \in Int /\ e + o = 0
  BY <1>1
<1> HIDE DEF o
<1>3. (e = 0 => o = 0) /\ (e = 1 => o = -1) /\ (e = -1 => o = 1)
  BY <1>1, <1>2
<1> QED BY <1>3 DEF o

\* Distances along a direction.
LEMMA Distances ==
  ASSUME NEW e \in Units
  PROVE  /\ -e \in Units
         /\ \A k \in Int : k * e \in Int /\ k * (-e) = (-k) * e
         /\ \A k, o \in Int : (o + k) * e = o * e + k * e
<1>1. CASE e = 0
  <2>1. \A k \in Int : k * 0 = 0 /\ (-k) * 0 = 0
    OBVIOUS
  <2>2. -e = 0
    BY <1>1, Turned
  <2> QED BY <1>1, <2>1, <2>2 DEF Units
<1>2. CASE e = 1
  <2>1. /\ \A k \in Int : k * 1 = k /\ k * (-1) = -k /\ (-k) * 1 = -k /\ -k \in Int
        /\ \A k, o \in Int : (o + k) * 1 = o + k
    OBVIOUS
  <2> QED BY <1>2, <2>1 DEF Units
<1>3. CASE e = -1
  <2>1. /\ \A k \in Int : k * (-1) = -k /\ -k \in Int /\ k * 1 = k /\ (-k) * (-1) = k
        /\ \A k, o \in Int : (o + k) * (-1) = (-o) + (-k)
    OBVIOUS
  <2>2. -e = 1
    BY <1>3, Turned
  <2> QED BY <1>3, <2>1, <2>2 DEF Units
<1> QED BY <1>1, <1>2, <1>3 DEF Units

\* A cell has a row and a column.
LEMMA CellFacts ==
  ASSUME NEW cols \in Nat \ {0}, NEW rows \in Nat \ {0}, NEW x \in Cells(cols * rows)
  PROVE  /\ x \in Nat /\ Row(x, cols) \in Cells(rows) /\ Col(x, cols) \in Cells(cols)
         /\ x = cols * Row(x, cols) + Col(x, cols)
<1> DEFINE r == x \div cols
           c == x % cols
<1>1. cols * rows \in Nat
  OBVIOUS
<1>2. x \in Nat /\ x < cols * rows
  <2> DEFINE n == cols * rows
  <2>1. x \in 0..(n - 1) /\ n \in Nat
    BY <1>1 DEF Cells
  <2> HIDE DEF n
  <2>2. x \in Nat /\ x < n
    BY <2>1
  <2> QED BY <2>2 DEF n
<1>3. r \in Nat /\ c \in 0..(cols - 1) /\ x = cols * r + c
  BY <1>2, Division
<1> HIDE DEF r, c
<1>4. r < rows
  <2> SUFFICES ASSUME r >= rows PROVE FALSE
    BY <1>3
  <2>1. r - rows \in Nat /\ r = rows + (r - rows)
    BY <1>3
  <2>2. cols * (r - rows) \in Nat
    BY <2>1
  <2>3. cols * r = cols * rows + cols * (r - rows)
    BY <1>3
  <2> QED BY <1>1, <1>2, <1>3, <2>2, <2>3
<1> QED BY <1>2, <1>3, <1>4 DEF Cells, Row, Col, r, c

\* A row and a column have a cell.
LEMMA FactsCell ==
  ASSUME NEW cols \in Nat \ {0}, NEW rows \in Nat \ {0}, NEW r \in Cells(rows), NEW c \in Cells(cols)
  PROVE  LET x == cols * r + c
         IN  x \in Cells(cols * rows) /\ Row(x, cols) = r /\ Col(x, cols) = c
<1>1. r \in Int /\ r >= 0 /\ r < rows /\ c \in 0..(cols - 1)
  BY DEF Cells
<1>2. cols * r + c \in Nat /\ (cols * r + c) \div cols = r /\ (cols * r + c) % cols = c
  BY <1>1, Quotient
<1>3. cols * r + c < cols * rows
  <2>1. rows - r \in Nat /\ rows - r >= 1
    BY <1>1
  <2>2. cols * (rows - r) >= cols /\ cols * (rows - r) \in Nat
    BY <2>1, ProductGrows
  <2>3. cols * rows = cols * r + cols * (rows - r) /\ cols * r \in Int
    BY <1>1
  <2> QED BY <1>1, <2>2, <2>3
<1>4. cols * r + c \in 0..(cols * rows - 1)
  <2> DEFINE x == cols * r + c
             n == cols * rows
  <2>1. x \in Nat /\ n \in Int /\ x < n
    BY <1>2, <1>3
  <2> HIDE DEF x, n
  <2>2. x \in 0..(n - 1)
    BY <2>1
  <2> QED BY <2>2 DEF x, n
<1> QED BY <1>2, <1>4 DEF Cells, Row, Col

\* What is k cells on.
LEMMA StepFacts ==
  ASSUME NEW cols \in Nat \ {0}, NEW rows \in Nat \ {0}, NEW x \in Cells(cols * rows),
         NEW d, d[1] \in Units, d[2] \in Units, NEW k \in Int, OnGrid(x, d, k, cols, rows)
  PROVE  LET y == Step(x, d, k, cols)
         IN  /\ y \in Cells(cols * rows)
             /\ Row(y, cols) = Row(x, cols) + k * d[1] /\ Col(y, cols) = Col(x, cols) + k * d[2]
<1> DEFINE r == Row(x, cols) + k * d[1]
           c == Col(x, cols) + k * d[2]
           y == Step(x, d, k, cols)
<1>1. r \in Cells(rows) /\ c \in Cells(cols)
  BY DEF OnGrid
<1>2. y = cols * r + c
  <2>1. /\ x = cols * Row(x, cols) + Col(x, cols) /\ Row(x, cols) \in Int /\ Col(x, cols) \in Int
        /\ x \in Int
    <3>1. /\ x = cols * Row(x, cols) + Col(x, cols)
          /\ Row(x, cols) \in Cells(rows) /\ Col(x, cols) \in Cells(cols) /\ x \in Nat
      BY CellFacts
    <3>2. Cells(rows) \subseteq Int /\ Cells(cols) \subseteq Int
      BY DEF Cells
    <3> QED BY <3>1, <3>2
  <2>2. y = x + k * (d[1] * cols + d[2])
    BY DEF Step
  <2> DEFINE row == Row(x, cols)
             col == Col(x, cols)
             u   == d[1]
             v   == d[2]
  <2>3. u \in Units /\ v \in Units /\ row \in Int /\ col \in Int /\ x = cols * row + col
        /\ y = x + k * (u * cols + v) /\ r = row + k * u /\ c = col + k * v
    BY <2>1, <2>2
  <2> HIDE DEF row, col, u, v, y, r, c
  <2>4. k * (u * cols + v) = (k * u) * cols + k * v
    <3>1. CASE u = 0
      BY <2>3, <3>1 DEF Units
    <3>2. CASE u = 1
      BY <2>3, <3>2 DEF Units
    <3>3. CASE u = -1
      BY <2>3, <3>3 DEF Units
    <3> QED BY <2>3, <3>1, <3>2, <3>3 DEF Units
  <2>5. k * u \in Int /\ k * v \in Int
    BY <2>3, Distances
  <2>6. cols * (row + k * u) = cols * row + (k * u) * cols
    BY <2>3, <2>5
  <2>7. cols * row \in Int /\ (k * u) * cols \in Int
    BY <2>3, <2>5
  <2> QED BY <2>3, <2>4, <2>5, <2>6, <2>7
<1>3. y \in Cells(cols * rows) /\ Row(y, cols) = r /\ Col(y, cols) = c
  BY <1>1, <1>2, FactsCell
<1> QED BY <1>3

\* From there on, distances are counted from there.
LEMMA StepsAdd ==
  ASSUME NEW cols \in Nat \ {0}, NEW rows \in Nat \ {0}, NEW x \in Cells(cols * rows),
         NEW d, d[1] \in Units, d[2] \in Units, NEW o \in Int, OnGrid(x, d, o, cols, rows), NEW k \in Int
  PROVE  LET y == Step(x, d, o, cols)
         IN  /\ OnGrid(y, d, k, cols, rows) <=> OnGrid(x, d, o + k, cols, rows)
             /\ Step(y, d, k, cols) = Step(x, d, o + k, cols)
<1> DEFINE y == Step(x, d, o, cols)
           u == d[1]
           v == d[2]
           row == Row(x, cols)
           col == Col(x, cols)
<1>1. Row(y, cols) = row + o * u /\ Col(y, cols) = col + o * v
  BY StepFacts
<1>2. /\ (o + k) * u = o * u + k * u /\ (o + k) * v = o * v + k * v
      /\ o * u \in Int /\ k * u \in Int /\ o * v \in Int /\ k * v \in Int
  BY Distances
<1>3. row \in Int /\ col \in Int /\ x \in Int
  <2>1. row \in Cells(rows) /\ col \in Cells(cols) /\ x \in Nat
    BY CellFacts
  <2>2. Cells(rows) \subseteq Int /\ Cells(cols) \subseteq Int
    BY DEF Cells
  <2> QED BY <2>1, <2>2
<1>4. OnGrid(y, d, k, cols, rows) <=> OnGrid(x, d, o + k, cols, rows)
  <2>1. /\ Row(y, cols) + k * u = row + (o + k) * u
        /\ Col(y, cols) + k * v = col + (o + k) * v
    BY <1>1, <1>2, <1>3
  <2> HIDE DEF y
  <2> QED BY <2>1 DEF OnGrid
<1>5. Step(y, d, k, cols) = Step(x, d, o + k, cols)
  <2> DEFINE w == d[1] * cols + d[2]
  <2>1. w \in Int
    BY DEF Units
  <2>2. y = x + o * w /\ Step(y, d, k, cols) = y + k * w /\ Step(x, d, o + k, cols) = x + (o + k) * w
    BY DEF Step
  <2> HIDE DEF w, y
  <2>3. (o + k) * w = o * w + k * w /\ o * w \in Int /\ k * w \in Int
    BY <2>1
  <2> QED BY <1>3, <2>2, <2>3
<1> QED BY <1>4, <1>5

\* Backwards is so many cells less.
LEMMA StepsBack ==
  ASSUME NEW cols \in Nat \ {0}, NEW rows, NEW x,
         NEW d, d[1] \in Units, d[2] \in Units, NEW k \in Int
  PROVE  /\ OnGrid(x, <<-d[1], -d[2]>>, k, cols, rows) <=> OnGrid(x, d, -k, cols, rows)
         /\ Step(x, <<-d[1], -d[2]>>, k, cols) = Step(x, d, -k, cols)
<1>1. k * (-d[1]) = (-k) * d[1] /\ k * (-d[2]) = (-k) * d[2]
  BY Distances
<1>2. k * ((-d[1]) * cols + (-d[2])) = (-k) * (d[1] * cols + d[2])
  <2>1. CASE d[1] = 0
    <3>1. k * (0 * cols + (-d[2])) = (-k) * (0 * cols + d[2])
      <4>1. 0 * cols = 0 /\ -d[2] \in Int /\ d[2] \in Int
        BY DEF Units
      <4>2. 0 * cols + (-d[2]) = -d[2] /\ 0 * cols + d[2] = d[2]
        BY <4>1
      <4> QED BY <1>1, <4>2
    <3>2. (-d[1]) = 0
      BY <2>1, Turned
    <3> QED BY <2>1, <3>1, <3>2
  <2>2. CASE d[1] = 1
    <3>1. k * ((-1) * cols + (-d[2])) = (-k) * (1 * cols + d[2])
      BY DEF Units
    <3> QED BY <2>2, <3>1
  <2>3. CASE d[1] = -1
    <3>1. k * (1 * cols + (-d[2])) = (-k) * ((-1) * cols + d[2])
      BY DEF Units
    <3> QED BY <2>3, <3>1
  <2> QED BY <2>1, <2>2, <2>3 DEF Units
<1> QED BY <1>1, <1>2 DEF OnGrid, Step

\* Whether the cell k on from i along d is on the grid and holds what i holds.
Like(board, i, d, k, cols, rows) ==
  OnGrid(i, d, k, cols, rows) /\ board[Step(i, d, k, cols)] = board[i]

\* A run is the longest of its kind.
LEMMA RunIs ==
  ASSUME NEW board, NEW i, NEW d, NEW limit \in Nat, NEW cols, NEW rows
  PROVE  LET r == Run(board, i, d, limit, cols, rows)
         IN  /\ r \in 0..limit /\ \A k \in 1..r : Like(board, i, d, k, cols, rows)
             /\ \A n \in 0..limit :
                  (\A k \in 1..n : Like(board, i, d, k, cols, rows)) => n <= r
<1> DEFINE T == {n \in 0..limit : \A k \in 1..n :
                   OnGrid(i, d, k, cols, rows) /\ board[Step(i, d, k, cols)] = board[i]}
           r == Run(board, i, d, limit, cols, rows)
<1>1. 0 \in T
  <2>1. 0 \in 0..limit /\ 1..0 = {}
    OBVIOUS
  <2> QED BY <2>1
<1>2. PICK x \in T : \A y \in T : y <= x
  <2>1. T \subseteq 0..limit
    OBVIOUS
  <2> HIDE DEF T
  <2> QED BY <1>1, <2>1, GreatestElement
<1>3. r \in T /\ \A y \in T : y <= r
  <2>1. r = Max(T)
    BY DEF Run
  <2> HIDE DEF T, r
  <2> QED BY <1>2, <2>1 DEF Max
<1> HIDE DEF r
<1> QED BY <1>3 DEF Like, r

\* The four ways a line can go.
LEMMA FourWays ==
  /\ DOMAIN Directions = 1..4
  /\ \A n \in DOMAIN Directions : Directions[n][1] \in Units /\ Directions[n][2] \in Units
<1>1. DOMAIN Directions = 1..4
  BY DEF Directions
<1>2. \A n \in 1..4 : n = 1 \/ n = 2 \/ n = 3 \/ n = 4
  OBVIOUS
<1> QED BY <1>1, <1>2 DEF Directions, Units

\* A window of need cells that takes in i, counted from i.
Window(board, i, d, o, need, cols, rows) ==
  /\ o <= 0 /\ 0 < o + need
  /\ \A k \in 0..(need - 1) : Like(board, i, d, o + k, cols, rows)

\* What findWinThrough() shows is such a window, and it shows one if there is one.
LEMMA WinThroughIs ==
  ASSUME NEW cols \in Nat \ {0}, NEW rows \in Nat \ {0}, NEW need \in Nat \ {0},
         NEW i \in Cells(cols * rows), NEW board
  PROVE  LET line == WinThrough(board, i, need, cols, rows)
         IN  /\ line # <<>> <=>
                  \E n \in DOMAIN Directions, o \in Int :
                    Window(board, i, Directions[n], o, need, cols, rows)
             /\ \A x \in Range(line) : board[x] = board[i]
<1> DEFINE back(d)   == Run(board, i, <<-d[1], -d[2]>>, need - 1, cols, rows)
           fore(d)   == Run(board, i, d, need - 1, cols, rows)
           length(d) == back(d) + 1 + fore(d)
           winning   == {n \in DOMAIN Directions : length(Directions[n]) >= need}
           line      == WinThrough(board, i, need, cols, rows)
           Is(d, k)  == Like(board, i, d, k, cols, rows)
<1>1. need - 1 \in Nat /\ need \in Nat
  OBVIOUS
<1>2. Row(i, cols) \in Int /\ Col(i, cols) \in Int /\ i \in Int
      /\ Row(i, cols) \in Cells(rows) /\ Col(i, cols) \in Cells(cols)
  <2>1. Row(i, cols) \in Cells(rows) /\ Col(i, cols) \in Cells(cols) /\ i \in Nat
    BY CellFacts
  <2>2. Cells(rows) \subseteq Int /\ Cells(cols) \subseteq Int
    BY DEF Cells
  <2> QED BY <2>1, <2>2
<1>3. ASSUME NEW n \in DOMAIN Directions
      PROVE  LET d == Directions[n]
             IN  /\ back(d) \in 0..(need - 1) /\ fore(d) \in 0..(need - 1)
                 /\ \A k \in Int : -back(d) <= k /\ k <= fore(d) => Is(d, k)
                 /\ \A m \in 0..(need - 1) : (\A k \in 1..m : Is(d, -k)) => m <= back(d)
                 /\ \A m \in 0..(need - 1) : (\A k \in 1..m : Is(d, k)) => m <= fore(d)
  <2> DEFINE d == Directions[n]
             e == <<-d[1], -d[2]>>
  <2>1. d[1] \in Units /\ d[2] \in Units
    BY FourWays
  <2>2. \A k \in Int : Like(board, i, e, k, cols, rows) <=> Is(d, -k)
    <3> SUFFICES ASSUME NEW k \in Int
                 PROVE  Like(board, i, e, k, cols, rows) <=> Is(d, -k)
      OBVIOUS
    <3>1. /\ OnGrid(i, e, k, cols, rows) <=> OnGrid(i, d, -k, cols, rows)
          /\ Step(i, e, k, cols) = Step(i, d, -k, cols)
      <4> HIDE DEF d
      <4> QED BY <2>1, StepsBack
    <3> HIDE DEF d, e
    <3> QED BY <3>1 DEF Like
  <2>3. Is(d, 0)
    <3>1. 0 * d[1] = 0 /\ 0 * d[2] = 0 /\ 0 * (d[1] * cols + d[2]) = 0
      <4>1. d[1] \in Int /\ d[2] \in Int /\ cols \in Int
        BY <2>1 DEF Units
      <4>2. d[1] * cols + d[2] \in Int
        BY <4>1
      <4> QED BY <4>1, <4>2
    <3> HIDE DEF d
    <3>2. OnGrid(i, d, 0, cols, rows) /\ Step(i, d, 0, cols) = i
      BY <1>2, <3>1 DEF OnGrid, Step
    <3> QED BY <3>2 DEF Like
  <2>4. /\ back(d) \in 0..(need - 1) /\ \A k \in 1..back(d) : Is(d, -k)
        /\ \A m \in 0..(need - 1) : (\A k \in 1..m : Is(d, -k)) => m <= back(d)
    <3>1. /\ back(d) \in 0..(need - 1) /\ \A k \in 1..back(d) : Like(board, i, e, k, cols, rows)
          /\ \A m \in 0..(need - 1) :
               (\A k \in 1..m : Like(board, i, e, k, cols, rows)) => m <= back(d)
      <4> HIDE DEF d
      <4> QED BY <1>1, RunIs
    <3> HIDE DEF back, Is, d, e
    <3> QED BY <2>2, <3>1
  <2>5. /\ fore(d) \in 0..(need - 1) /\ \A k \in 1..fore(d) : Is(d, k)
        /\ \A m \in 0..(need - 1) : (\A k \in 1..m : Is(d, k)) => m <= fore(d)
    <3> HIDE DEF d
    <3> QED BY <1>1, RunIs
  <2>6. ASSUME NEW k \in Int, -back(d) <= k, k <= fore(d)
        PROVE  Is(d, k)
    <3> DEFINE x == back(d)
               y == fore(d)
    <3>1. x \in Nat /\ y \in Nat /\ -x <= k /\ k <= y
      BY <2>4, <2>5, <2>6
    <3>2. \A m \in 1..x : Is(d, -m)
      BY <2>4
    <3>3. \A m \in 1..y : Is(d, m)
      BY <2>5
    <3> HIDE DEF x, y, Is, d
    <3>4. CASE k = 0
      BY <2>3, <3>4
    <3>5. CASE k > 0
      BY <3>1, <3>3, <3>5
    <3>6. CASE k < 0
      <4>1. -k \in 1..x /\ -(-k) = k
        BY <3>1, <3>6
      <4> QED BY <3>2, <4>1
    <3> QED BY <3>4, <3>5, <3>6
  <2> HIDE DEF Is, back, fore, d
  <2> QED BY <2>4, <2>5, <2>6 DEF d
<1>4. ASSUME NEW n \in DOMAIN Directions, NEW o \in Int,
             Window(board, i, Directions[n], o, need, cols, rows)
      PROVE  n \in winning
  <2> DEFINE d == Directions[n]
  <2>1. o <= 0 /\ 0 < o + need /\ \A k \in 0..(need - 1) : Is(d, o + k)
    BY <1>4 DEF Window
  <2> HIDE DEF Is, back, fore
  <2>2. -o <= back(d)
    <3>1. -o \in 0..(need - 1)
      BY <1>1, <2>1
    <3>2. ASSUME NEW k \in 1..(-o) PROVE Is(d, -k)
      <4> HIDE DEF d
      <4>1. -o - k \in 0..(need - 1) /\ o + (-o - k) = -k
        BY <1>1, <2>1, <3>1
      <4> QED BY <2>1, <4>1
    <3> QED BY <1>3, <3>1, <3>2
  <2>3. o + need - 1 <= fore(d)
    <3>1. o + need - 1 \in 0..(need - 1)
      BY <1>1, <2>1
    <3>2. ASSUME NEW k \in 1..(o + need - 1) PROVE Is(d, k)
      <4> HIDE DEF d
      <4>1. k - o \in 0..(need - 1) /\ o + (k - o) = k
        BY <1>1, <2>1, <3>1
      <4> QED BY <2>1, <4>1
    <3> QED BY <1>3, <3>1, <3>2
  <2>4. back(d) \in Int /\ fore(d) \in Int
    BY <1>3
  <2> DEFINE x == back(d)
             y == fore(d)
  <2>5. length(d) = x + 1 + y /\ -o <= x /\ o + need - 1 <= y /\ x \in Int /\ y \in Int
    BY <2>2, <2>3, <2>4
  <2> HIDE DEF x, y, length, d
  <2>6. length(d) >= need
    BY <1>1, <2>5
  <2> QED BY <2>6 DEF d
<1>5. winning = {} => line = <<>>
  BY DEF WinThrough
<1>6. ASSUME winning # {}
      PROVE  /\ line # <<>>
             /\ \E n \in DOMAIN Directions, o \in Int :
                  Window(board, i, Directions[n], o, need, cols, rows)
             /\ \A x \in Range(line) : board[x] = board[i]
  <2> DEFINE n == Min(winning)
             d == Directions[n]
             b == back(d)
             f == fore(d)
             s == Min({b, length(d) - need})
             o == s - b
  <2>1. n \in winning
    <3>1. winning \subseteq Nat
      BY FourWays
    <3> HIDE DEF winning
    <3> QED BY <1>6, <3>1, MinIsLeast
  <2>2. line = [k \in 1..need |-> Step(i, d, s + k - 1 - b, cols)]
    BY <1>6 DEF WinThrough
  <2>3. n \in DOMAIN Directions /\ length(d) >= need
    BY <2>1
  <2> HIDE DEF n, winning
  <2>4. /\ b \in 0..(need - 1) /\ f \in 0..(need - 1) /\ length(d) = b + 1 + f
        /\ \A k \in Int : -b <= k /\ k <= f => Is(d, k)
    BY <1>3, <2>3
  <2> DEFINE l == length(d)
  <2>5. b \in Nat /\ f \in Nat /\ l = b + 1 + f /\ l >= need
    BY <2>3, <2>4
  <2>6. s = IF b <= l - need THEN b ELSE l - need
    <3> HIDE DEF b, l
    <3>1. l - need \in Nat
      BY <1>1, <2>5
    <3> QED BY <2>5, <3>1, MinOfTwo DEF l
  <2>7. \A k \in Int : -b <= k /\ k <= f => Is(d, k)
    BY <2>4
  <2> HIDE DEF b, f, s, l, d, Is, length
  <2>8. o \in Int /\ o <= 0 /\ 0 < o + need /\ \A k \in 0..(need - 1) : -b <= o + k /\ o + k <= f
    BY <1>1, <2>5, <2>6
  <2>9. \A k \in 0..(need - 1) : Is(d, o + k)
    <3> HIDE DEF o
    <3> QED BY <2>7, <2>8
  <2>10. Window(board, i, d, o, need, cols, rows)
    <3> HIDE DEF o
    <3> QED BY <2>8, <2>9 DEF Window, Is
  <2>11. line # <<>>
    <3>1. 1 \in DOMAIN line
      BY <1>1, <2>2
    <3> HIDE DEF line
    <3> QED BY <3>1
  <2>12. ASSUME NEW k \in 1..need PROVE board[line[k]] = board[i]
    <3>1. line[k] = Step(i, d, s + k - 1 - b, cols)
      BY <2>2
    <3>2. k - 1 \in 0..(need - 1) /\ s + k - 1 - b = o + (k - 1)
      BY <1>1, <2>5, <2>6
    <3>3. Is(d, o + (k - 1))
      <4> HIDE DEF o
      <4> QED BY <2>9, <3>2
    <3> HIDE DEF line, o
    <3> QED BY <3>1, <3>2, <3>3 DEF Is, Like
  <2>13. \A x \in Range(line) : board[x] = board[i]
    <3>1. DOMAIN line = 1..need
      BY <2>2
    <3> HIDE DEF line
    <3> QED BY <2>12, <3>1 DEF Range
  <2> QED BY <2>3, <2>8, <2>10, <2>11, <2>13 DEF d
<1>7. Range(<<>>) = {}
  BY DEF Range
<1> HIDE DEF winning, line
<1> QED BY <1>4, <1>5, <1>6, <1>7 DEF line

\* What holds of a game in which a line wins.
LinesInv(s, need, cols, rows) ==
  /\ {"game", "board", "turn", "moveCount", "winner", "winningLine"} \subseteq DOMAIN s
  /\ s.board \in [Cells(cols * rows) -> {Nobody} \cup Seats]
  /\ s.turn \in Seats /\ s.winner \in {Nobody} \cup Seats
  /\ LinesAreRight(s, need, cols, rows)

\* A line anywhere on the board that was not there before goes through the last stone.
LEMMA NewLineIsThrough ==
  ASSUME NEW cols \in Nat \ {0}, NEW rows \in Nat \ {0}, NEW need \in Nat \ {0},
         NEW old, DOMAIN old = Cells(cols * rows), NEW i \in Cells(cols * rows), NEW p, NEW q,
         ~Aligned(old, q, need, cols, rows),
         Aligned([old EXCEPT ![i] = p], q, need, cols, rows)
  PROVE  /\ p = q
         /\ \E n \in DOMAIN Directions, o \in Int :
              Window([old EXCEPT ![i] = p], i, Directions[n], o, need, cols, rows)
<1> DEFINE b == [old EXCEPT ![i] = p]
<1>1. PICK x \in Cells(cols * rows), n \in DOMAIN Directions :
        \A k \in 0..(need - 1) : /\ OnGrid(x, Directions[n], k, cols, rows)
                                 /\ b[Step(x, Directions[n], k, cols)] = q
  <2>1. DOMAIN b = Cells(cols * rows)
    OBVIOUS
  <2>2. Aligned(b, q, need, cols, rows)
    OBVIOUS
  <2> HIDE DEF b
  <2>3. \E x \in DOMAIN b, n \in DOMAIN Directions :
          \A k \in 0..(need - 1) : /\ OnGrid(x, Directions[n], k, cols, rows)
                                   /\ b[Step(x, Directions[n], k, cols)] = q
    BY <2>2 DEF Aligned
  <2> QED BY <2>1, <2>3
<1> DEFINE d == Directions[n]
<1>2. d[1] \in Units /\ d[2] \in Units
  BY FourWays
<1>3. PICK m \in 0..(need - 1) : old[Step(x, d, m, cols)] # q
  <2>1. ~\E y \in DOMAIN old, n2 \in DOMAIN Directions :
          \A k \in 0..(need - 1) : /\ OnGrid(y, Directions[n2], k, cols, rows)
                                   /\ old[Step(y, Directions[n2], k, cols)] = q
    <3> HIDE DEF b, d
    <3> QED BY DEF Aligned
  <2>2. \A k \in 0..(need - 1) : OnGrid(x, d, k, cols, rows)
    BY <1>1
  <2>3. ~\A k \in 0..(need - 1) : /\ OnGrid(x, Directions[n], k, cols, rows)
                                  /\ old[Step(x, Directions[n], k, cols)] = q
    <3> HIDE DEF b, d
    <3> QED BY <2>1
  <2> HIDE DEF b
  <2> QED BY <2>2, <2>3
<1>4. Step(x, d, m, cols) = i
  <2>1. Step(x, d, m, cols) \in Cells(cols * rows)
    <3>1. OnGrid(x, d, m, cols, rows) /\ m \in Int
      BY <1>1
    <3> HIDE DEF d
    <3> QED BY <1>2, <3>1, StepFacts
  <2>2. b[Step(x, d, m, cols)] = q
    BY <1>1
  <2> HIDE DEF d
  <2> QED BY <1>3, <2>1, <2>2
<1>5. p = q
  <2>1. b[Step(x, d, m, cols)] = q
    BY <1>1
  <2> HIDE DEF d
  <2> QED BY <1>4, <2>1
<1>6. b[i] = p
  OBVIOUS
<1> DEFINE o == -m
<1>7. o \in Int /\ o <= 0 /\ 0 < o + need /\ m \in Int /\ \A k \in 0..(need - 1) : m + (o + k) = k /\ o + k \in Int
  OBVIOUS
<1>8. ASSUME NEW k \in 0..(need - 1)
      PROVE  Like(b, i, d, o + k, cols, rows)
  <2>1. OnGrid(x, d, m, cols, rows) /\ OnGrid(x, d, k, cols, rows) /\ b[Step(x, d, k, cols)] = q
    BY <1>1
  <2>2. o + k \in Int /\ m + (o + k) = k
    BY <1>7
  <2> HIDE DEF o, d, b
  <2> DEFINE y == Step(x, d, m, cols)
  <2>3. /\ OnGrid(y, d, o + k, cols, rows) <=> OnGrid(x, d, m + (o + k), cols, rows)
        /\ Step(y, d, o + k, cols) = Step(x, d, m + (o + k), cols)
    <3>1. m \in Int
      BY <1>7
    <3> QED BY <1>2, <2>1, <2>2, <3>1, StepsAdd
  <2>4. y = i
    BY <1>4
  <2> HIDE DEF y
  <2> QED BY <1>5, <1>6, <2>1, <2>2, <2>3, <2>4 DEF Like
<1>9. Window(b, i, d, o, need, cols, rows)
  <2> HIDE DEF o, d, b
  <2> QED BY <1>7, <1>8 DEF Window
<1> HIDE DEF o, b
<1> QED BY <1>5, <1>7, <1>9 DEF b

\* A window through a stone is a line on the board.
LEMMA WindowIsALine ==
  ASSUME NEW cols \in Nat \ {0}, NEW rows \in Nat \ {0}, NEW need \in Nat \ {0},
         NEW board, DOMAIN board = Cells(cols * rows), NEW i \in Cells(cols * rows),
         NEW n \in DOMAIN Directions, NEW o \in Int,
         Window(board, i, Directions[n], o, need, cols, rows)
  PROVE  Aligned(board, board[i], need, cols, rows)
<1> DEFINE d == Directions[n]
           x == Step(i, d, o, cols)
<1>1. d[1] \in Units /\ d[2] \in Units
  BY FourWays
<1>2. \A k \in 0..(need - 1) : OnGrid(i, d, o + k, cols, rows) /\ board[Step(i, d, o + k, cols)] = board[i]
  BY DEF Window, Like
<1> HIDE DEF d
<1>3. OnGrid(i, d, o, cols, rows)
  <2>1. 0 \in 0..(need - 1) /\ o + 0 = o
    OBVIOUS
  <2> QED BY <1>2, <2>1
<1>4. x \in Cells(cols * rows)
  BY <1>1, <1>3, StepFacts
<1>5. ASSUME NEW k \in 0..(need - 1)
      PROVE  OnGrid(x, d, k, cols, rows) /\ board[Step(x, d, k, cols)] = board[i]
  <2>1. k \in Int
    OBVIOUS
  <2>2. /\ OnGrid(x, d, k, cols, rows) <=> OnGrid(i, d, o + k, cols, rows)
        /\ Step(x, d, k, cols) = Step(i, d, o + k, cols)
    BY <1>1, <1>3, <2>1, StepsAdd
  <2> HIDE DEF x
  <2> QED BY <1>2, <2>2
<1> HIDE DEF x
<1> QED BY <1>4, <1>5 DEF Aligned, d

\* A stone on an empty cell is one stone more.
LEMMA StonesCounted ==
  ASSUME NEW n \in Int, NEW board \in [Cells(n) -> {Nobody} \cup Seats], NEW i \in Cells(n),
         board[i] = Nobody, NEW q \in Seats
  PROVE  \A p \in Seats :
           /\ CountOf(board, p) \in Nat
           /\ CountOf([board EXCEPT ![i] = q], p) = CountOf(board, p) + (IF p = q THEN 1 ELSE 0)
<1> SUFFICES ASSUME NEW p \in Seats
             PROVE  /\ CountOf(board, p) \in Nat
                    /\ CountOf([board EXCEPT ![i] = q], p) = CountOf(board, p) + (IF p = q THEN 1 ELSE 0)
  OBVIOUS
<1> DEFINE S == Owned(board, p)
           T == Owned([board EXCEPT ![i] = q], p)
<1>1. IsFiniteSet(S)
  <2>1. S \subseteq 0..(n - 1)
    BY DEF Owned, Cells
  <2>2. IsFiniteSet(0..(n - 1))
    BY FS_Interval
  <2> HIDE DEF S
  <2> QED BY <2>1, <2>2, FS_Subset
<1>2. Cardinality(S) \in Nat
  <2> HIDE DEF S
  <2> QED BY <1>1, FS_CardinalityType
<1>3. i \notin S
  BY TwoSeats DEF Owned
<1>4. T = IF p = q THEN S \cup {i} ELSE S
  BY TwoSeats DEF Owned
<1>5. Cardinality(S \cup {i}) = Cardinality(S) + 1
  <2> HIDE DEF S
  <2> QED BY <1>1, <1>3, FS_AddElement
<1>6. Cardinality(T) = Cardinality(S) + (IF p = q THEN 1 ELSE 0)
  <2> HIDE DEF S, T
  <2> QED BY <1>2, <1>4, <1>5
<1> QED BY <1>2, <1>6 DEF CountOf

\* A stone that is placed keeps it right, if the line shown with it is the new line.
LEMMA StonePlaced ==
  ASSUME NEW cols \in Nat \ {0}, NEW rows \in Nat \ {0}, NEW need \in Nat \ {0},
         NEW s, LinesInv(s, need, cols, rows), s.winner = Nobody, NEW i \in Cells(cols * rows),
         s.board[i] = Nobody, NEW line, NEW t,
         {"game", "board", "turn", "moveCount", "winner", "winningLine"} \subseteq DOMAIN t,
         t.board = [s.board EXCEPT ![i] = s.turn], t.turn = Rival(s.turn),
         t.winner = IF line = <<>> THEN Nobody ELSE s.turn, t.winningLine = line,
         line # <<>> <=> Aligned(t.board, s.turn, need, cols, rows),
         \A x \in Range(line) : t.board[x] = s.turn
  PROVE  LinesInv(t, need, cols, rows)
<1>1. /\ s.board \in [Cells(cols * rows) -> {Nobody} \cup Seats] /\ s.turn \in Seats
      /\ \A p \in Seats : ~Aligned(s.board, p, need, cols, rows)
  <2>1. Nobody \notin Seats
    BY TwoSeats
  <2> QED BY <2>1 DEF LinesInv, LinesAreRight
<1>2. t.board \in [Cells(cols * rows) -> {Nobody} \cup Seats]
  BY <1>1
<1>3. t.turn \in Seats /\ t.winner \in {Nobody} \cup Seats /\ Nobody \notin Seats
  BY <1>1, TwoSeats
<1>4. ASSUME NEW p \in Seats
      PROVE  t.winner = p <=> Aligned(t.board, p, need, cols, rows)
  <2>1. CASE p = s.turn
    BY <1>3, <2>1
  <2>2. CASE p # s.turn
    <3>1. ~Aligned(t.board, p, need, cols, rows)
      <4>1. DOMAIN s.board = Cells(cols * rows) /\ ~Aligned(s.board, p, need, cols, rows)
        BY <1>1
      <4> SUFFICES ASSUME Aligned(t.board, p, need, cols, rows) PROVE FALSE
        OBVIOUS
      <4>2. Aligned([s.board EXCEPT ![i] = s.turn], p, need, cols, rows)
        OBVIOUS
      <4> DEFINE old == s.board
                 v   == s.turn
      <4>3. DOMAIN old = Cells(cols * rows) /\ ~Aligned(old, p, need, cols, rows)
        BY <4>1
      <4>4. Aligned([old EXCEPT ![i] = v], p, need, cols, rows)
        BY <4>2
      <4>5. v = p
        <5> HIDE DEF old, v
        <5> QED BY ONLY <4>3, <4>4, NewLineIsThrough, cols \in Nat \ {0}, rows \in Nat \ {0},
                        need \in Nat \ {0}, i \in Cells(cols * rows)
      <4> QED BY <2>2, <4>5
    <3> QED BY <1>3, <2>2, <3>1
  <2> QED BY <2>1, <2>2
<1>5. t.winner # Nobody => t.turn = Rival(t.winner) /\ \A x \in Range(t.winningLine) : t.board[x] = t.winner
  BY <1>1
<1>6. CountOf(t.board, 1) - CountOf(t.board, 2) = IF t.turn = 1 THEN 0 ELSE 1
  <2> DEFINE n == CountOf(s.board, 1)
             m == CountOf(s.board, 2)
  <2>1. n \in Nat /\ m \in Nat /\ n - m = IF s.turn = 1 THEN 0 ELSE 1
    <3>1. n - m = IF s.turn = 1 THEN 0 ELSE 1
      BY DEF LinesInv, LinesAreRight
    <3>2. n \in Nat /\ m \in Nat
      <4>1. cols * rows \in Int /\ 1 \in Seats /\ 2 \in Seats
        BY DEF Seats
      <4> DEFINE board == s.board
                 cells == cols * rows
      <4>2. board \in [Cells(cells) -> {Nobody} \cup Seats] /\ i \in Cells(cells) /\ board[i] = Nobody
        BY <1>1
      <4>3. cells \in Int
        BY <4>1
      <4> HIDE DEF cells, board
      <4>4. \A p \in Seats : CountOf(board, p) \in Nat
        BY <4>1, <4>2, <4>3, StonesCounted
      <4> QED BY <4>1, <4>4 DEF board
    <3> QED BY <3>1, <3>2
  <2>2. \A p \in Seats : CountOf(t.board, p) = CountOf(s.board, p) + (IF p = s.turn THEN 1 ELSE 0)
    <3>1. cols * rows \in Int
      OBVIOUS
    <3> QED BY <1>1, <3>1, StonesCounted
  <2>3. 1 \in Seats /\ 2 \in Seats /\ (s.turn = 1 \/ s.turn = 2)
    BY <1>1 DEF Seats
  <2>4. CountOf(t.board, 1) = n + (IF s.turn = 1 THEN 1 ELSE 0) /\ CountOf(t.board, 2) = m + (IF s.turn = 2 THEN 1 ELSE 0)
    BY <2>2, <2>3
  <2> HIDE DEF n, m
  <2> QED BY <2>1, <2>3, <2>4 DEF Rival
<1>7. LinesAreRight(t, need, cols, rows)
  BY <1>4, <1>5, <1>6 DEF LinesAreRight
<1> QED BY <1>2, <1>3, <1>7 DEF LinesInv

\* The board with a stone of the player to move at i.
IsPlaced(b, s, i) == b = [s.board EXCEPT ![i] = s.turn]

\* findWinThrough() shows the new line.
LEMMA WinThroughShows ==
  ASSUME NEW cols \in Nat \ {0}, NEW rows \in Nat \ {0}, NEW need \in Nat \ {0},
         NEW s, LinesInv(s, need, cols, rows), s.winner = Nobody, NEW i \in Cells(cols * rows),
         NEW b, IsPlaced(b, s, i)
  PROVE  /\ WinThrough(b, i, need, cols, rows) # <<>> <=> Aligned(b, s.turn, need, cols, rows)
         /\ \A x \in Range(WinThrough(b, i, need, cols, rows)) : b[x] = s.turn
<1> DEFINE line == WinThrough(b, i, need, cols, rows)
<1>1. /\ DOMAIN s.board = Cells(cols * rows) /\ s.turn \in Seats
      /\ ~Aligned(s.board, s.turn, need, cols, rows)
  <2>1. Nobody \notin Seats
    BY TwoSeats
  <2> QED BY <2>1 DEF LinesInv, LinesAreRight
<1>2. b[i] = s.turn /\ DOMAIN b = Cells(cols * rows)
  BY <1>1 DEF IsPlaced
<1>3. /\ line # <<>> <=> \E n \in DOMAIN Directions, o \in Int :
                           Window(b, i, Directions[n], o, need, cols, rows)
      /\ \A x \in Range(line) : b[x] = b[i]
  BY WinThroughIs
<1>4. ASSUME NEW n \in DOMAIN Directions, NEW o \in Int,
             Window(b, i, Directions[n], o, need, cols, rows)
      PROVE  Aligned(b, s.turn, need, cols, rows)
  <2>1. Aligned(b, b[i], need, cols, rows)
    BY <1>2, <1>4, WindowIsALine
  <2> QED BY <1>2, <2>1
<1>5. ASSUME Aligned(b, s.turn, need, cols, rows)
      PROVE  \E n \in DOMAIN Directions, o \in Int : Window(b, i, Directions[n], o, need, cols, rows)
  BY <1>1, <1>5, NewLineIsThrough DEF IsPlaced
<1> HIDE DEF line
<1> QED BY <1>2, <1>3, <1>4, <1>5 DEF line

\* Placed() is such a placement.
LEMMA PlacedKeeps ==
  ASSUME NEW cols \in Nat \ {0}, NEW rows \in Nat \ {0}, NEW need \in Nat \ {0},
         NEW s, LinesInv(s, need, cols, rows), s.winner = Nobody, NEW i \in Cells(cols * rows),
         s.board[i] = Nobody, NEW line,
         line # <<>> <=> Aligned([s.board EXCEPT ![i] = s.turn], s.turn, need, cols, rows),
         \A x \in Range(line) : [s.board EXCEPT ![i] = s.turn][x] = s.turn
  PROVE  LinesInv(Placed(s, i, line), need, cols, rows)
<1> DEFINE t == Placed(s, i, line)
<1>1. /\ {"game", "board", "turn", "moveCount", "winner", "winningLine"} \subseteq DOMAIN t
      /\ t.board = [s.board EXCEPT ![i] = s.turn] /\ t.turn = Rival(s.turn)
      /\ t.winner = (IF line = <<>> THEN Nobody ELSE s.turn) /\ t.winningLine = line
  BY DEF LinesInv, Placed
<1> HIDE DEF t
<1>2. /\ line # <<>> <=> Aligned(t.board, s.turn, need, cols, rows)
      /\ \A x \in Range(line) : t.board[x] = s.turn
  BY <1>1
<1>3. LinesInv(t, need, cols, rows)
  BY <1>1, <1>2, StonePlaced
<1> QED BY <1>3 DEF t

\* On an empty board nobody has a line.
LEMMA EmptyBoard ==
  ASSUME NEW cols \in Nat \ {0}, NEW rows \in Nat \ {0}, NEW need \in Nat \ {0}, NEW s,
         {"game", "board", "turn", "moveCount", "winner", "winningLine"} \subseteq DOMAIN s,
         s.board = [i \in Cells(cols * rows) |-> Nobody], s.turn = 1, s.winner = Nobody
  PROVE  LinesInv(s, need, cols, rows)
<1>1. ASSUME NEW p \in Seats
      PROVE  /\ ~Aligned(s.board, p, need, cols, rows)
             /\ CountOf(s.board, p) = 0
  <2>1. \A i \in Cells(cols * rows) : s.board[i] # p
    BY TwoSeats
  <2>2. DOMAIN s.board = Cells(cols * rows)
    OBVIOUS
  <2>3. ASSUME Aligned(s.board, p, need, cols, rows) PROVE FALSE
    <3> DEFINE b == s.board
    <3>1. DOMAIN b = Cells(cols * rows) /\ Aligned(b, p, need, cols, rows)
      BY <2>2, <2>3
    <3>2. \A x \in Cells(cols * rows) : b[x] # p
      BY <2>1
    <3> HIDE DEF b
    <3>3. PICK x \in Cells(cols * rows), n \in DOMAIN Directions :
            \A k \in 0..(need - 1) : /\ OnGrid(x, Directions[n], k, cols, rows)
                                     /\ b[Step(x, Directions[n], k, cols)] = p
      BY <3>1 DEF Aligned
    <3> DEFINE d == Directions[n]
    <3>4. d[1] \in Units /\ d[2] \in Units
      BY FourWays
    <3>5. OnGrid(x, d, 0, cols, rows) /\ b[Step(x, d, 0, cols)] = p
      <4>1. 0 \in 0..(need - 1)
        OBVIOUS
      <4> QED BY <3>3, <4>1
    <3> HIDE DEF d
    <3>6. Step(x, d, 0, cols) \in Cells(cols * rows)
      BY <3>4, <3>5, StepFacts
    <3> QED BY <3>2, <3>5, <3>6
  <2>4. Owned(s.board, p) = {}
    BY <2>1, <2>2 DEF Owned
  <2> QED BY <2>3, <2>4, FS_EmptySet DEF CountOf
<1>2. Nobody \notin Seats /\ 1 \in Seats /\ 2 \in Seats
  BY TwoSeats
<1>3. s.board \in [Cells(cols * rows) -> {Nobody} \cup Seats]
  OBVIOUS
<1>4. LinesAreRight(s, need, cols, rows)
  BY <1>1, <1>2 DEF LinesAreRight
<1> QED BY <1>2, <1>3, <1>4 DEF LinesInv

\* The line games begin right.
LEMMA LineGamesStart ==
  /\ \A s \in TicTacToeNew : LinesInv(s, 3, 3, 3)
  /\ \A s \in ConnectFourNew : LinesInv(s, FourLength, FourCols, FourRows)
  /\ \A s \in GomokuNew : LinesInv(s, WinLength, GomokuSize, GomokuSize)
<1>1. {FourCols, FourRows, FourLength, GomokuSize, WinLength} \subseteq Nat \ {0}
  BY GridAssumption
<1>2. ASSUME NEW s \in TicTacToeNew PROVE LinesInv(s, 3, 3, 3)
  <2>1. 3 * 3 = 9 /\ 3 \in Nat \ {0}
    OBVIOUS
  <2>2. /\ {"game", "board", "turn", "moveCount", "winner", "winningLine"} \subseteq DOMAIN s
        /\ s.board = [i \in Cells(9) |-> Nobody] /\ s.turn = 1 /\ s.winner = Nobody
    BY DEF TicTacToeNew, NewLines
  <2>3. s.board = [i \in Cells(3 * 3) |-> Nobody]
    BY <2>1, <2>2
  <2> QED BY <2>1, <2>2, <2>3, EmptyBoard
<1>3. ASSUME NEW s \in ConnectFourNew PROVE LinesInv(s, FourLength, FourCols, FourRows)
  <2>1. /\ {"game", "board", "turn", "moveCount", "winner", "winningLine"} \subseteq DOMAIN s
        /\ s.board = [i \in Cells(FourCols * FourRows) |-> Nobody] /\ s.turn = 1 /\ s.winner = Nobody
    BY DEF ConnectFourNew, NewLines
  <2> QED BY <1>1, <2>1, EmptyBoard
<1>4. ASSUME NEW s \in GomokuNew PROVE LinesInv(s, WinLength, GomokuSize, GomokuSize)
  <2>1. /\ {"game", "board", "turn", "moveCount", "winner", "winningLine"} \subseteq DOMAIN s
        /\ s.board = [i \in Cells(GomokuSize * GomokuSize) |-> Nobody] /\ s.turn = 1 /\ s.winner = Nobody
    BY DEF GomokuNew
  <2> QED BY <1>1, <2>1, EmptyBoard
<1> QED BY <1>2, <1>3, <1>4

\* A stone in gomoku keeps it right.
LEMMA GomokuKeepsLines ==
  ASSUME NEW s, LinesInv(s, WinLength, GomokuSize, GomokuSize), NEW p, NEW i \in GomokuChoices(s, p)
  PROVE  LinesInv(GomokuApply(s, p, i), WinLength, GomokuSize, GomokuSize)
<1>1. GomokuSize \in Nat \ {0} /\ WinLength \in Nat \ {0}
  BY GridAssumption
<1>2. /\ p = s.turn /\ s.winner = Nobody
      /\ i \in Cells(GomokuSize * GomokuSize) /\ s.board[i] = Nobody
  BY DEF GomokuChoices, LinesOver, Owned, LinesInv
<1> DEFINE b    == [s.board EXCEPT ![i] = s.turn]
           line == WinThrough(b, i, WinLength, GomokuSize, GomokuSize)
           u    == Placed(s, i, line)
<1>3. /\ line # <<>> <=> Aligned(b, s.turn, WinLength, GomokuSize, GomokuSize)
      /\ \A x \in Range(line) : b[x] = s.turn
  <2>1. IsPlaced(b, s, i)
    BY DEF IsPlaced
  <2> HIDE DEF b
  <2> QED BY <1>1, <1>2, <2>1, WinThroughShows
<1>4. LinesInv(u, WinLength, GomokuSize, GomokuSize)
  <2> HIDE DEF line
  <2> QED BY <1>1, <1>2, <1>3, PlacedKeeps
<1>5. GomokuApply(s, p, i) = [u EXCEPT !.lastMove = i]
  BY <1>2 DEF GomokuApply, GomokuLine
<1> HIDE DEF u
<1>6. LinesInv([u EXCEPT !.lastMove = i], WinLength, GomokuSize, GomokuSize)
  <2> DEFINE v == [u EXCEPT !.lastMove = i]
  <2>1. /\ DOMAIN v = DOMAIN u /\ v.board = u.board /\ v.turn = u.turn /\ v.winner = u.winner
        /\ v.winningLine = u.winningLine
    BY <1>4 DEF LinesInv
  <2> HIDE DEF v
  <2> QED BY <1>4, <2>1 DEF LinesInv, LinesAreRight, v
<1> QED BY <1>5, <1>6

\* A disc in four in a row keeps it right.
LEMMA FourKeepsLines ==
  ASSUME NEW s, LinesInv(s, FourLength, FourCols, FourRows), NEW p, NEW c \in ConnectFourChoices(s, p)
  PROVE  LinesInv(ConnectFourApply(s, p, c), FourLength, FourCols, FourRows)
<1>1. FourCols \in Nat \ {0} /\ FourRows \in Nat \ {0} /\ FourLength \in Nat \ {0}
  BY GridAssumption
<1>2. p = s.turn /\ s.winner = Nobody /\ c \in Cells(FourCols) /\ FreeRows(s.board, c) # {}
  BY DEF ConnectFourChoices, LinesOver
<1> DEFINE free == FreeRows(s.board, c)
           r    == Max(free)
           i    == r * FourCols + c
<1>3. r \in free
  <2>1. free \subseteq 0..(FourRows - 1) /\ FourRows - 1 \in Nat
    BY <1>1 DEF FreeRows, Cells
  <2>2. free # {}
    BY <1>2
  <2> HIDE DEF free
  <2>3. PICK x \in free : \A y \in free : y <= x
    BY <2>1, <2>2, GreatestElement
  <2> QED BY <2>3 DEF Max
<1>4. r \in Cells(FourRows) /\ s.board[i] = Nobody
  BY <1>3 DEF FreeRows
<1>5. i \in Cells(FourCols * FourRows)
  <2> HIDE DEF r
  <2>1. FourCols * r + c \in Cells(FourCols * FourRows)
    BY <1>1, <1>2, <1>4, FactsCell
  <2>2. r * FourCols = FourCols * r
    BY <1>1, <1>4 DEF Cells
  <2> QED BY <2>1, <2>2
<1> HIDE DEF free, r
<1> DEFINE b    == [s.board EXCEPT ![i] = s.turn]
           line == WinThrough(b, i, FourLength, FourCols, FourRows)
<1>6. ConnectFourApply(s, p, c) = Placed(s, i, line)
  BY <1>2 DEF ConnectFourApply, FourLine, r, free
<1> HIDE DEF i
<1>7. /\ line # <<>> <=> Aligned(b, s.turn, FourLength, FourCols, FourRows)
      /\ \A x \in Range(line) : b[x] = s.turn
  <2>1. IsPlaced(b, s, i)
    BY DEF IsPlaced
  <2> HIDE DEF b
  <2> QED BY <1>1, <1>2, <1>5, <2>1, WinThroughShows
<1>8. LinesInv(Placed(s, i, line), FourLength, FourCols, FourRows)
  <2> HIDE DEF line
  <2> QED BY <1>1, <1>2, <1>4, <1>5, <1>7, PlacedKeeps
<1> QED BY <1>6, <1>8

\* The eight lines of tic-tac-toe are the lines of three on its board.
LEMMA EightLines ==
  ASSUME NEW b, DOMAIN b = Cells(9), NEW p
  PROVE  Aligned(b, p, 3, 3, 3) <=>
           \E n \in DOMAIN TicTacToeLines : \A k \in 1..3 : b[TicTacToeLines[n][k]] = p
<1> DEFINE Lies(x, n) == \A k \in 0..2 : /\ OnGrid(x, Directions[n], k, 3, 3)
                                        /\ b[Step(x, Directions[n], k, 3)] = p
           Full(n)    == \A k \in 1..3 : b[TicTacToeLines[n][k]] = p
           On(i, j, k) == b[i] = p /\ b[j] = p /\ b[k] = p
<1>1. Aligned(b, p, 3, 3, 3) <=> \E x \in 0..8, n \in 1..4 : Lies(x, n)
  <2>1. 3 - 1 = 2 /\ Cells(9) = 0..8
    BY DEF Cells
  <2>2. Aligned(b, p, 3, 3, 3) <=>
          \E x \in DOMAIN b, n \in DOMAIN Directions :
            \A k \in 0..(3 - 1) : /\ OnGrid(x, Directions[n], k, 3, 3)
                                  /\ b[Step(x, Directions[n], k, 3)] = p
    BY DEF Aligned
  <2> QED BY <2>1, <2>2, FourWays
<1>2. \A k \in 0..2 : k = 0 \/ k = 1 \/ k = 2
  OBVIOUS
<1>3. Cells(3) = {0, 1, 2}
  BY DEF Cells
<1>4. ASSUME NEW x \in 0..8
      PROVE  Lies(x, 1) <=> (x = 0 \/ x = 3 \/ x = 6) /\ On(x, x + 1, x + 2)
  <2>1. \A k \in 0..2 : /\ OnGrid(x, Directions[1], k, 3, 3) <=> (x \div 3 \in {0, 1, 2} /\ (x % 3) + k \in {0, 1, 2})
                        /\ Step(x, Directions[1], k, 3) = x + k
    BY <1>3 DEF OnGrid, Step, Row, Col, Directions
  <2>2. (\A k \in 0..2 : OnGrid(x, Directions[1], k, 3, 3)) <=> (x = 0 \/ x = 3 \/ x = 6)
    BY <1>2, <2>1
  <2>3. (\A k \in 0..2 : b[Step(x, Directions[1], k, 3)] = p) <=> On(x, x + 1, x + 2)
    BY <1>2, <2>1
  <2> QED BY <2>2, <2>3
<1>5. ASSUME NEW x \in 0..8
      PROVE  Lies(x, 2) <=> (x = 0 \/ x = 1 \/ x = 2) /\ On(x, x + 3, x + 6)
  <2>1. \A k \in 0..2 : /\ OnGrid(x, Directions[2], k, 3, 3) <=> ((x \div 3) + k \in {0, 1, 2} /\ (x % 3) \in {0, 1, 2})
                        /\ Step(x, Directions[2], k, 3) = x + 3 * k
    BY <1>3 DEF OnGrid, Step, Row, Col, Directions
  <2>2. (\A k \in 0..2 : OnGrid(x, Directions[2], k, 3, 3)) <=> (x = 0 \/ x = 1 \/ x = 2)
    BY <1>2, <2>1
  <2>3. (\A k \in 0..2 : b[Step(x, Directions[2], k, 3)] = p) <=> On(x, x + 3, x + 6)
    BY <1>2, <2>1
  <2> QED BY <2>2, <2>3
<1>6. ASSUME NEW x \in 0..8
      PROVE  Lies(x, 3) <=> x = 0 /\ On(0, 4, 8)
  <2>1. \A k \in 0..2 : /\ OnGrid(x, Directions[3], k, 3, 3) <=> ((x \div 3) + k \in {0, 1, 2} /\ (x % 3) + k \in {0, 1, 2})
                        /\ Step(x, Directions[3], k, 3) = x + 4 * k
    BY <1>3 DEF OnGrid, Step, Row, Col, Directions
  <2>2. (\A k \in 0..2 : OnGrid(x, Directions[3], k, 3, 3)) <=> x = 0
    BY <1>2, <2>1
  <2>3. (\A k \in 0..2 : b[Step(x, Directions[3], k, 3)] = p) <=> On(x, x + 4, x + 8)
    BY <1>2, <2>1
  <2> QED BY <2>2, <2>3
<1>7. ASSUME NEW x \in 0..8
      PROVE  Lies(x, 4) <=> x = 2 /\ On(2, 4, 6)
  <2>1. \A k \in 0..2 : /\ OnGrid(x, Directions[4], k, 3, 3) <=> ((x \div 3) + k \in {0, 1, 2} /\ (x % 3) - k \in {0, 1, 2})
                        /\ Step(x, Directions[4], k, 3) = x + 2 * k
    BY <1>3 DEF OnGrid, Step, Row, Col, Directions
  <2>2. (\A k \in 0..2 : OnGrid(x, Directions[4], k, 3, 3)) <=> x = 2
    BY <1>2, <2>1
  <2>3. (\A k \in 0..2 : b[Step(x, Directions[4], k, 3)] = p) <=> On(x, x + 2, x + 4)
    BY <1>2, <2>1
  <2> QED BY <2>2, <2>3
<1>8. /\ DOMAIN TicTacToeLines = 1..8
      /\ Full(1) <=> On(0, 1, 2)
      /\ Full(2) <=> On(3, 4, 5)
      /\ Full(3) <=> On(6, 7, 8)
      /\ Full(4) <=> On(0, 3, 6)
      /\ Full(5) <=> On(1, 4, 7)
      /\ Full(6) <=> On(2, 5, 8)
      /\ Full(7) <=> On(0, 4, 8)
      /\ Full(8) <=> On(2, 4, 6)
  <2>1. \A k \in 1..3 : k = 1 \/ k = 2 \/ k = 3
    OBVIOUS
  <2> QED BY <2>1 DEF TicTacToeLines
<1> HIDE DEF Lies, Full
<1> DEFINE Some == \/ On(0, 1, 2) \/ On(3, 4, 5) \/ On(6, 7, 8) \/ On(0, 3, 6)
                   \/ On(1, 4, 7) \/ On(2, 5, 8) \/ On(0, 4, 8) \/ On(2, 4, 6)
<1>9. (\E x \in 0..8, n \in 1..4 : Lies(x, n)) <=> Some
  <2>1. ASSUME NEW x \in 0..8, NEW n \in 1..4, Lies(x, n) PROVE Some
    <3>1. n = 1 \/ n = 2 \/ n = 3 \/ n = 4
      OBVIOUS
    <3> QED BY <1>4, <1>5, <1>6, <1>7, <2>1, <3>1
  <2>2. /\ On(0, 1, 2) => Lies(0, 1)
        /\ On(3, 4, 5) => Lies(3, 1)
        /\ On(6, 7, 8) => Lies(6, 1)
        /\ On(0, 3, 6) => Lies(0, 2)
        /\ On(1, 4, 7) => Lies(1, 2)
        /\ On(2, 5, 8) => Lies(2, 2)
        /\ On(0, 4, 8) => Lies(0, 3)
        /\ On(2, 4, 6) => Lies(2, 4)
    BY <1>4, <1>5, <1>6, <1>7
  <2> HIDE DEF On
  <2> QED BY <2>1, <2>2
<1>10. (\E n \in 1..8 : Full(n)) <=> Some
  <2>1. \A n \in 1..8 : n = 1 \/ n = 2 \/ n = 3 \/ n = 4 \/ n = 5 \/ n = 6 \/ n = 7 \/ n = 8
    OBVIOUS
  <2> HIDE DEF On
  <2> QED BY <1>8, <2>1
<1> HIDE DEF Some
<1>11. Aligned(b, p, 3, 3, 3) <=> \E n \in DOMAIN TicTacToeLines : Full(n)
  BY <1>1, <1>8, <1>9, <1>10
<1> QED BY <1>11 DEF Full

\* A mark in tic-tac-toe keeps it right.
LEMMA MarkKeepsLines ==
  ASSUME NEW s, LinesInv(s, 3, 3, 3), NEW p, NEW i \in TicTacToeChoices(s, p)
  PROVE  LinesInv(TicTacToeApply(s, p, i), 3, 3, 3)
<1> DEFINE b    == [s.board EXCEPT ![i] = s.turn]
           full == {n \in DOMAIN TicTacToeLines : \E q \in Seats :
                      \A k \in 1..3 : b[TicTacToeLines[n][k]] = q}
           line == FindWin(b)
<1>1. 3 \in Nat \ {0} /\ 3 * 3 = 9
  OBVIOUS
<1>2. /\ p = s.turn /\ s.winner = Nobody /\ s.turn \in Seats
      /\ i \in Cells(3 * 3) /\ s.board[i] = Nobody /\ DOMAIN s.board = Cells(3 * 3)
      /\ \A q \in Seats : ~Aligned(s.board, q, 3, 3, 3)
  <2>1. p = s.turn /\ s.winner = Nobody /\ i \in Owned(s.board, Nobody)
    BY DEF TicTacToeChoices, LinesOver
  <2>2. /\ DOMAIN s.board = Cells(3 * 3) /\ s.turn \in Seats
        /\ \A q \in Seats : s.winner = q <=> Aligned(s.board, q, 3, 3, 3)
    BY DEF LinesInv, LinesAreRight
  <2> QED BY <2>1, <2>2, TwoSeats DEF Owned
<1>3. DOMAIN b = Cells(9)
  BY <1>1, <1>2
<1>4. ASSUME NEW q \in Seats, q # s.turn PROVE ~Aligned(b, q, 3, 3, 3)
  <2> DEFINE old == s.board
             v   == s.turn
  <2>1. DOMAIN old = Cells(3 * 3) /\ ~Aligned(old, q, 3, 3, 3) /\ i \in Cells(3 * 3) /\ v # q
    BY <1>2, <1>4
  <2>2. b = [old EXCEPT ![i] = v]
    OBVIOUS
  <2> DEFINE three == 3
  <2>3. /\ three \in Nat \ {0} /\ DOMAIN old = Cells(three * three) /\ i \in Cells(three * three)
        /\ ~Aligned(old, q, three, three, three)
    BY <2>1
  <2> HIDE DEF old, v, b, three
  <2>4. Aligned([old EXCEPT ![i] = v], q, three, three, three) => v = q
    BY ONLY <2>3, NewLineIsThrough
  <2>5. Aligned([old EXCEPT ![i] = v], q, 3, 3, 3) => v = q
    BY <2>4 DEF three
  <2> QED BY <2>1, <2>2, <2>5
<1>5. full # {} <=> Aligned(b, s.turn, 3, 3, 3)
  <2> HIDE DEF b
  <2>1. \A q \in Seats : Aligned(b, q, 3, 3, 3) <=>
          \E n \in DOMAIN TicTacToeLines : \A k \in 1..3 : b[TicTacToeLines[n][k]] = q
    BY <1>3, EightLines
  <2> QED BY <1>2, <1>4, <2>1
<1>6. line = IF full = {} THEN <<>> ELSE TicTacToeLines[Min(full)]
  BY DEF FindWin
<1>7. ASSUME full # {}
      PROVE  line # <<>> /\ \A x \in Range(line) : b[x] = s.turn
  <2> DEFINE n == Min(full)
  <2>1. n \in full
    <3>1. full \subseteq Nat
      BY DEF TicTacToeLines
    <3> HIDE DEF full
    <3> QED BY <1>7, <3>1, MinIsLeast
  <2> HIDE DEF n, b
  <2>2. PICK q \in Seats : \A k \in 1..3 : b[TicTacToeLines[n][k]] = q
    BY <2>1
  <2>3. n \in DOMAIN TicTacToeLines
    BY <2>1
  <2>4. q = s.turn
    <3>1. Aligned(b, q, 3, 3, 3)
      BY <1>3, <2>2, <2>3, EightLines
    <3> QED BY <1>4, <3>1
  <2>5. line = TicTacToeLines[n]
    BY <1>6, <1>7 DEF n
  <2>6. DOMAIN TicTacToeLines[n] = 1..3
    <3>1. n = 1 \/ n = 2 \/ n = 3 \/ n = 4 \/ n = 5 \/ n = 6 \/ n = 7 \/ n = 8
      BY <2>3 DEF TicTacToeLines
    <3> QED BY <3>1 DEF TicTacToeLines
  <2> HIDE DEF line, full
  <2>7. line # <<>>
    <3>1. 1 \in DOMAIN line
      BY <2>5, <2>6
    <3> QED BY <3>1
  <2> QED BY <2>2, <2>4, <2>5, <2>6, <2>7 DEF Range
<1>8. /\ line # <<>> <=> Aligned(b, s.turn, 3, 3, 3)
      /\ \A x \in Range(line) : b[x] = s.turn
  <2>1. Range(<<>>) = {}
    BY DEF Range
  <2> HIDE DEF line, full, b
  <2> QED BY <1>5, <1>6, <1>7, <2>1
<1>9. TicTacToeApply(s, p, i) = Placed(s, i, line)
  BY <1>2 DEF TicTacToeApply
<1>10. LinesInv(Placed(s, i, line), 3, 3, 3)
  <2> HIDE DEF line
  <2> QED BY <1>1, <1>2, <1>8, PlacedKeeps
<1> QED BY <1>9, <1>10

-----------------------------------------------------------------------------
(* Spelling. *)

\* What holds of 0 and passes on from number to number holds of all up to n.
LEMMA Upwards ==
  ASSUME NEW n \in Nat, NEW Good, 0 \in Good, \A i \in 1..n : i - 1 \in Good => i \in Good
  PROVE  \A i \in 0..n : i \in Good
<1> DEFINE Bad == {i \in 0..n : i \notin Good}
<1>1. ASSUME Bad # {} PROVE FALSE
  <2>1. PICK i \in Bad : \A j \in Bad : i <= j
    <3>1. Bad \subseteq Nat
      OBVIOUS
    <3> HIDE DEF Bad
    <3> QED BY <1>1, <3>1, LeastElement
  <2>2. i \in 1..n /\ i - 1 \in 0..n /\ ~(i <= i - 1)
    BY <2>1
  <2>3. i - 1 \in Good
    BY <2>1, <2>2
  <2> QED BY <2>1, <2>2, <2>3
<1> QED BY <1>1

\* Max() of a set of numbers that has a bound.
LEMMA MaxIsGreatest ==
  ASSUME NEW n \in Nat, NEW T, T \subseteq 0..n, T # {}
  PROVE  Max(T) \in T /\ \A y \in T : y <= Max(T)
  BY GreatestElement DEF Max

\* The last of the first i, and the others.
LEMMA FirstOnes ==
  ASSUME NEW i \in Nat, i >= 1
  PROVE  Max(1..i) = i /\ (1..i) \ {i} = 1..(i - 1) /\ 1..i # {}
<1>1. Max(1..i) \in 1..i /\ \A y \in 1..i : y <= Max(1..i)
  <2>1. 1..i \subseteq 0..i /\ 1..i # {}
    OBVIOUS
  <2> QED BY <2>1, MaxIsGreatest
<1>2. i \in 1..i
  OBVIOUS
<1> HIDE DEF Max
<1>3. Max(1..i) = i
  BY <1>1, <1>2
<1> QED BY <1>2, <1>3

\* A fold from the left, T its step, given for every part of what it goes over.
Folding(g, n, base, T) ==
  \A s \in SUBSET (1..n) : g[s] = IF s = {} THEN base ELSE T[<<Max(s), g[s \ {Max(s)}]>>]

\* There is one.
LEMMA FoldsExist ==
  ASSUME NEW n \in Nat, NEW A, NEW base \in A, NEW T \in [(1..n) \X A -> A]
  PROVE  \E g \in [SUBSET (1..n) -> A] : Folding(g, n, base, T)
<1> DEFINE All == SUBSET (1..n)
           Next1(g, s) == IF s = {} THEN base ELSE T[<<Max(s), g[s \ {Max(s)}]>>]
           Good == {k \in 0..n : \E g \in [All -> A] : \A s \in SUBSET (1..k) : g[s] = Next1(g, s)}
<1>1. 0 \in Good
  <2> DEFINE g == [s \in All |-> base]
  <2>1. g \in [All -> A] /\ \A s \in SUBSET (1..0) : g[s] = Next1(g, s)
    OBVIOUS
  <2>2. \E f \in [All -> A] : \A s \in SUBSET (1..0) : f[s] = Next1(f, s)
    <3> HIDE DEF g, Next1
    <3> QED BY <2>1
  <2>3. 0 \in 0..n
    OBVIOUS
  <2> HIDE DEF Next1
  <2> QED BY <2>2, <2>3
<1>2. ASSUME NEW k \in 1..n, k - 1 \in Good
      PROVE  k \in Good
  <2>1. PICK g \in [All -> A] : \A s \in SUBSET (1..(k - 1)) : g[s] = Next1(g, s)
    BY <1>2
  <2> DEFINE h == [s \in All |-> IF s \in SUBSET (1..k) THEN Next1(g, s) ELSE base]
  <2>2. ASSUME NEW s \in SUBSET (1..k), s # {}
        PROVE  Max(s) \in 1..n /\ s \ {Max(s)} \in SUBSET (1..(k - 1)) /\ s \in All
    <3>1. s \subseteq 0..k /\ k \in Nat
      OBVIOUS
    <3>2. Max(s) \in s /\ \A y \in s : y <= Max(s)
      BY <2>2, <3>1, MaxIsGreatest
    <3> HIDE DEF Max
    <3>3. \A y \in s \ {Max(s)} : y \in 1..(k - 1)
      <4> TAKE y \in s \ {Max(s)}
      <4>1. y \in 1..k /\ Max(s) \in 1..k /\ y <= Max(s) /\ y # Max(s)
        BY <3>2
      <4> QED BY <4>1
    <3>4. Max(s) \in 1..n /\ s \in All
      <4>1. k <= n /\ \A x \in 1..k : x \in 1..n
        OBVIOUS
      <4> QED BY <3>2, <4>1
    <3> QED BY <3>3, <3>4
  <2>3. \A s \in SUBSET (1..k) : s \in All
    OBVIOUS
  <2>4. h \in [All -> A]
    <3>1. ASSUME NEW s \in All PROVE h[s] \in A
      <4>1. CASE s \in SUBSET (1..k) /\ s # {}
        <5>1. s \ {Max(s)} \in All /\ Max(s) \in 1..n
          BY <2>2, <4>1
        <5>2. T[<<Max(s), g[s \ {Max(s)}]>>] \in A
          BY <5>1
        <5> HIDE DEF Max
        <5> QED BY <4>1, <5>2
      <4>2. CASE ~(s \in SUBSET (1..k) /\ s # {})
        BY <4>2
      <4> QED BY <4>1, <4>2
    <3> HIDE DEF Next1
    <3>2. h = [s \in All |-> h[s]] 
      OBVIOUS
    <3> HIDE DEF h
    <3> QED BY <3>1, <3>2
  <2>5. \A s \in SUBSET (1..(k - 1)) : h[s] = g[s]
    <3> TAKE s \in SUBSET (1..(k - 1))
    <3>1. s \in SUBSET (1..k) /\ s \in All
      OBVIOUS
    <3>2. g[s] = Next1(g, s)
      BY <2>1
    <3> HIDE DEF Next1
    <3> QED BY <3>1, <3>2
  <2>6. ASSUME NEW s \in SUBSET (1..k) PROVE h[s] = Next1(h, s)
    <3>1. h[s] = Next1(g, s)
      <4> HIDE DEF Next1
      <4> QED BY <2>3
    <3>2. Next1(g, s) = Next1(h, s)
      <4> HIDE DEF h
      <4>1. CASE s = {}
        BY <4>1
      <4>2. CASE s # {}
        <5>1. h[s \ {Max(s)}] = g[s \ {Max(s)}]
          BY <2>2, <2>5, <4>2
        <5> HIDE DEF Max
        <5> QED BY <4>2, <5>1
      <4> QED BY <4>1, <4>2
    <3> QED BY <3>1, <3>2
  <2>7. k \in 0..n
    OBVIOUS
  <2> HIDE DEF h, Next1, All
  <2>8. \E f \in [All -> A] : \A s \in SUBSET (1..k) : f[s] = Next1(f, s)
    BY <2>4, <2>6
  <2> QED BY <2>7, <2>8
<1>3. n \in Good
  <2>1. n \in 0..n
    OBVIOUS
  <2> HIDE DEF Good
  <2> QED BY <1>1, <1>2, <2>1, Upwards
<1>4. PICK g \in [All -> A] : \A s \in SUBSET (1..n) : g[s] = Next1(g, s)
  BY <1>3
<1> QED BY <1>4 DEF Folding

\* The letters of what was typed, spaces between words.
Letters == Glyphs \cup {Break, " "}

\* What normaliseGuess() has so far.
Spelt == [out : Seq(Letters), pending : BOOLEAN]

\* One more glyph, as Spell() reads it.
Spelling(acc, g) ==
  IF Folded[g] = Break THEN [acc EXCEPT !.pending = TRUE]
  ELSE [out |-> acc.out \o (IF acc.pending /\ acc.out # <<>> THEN <<" ">> ELSE <<>>) \o <<Folded[g]>>,
        pending |-> FALSE]

\* A glyph more is still spelt.
LEMMA SpellingOn ==
  ASSUME NEW acc \in Spelt, NEW g \in Glyphs
  PROVE  Spelling(acc, g) \in Spelt
<1>1. Folded[g] \in Letters /\ " " \in Letters
  BY WordAssumption DEF Letters
<1>2. acc.out \in Seq(Letters) /\ acc.pending \in BOOLEAN /\ DOMAIN acc = {"out", "pending"}
  BY DEF Spelt
<1>3. CASE Folded[g] = Break
  BY <1>3 DEF Spelling, Spelt
<1>4. CASE Folded[g] # Break
  <2> DEFINE gap == IF acc.pending /\ acc.out # <<>> THEN <<" ">> ELSE <<>>
             out == acc.out \o gap \o <<Folded[g]>>
  <2> DEFINE letter == Folded[g]
  <2>1. gap \in Seq(Letters)
    <3>1. <<>> \in Seq(Letters)
      OBVIOUS
    <3>2. <<" ">> \in Seq(Letters)
      <4> DEFINE space == " "
      <4>1. space \in Letters
        BY <1>1
      <4> HIDE DEF space
      <4>2. <<space>> \in Seq(Letters)
        BY <4>1
      <4> QED BY <4>2 DEF space
    <3> QED BY <3>1, <3>2
  <2>2. <<Folded[g]>> \in Seq(Letters)
    <3>1. letter \in Letters
      BY <1>1
    <3> HIDE DEF letter
    <3>2. <<letter>> \in Seq(Letters)
      BY <3>1
    <3> QED BY <3>2 DEF letter
  <2>3. acc.out \o gap \in Seq(Letters)
    <3> HIDE DEF gap
    <3> QED BY <1>2, <2>1
  <2>4. out \in Seq(Letters)
    <3> HIDE DEF gap
    <3> QED BY <2>2, <2>3
  <2>5. Spelling(acc, g) = [out |-> out, pending |-> FALSE]
    BY <1>4 DEF Spelling
  <2> HIDE DEF out
  <2> QED BY <2>4, <2>5 DEF Spelt
<1> QED BY <1>3, <1>4

\* What folding the spelling asks of a function on the parts of a text.
Spells(raw, g) ==
  [s \in SUBSET DOMAIN raw |->
     IF s = {} THEN [out |-> <<>>, pending |-> FALSE]
     ELSE IF Folded[raw[Max(s)]] = Break THEN [g[s \ {Max(s)}] EXCEPT !.pending = TRUE]
     ELSE [out |-> g[s \ {Max(s)}].out
                     \o (IF g[s \ {Max(s)}].pending /\ g[s \ {Max(s)}].out # <<>> THEN <<" ">> ELSE <<>>)
                     \o <<Folded[raw[Max(s)]]>>,
           pending |-> FALSE]]

\* A text that is normalised is a sequence of letters.
LEMMA NormalisedIsSpelt ==
  ASSUME NEW raw \in Seq(Glyphs)
  PROVE  NormaliseGuess(raw) \in Seq(Letters)
<1> DEFINE n    == Len(raw)
           base == [out |-> <<>>, pending |-> FALSE]
           iter == CHOOSE g : g = Spells(raw, g)
           T    == [x \in (1..n) \X Spelt |-> Spelling(x[2], raw[x[1]])]
<1>1. NormaliseGuess(raw) = iter[DOMAIN raw].out
  BY DEF NormaliseGuess, FoldLeft, MapThenFoldSet, Spells
<1>2. n \in Nat /\ DOMAIN raw = 1..n /\ \A k \in 1..n : raw[k] \in Glyphs
  OBVIOUS
<1>3. base \in Spelt
  <2>1. <<>> \in Seq(Letters)
    OBVIOUS
  <2> QED BY <2>1 DEF Spelt
<1> HIDE DEF n, base
<1>4. T \in [(1..n) \X Spelt -> Spelt]
  BY <1>2, SpellingOn
<1>5. \A g : Spells(raw, g) = [s \in SUBSET (1..n) |->
                IF s = {} THEN base ELSE Spelling(g[s \ {Max(s)}], raw[Max(s)])]
  BY <1>2 DEF Spells, Spelling, base
<1>6. \E g : g = Spells(raw, g)
  <2>1. PICK g \in [SUBSET (1..n) -> Spelt] : Folding(g, n, base, T)
    <3> HIDE DEF T
    <3> QED BY <1>2, <1>3, <1>4, FoldsExist
  <2>2. ASSUME NEW s \in SUBSET (1..n)
        PROVE  g[s] = IF s = {} THEN base ELSE Spelling(g[s \ {Max(s)}], raw[Max(s)])
    <3>1. CASE s = {}
      BY <2>1, <3>1 DEF Folding
    <3>2. CASE s # {}
      <4>1. Max(s) \in 1..n
        <5>1. s \subseteq 0..n
          OBVIOUS
        <5>2. Max(s) \in s
          BY <1>2, <3>2, <5>1, MaxIsGreatest
        <5> QED BY <5>2
      <4>2. g[s] = T[<<Max(s), g[s \ {Max(s)}]>>]
        BY <2>1, <3>2 DEF Folding
      <4>3. g[s \ {Max(s)}] \in Spelt
        OBVIOUS
      <4> HIDE DEF Max
      <4>4. T[<<Max(s), g[s \ {Max(s)}]>>] = Spelling(g[s \ {Max(s)}], raw[Max(s)])
        BY <4>1, <4>3
      <4> QED BY <3>2, <4>2, <4>4
    <3> QED BY <3>1, <3>2
  <2>3. g = [s \in SUBSET (1..n) |-> g[s]]
    OBVIOUS
  <2>4. g = Spells(raw, g)
    BY <1>5, <2>2, <2>3
  <2> QED BY <2>4
<1>7. iter = Spells(raw, iter)
  BY <1>6
<1> HIDE DEF iter
<1>8. \A s \in SUBSET (1..n) : iter[s] = IF s = {} THEN base ELSE Spelling(iter[s \ {Max(s)}], raw[Max(s)])
  BY <1>5, <1>7
<1> DEFINE Good == {k \in 0..n : iter[1..k] \in Spelt}
<1>9. 0 \in Good
  <2>1. 1..0 = {} /\ {} \in SUBSET (1..n) /\ 0 \in 0..n
    BY <1>2
  <2> QED BY <1>3, <1>8, <2>1
<1>10. ASSUME NEW k \in 1..n, k - 1 \in Good PROVE k \in Good
  <2>1. k \in Nat /\ k >= 1 /\ k \in 0..n /\ 1..k \in SUBSET (1..n)
    BY <1>2
  <2>2. Max(1..k) = k /\ (1..k) \ {k} = 1..(k - 1) /\ 1..k # {}
    BY <2>1, FirstOnes
  <2>3. iter[1..k] = Spelling(iter[1..(k - 1)], raw[k])
    BY <1>8, <2>1, <2>2
  <2>4. iter[1..(k - 1)] \in Spelt
    BY <1>10
  <2>5. iter[1..k] \in Spelt
    BY <1>2, <2>3, <2>4, SpellingOn
  <2> QED BY <2>1, <2>5
<1>11. iter[1..n] \in Spelt
  <2>1. n \in Good
    <3>1. n \in 0..n
      BY <1>2
    <3> HIDE DEF Good
    <3> QED BY <1>2, <1>9, <1>10, <3>1, Upwards
  <2> QED BY <2>1
<1> QED BY <1>1, <1>2, <1>11 DEF Spelt

\* The least of three numbers.
LEMMA LeastOfThree ==
  ASSUME NEW x \in Nat, NEW y \in Nat, NEW z \in Nat
  PROVE  LET m == Min({x, y, z})
         IN  m \in Nat /\ (m = x \/ m = y \/ m = z) /\ m <= x /\ m <= y /\ m <= z
<1> DEFINE T == {x, y, z}
<1>1. T \subseteq Nat /\ T # {}
  OBVIOUS
<1>2. Min(T) \in T /\ \A e \in T : Min(T) <= e
  <2> HIDE DEF T
  <2> QED BY <1>1, MinIsLeast
<1>3. x \in T /\ y \in T /\ z \in T
  OBVIOUS
<1> HIDE DEF Min
<1> QED BY <1>2, <1>3

\* What the equations of a row ask of a function on its columns.
RowOf(a, b, i, previous, row) ==
  [j \in 0..Len(b) |->
     IF j = 0 THEN i
     ELSE Min({previous[j - 1] + (IF a[i] = b[j] THEN 0 ELSE 1), previous[j] + 1, row[j - 1] + 1})]

\* A row has numbers, each the least of what the three neighbours allow.
IsRow(a, b, i, previous, row) ==
  /\ row \in [0..Len(b) -> Nat] /\ row[0] = i
  /\ \A j \in 1..Len(b) :
       LET across == previous[j - 1] + (IF a[i] = b[j] THEN 0 ELSE 1)
       IN  /\ row[j] <= across /\ row[j] <= previous[j] + 1 /\ row[j] <= row[j - 1] + 1
           /\ row[j] = across \/ row[j] = previous[j] + 1 \/ row[j] = row[j - 1] + 1

\* There is a row.
LEMMA RowsExist ==
  ASSUME NEW a, NEW b, Len(b) \in Nat, NEW i \in Nat, NEW previous \in [0..Len(b) -> Nat]
  PROVE  \E row : row = RowOf(a, b, i, previous, row)
<1> DEFINE n == Len(b)
           At(r, j) == IF j = 0 THEN i
                       ELSE Min({previous[j - 1] + (IF a[i] = b[j] THEN 0 ELSE 1), previous[j] + 1,
                                 r[j - 1] + 1})
           Good == {k \in 0..n : \E r : r = [j \in 0..n |-> r[j]] /\ \A j \in 0..k : r[j] = At(r, j)}
<1> HIDE DEF n
<1>1. n \in Nat
  BY DEF n
<1>2. 0 \in Good
  <2> DEFINE r == [j \in 0..n |-> i]
  <2>1. r = [j \in 0..n |-> r[j]] /\ r[0] = i
    BY <1>1
  <2>2. \A j \in 0..0 : j = 0
    OBVIOUS
  <2>3. 0 \in 0..n
    BY <1>1
  <2> HIDE DEF r
  <2>4. \A j \in 0..0 : r[j] = At(r, j)
    BY <2>1, <2>2
  <2> HIDE DEF At
  <2> QED BY <2>1, <2>3, <2>4
<1>3. ASSUME NEW k \in 1..n, k - 1 \in Good PROVE k \in Good
  <2>1. PICK r : r = [j \in 0..n |-> r[j]] /\ \A j \in 0..(k - 1) : r[j] = At(r, j)
    BY <1>3
  <2> DEFINE q == [j \in 0..n |-> IF j = k THEN At(r, j) ELSE r[j]]
  <2>2. k \in 0..n /\ \A j \in 0..k : j \in 0..n /\ (j # k => j \in 0..(k - 1))
    BY <1>1
  <2>3. \A j \in 0..k : j - 1 # k
    OBVIOUS
  <2>4. ASSUME NEW j \in 0..k PROVE q[j] = At(q, j)
    <3>1. q[j] = At(r, j)
      <4> HIDE DEF At
      <4>1. q[j] = IF j = k THEN At(r, j) ELSE r[j]
        BY <2>2
      <4> QED BY <2>1, <2>2, <4>1
    <3>2. CASE j = 0
      BY <3>1, <3>2
    <3>3. CASE j # 0
      <4>1. j - 1 \in 0..n /\ j - 1 # k
        BY <1>1, <3>3
      <4>2. q[j - 1] = r[j - 1]
        <5> HIDE DEF At
        <5> QED BY <4>1
      <4> HIDE DEF q
      <4> QED BY <3>1, <3>3, <4>2
    <3> QED BY <3>2, <3>3
  <2>5. q = [j \in 0..n |-> q[j]]
    <3> HIDE DEF At
    <3> QED OBVIOUS
  <2> HIDE DEF q, At
  <2> QED BY <2>2, <2>4, <2>5
<1>4. PICK r : r = [j \in 0..n |-> r[j]] /\ \A j \in 0..n : r[j] = At(r, j)
  <2>1. n \in Good
    <3>1. n \in 0..n
      BY <1>1
    <3> HIDE DEF Good
    <3> QED BY <1>1, <1>2, <1>3, <3>1, Upwards
  <2> HIDE DEF At
  <2> QED BY <2>1
<1>5. r = [j \in 0..n |-> At(r, j)]
  <2> HIDE DEF At
  <2> QED BY <1>4
<1>6. r = RowOf(a, b, i, previous, r)
  BY <1>5 DEF RowOf, n
<1> QED BY <1>6

\* The row levenshtein() works out is one.
LEMMA EditRowIs ==
  ASSUME NEW a, NEW b, Len(b) \in Nat, NEW i \in Nat, NEW previous \in [0..Len(b) -> Nat]
  PROVE  IsRow(a, b, i, previous, EditRow(a, b, i, previous))
<1> DEFINE n   == Len(b)
           row == EditRow(a, b, i, previous)
           Across(j) == previous[j - 1] + (IF a[i] = b[j] THEN 0 ELSE 1)
<1>1. row = RowOf(a, b, i, previous, row)
  <2>1. row = CHOOSE r : r = RowOf(a, b, i, previous, r)
    BY DEF EditRow, RowOf
  <2> HIDE DEF row
  <2> QED BY <2>1, RowsExist
<1> HIDE DEF row
<1>2. /\ row = [j \in 0..n |-> row[j]] /\ row[0] = i
      /\ \A j \in 1..n : row[j] = Min({Across(j), previous[j] + 1, row[j - 1] + 1})
  <2>1. \A j \in 1..n : j \in 0..n /\ j # 0
    OBVIOUS
  <2>2. 0 \in 0..n
    OBVIOUS
  <2>3. \A j \in 0..n : row[j] = IF j = 0 THEN i
          ELSE Min({previous[j - 1] + (IF a[i] = b[j] THEN 0 ELSE 1), previous[j] + 1, row[j - 1] + 1})
    BY <1>1 DEF RowOf
  <2>4. row = [j \in 0..n |-> row[j]]
    <3>1. DOMAIN RowOf(a, b, i, previous, row) = 0..n
          /\ RowOf(a, b, i, previous, row) = [j \in 0..n |-> RowOf(a, b, i, previous, row)[j]]
      BY DEF RowOf
    <3> QED BY <1>1, <3>1
  <2> HIDE DEF n, Min
  <2> QED BY <2>1, <2>2, <2>3, <2>4
<1>3. ASSUME NEW j \in 1..n
      PROVE  Across(j) \in Nat /\ previous[j] + 1 \in Nat
  <2>1. j - 1 \in 0..n /\ j \in 0..n
    OBVIOUS
  <2>2. previous[j - 1] \in Nat /\ previous[j] \in Nat
    BY <2>1
  <2> QED BY <2>2
<1>4. ASSUME NEW j \in 1..n, row[j - 1] \in Nat
      PROVE  /\ row[j] \in Nat
             /\ row[j] <= Across(j) /\ row[j] <= previous[j] + 1 /\ row[j] <= row[j - 1] + 1
             /\ row[j] = Across(j) \/ row[j] = previous[j] + 1 \/ row[j] = row[j - 1] + 1
  <2> DEFINE x == Across(j)
             y == previous[j] + 1
             z == row[j - 1] + 1
  <2>1. row[j] = Min({x, y, z})
    BY <1>2
  <2>2. x \in Nat /\ y \in Nat /\ z \in Nat
    BY <1>3, <1>4
  <2> HIDE DEF x, y, z
  <2>3. LET m == Min({x, y, z})
        IN  m \in Nat /\ (m = x \/ m = y \/ m = z) /\ m <= x /\ m <= y /\ m <= z
    BY <2>2, LeastOfThree
  <2> QED BY <2>1, <2>3 DEF x, y, z
<1> HIDE DEF Across
<1> DEFINE Good == {j \in 0..n : row[j] \in Nat}
<1>5. \A j \in 0..n : row[j] \in Nat
  <2>1. 0 \in Good
    BY <1>2
  <2>2. \A j \in 1..n : j - 1 \in Good => j \in Good
    BY <1>4
  <2>3. n \in Nat
    OBVIOUS
  <2>4. \A j \in 0..n : j \in Good
    <3> HIDE DEF Good
    <3> QED BY <2>1, <2>2, <2>3, Upwards
  <2> QED BY <2>4
<1>6. \A j \in 1..n : row[j - 1] \in Nat
  <2>1. \A j \in 1..n : j - 1 \in 0..n
    OBVIOUS
  <2> QED BY <1>5, <2>1
<1>7. row \in [0..n -> Nat]
  BY <1>2, <1>5
<1> QED BY <1>2, <1>4, <1>6, <1>7 DEF IsRow, Across, row

\* What folding the rows asks of a function on the parts of a.
Rows(a, b, g) ==
  [s \in SUBSET DOMAIN [i \in DOMAIN a |-> i] |->
     IF s = {} THEN [j \in 0..Len(b) |-> j]
     ELSE EditRow(a, b, [i \in DOMAIN a |-> i][Max(s)], g[s \ {Max(s)}])]

\* The table of levenshtein(): its first row, every row from the one before, and the
\* corner that is the distance.
IsTable(a, b, D) ==
  /\ D \in [0..Len(a) -> [0..Len(b) -> Nat]]
  /\ \A j \in 0..Len(b) : D[0][j] = j
  /\ \A i \in 1..Len(a) : IsRow(a, b, i, D[i - 1], D[i])
  /\ Levenshtein(a, b) = D[Len(a)][Len(b)]

\* There is a table.
LEMMA TableOf ==
  ASSUME NEW S, NEW a \in Seq(S), NEW b \in Seq(S)
  PROVE  \E D : IsTable(a, b, D)
<1> DEFINE n    == Len(a)
           m    == Len(b)
           A    == [0..m -> Nat]
           base == [j \in 0..m |-> j]
           iter == CHOOSE g : g = Rows(a, b, g)
           T    == [x \in (1..n) \X A |-> EditRow(a, b, x[1], x[2])]
<1>1. Levenshtein(a, b) = iter[DOMAIN [i \in DOMAIN a |-> i]][Len(b)]
  BY DEF Levenshtein, FoldLeft, MapThenFoldSet, Rows
<1>2. /\ n \in Nat /\ m \in Nat /\ DOMAIN [i \in DOMAIN a |-> i] = 1..n
      /\ \A k \in 1..n : [i \in DOMAIN a |-> i][k] = k
  OBVIOUS
<1>3. base \in A
  OBVIOUS
<1>4. ASSUME NEW i \in 1..n, NEW r \in A
      PROVE  IsRow(a, b, i, r, EditRow(a, b, i, r)) /\ EditRow(a, b, i, r) \in A
  <2>1. i \in Nat /\ Len(b) \in Nat /\ r \in [0..Len(b) -> Nat]
    OBVIOUS
  <2>2. IsRow(a, b, i, r, EditRow(a, b, i, r))
    BY <2>1, EditRowIs
  <2> QED BY <2>2 DEF IsRow
<1> HIDE DEF n, m, base, A
<1>5. T \in [(1..n) \X A -> A]
  BY <1>4
<1>6. ASSUME NEW s \in SUBSET (1..n), s # {} PROVE Max(s) \in 1..n
  <2>1. s \subseteq 0..n
    OBVIOUS
  <2>2. Max(s) \in s
    BY <1>2, <1>6, <2>1, MaxIsGreatest
  <2> QED BY <2>2
<1>7. ASSUME NEW g
      PROVE  Rows(a, b, g) = [s \in SUBSET (1..n) |->
               IF s = {} THEN base ELSE EditRow(a, b, Max(s), g[s \ {Max(s)}])]
  <2>1. \A s \in SUBSET (1..n) : s # {} => [i \in DOMAIN a |-> i][Max(s)] = Max(s)
    <3> HIDE DEF Max
    <3> QED BY <1>2, <1>6
  <2> HIDE DEF Max
  <2> QED BY <1>2, <2>1 DEF Rows, base, m
<1>8. \E g : g = Rows(a, b, g)
  <2>1. PICK g \in [SUBSET (1..n) -> A] : Folding(g, n, base, T)
    <3> HIDE DEF T
    <3> QED BY <1>2, <1>3, <1>5, FoldsExist
  <2>2. ASSUME NEW s \in SUBSET (1..n)
        PROVE  g[s] = IF s = {} THEN base ELSE EditRow(a, b, Max(s), g[s \ {Max(s)}])
    <3>1. CASE s = {}
      BY <2>1, <3>1 DEF Folding
    <3>2. CASE s # {}
      <4>1. Max(s) \in 1..n
        BY <1>6, <3>2
      <4>2. g[s] = T[<<Max(s), g[s \ {Max(s)}]>>]
        BY <2>1, <3>2 DEF Folding
      <4>3. g[s \ {Max(s)}] \in A
        OBVIOUS
      <4> HIDE DEF Max
      <4>4. T[<<Max(s), g[s \ {Max(s)}]>>] = EditRow(a, b, Max(s), g[s \ {Max(s)}])
        BY <4>1, <4>3
      <4> QED BY <3>2, <4>2, <4>4
    <3> QED BY <3>1, <3>2
  <2>3. g = [s \in SUBSET (1..n) |-> g[s]]
    OBVIOUS
  <2>4. g = Rows(a, b, g)
    <3> DEFINE Body(s) == IF s = {} THEN base ELSE EditRow(a, b, Max(s), g[s \ {Max(s)}])
    <3>1. Rows(a, b, g) = [s \in SUBSET (1..n) |-> Body(s)]
      BY <1>7
    <3>2. \A s \in SUBSET (1..n) : g[s] = Body(s)
      BY <2>2
    <3> HIDE DEF Body
    <3> QED BY <2>3, <3>1, <3>2
  <2> QED BY <2>4
<1>9. iter = Rows(a, b, iter)
  BY <1>8
<1> HIDE DEF iter, T
<1>10. \A s \in SUBSET (1..n) : iter[s] = IF s = {} THEN base ELSE EditRow(a, b, Max(s), iter[s \ {Max(s)}])
  <2>1. iter = [s \in SUBSET (1..n) |->
                  IF s = {} THEN base ELSE EditRow(a, b, Max(s), iter[s \ {Max(s)}])]
    BY <1>7, <1>9
  <2> QED BY <2>1
<1> DEFINE D == [k \in 0..n |-> iter[1..k]]
           Good == {k \in 0..n : iter[1..k] \in A}
<1>11. iter[1..0] = base
  <2>1. 1..0 = {} /\ {} \in SUBSET (1..n)
    BY <1>2
  <2> QED BY <1>10, <2>1
<1>12. ASSUME NEW k \in 1..n PROVE iter[1..k] = EditRow(a, b, k, iter[1..(k - 1)])
  <2>1. k \in Nat /\ k >= 1 /\ 1..k \in SUBSET (1..n)
    BY <1>2
  <2>2. Max(1..k) = k /\ (1..k) \ {k} = 1..(k - 1) /\ 1..k # {}
    BY <2>1, FirstOnes
  <2> QED BY <1>10, <2>1, <2>2
<1>13. \A k \in 0..n : iter[1..k] \in A
  <2>1. 0 \in Good
    <3>1. 0 \in 0..n
      BY <1>2
    <3> QED BY <1>3, <1>11, <3>1
  <2>2. \A k \in 1..n : k - 1 \in Good => k \in Good
    <3>1. \A k \in 1..n : k \in 0..n
      BY <1>2
    <3> QED BY <1>4, <1>12, <3>1
  <2>3. \A k \in 0..n : k \in Good
    <3> HIDE DEF Good
    <3> QED BY <1>2, <2>1, <2>2, Upwards
  <2> QED BY <2>3
<1>14. D \in [0..n -> A]
  BY <1>13
<1>15. \A j \in 0..m : D[0][j] = j
  <2>1. 0 \in 0..n
    BY <1>2
  <2>2. D[0] = base
    BY <1>11, <2>1
  <2> QED BY <2>2 DEF base
<1>16. ASSUME NEW i \in 1..n PROVE IsRow(a, b, i, D[i - 1], D[i])
  <2>1. i \in 0..n /\ i - 1 \in 0..n
    BY <1>2
  <2>2. D[i] = EditRow(a, b, i, D[i - 1]) /\ D[i - 1] \in A
    BY <1>12, <1>13, <2>1
  <2> HIDE DEF D
  <2> QED BY <1>4, <2>2
<1>17. Levenshtein(a, b) = D[n][m]
  <2>1. n \in 0..n
    BY <1>2
  <2> QED BY <1>1, <1>2, <2>1 DEF m
<1> HIDE DEF D
<1> QED BY <1>14, <1>15, <1>16, <1>17 DEF IsTable, n, m, A

\* A cell of the table and its neighbours.
LEMMA CellsAround ==
  ASSUME NEW S, NEW a \in Seq(S), NEW b \in Seq(S), NEW D, IsTable(a, b, D)
  PROVE  /\ Len(a) \in Nat /\ Len(b) \in Nat
         /\ \A i \in 0..Len(a), j \in 0..Len(b) : D[i][j] \in Nat
         /\ \A j \in 0..Len(b) : D[0][j] = j
         /\ \A i \in 0..Len(a) : D[i][0] = i
         /\ \A i \in 1..Len(a), j \in 1..Len(b) :
              /\ D[i][j] <= D[i - 1][j - 1] + (IF a[i] = b[j] THEN 0 ELSE 1)
              /\ D[i][j] <= D[i - 1][j] + 1 /\ D[i][j] <= D[i][j - 1] + 1
              /\ D[i][j] = 0 => D[i - 1][j - 1] = 0 /\ a[i] = b[j]
<1> DEFINE n == Len(a)
           m == Len(b)
<1>1. n \in Nat /\ m \in Nat
  OBVIOUS
<1> HIDE DEF n, m
<1>2. /\ D \in [0..n -> [0..m -> Nat]] /\ \A j \in 0..m : D[0][j] = j
      /\ \A i \in 1..n : IsRow(a, b, i, D[i - 1], D[i])
  BY DEF IsTable, n, m
<1>3. \A i \in 0..n, j \in 0..m : D[i][j] \in Nat
  BY <1>2
<1>4. \A i \in 0..n : D[i][0] = i
  <2> TAKE i \in 0..n
  <2>1. CASE i = 0
    <3>1. 0 \in 0..m
      BY <1>1
    <3> QED BY <1>2, <2>1, <3>1
  <2>2. CASE i # 0
    <3>1. i \in 1..n
      BY <2>2
    <3> QED BY <1>2, <3>1 DEF IsRow
  <2> QED BY <2>1, <2>2
<1>5. ASSUME NEW i \in 1..n, NEW j \in 1..m
      PROVE  /\ D[i][j] <= D[i - 1][j - 1] + (IF a[i] = b[j] THEN 0 ELSE 1)
             /\ D[i][j] <= D[i - 1][j] + 1 /\ D[i][j] <= D[i][j - 1] + 1
             /\ D[i][j] = 0 => D[i - 1][j - 1] = 0 /\ a[i] = b[j]
  <2> DEFINE x == D[i - 1][j - 1]
             y == D[i - 1][j]
             z == D[i][j - 1]
             d == D[i][j]
             across == x + (IF a[i] = b[j] THEN 0 ELSE 1)
  <2>1. /\ d <= across /\ d <= y + 1 /\ d <= z + 1
        /\ d = across \/ d = y + 1 \/ d = z + 1
    BY <1>2 DEF IsRow, m
  <2>2. x \in Nat /\ y \in Nat /\ z \in Nat /\ d \in Nat
    <3>1. i - 1 \in 0..n /\ j - 1 \in 0..m /\ i \in 0..n /\ j \in 0..m
      BY <1>1
    <3> QED BY <1>3, <3>1
  <2> HIDE DEF x, y, z, d
  <2>3. d = 0 => x = 0 /\ a[i] = b[j]
    BY <2>1, <2>2
  <2> QED BY <2>1, <2>3 DEF x, y, z, d
<1> QED BY <1>1, <1>2, <1>3, <1>4, <1>5 DEF n, m

\* Equal letters cost nothing.
LEMMA DownTheDiagonal ==
  ASSUME NEW S, NEW a \in Seq(S), NEW b \in Seq(S), NEW D, IsTable(a, b, D),
         NEW i \in 0..Len(a), NEW j \in 0..Len(b), NEW e \in Nat, i + e <= Len(a), j + e <= Len(b),
         \A o \in 1..e : a[i + o] = b[j + o]
  PROVE  D[i + e][j + e] <= D[i][j]
<1> DEFINE Good == {o \in 0..e : D[i + o][j + o] <= D[i][j]}
<1>1. Len(a) \in Nat /\ Len(b) \in Nat
  OBVIOUS
<1>2. 0 \in Good
  <2>1. D[i][j] \in Nat /\ i + 0 = i /\ j + 0 = j /\ 0 \in 0..e
    BY CellsAround
  <2> QED BY <2>1
<1>3. ASSUME NEW o \in 1..e, o - 1 \in Good PROVE o \in Good
  <2> DEFINE x == i + o
             y == j + o
  <2>1. x \in 1..Len(a) /\ y \in 1..Len(b) /\ x - 1 = i + (o - 1) /\ y - 1 = j + (o - 1) /\ a[x] = b[y]
        /\ x - 1 \in 0..Len(a) /\ y - 1 \in 0..Len(b) /\ x \in 0..Len(a) /\ y \in 0..Len(b)
    BY <1>1
  <2>2. D[x - 1][y - 1] <= D[i][j]
    BY <1>3, <2>1
  <2> HIDE DEF x, y
  <2>3. D[x][y] <= D[x - 1][y - 1] + (IF a[x] = b[y] THEN 0 ELSE 1)
    BY <2>1, CellsAround
  <2>4. D[x][y] \in Nat /\ D[x - 1][y - 1] \in Nat /\ D[i][j] \in Nat
    BY <2>1, CellsAround
  <2>5. D[x][y] <= D[i][j]
    <3> DEFINE u == D[x][y]
               v == D[x - 1][y - 1]
               w == D[i][j]
    <3>1. u <= v /\ v <= w /\ u \in Nat /\ v \in Nat /\ w \in Nat
      <4>1. a[x] = b[y]
        BY <2>1
      <4>2. u <= v + 0
        BY <2>3, <4>1
      <4> QED BY <2>2, <2>4, <4>2
    <3> HIDE DEF u, v, w
    <3>2. u <= w
      BY <3>1
    <3> QED BY <3>2 DEF u, w
  <2> QED BY <2>5 DEF x, y
<1>4. e \in Good
  <2>1. e \in 0..e
    OBVIOUS
  <2> HIDE DEF Good
  <2> QED BY <1>2, <1>3, <2>1, Upwards
<1> QED BY <1>4

\* Only what is equal is no distance apart.
LEMMA NoDistance ==
  ASSUME NEW S, NEW a \in Seq(S), NEW b \in Seq(S), NEW D, IsTable(a, b, D), D[Len(a)][Len(b)] = 0
  PROVE  a = b
<1> DEFINE n == Len(a)
           m == Len(b)
           Good == {i \in 0..n : \A j \in 0..m : D[i][j] = 0 => i = j /\ \A k \in 1..i : a[k] = b[k]}
<1>1. n \in Nat /\ m \in Nat
  OBVIOUS
<1>2. 0 \in Good
  <2>1. \A j \in 0..m : D[0][j] = j
    BY CellsAround
  <2>2. 0 \in 0..n /\ \A k \in 1..0 : a[k] = b[k]
    BY <1>1
  <2> HIDE DEF n, m
  <2> QED BY <2>1, <2>2
<1>3. ASSUME NEW i \in 1..n, i - 1 \in Good PROVE i \in Good
  <2>1. ASSUME NEW j \in 0..m, D[i][j] = 0
        PROVE  i = j /\ \A k \in 1..i : a[k] = b[k]
    <3>1. i \in 0..n /\ i # 0
      BY <1>1
    <3>2. j # 0
      BY <2>1, <3>1, CellsAround
    <3>3. j \in 1..m /\ j - 1 \in 0..m
      BY <3>2
    <3>4. D[i - 1][j - 1] = 0 /\ a[i] = b[j]
      BY <2>1, <3>3, CellsAround
    <3>5. i - 1 = j - 1 /\ \A k \in 1..(i - 1) : a[k] = b[k]
      BY <1>3, <3>3, <3>4
    <3>6. i = j
      BY <3>3, <3>5
    <3>7. \A k \in 1..i : k = i \/ k \in 1..(i - 1)
      OBVIOUS
    <3> QED BY <3>4, <3>5, <3>6, <3>7
  <2>2. i \in 0..n
    BY <1>1
  <2> QED BY <2>1, <2>2
<1>4. n \in Good
  <2>1. n \in 0..n
    BY <1>1
  <2> HIDE DEF Good
  <2> QED BY <1>1, <1>2, <1>3, <2>1, Upwards
<1>5. n = m /\ \A k \in 1..n : a[k] = b[k]
  <2>1. m \in 0..m
    BY <1>1
  <2> QED BY <1>4, <2>1
<1> QED BY <1>5

\* A sequence without one of its entries.
LEMMA Shortened ==
  ASSUME NEW S, NEW s \in Seq(S), NEW q \in DOMAIN s
  PROVE  /\ Len(RemoveAt(s, q)) = Len(s) - 1
         /\ \A k \in 1..(Len(s) - 1) : RemoveAt(s, q)[k] = IF k < q THEN s[k] ELSE s[k + 1]
<1> DEFINE n    == Len(s)
           head == SubSeq(s, 1, q - 1)
           tail == SubSeq(s, q + 1, n)
<1>1. n \in Nat /\ q \in 1..n
  OBVIOUS
<1>2. head \in Seq(S) /\ Len(head) = q - 1 /\ \A k \in 1..(q - 1) : head[k] = s[k]
  BY <1>1
<1>3. tail \in Seq(S) /\ Len(tail) = n - q /\ \A k \in 1..(n - q) : tail[k] = s[q + k]
  BY <1>1
<1>4. RemoveAt(s, q) = head \o tail
  BY DEF RemoveAt
<1> HIDE DEF n, head, tail
<1>5. /\ Len(head \o tail) = n - 1
      /\ \A k \in 1..(n - 1) : (head \o tail)[k] = IF k < q THEN head[k] ELSE tail[k - (q - 1)]
  <2>1. /\ Len(head \o tail) = (q - 1) + (n - q)
        /\ \A k \in 1..((q - 1) + (n - q)) :
             (head \o tail)[k] = IF k <= q - 1 THEN head[k] ELSE tail[k - (q - 1)]
    <3> DEFINE x == q - 1
               y == n - q
    <3>1. head \in Seq(S) /\ Len(head) = x /\ tail \in Seq(S) /\ Len(tail) = y /\ x \in Nat /\ y \in Nat
      BY <1>1, <1>2, <1>3
    <3> HIDE DEF x, y
    <3>2. /\ Len(head \o tail) = x + y
          /\ \A k \in 1..(x + y) : (head \o tail)[k] = IF k <= x THEN head[k] ELSE tail[k - x]
      BY <3>1
    <3> QED BY <3>2 DEF x, y
  <2>2. (q - 1) + (n - q) = n - 1 /\ \A k \in 1..(n - 1) : k <= q - 1 <=> k < q
    BY <1>1
  <2> QED BY <2>1, <2>2
<1>6. ASSUME NEW k \in 1..(n - 1)
      PROVE  (head \o tail)[k] = IF k < q THEN s[k] ELSE s[k + 1]
  <2>1. CASE k < q
    BY <1>1, <1>2, <1>5, <2>1
  <2>2. CASE ~(k < q)
    <3>1. k - (q - 1) \in 1..(n - q) /\ q + (k - (q - 1)) = k + 1
      BY <1>1, <2>2
    <3> QED BY <1>3, <1>5, <2>2, <3>1
  <2> QED BY <2>1, <2>2
<1> QED BY <1>4, <1>5, <1>6 DEF n

\* One edit is a distance of one.
LEMMA OneEditIsClose ==
  ASSUME NEW S, NEW a \in Seq(S), NEW b \in Seq(S), OneEditAway(a, b)
  PROVE  IsCloseGuess(a, b)
<1> DEFINE n == Len(a)
           m == Len(b)
<1>1. n \in Nat /\ m \in Nat /\ DOMAIN a = 1..n /\ DOMAIN b = 1..m
  OBVIOUS
<1>2. PICK D : IsTable(a, b, D)
  BY TableOf
<1> DEFINE Close == a # b /\ n - m \in -1..1 /\ D[n][m] <= 1
<1>3. /\ D[0][0] = 0
      /\ \A i \in 0..n, j \in 0..m : D[i][j] \in Nat
  <2>1. 0 \in 0..m
    BY <1>1
  <2>2. D[0][0] = 0
    BY <1>2, <2>1, CellsAround
  <2> QED BY <1>2, <2>2, CellsAround
<1>4. ASSUME NEW c \in Nat, c <= n, c <= m, \A k \in 1..c : a[k] = b[k]
      PROVE  D[c][c] = 0
  <2>1. 0 \in 0..n /\ 0 \in 0..m /\ 0 + c = c /\ \A o \in 1..c : a[0 + o] = b[0 + o]
    BY <1>1, <1>4
  <2>2. D[0 + c][0 + c] <= D[0][0]
    BY <1>2, <1>4, <2>1, DownTheDiagonal
  <2>3. D[c][c] \in Nat
    BY <1>1, <1>3, <1>4
  <2> QED BY <1>3, <2>1, <2>2, <2>3
<1>5. ASSUME \E q \in DOMAIN b : RemoveAt(b, q) = a PROVE Close
  <2>1. PICK q \in 1..m : RemoveAt(b, q) = a
    BY <1>1, <1>5
  <2>2. n = m - 1 /\ \A k \in 1..n : a[k] = IF k < q THEN b[k] ELSE b[k + 1]
    BY <1>1, <2>1, Shortened
  <2>3. D[q - 1][q - 1] = 0
    <3>1. q - 1 \in Nat /\ q - 1 <= n /\ q - 1 <= m /\ \A k \in 1..(q - 1) : k \in 1..n /\ k < q
      BY <1>1, <2>2
    <3> QED BY <1>4, <2>2, <3>1
  <2>4. D[q - 1][q] <= 1
    <3>1. CASE q = 1
      <4>1. D[0][1] = 1
        BY <1>1, <1>2, <3>1, CellsAround
      <4> QED BY <3>1, <4>1
    <3>2. CASE q # 1
      <4>1. q - 1 \in 1..n /\ q \in 1..m
        BY <1>1, <2>2, <3>2
      <4>2. D[q - 1][q] <= D[q - 1][q - 1] + 1
        BY <1>2, <4>1, CellsAround
      <4> QED BY <2>3, <4>2
    <3> QED BY <3>1, <3>2
  <2>5. D[n][m] <= D[q - 1][q]
    <3> DEFINE e == n - (q - 1)
    <3>1. /\ q - 1 \in 0..n /\ q \in 0..m /\ e \in Nat /\ (q - 1) + e = n /\ q + e = m
          /\ \A o \in 1..e : (q - 1) + o \in 1..n /\ ~((q - 1) + o < q) /\ ((q - 1) + o) + 1 = q + o
      BY <1>1, <2>2
    <3>2. \A o \in 1..e : a[(q - 1) + o] = b[q + o]
      BY <2>2, <3>1
    <3> DEFINE x == q - 1
    <3>3. x \in 0..n /\ q \in 0..m /\ e \in Nat /\ x + e = n /\ q + e = m /\ \A o \in 1..e : a[x + o] = b[q + o]
      BY <3>1, <3>2
    <3> HIDE DEF e, x
    <3>4. D[x + e][q + e] <= D[x][q]
      <4> HIDE DEF n, m
      <4>1. x + e <= Len(a) /\ q + e <= Len(b) /\ x \in 0..Len(a) /\ q \in 0..Len(b)
        BY <1>1, <3>3 DEF n, m
      <4> QED BY <1>2, <3>3, <4>1, DownTheDiagonal
    <3> QED BY <3>3, <3>4 DEF x
  <2>6. D[n][m] \in Nat /\ D[q - 1][q] \in Nat
    <3>1. q - 1 \in 0..n /\ q \in 0..m /\ n \in 0..n /\ m \in 0..m
      BY <1>1, <2>2
    <3> QED BY <1>3, <3>1
  <2>7. n - m \in -1..1 /\ n # m
    <3> DEFINE x == n - m
    <3>1. x \in Int /\ x <= 1 /\ -1 <= x /\ n # m
      <4>1. n \in Nat /\ m \in Nat /\ (n = m - 1 \/ m = n - 1)
        BY <1>1, <2>2
      <4> HIDE DEF n, m
      <4> QED BY <4>1
    <3> HIDE DEF x
    <3>2. x \in -1..1
      BY <3>1
    <3> QED BY <3>1, <3>2 DEF x
  <2> QED BY <2>4, <2>5, <2>6, <2>7
<1>6. ASSUME \E q \in DOMAIN a : RemoveAt(a, q) = b PROVE Close
  <2>1. PICK q \in 1..n : RemoveAt(a, q) = b
    BY <1>1, <1>6
  <2>2. m = n - 1 /\ \A k \in 1..m : b[k] = IF k < q THEN a[k] ELSE a[k + 1]
    BY <1>1, <2>1, Shortened
  <2>3. D[q - 1][q - 1] = 0
    <3>1. q - 1 \in Nat /\ q - 1 <= n /\ q - 1 <= m /\ \A k \in 1..(q - 1) : k \in 1..m /\ k < q
      BY <1>1, <2>2
    <3> QED BY <1>4, <2>2, <3>1
  <2>4. D[q][q - 1] <= 1
    <3>1. CASE q = 1
      <4>1. D[1][0] = 1
        BY <1>1, <1>2, <3>1, CellsAround
      <4> QED BY <3>1, <4>1
    <3>2. CASE q # 1
      <4>1. q - 1 \in 1..m /\ q \in 1..n
        BY <1>1, <2>2, <3>2
      <4>2. \A j \in 1..m : D[q][j] <= D[q - 1][j] + 1
        BY <1>2, <4>1, CellsAround
      <4>3. D[q][q - 1] <= D[q - 1][q - 1] + 1
        BY <4>1, <4>2
      <4> QED BY <2>3, <4>3
    <3> QED BY <3>1, <3>2
  <2>5. D[n][m] <= D[q][q - 1]
    <3> DEFINE e == m - (q - 1)
    <3>1. /\ q - 1 \in 0..m /\ q \in 0..n /\ e \in Nat /\ (q - 1) + e = m /\ q + e = n
          /\ \A o \in 1..e : (q - 1) + o \in 1..m /\ ~((q - 1) + o < q) /\ ((q - 1) + o) + 1 = q + o
      BY <1>1, <2>2
    <3>2. \A o \in 1..e : a[q + o] = b[(q - 1) + o]
      BY <2>2, <3>1
    <3> DEFINE x == q - 1
    <3>3. x \in 0..m /\ q \in 0..n /\ e \in Nat /\ x + e = m /\ q + e = n /\ \A o \in 1..e : a[q + o] = b[x + o]
      BY <3>1, <3>2
    <3> HIDE DEF e, x
    <3>4. D[q + e][x + e] <= D[q][x]
      <4> HIDE DEF n, m
      <4>1. q + e <= Len(a) /\ x + e <= Len(b) /\ q \in 0..Len(a) /\ x \in 0..Len(b)
        BY <1>1, <3>3 DEF n, m
      <4> QED BY <1>2, <3>3, <4>1, DownTheDiagonal
    <3> QED BY <3>3, <3>4 DEF x
  <2>6. D[n][m] \in Nat /\ D[q][q - 1] \in Nat
    <3>1. q - 1 \in 0..m /\ q \in 0..n /\ n \in 0..n /\ m \in 0..m
      BY <1>1, <2>2
    <3> QED BY <1>3, <3>1
  <2>7. n - m \in -1..1 /\ n # m
    <3> DEFINE x == n - m
    <3>1. x \in Int /\ x <= 1 /\ -1 <= x /\ n # m
      <4>1. n \in Nat /\ m \in Nat /\ (n = m - 1 \/ m = n - 1)
        BY <1>1, <2>2
      <4> HIDE DEF n, m
      <4> QED BY <4>1
    <3> HIDE DEF x
    <3>2. x \in -1..1
      BY <3>1
    <3> QED BY <3>1, <3>2 DEF x
  <2> QED BY <2>4, <2>5, <2>6, <2>7
<1>7. ASSUME n = m, Cardinality({i \in DOMAIN a : a[i] # b[i]}) = 1 PROVE Close
  <2> DEFINE Odd == {i \in DOMAIN a : a[i] # b[i]}
  <2>1. PICK q : Odd = {q}
    <3>1. IsFiniteSet(1..n)
      BY <1>1, FS_Interval
    <3>2. Odd \subseteq 1..n /\ Cardinality(Odd) = 1
      BY <1>1, <1>7
    <3> HIDE DEF Odd
    <3>3. IsFiniteSet(Odd)
      BY <3>1, <3>2, FS_Subset
    <3> QED BY <3>2, <3>3, FS_Singleton
  <2>2. q \in 1..n /\ a[q] # b[q] /\ \A k \in 1..n : k # q => a[k] = b[k]
    BY <1>1, <2>1
  <2>3. D[q - 1][q - 1] = 0
    <3>1. q - 1 \in Nat /\ q - 1 <= n /\ q - 1 <= m /\ \A k \in 1..(q - 1) : k \in 1..n /\ k # q
      BY <1>1, <1>7, <2>2
    <3> QED BY <1>4, <2>2, <3>1
  <2>4. D[q][q] <= 1
    <3>1. D[q][q] <= D[q - 1][q - 1] + (IF a[q] = b[q] THEN 0 ELSE 1)
      BY <1>2, <1>7, <2>2, CellsAround
    <3> QED BY <2>2, <2>3, <3>1
  <2>5. D[n][m] <= D[q][q]
    <3> DEFINE e == n - q
    <3>1. /\ q \in 0..n /\ q \in 0..m /\ e \in Nat /\ q + e = n /\ q + e = m
          /\ \A o \in 1..e : q + o \in 1..n /\ q + o # q
      BY <1>1, <1>7, <2>2
    <3>2. \A o \in 1..e : a[q + o] = b[q + o]
      BY <2>2, <3>1
    <3> HIDE DEF e
    <3>3. D[q + e][q + e] <= D[q][q]
      <4> HIDE DEF n, m
      <4>1. q + e <= Len(a) /\ q + e <= Len(b) /\ q \in 0..Len(a) /\ q \in 0..Len(b)
        BY <1>1, <3>1 DEF n, m
      <4> QED BY <1>2, <3>1, <3>2, <4>1, DownTheDiagonal
    <3> QED BY <3>1, <3>3
  <2>6. D[n][m] \in Nat /\ D[q][q] \in Nat
    <3>1. q \in 0..m /\ q \in 0..n /\ n \in 0..n /\ m \in 0..m
      BY <1>1, <1>7, <2>2
    <3> QED BY <1>3, <3>1
  <2>7. n - m \in -1..1 /\ a # b
    <3>1. n - m = 0 /\ 0 \in -1..1
      BY <1>1, <1>7
    <3> QED BY <2>2, <3>1
  <2> QED BY <2>4, <2>5, <2>6, <2>7
<1>8. Close
  <2>1. \/ \E q \in DOMAIN b : RemoveAt(b, q) = a
        \/ \E q \in DOMAIN a : RemoveAt(a, q) = b
        \/ n = m /\ Cardinality({i \in DOMAIN a : a[i] # b[i]}) = 1
    BY DEF OneEditAway
  <2> HIDE DEF Close
  <2> QED BY <1>5, <1>6, <1>7, <2>1
<1>9. D[n][m] = 1
  <2>1. D[n][m] # 0
    BY <1>2, <1>8, NoDistance
  <2>2. D[n][m] \in Nat
    <3>1. n \in 0..n /\ m \in 0..m
      BY <1>1
    <3> QED BY <1>3, <3>1
  <2> QED BY <1>8, <2>1, <2>2
<1>10. Levenshtein(a, b) = D[n][m]
  BY <1>2 DEF IsTable
<1> QED BY <1>8, <1>9, <1>10 DEF IsCloseGuess

\* An entry of the feed.
Heard == [player : ArtSeats, kind : {"correct", "close", "wrong"}, text : Typed \cup {<<>>}]

\* What holds of a drawing that is guessed.
ArtInv(s) ==
  /\ {"game", "round", "words", "strokes", "guesses", "solved", "guessCount", "scores"} \subseteq DOMAIN s
  /\ s.words \in [Cells(DrawRounds) -> Vocabulary] /\ s.round \in Nat
  /\ s.guesses \in Seq(Heard)
  /\ HintsAreRight(s)

\* A drawing starts so.
LEMMA ArtStarts ==
  ASSUME NEW s \in DrawAndGuessNew
  PROVE  ArtInv(s)
<1>1. /\ {"game", "round", "words", "strokes", "guesses", "solved", "guessCount", "scores"} \subseteq DOMAIN s
      /\ s.words \in [Cells(DrawRounds) -> Vocabulary] /\ s.round = 0 /\ s.guesses = <<>>
  BY DEF DrawAndGuessNew
<1>2. HintsAreRight(s)
  <2>1. DOMAIN s.guesses = {}
    BY <1>1
  <2> QED BY <2>1 DEF HintsAreRight
<1>3. s.guesses \in Seq(Heard)
  BY <1>1
<1> QED BY <1>1, <1>2, <1>3 DEF ArtInv

\* So does the next one.
LEMMA NextArt ==
  ASSUME NEW s, ArtInv(s)
  PROVE  ArtInv(NextDrawing(s))
<1> DEFINE t == NextDrawing(s)
<1>1. /\ DOMAIN t = DOMAIN s
      /\ t.words = s.words /\ t.round = s.round + 1 /\ t.guesses = <<>>
  BY DEF NextDrawing, ArtInv
<1> HIDE DEF t
<1>2. HintsAreRight(t)
  <2>1. DOMAIN t.guesses = {}
    BY <1>1
  <2> QED BY <2>1 DEF HintsAreRight
<1>3. t.guesses \in Seq(Heard)
  BY <1>1
<1>4. ArtInv(t)
  BY <1>1, <1>2, <1>3 DEF ArtInv
<1> QED BY <1>4 DEF t

\* What the feed shows was in it before, or has just come.
LEMMA FedShows ==
  ASSUME NEW E, NEW feed \in Seq(E), NEW entry \in E
  PROVE  /\ Fed(feed, entry) \in Seq(E)
         /\ \A i \in DOMAIN Fed(feed, entry) :
              \/ Fed(feed, entry)[i] = entry
              \/ \E k \in DOMAIN feed : Fed(feed, entry)[i] = feed[k]
<1> DEFINE all == Append(feed, entry)
           n   == Len(all)
           x   == n - FeedLimit + 1
           lo  == Max({1, x})
<1>1. FeedLimit \in Nat /\ FeedLimit >= 1
  BY WordAssumption
<1>2. /\ all \in Seq(E) /\ n = Len(feed) + 1 /\ Len(feed) \in Nat
      /\ \A k \in 1..n : all[k] = entry \/ (k \in DOMAIN feed /\ all[k] = feed[k])
  <2>1. /\ all \in Seq(E) /\ n = Len(feed) + 1 /\ Len(feed) \in Nat /\ DOMAIN feed = 1..Len(feed)
        /\ all[n] = entry /\ \A k \in 1..Len(feed) : all[k] = feed[k]
    OBVIOUS
  <2>2. \A k \in 1..n : k = n \/ k \in 1..Len(feed)
    BY <2>1
  <2> HIDE DEF all, n
  <2> QED BY <2>1, <2>2
<1>3. Fed(feed, entry) = SubSeq(all, lo, n)
  BY DEF Fed
<1> HIDE DEF all, n
<1>4. lo \in 1..n
  <2>1. x \in Int /\ x <= n /\ n >= 1
    BY <1>1, <1>2
  <2> HIDE DEF x
  <2>2. CASE x <= 1
    <3>1. lo = 1
      BY <2>1, <2>2 DEF Max
    <3> QED BY <1>2, <3>1
  <2>3. CASE ~(x <= 1)
    <3>1. lo = x
      BY <2>1, <2>3 DEF Max
    <3> QED BY <1>2, <2>1, <2>3, <3>1
  <2> QED BY <2>2, <2>3
<1> HIDE DEF lo, x
<1> DEFINE fed == SubSeq(all, lo, n)
<1>5. fed \in Seq(E) /\ \A i \in DOMAIN fed : lo + i - 1 \in 1..n /\ fed[i] = all[lo + i - 1]
  <2>1. n \in Nat /\ lo \in Nat /\ lo >= 1 /\ lo <= n /\ Len(all) = n /\ DOMAIN all = 1..n
    BY <1>2, <1>4 DEF n
  <2>2. /\ DOMAIN fed = 1..(n - lo + 1)
        /\ \A i \in 1..(n - lo + 1) : fed[i] = all[lo + i - 1]
        /\ fed \in Seq(E)
    BY <1>2, <2>1
  <2>3. \A i \in 1..(n - lo + 1) : lo + i - 1 \in 1..n
    BY <2>1
  <2> HIDE DEF fed
  <2> QED BY <2>2, <2>3
<1> HIDE DEF fed
<1>6. \A i \in DOMAIN fed : fed[i] = entry \/ \E k \in DOMAIN feed : fed[i] = feed[k]
  <2> TAKE i \in DOMAIN fed
  <2> DEFINE k == lo + i - 1
  <2>1. k \in 1..n /\ fed[i] = all[k]
    BY <1>5
  <2> HIDE DEF k
  <2> QED BY <1>2, <2>1
<1> QED BY <1>3, <1>5, <1>6 DEF fed

\* What a guess that is heard leaves, if it gives nothing away.
LEMMA HeardKeeps ==
  ASSUME NEW s, ArtInv(s), NEW t, DOMAIN t = DOMAIN s, t.words = s.words, t.round = s.round,
         NEW entry \in Heard, t.guesses = Fed(s.guesses, entry),
         entry.kind = "wrong" =>
           ~OneEditAway(NormaliseGuess(entry.text), NormaliseGuess(s.words[s.round]))
  PROVE  ArtInv(t)
<1>1. s.guesses \in Seq(Heard)
  BY DEF ArtInv, Heard
<1>2. /\ t.guesses \in Seq(Heard)
      /\ \A i \in DOMAIN t.guesses :
           t.guesses[i] = entry \/ \E k \in DOMAIN s.guesses : t.guesses[i] = s.guesses[k]
  BY <1>1, FedShows
<1>3. HintsAreRight(t)
  <2> DEFINE word == NormaliseGuess(s.words[s.round])
  <2>1. \A k \in DOMAIN s.guesses :
          s.guesses[k].kind = "wrong" => ~OneEditAway(NormaliseGuess(s.guesses[k].text), word)
    BY DEF ArtInv, HintsAreRight
  <2>2. entry.kind = "wrong" => ~OneEditAway(NormaliseGuess(entry.text), word)
    OBVIOUS
  <2>3. \A i \in DOMAIN t.guesses :
          t.guesses[i].kind = "wrong" => ~OneEditAway(NormaliseGuess(t.guesses[i].text), word)
    <3> HIDE DEF word
    <3> QED BY <1>2, <2>1, <2>2
  <2>4. NormaliseGuess(t.words[t.round]) = word
    OBVIOUS
  <2> HIDE DEF word
  <2> QED BY <2>3, <2>4 DEF HintsAreRight
<1>4. t.guesses \in Seq(Heard)
  BY <1>2 DEF Heard
<1>5. /\ {"game", "round", "words", "strokes", "guesses", "solved", "guessCount", "scores"} \subseteq DOMAIN t
      /\ t.words \in [Cells(DrawRounds) -> Vocabulary] /\ t.round \in Nat
  BY DEF ArtInv
<1> QED BY <1>3, <1>4, <1>5 DEF ArtInv

\* A guess gives nothing away.
LEMMA ArtGuessKeeps ==
  ASSUME NEW s, ArtInv(s), ~DrawFinished(s), NEW p \in ArtSeats, NEW text \in Typed
  PROVE  ArtInv(GuessApplied(s, p, text))
<1> DEFINE answer == NormaliseGuess(s.words[s.round])
           guess  == NormaliseGuess(text)
           After(kind, shown) ==
             [s EXCEPT !.guesses = Fed(@, [player |-> p, kind |-> kind, text |-> shown]),
                       !.guessCount = @ + 1]
<1>1. {"game", "round", "words", "strokes", "guesses", "solved", "guessCount", "scores"} \subseteq DOMAIN s
  BY DEF ArtInv
<1>2. guess \in Seq(Letters) /\ answer \in Seq(Letters)
  <2>1. text \in Seq(Glyphs)
    BY WordAssumption
  <2>2. s.words[s.round] \in Seq(Glyphs)
    <3>1. s.round \in Cells(DrawRounds)
      BY WordAssumption DEF ArtInv, DrawFinished, Cells
    <3>2. s.words[s.round] \in Vocabulary
      BY <3>1 DEF ArtInv
    <3> QED BY <3>2, WordAssumption
  <2> QED BY <2>1, <2>2, NormalisedIsSpelt
<1> HIDE DEF answer, guess
<1>3. ASSUME NEW kind \in {"correct", "close", "wrong"}, NEW shown \in Typed \cup {<<>>}
      PROVE  LET t     == After(kind, shown)
                 entry == [player |-> p, kind |-> kind, text |-> shown]
             IN  /\ DOMAIN t = DOMAIN s /\ t.words = s.words /\ t.round = s.round
                 /\ entry \in Heard /\ t.guesses = Fed(s.guesses, entry)
                 /\ entry.kind = kind /\ entry.text = shown
  BY <1>1 DEF Heard
<1>4. ASSUME NEW kind \in {"correct", "close"} PROVE ArtInv(After(kind, <<>>))
  <2> DEFINE t     == After(kind, <<>>)
             entry == [player |-> p, kind |-> kind, text |-> <<>>]
  <2>1. /\ DOMAIN t = DOMAIN s /\ t.words = s.words /\ t.round = s.round
        /\ entry \in Heard /\ t.guesses = Fed(s.guesses, entry) /\ entry.kind # "wrong"
    <3>1. kind \in {"correct", "close", "wrong"} /\ kind # "wrong" /\ <<>> \in Typed \cup {<<>>}
      OBVIOUS
    <3> HIDE DEF After
    <3> QED BY <1>3, <3>1
  <2> HIDE DEF t, entry
  <2>2. ArtInv(t)
    BY <2>1, HeardKeeps
  <2> QED BY <2>2 DEF t
<1>5. ASSUME guess # answer, ~IsCloseGuess(guess, answer) PROVE ArtInv(After("wrong", text))
  <2> DEFINE t     == After("wrong", text)
             entry == [player |-> p, kind |-> "wrong", text |-> text]
  <2>1. /\ DOMAIN t = DOMAIN s /\ t.words = s.words /\ t.round = s.round
        /\ entry \in Heard /\ t.guesses = Fed(s.guesses, entry) /\ entry.text = text
    <3>1. "wrong" \in {"correct", "close", "wrong"} /\ text \in Typed \cup {<<>>}
      OBVIOUS
    <3> HIDE DEF After
    <3> QED BY <1>3, <3>1
  <2>2. ~OneEditAway(guess, answer)
    BY <1>2, <1>5, OneEditIsClose
  <2>3. ~OneEditAway(NormaliseGuess(entry.text), NormaliseGuess(s.words[s.round]))
    <3> HIDE DEF entry
    <3> QED BY <2>1, <2>2 DEF guess, answer
  <2> HIDE DEF t, entry
  <2>4. ArtInv(t)
    BY <2>1, <2>3, HeardKeeps
  <2> QED BY <2>4 DEF t
<1> DEFINE u     == After("correct", <<>>)
           already == Cardinality({q \in ArtSeats : s.solved[q]})
           right == [u EXCEPT !.solved[p] = TRUE,
                              !.scores = [q \in ArtSeats |->
                                            @[q] + (IF q = p THEN SolveReward(already) ELSE 0)
                                                 + (IF q = Drawer(s) THEN 1 ELSE 0)]]
<1>6. GuessApplied(s, p, text) =
        IF guess # answer THEN IF IsCloseGuess(guess, answer) THEN After("close", <<>>)
                               ELSE After("wrong", text)
        ELSE IF \A q \in ArtSeats \ {Drawer(s)} : right.solved[q] THEN NextDrawing(right) ELSE right
  BY DEF GuessApplied, guess, answer
<1>7. ArtInv(u)
  <2> HIDE DEF After
  <2> QED BY <1>4
<1>8. ArtInv(right)
  <2> HIDE DEF u
  <2>1. /\ DOMAIN right = DOMAIN u /\ right.words = u.words /\ right.round = u.round
        /\ right.guesses = u.guesses
    BY <1>7 DEF ArtInv
  <2> HIDE DEF right
  <2>2. HintsAreRight(right)
    BY <1>7, <2>1 DEF ArtInv, HintsAreRight
  <2> QED BY <1>7, <2>1, <2>2 DEF ArtInv
<1>9. ArtInv(NextDrawing(right))
  <2> HIDE DEF right
  <2> QED BY <1>8, NextArt
<1> HIDE DEF After, u, right
<1>10. ArtInv(After("close", <<>>))
  BY <1>4
<1> QED BY <1>5, <1>6, <1>8, <1>9, <1>10

\* Whatever is done about a drawing, the feed gives nothing away.
LEMMA ArtKeeps ==
  ASSUME NEW s, ArtInv(s), NEW p \in ArtSeats, NEW a \in DrawAndGuessChoices(s, p)
  PROVE  ArtInv(DrawAndGuessApply(s, p, a))
<1>1. {"game", "round", "words", "strokes", "guesses", "solved", "guessCount", "scores"} \subseteq DOMAIN s
  BY DEF ArtInv
<1>2. /\ ~DrawFinished(s)
      /\ \/ a.type \in {"stroke", "undo", "clear", "endRound"}
         \/ a.type = "guess" /\ a.text \in Typed
  BY DEF DrawAndGuessChoices
<1>3. ASSUME NEW n PROVE ArtInv([s EXCEPT !.strokes = n])
  <2> DEFINE t == [s EXCEPT !.strokes = n]
  <2>1. DOMAIN t = DOMAIN s /\ t.words = s.words /\ t.round = s.round /\ t.guesses = s.guesses
    BY <1>1
  <2> HIDE DEF t
  <2>2. HintsAreRight(t)
    BY <2>1 DEF ArtInv, HintsAreRight
  <2>3. ArtInv(t)
    BY <2>1, <2>2 DEF ArtInv
  <2> QED BY <2>3 DEF t
<1>4. CASE a.type = "stroke"
  <2>1. DrawAndGuessApply(s, p, a) = [s EXCEPT !.strokes = s.strokes + 1]
    BY <1>4 DEF DrawAndGuessApply
  <2> QED BY <1>3, <2>1
<1>5. CASE a.type = "undo"
  <2>1. DrawAndGuessApply(s, p, a) = [s EXCEPT !.strokes = s.strokes - 1]
    BY <1>5 DEF DrawAndGuessApply
  <2> QED BY <1>3, <2>1
<1>6. CASE a.type = "clear"
  <2>1. DrawAndGuessApply(s, p, a) = [s EXCEPT !.strokes = 0]
    BY <1>6 DEF DrawAndGuessApply
  <2> QED BY <1>3, <2>1
<1>7. CASE a.type = "endRound"
  <2>1. DrawAndGuessApply(s, p, a) = NextDrawing(s)
    BY <1>7 DEF DrawAndGuessApply
  <2> QED BY <2>1, NextArt
<1>8. CASE a.type = "guess" /\ a.text \in Typed
  <2>1. DrawAndGuessApply(s, p, a) = GuessApplied(s, p, a.text)
    BY <1>8 DEF DrawAndGuessApply
  <2> QED BY <1>2, <1>8, <2>1, ArtGuessKeeps
<1> QED BY <1>2, <1>4, <1>5, <1>6, <1>7, <1>8

-----------------------------------------------------------------------------
(* The result of a game. *)

\* What holds of a table, whatever game is on it.
ResultInv(s) ==
  /\ TableShape(s)
  /\ s.game = "ticTacToe"    => LinesInv(s, 3, 3, 3)
  /\ s.game = "connectFour"  => LinesInv(s, FourLength, FourCols, FourRows)
  /\ s.game = "gomoku"       => LinesInv(s, WinLength, GomokuSize, GomokuSize)
  /\ s.game = "codeBreaker"  => CodeInv(s)
  /\ s.game = "drawAndGuess" => ArtInv(s)
  /\ s.game = "reaction"     => RaceInv(s)
  /\ s.game = "darts"        => DartsInv(s)
  /\ s.game = "battleship"   => AuditInv(s)
  /\ s.game = "chess"        => ChessInv(s)

\* Which rules the games of turns are handed to.
LEMMA DispatchedToo ==
  ASSUME NEW s, NEW p, NEW c
  PROVE  /\ s.game = "ticTacToe" =>
              /\ GameChoices(s, p) = TicTacToeChoices(s, p)
              /\ GameApply(s, p, c) = TicTacToeApply(s, p, c)
         /\ s.game = "connectFour" =>
              /\ GameChoices(s, p) = ConnectFourChoices(s, p)
              /\ GameApply(s, p, c) = ConnectFourApply(s, p, c)
         /\ s.game = "gomoku" =>
              /\ GameChoices(s, p) = GomokuChoices(s, p)
              /\ GameApply(s, p, c) = GomokuApply(s, p, c)
         /\ s.game = "codeBreaker" =>
              /\ PlayersOf(s) = Seats /\ GameChoices(s, p) = CodeBreakerChoices(s, p)
              /\ GameApply(s, p, c) = CodeBreakerApply(s, p, c)
         /\ s.game = "drawAndGuess" =>
              /\ PlayersOf(s) = ArtSeats /\ GameChoices(s, p) = DrawAndGuessChoices(s, p)
              /\ GameApply(s, p, c) = DrawAndGuessApply(s, p, c)
         /\ s.game = "darts" =>
              /\ PlayersOf(s) = DartSeats /\ GameChoices(s, p) = DartsChoices(s, p)
              /\ GameApply(s, p, c) = DartsApply(s, p, c)
         /\ s.game = "chess" =>
              /\ GameChoices(s, p) = ChessChoices(s, p)
              /\ GameApply(s, p, c) = ChessApply(s, p, c)
  BY DEF PlayersOf, GameChoices, GameApply, GridNames, ChoiceNames, QuizNames, WordNames, RaceNames,
         GridChoices, GridApply, ChoiceChoices, ChoiceApply, WordChoices, WordApply, RaceChoices,
         RaceApply

\* Every act keeps it.
LEMMA ResultKept ==
  ASSUME NEW s, ResultInv(s), NEW p \in PlayersOf(s), NEW c \in GameChoices(s, p)
  PROVE  ResultInv(GameApply(s, p, c))
<1> DEFINE t == GameApply(s, p, c)
<1>1. TableShape(t) /\ t.game = s.game
  BY PlayKeepsShape DEF ResultInv
<1>2. s.game = "ticTacToe" => LinesInv(t, 3, 3, 3)
  BY DispatchedToo, MarkKeepsLines DEF ResultInv
<1>3. s.game = "connectFour" => LinesInv(t, FourLength, FourCols, FourRows)
  BY DispatchedToo, FourKeepsLines DEF ResultInv
<1>4. s.game = "gomoku" => LinesInv(t, WinLength, GomokuSize, GomokuSize)
  BY DispatchedToo, GomokuKeepsLines DEF ResultInv
<1>5. s.game = "codeBreaker" => CodeInv(t)
  BY DispatchedToo, GuessKeeps DEF ResultInv
<1>6. s.game = "drawAndGuess" => ArtInv(t)
  BY DispatchedToo, ArtKeeps DEF ResultInv
<1>7. s.game = "reaction" => RaceInv(t)
  BY Dispatched, RaceKeeps DEF ResultInv
<1>8. s.game = "darts" => DartsInv(t)
  BY DispatchedToo, DartKeeps DEF ResultInv
<1>9. s.game = "battleship" => AuditInv(t)
  BY Dispatched, FleetPlayKeeps DEF ResultInv
<1>10. s.game = "chess" => ChessInv(t)
  BY DispatchedToo, ChessPlayKeeps DEF ResultInv
<1> HIDE DEF t
<1>11. ResultInv(t)
  BY <1>1, <1>2, <1>3, <1>4, <1>5, <1>6, <1>7, <1>8, <1>9, <1>10 DEF ResultInv
<1> QED BY <1>11 DEF t

\* A new game of turns has its name.
LEMMA NamedFromTheStart ==
  /\ \A s \in TicTacToeNew : s.game = "ticTacToe"
  /\ \A s \in ConnectFourNew : s.game = "connectFour"
  /\ \A s \in GomokuNew : s.game = "gomoku"
  /\ \A s \in ReversiNew : s.game = "reversi"
  /\ \A s \in DotsAndBoxesNew : s.game = "dotsAndBoxes"
  /\ \A s \in SlidingPuzzleNew : s.game = "slidingPuzzle"
  /\ \A s \in MemoryDuelNew : s.game = "memoryDuel"
  /\ \A s \in TriviaNew : s.game = "trivia"
  /\ \A s \in CodeBreakerNew : s.game = "codeBreaker"
  /\ \A s \in WordChainNew : s.game = "wordChain"
  /\ \A s \in DrawAndGuessNew : s.game = "drawAndGuess"
  /\ \A s \in DartsNew : s.game = "darts"
  /\ \A s \in ChessNew : s.game = "chess"
<1>1. /\ \A s \in TicTacToeNew : s.game = "ticTacToe"
      /\ \A s \in ConnectFourNew : s.game = "connectFour"
  BY LinesStart DEF TicTacToeNew, ConnectFourNew
<1>2. \A s \in GomokuNew : s.game = "gomoku"
  BY DEF GomokuNew
<1>3. \A s \in ReversiNew : s.game = "reversi"
  BY DEF ReversiNew
<1>4. \A s \in DotsAndBoxesNew : s.game = "dotsAndBoxes"
  BY DEF DotsAndBoxesNew
<1>5. \A s \in SlidingPuzzleNew : s.game = "slidingPuzzle"
  BY DEF SlidingPuzzleNew
<1>6. \A s \in MemoryDuelNew : s.game = "memoryDuel"
  BY DEF MemoryDuelNew
<1>7. \A s \in TriviaNew : s.game = "trivia"
  BY DEF TriviaNew
<1>8. \A s \in CodeBreakerNew : s.game = "codeBreaker"
  BY DEF CodeBreakerNew
<1>9. \A s \in WordChainNew : s.game = "wordChain"
  BY DEF WordChainNew
<1>10. \A s \in DrawAndGuessNew : s.game = "drawAndGuess"
  BY DEF DrawAndGuessNew
<1>11. \A s \in DartsNew : s.game = "darts"
  BY DEF DartsNew
<1>12. \A s \in ChessNew : s.game = "chess"
  BY DEF ChessNew, Evaluated
<1> QED BY <1>1, <1>2, <1>3, <1>4, <1>5, <1>6, <1>7, <1>8, <1>9, <1>10, <1>11, <1>12

\* Games whose results nothing further is said about.
Plain == {"reversi", "dotsAndBoxes", "slidingPuzzle", "memoryDuel", "trivia", "wordChain",
          "rockPaperScissors", "secretChoice", "quizDuel", "quickMath", "tapRace", "wordDuel"}

\* Every game starts so.
LEMMA ResultStarts ==
  ASSUME NEW s \in GameNew
  PROVE  ResultInv(s)
<1>1. TableShape(s)
  BY TableStarts
<1>2. CASE s \in TicTacToeNew
  BY <1>1, <1>2, LineGamesStart, NamedFromTheStart DEF ResultInv
<1>3. CASE s \in ConnectFourNew
  BY <1>1, <1>3, LineGamesStart, NamedFromTheStart DEF ResultInv
<1>4. CASE s \in GomokuNew
  BY <1>1, <1>4, LineGamesStart, NamedFromTheStart DEF ResultInv
<1>5. CASE s \in CodeBreakerNew
  BY <1>1, <1>5, CodesStart, NamedFromTheStart DEF ResultInv
<1>6. CASE s \in DrawAndGuessNew
  BY <1>1, <1>6, ArtStarts, NamedFromTheStart DEF ResultInv
<1>7. CASE s \in ReactionNew
  BY <1>1, <1>7, RacesStart, BothStart DEF ResultInv
<1>8. CASE s \in DartsNew
  BY <1>1, <1>8, DartsStart, NamedFromTheStart DEF ResultInv
<1>9. CASE s \in BattleshipNew
  BY <1>1, <1>9, FleetsStart, BothStart DEF ResultInv
<1>10. CASE s \in ChessNew
  BY <1>1, <1>10, ChessStarts, NamedFromTheStart DEF ResultInv
<1>11. CASE s.game \in Plain
  BY <1>1, <1>11 DEF ResultInv, Plain
<1>12. \/ s \in TicTacToeNew \/ s \in ConnectFourNew \/ s \in GomokuNew \/ s \in CodeBreakerNew
       \/ s \in DrawAndGuessNew \/ s \in ReactionNew \/ s \in DartsNew \/ s \in BattleshipNew
       \/ s \in ChessNew
       \/ s.game \in Plain
  <2>1. \/ s \in TicTacToeNew \/ s \in ConnectFourNew \/ s \in GomokuNew \/ s \in CodeBreakerNew
        \/ s \in DrawAndGuessNew \/ s \in ReactionNew \/ s \in DartsNew \/ s \in BattleshipNew
        \/ s \in ChessNew
        \/ s \in ReversiNew \cup DotsAndBoxesNew \cup SlidingPuzzleNew \cup MemoryDuelNew
        \/ s \in TriviaNew \cup WordChainNew
        \/ s \in RockPaperScissorsNew \cup SecretChoiceNew \cup QuizDuelNew \cup QuickMathNew
                   \cup TapRaceNew \cup WordDuelNew
    BY DEF GameNew, GridNew, ChoiceNew, QuizNew, WordNew, RaceNew
  <2>2. s \in ReversiNew \cup DotsAndBoxesNew \cup SlidingPuzzleNew \cup MemoryDuelNew => s.game \in Plain
    BY NamedFromTheStart DEF Plain
  <2>3. s \in TriviaNew \cup WordChainNew => s.game \in Plain
    BY NamedFromTheStart DEF Plain
  <2>4. s \in RockPaperScissorsNew \cup SecretChoiceNew \cup QuizDuelNew \cup QuickMathNew
                \cup TapRaceNew \cup WordDuelNew => s.game \in Plain
    BY BothStart DEF Plain
  <2> QED BY <2>1, <2>2, <2>3, <2>4
<1> QED BY <1>2, <1>3, <1>4, <1>5, <1>6, <1>7, <1>8, <1>9, <1>10, <1>11, <1>12

\* And then its result is right.
LEMMA ResultFollows ==
  ASSUME ResultInv(table)
  PROVE  ResultIsRight
<1>1. CASE table.game \in GridNames
  <2>1. GridRight(table)
    BY DEF GridRight, ResultInv, LinesInv
  <2> QED BY <1>1, <2>1 DEF ResultIsRight, GridNames
<1>2. CASE table.game = "codeBreaker"
  <2>1. FeedbackIsRight(table)
    BY <1>2, FeedbackFollows DEF ResultInv
  <2> QED BY <1>2, <2>1 DEF ResultIsRight, GridNames
<1>3. CASE table.game = "reaction"
  <2>1. RaceAddsUp(table)
    BY <1>3 DEF ResultInv, RaceInv
  <2> QED BY <1>3, <2>1 DEF ResultIsRight, GridNames
<1>4. CASE table.game = "darts"
  <2>1. DartsAddsUp(table)
    BY <1>4 DEF ResultInv, DartsInv
  <2> QED BY <1>4, <2>1 DEF ResultIsRight, GridNames
<1>5. CASE table.game = "battleship"
  <2>1. AuditIsRight(table)
    BY <1>5, AuditFollows DEF ResultInv
  <2> QED BY <1>5, <2>1 DEF ResultIsRight, GridNames
<1>6. CASE table.game = "chess"
  <2>1. RightsAreEarned(table)
    BY <1>6, RightsFollow DEF ResultInv
  <2> QED BY <1>6, <2>1 DEF ResultIsRight, GridNames
<1>7. CASE table.game = "drawAndGuess"
  <2>1. HintsAreRight(table)
    BY <1>7 DEF ResultInv, ArtInv
  <2> QED BY <1>7, <2>1 DEF ResultIsRight, GridNames
<1>8. CASE ~(table.game \in GridNames \cup {"codeBreaker", "reaction", "darts", "battleship", "chess",
                                            "drawAndGuess"})
  BY <1>8 DEF ResultIsRight
<1> QED BY <1>1, <1>2, <1>3, <1>4, <1>5, <1>6, <1>7, <1>8

\* THEOREM: what the rules work out from the last move, move by move, is what the
\* whole game says: the lines on the boards, the pegs of a code, the hints of a
\* drawing, wins and scores of races and darts, the audited fleets, and the rights of
\* a chess position (findWin, findWinThrough, scoreGuess, isCloseGuess, resolveRound,
\* settle, applyAction of the games).
THEOREM ResultsAreRight == TableSpec => []ResultIsRight
<1>1. TableInit => ResultInv(table)
  BY ResultStarts DEF TableInit
<1>2. ResultInv(table) /\ [Act]_table => ResultInv(table)'
  <2> SUFFICES ASSUME ResultInv(table), [Act]_table
               PROVE  ResultInv(table)'
    OBVIOUS
  <2> USE DEF ResultInv
  <2>1. CASE Act
    BY <2>1, ResultKept DEF Act
  <2>2. CASE UNCHANGED table
    BY <2>2
  <2> QED BY <2>1, <2>2
<1>3. ResultInv(table) => ResultIsRight
  BY ResultFollows
<1> QED BY <1>1, <1>2, <1>3, PTL DEF TableSpec
=============================================================================
