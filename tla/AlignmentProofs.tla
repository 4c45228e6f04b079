---------------------------- MODULE AlignmentProofs ----------------------------
(***************************************************************************)
(* What the passes of the alignment compute, for curves of every length.   *)
(* The kernel and the back track are recursive functions: that each has    *)
(* the value its definition says, and what all its values have in common,  *)
(* is shown by induction with a set in place of a predicate.               *)
(***************************************************************************)
EXTENDS AlignStage, SequenceTheorems, WellFoundedInduction, TLAPS

\* A nonempty set of natural numbers has a least element.
LEMMA LeastExists ==
  ASSUME NEW T \in SUBSET Nat, T # {}
  PROVE  \E x \in T : \A y \in T : x <= y
<1>1. \E x \in T : \A y \in T : ~ (<<y, x>> \in OpToRel(<, Nat))
  BY WFMin, NatLessThanWellFounded
<1>2. PICK x \in T : \A y \in T : ~ (y < x)
  BY <1>1 DEF OpToRel
<1>3. \A y \in T : x <= y
  BY <1>2
<1> QED BY <1>3

\* What has 0, and with each number below n the next one, has all up to n.
LEMMA Induct ==
  ASSUME NEW n \in Nat, NEW G, 0 \in G, \A k \in 0 .. n - 1 : k \in G => k + 1 \in G
  PROVE  0 .. n \subseteq G
<1> DEFINE T == (0 .. n) \ G
<1>1. SUFFICES ASSUME T # {} PROVE FALSE
  OBVIOUS
<1>2. T \in SUBSET Nat
  OBVIOUS
<1>3. PICK k \in T : \A y \in T : k <= y
  <2> HIDE DEF T
  <2> QED BY <1>1, <1>2, LeastExists
<1>4. k \in 0 .. n /\ k # 0
  OBVIOUS
<1>5. k - 1 \in 0 .. n - 1 /\ k - 1 \notin T
  BY <1>3, <1>4
<1>6. k - 1 \in G
  BY <1>5
<1> QED BY <1>4, <1>5, <1>6

\* The values of f come from c, one step after the other.
Computes(f, k, c, step) == f[0] = c /\ \A i \in 1 .. k : f[i] = step[i][f[i - 1]]

\* What is computed step by step exists.
LEMMA Recursion ==
  ASSUME NEW n \in Nat, NEW S, NEW c \in S, NEW step \in [1 .. n -> [S -> S]]
  PROVE  \E f \in [0 .. n -> S] : Computes(f, n, c, step)
<1> DEFINE G == {k \in 0 .. n : \E f \in [0 .. k -> S] : Computes(f, k, c, step)}
<1>1. 0 \in G
  <2> DEFINE f == [i \in 0 .. 0 |-> c]
  <2>1. f \in [0 .. 0 -> S] /\ f[0] = c /\ 1 .. 0 = {}
    OBVIOUS
  <2> HIDE DEF f
  <2> QED BY <2>1 DEF Computes
<1>2. ASSUME NEW k \in 0 .. n - 1, k \in G PROVE k + 1 \in G
  <2>1. PICK f \in [0 .. k -> S] : Computes(f, k, c, step)
    BY <1>2
  <2> DEFINE g == [i \in 0 .. k + 1 |-> IF i = k + 1 THEN step[k + 1][f[k]] ELSE f[i]]
  <2>2. step[k + 1] \in [S -> S] /\ f[k] \in S
    OBVIOUS
  <2>3. step[k + 1][f[k]] \in S
    BY <2>2
  <2>4. g \in [0 .. k + 1 -> S]
    BY <2>3
  <2>5. g[0] = c /\ g[k + 1] = step[k + 1][f[k]] /\ \A i \in 0 .. k : g[i] = f[i]
    BY <2>1 DEF Computes
  <2> HIDE DEF g
  <2>6. \A i \in 1 .. k + 1 : g[i] = step[i][g[i - 1]]
    BY <2>1, <2>5 DEF Computes
  <2>7. Computes(g, k + 1, c, step)
    BY <2>5, <2>6 DEF Computes
  <2> QED BY <2>4, <2>7
<1>3. 0 .. n \subseteq G
  <2> HIDE DEF G
  <2> QED BY <1>1, <1>2, Induct
<1> QED BY <1>3
-----------------------------------------------------------------------------
(***************************************************************************)
(* The kernel.                                                             *)
(***************************************************************************)
Steps == {"none", "diag", "up", "left"}
Cell == [cost : Nat, step : Steps]
Row(m) == [0 .. m -> Cell]

LEMMA PitchDistanceRange ==
  ASSUME NEW x \in Nat, NEW y \in Nat
  PROVE  PitchDistance(x, y) \in 0 .. 200
<1>1. Distance(x, y) \in Nat
  BY DEF Distance
<1>2. Distance(x, y) % 12 \in 0 .. 11
  BY <1>1
<1>3. \A k \in 1 .. 11 : Chord[k] \in 0 .. 200
  <2> SUFFICES ASSUME NEW k \in 1 .. 11 PROVE Chord[k] \in 0 .. 200
    OBVIOUS
  <2>1. k \in {1, 2, 3, 4, 5, 6, 7, 8, 9, 10, 11}
    OBVIOUS
  <2> QED BY <2>1 DEF Chord
<1>4. Distance(x, y) % 12 = 0 \/ Distance(x, y) % 12 \in 1 .. 11
  BY <1>2
<1> QED BY <1>3, <1>4 DEF PitchDistance

\* A cell from the row before and the cell to its left.
CellOf(prev, a, b, center, band, i, j, left) ==
  IF ~InBand(center, band, i, j) THEN Unreached
  ELSE Extended(Cheapest(prev[j - 1].cost, prev[j].cost, left.cost), PitchDistance(a[i], b[j]))

LEMMA InfinityIsNat == Infinity \in Nat /\ Unreached \in Cell
BY StrideAssumption DEF Infinity, Unreached, Cell, Steps

LEMMA FramesApart ==
  ASSUME NEW a \in Seq(Nat), NEW b \in Seq(Nat), NEW i \in 1 .. Len(a), NEW j \in 1 .. Len(b)
  PROVE  PitchDistance(a[i], b[j]) \in 0 .. 200
<1>1. a[i] \in Nat /\ b[j] \in Nat
  BY ElementOfSeq
<1> QED BY <1>1, PitchDistanceRange

LEMMA RowCells ==
  ASSUME NEW m \in Nat, NEW row \in Row(m), NEW j \in 0 .. m
  PROVE  row[j] \in Cell /\ row[j].cost \in Nat /\ row[j].step \in Steps
<1>1. row[j] \in Cell
  BY DEF Row
<1> QED BY <1>1 DEF Cell

LEMMA CellType ==
  ASSUME NEW a \in Seq(Nat), NEW b \in Seq(Nat), NEW center, NEW band,
         NEW prev \in Row(Len(b)), NEW i \in 1 .. Len(a), NEW j \in 1 .. Len(b), NEW left \in Cell
  PROVE  CellOf(prev, a, b, center, band, i, j, left) \in Cell
<1> DEFINE best == Cheapest(prev[j - 1].cost, prev[j].cost, left.cost)
           d == PitchDistance(a[i], b[j])
<1>1. prev[j - 1].cost \in Nat /\ prev[j].cost \in Nat /\ left.cost \in Nat
  <2>1. Len(b) \in Nat /\ j - 1 \in 0 .. Len(b) /\ j \in 0 .. Len(b)
    BY LenProperties
  <2>2. left.cost \in Nat
    BY DEF Cell
  <2> QED BY <2>1, <2>2, RowCells
<1>2. best.cost \in Nat /\ best.step \in Steps
  BY <1>1 DEF Cheapest, Steps
<1>3. d \in Nat
  <2>1. d \in 0 .. 200
    BY FramesApart, Zenon
  <2> HIDE DEF d
  <2> QED BY <2>1
<1> HIDE DEF best, d
<1>4. Extended(best, d) \in Cell
  BY <1>2, <1>3, InfinityIsNat, SMTT(30) DEF Extended, Cell
<1> QED BY <1>4, InfinityIsNat DEF CellOf, best, d

\* Every cell of a row is what its definition says.
LEMMA NextRowIs ==
  ASSUME NEW a \in Seq(Nat), NEW b \in Seq(Nat), NEW center, NEW band,
         NEW prev \in Row(Len(b)), NEW i \in 1 .. Len(a),
         NEW row, row = NextRow(prev, a, b, center, band, i)
  PROVE  /\ row \in Row(Len(b)) /\ row[0] = Unreached
         /\ \A j \in 1 .. Len(b) :
              row[j] = CellOf(prev, a, b, center, band, i, j, row[j - 1])
<1> DEFINE m == Len(b)
           Of(j, left) == CellOf(prev, a, b, center, band, i, j, left)
           Body(f) == [j \in 0 .. m |-> IF j = 0 THEN Unreached ELSE Of(j, f[j - 1])]
           Def(f) == [j \in 0 .. m |->
                        IF j = 0 \/ ~InBand(center, band, i, j) THEN Unreached
                        ELSE Extended(Cheapest(prev[j - 1].cost, prev[j].cost, f[j - 1].cost),
                                      PitchDistance(a[i], b[j]))]
<1>1. m \in Nat
  BY LenProperties
<1>2. \A f : Def(f) = Body(f)
  BY DEF CellOf
<1>3. \E f : f = Def(f)
  <2> DEFINE step == [j \in 1 .. m |-> [left \in Cell |-> Of(j, left)]]
  <2>1. step \in [1 .. m -> [Cell -> Cell]]
    BY CellType
  <2> HIDE DEF step
  <2>2. PICK f \in [0 .. m -> Cell] : Computes(f, m, Unreached, step)
    BY <1>1, <2>1, InfinityIsNat, Recursion
  <2>3. \A j \in 1 .. m : f[j] = Of(j, f[j - 1])
    <3> SUFFICES ASSUME NEW j \in 1 .. m PROVE f[j] = Of(j, f[j - 1])
      OBVIOUS
    <3>1. f[j] = step[j][f[j - 1]]
      BY <2>2 DEF Computes
    <3>2. f[j - 1] \in Cell
      <4>1. j - 1 \in 0 .. m
        BY <1>1
      <4> QED BY <2>2, <4>1, Zenon
    <3>3. step[j] = [left \in Cell |-> Of(j, left)]
      BY DEF step
    <3> HIDE DEF Of
    <3> QED BY <3>1, <3>2, <3>3
  <2>4. f = Body(f)
    <3> HIDE DEF Of
    <3> QED BY <2>2, <2>3 DEF Computes
  <2> HIDE DEF Def, Body
  <2> QED BY <1>2, <2>4
<1>4. PICK f : f = Def(f) /\ row = [j \in 0 .. m |-> f[j]]
  <2> DEFINE cell == CHOOSE f : f = Def(f)
  <2>1. cell = Def(cell)
    BY <1>3, Zenon
  <2>2. row = [j \in 0 .. m |-> cell[j]]
    BY Zenon DEF NextRow
  <2> QED BY <2>1, <2>2
<1>5. row = f
  <2> HIDE DEF Of
  <2> QED BY <1>2, <1>4
<1>6. row = Body(row)
  <2> HIDE DEF Def, Body
  <2> QED BY <1>2, <1>4, <1>5, Zenon
<1>7. row[0] = Unreached /\ \A j \in 1 .. m : row[j] = Of(j, row[j - 1])
  <2>1. \A j \in 0 .. m : Body(row)[j] = IF j = 0 THEN Unreached ELSE Of(j, row[j - 1])
    <3> HIDE DEF Of
    <3> QED OBVIOUS
  <2> HIDE DEF Of, Body
  <2>2. \A j \in 0 .. m : row[j] = IF j = 0 THEN Unreached ELSE Of(j, row[j - 1])
    BY <1>6, <2>1
  <2> QED BY <1>1, <2>2
<1>8. \A j \in 0 .. m : row[j] \in Cell
  <2> DEFINE G == {j \in 0 .. m : row[j] \in Cell}
  <2>1. 0 \in G
    BY <1>1, <1>7, InfinityIsNat
  <2>2. ASSUME NEW j \in 0 .. m - 1, j \in G PROVE j + 1 \in G
    <3>1. j + 1 \in 1 .. m /\ (j + 1) - 1 = j
      BY <1>1
    <3>2. row[j + 1] = Of(j + 1, row[j])
      <4> HIDE DEF Of
      <4> QED BY <1>7, <3>1
    <3> QED BY <2>2, <3>1, <3>2, CellType
  <2>3. 0 .. m \subseteq G
    <3> HIDE DEF G
    <3> QED BY <1>1, <2>1, <2>2, Induct
  <2> QED BY <2>3
<1>9. row \in Row(m)
  <2> HIDE DEF Of
  <2> QED BY <1>6, <1>8 DEF Row
<1> QED BY <1>7, <1>9

LEMMA FirstRowIs ==
  ASSUME NEW m \in Nat
  PROVE  /\ FirstRow(m) \in Row(m) /\ FirstRow(m)[0] = [cost |-> 0, step |-> "none"]
         /\ \A j \in 1 .. m : FirstRow(m)[j] = Unreached
<1>1. [cost |-> 0, step |-> "none"] \in Cell
  BY DEF Cell, Steps
<1>2. \A j \in 0 .. m : FirstRow(m)[j] = IF j = 0 THEN [cost |-> 0, step |-> "none"] ELSE Unreached
  BY DEF FirstRow
<1>3. FirstRow(m) \in Row(m)
  <2> HIDE DEF Cell
  <2> QED BY <1>1, InfinityIsNat DEF FirstRow, Row
<1> QED BY <1>2, <1>3

\* The rows so far, each made from the one before it.
Rows(t, k, a, b, center, band) ==
  /\ t \in Seq(Row(Len(b))) /\ Len(t) = k + 1 /\ t[1] = FirstRow(Len(b))
  /\ \A i \in 1 .. k : t[i + 1] = NextRow(t[i], a, b, center, band, i)

LEMMA OneMoreRow ==
  ASSUME NEW a \in Seq(Nat), NEW b \in Seq(Nat), NEW center, NEW band,
         NEW k \in 0 .. Len(a) - 1, NEW t, Rows(t, k, a, b, center, band)
  PROVE  Rows(Append(t, NextRow(t[k + 1], a, b, center, band, k + 1)), k + 1, a, b, center, band)
<1> DEFINE R == Row(Len(b))
           new == NextRow(t[k + 1], a, b, center, band, k + 1)
<1>1. t \in Seq(R) /\ Len(t) = k + 1 /\ Len(a) \in Nat
  BY LenProperties DEF Rows
<1>2. k \in Nat /\ k + 1 \in 1 .. Len(t) /\ k + 1 \in 1 .. Len(a)
  BY <1>1
<1>3. t[k + 1] \in R
  BY <1>1, <1>2, ElementOfSeq
<1>4. new \in R
  BY <1>2, <1>3, NextRowIs
<1> HIDE DEF new, R
<1>5. /\ Append(t, new) \in Seq(R) /\ Len(Append(t, new)) = k + 2
      /\ \A i \in 1 .. k + 1 : Append(t, new)[i] = t[i]
      /\ Append(t, new)[k + 2] = new
  BY <1>1, <1>2, <1>4, AppendProperties
<1>6. Append(t, new)[1] = FirstRow(Len(b))
  BY <1>2, <1>5 DEF Rows
<1>7. ASSUME NEW i \in 1 .. k + 1
      PROVE  Append(t, new)[i + 1] = NextRow(Append(t, new)[i], a, b, center, band, i)
  <2>1. CASE i = k + 1
    BY <1>2, <1>5, <2>1 DEF new
  <2>2. CASE i # k + 1
    <3>1. i \in 1 .. k /\ i + 1 \in 1 .. k + 1
      BY <1>2, <2>2
    <3> QED BY <1>5, <3>1 DEF Rows
  <2> QED BY <2>1, <2>2
<1> QED BY <1>2, <1>5, <1>6, <1>7 DEF Rows, R, new

\* The table has a row for every prefix of a.
LEMMA TableIs ==
  ASSUME NEW a \in Seq(Nat), NEW b \in Seq(Nat), NEW center, NEW band
  PROVE  Rows(Table(a, b, center, band), Len(a), a, b, center, band)
<1> DEFINE n == Len(a)
           S == Seq(Row(Len(b)))
           c == <<FirstRow(Len(b))>>
           More(t, i) == Append(t, NextRow(t[i], a, b, center, band, i))
           Def(f) == [i \in 0 .. n |-> IF i = 0 THEN <<FirstRow(Len(b))>>
                                       ELSE LET before == f[i - 1]
                                            IN Append(before, NextRow(before[i], a, b, center, band, i))]
           Good(t, i) == Rows(t, i, a, b, center, band)
<1>1. n \in Nat /\ Len(b) \in Nat
  BY LenProperties
<1>2. Good(c, 0) /\ c \in S
  <2>1. FirstRow(Len(b)) \in Row(Len(b))
    BY <1>1, FirstRowIs
  <2>2. c \in S /\ Len(c) = 1 /\ c[1] = FirstRow(Len(b))
    BY <2>1
  <2> HIDE DEF c
  <2> QED BY <2>2 DEF Rows
<1>3. \A i \in 1 .. n : \A t : Good(t, i - 1) => Good(More(t, i), i)
  <2> SUFFICES ASSUME NEW i \in 1 .. n, NEW t, Good(t, i - 1) PROVE Good(More(t, i), i)
    OBVIOUS
  <2>1. i - 1 \in 0 .. n - 1 /\ (i - 1) + 1 = i
    BY <1>1
  <2> QED BY <2>1, OneMoreRow
<1>4. \A f : Def(f) = [i \in 0 .. n |-> IF i = 0 THEN c ELSE More(f[i - 1], i)]
  OBVIOUS
<1>5. \A t, i : Good(t, i) => t \in S
  BY DEF Rows
<1> HIDE DEF S, c, More, Good, n
<1>6. \E f : f = Def(f)
  <2> DEFINE step == [i \in 1 .. n |-> [t \in S |-> IF Good(t, i - 1) THEN More(t, i) ELSE t]]
  <2>1. step \in [1 .. n -> [S -> S]]
    BY <1>3, <1>5
  <2>2. \A i \in 1 .. n : \A t \in S : Good(t, i - 1) => step[i][t] = More(t, i)
    OBVIOUS
  <2> HIDE DEF step
  <2>3. PICK f \in [0 .. n -> S] : Computes(f, n, c, step)
    BY <1>1, <1>2, <2>1, Recursion
  <2> DEFINE G == {i \in 0 .. n : Good(f[i], i)}
  <2>4. 0 \in G
    BY <1>1, <1>2, <2>3 DEF Computes
  <2>5. ASSUME NEW i \in 0 .. n - 1, i \in G PROVE i + 1 \in G
    <3>1. i + 1 \in 1 .. n /\ (i + 1) - 1 = i /\ f[i] \in S
      BY <1>1
    <3>2. f[i + 1] = step[i + 1][f[i]]
      BY <2>3, <3>1 DEF Computes
    <3>3. f[i + 1] = More(f[i], i + 1) /\ Good(f[i + 1], i + 1)
      BY <1>3, <2>2, <2>5, <3>1, <3>2
    <3> QED BY <3>1, <3>3
  <2>6. 0 .. n \subseteq G
    <3> HIDE DEF G
    <3> QED BY <1>1, <2>4, <2>5, Induct
  <2>7. ASSUME NEW i \in 1 .. n PROVE f[i] = More(f[i - 1], i)
    <3>1. i - 1 \in 0 .. n /\ f[i - 1] \in S
      BY <1>1
    <3>2. Good(f[i - 1], i - 1)
      BY <2>6, <3>1
    <3> QED BY <2>2, <2>3, <3>1, <3>2 DEF Computes
  <2>8. f[0] = c
    BY <2>3 DEF Computes
  <2>9. f = [i \in 0 .. n |-> IF i = 0 THEN c ELSE More(f[i - 1], i)]
    BY <2>7, <2>8
  <2> HIDE DEF Def
  <2> QED BY <1>4, <2>9
<1>7. PICK f : f = Def(f) /\ Table(a, b, center, band) = f[n]
  <2> DEFINE rows == CHOOSE f : f = Def(f)
  <2>1. rows = Def(rows)
    BY <1>6, Zenon
  <2>2. Table(a, b, center, band) = rows[n]
    BY Zenon DEF Table, n
  <2> QED BY <2>1, <2>2
<1>8. \A i \in 0 .. n : f[i] = IF i = 0 THEN c ELSE More(f[i - 1], i)
  <2> DEFINE g == [i \in 0 .. n |-> IF i = 0 THEN c ELSE More(f[i - 1], i)]
  <2>1. \A i \in 0 .. n : g[i] = IF i = 0 THEN c ELSE More(f[i - 1], i)
    OBVIOUS
  <2>2. f = g
    <3> HIDE DEF Def
    <3> QED BY <1>4, <1>7
  <2> HIDE DEF g
  <2> QED BY <2>1, <2>2
<1> HIDE DEF Def
<1> DEFINE G == {i \in 0 .. n : Good(f[i], i)}
<1>9. 0 \in G
  BY <1>1, <1>2, <1>8
<1>10. ASSUME NEW i \in 0 .. n - 1, i \in G PROVE i + 1 \in G
  <2>1. i + 1 \in 1 .. n /\ i + 1 \in 0 .. n /\ (i + 1) - 1 = i /\ i + 1 # 0
    BY <1>1
  <2>2. f[i + 1] = More(f[i], i + 1)
    BY <1>8, <2>1
  <2> QED BY <1>3, <1>10, <2>1, <2>2
<1>11. 0 .. n \subseteq G
  <2> HIDE DEF G
  <2> QED BY <1>1, <1>9, <1>10, Induct
<1>12. Good(f[n], n)
  BY <1>1, <1>11
<1> QED BY <1>7, <1>12 DEF Good, n

\* What the table says of its cells.
LEMMA TableCells ==
  ASSUME NEW a \in Seq(Nat), NEW b \in Seq(Nat), NEW center, NEW band,
         NEW t, t = Table(a, b, center, band)
  PROVE  /\ \A i \in 0 .. Len(a) : t[i + 1] \in Row(Len(b))
         /\ t[1][0].cost = 0 /\ \A j \in 1 .. Len(b) : t[1][j] = Unreached
         /\ \A i \in 1 .. Len(a) :
              /\ t[i + 1][0] = Unreached
              /\ \A j \in 1 .. Len(b) :
                   t[i + 1][j] = CellOf(t[i], a, b, center, band, i, j, t[i + 1][j - 1])
<1>1. Rows(t, Len(a), a, b, center, band) /\ Len(a) \in Nat /\ Len(b) \in Nat
  BY TableIs, LenProperties
<1>2. ASSUME NEW i \in 0 .. Len(a) PROVE t[i + 1] \in Row(Len(b))
  <2>1. t \in Seq(Row(Len(b))) /\ i + 1 \in 1 .. Len(t)
    BY <1>1 DEF Rows
  <2> QED BY <2>1, ElementOfSeq
<1>3. t[1][0].cost = 0 /\ \A j \in 1 .. Len(b) : t[1][j] = Unreached
  BY <1>1, FirstRowIs DEF Rows
<1>4. ASSUME NEW i \in 1 .. Len(a)
      PROVE  /\ t[i + 1][0] = Unreached
             /\ \A j \in 1 .. Len(b) :
                  t[i + 1][j] = CellOf(t[i], a, b, center, band, i, j, t[i + 1][j - 1])
  <2>1. t[i + 1] = NextRow(t[i], a, b, center, band, i)
    BY <1>1 DEF Rows
  <2>2. i - 1 \in 0 .. Len(a) /\ (i - 1) + 1 = i
    BY <1>1
  <2>3. t[i] \in Row(Len(b))
    BY <1>2, <2>2
  <2> QED BY <2>1, <2>3, NextRowIs
<1> QED BY <1>2, <1>3, <1>4

LEMMA CellCost ==
  ASSUME NEW a \in Seq(Nat), NEW b \in Seq(Nat), NEW center, NEW band,
         NEW t, t = Table(a, b, center, band), NEW i \in 0 .. Len(a), NEW j \in 0 .. Len(b)
  PROVE  t[i + 1][j].cost \in Nat
<1>1. t[i + 1] \in Row(Len(b)) /\ Len(b) \in Nat
  BY TableCells, LenProperties
<1> QED BY <1>1, RowCells

LEMMA CheapestIs ==
  ASSUME NEW x \in Nat, NEW y \in Nat, NEW z \in Nat
  PROVE  /\ Cheapest(x, y, z).cost \in Nat
         /\ Cheapest(x, y, z).cost <= x /\ Cheapest(x, y, z).cost <= y
         /\ Cheapest(x, y, z).cost <= z
         /\ \/ Cheapest(x, y, z).step = "diag" /\ Cheapest(x, y, z).cost = x
            \/ Cheapest(x, y, z).step = "up" /\ Cheapest(x, y, z).cost = y
            \/ Cheapest(x, y, z).step = "left" /\ Cheapest(x, y, z).cost = z
BY DEF Cheapest

\* A cell of the band costs at most one step more than any cell before it.
LEMMA CheapStep ==
  ASSUME NEW a \in Seq(Nat), NEW b \in Seq(Nat), NEW center, NEW band,
         NEW t, t = Table(a, b, center, band),
         NEW i \in 1 .. Len(a), NEW j \in 1 .. Len(b), InBand(center, band, i, j),
         NEW c \in Nat, c < Infinity,
         \/ t[i][j - 1].cost <= c \/ t[i][j].cost <= c \/ t[i + 1][j - 1].cost <= c
  PROVE  t[i + 1][j].cost <= c + 200
<1> DEFINE best == Cheapest(t[i][j - 1].cost, t[i][j].cost, t[i + 1][j - 1].cost)
           d == PitchDistance(a[i], b[j])
<1>1. Len(a) \in Nat /\ Len(b) \in Nat
  BY LenProperties
<1>2. /\ i - 1 \in 0 .. Len(a) /\ (i - 1) + 1 = i /\ i \in 0 .. Len(a)
      /\ j - 1 \in 0 .. Len(b) /\ j \in 0 .. Len(b)
  BY <1>1
<1>3. t[i] \in Row(Len(b)) /\ t[i + 1] \in Row(Len(b))
  BY <1>2, TableCells
<1>4. t[i][j - 1].cost \in Nat /\ t[i][j].cost \in Nat /\ t[i + 1][j - 1].cost \in Nat
  BY <1>1, <1>2, <1>3, RowCells
<1>5. best.cost \in Nat /\ best.cost <= c
  <2> DEFINE x == t[i][j - 1].cost
             y == t[i][j].cost
             z == t[i + 1][j - 1].cost
  <2>1. best = Cheapest(x, y, z) /\ x \in Nat /\ y \in Nat /\ z \in Nat
        /\ (x <= c \/ y <= c \/ z <= c)
    BY <1>4
  <2> HIDE DEF best, x, y, z
  <2>2. best.cost \in Nat /\ best.cost <= x /\ best.cost <= y /\ best.cost <= z
    BY <2>1, CheapestIs
  <2> QED BY <2>1, <2>2
<1>6. d \in 0 .. 200
  BY FramesApart, Zenon
<1>7. t[i + 1][j] = Extended(best, d)
  BY TableCells DEF CellOf
<1> HIDE DEF best, d
<1>8. best.cost # Infinity
  BY <1>5, InfinityIsNat
<1>9. t[i + 1][j].cost = best.cost + d
  BY <1>7, <1>8 DEF Extended
<1>10. \A x \in Nat : x <= c => x + d <= c + 200
  BY <1>6
<1> QED BY <1>5, <1>9, <1>10

\* Where neither curve is much longer than the other the diagonal band reaches the corner.
LEMMA CellsAreEnough ==
  ASSUME NEW n \in Nat, NEW band \in Nat, (n + 1) * (2 * band + 1) <= MaxCells
  PROVE  \A c \in Nat : c <= n + band => 200 * c < Infinity
<1>1. n * band \in Nat
  OBVIOUS
<1>2. (n + 1) * (2 * band + 1) = 2 * (n * band) + n + 2 * band + 1
  OBVIOUS
<1>3. n + band <= MaxCells
  BY <1>1, <1>2, StrideAssumption
<1> QED BY <1>3, StrideAssumption DEF Infinity

LEMMA DiagonalReaches ==
  ASSUME NEW a \in Seq(Nat), NEW b \in Seq(Nat), NEW band \in Nat,
         Len(a) # 0, Len(b) # 0, Distance(Len(a), Len(b)) <= band,
         (Len(a) + 1) * (2 * band + 1) <= MaxCells,
         NEW t, t = Table(a, b, Diagonal(Len(a)), band)
  PROVE  t[Len(a) + 1][Len(b)].cost < Infinity
<1> DEFINE n == Len(a)
           m == Len(b)
           center == Diagonal(n)
           k(i) == IF i < m THEN i ELSE m
<1>1. n \in Nat /\ m \in Nat /\ n # 0 /\ m # 0
  BY LenProperties
<1>2. \A i \in 0 .. n : center[i] = i
  BY DEF Diagonal
<1>3. n - m <= band /\ m - n <= band
  BY <1>1 DEF Distance
<1>4. \A c \in Nat : c <= n + band => 200 * c < Infinity
  BY <1>1, CellsAreEnough
<1>5. ASSUME NEW i \in 1 .. n, NEW j \in 1 .. m, i - band <= j, j <= i + band,
             NEW c \in Nat, c <= n + band,
             t[i][j - 1].cost <= 200 * c \/ t[i][j].cost <= 200 * c \/ t[i + 1][j - 1].cost <= 200 * c
      PROVE  t[i + 1][j].cost <= 200 * (c + 1)
  <2>1. 200 * c \in Nat /\ 200 * c < Infinity /\ 200 * c + 200 = 200 * (c + 1)
    <3>1. 200 * c < Infinity
      BY <1>4, <1>5, Zenon
    <3> QED BY <3>1
  <2>2. InBand(center, band, i, j)
    <3>1. center[i] = i
      BY <1>2
    <3> HIDE DEF center
    <3> QED BY <1>5, <3>1 DEF InBand
  <2> DEFINE x == 200 * c
  <2>3. t[i + 1][j].cost <= x + 200
    <3>1. x \in Nat /\ x < Infinity
          /\ (t[i][j - 1].cost <= x \/ t[i][j].cost <= x \/ t[i + 1][j - 1].cost <= x)
      BY <1>5, <2>1
    <3> HIDE DEF x, center
    <3> QED BY <2>2, <3>1, CheapStep DEF center
  <2> QED BY <2>1, <2>3
<1> DEFINE G == {i \in 0 .. n : t[i + 1][k(i)].cost <= 200 * i}
<1> HIDE DEF n, m, center
<1>6. 0 \in G
  <2>1. t[1][0].cost = 0
    BY TableCells
  <2> QED BY <1>1, <2>1
<1>7. ASSUME NEW i \in 0 .. n - 1, i \in G PROVE i + 1 \in G
  <2> DEFINE j == k(i + 1)
  <2>1. /\ i \in Nat /\ i + 1 \in 1 .. n /\ j \in 1 .. m /\ i <= n + band
        /\ (i + 1) - band <= j /\ j <= (i + 1) + band
    BY <1>1, <1>3
  <2>2. j - 1 = k(i) \/ j = k(i)
    BY <1>1, <1>7
  <2>3. t[i + 1][j - 1].cost <= 200 * i \/ t[i + 1][j].cost <= 200 * i
    <3> HIDE DEF j, k
    <3> QED BY <1>7, <2>2
  <2> HIDE DEF j
  <2>4. t[(i + 1) + 1][j].cost <= 200 * (i + 1)
    BY <1>5, <2>1, <2>3
  <2> QED BY <2>1, <2>4 DEF j
<1>8. 0 .. n \subseteq G
  <2> HIDE DEF G
  <2> QED BY <1>1, <1>6, <1>7, Induct
<1>9. t[n + 1][k(n)].cost <= 200 * n
  BY <1>1, <1>8
<1>10. CASE n >= m
  <2>1. k(n) = m /\ 200 * n < Infinity
    BY <1>1, <1>4, <1>10
  <2>2. t[n + 1][m].cost \in Nat
    <3>1. n \in 0 .. n /\ m \in 0 .. m
      BY <1>1
    <3> QED BY <3>1, CellCost DEF n, m
  <2>3. t[n + 1][m].cost < Infinity
    <3> DEFINE x == t[n + 1][m].cost
               y == 200 * n
    <3>1. x \in Nat /\ y \in Nat /\ x <= y /\ y < Infinity
      BY <1>1, <1>9, <2>1, <2>2
    <3> HIDE DEF x, y
    <3> QED BY <3>1, InfinityIsNat DEF x
  <2> QED BY <2>3 DEF n, m
<1>11. CASE n < m
  <2> DEFINE H == {e \in 0 .. m - n : t[n + 1][n + e].cost <= 200 * (n + e)}
  <2>1. 0 \in H
    BY <1>1, <1>9, <1>11
  <2>2. ASSUME NEW e \in 0 .. (m - n) - 1, e \in H PROVE e + 1 \in H
    <3> DEFINE j == n + e + 1
    <3>1. /\ n \in 1 .. n /\ j \in 1 .. m /\ n + e \in Nat /\ n + e <= n + band
          /\ n - band <= j /\ j <= n + band /\ j - 1 = n + e
      BY <1>1, <1>3, <1>11
    <3>2. t[n + 1][j - 1].cost <= 200 * (n + e)
      BY <2>2, <3>1
    <3>3. t[n + 1][j].cost <= 200 * (n + e + 1)
      BY <1>5, <3>1, <3>2
    <3> QED BY <1>1, <1>11, <3>3
  <2>3. m - n \in Nat
    BY <1>1, <1>11
  <2>4. 0 .. m - n \subseteq H
    <3> HIDE DEF H
    <3> QED BY <2>1, <2>2, <2>3, Induct
  <2>5. m - n \in 0 .. m - n /\ n + (m - n) = m
    BY <1>1, <2>3
  <2>6. t[n + 1][m].cost <= 200 * m
    BY <2>4, <2>5
  <2>7. 200 * m < Infinity
    BY <1>1, <1>3, <1>4
  <2>8. t[n + 1][m].cost \in Nat
    <3>1. n \in 0 .. n /\ m \in 0 .. m
      BY <1>1
    <3> QED BY <3>1, CellCost DEF n, m
  <2> QED BY <1>1, <2>6, <2>7, <2>8, InfinityIsNat DEF n, m
<1> QED BY <1>1, <1>10, <1>11
-----------------------------------------------------------------------------
(***************************************************************************)
(* What an attempt aligns: how long its curves are.                        *)
(***************************************************************************)
CoarseLength(k) == (k + Stride - 1) \div Stride

\* Rounded up: as many coarse frames as cover the fine ones, no more.
LEMMA CoarseLengthIs ==
  ASSUME NEW k \in Nat
  PROVE  /\ CoarseLength(k) \in Nat
         /\ k <= CoarseLength(k) * Stride /\ CoarseLength(k) * Stride <= k + Stride - 1
         /\ k # 0 => CoarseLength(k) # 0
<1> DEFINE q == CoarseLength(k)
           r == (k + Stride - 1) % Stride
<1>1. k + Stride - 1 \in Nat /\ Stride \in Nat /\ Stride > 0
  BY StrideAssumption
<1>2. q \in Nat /\ r \in 0 .. Stride - 1 /\ k + Stride - 1 = q * Stride + r
  BY <1>1 DEF CoarseLength
<1> HIDE DEF q, r
<1>3. q * Stride \in Nat /\ (q = 0 => q * Stride = 0)
  BY <1>1, <1>2
<1> QED BY <1>1, <1>2, <1>3 DEF q

LEMMA CoarseLengthMonotone ==
  ASSUME NEW k \in Nat, NEW l \in Nat, k <= l
  PROVE  CoarseLength(k) <= CoarseLength(l)
<1> DEFINE p == CoarseLength(k)
           q == CoarseLength(l)
<1>1. /\ Stride \in Nat /\ Stride > 0
      /\ p \in Nat /\ q \in Nat /\ p * Stride <= k + Stride - 1 /\ l <= q * Stride
  BY CoarseLengthIs, StrideAssumption
<1> HIDE DEF p, q
<1>2. SUFFICES ASSUME p >= q + 1 PROVE FALSE
  BY <1>1 DEF p, q
<1>3. p * Stride >= (q + 1) * Stride
  BY <1>1, <1>2
<1>4. (q + 1) * Stride = q * Stride + Stride
  BY <1>1
<1>5. p * Stride \in Nat /\ q * Stride \in Nat
  BY <1>1
<1> QED BY <1>1, <1>3, <1>4, <1>5

LEMMA StridedIs ==
  ASSUME NEW s \in Seq(Nat)
  PROVE  /\ Strided(s) \in Seq(Nat) /\ Len(Strided(s)) = CoarseLength(Len(s))
         /\ \A k \in 1 .. CoarseLength(Len(s)) :
              (k - 1) * Stride + 1 \in 1 .. Len(s) /\ Strided(s)[k] = s[(k - 1) * Stride + 1]
<1> DEFINE q == CoarseLength(Len(s))
<1>1. Len(s) \in Nat
  BY LenProperties
<1>2. q \in Nat /\ q * Stride <= Len(s) + Stride - 1 /\ Stride \in Nat /\ Stride > 0
  BY <1>1, CoarseLengthIs, StrideAssumption
<1>3. Strided(s) = [k \in 1 .. q |-> s[(k - 1) * Stride + 1]]
  BY DEF Strided, CoarseLength
<1> HIDE DEF q
<1>4. ASSUME NEW k \in 1 .. q
      PROVE  (k - 1) * Stride + 1 \in 1 .. Len(s) /\ s[(k - 1) * Stride + 1] \in Nat
  <2>1. k - 1 \in Nat /\ k - 1 <= q - 1 /\ q - 1 \in Nat
    BY <1>2
  <2>2. (k - 1) * Stride <= (q - 1) * Stride /\ (k - 1) * Stride \in Nat
    BY <1>2, <2>1
  <2>3. (q - 1) * Stride = q * Stride - Stride /\ q * Stride \in Nat
    BY <1>2
  <2>4. (k - 1) * Stride + 1 \in 1 .. Len(s)
    BY <1>1, <1>2, <2>2, <2>3
  <2> HIDE DEF q
  <2> QED BY <2>4, ElementOfSeq
<1>5. Strided(s) \in Seq(Nat) /\ Len(Strided(s)) = q
  <2>1. \A k \in 1 .. q : s[(k - 1) * Stride + 1] \in Nat
    BY <1>4
  <2> QED BY <1>2, <1>3, <2>1
<1>6. \A k \in 1 .. q : Strided(s)[k] = s[(k - 1) * Stride + 1]
  BY <1>3
<1> QED BY <1>4, <1>5, <1>6 DEF q

LEMMA FrontIs ==
  ASSUME NEW s \in Seq(Nat), NEW k \in Nat
  PROVE  /\ Front1(s, k) \in Seq(Nat)
         /\ Len(Front1(s, k)) = IF k < Len(s) THEN k ELSE Len(s)
<1>1. Len(s) \in Nat
  BY LenProperties
<1> DEFINE e == IF k < Len(s) THEN k ELSE Len(s)
<1>3. e \in Nat /\ e <= Len(s) /\ Front1(s, k) = SubSeq(s, 1, e)
  BY <1>1 DEF Front1
<1> HIDE DEF e
<1>4. \A i \in 1 .. e : s[i] \in Nat
  <2> TAKE i \in 1 .. e
  <2>1. i \in 1 .. Len(s)
    BY <1>1, <1>3
  <2> QED BY <2>1, ElementOfSeq
<1>5. SubSeq(s, 1, e) \in Seq(Nat) /\ Len(SubSeq(s, 1, e)) = e
  BY <1>1, <1>3, <1>4, SubSeqProperties
<1> QED BY <1>3, <1>5 DEF e

LEMMA FromIs ==
  ASSUME NEW r \in Seq(Nat), NEW k \in 0 .. Len(r)
  PROVE  From(r, k) \in Seq(Nat) /\ Len(From(r, k)) = Len(r) - k
<1>1. Len(r) \in Nat
  BY LenProperties
<1> QED BY <1>1, SubSeqProperties DEF From

\* The lengths of what an attempt aligns; the crop keeps both curves' frames.
LEMMA OverlapIs ==
  ASSUME NEW u \in Seq(Nat), NEW r \in Seq(Nat), NEW o, o = Overlap(u, r)
  PROVE  /\ o.coarseUser \in Seq(Nat) /\ o.coarseReference \in Seq(Nat)
         /\ o.user \in Seq(Nat) /\ o.reference \in Seq(Nat)
         /\ LET p == CoarseLength(Len(u))
                q == CoarseLength(Len(r))
                keep == IF p < q THEN p ELSE q
            IN IF Distance(p, q) > CoarseBand
               THEN /\ Len(o.coarseUser) = keep /\ Len(o.coarseReference) = keep
                    /\ Len(o.user) = (IF keep * Stride < Len(u) THEN keep * Stride ELSE Len(u))
                    /\ Len(o.reference) = (IF keep * Stride < Len(r) THEN keep * Stride ELSE Len(r))
               ELSE /\ Len(o.coarseUser) = p /\ Len(o.coarseReference) = q
                    /\ Len(o.user) = Len(u) /\ Len(o.reference) = Len(r)
<1> DEFINE p == CoarseLength(Len(u))
           q == CoarseLength(Len(r))
           keep == IF p < q THEN p ELSE q
<1>1. Len(u) \in Nat /\ Len(r) \in Nat
  BY LenProperties
<1>2. p \in Nat /\ q \in Nat /\ keep \in Nat /\ keep <= p /\ keep <= q
  BY <1>1, CoarseLengthIs
<1>3. /\ Strided(u) \in Seq(Nat) /\ Len(Strided(u)) = p
      /\ Strided(r) \in Seq(Nat) /\ Len(Strided(r)) = q
  BY StridedIs
<1>4. Shorter(Strided(u), Strided(r)) = keep
  BY <1>3 DEF Shorter
<1>5. Mismatch(Strided(u), Strided(r)) <=> Distance(p, q) > CoarseBand
  BY <1>3 DEF Mismatch
<1>6. keep * Stride \in Nat
  BY <1>2, StrideAssumption
<1> HIDE DEF p, q, keep
<1>7. CASE Distance(p, q) > CoarseBand
  <2>1. /\ o.coarseUser = Front1(Strided(u), keep) /\ o.coarseReference = Front1(Strided(r), keep)
        /\ o.user = Front1(u, keep * Stride) /\ o.reference = Front1(r, keep * Stride)
    BY <1>4, <1>5, <1>7 DEF Overlap
  <2>2. /\ Front1(Strided(u), keep) \in Seq(Nat)
        /\ Len(Front1(Strided(u), keep)) = IF keep < p THEN keep ELSE p
    BY <1>2, <1>3, FrontIs
  <2>3. /\ Front1(Strided(r), keep) \in Seq(Nat)
        /\ Len(Front1(Strided(r), keep)) = IF keep < q THEN keep ELSE q
    BY <1>2, <1>3, FrontIs
  <2>4. /\ Front1(u, keep * Stride) \in Seq(Nat)
        /\ Len(Front1(u, keep * Stride)) = IF keep * Stride < Len(u) THEN keep * Stride ELSE Len(u)
    BY <1>6, FrontIs
  <2>5. /\ Front1(r, keep * Stride) \in Seq(Nat)
        /\ Len(Front1(r, keep * Stride)) = IF keep * Stride < Len(r) THEN keep * Stride ELSE Len(r)
    BY <1>6, FrontIs
  <2>6. Len(o.coarseUser) = keep /\ Len(o.coarseReference) = keep
    BY <1>2, <2>1, <2>2, <2>3
  <2> QED BY <1>7, <2>1, <2>2, <2>3, <2>4, <2>5, <2>6 DEF p, q, keep
<1>8. CASE ~(Distance(p, q) > CoarseBand)
  <2>1. /\ o.coarseUser = Strided(u) /\ o.coarseReference = Strided(r)
        /\ o.user = u /\ o.reference = r
    BY <1>5, <1>8 DEF Overlap
  <2> QED BY <1>3, <1>8, <2>1 DEF p, q
<1> QED BY <1>7, <1>8

\* The coarse pass fails on nothing but its size.
LEMMA CoarsePass ==
  ASSUME NEW u \in Seq(Nat), NEW r \in Seq(Nat), u # <<>>, r # <<>>,
         NEW o, o = Overlap(u, r)
  PROVE  /\ Len(o.coarseUser) # 0 /\ Len(o.coarseReference) # 0
         /\ Coarse(o).reason =
              IF (Len(o.coarseUser) + 1) * (2 * CoarseBand + 1) > MaxCells
              THEN "too_large" ELSE "aligned"
<1> DEFINE p == CoarseLength(Len(u))
           q == CoarseLength(Len(r))
           keep == IF p < q THEN p ELSE q
           n == Len(o.coarseUser)
           m == Len(o.coarseReference)
<1>1. Len(u) \in Nat /\ Len(u) # 0 /\ Len(r) \in Nat /\ Len(r) # 0
  BY LenProperties, EmptySeq
<1>2. p \in Nat /\ q \in Nat /\ p # 0 /\ q # 0
  BY <1>1, CoarseLengthIs
<1>3. IF Distance(p, q) > CoarseBand THEN n = keep /\ m = keep ELSE n = p /\ m = q
  BY OverlapIs
<1>4. o.coarseUser \in Seq(Nat) /\ o.coarseReference \in Seq(Nat)
  BY OverlapIs
<1> HIDE DEF p, q
<1>5. n \in Nat /\ n # 0 /\ m \in Nat /\ m # 0
  BY <1>2, <1>3
<1>6. Distance(n, m) <= CoarseBand
  BY <1>2, <1>3, <1>5, AlignAssumption DEF Distance
<1> DEFINE t == Table(o.coarseUser, o.coarseReference, Diagonal(n), CoarseBand)
<1>7. CASE (n + 1) * (2 * CoarseBand + 1) > MaxCells
  <2>1. Coarse(o) = NoPath("too_large")
    BY <1>5, <1>7 DEF Coarse, BandedDtw
  <2> QED BY <1>5, <1>7, <2>1 DEF NoPath
<1>8. CASE ~((n + 1) * (2 * CoarseBand + 1) > MaxCells)
  <2>1. (n + 1) * (2 * CoarseBand + 1) <= MaxCells
    <3>1. (n + 1) * (2 * CoarseBand + 1) \in Nat
      <4> HIDE DEF n
      <4>1. n + 1 \in Nat /\ 2 * CoarseBand + 1 \in Nat
        BY <1>5, AlignAssumption
      <4> QED BY <4>1
    <3> QED BY <1>8, <3>1, StrideAssumption
  <2>2. t[n + 1][m].cost < Infinity
    <3> HIDE DEF t
    <3> QED BY <1>4, <1>5, <1>6, <2>1, AlignAssumption, DiagonalReaches DEF t
  <2>3. InBand(Diagonal(n), CoarseBand, n, m)
    BY <1>5, <1>6, AlignAssumption DEF InBand, Diagonal, Distance
  <2>4. t[n + 1][m].cost # Infinity
    BY <2>2, InfinityIsNat
  <2>5. Coarse(o).reason = "aligned"
    BY <1>5, <1>8, <2>3, <2>4 DEF Coarse, BandedDtw
  <2> QED BY <1>5, <1>8, <2>5
<1> QED BY <1>7, <1>8

\* A shorter reference never makes more of the recording take part.
LEMMA LessTakesPart ==
  ASSUME NEW u \in Seq(Nat), NEW r \in Seq(Nat), NEW s \in Seq(Nat), Len(s) <= Len(r),
         NEW o, o = Overlap(u, r), NEW w, w = Overlap(u, s)
  PROVE  Len(w.coarseUser) <= Len(o.coarseUser) /\ Len(w.user) <= Len(o.user)
<1> DEFINE p == CoarseLength(Len(u))
           q == CoarseLength(Len(r))
           d == CoarseLength(Len(s))
           keepR == IF p < q THEN p ELSE q
           keepS == IF p < d THEN p ELSE d
           fine(keep) == IF keep * Stride < Len(u) THEN keep * Stride ELSE Len(u)
<1>1. Len(u) \in Nat /\ Len(r) \in Nat /\ Len(s) \in Nat
  BY LenProperties
<1>2. p \in Nat /\ q \in Nat /\ d \in Nat /\ d <= q /\ Len(u) <= p * Stride
  BY <1>1, CoarseLengthIs, CoarseLengthMonotone
<1>3. IF Distance(p, q) > CoarseBand
      THEN Len(o.coarseUser) = keepR /\ Len(o.user) = fine(keepR)
      ELSE Len(o.coarseUser) = p /\ Len(o.user) = Len(u)
  BY OverlapIs
<1>4. IF Distance(p, d) > CoarseBand
      THEN Len(w.coarseUser) = keepS /\ Len(w.user) = fine(keepS)
      ELSE Len(w.coarseUser) = p /\ Len(w.user) = Len(u)
  BY OverlapIs
<1> HIDE DEF p, q, d
<1>5. keepS <= keepR /\ keepR <= p /\ keepS \in Nat /\ keepR \in Nat
  BY <1>2
<1>6. \A i \in Nat : i * Stride \in Nat
  BY StrideAssumption
<1>7. \A i \in Nat : fine(i) <= Len(u) /\ fine(i) \in Nat
  BY <1>1, <1>6
<1>8. fine(p) = Len(u)
  <2>1. p * Stride \in Nat
    BY <1>2, <1>6
  <2> QED BY <1>1, <1>2, <2>1
<1>9. CASE ~(Distance(p, q) > CoarseBand)
  <2>1. fine(keepS) <= Len(u)
    <3> HIDE DEF keepS, keepR, fine
    <3> QED BY <1>5, <1>7
  <2> HIDE DEF keepS, keepR, fine
  <2>2. Len(o.coarseUser) = p /\ Len(o.user) = Len(u)
    BY <1>3, <1>9
  <2>3. Len(w.coarseUser) <= p /\ Len(w.user) <= Len(u)
    BY <1>1, <1>2, <1>4, <1>5, <2>1
  <2> QED BY <2>2, <2>3
<1>10. CASE Distance(p, q) > CoarseBand /\ Distance(p, d) > CoarseBand
  <2>1. keepS * Stride <= keepR * Stride
    <3> HIDE DEF keepS, keepR
    <3> QED BY <1>5, StrideAssumption
  <2>2. keepS * Stride \in Nat /\ keepR * Stride \in Nat
    <3> HIDE DEF keepS, keepR
    <3> QED BY <1>5, <1>6
  <2>3. fine(keepS) <= fine(keepR)
    <3> HIDE DEF keepS, keepR
    <3> QED BY <1>1, <2>1, <2>2
  <2> HIDE DEF keepS, keepR, fine
  <2> QED BY <1>3, <1>4, <1>5, <1>10, <2>3
<1>11. CASE Distance(p, q) > CoarseBand /\ ~(Distance(p, d) > CoarseBand)
  <2>1. keepR = p
    BY <1>2, <1>11, AlignAssumption DEF Distance
  <2> HIDE DEF keepS, keepR, fine
  <2> QED BY <1>1, <1>2, <1>3, <1>4, <1>8, <1>11, <2>1
<1> QED BY <1>9, <1>10, <1>11

\* What is too large is so by the length of the recording that takes part.
LEMMA FinePassTooLarge ==
  ASSUME NEW u \in Seq(Nat), NEW r \in Seq(Nat), u # <<>>, r # <<>>,
         NEW o, o = Overlap(u, r), NEW center
  PROVE  /\ Len(o.user) # 0 /\ Len(o.reference) # 0
         /\ BandedDtw(o.user, o.reference, center, RefineBand).reason = "too_large" <=>
              (Len(o.user) + 1) * (2 * RefineBand + 1) > MaxCells
<1> DEFINE p == CoarseLength(Len(u))
           q == CoarseLength(Len(r))
           keep == IF p < q THEN p ELSE q
<1>1. Len(u) \in Nat /\ Len(u) # 0 /\ Len(r) \in Nat /\ Len(r) # 0
  BY LenProperties, EmptySeq
<1>2. p \in Nat /\ q \in Nat /\ p # 0 /\ q # 0
  BY <1>1, CoarseLengthIs
<1>3. IF Distance(p, q) > CoarseBand
      THEN /\ Len(o.user) = (IF keep * Stride < Len(u) THEN keep * Stride ELSE Len(u))
           /\ Len(o.reference) = (IF keep * Stride < Len(r) THEN keep * Stride ELSE Len(r))
      ELSE Len(o.user) = Len(u) /\ Len(o.reference) = Len(r)
  BY OverlapIs
<1> HIDE DEF p, q
<1>4. keep \in Nat /\ keep # 0
  BY <1>2
<1> HIDE DEF keep
<1>5. keep * Stride \in Nat /\ keep * Stride # 0
  <2>1. keep >= 1 /\ Stride >= 1
    BY <1>4, StrideAssumption
  <2>2. keep * Stride >= 1 * 1
    BY <1>4, <2>1, StrideAssumption
  <2> QED BY <1>4, <2>2, StrideAssumption
<1>6. Len(o.user) # 0 /\ Len(o.reference) # 0
  BY <1>1, <1>3, <1>5
<1>7. BandedDtw(o.user, o.reference, center, RefineBand).reason = "too_large" <=>
        (Len(o.user) + 1) * (2 * RefineBand + 1) > MaxCells
  BY <1>6 DEF BandedDtw, NoPath
<1> QED BY <1>6, <1>7

\* A pass returns a record, of which an attempt that fails keeps the reason.
LEMMA AttemptReason ==
  ASSUME NEW u, NEW r, NEW k, NEW o, o = Overlap(u, From(r, k))
  PROVE  Attempt(u, r, k).reason =
           IF Coarse(o).reason # "aligned" THEN Coarse(o).reason
           ELSE BandedDtw(o.user, o.reference, Center(o, Coarse(o)), RefineBand).reason
<1> DEFINE c == Coarse(o)
<1>1. \E why, path, cost : c = [reason |-> why, path |-> path, cost |-> cost]
  BY DEF Coarse, BandedDtw, NoPath
<1>2. PICK why, path, cost : c = [reason |-> why, path |-> path, cost |-> cost]
  BY <1>1
<1>3. Attempt(u, r, k) =
        IF c.reason # "aligned" THEN [c EXCEPT !.path = <<>>]
        ELSE BandedDtw(o.user, o.reference, Center(o, c), RefineBand)
  BY DEF Attempt
<1> HIDE DEF c
<1>4. [c EXCEPT !.path = <<>>].reason = c.reason
  BY <1>2
<1> QED BY <1>3, <1>4 DEF c

\* A limit on the size that lets the direct attempt pass lets every later start pass.
LEMMA LaterStartsAreSmaller ==
  ASSUME NEW u \in Seq(Nat), NEW r \in Seq(Nat), u # <<>>, NEW k \in 0 .. Len(r) - 1,
         Attempt(u, r, 0).reason # "too_large"
  PROVE  Attempt(u, r, k).reason # "too_large"
<1> DEFINE o == Overlap(u, From(r, 0))
           w == Overlap(u, From(r, k))
           Cells(n, band) == (n + 1) * (2 * band + 1)
           fineO == BandedDtw(o.user, o.reference, Center(o, Coarse(o)), RefineBand)
           fineW == BandedDtw(w.user, w.reference, Center(w, Coarse(w)), RefineBand)
<1>1. Len(r) \in Nat /\ 0 \in 0 .. Len(r) /\ k \in 0 .. Len(r) /\ k \in Nat /\ k < Len(r)
  BY LenProperties
<1>2. /\ From(r, 0) \in Seq(Nat) /\ Len(From(r, 0)) = Len(r)
      /\ From(r, k) \in Seq(Nat) /\ Len(From(r, k)) = Len(r) - k
  BY <1>1, FromIs
<1>3. /\ From(r, 0) # <<>> /\ From(r, k) # <<>>
      /\ Len(From(r, k)) <= Len(From(r, 0))
  BY <1>1, <1>2, EmptySeq
<1>4. /\ o.coarseUser \in Seq(Nat) /\ o.user \in Seq(Nat)
      /\ w.coarseUser \in Seq(Nat) /\ w.user \in Seq(Nat)
  BY <1>2, OverlapIs
<1>5. Len(w.coarseUser) <= Len(o.coarseUser) /\ Len(w.user) <= Len(o.user)
  BY <1>2, <1>3, LessTakesPart
<1>6. /\ Len(w.coarseUser) \in Nat /\ Len(o.coarseUser) \in Nat
      /\ Len(w.user) \in Nat /\ Len(o.user) \in Nat
  BY <1>4, LenProperties
<1>7. /\ Coarse(o).reason = IF Cells(Len(o.coarseUser), CoarseBand) > MaxCells
                            THEN "too_large" ELSE "aligned"
      /\ Coarse(w).reason = IF Cells(Len(w.coarseUser), CoarseBand) > MaxCells
                            THEN "too_large" ELSE "aligned"
  BY <1>2, <1>3, CoarsePass
<1>8. /\ fineO.reason = "too_large" <=> Cells(Len(o.user), RefineBand) > MaxCells
      /\ fineW.reason = "too_large" <=> Cells(Len(w.user), RefineBand) > MaxCells
  BY <1>2, <1>3, FinePassTooLarge
<1>9. \A n, l, band \in Nat : n <= l => /\ Cells(n, band) <= Cells(l, band)
                                       /\ Cells(n, band) \in Nat /\ Cells(l, band) \in Nat
  <2> TAKE n, l, band \in Nat
  <2> HAVE n <= l
  <2>1. n + 1 \in Nat /\ l + 1 \in Nat /\ n + 1 <= l + 1 /\ 2 * band + 1 \in Nat
    OBVIOUS
  <2>2. \A x, y, z \in Nat : x <= y => x * z <= y * z /\ x * z \in Nat /\ y * z \in Nat
    OBVIOUS
  <2> QED BY <2>1, <2>2
<1>10. /\ Attempt(u, r, 0).reason =
            IF Coarse(o).reason # "aligned" THEN Coarse(o).reason ELSE fineO.reason
       /\ Attempt(u, r, k).reason =
            IF Coarse(w).reason # "aligned" THEN Coarse(w).reason ELSE fineW.reason
  BY AttemptReason
<1> HIDE DEF o, w, fineO, fineW, Cells
<1>11. /\ Cells(Len(w.coarseUser), CoarseBand) <= Cells(Len(o.coarseUser), CoarseBand)
       /\ Cells(Len(w.coarseUser), CoarseBand) \in Nat
       /\ Cells(Len(o.coarseUser), CoarseBand) \in Nat
       /\ Cells(Len(w.user), RefineBand) <= Cells(Len(o.user), RefineBand)
       /\ Cells(Len(w.user), RefineBand) \in Nat
       /\ Cells(Len(o.user), RefineBand) \in Nat
  BY <1>5, <1>6, <1>9, AlignAssumption
<1>12. /\ ~(Cells(Len(o.coarseUser), CoarseBand) > MaxCells)
       /\ ~(Cells(Len(o.user), RefineBand) > MaxCells)
  BY <1>7, <1>8, <1>10
<1>13. /\ ~(Cells(Len(w.coarseUser), CoarseBand) > MaxCells)
       /\ ~(Cells(Len(w.user), RefineBand) > MaxCells)
  BY <1>11, <1>12, StrideAssumption
<1> QED BY <1>7, <1>8, <1>10, <1>13
-----------------------------------------------------------------------------
(***************************************************************************)
(* Tables of two indices, a cell made of the three before it: induction    *)
(* and recursion row by row.                                               *)
(***************************************************************************)
Grid(n, m) == (0 .. n) \X (0 .. m)

LEMMA GridInduct ==
  ASSUME NEW n \in Nat, NEW m \in Nat, NEW G,
         \A i \in 0 .. n, j \in 0 .. m : i = 0 \/ j = 0 => <<i, j>> \in G,
         \A i \in 1 .. n, j \in 1 .. m :
           <<i - 1, j - 1>> \in G /\ <<i - 1, j>> \in G /\ <<i, j - 1>> \in G => <<i, j>> \in G
  PROVE  \A i \in 0 .. n, j \in 0 .. m : <<i, j>> \in G
<1> DEFINE R == {i \in 0 .. n : \A j \in 0 .. m : <<i, j>> \in G}
<1>1. 0 \in R
  OBVIOUS
<1>2. ASSUME NEW i \in 0 .. n - 1, i \in R PROVE i + 1 \in R
  <2> DEFINE H == {j \in 0 .. m : <<i + 1, j>> \in G}
  <2>1. i + 1 \in 1 .. n /\ (i + 1) - 1 = i /\ i + 1 \in 0 .. n
    OBVIOUS
  <2>2. 0 \in H
    BY <2>1
  <2>3. ASSUME NEW j \in 0 .. m - 1, j \in H PROVE j + 1 \in H
    <3>1. j + 1 \in 1 .. m /\ (j + 1) - 1 = j /\ j \in 0 .. m /\ j + 1 \in 0 .. m
      OBVIOUS
    <3>2. <<i, j>> \in G /\ <<i, j + 1>> \in G /\ <<i + 1, j>> \in G
      BY <1>2, <2>3, <3>1
    <3> QED BY <2>1, <3>1, <3>2
  <2>4. 0 .. m \subseteq H
    <3> HIDE DEF H
    <3> QED BY <2>2, <2>3, Induct
  <2> QED BY <2>1, <2>4
<1>3. 0 .. n \subseteq R
  <2> HIDE DEF R
  <2> QED BY <1>1, <1>2, Induct
<1> QED BY <1>3

\* What f has at a cell is made by step of what it has at the three before it.
GridComputes(f, n, m, base, step) ==
  \A i \in 0 .. n, j \in 0 .. m :
    f[<<i, j>>] = IF i = 0 \/ j = 0 THEN base[<<i, j>>]
                  ELSE step[<<i, j>>][<<f[<<i - 1, j - 1>>], f[<<i - 1, j>>], f[<<i, j - 1>>]>>]

RowComputes(row, m, c, prev, step) ==
  /\ row[0] = c
  /\ \A j \in 1 .. m : row[j] = step[j][<<prev[j - 1], prev[j], row[j - 1]>>]

LEMMA RowRecursion ==
  ASSUME NEW m \in Nat, NEW S, NEW c \in S, NEW prev \in [0 .. m -> S],
         NEW step \in [1 .. m -> [S \X S \X S -> S]]
  PROVE  \E row \in [0 .. m -> S] : RowComputes(row, m, c, prev, step)
<1> DEFINE one == [j \in 1 .. m |-> [s \in S |-> step[j][<<prev[j - 1], prev[j], s>>]]]
<1>1. ASSUME NEW j \in 1 .. m, NEW s \in S PROVE step[j][<<prev[j - 1], prev[j], s>>] \in S
  <2>1. j - 1 \in 0 .. m /\ j \in 0 .. m
    OBVIOUS
  <2>2. <<prev[j - 1], prev[j], s>> \in S \X S \X S /\ step[j] \in [S \X S \X S -> S]
    BY <2>1
  <2> QED BY <2>2
<1>2. one \in [1 .. m -> [S -> S]]
  BY <1>1
<1>3. \A j \in 1 .. m : \A s \in S : one[j][s] = step[j][<<prev[j - 1], prev[j], s>>]
  OBVIOUS
<1> HIDE DEF one
<1>4. PICK row \in [0 .. m -> S] : Computes(row, m, c, one)
  BY <1>2, Recursion
<1>5. ASSUME NEW j \in 1 .. m PROVE row[j] = step[j][<<prev[j - 1], prev[j], row[j - 1]>>]
  <2>1. j - 1 \in 0 .. m
    OBVIOUS
  <2>2. row[j - 1] \in S
    BY <2>1
  <2> QED BY <1>3, <1>4, <2>2 DEF Computes
<1> QED BY <1>4, <1>5 DEF Computes, RowComputes

LEMMA GridRecursion ==
  ASSUME NEW n \in Nat, NEW m \in Nat, NEW S, NEW base \in [Grid(n, m) -> S],
         NEW step \in [Grid(n, m) -> [S \X S \X S -> S]]
  PROVE  \E f \in [Grid(n, m) -> S] : GridComputes(f, n, m, base, step)
<1> DEFINE RowSet == [0 .. m -> S]
           first == [j \in 0 .. m |-> base[<<0, j>>]]
           Follows(row, prev, i) ==
             /\ row[0] = base[<<i, 0>>]
             /\ \A j \in 1 .. m : row[j] = step[<<i, j>>][<<prev[j - 1], prev[j], row[j - 1]>>]
           next == [i \in 1 .. n |-> [prev \in RowSet |-> CHOOSE row \in RowSet : Follows(row, prev, i)]]
<1>1. first \in RowSet
  BY DEF Grid
<1>2. ASSUME NEW i \in 1 .. n, NEW prev \in RowSet PROVE \E row \in RowSet : Follows(row, prev, i)
  <2> DEFINE g == [j \in 1 .. m |-> step[<<i, j>>]]
             c == base[<<i, 0>>]
  <2>1. i \in 0 .. n /\ 0 \in 0 .. m /\ 1 .. m \subseteq 0 .. m
    OBVIOUS
  <2>2. g \in [1 .. m -> [S \X S \X S -> S]] /\ c \in S
    BY <2>1 DEF Grid
  <2>3. \A j \in 1 .. m : g[j] = step[<<i, j>>]
    OBVIOUS
  <2> HIDE DEF g, c
  <2>4. PICK row \in [0 .. m -> S] : RowComputes(row, m, c, prev, g)
    <3>1. prev \in [0 .. m -> S]
      OBVIOUS
    <3> HIDE DEF RowSet, first, Follows, next
    <3> QED BY <2>2, <3>1, Zenon, RowRecursion
  <2> QED BY <2>3, <2>4 DEF c, RowComputes
<1> HIDE DEF Follows, RowSet
<1>3. \A i \in 1 .. n : \A prev \in RowSet :
        next[i][prev] \in RowSet /\ Follows(next[i][prev], prev, i)
  BY <1>2
<1>4. next \in [1 .. n -> [RowSet -> RowSet]]
  BY <1>2
<1> HIDE DEF next
<1>5. PICK rows \in [0 .. n -> RowSet] : Computes(rows, n, first, next)
  <2> HIDE DEF first
  <2> QED BY <1>1, <1>4, Recursion
<1>6. ASSUME NEW i \in 1 .. n PROVE Follows(rows[i], rows[i - 1], i)
  <2>1. i - 1 \in 0 .. n
    OBVIOUS
  <2>2. rows[i - 1] \in RowSet /\ rows[i] = next[i][rows[i - 1]]
    BY <1>5, <2>1 DEF Computes
  <2> QED BY <1>3, <2>2
<1> DEFINE f == [c \in Grid(n, m) |-> rows[c[1]][c[2]]]
<1>7. \A i \in 0 .. n, j \in 0 .. m : f[<<i, j>>] = rows[i][j]
  BY DEF Grid
<1>8. f \in [Grid(n, m) -> S]
  BY DEF Grid, RowSet
<1> HIDE DEF f
<1>9. ASSUME NEW i \in 0 .. n, NEW j \in 0 .. m
      PROVE  f[<<i, j>>] =
               IF i = 0 \/ j = 0 THEN base[<<i, j>>]
               ELSE step[<<i, j>>][<<f[<<i - 1, j - 1>>], f[<<i - 1, j>>], f[<<i, j - 1>>]>>]
  <2>1. CASE i = 0
    BY <1>5, <1>7, <2>1 DEF Computes
  <2>2. CASE i # 0 /\ j = 0
    <3>1. i \in 1 .. n
      BY <2>2
    <3> QED BY <1>6, <1>7, <2>2, <3>1 DEF Follows
  <2>3. CASE i # 0 /\ j # 0
    <3>1. i \in 1 .. n /\ j \in 1 .. m /\ i - 1 \in 0 .. n /\ j - 1 \in 0 .. m
      BY <2>3
    <3>2. rows[i][j] = step[<<i, j>>][<<rows[i - 1][j - 1], rows[i - 1][j], rows[i][j - 1]>>]
      BY <1>6, <3>1 DEF Follows
    <3> QED BY <1>7, <2>3, <3>1, <3>2
  <2> QED BY <2>1, <2>2, <2>3
<1> QED BY <1>8, <1>9 DEF GridComputes
-----------------------------------------------------------------------------
(***************************************************************************)
(* The warping paths of a band and the back track through a table: each is *)
(* the table its definition says.                                          *)
(***************************************************************************)
Paths(n, m) == Seq((0 .. n - 1) \X (0 .. m - 1))

LEMMA OneMorePair ==
  ASSUME NEW n \in Nat, NEW m \in Nat, NEW i \in 1 .. n, NEW j \in 1 .. m, NEW p \in Paths(n, m)
  PROVE  Append(p, <<i - 1, j - 1>>) \in Paths(n, m)
<1>1. <<i - 1, j - 1>> \in (0 .. n - 1) \X (0 .. m - 1)
  OBVIOUS
<1> QED BY <1>1, AppendProperties DEF Paths

WarpingsTo(to, n, m, center, band) ==
  \A i \in 0 .. n, j \in 0 .. m :
    /\ to[<<i, j>>] \in SUBSET Paths(n, m)
    /\ to[<<i, j>>] = IF i = 0 /\ j = 0 THEN {<<>>}
                      ELSE IF i = 0 \/ j = 0 \/ ~InBand(center, band, i, j) THEN {}
                      ELSE {Append(p, <<i - 1, j - 1>>) :
                              p \in to[<<i - 1, j - 1>>] \cup to[<<i - 1, j>>] \cup to[<<i, j - 1>>]}

LEMMA WarpingsAre ==
  ASSUME NEW n \in Nat, NEW m \in Nat, NEW center, NEW band
  PROVE  \E to : WarpingsTo(to, n, m, center, band) /\ Warpings(n, m, center, band) = to[<<n, m>>]
<1> DEFINE S == SUBSET Paths(n, m)
           Def(to) == [c \in (0 .. n) \X (0 .. m) |->
                         LET i == c[1]
                             j == c[2]
                         IN IF i = 0 /\ j = 0 THEN {<<>>}
                            ELSE IF i = 0 \/ j = 0 \/ ~InBand(center, band, i, j) THEN {}
                            ELSE {Append(p, <<i - 1, j - 1>>) :
                                    p \in to[<<i - 1, j - 1>>] \cup to[<<i - 1, j>>] \cup to[<<i, j - 1>>]}]
           More(T, i, j) == {Append(p, <<i - 1, j - 1>>) : p \in T}
           Here(i, j, T) == IF i = 0 /\ j = 0 THEN {<<>>}
                            ELSE IF i = 0 \/ j = 0 \/ ~InBand(center, band, i, j) THEN {}
                            ELSE More(T, i, j)
           Of(f, i, j) == Here(i, j, f[<<i - 1, j - 1>>] \cup f[<<i - 1, j>>] \cup f[<<i, j - 1>>])
<1>1. ASSUME NEW i \in 0 .. n, NEW j \in 0 .. m, NEW T \in S PROVE Here(i, j, T) \in S
  <2>1. CASE i = 0 \/ j = 0 \/ ~InBand(center, band, i, j)
    BY <2>1 DEF Paths
  <2>2. CASE i # 0 /\ j # 0 /\ InBand(center, band, i, j)
    <3>1. i \in 1 .. n /\ j \in 1 .. m
      BY <2>2
    <3>2. \A p \in T : Append(p, <<i - 1, j - 1>>) \in Paths(n, m)
      BY <3>1, OneMorePair
    <3> QED BY <2>2, <3>2
  <2> QED BY <2>1, <2>2
<1>2. \A f : Def(f) = [c \in Grid(n, m) |-> Of(f, c[1], c[2])]
  BY DEF Grid
<1>3. \A i \in 0 .. n, j \in 0 .. m : i = 0 \/ j = 0 => \A T, U : Here(i, j, T) = Here(i, j, U)
  OBVIOUS
<1> HIDE DEF S, Def, Here, More
<1>4. \E f : f = Def(f)
  <2> DEFINE base == [c \in Grid(n, m) |-> Here(c[1], c[2], {})]
             step == [c \in Grid(n, m) |->
                        [t \in S \X S \X S |-> Here(c[1], c[2], t[1] \cup t[2] \cup t[3])]]
  <2>1. {} \in S /\ \A t \in S \X S \X S : t[1] \cup t[2] \cup t[3] \in S
    BY DEF S
  <2>2. \A c \in Grid(n, m) : c[1] \in 0 .. n /\ c[2] \in 0 .. m /\ c = <<c[1], c[2]>>
    BY DEF Grid
  <2>3. base \in [Grid(n, m) -> S] /\ step \in [Grid(n, m) -> [S \X S \X S -> S]]
    BY <1>1, <2>1, <2>2
  <2>4. \A i \in 0 .. n, j \in 0 .. m :
          /\ <<i, j>> \in Grid(n, m)
          /\ base[<<i, j>>] = Here(i, j, {})
          /\ \A x, y, z \in S : step[<<i, j>>][<<x, y, z>>] = Here(i, j, x \cup y \cup z)
    BY DEF Grid
  <2> HIDE DEF base, step
  <2>5. PICK f \in [Grid(n, m) -> S] : GridComputes(f, n, m, base, step)
    BY <2>3, GridRecursion
  <2>6. ASSUME NEW i \in 0 .. n, NEW j \in 0 .. m PROVE f[<<i, j>>] = Of(f, i, j)
    <3>1. CASE i = 0 \/ j = 0
      <4> DEFINE T == f[<<i - 1, j - 1>>] \cup f[<<i - 1, j>>] \cup f[<<i, j - 1>>]
      <4>1. f[<<i, j>>] = Here(i, j, {})
        BY <2>4, <2>5, <3>1 DEF GridComputes
      <4>2. Here(i, j, {}) = Here(i, j, T)
        <5> HIDE DEF T
        <5> QED BY <1>3, <3>1
      <4> QED BY <4>1, <4>2
    <3>2. CASE i # 0 /\ j # 0
      <4>1. i - 1 \in 0 .. n /\ j - 1 \in 0 .. m
        BY <3>2
      <4>2. f[<<i - 1, j - 1>>] \in S /\ f[<<i - 1, j>>] \in S /\ f[<<i, j - 1>>] \in S
        BY <2>4, <4>1
      <4> DEFINE x == f[<<i - 1, j - 1>>]
                 y == f[<<i - 1, j>>]
                 z == f[<<i, j - 1>>]
      <4>3. f[<<i, j>>] = step[<<i, j>>][<<x, y, z>>]
        BY <2>5, <3>2 DEF GridComputes
      <4>4. step[<<i, j>>][<<x, y, z>>] = Here(i, j, x \cup y \cup z)
        <5>1. x \in S /\ y \in S /\ z \in S
          BY <4>2
        <5> HIDE DEF x, y, z
        <5> QED BY <2>4, <5>1
      <4> QED BY <4>3, <4>4
    <3> QED BY <3>1, <3>2
  <2>7. \A c \in Grid(n, m) : f[c] = Of(f, c[1], c[2])
    BY <2>2, <2>6
  <2>8. f = [c \in Grid(n, m) |-> Of(f, c[1], c[2])]
    <3> HIDE DEF Of
    <3> QED BY <2>7
  <2> QED BY <1>2, <2>8
<1>5. PICK to : to = Def(to) /\ Warpings(n, m, center, band) = to[<<n, m>>]
  <2> DEFINE all == CHOOSE to : to = Def(to)
  <2>1. all = Def(all)
    BY <1>4, Zenon
  <2>2. Warpings(n, m, center, band) = all[<<n, m>>]
    BY Zenon DEF Warpings, Def
  <2> QED BY <2>1, <2>2
<1>6. ASSUME NEW i \in 0 .. n, NEW j \in 0 .. m PROVE to[<<i, j>>] = Of(to, i, j)
  <2> DEFINE g == [c \in Grid(n, m) |-> Of(to, c[1], c[2])]
  <2>1. g[<<i, j>>] = Of(to, i, j)
    <3> HIDE DEF Of
    <3> QED BY DEF Grid
  <2>2. to = g
    BY <1>2, <1>5
  <2> HIDE DEF g, Of
  <2> QED BY <2>1, <2>2
<1> DEFINE G == {c \in Grid(n, m) : to[c] \in S}
<1>7. \A i \in 0 .. n, j \in 0 .. m : <<i, j>> \in G
  <2>0. \A i \in 0 .. n, j \in 0 .. m : <<i, j>> \in Grid(n, m)
    BY DEF Grid
  <2>1. \A i \in 0 .. n, j \in 0 .. m : i = 0 \/ j = 0 => <<i, j>> \in G
    <3> SUFFICES ASSUME NEW i \in 0 .. n, NEW j \in 0 .. m, i = 0 \/ j = 0 PROVE to[<<i, j>>] \in S
      BY <2>0
    <3>1. {} \in S
      BY DEF S
    <3> DEFINE T == to[<<i - 1, j - 1>>] \cup to[<<i - 1, j>>] \cup to[<<i, j - 1>>]
    <3>2. to[<<i, j>>] = Here(i, j, T)
      BY <1>6
    <3>3. Here(i, j, T) = Here(i, j, {}) /\ Here(i, j, {}) \in S
      <4> HIDE DEF T
      <4> QED BY <1>1, <1>3, <3>1
    <3> QED BY <3>2, <3>3
  <2>2. ASSUME NEW i \in 1 .. n, NEW j \in 1 .. m,
               <<i - 1, j - 1>> \in G, <<i - 1, j>> \in G, <<i, j - 1>> \in G
        PROVE  <<i, j>> \in G
    <3>1. to[<<i - 1, j - 1>>] \cup to[<<i - 1, j>>] \cup to[<<i, j - 1>>] \in S
      BY <2>2 DEF S
    <3> QED BY <1>1, <1>6, <2>0, <3>1
  <2> HIDE DEF G
  <2> QED BY <2>1, <2>2, GridInduct
<1>8. WarpingsTo(to, n, m, center, band)
  BY <1>6, <1>7 DEF WarpingsTo, S, Here, More
<1> QED BY <1>5, <1>8

\* The way back from a cell, the pair of the cell last.
WayBack(path, table, n, m) ==
  \A i \in 0 .. n, j \in 0 .. m :
    /\ path[<<i, j>>] \in Paths(n, m)
    /\ path[<<i, j>>] =
         IF i = 0 \/ j = 0 THEN <<>>
         ELSE Append(CASE table[i + 1][j].step = "diag" -> path[<<i - 1, j - 1>>]
                       [] table[i + 1][j].step = "up"   -> path[<<i - 1, j>>]
                       [] OTHER                         -> path[<<i, j - 1>>],
                     <<i - 1, j - 1>>)

LEMMA BacktrackIs ==
  ASSUME NEW n \in Nat, NEW m \in Nat, NEW table
  PROVE  \E path : WayBack(path, table, n, m) /\ Backtrack(table, n, m) = path[<<n, m>>]
<1> DEFINE S == Paths(n, m)
           Def(path) == [c \in (0 .. n) \X (0 .. m) |->
                           LET i == c[1]
                               j == c[2]
                           IN IF i = 0 \/ j = 0 THEN <<>>
                              ELSE Append(CASE table[i + 1][j].step = "diag" -> path[<<i - 1, j - 1>>]
                                            [] table[i + 1][j].step = "up"   -> path[<<i - 1, j>>]
                                            [] OTHER                         -> path[<<i, j - 1>>],
                                          <<i - 1, j - 1>>)]
           Then(i, j, p) == IF i = 0 \/ j = 0 THEN <<>> ELSE Append(p, <<i - 1, j - 1>>)
           Came(i, j, x, y, z) == CASE table[i + 1][j].step = "diag" -> x
                                    [] table[i + 1][j].step = "up"   -> y
                                    [] OTHER                         -> z
           Here(i, j, x, y, z) == Then(i, j, Came(i, j, x, y, z))
           Of(f, i, j) == Here(i, j, f[<<i - 1, j - 1>>], f[<<i - 1, j>>], f[<<i, j - 1>>])
<1>1. ASSUME NEW i \in 0 .. n, NEW j \in 0 .. m, i = 0 \/ j = 0
      PROVE  <<>> \in S /\ \A x, y, z : Here(i, j, x, y, z) = <<>>
  BY <1>1 DEF Paths
<1>2. ASSUME NEW i \in 0 .. n, NEW j \in 0 .. m, NEW x \in S, NEW y \in S, NEW z \in S
      PROVE  Here(i, j, x, y, z) \in S
  <2>1. CASE i = 0 \/ j = 0
    <3> HIDE DEF S, Here
    <3> QED BY <1>1, <2>1
  <2>2. CASE i # 0 /\ j # 0
    <3>1. i \in 1 .. n /\ j \in 1 .. m
      BY <2>2
    <3>2. Came(i, j, x, y, z) \in S
      <4> HIDE DEF S
      <4> QED OBVIOUS
    <3> HIDE DEF Came
    <3> QED BY <2>2, <3>1, <3>2, OneMorePair
  <2> QED BY <2>1, <2>2
<1>3. \A f : Def(f) = [c \in Grid(n, m) |-> Of(f, c[1], c[2])]
  BY DEF Grid
<1> HIDE DEF S, Def, Here, Came, Then
<1>4. \E f : f = Def(f)
  <2> DEFINE base == [c \in Grid(n, m) |-> <<>>]
             step == [c \in Grid(n, m) |->
                        [t \in S \X S \X S |-> Here(c[1], c[2], t[1], t[2], t[3])]]
  <2>1. \A c \in Grid(n, m) : c[1] \in 0 .. n /\ c[2] \in 0 .. m /\ c = <<c[1], c[2]>>
    BY DEF Grid
  <2>2. base \in [Grid(n, m) -> S] /\ step \in [Grid(n, m) -> [S \X S \X S -> S]]
    <3>1. <<>> \in S
      BY DEF S, Paths
    <3>2. \A c \in Grid(n, m) : \A t \in S \X S \X S : Here(c[1], c[2], t[1], t[2], t[3]) \in S
      BY <1>2, <2>1
    <3> QED BY <3>1, <3>2
  <2>3. \A i \in 0 .. n, j \in 0 .. m :
          /\ <<i, j>> \in Grid(n, m)
          /\ base[<<i, j>>] = <<>>
          /\ \A x, y, z \in S : step[<<i, j>>][<<x, y, z>>] = Here(i, j, x, y, z)
    BY DEF Grid
  <2> HIDE DEF base, step
  <2>4. PICK f \in [Grid(n, m) -> S] : GridComputes(f, n, m, base, step)
    BY <2>2, GridRecursion
  <2>5. ASSUME NEW i \in 0 .. n, NEW j \in 0 .. m PROVE f[<<i, j>>] = Of(f, i, j)
    <3>1. CASE i = 0 \/ j = 0
      <4>1. f[<<i, j>>] = <<>>
        BY <2>3, <2>4, <3>1 DEF GridComputes
      <4> QED BY <1>1, <3>1, <4>1
    <3>2. CASE i # 0 /\ j # 0
      <4> DEFINE x == f[<<i - 1, j - 1>>]
                 y == f[<<i - 1, j>>]
                 z == f[<<i, j - 1>>]
      <4>1. i - 1 \in 0 .. n /\ j - 1 \in 0 .. m
        BY <3>2
      <4>2. x \in S /\ y \in S /\ z \in S
        BY <2>3, <4>1
      <4>3. f[<<i, j>>] = step[<<i, j>>][<<x, y, z>>]
        BY <2>4, <3>2 DEF GridComputes
      <4>4. step[<<i, j>>][<<x, y, z>>] = Here(i, j, x, y, z)
        <5> HIDE DEF x, y, z
        <5> QED BY <2>3, <4>2
      <4> QED BY <4>3, <4>4
    <3> QED BY <3>1, <3>2
  <2>6. \A c \in Grid(n, m) : f[c] = Of(f, c[1], c[2])
    BY <2>1, <2>5
  <2>7. f = [c \in Grid(n, m) |-> Of(f, c[1], c[2])]
    <3> HIDE DEF Of
    <3> QED BY <2>6
  <2> QED BY <1>3, <2>7
<1>5. PICK path : path = Def(path) /\ Backtrack(table, n, m) = path[<<n, m>>]
  <2> DEFINE way == CHOOSE path : path = Def(path)
  <2>1. way = Def(way)
    BY <1>4, Zenon
  <2>2. Backtrack(table, n, m) = way[<<n, m>>]
    BY Zenon DEF Backtrack, Def
  <2> QED BY <2>1, <2>2
<1>6. ASSUME NEW i \in 0 .. n, NEW j \in 0 .. m PROVE path[<<i, j>>] = Of(path, i, j)
  <2> DEFINE g == [c \in Grid(n, m) |-> Of(path, c[1], c[2])]
  <2>1. g[<<i, j>>] = Of(path, i, j)
    <3> HIDE DEF Of
    <3> QED BY DEF Grid
  <2>2. path = g
    BY <1>3, <1>5
  <2> HIDE DEF g, Of
  <2> QED BY <2>1, <2>2
<1> DEFINE G == {c \in Grid(n, m) : path[c] \in S}
<1>7. \A i \in 0 .. n, j \in 0 .. m : <<i, j>> \in G
  <2>0. \A i \in 0 .. n, j \in 0 .. m : <<i, j>> \in Grid(n, m)
    BY DEF Grid
  <2>1. \A i \in 0 .. n, j \in 0 .. m : i = 0 \/ j = 0 => <<i, j>> \in G
    <3> SUFFICES ASSUME NEW i \in 0 .. n, NEW j \in 0 .. m, i = 0 \/ j = 0 PROVE path[<<i, j>>] \in S
      BY <2>0
    <3>1. path[<<i, j>>] = Of(path, i, j)
      BY <1>6
    <3>2. <<>> \in S /\ \A x, y, z : Here(i, j, x, y, z) = <<>>
      BY <1>1
    <3> QED BY <3>1, <3>2
  <2>2. ASSUME NEW i \in 1 .. n, NEW j \in 1 .. m,
               <<i - 1, j - 1>> \in G, <<i - 1, j>> \in G, <<i, j - 1>> \in G
        PROVE  <<i, j>> \in G
    <3>1. i \in 0 .. n /\ j \in 0 .. m
      BY <2>2
    <3>2. path[<<i - 1, j - 1>>] \in S /\ path[<<i - 1, j>>] \in S /\ path[<<i, j - 1>>] \in S
      BY <2>2
    <3>3. Of(path, i, j) \in S
      <4> HIDE DEF G
      <4> QED BY <1>2, <3>1, <3>2
    <3>4. path[<<i, j>>] \in S
      <4> HIDE DEF G, Of
      <4> QED BY <1>6, <3>1, <3>3
    <3> QED BY <2>0, <3>1, <3>4
  <2> HIDE DEF G
  <2> QED BY <2>1, <2>2, GridInduct
<1>8. WayBack(path, table, n, m)
  BY <1>6, <1>7 DEF WayBack, S, Here, Came, Then
<1> QED BY <1>5, <1>8

\* What a path costs, pair by pair.
PairCost(q, a, b) == PitchDistance(a[q[1] + 1], b[q[2] + 1])

Sums(sum, p, a, b) ==
  /\ sum[0] = 0
  /\ \A k \in 1 .. Len(p) : sum[k] = sum[k - 1] + PairCost(p[k], a, b)
  /\ \A k \in 0 .. Len(p) : sum[k] \in Nat

LEMMA PairsApart ==
  ASSUME NEW a \in Seq(Nat), NEW b \in Seq(Nat), NEW p \in Paths(Len(a), Len(b)), NEW k \in 1 .. Len(p)
  PROVE  PairCost(p[k], a, b) \in 0 .. 200
<1> DEFINE q == p[k]
<1>1. Len(a) \in Nat /\ Len(b) \in Nat
  BY LenProperties
<1>2. q \in (0 .. Len(a) - 1) \X (0 .. Len(b) - 1)
  BY ElementOfSeq DEF Paths
<1> HIDE DEF q
<1>3. q[1] + 1 \in 1 .. Len(a) /\ q[2] + 1 \in 1 .. Len(b)
  BY <1>1, <1>2
<1>4. PairCost(q, a, b) \in 0 .. 200
  BY <1>3, FramesApart DEF PairCost
<1> QED BY <1>4 DEF q

LEMMA PathCostIs ==
  ASSUME NEW a \in Seq(Nat), NEW b \in Seq(Nat), NEW p \in Paths(Len(a), Len(b))
  PROVE  \E sum : Sums(sum, p, a, b) /\ PathCost(p, a, b) = sum[Len(p)]
<1> DEFINE n == Len(p)
           Def(sum) == [k \in 0 .. Len(p) |->
                          IF k = 0 THEN 0
                          ELSE sum[k - 1] + PitchDistance(a[p[k][1] + 1], b[p[k][2] + 1])]
           cost == [k \in 1 .. n |-> PairCost(p[k], a, b)]
<1>1. n \in Nat
  BY LenProperties DEF Paths
<1>2. \A k \in 1 .. n : PairCost(p[k], a, b) = cost[k] /\ cost[k] \in Nat
  <2> SUFFICES ASSUME NEW k \in 1 .. n PROVE PairCost(p[k], a, b) = cost[k] /\ cost[k] \in Nat
    OBVIOUS
  <2> DEFINE d == PairCost(p[k], a, b)
  <2>1. d \in 0 .. 200
    BY PairsApart
  <2>2. cost[k] = d
    OBVIOUS
  <2> HIDE DEF d, cost
  <2>3. d \in Nat
    BY <2>1
  <2> QED BY <2>2, <2>3 DEF d
<1>3. \A f : Def(f) = [k \in 0 .. n |-> IF k = 0 THEN 0 ELSE f[k - 1] + PairCost(p[k], a, b)]
  BY DEF PairCost
<1> HIDE DEF n, cost, Def
<1>4. \E f : f = Def(f)
  <2> DEFINE step == [k \in 1 .. n |-> [s \in Nat |-> s + cost[k]]]
  <2>1. step \in [1 .. n -> [Nat -> Nat]]
    BY <1>2
  <2>2. \A k \in 1 .. n : \A s \in Nat : step[k][s] = s + cost[k]
    OBVIOUS
  <2> HIDE DEF step
  <2>3. PICK f \in [0 .. n -> Nat] : Computes(f, n, 0, step)
    BY <1>1, <2>1, Recursion
  <2>4. ASSUME NEW k \in 1 .. n PROVE f[k] = f[k - 1] + cost[k]
    <3>1. k - 1 \in 0 .. n
      BY <1>1
    <3> QED BY <2>2, <2>3, <3>1 DEF Computes
  <2>5. f = [k \in 0 .. n |-> IF k = 0 THEN 0 ELSE f[k - 1] + PairCost(p[k], a, b)]
    <3>1. \A k \in 0 .. n : f[k] = IF k = 0 THEN 0 ELSE f[k - 1] + PairCost(p[k], a, b)
      BY <1>1, <1>2, <2>3, <2>4 DEF Computes
    <3> QED BY <3>1
  <2> QED BY <1>3, <2>5
<1>5. PICK sum : sum = Def(sum) /\ PathCost(p, a, b) = sum[n]
  <2> DEFINE all == CHOOSE sum : sum = Def(sum)
  <2>1. all = Def(all)
    BY <1>4, Zenon
  <2>2. PathCost(p, a, b) = all[n]
    BY Zenon DEF PathCost, Def, n
  <2> QED BY <2>1, <2>2
<1>6. \A k \in 0 .. n : sum[k] = IF k = 0 THEN 0 ELSE sum[k - 1] + PairCost(p[k], a, b)
  <2> DEFINE g == [k \in 0 .. n |-> IF k = 0 THEN 0 ELSE sum[k - 1] + PairCost(p[k], a, b)]
  <2>1. \A k \in 0 .. n : g[k] = IF k = 0 THEN 0 ELSE sum[k - 1] + PairCost(p[k], a, b)
    OBVIOUS
  <2>2. sum = g
    BY <1>3, <1>5
  <2> HIDE DEF g
  <2> QED BY <2>1, <2>2
<1> DEFINE G == {k \in 0 .. n : sum[k] \in Nat}
<1>7. 0 \in G
  BY <1>1, <1>6
<1>8. ASSUME NEW k \in 0 .. n - 1, k \in G PROVE k + 1 \in G
  <2>1. k + 1 \in 1 .. n /\ k + 1 \in 0 .. n /\ (k + 1) - 1 = k /\ k + 1 # 0
    BY <1>1
  <2>2. sum[k + 1] = sum[k] + cost[k + 1] /\ cost[k + 1] \in Nat
    BY <1>2, <1>6, <2>1
  <2> QED BY <1>8, <2>1, <2>2
<1>9. 0 .. n \subseteq G
  <2> HIDE DEF G
  <2> QED BY <1>1, <1>7, <1>8, Induct
<1>10. Sums(sum, p, a, b)
  <2>1. sum[0] = 0
    BY <1>1, <1>6
  <2>2. \A k \in 1 .. n : sum[k] = sum[k - 1] + PairCost(p[k], a, b)
    BY <1>1, <1>6
  <2> QED BY <1>9, <2>1, <2>2 DEF Sums, n
<1> QED BY <1>5, <1>10 DEF n

LEMMA EmptyPathCost ==
  ASSUME NEW a \in Seq(Nat), NEW b \in Seq(Nat)
  PROVE  PathCost(<<>>, a, b) = 0
<1>1. <<>> \in Paths(Len(a), Len(b)) /\ Len(<<>>) = 0
  BY DEF Paths
<1>2. PICK sum : Sums(sum, <<>>, a, b) /\ PathCost(<<>>, a, b) = sum[Len(<<>>)]
  BY <1>1, PathCostIs
<1> QED BY <1>1, <1>2 DEF Sums

\* One pair more costs the distance of its frames.
LEMMA LongerPathCost ==
  ASSUME NEW a \in Seq(Nat), NEW b \in Seq(Nat),
         NEW p \in Paths(Len(a), Len(b)), NEW i \in 1 .. Len(a), NEW j \in 1 .. Len(b)
  PROVE  /\ PathCost(p, a, b) \in Nat
         /\ PathCost(Append(p, <<i - 1, j - 1>>), a, b) = PathCost(p, a, b) + PitchDistance(a[i], b[j])
<1> DEFINE q == Append(p, <<i - 1, j - 1>>)
           n == Len(p)
<1>1. Len(a) \in Nat /\ Len(b) \in Nat /\ n \in Nat
  BY LenProperties DEF Paths
<1>2. q \in Paths(Len(a), Len(b))
  BY <1>1, OneMorePair
<1>3. Len(q) = n + 1 /\ (\A k \in 1 .. n : q[k] = p[k]) /\ q[n + 1] = <<i - 1, j - 1>>
  <2>1. <<i - 1, j - 1>> \in (0 .. Len(a) - 1) \X (0 .. Len(b) - 1)
    BY <1>1
  <2>2. p \in Seq((0 .. Len(a) - 1) \X (0 .. Len(b) - 1))
    BY DEF Paths
  <2> QED BY <2>1, <2>2, AppendProperties, SMTT(30)
<1>4. PICK s : Sums(s, p, a, b) /\ PathCost(p, a, b) = s[n]
  BY PathCostIs
<1> HIDE DEF q, n
<1>5. PICK t : Sums(t, q, a, b) /\ PathCost(q, a, b) = t[n + 1]
  BY <1>2, <1>3, PathCostIs
<1> DEFINE G == {k \in 0 .. n : s[k] = t[k]}
<1>6. 0 \in G
  BY <1>1, <1>4, <1>5 DEF Sums
<1>7. ASSUME NEW k \in 0 .. n - 1, k \in G PROVE k + 1 \in G
  <2>1. k + 1 \in 1 .. n /\ k + 1 \in 0 .. n /\ (k + 1) - 1 = k /\ k + 1 \in 1 .. n + 1
    BY <1>1
  <2>2. s[k + 1] = s[k] + PairCost(p[k + 1], a, b)
    BY <1>4, <2>1 DEF Sums, n
  <2>3. t[k + 1] = t[k] + PairCost(q[k + 1], a, b)
    BY <1>3, <1>5, <2>1 DEF Sums
  <2> QED BY <1>3, <1>7, <2>1, <2>2, <2>3
<1>8. 0 .. n \subseteq G
  <2> HIDE DEF G
  <2> QED BY <1>1, <1>6, <1>7, Induct
<1>9. s[n] = t[n] /\ s[n] \in Nat
  BY <1>1, <1>4, <1>8 DEF Sums, n
<1>10. t[n + 1] = t[n] + PairCost(q[n + 1], a, b)
  <2>1. n + 1 \in 1 .. Len(q) /\ (n + 1) - 1 = n
    BY <1>1, <1>3
  <2> QED BY <1>5, <2>1 DEF Sums
<1>11. PairCost(<<i - 1, j - 1>>, a, b) = PitchDistance(a[i], b[j])
  <2>1. (i - 1) + 1 = i /\ (j - 1) + 1 = j
    BY <1>1
  <2> QED BY <2>1 DEF PairCost
<1> QED BY <1>3, <1>4, <1>5, <1>9, <1>10, <1>11 DEF q
-----------------------------------------------------------------------------
(***************************************************************************)
(* A pass finds a cheapest path.  The cost of a cell is a number of steps  *)
(* inside the band, so a table that fits never reaches Infinity by adding. *)
(***************************************************************************)
BestBefore(t, i, j) == Cheapest(t[i][j - 1].cost, t[i][j].cost, t[i + 1][j - 1].cost)

\* A cell of the band is made of the cheapest of the three before it.
Grows(t, a, b, i, j) ==
  \/ BestBefore(t, i, j).cost = Infinity /\ t[i + 1][j] = Unreached
  \/ /\ BestBefore(t, i, j).cost < Infinity /\ t[i + 1][j].cost < Infinity
     /\ t[i + 1][j].cost = BestBefore(t, i, j).cost + PitchDistance(a[i], b[j])
     /\ t[i + 1][j].step = BestBefore(t, i, j).step

LEMMA CostsStayBelow ==
  ASSUME NEW a \in Seq(Nat), NEW b \in Seq(Nat), NEW center \in [0 .. Len(a) -> Int], NEW band \in Nat,
         (Len(a) + 1) * (2 * band + 1) <= MaxCells,
         NEW t, t = Table(a, b, center, band)
  PROVE  \A i \in 1 .. Len(a), j \in 1 .. Len(b) : InBand(center, band, i, j) => Grows(t, a, b, i, j)
<1> DEFINE n == Len(a)
           m == Len(b)
           w == 2 * band + 1
           C(i, j) == t[i + 1][j].cost
           far(i, j) == j - center[i] + band + 1
           Low(i, j) == C(i, j) <= 200 * (i * w) /\ (i # 0 => C(i, j) <= 200 * ((i - 1) * w + far(i, j)))
<1>1. n \in Nat /\ m \in Nat /\ w \in Nat
  BY LenProperties
<1>2. /\ \A i \in 0 .. n, j \in 0 .. m : C(i, j) \in Nat
      /\ C(0, 0) = 0 /\ \A i \in 0 .. n, j \in 0 .. m : (i = 0 \/ j = 0) /\ ~(i = 0 /\ j = 0) => C(i, j) = Infinity
  <2>1. \A i \in 0 .. n, j \in 0 .. m : C(i, j) \in Nat
    BY CellCost
  <2>2. C(0, 0) = 0
    BY TableCells
  <2>3. ASSUME NEW i \in 0 .. n, NEW j \in 0 .. m, i = 0 \/ j = 0, ~(i = 0 /\ j = 0)
        PROVE  C(i, j) = Infinity
    <3>1. t[i + 1][j] = Unreached
      <4>1. CASE i = 0
        <5>1. j \in 1 .. m
          BY <2>3, <4>1
        <5> QED BY <4>1, <5>1, TableCells
      <4>2. CASE i # 0 /\ j = 0
        <5>1. i \in 1 .. n
          BY <4>2
        <5> QED BY <4>2, <5>1, TableCells
      <4> QED BY <2>3, <4>1, <4>2
    <3> QED BY <3>1 DEF Unreached
  <2> HIDE DEF C
  <2> QED BY <2>1, <2>2, <2>3
<1>3. \A i \in 0 .. n : i * w \in Nat /\ i * w <= MaxCells /\ (i # 0 => i * w = (i - 1) * w + w /\ (i - 1) * w \in Nat)
  <2> SUFFICES ASSUME NEW i \in 0 .. n
               PROVE  i * w \in Nat /\ i * w <= MaxCells /\ (i # 0 => i * w = (i - 1) * w + w /\ (i - 1) * w \in Nat)
    OBVIOUS
  <2>1. (n + 1) * w <= MaxCells
    OBVIOUS
  <2> HIDE DEF n, w
  <2>2. i <= n + 1 /\ i \in Nat
    BY <1>1
  <2>3. i * w <= (n + 1) * w /\ i * w \in Nat /\ (n + 1) * w \in Nat
    BY <1>1, <2>2
  <2>4. i # 0 => i * w = (i - 1) * w + w /\ (i - 1) * w \in Nat
    BY <1>1, <2>2
  <2>5. i * w <= MaxCells
    <3> DEFINE x == i * w
               y == (n + 1) * w
    <3>1. x \in Nat /\ y \in Nat /\ x <= y /\ y <= MaxCells
      BY <2>1, <2>3
    <3> HIDE DEF x, y
    <3>2. x <= MaxCells
      BY <3>1, StrideAssumption
    <3> QED BY <3>2 DEF x
  <2> QED BY <2>3, <2>4, <2>5
<1>4. ASSUME NEW i \in 1 .. n, NEW j \in 1 .. m, InBand(center, band, i, j)
      PROVE  /\ t[i + 1][j] = Extended(BestBefore(t, i, j), PitchDistance(a[i], b[j]))
             /\ BestBefore(t, i, j).cost \in Nat
             /\ \/ BestBefore(t, i, j).cost = C(i - 1, j - 1)
                \/ BestBefore(t, i, j).cost = C(i - 1, j)
                \/ BestBefore(t, i, j).cost = C(i, j - 1)
  <2>1. t[i + 1][j] = Extended(BestBefore(t, i, j), PitchDistance(a[i], b[j]))
    BY <1>4, TableCells DEF CellOf, BestBefore
  <2>2. i - 1 \in 0 .. n /\ i \in 0 .. n /\ (i - 1) + 1 = i /\ j - 1 \in 0 .. m /\ j \in 0 .. m
    BY <1>1
  <2>3. C(i - 1, j - 1) \in Nat /\ C(i - 1, j) \in Nat /\ C(i, j - 1) \in Nat
    <3> HIDE DEF C, n, m
    <3> QED BY <1>2, <2>2
  <2>4. BestBefore(t, i, j) = Cheapest(C(i - 1, j - 1), C(i - 1, j), C(i, j - 1))
    BY <2>2 DEF BestBefore
  <2> DEFINE x == C(i - 1, j - 1)
             y == C(i - 1, j)
             z == C(i, j - 1)
             c == BestBefore(t, i, j).cost
  <2>5. c \in Nat /\ (c = x \/ c = y \/ c = z)
    <3>1. c = Cheapest(x, y, z).cost /\ x \in Nat /\ y \in Nat /\ z \in Nat
      <4> HIDE DEF C
      <4> QED BY <2>3, <2>4
    <3> HIDE DEF x, y, z, c
    <3>2. /\ Cheapest(x, y, z).cost \in Nat
          /\ \/ Cheapest(x, y, z).cost = x
             \/ Cheapest(x, y, z).cost = y
             \/ Cheapest(x, y, z).cost = z
      BY <3>1 DEF Cheapest
    <3> QED BY <3>1, <3>2, Zenon
  <2> HIDE DEF C
  <2> QED BY <2>1, <2>5
<1> DEFINE Kept(i, j) ==
             \/ C(i, j) = Infinity
             \/ Low(i, j)
           Fine(i, j) == i # 0 /\ j # 0 /\ InBand(center, band, i, j) => Grows(t, a, b, i, j)
           G == {c \in Grid(n, m) : Kept(c[1], c[2]) /\ Fine(c[1], c[2])}
<1>5. \A i \in 0 .. n, j \in 0 .. m : <<i, j>> \in Grid(n, m) /\ (<<i, j>> \in G <=> Kept(i, j) /\ Fine(i, j))
  <2> HIDE DEF Kept, Fine
  <2> QED BY DEF Grid
<1>6. \A i \in 0 .. n, j \in 0 .. m : Low(i, j) => C(i, j) < Infinity
  <2> SUFFICES ASSUME NEW i \in 0 .. n, NEW j \in 0 .. m, Low(i, j) PROVE C(i, j) < Infinity
    OBVIOUS
  <2> DEFINE c == C(i, j)
             u == i * w
  <2>1. c <= 200 * u /\ u \in Nat /\ u <= MaxCells /\ c \in Nat
    <3> HIDE DEF w, C
    <3> QED BY <1>2, <1>3
  <2> HIDE DEF c, u
  <2>2. c < Infinity
    BY <2>1, StrideAssumption DEF Infinity
  <2> QED BY <2>2 DEF c
<1>7. \A i \in 0 .. n, j \in 0 .. m : i = 0 \/ j = 0 => <<i, j>> \in G
  <2> SUFFICES ASSUME NEW i \in 0 .. n, NEW j \in 0 .. m, i = 0 \/ j = 0 PROVE Kept(i, j) /\ Fine(i, j)
    <3> HIDE DEF G, Kept, Fine
    <3> QED BY <1>5
  <2>1. CASE i = 0 /\ j = 0
    <3>1. C(i, j) = 0 /\ i * w = 0
      BY <1>1, <1>2, <2>1
    <3> HIDE DEF C, w
    <3> QED BY <2>1, <3>1
  <2>2. CASE ~(i = 0 /\ j = 0)
    <3> HIDE DEF C, w
    <3> QED BY <1>2, <2>2
  <2> QED BY <2>1, <2>2
<1>8. ASSUME NEW i \in 1 .. n, NEW j \in 1 .. m,
             <<i - 1, j - 1>> \in G, <<i - 1, j>> \in G, <<i, j - 1>> \in G
      PROVE  <<i, j>> \in G
  <2>1. /\ i - 1 \in 0 .. n /\ i \in 0 .. n /\ (i - 1) + 1 = i /\ j - 1 \in 0 .. m /\ j \in 0 .. m
        /\ i # 0 /\ j # 0
    BY <1>1
  <2>2. SUFFICES Kept(i, j) /\ Fine(i, j)
    <3> HIDE DEF G, Kept, Fine
    <3> QED BY <1>5, <2>1
  <2>3. Kept(i - 1, j - 1) /\ Kept(i - 1, j) /\ Kept(i, j - 1)
    <3> HIDE DEF G, Kept, Fine
    <3> QED BY <1>5, <1>8, <2>1
  <2>4. CASE ~InBand(center, band, i, j)
    <3>1. t[i + 1][j] = Unreached
      <4>1. t[i + 1][j] = CellOf(t[i], a, b, center, band, i, j, t[i + 1][j - 1])
        BY TableCells
      <4> QED BY <2>4, <4>1 DEF CellOf
    <3> QED BY <2>4, <3>1 DEF Unreached
  <2>5. CASE InBand(center, band, i, j)
    <3> DEFINE best == BestBefore(t, i, j).cost
               d == PitchDistance(a[i], b[j])
               u == (i - 1) * w
               e == far(i, j)
    <3>1. /\ t[i + 1][j] = Extended(BestBefore(t, i, j), d) /\ best \in Nat
          /\ best = C(i - 1, j - 1) \/ best = C(i - 1, j) \/ best = C(i, j - 1)
      <4> HIDE DEF C, d, w
      <4> QED BY <1>4, <2>5 DEF d
    <3>2. d \in 0 .. 200
      BY FramesApart, Zenon
    <3>3. CASE best = Infinity
      <4>1. t[i + 1][j] = Unreached
        BY <3>1, <3>3 DEF Extended
      <4> QED BY <3>3, <4>1 DEF Unreached, Grows
    <3>4. CASE best # Infinity
      <4>1. t[i + 1][j].cost = best + d /\ t[i + 1][j].step = BestBefore(t, i, j).step
        BY <3>1, <3>4 DEF Extended
      <4>2. center[i] \in Int /\ e >= 1 /\ e <= w /\ e \in Int /\ u \in Nat /\ w \in Nat /\ i * w = u + w
        <5>1. center[i] \in Int /\ center[i] - band <= j /\ j <= center[i] + band
          BY <2>1, <2>5 DEF InBand
        <5>2. u \in Nat /\ i * w = u + w
          <6> HIDE DEF w
          <6> QED BY <1>3, <2>1
        <5> HIDE DEF u
        <5> QED BY <1>1, <5>1, <5>2, SMTT(30)
      <4>3. best <= 200 * u \/ best <= 200 * (u + (e - 1))
        <5>1. Low(i - 1, j - 1) => C(i - 1, j - 1) <= 200 * u
          <6> HIDE DEF C, w
          <6> QED OBVIOUS
        <5>2. Low(i - 1, j) => C(i - 1, j) <= 200 * u
          <6> HIDE DEF C, w
          <6> QED OBVIOUS
        <5>3. Low(i, j - 1) => C(i, j - 1) <= 200 * (u + far(i, j - 1))
          <6> HIDE DEF C, w, far
          <6> QED BY <2>1
        <5>4. far(i, j - 1) = e - 1
          BY <4>2, SMTT(30)
        <5> HIDE DEF best, C, Low, u, e, far
        <5> QED BY <2>3, <3>1, <3>4, <5>1, <5>2, <5>3, <5>4, SMTT(30)
      <4> HIDE DEF best, d, u, e
      <4>4. best + d <= 200 * (u + e) /\ best + d <= 200 * (u + w)
        <5> HIDE DEF w
        <5> QED BY <3>1, <3>2, <4>2, <4>3
      <4>5. Low(i, j)
        <5>1. C(i, j) = best + d
          BY <4>1
        <5> HIDE DEF C, w
        <5> QED BY <4>2, <4>4, <5>1 DEF u, e
      <4>6. t[i + 1][j].cost < Infinity /\ best < Infinity
        <5>1. t[i + 1][j].cost < Infinity
          <6> HIDE DEF Low
          <6> QED BY <1>6, <2>1, <4>5
        <5>2. best \in Nat /\ d \in 0 .. 200 /\ best + d < Infinity
          BY <3>1, <3>2, <4>1, <5>1 DEF best, d
        <5>3. best < Infinity
          BY <5>2, InfinityIsNat
        <5> QED BY <5>1, <5>3
      <4>7. Grows(t, a, b, i, j)
        BY <4>1, <4>6 DEF Grows, best, d
      <4> HIDE DEF Low
      <4> QED BY <4>5, <4>7
    <3> QED BY <3>3, <3>4
  <2> QED BY <2>4, <2>5
<1>9. \A i \in 0 .. n, j \in 0 .. m : <<i, j>> \in G
  <2> HIDE DEF G, n, m
  <2> QED BY <1>1, <1>7, <1>8, GridInduct
<1>10. ASSUME NEW i \in 1 .. n, NEW j \in 1 .. m, InBand(center, band, i, j) PROVE Grows(t, a, b, i, j)
  <2>1. i \in 0 .. n /\ j \in 0 .. m /\ i # 0 /\ j # 0
    BY <1>1
  <2>2. Fine(i, j)
    <3> HIDE DEF G, Kept, Fine, n, m
    <3> QED BY <1>5, <1>9, <2>1
  <2> QED BY <1>10, <2>1, <2>2
<1> QED BY <1>10

\* A cell holds what the cheapest path to it costs, and the way back is such a path.
RightCell(t, to, path, a, b, i, j) ==
  /\ t[i + 1][j].cost <= Infinity
  /\ t[i + 1][j].cost = Infinity => to[<<i, j>>] = {}
  /\ t[i + 1][j].cost # Infinity =>
       path[<<i, j>>] \in to[<<i, j>>] /\ PathCost(path[<<i, j>>], a, b) = t[i + 1][j].cost
  /\ \A p \in to[<<i, j>>] : t[i + 1][j].cost <= PathCost(p, a, b)

LEMMA NoWayIntoEdge ==
  ASSUME NEW a \in Seq(Nat), NEW b \in Seq(Nat), NEW center, NEW band,
         NEW t, t = Table(a, b, center, band),
         NEW to, WarpingsTo(to, Len(a), Len(b), center, band),
         NEW path, WayBack(path, t, Len(a), Len(b)),
         NEW i \in 0 .. Len(a), NEW j \in 0 .. Len(b), i = 0 \/ j = 0
  PROVE  RightCell(t, to, path, a, b, i, j)
<1>1. Len(a) \in Nat /\ Len(b) \in Nat /\ Infinity \in Nat /\ Infinity # 0
  BY LenProperties, InfinityIsNat, StrideAssumption DEF Infinity
<1>2. CASE i = 0 /\ j = 0
  <2>1. t[1][0].cost = 0
    BY TableCells
  <2>2. to[<<i, j>>] = {<<>>} /\ path[<<i, j>>] = <<>>
    BY <1>2 DEF WarpingsTo, WayBack
  <2>3. PathCost(<<>>, a, b) = 0
    BY EmptyPathCost
  <2> QED BY <1>1, <1>2, <2>1, <2>2, <2>3 DEF RightCell
<1>3. CASE ~(i = 0 /\ j = 0)
  <2>1. to[<<i, j>>] = {}
    BY <1>3 DEF WarpingsTo
  <2>2. t[i + 1][j] = Unreached
    <3>1. CASE i = 0
      <4>1. j \in 1 .. Len(b)
        BY <1>3, <3>1
      <4> QED BY <3>1, <4>1, TableCells
    <3>2. CASE i # 0
      <4>1. i \in 1 .. Len(a) /\ j = 0
        BY <3>2
      <4> QED BY <4>1, TableCells
    <3> QED BY <3>1, <3>2
  <2> QED BY <1>1, <2>1, <2>2 DEF RightCell, Unreached
<1> QED BY <1>2, <1>3

\* The three cells before it right, a cell is right.
LEMMA RightStep ==
  ASSUME NEW a \in Seq(Nat), NEW b \in Seq(Nat), NEW center, NEW band,
         NEW t, t = Table(a, b, center, band),
         NEW to, WarpingsTo(to, Len(a), Len(b), center, band),
         NEW path, WayBack(path, t, Len(a), Len(b)),
         NEW i \in 1 .. Len(a), NEW j \in 1 .. Len(b),
         InBand(center, band, i, j) => Grows(t, a, b, i, j),
         RightCell(t, to, path, a, b, i - 1, j - 1),
         RightCell(t, to, path, a, b, i - 1, j),
         RightCell(t, to, path, a, b, i, j - 1)
  PROVE  RightCell(t, to, path, a, b, i, j)
<1> DEFINE n == Len(a)
           m == Len(b)
           x == t[i][j - 1].cost
           y == t[i][j].cost
           z == t[i + 1][j - 1].cost
           X == to[<<i - 1, j - 1>>]
           Y == to[<<i - 1, j>>]
           Z == to[<<i, j - 1>>]
           pair == <<i - 1, j - 1>>
           d == PitchDistance(a[i], b[j])
           best == Cheapest(x, y, z)
           c == t[i + 1][j].cost
           W == to[<<i, j>>]
           back == path[<<i, j>>]
<1>1. /\ n \in Nat /\ m \in Nat /\ i \in 0 .. n /\ j \in 0 .. m /\ i - 1 \in 0 .. n /\ j - 1 \in 0 .. m
      /\ (i - 1) + 1 = i /\ i # 0 /\ j # 0
  BY LenProperties
<1>2. x \in Nat /\ y \in Nat /\ z \in Nat /\ Infinity \in Nat
  <2>1. t[(i - 1) + 1][j - 1].cost \in Nat /\ t[(i - 1) + 1][j].cost \in Nat /\ z \in Nat
    BY <1>1, CellCost
  <2> QED BY <1>1, <2>1, InfinityIsNat
<1>3. X \subseteq Paths(n, m) /\ Y \subseteq Paths(n, m) /\ Z \subseteq Paths(n, m)
  BY <1>1 DEF WarpingsTo
<1>4. /\ x <= Infinity /\ (x = Infinity => X = {})
      /\ x # Infinity => path[<<i - 1, j - 1>>] \in X /\ PathCost(path[<<i - 1, j - 1>>], a, b) = x
      /\ \A p \in X : x <= PathCost(p, a, b)
  BY <1>1 DEF RightCell
<1>5. /\ y <= Infinity /\ (y = Infinity => Y = {})
      /\ y # Infinity => path[<<i - 1, j>>] \in Y /\ PathCost(path[<<i - 1, j>>], a, b) = y
      /\ \A p \in Y : y <= PathCost(p, a, b)
  BY <1>1 DEF RightCell
<1>6. /\ z <= Infinity /\ (z = Infinity => Z = {})
      /\ z # Infinity => path[<<i, j - 1>>] \in Z /\ PathCost(path[<<i, j - 1>>], a, b) = z
      /\ \A p \in Z : z <= PathCost(p, a, b)
  BY <1>1 DEF RightCell
<1>7. CASE ~InBand(center, band, i, j)
  <2>1. W = {}
    BY <1>1, <1>7 DEF WarpingsTo
  <2>2. t[i + 1][j] = CellOf(t[i], a, b, center, band, i, j, t[i + 1][j - 1])
    BY TableCells
  <2>3. t[i + 1][j] = Unreached
    BY <1>7, <2>2 DEF CellOf
  <2> QED BY <1>2, <2>1, <2>3 DEF RightCell, Unreached
<1>8. CASE InBand(center, band, i, j)
  <2>1. Grows(t, a, b, i, j) /\ best = BestBefore(t, i, j)
    BY <1>8 DEF BestBefore
  <2>2. W = {Append(p, pair) : p \in X \cup Y \cup Z}
    BY <1>1, <1>8 DEF WarpingsTo
  <2>3. back = Append(CASE t[i + 1][j].step = "diag" -> path[<<i - 1, j - 1>>]
                        [] t[i + 1][j].step = "up"   -> path[<<i - 1, j>>]
                        [] OTHER                     -> path[<<i, j - 1>>], pair)
    BY <1>1 DEF WayBack
  <2>4. \A p \in X \cup Y \cup Z :
          PathCost(p, a, b) \in Nat /\ PathCost(Append(p, pair), a, b) = PathCost(p, a, b) + d
    <3> SUFFICES ASSUME NEW p \in X \cup Y \cup Z
                 PROVE  PathCost(p, a, b) \in Nat /\ PathCost(Append(p, pair), a, b) = PathCost(p, a, b) + d
      OBVIOUS
    <3>1. p \in Paths(n, m)
      <4> HIDE DEF X, Y, Z, n, m
      <4> QED BY <1>3
    <3> QED BY <3>1, LongerPathCost
  <2>5. d \in 0 .. 200
    BY FramesApart, Zenon
  <2>6. /\ best.cost \in Nat /\ best.cost <= x /\ best.cost <= y /\ best.cost <= z
        /\ \/ best.step = "diag" /\ best.cost = x
           \/ best.step = "up" /\ best.cost = y
           \/ best.step = "left" /\ best.cost = z
    <3> HIDE DEF x, y, z
    <3> QED BY <1>2, CheapestIs
  <2>7. \/ best.cost = Infinity /\ t[i + 1][j] = Unreached
        \/ best.cost < Infinity /\ c < Infinity /\ c = best.cost + d /\ t[i + 1][j].step = best.step
    <3> HIDE DEF best
    <3> QED BY <2>1 DEF Grows
  <2>8. \A p \in X \cup Y \cup Z : best.cost <= PathCost(p, a, b)
    <3> SUFFICES ASSUME NEW p \in X \cup Y \cup Z PROVE best.cost <= PathCost(p, a, b)
      OBVIOUS
    <3> DEFINE s == PathCost(p, a, b)
               l == best.cost
    <3>1. s \in Nat /\ (x <= s \/ y <= s \/ z <= s) /\ l \in Nat /\ l <= x /\ l <= y /\ l <= z
      <4> HIDE DEF x, y, z, X, Y, Z, best
      <4> QED BY <1>4, <1>5, <1>6, <2>4, <2>6
    <3> HIDE DEF s, x, y, z, l
    <3>2. l <= s
      BY <1>2, <3>1
    <3> QED BY <3>2 DEF s, l
  <2>9. CASE best.cost = Infinity
    <3>1. x = Infinity /\ y = Infinity /\ z = Infinity
      <4> DEFINE l == best.cost
      <4>1. l = Infinity /\ l <= x /\ l <= y /\ l <= z /\ x <= Infinity /\ y <= Infinity /\ z <= Infinity
        BY <1>4, <1>5, <1>6, <2>6, <2>9
      <4> HIDE DEF l, x, y, z
      <4> QED BY <1>2, <4>1
    <3>2. W = {}
      <4> HIDE DEF x, y, z, X, Y, Z, W
      <4> QED BY <1>4, <1>5, <1>6, <2>2, <3>1
    <3>3. t[i + 1][j] = Unreached
      <4> HIDE DEF best, x, y, z
      <4> QED BY <2>7, <2>9, InfinityIsNat
    <3> QED BY <1>2, <3>2, <3>3 DEF RightCell, Unreached
  <2>10. CASE best.cost # Infinity
    <3> DEFINE l == best.cost
    <3>1. l \in Nat /\ c < Infinity /\ c = l + d /\ t[i + 1][j].step = best.step
      <4> HIDE DEF best
      <4> QED BY <2>6, <2>7, <2>10
    <3>2. \E p \in X \cup Y \cup Z : back = Append(p, pair) /\ PathCost(p, a, b) = l
      <4> HIDE DEF x, y, z, X, Y, Z
      <4>1. CASE best.step = "diag" /\ l = x
        BY <1>4, <2>3, <2>10, <3>1, <4>1
      <4>2. CASE best.step = "up" /\ l = y
        BY <1>5, <2>3, <2>10, <3>1, <4>2
      <4>3. CASE best.step = "left" /\ l = z
        BY <1>6, <2>3, <2>10, <3>1, <4>3
      <4> QED BY <2>6, <4>1, <4>2, <4>3
    <3>3. back \in W /\ PathCost(back, a, b) = c
      <4> HIDE DEF X, Y, Z, W, back, pair, d, c, l
      <4> QED BY <2>2, <2>4, <3>1, <3>2
    <3>4. \A p \in W : c <= PathCost(p, a, b)
      <4> SUFFICES ASSUME NEW p \in X \cup Y \cup Z PROVE c <= PathCost(Append(p, pair), a, b)
        <5> HIDE DEF X, Y, Z, W, pair, c
        <5> QED BY <2>2
      <4> DEFINE s == PathCost(p, a, b)
      <4>1. s \in Nat /\ PathCost(Append(p, pair), a, b) = s + d /\ l <= s
        <5> HIDE DEF X, Y, Z, pair, d, best
        <5> QED BY <2>4, <2>8
      <4> HIDE DEF s, c, l, d, pair, X, Y, Z
      <4> QED BY <2>5, <3>1, <4>1
    <3>5. c <= Infinity /\ c # Infinity
      <4> HIDE DEF c, l, d
      <4> QED BY <1>2, <2>5, <3>1
    <3> QED BY <3>3, <3>4, <3>5 DEF RightCell
  <2> QED BY <2>9, <2>10
<1> QED BY <1>7, <1>8

LEMMA RightCells ==
  ASSUME NEW a \in Seq(Nat), NEW b \in Seq(Nat), NEW center \in [0 .. Len(a) -> Int], NEW band \in Nat,
         (Len(a) + 1) * (2 * band + 1) <= MaxCells,
         NEW t, t = Table(a, b, center, band),
         NEW to, WarpingsTo(to, Len(a), Len(b), center, band),
         NEW path, WayBack(path, t, Len(a), Len(b))
  PROVE  \A i \in 0 .. Len(a), j \in 0 .. Len(b) : RightCell(t, to, path, a, b, i, j)
<1> DEFINE n == Len(a)
           m == Len(b)
           G == {c \in Grid(n, m) : RightCell(t, to, path, a, b, c[1], c[2])}
<1>1. n \in Nat /\ m \in Nat
  BY LenProperties
<1>2. \A i \in 0 .. n, j \in 0 .. m : <<i, j>> \in G <=> RightCell(t, to, path, a, b, i, j)
  BY DEF Grid
<1>3. \A i \in 0 .. n, j \in 0 .. m : i = 0 \/ j = 0 => <<i, j>> \in G
  <2> HIDE DEF G
  <2> QED BY <1>2, NoWayIntoEdge
<1>4. ASSUME NEW i \in 1 .. n, NEW j \in 1 .. m,
             <<i - 1, j - 1>> \in G, <<i - 1, j>> \in G, <<i, j - 1>> \in G
      PROVE  <<i, j>> \in G
  <2>1. i - 1 \in 0 .. n /\ i \in 0 .. n /\ j - 1 \in 0 .. m /\ j \in 0 .. m
    BY <1>1
  <2>2. /\ RightCell(t, to, path, a, b, i - 1, j - 1) /\ RightCell(t, to, path, a, b, i - 1, j)
        /\ RightCell(t, to, path, a, b, i, j - 1)
    <3> HIDE DEF G
    <3> QED BY <1>2, <1>4, <2>1
  <2>3. InBand(center, band, i, j) => Grows(t, a, b, i, j)
    BY CostsStayBelow
  <2>4. RightCell(t, to, path, a, b, i, j)
    BY <2>2, <2>3, RightStep
  <2> HIDE DEF G
  <2> QED BY <1>2, <2>1, <2>4
<1> HIDE DEF G
<1>5. \A i \in 0 .. n, j \in 0 .. m : <<i, j>> \in G
  <2> HIDE DEF n, m
  <2> QED BY <1>1, <1>3, <1>4, GridInduct
<1> QED BY <1>2, <1>5

LEMMA PassIsCheapest ==
  ASSUME NEW a \in Seq(Nat), NEW b \in Seq(Nat), NEW center \in [0 .. Len(a) -> Int], NEW band \in Nat
  PROVE  IsCheapest(BandedDtw(a, b, center, band), a, b, center, band)
<1> DEFINE n == Len(a)
           m == Len(b)
           t == Table(a, b, center, band)
           pass == BandedDtw(a, b, center, band)
           all == Warpings(n, m, center, band)
<1>1. n \in Nat /\ m \in Nat /\ n \in 0 .. n /\ m \in 0 .. m
  BY LenProperties
<1>2. PICK to : WarpingsTo(to, n, m, center, band) /\ all = to[<<n, m>>]
  BY <1>1, WarpingsAre
<1>3. CASE n = 0 \/ m = 0
  <2>1. pass.reason = "empty"
    BY <1>3 DEF BandedDtw, NoPath
  <2> QED BY <2>1 DEF IsCheapest
<1>4. CASE n # 0 /\ m # 0 /\ (n + 1) * (2 * band + 1) > MaxCells
  <2>1. pass.reason = "too_large"
    BY <1>4 DEF BandedDtw, NoPath
  <2> QED BY <2>1 DEF IsCheapest
<1>5. CASE n # 0 /\ m # 0 /\ ~((n + 1) * (2 * band + 1) > MaxCells)
  <2>1. (n + 1) * (2 * band + 1) <= MaxCells
    <3> DEFINE x == (n + 1) * (2 * band + 1)
    <3>1. x \in Nat
      <4> DEFINE w == 2 * band + 1
      <4>1. w \in Nat /\ n + 1 \in Nat
        BY <1>1
      <4> HIDE DEF w, n
      <4>2. (n + 1) * w \in Nat
        BY <4>1
      <4> QED BY <4>2 DEF w
    <3>2. ~(x > MaxCells)
      BY <1>5
    <3> HIDE DEF x
    <3>3. x <= MaxCells
      BY <3>1, <3>2, StrideAssumption
    <3> QED BY <3>3 DEF x
  <2>2. pass = IF ~InBand(center, band, n, m) THEN NoPath("unreachable")
               ELSE IF t[n + 1][m].cost = Infinity THEN NoPath("no_path")
               ELSE [reason |-> "aligned", path |-> Backtrack(t, n, m), cost |-> t[n + 1][m].cost]
    BY <1>5 DEF BandedDtw
  <2>3. PICK path : WayBack(path, t, n, m) /\ Backtrack(t, n, m) = path[<<n, m>>]
    BY <1>1, BacktrackIs
  <2>4. RightCell(t, to, path, a, b, n, m)
    BY <1>1, <1>2, <2>1, <2>3, RightCells
  <2>5. CASE ~InBand(center, band, n, m)
    <3>1. all = {}
      BY <1>1, <1>2, <1>5, <2>5 DEF WarpingsTo
    <3>2. pass.reason = "unreachable"
      BY <2>2, <2>5 DEF NoPath
    <3> HIDE DEF pass
    <3> QED BY <3>1, <3>2 DEF IsCheapest, pass
  <2>6. CASE InBand(center, band, n, m) /\ t[n + 1][m].cost = Infinity
    <3>1. all = {}
      BY <1>2, <2>4, <2>6 DEF RightCell
    <3>2. pass.reason = "no_path"
      BY <2>2, <2>6 DEF NoPath
    <3> HIDE DEF pass
    <3> QED BY <3>1, <3>2 DEF IsCheapest, pass
  <2>7. CASE InBand(center, band, n, m) /\ t[n + 1][m].cost # Infinity
    <3>1. pass.reason = "aligned" /\ pass.path = path[<<n, m>>] /\ pass.cost = t[n + 1][m].cost
      BY <2>2, <2>3, <2>7
    <3>2. /\ path[<<n, m>>] \in all /\ PathCost(path[<<n, m>>], a, b) = t[n + 1][m].cost
          /\ \A p \in all : t[n + 1][m].cost <= PathCost(p, a, b)
      BY <1>2, <2>4, <2>7 DEF RightCell
    <3> HIDE DEF pass, t
    <3> QED BY <3>1, <3>2 DEF IsCheapest, pass
  <2> QED BY <2>5, <2>6, <2>7
<1> QED BY <1>3, <1>4, <1>5
-----------------------------------------------------------------------------
(***************************************************************************)
(* The shape of a warping path, and the time map read off it.              *)
(***************************************************************************)
\* From the near corner to the pair of the cell, never back in either curve.
Forward(p, i, j) ==
  \/ p = <<>> /\ i = 0 /\ j = 0
  \/ /\ Len(p) # 0 /\ p[1] = <<0, 0>> /\ p[Len(p)] = <<i - 1, j - 1>>
     /\ \A k \in 1 .. Len(p) - 1 : p[k][1] <= p[k + 1][1] /\ p[k][2] <= p[k + 1][2]

LEMMA ForwardStep ==
  ASSUME NEW n \in Nat, NEW m \in Nat, NEW i \in 1 .. n, NEW j \in 1 .. m, NEW p \in Paths(n, m),
         \/ Forward(p, i - 1, j - 1) \/ Forward(p, i - 1, j) \/ Forward(p, i, j - 1)
  PROVE  Forward(Append(p, <<i - 1, j - 1>>), i, j)
<1> DEFINE l == Len(p)
           q == Append(p, <<i - 1, j - 1>>)
<1>1. l \in Nat
  BY LenProperties DEF Paths
<1>2. Len(q) = l + 1 /\ (\A k \in 1 .. l : q[k] = p[k]) /\ q[l + 1] = <<i - 1, j - 1>>
  <2>1. <<i - 1, j - 1>> \in (0 .. n - 1) \X (0 .. m - 1)
    OBVIOUS
  <2> QED BY <2>1, AppendProperties DEF Paths
<1>3. Len(q) # 0
  BY <1>1, <1>2
<1>4. CASE p = <<>>
  <2>1. l = 0 /\ i - 1 = 0 /\ j - 1 = 0
    BY <1>4 DEF Forward
  <2> HIDE DEF q, l
  <2> QED BY <1>2, <2>1 DEF Forward, q
<1>5. CASE p # <<>>
  <2>1. /\ l # 0 /\ p[1] = <<0, 0>>
        /\ \A k \in 1 .. l - 1 : p[k][1] <= p[k + 1][1] /\ p[k][2] <= p[k + 1][2]
    BY <1>5 DEF Forward
  <2>2. p[l][1] <= i - 1 /\ p[l][2] <= j - 1
    <3>1. p[l] = <<(i - 1) - 1, (j - 1) - 1>> \/ p[l] = <<(i - 1) - 1, j - 1>> \/ p[l] = <<i - 1, (j - 1) - 1>>
      BY <1>5 DEF Forward
    <3> QED BY <3>1
  <2> HIDE DEF q, l
  <2>3. q[1] = <<0, 0>> /\ q[Len(q)] = <<i - 1, j - 1>>
    BY <1>1, <1>2, <2>1
  <2>4. ASSUME NEW k \in 1 .. Len(q) - 1 PROVE q[k][1] <= q[k + 1][1] /\ q[k][2] <= q[k + 1][2]
    <3>1. CASE k = l
      BY <1>1, <1>2, <2>2, <3>1
    <3>2. CASE k # l
      <4>1. k \in 1 .. l - 1 /\ k \in 1 .. l /\ k + 1 \in 1 .. l
        BY <1>1, <1>2, <3>2
      <4> QED BY <1>2, <2>1, <4>1
    <3> QED BY <3>1, <3>2
  <2> QED BY <1>3, <2>3, <2>4 DEF Forward, q
<1> QED BY <1>4, <1>5

LEMMA WarpingsGoForward ==
  ASSUME NEW n \in Nat, NEW m \in Nat, NEW center, NEW band, NEW p \in Warpings(n, m, center, band)
  PROVE  p \in Paths(n, m) /\ Forward(p, n, m)
<1>1. PICK to : WarpingsTo(to, n, m, center, band) /\ Warpings(n, m, center, band) = to[<<n, m>>]
  BY WarpingsAre
<1> DEFINE G == {c \in Grid(n, m) : \A q \in to[c] : Forward(q, c[1], c[2])}
<1>2. \A i \in 0 .. n, j \in 0 .. m : <<i, j>> \in G <=> \A q \in to[<<i, j>>] : Forward(q, i, j)
  BY DEF Grid
<1> HIDE DEF G
<1>3. \A i \in 0 .. n, j \in 0 .. m : i = 0 \/ j = 0 => <<i, j>> \in G
  <2> SUFFICES ASSUME NEW i \in 0 .. n, NEW j \in 0 .. m, i = 0 \/ j = 0, NEW q \in to[<<i, j>>]
               PROVE  Forward(q, i, j)
    BY <1>2
  <2>1. q \in (IF i = 0 /\ j = 0 THEN {<<>>} ELSE {})
    BY <1>1 DEF WarpingsTo
  <2>2. q = <<>> /\ i = 0 /\ j = 0
    BY <2>1
  <2> QED BY <2>2 DEF Forward
<1>4. ASSUME NEW i \in 1 .. n, NEW j \in 1 .. m,
             <<i - 1, j - 1>> \in G, <<i - 1, j>> \in G, <<i, j - 1>> \in G
      PROVE  <<i, j>> \in G
  <2>1. i - 1 \in 0 .. n /\ i \in 0 .. n /\ j - 1 \in 0 .. m /\ j \in 0 .. m /\ i # 0 /\ j # 0
    OBVIOUS
  <2>2. SUFFICES ASSUME NEW q \in to[<<i, j>>] PROVE Forward(q, i, j)
    BY <1>2, <2>1
  <2>3. PICK r \in to[<<i - 1, j - 1>>] \cup to[<<i - 1, j>>] \cup to[<<i, j - 1>>] :
          q = Append(r, <<i - 1, j - 1>>)
    <3>1. to[<<i, j>>] \subseteq {Append(r, <<i - 1, j - 1>>) :
                                    r \in to[<<i - 1, j - 1>>] \cup to[<<i - 1, j>>] \cup to[<<i, j - 1>>]}
      BY <1>1, <2>1 DEF WarpingsTo
    <3> QED BY <3>1
  <2>4. r \in Paths(n, m)
    BY <1>1, <2>1 DEF WarpingsTo
  <2>5. Forward(r, i - 1, j - 1) \/ Forward(r, i - 1, j) \/ Forward(r, i, j - 1)
    BY <1>2, <1>4, <2>1
  <2> QED BY <2>3, <2>4, <2>5, ForwardStep
<1>5. \A i \in 0 .. n, j \in 0 .. m : <<i, j>> \in G
  BY <1>3, <1>4, GridInduct
<1>6. n \in 0 .. n /\ m \in 0 .. m
  OBVIOUS
<1> QED BY <1>1, <1>2, <1>5, <1>6 DEF WarpingsTo

LEMMA DivisionIs ==
  ASSUME NEW p \in Int, NEW q \in Nat \ {0}
  PROVE  p \div q \in Int /\ p % q \in 0 .. q - 1 /\ p = q * (p \div q) + (p % q)
OBVIOUS

LEMMA RoundDivIs ==
  ASSUME NEW p \in Int, NEW q \in Nat \ {0}
  PROVE  /\ RoundDiv(p, q) \in Int
         /\ p \div q <= RoundDiv(p, q) /\ RoundDiv(p, q) <= p \div q + 1
<1> DEFINE f == p \div q
           r == p % q
<1>1. f \in Int /\ r \in Nat
  BY DivisionIs
<1>2. RoundDiv(p, q) = f \/ RoundDiv(p, q) = f + 1
  BY DEF RoundDiv
<1> HIDE DEF f
<1> QED BY <1>1, <1>2 DEF f

LEMMA RoundDivMonotone ==
  ASSUME NEW p \in Int, NEW s \in Int, NEW q \in Nat \ {0}, p <= s
  PROVE  RoundDiv(p, q) <= RoundDiv(s, q)
<1> DEFINE f == p \div q
           r == p % q
           g == s \div q
           t == s % q
           even == f % 2 = 0
<1>1. /\ f \in Int /\ r \in 0 .. q - 1 /\ p = q * f + r
      /\ g \in Int /\ t \in 0 .. q - 1 /\ s = q * g + t
  BY DivisionIs
<1>2. /\ RoundDiv(p, q) = IF 2 * r < q \/ (2 * r = q /\ f % 2 = 0) THEN f ELSE f + 1
      /\ RoundDiv(s, q) = IF 2 * t < q \/ (2 * t = q /\ g % 2 = 0) THEN g ELSE g + 1
  BY DEF RoundDiv
<1> HIDE DEF f, r, g, t
<1>3. CASE f > g
  <2>1. f >= g + 1
    BY <1>1, <1>3
  <2>2. q * f >= q * (g + 1)
    BY <1>1, <2>1
  <2>3. q * (g + 1) = q * g + q /\ q * f \in Int /\ q * g \in Int
    BY <1>1
  <2> QED BY <1>1, <2>2, <2>3
<1>4. CASE f = g
  <2>1. r <= t
    <3> DEFINE x == q * f
    <3>1. x \in Int /\ p = x + r /\ s = x + t
      BY <1>1, <1>4
    <3> HIDE DEF x
    <3> QED BY <1>1, <3>1
  <2> QED BY <1>1, <1>2, <1>4, <2>1
<1>5. CASE f < g
  <2>1. RoundDiv(p, q) <= f + 1 /\ g <= RoundDiv(s, q) /\ RoundDiv(p, q) \in Int /\ RoundDiv(s, q) \in Int
    BY <1>1, <1>2
  <2> QED BY <1>1, <1>5, <2>1
<1> QED BY <1>1, <1>3, <1>4, <1>5

LEMMA RoundDivExact ==
  ASSUME NEW y \in Int, NEW q \in Nat \ {0}
  PROVE  RoundDiv(y * q, q) = y
<1> DEFINE p == y * q
           f == p \div q
           r == p % q
<1>1. p \in Int
  OBVIOUS
<1>2. f \in Int /\ r \in 0 .. q - 1 /\ p = q * f + r
  BY <1>1, DivisionIs
<1>3. RoundDiv(p, q) = IF 2 * r < q \/ (2 * r = q /\ f % 2 = 0) THEN f ELSE f + 1
  BY DEF RoundDiv
<1> HIDE DEF f, r
<1>4. f = y
  <2>1. CASE f > y
    <3>1. q * f >= q * (y + 1) /\ q * (y + 1) = y * q + q
      BY <1>2, <2>1
    <3> QED BY <1>2, <3>1
  <2>2. CASE f < y
    <3>1. q * (f + 1) <= y * q /\ q * (f + 1) = q * f + q
      BY <1>2, <2>2
    <3> QED BY <1>2, <3>1
  <2> QED BY <1>2, <2>1, <2>2
<1>5. r = 0
  BY <1>2, <1>4
<1> QED BY <1>3, <1>4, <1>5

\* A line from y to z over a step of d, d # 0, stays between them and rises with x.
LEMMA LineIs ==
  ASSUME NEW y \in Nat, NEW z \in Nat, y <= z, NEW d \in Nat \ {0}, NEW x \in 0 .. d
  PROVE  /\ y * d + (z - y) * x \in Int
         /\ y <= RoundDiv(y * d + (z - y) * x, d) /\ RoundDiv(y * d + (z - y) * x, d) <= z
         /\ \A v \in x .. d : RoundDiv(y * d + (z - y) * x, d) <= RoundDiv(y * d + (z - y) * v, d)
<1> DEFINE e == z - y
<1>1. e \in Nat /\ z = y + e
  OBVIOUS
<1> HIDE DEF e
<1>2. ASSUME NEW u \in 0 .. d, NEW v \in u .. d
      PROVE  e * u \in Nat /\ e * v \in Nat /\ e * u <= e * v
  BY <1>1
<1>3. y * d \in Nat /\ e * d \in Nat /\ z * d = y * d + e * d /\ z * d \in Nat
  BY <1>1
<1>4. ASSUME NEW u \in 0 .. d, NEW v \in u .. d
      PROVE  /\ y * d + e * u \in Int /\ y * d + e * v \in Int
             /\ RoundDiv(y * d + e * u, d) <= RoundDiv(y * d + e * v, d)
  <2>1. /\ y * d + e * u \in Int /\ y * d + e * v \in Int /\ y * d + e * u <= y * d + e * v
    BY <1>2, <1>3
  <2> QED BY <2>1, RoundDivMonotone
<1>5. RoundDiv(y * d + e * 0, d) = y
  <2>1. y * d + e * 0 = y * d
    BY <1>1, <1>3
  <2> QED BY <2>1, RoundDivExact
<1>6. RoundDiv(y * d + e * d, d) = z
  <2>1. y * d + e * d = z * d
    BY <1>3
  <2> QED BY <2>1, RoundDivExact
<1>7. 0 \in 0 .. d /\ x \in 0 .. d /\ d \in x .. d
  OBVIOUS
<1> QED BY <1>4, <1>5, <1>6, <1>7 DEF e

\* The place of x in xs, and the value read there.
InterpAt(x, xs, ys, k) ==
  /\ k \in 1 .. Len(xs) /\ xs[k] <= x /\ (k = Len(xs) \/ x < xs[k + 1])
  /\ Interp(x, xs, ys, 1) =
       IF k = Len(xs) THEN RoundDiv(ys[Len(xs)], 1)
       ELSE RoundDiv(ys[k] * (xs[k + 1] - xs[k]) + (ys[k + 1] - ys[k]) * (x - xs[k]),
                     (xs[k + 1] - xs[k]) * 1)

LEMMA InterpIs ==
  ASSUME NEW xs \in Seq(Nat), NEW ys, Len(xs) # 0, NEW x \in Nat, xs[1] <= x
  PROVE  \E k \in 1 .. Len(xs) : InterpAt(x, xs, ys, k)
<1> DEFINE n == Len(xs)
           Place(k) == xs[k] <= x /\ (k = n \/ x < xs[k + 1])
           T == {l \in 0 .. n - 1 : xs[n - l] <= x}
<1>1. n \in Nat /\ n # 0 /\ \A k \in 1 .. n : xs[k] \in Nat
  BY ElementOfSeq, LenProperties
<1> HIDE DEF n
<1>2. T \in SUBSET Nat /\ T # {}
  <2>1. n - 1 \in 0 .. n - 1 /\ n - (n - 1) = 1
    BY <1>1
  <2>2. xs[n - (n - 1)] <= x
    BY <2>1, Zenon
  <2>3. n - 1 \in T
    BY <2>1, <2>2, Zenon
  <2>4. T \in SUBSET Nat
    BY <1>1
  <2> QED BY <2>3, <2>4, Zenon
<1>3. PICK l \in T : \A v \in T : l <= v
  <2> HIDE DEF T
  <2> QED BY <1>2, LeastExists
<1>4. n - l \in 1 .. n /\ Place(n - l)
  <2>1. n - l \in 1 .. n /\ xs[n - l] <= x
    BY <1>1
  <2>2. CASE l = 0
    BY <1>1, <2>1, <2>2
  <2>3. CASE l # 0
    <3>1. l - 1 \in 0 .. n - 1 /\ n - (l - 1) = (n - l) + 1 /\ ~(l <= l - 1)
      BY <1>1, <2>3
    <3>4. l - 1 \notin T
      <4> HIDE DEF T
      <4> QED BY <1>3, <3>1
    <3>2. ~(xs[(n - l) + 1] <= x) /\ (n - l) + 1 \in 1 .. n
      BY <1>1, <2>3, <3>1, <3>4
    <3>3. x < xs[(n - l) + 1]
      BY <1>1, <3>2
    <3> QED BY <2>1, <3>3
  <2> QED BY <2>1, <2>2, <2>3
<1> DEFINE k == CHOOSE k \in 1 .. n : xs[k] <= x /\ (k = n \/ x < xs[k + 1])
<1>5. k \in 1 .. n /\ Place(k)
  BY <1>4
<1>6. Interp(x, xs, ys, 1) =
        IF k = n THEN RoundDiv(ys[n], 1)
        ELSE RoundDiv(ys[k] * (xs[k + 1] - xs[k]) + (ys[k + 1] - ys[k]) * (x - xs[k]),
                      (xs[k + 1] - xs[k]) * 1)
  BY DEF Interp, n
<1> HIDE DEF k
<1> QED BY <1>5, <1>6 DEF InterpAt, n

Ascending(s) == \A k \in 1 .. Len(s) - 1 : s[k] <= s[k + 1]

LEMMA AscendingIs ==
  ASSUME NEW s \in Seq(Nat), Ascending(s), NEW k \in 1 .. Len(s), NEW l \in k .. Len(s)
  PROVE  s[k] <= s[l]
<1> DEFINE n == Len(s)
           G == {e \in 0 .. n - k : s[k] <= s[k + e]}
<1>1. n \in Nat /\ \A i \in 1 .. n : s[i] \in Nat
  BY ElementOfSeq, LenProperties
<1>2. \A i \in 1 .. n - 1 : s[i] <= s[i + 1]
  BY DEF Ascending
<1> HIDE DEF n
<1>3. n - k \in Nat /\ k \in 1 .. n /\ l \in k .. n
  BY <1>1 DEF n
<1>4. 0 \in G
  BY <1>1, <1>3
<1>5. ASSUME NEW e \in 0 .. (n - k) - 1, e \in G PROVE e + 1 \in G
  <2>1. k + e \in 1 .. n - 1 /\ k + e \in 1 .. n /\ (k + e) + 1 \in 1 .. n /\ k + (e + 1) = (k + e) + 1
    BY <1>1, <1>3
  <2>2. s[k] <= s[k + e] /\ s[k + e] <= s[(k + e) + 1]
    BY <1>2, <1>5, <2>1
  <2>3. s[k] <= s[k + (e + 1)]
    BY <1>1, <1>3, <2>1, <2>2
  <2> QED BY <1>3, <2>3
<1>6. 0 .. n - k \subseteq G
  <2> HIDE DEF G
  <2> QED BY <1>3, <1>4, <1>5, Induct
<1>7. l - k \in 0 .. n - k /\ k + (l - k) = l
  BY <1>1, <1>3
<1> QED BY <1>6, <1>7

LEMMA InterpValue ==
  ASSUME NEW xs \in Seq(Nat), NEW ys \in Seq(Nat), Len(ys) = Len(xs), Ascending(ys),
         NEW x \in Nat, NEW k, InterpAt(x, xs, ys, k)
  PROVE  /\ Interp(x, xs, ys, 1) \in Nat /\ ys[k] <= Interp(x, xs, ys, 1)
         /\ k # Len(xs) => Interp(x, xs, ys, 1) <= ys[k + 1]
         /\ \A v \in Nat : x <= v /\ InterpAt(v, xs, ys, k) => Interp(x, xs, ys, 1) <= Interp(v, xs, ys, 1)
<1> DEFINE n == Len(xs)
<1>1. n \in Nat /\ k \in 1 .. n /\ (\A i \in 1 .. n : xs[i] \in Nat /\ ys[i] \in Nat)
  BY ElementOfSeq, LenProperties DEF InterpAt
<1>2. CASE k = n
  <2>1. \A v \in Nat : InterpAt(v, xs, ys, k) => Interp(v, xs, ys, 1) = RoundDiv(ys[n], 1)
    BY <1>2 DEF InterpAt
  <2>2. RoundDiv(ys[n], 1) = ys[n]
    <3> DEFINE y == ys[n]
    <3>1. y \in Nat /\ y * 1 = y
      BY <1>1, <1>2
    <3> HIDE DEF y
    <3>2. RoundDiv(y * 1, 1) = y
      BY <3>1, RoundDivExact
    <3> QED BY <3>1, <3>2 DEF y
  <2> QED BY <1>1, <1>2, <2>1, <2>2
<1>3. CASE k # n
  <2> DEFINE y == ys[k]
             z == ys[k + 1]
             d == xs[k + 1] - xs[k]
             At(v) == RoundDiv(y * d + (z - y) * (v - xs[k]), d)
  <2>1. k + 1 \in 1 .. n /\ k \in 1 .. n - 1
    BY <1>1, <1>3
  <2>2. y \in Nat /\ z \in Nat /\ y <= z
    BY <1>1, <2>1 DEF Ascending
  <2>3. \A v \in Nat : InterpAt(v, xs, ys, k) => d \in Nat \ {0} /\ v - xs[k] \in 0 .. d
    <3> SUFFICES ASSUME NEW v \in Nat, InterpAt(v, xs, ys, k) PROVE d \in Nat \ {0} /\ v - xs[k] \in 0 .. d
      OBVIOUS
    <3> DEFINE b == xs[k]
               c == xs[k + 1]
    <3>1. b \in Nat /\ c \in Nat
      BY <1>1, <2>1
    <3>2. b <= v /\ v < c
      BY <1>3, Zenon DEF InterpAt
    <3> HIDE DEF b, c
    <3>3. c - b \in Nat \ {0} /\ v - b \in 0 .. c - b
      BY <3>1, <3>2
    <3> QED BY <3>3 DEF b, c
  <2>4. ASSUME NEW v \in Nat, InterpAt(v, xs, ys, k) PROVE Interp(v, xs, ys, 1) = At(v)
    <3>1. d * 1 = d
      BY <2>3, <2>4
    <3>2. Interp(v, xs, ys, 1) = RoundDiv(y * d + (z - y) * (v - xs[k]), d * 1)
      BY <1>3, <2>4 DEF InterpAt
    <3> HIDE DEF y, d, z
    <3> QED BY <3>1, <3>2
  <2> HIDE DEF y, z, d
  <2>5. ASSUME NEW v \in Nat, x <= v, InterpAt(v, xs, ys, k)
        PROVE  At(x) \in Nat /\ y <= At(x) /\ At(x) <= z /\ At(x) <= At(v)
    <3> DEFINE e == x - xs[k]
               f == v - xs[k]
    <3>1. d \in Nat \ {0} /\ e \in 0 .. d /\ f \in 0 .. d
      BY <2>3, <2>5
    <3>2. f \in e .. d
      BY <1>1, <2>5, <3>1
    <3> HIDE DEF e, f
    <3>3. /\ y * d + (z - y) * e \in Int
          /\ y <= RoundDiv(y * d + (z - y) * e, d) /\ RoundDiv(y * d + (z - y) * e, d) <= z
          /\ RoundDiv(y * d + (z - y) * e, d) <= RoundDiv(y * d + (z - y) * f, d)
      BY <2>2, <3>1, <3>2, LineIs
    <3>4. RoundDiv(y * d + (z - y) * e, d) \in Int
      BY <3>1, <3>3, RoundDivIs
    <3>5. RoundDiv(y * d + (z - y) * e, d) \in Nat
      <4> DEFINE r == RoundDiv(y * d + (z - y) * e, d)
      <4>1. r \in Int /\ y <= r
        BY <3>3, <3>4
      <4> HIDE DEF r
      <4>2. r \in Nat
        BY <2>2, <4>1
      <4> QED BY <4>2 DEF r
    <3> QED BY <3>3, <3>5 DEF e, f
  <2> HIDE DEF At
  <2>6. x <= x
    OBVIOUS
  <2>7. At(x) \in Nat /\ y <= At(x) /\ At(x) <= z
    BY <2>5, <2>6
  <2>8. Interp(x, xs, ys, 1) = At(x)
    BY <2>4
  <2> QED BY <2>4, <2>5, <2>7, <2>8 DEF y, z
<1> QED BY <1>2, <1>3

\* A later time is not read off as an earlier one.
LEMMA InterpMonotone ==
  ASSUME NEW xs \in Seq(Nat), NEW ys \in Seq(Nat), Len(ys) = Len(xs), Len(xs) # 0,
         Ascending(xs), Ascending(ys), NEW x \in Nat, NEW v \in Nat, xs[1] <= x, x <= v
  PROVE  /\ Interp(x, xs, ys, 1) \in Nat /\ Interp(v, xs, ys, 1) \in Nat
         /\ Interp(x, xs, ys, 1) <= Interp(v, xs, ys, 1)
<1> DEFINE n == Len(xs)
<1>1. n \in Nat /\ n # 0 /\ (\A i \in 1 .. n : xs[i] \in Nat /\ ys[i] \in Nat)
  BY ElementOfSeq, LenProperties
<1>2. xs[1] <= v
  BY <1>1
<1>3. PICK k \in 1 .. n : InterpAt(x, xs, ys, k)
  BY InterpIs
<1>4. PICK l \in 1 .. n : InterpAt(v, xs, ys, l)
  BY <1>2, InterpIs
<1> DEFINE p == Interp(x, xs, ys, 1)
           q == Interp(v, xs, ys, 1)
<1>5. p \in Nat /\ q \in Nat /\ ys[l] <= q /\ (k # n => p <= ys[k + 1])
  BY <1>3, <1>4, InterpValue
<1>6. k <= l
  <2> SUFFICES ASSUME l < k PROVE FALSE
    BY <1>1
  <2>1. l + 1 \in 1 .. n /\ k \in (l + 1) .. n /\ l # n
    BY <1>1
  <2>2. xs[l + 1] <= xs[k]
    BY <2>1, AscendingIs
  <2>3. v < xs[l + 1] /\ xs[k] <= x
    BY <1>3, <1>4, <2>1 DEF InterpAt
  <2> QED BY <1>1, <2>1, <2>2, <2>3
<1>7. p <= q
  <2>1. CASE k = l
    BY <1>3, <1>4, <2>1, InterpValue
  <2>2. CASE k # l
    <3>1. k + 1 \in 1 .. n /\ l \in (k + 1) .. n /\ k # n
      BY <1>1, <1>6, <2>2
    <3>2. ys[k + 1] <= ys[l]
      BY <3>1, AscendingIs
    <3> HIDE DEF p, q
    <3> QED BY <1>1, <1>5, <3>1, <3>2, SMTT(30)
  <2> QED BY <2>1, <2>2
<1> QED BY <1>5, <1>7

LEMMA ColumnIs ==
  ASSUME NEW n \in Nat, NEW m \in Nat, n # 0, NEW p \in Paths(n, m), Forward(p, n, m),
         NEW c \in {1, 2}, NEW hop \in Nat
  PROVE  /\ Len(p) # 0 /\ Len(p) \in Nat
         /\ Column(p, c, hop) \in Seq(Nat) /\ Len(Column(p, c, hop)) = Len(p)
         /\ Column(p, c, hop)[1] = 0 /\ Ascending(Column(p, c, hop))
<1> DEFINE l == Len(p)
           s == Column(p, c, hop)
<1>1. l \in Nat /\ l # 0 /\ p[1] = <<0, 0>> /\ \A k \in 1 .. l - 1 : p[k][c] <= p[k + 1][c]
  BY LenProperties DEF Forward, Paths
<1>2. \A k \in 1 .. l : p[k] \in (0 .. n - 1) \X (0 .. m - 1)
  BY ElementOfSeq DEF Paths
<1> HIDE DEF l
<1>3. \A k \in 1 .. l : p[k][c] \in Nat
  BY <1>2
<1>4. s = [k \in 1 .. l |-> p[k][c] * hop]
  BY DEF Column, l
<1>5. \A k \in 1 .. l : s[k] = p[k][c] * hop /\ s[k] \in Nat
  <2> SUFFICES ASSUME NEW k \in 1 .. l PROVE s[k] = p[k][c] * hop /\ s[k] \in Nat
    OBVIOUS
  <2> DEFINE e == p[k][c]
  <2>1. e \in Nat
    BY <1>3
  <2>2. s[k] = e * hop
    BY <1>4
  <2> HIDE DEF e, s
  <2>3. e * hop \in Nat
    BY <2>1
  <2> QED BY <2>2, <2>3 DEF e
<1> HIDE DEF s
<1>6. s \in Seq(Nat) /\ Len(s) = l
  <2>1. s \in [1 .. l -> Nat]
    BY <1>4, <1>5
  <2> QED BY <1>1, <2>1
<1>7. s[1] = 0
  BY <1>1, <1>5
<1>8. ASSUME NEW k \in 1 .. l - 1 PROVE s[k] <= s[k + 1]
  <2> DEFINE e == p[k][c]
             f == p[k + 1][c]
  <2>1. k \in 1 .. l /\ k + 1 \in 1 .. l
    BY <1>1
  <2>2. e \in Nat /\ f \in Nat /\ e <= f /\ s[k] = e * hop /\ s[k + 1] = f * hop
    BY <1>1, <1>3, <1>5, <2>1
  <2> HIDE DEF e, f
  <2>3. e * hop <= f * hop
    BY <2>2
  <2> QED BY <2>2, <2>3
<1> QED BY <1>1, <1>6, <1>7, <1>8 DEF Ascending, s, l

LEMMA ProjectionMonotone ==
  ASSUME NEW n \in Nat, NEW m \in Nat, n # 0, NEW p \in Paths(n, m), Forward(p, n, m),
         NEW i \in Nat, NEW j \in Nat, i <= j
  PROVE  /\ UserToReference(p, Stride, i) \in Nat /\ UserToReference(p, Stride, j) \in Nat
         /\ UserToReference(p, Stride, i) <= UserToReference(p, Stride, j)
<1> DEFINE xs == Column(p, 1, Stride)
           ys == Column(p, 2, Stride)
<1>1. /\ xs \in Seq(Nat) /\ ys \in Seq(Nat) /\ Len(ys) = Len(xs) /\ Len(xs) # 0
      /\ xs[1] = 0 /\ Ascending(xs) /\ Ascending(ys)
  BY ColumnIs, StrideAssumption
<1>2. xs[1] <= i
  BY <1>1
<1> HIDE DEF xs, ys
<1>3. /\ Interp(i, xs, ys, 1) \in Nat /\ Interp(j, xs, ys, 1) \in Nat
      /\ Interp(i, xs, ys, 1) <= Interp(j, xs, ys, 1)
  BY <1>1, <1>2, InterpMonotone
<1> QED BY <1>3 DEF UserToReference, xs, ys

LEMMA ClipIs ==
  ASSUME NEW m \in Nat, NEW x \in Int, NEW y \in Int, x <= y
  PROVE  Clip(x, 0, m) \in 0 .. m /\ Clip(y, 0, m) \in 0 .. m /\ Clip(x, 0, m) <= Clip(y, 0, m)
BY DEF Clip

\* The centre of the fine pass: forward, from corner to corner.
CornerToCorner(center, n, m) ==
  /\ center \in [0 .. n -> Int] /\ center[0] = 0 /\ center[n] = m
  /\ \A i \in 1 .. n : center[i - 1] <= center[i]

LEMMA CenterIs ==
  ASSUME NEW n \in Nat, NEW m \in Nat, n # 0,
         NEW k \in Nat, NEW l \in Nat, k # 0, NEW p \in Paths(k, l), Forward(p, k, l)
  PROVE  CornerToCorner(RefineCenter(p, n, m), n, m)
<1> DEFINE U(i) == UserToReference(p, Stride, i - 1)
           raw == [i \in 0 .. n |-> IF i = 0 THEN 0 ELSE Clip(UserToReference(p, Stride, i - 1), 0, m)]
           gap == m - raw[n]
           spread(i) == RoundDiv(gap * i, n)
           center == RefineCenter(p, n, m)
<1>1. \A i \in 0 .. n : raw[i] = IF i = 0 THEN 0 ELSE Clip(U(i), 0, m)
  OBVIOUS
<1>2. center = [i \in 0 .. n |-> CASE i = 0          -> 0
                                   [] i # 0 /\ i = n -> m
                                   [] OTHER          -> Clip(raw[i] + spread(i), 0, m)]
  BY DEF RefineCenter
<1>3. \A i \in 1 .. n, j \in 1 .. n : i <= j => U(i) \in Nat /\ U(j) \in Nat /\ U(i) <= U(j)
  <2> SUFFICES ASSUME NEW i \in 1 .. n, NEW j \in 1 .. n, i <= j
               PROVE  U(i) \in Nat /\ U(j) \in Nat /\ U(i) <= U(j)
    OBVIOUS
  <2>1. i - 1 \in Nat /\ j - 1 \in Nat /\ i - 1 <= j - 1
    OBVIOUS
  <2> QED BY <2>1, ProjectionMonotone
<1> HIDE DEF raw, U, center
<1>4. \A i \in 0 .. n : raw[i] \in 0 .. m
  BY <1>1, <1>3, ClipIs
<1>5. \A i \in 1 .. n, j \in 1 .. n : i <= j => raw[i] <= raw[j]
  BY <1>1, <1>3, ClipIs
<1>6. gap \in Nat
  BY <1>4
<1> HIDE DEF gap
<1>7. \A i \in 0 .. n, j \in 0 .. n : i <= j => spread(i) \in Int /\ spread(j) \in Int /\ spread(i) <= spread(j)
  <2> SUFFICES ASSUME NEW i \in 0 .. n, NEW j \in 0 .. n, i <= j
               PROVE  spread(i) \in Int /\ spread(j) \in Int /\ spread(i) <= spread(j)
    OBVIOUS
  <2>1. gap * i \in Int /\ gap * j \in Int /\ gap * i <= gap * j
    BY <1>6
  <2> QED BY <2>1, RoundDivIs, RoundDivMonotone
<1> HIDE DEF spread
<1>8. /\ center[0] = 0 /\ center[n] = m
      /\ \A i \in 1 .. n - 1 : center[i] = Clip(raw[i] + spread(i), 0, m)
  BY <1>2
<1>9. \A i \in 1 .. n - 1 : center[i] \in 0 .. m
  <2> SUFFICES ASSUME NEW i \in 1 .. n - 1 PROVE center[i] \in 0 .. m
    OBVIOUS
  <2>1. raw[i] + spread(i) \in Int
    BY <1>4, <1>7
  <2> QED BY <1>8, <2>1, ClipIs
<1>10. \A i \in 1 .. n - 2 : center[i] <= center[i + 1]
  <2> SUFFICES ASSUME NEW i \in 1 .. n - 2 PROVE center[i] <= center[i + 1]
    OBVIOUS
  <2> DEFINE x == raw[i] + spread(i)
             y == raw[i + 1] + spread(i + 1)
  <2>1. i \in 1 .. n - 1 /\ i + 1 \in 1 .. n - 1
    OBVIOUS
  <2>2. x \in Int /\ y \in Int /\ x <= y
    BY <1>4, <1>5, <1>7
  <2>3. center[i] = Clip(x, 0, m) /\ center[i + 1] = Clip(y, 0, m)
    BY <1>8, <2>1
  <2> HIDE DEF x, y
  <2> QED BY <2>2, <2>3, ClipIs
<1>11. center \in [0 .. n -> Int]
  <2>1. \A i \in 0 .. n : center[i] \in Int
    BY <1>8, <1>9
  <2>2. DOMAIN center = 0 .. n /\ center = [i \in 0 .. n |-> center[i]]
    BY <1>2
  <2> QED BY <2>1, <2>2
<1>12. ASSUME NEW i \in 1 .. n PROVE center[i - 1] <= center[i]
  <2>1. CASE i = n
    BY <1>8, <1>9, <2>1
  <2>2. CASE i # n /\ i = 1
    BY <1>8, <1>9, <2>2
  <2>3. CASE i # n /\ i # 1
    <3>1. i - 1 \in 1 .. n - 2 /\ (i - 1) + 1 = i
      BY <2>3
    <3> QED BY <1>10, <3>1
  <2> QED BY <2>1, <2>2, <2>3
<1> QED BY <1>8, <1>11, <1>12 DEF CornerToCorner, center
-----------------------------------------------------------------------------
(***************************************************************************)
(* Both passes of an attempt.                                              *)
(***************************************************************************)
LEMMA NothingOfNothing ==
  ASSUME NEW k \in Nat, CoarseLength(k) # 0 PROVE k # 0
<1> DEFINE c == CoarseLength(k)
<1>1. c \in Nat /\ c * Stride <= k + Stride - 1 /\ Stride \in Nat /\ Stride > 0
  BY CoarseLengthIs, StrideAssumption
<1>2. c # 0
  OBVIOUS
<1> HIDE DEF c
<1>3. c >= 1
  BY <1>1, <1>2
<1>4. c * Stride >= 1 * Stride
  BY <1>1, <1>3
<1> QED BY <1>1, <1>4

LEMMA AlignedHasFrames ==
  ASSUME NEW u \in Seq(Nat), NEW r \in Seq(Nat), NEW o, o = Overlap(u, r), Coarse(o).reason = "aligned"
  PROVE  u # <<>> /\ r # <<>> /\ Len(o.coarseUser) # 0 /\ Len(o.coarseReference) # 0
<1> DEFINE p == CoarseLength(Len(u))
           q == CoarseLength(Len(r))
<1>1. Len(o.coarseUser) # 0 /\ Len(o.coarseReference) # 0
  BY DEF Coarse, BandedDtw, NoPath
<1>2. Len(u) \in Nat /\ Len(r) \in Nat
  BY LenProperties
<1>3. /\ p \in Nat /\ q \in Nat
      /\ \/ Len(o.coarseUser) = p /\ Len(o.coarseReference) = q
         \/ Len(o.coarseUser) = (IF p < q THEN p ELSE q) /\ Len(o.coarseReference) = (IF p < q THEN p ELSE q)
  BY <1>2, OverlapIs, CoarseLengthIs, SMTT(30)
<1> HIDE DEF p, q
<1>4. p # 0 /\ q # 0
  BY <1>1, <1>3
<1>5. Len(u) # 0 /\ Len(r) # 0
  BY <1>2, <1>4, NothingOfNothing DEF p, q
<1> QED BY <1>1, <1>5, EmptySeq

\* What the fine pass follows runs from corner to corner.
LEMMA CenterOfAttempt ==
  ASSUME NEW u \in Seq(Nat), NEW r \in Seq(Nat), NEW o, o = Overlap(u, r), Coarse(o).reason = "aligned"
  PROVE  CornerToCorner(Center(o, Coarse(o)), Len(o.user), Len(o.reference))
<1> DEFINE cu == o.coarseUser
           cr == o.coarseReference
           path == Coarse(o).path
<1>1. /\ cu \in Seq(Nat) /\ cr \in Seq(Nat) /\ o.user \in Seq(Nat) /\ o.reference \in Seq(Nat)
  BY OverlapIs
<1>2. Len(cu) \in Nat /\ Len(cr) \in Nat /\ Len(o.user) \in Nat /\ Len(o.reference) \in Nat
  BY <1>1, LenProperties
<1>3. u # <<>> /\ r # <<>> /\ Len(cu) # 0 /\ Len(cr) # 0
  BY AlignedHasFrames
<1>4. Len(o.user) # 0
  BY <1>3, FinePassTooLarge
<1>5. Diagonal(Len(cu)) \in [0 .. Len(cu) -> Int]
  BY <1>2 DEF Diagonal
<1>6. IsCheapest(Coarse(o), cu, cr, Diagonal(Len(cu)), CoarseBand)
  BY <1>1, <1>5, AlignAssumption, PassIsCheapest DEF Coarse
<1>7. path \in Warpings(Len(cu), Len(cr), Diagonal(Len(cu)), CoarseBand)
  BY <1>6 DEF IsCheapest
<1> HIDE DEF path
<1>8. path \in Paths(Len(cu), Len(cr)) /\ Forward(path, Len(cu), Len(cr))
  BY <1>2, <1>7, WarpingsGoForward
<1> HIDE DEF cu, cr
<1>9. CornerToCorner(RefineCenter(path, Len(o.user), Len(o.reference)), Len(o.user), Len(o.reference))
  BY <1>2, <1>3, <1>4, <1>8, CenterIs
<1> QED BY <1>9 DEF Center, path
-----------------------------------------------------------------------------
(***************************************************************************)
(* Which cells a band reaches: the last one, unless the band jumps.        *)
(***************************************************************************)
ReachedCells(R, n, m, center, band) ==
  /\ <<0, 0>> \in R
  /\ \A i \in 1 .. n : <<i, 0>> \notin R
  /\ \A j \in 1 .. m : <<0, j>> \notin R
  /\ \A i \in 1 .. n, j \in 1 .. m :
       <<i, j>> \in R <=> /\ InBand(center, band, i, j)
                          /\ <<i - 1, j - 1>> \in R \/ <<i - 1, j>> \in R \/ <<i, j - 1>> \in R

LEMMA TableReaches ==
  ASSUME NEW a \in Seq(Nat), NEW b \in Seq(Nat), NEW center \in [0 .. Len(a) -> Int], NEW band \in Nat,
         (Len(a) + 1) * (2 * band + 1) <= MaxCells,
         NEW t, t = Table(a, b, center, band)
  PROVE  ReachedCells({c \in (0 .. Len(a)) \X (0 .. Len(b)) : t[c[1] + 1][c[2]].cost < Infinity},
                      Len(a), Len(b), center, band)
<1> DEFINE n == Len(a)
           m == Len(b)
           R == {c \in (0 .. n) \X (0 .. m) : t[c[1] + 1][c[2]].cost < Infinity}
<1>1. n \in Nat /\ m \in Nat /\ Infinity \in Nat /\ Infinity # 0 /\ ~(Infinity < Infinity)
  <2>1. Infinity \in Nat /\ Infinity # 0
    BY InfinityIsNat, StrideAssumption DEF Infinity
  <2> QED BY <2>1, LenProperties
<1>2. \A i \in 0 .. n, j \in 0 .. m : <<i, j>> \in R <=> t[i + 1][j].cost < Infinity
  OBVIOUS
<1>3. \A i \in 0 .. n, j \in 0 .. m : t[i + 1][j].cost \in Nat
  BY CellCost
<1>4. t[1][0].cost = 0 /\ \A j \in 1 .. m : t[1][j].cost = Infinity
  BY TableCells DEF Unreached
<1>5. \A i \in 1 .. n : t[i + 1][0].cost = Infinity
  BY TableCells DEF Unreached
<1> HIDE DEF R
<1>6. /\ <<0, 0>> \in R
      /\ \A i \in 1 .. n : <<i, 0>> \notin R
      /\ \A j \in 1 .. m : <<0, j>> \notin R
  <2>1. <<0, 0>> \in R
    <3>1. 0 \in 0 .. n /\ 0 \in 0 .. m /\ 0 + 1 = 1
      BY <1>1
    <3> QED BY <1>1, <1>2, <1>4, <3>1
  <2>2. ASSUME NEW i \in 1 .. n PROVE <<i, 0>> \notin R
    <3>1. i \in 0 .. n /\ 0 \in 0 .. m
      BY <1>1
    <3> QED BY <1>1, <1>2, <1>5, <3>1, Zenon
  <2>3. ASSUME NEW j \in 1 .. m PROVE <<0, j>> \notin R
    <3>1. j \in 0 .. m /\ 0 \in 0 .. n /\ 0 + 1 = 1
      BY <1>1
    <3>2. <<0, j>> \in R <=> t[1][j].cost < Infinity
      BY <1>2, <3>1
    <3> QED BY <1>1, <1>4, <3>2, Zenon
  <2> QED BY <2>1, <2>2, <2>3
<1>7. ASSUME NEW i \in 1 .. n, NEW j \in 1 .. m
      PROVE  <<i, j>> \in R <=>
               /\ InBand(center, band, i, j)
               /\ <<i - 1, j - 1>> \in R \/ <<i - 1, j>> \in R \/ <<i, j - 1>> \in R
  <2> DEFINE x == t[i][j - 1].cost
             y == t[i][j].cost
             z == t[i + 1][j - 1].cost
             best == BestBefore(t, i, j).cost
  <2>1. i \in 0 .. n /\ i - 1 \in 0 .. n /\ j \in 0 .. m /\ j - 1 \in 0 .. m /\ (i - 1) + 1 = i
    BY <1>1
  <2>2. /\ <<i, j>> \in R <=> t[i + 1][j].cost < Infinity
        /\ <<i - 1, j - 1>> \in R <=> x < Infinity
        /\ <<i - 1, j>> \in R <=> y < Infinity
        /\ <<i, j - 1>> \in R <=> z < Infinity
    <3>1. <<i, j>> \in R <=> t[i + 1][j].cost < Infinity
      BY <1>2, <2>1
    <3>2. <<i - 1, j - 1>> \in R <=> t[(i - 1) + 1][j - 1].cost < Infinity
      BY <1>2, <2>1
    <3>3. <<i - 1, j>> \in R <=> t[(i - 1) + 1][j].cost < Infinity
      BY <1>2, <2>1
    <3>4. <<i, j - 1>> \in R <=> z < Infinity
      BY <1>2, <2>1
    <3> QED BY <2>1, <3>1, <3>2, <3>3, <3>4
  <2>3. CASE ~InBand(center, band, i, j)
    <3>1. t[i + 1][j] = CellOf(t[i], a, b, center, band, i, j, t[i + 1][j - 1])
      BY TableCells
    <3>2. t[i + 1][j] = Unreached
      BY <2>3, <3>1, Zenon DEF CellOf
    <3> QED BY <1>1, <2>2, <2>3, <3>2 DEF Unreached
  <2>4. CASE InBand(center, band, i, j)
    <3>1. Grows(t, a, b, i, j)
      BY <2>4, CostsStayBelow
    <3>2. t[i + 1][j].cost < Infinity <=> best < Infinity
      <4>1. t[i + 1][j].cost \in Nat
        BY <1>3, <2>1
      <4> QED BY <1>1, <3>1, <4>1 DEF Grows, Unreached
    <3>3. x \in Nat /\ y \in Nat /\ z \in Nat
      <4>1. t[(i - 1) + 1][j - 1].cost \in Nat /\ t[(i - 1) + 1][j].cost \in Nat /\ z \in Nat
        BY <1>3, <2>1
      <4> QED BY <2>1, <4>1
    <3>4. best = Cheapest(x, y, z).cost
      BY DEF BestBefore
    <3> HIDE DEF x, y, z, best
    <3>5. /\ best \in Nat /\ best <= x /\ best <= y /\ best <= z
          /\ best = x \/ best = y \/ best = z
      BY <3>3, <3>4, CheapestIs
    <3>6. best < Infinity <=> x < Infinity \/ y < Infinity \/ z < Infinity
      BY <1>1, <3>3, <3>5
    <3> QED BY <2>2, <2>4, <3>2, <3>6
  <2> QED BY <2>3, <2>4
<1> QED BY <1>6, <1>7 DEF ReachedCells, R

\* It stays within the reference.
LEMMA CenterInRange ==
  ASSUME NEW n \in Nat, NEW m \in Nat, NEW center, CornerToCorner(center, n, m)
  PROVE  \A i \in 0 .. n : center[i] \in 0 .. m
<1>1. /\ \A i \in 0 .. n : center[i] \in Int
      /\ \A i \in 1 .. n : center[i - 1] <= center[i]
  BY DEF CornerToCorner
<1> DEFINE G == {i \in 0 .. n : center[i] >= 0}
           H == {e \in 0 .. n : center[n - e] <= m}
<1>2. 0 \in G /\ 0 \in H
  BY DEF CornerToCorner
<1>3. ASSUME NEW i \in 0 .. n - 1, i \in G PROVE i + 1 \in G
  <2>1. i + 1 \in 1 .. n /\ (i + 1) - 1 = i /\ i \in 0 .. n /\ i + 1 \in 0 .. n
    OBVIOUS
  <2>2. center[i] <= center[i + 1] /\ center[i] >= 0
    <3>1. center[(i + 1) - 1] <= center[i + 1]
      BY <1>1, <2>1
    <3> QED BY <1>3, <2>1, <3>1
  <2> QED BY <1>1, <2>1, <2>2
<1>4. ASSUME NEW e \in 0 .. n - 1, e \in H PROVE e + 1 \in H
  <2> DEFINE i == n - e
  <2>1. i \in 1 .. n /\ n - (e + 1) = i - 1 /\ i \in 0 .. n /\ i - 1 \in 0 .. n
    OBVIOUS
  <2>2. center[i - 1] <= center[i] /\ center[i] <= m
    BY <1>1, <1>4, <2>1
  <2> HIDE DEF i
  <2>3. center[n - (e + 1)] <= m
    <3>1. center[i - 1] <= m
      BY <1>1, <2>1, <2>2
    <3> QED BY <2>1, <3>1
  <2> QED BY <2>3
<1>5. 0 .. n \subseteq G /\ 0 .. n \subseteq H
  <2> HIDE DEF G, H
  <2> QED BY <1>2, <1>3, <1>4, Induct
<1> SUFFICES ASSUME NEW i \in 0 .. n PROVE center[i] \in 0 .. m
  OBVIOUS
<1>6. i \in G /\ n - i \in H /\ n - (n - i) = i
  BY <1>5
<1>7. center[i] >= 0 /\ center[i] <= m /\ center[i] \in Int
  BY <1>1, <1>6
<1> QED BY <1>7

\* Where the band never begins past the column after its last one, it reaches the corner.
LEMMA NoJumpReaches ==
  ASSUME NEW n \in Nat, NEW m \in Nat, n # 0, m # 0, NEW band \in Nat, 1 <= band,
         NEW center, CornerToCorner(center, n, m), ~BandJumps(center, band, n),
         NEW R, ReachedCells(R, n, m, center, band)
  PROVE  <<n, m>> \in R
<1> DEFINE hi(i) == IF i = 0 THEN 0 ELSE IF center[i] + band < m THEN center[i] + band ELSE m
<1>1. \A i \in 0 .. n : center[i] \in 0 .. m
  BY CenterInRange
<1>2. \A i \in 1 .. n : hi(i) \in 1 .. m /\ hi(i) <= center[i] + band
  BY <1>1
<1> DEFINE G == {i \in 0 .. n : <<i, hi(i)>> \in R}
<1>3. 0 \in G
  BY DEF ReachedCells
<1>4. ASSUME NEW i \in 0 .. n - 1, i \in G PROVE i + 1 \in G
  <2> DEFINE k == i + 1
             lo == center[k] - band
             s == IF i # 0 /\ lo <= hi(i) THEN hi(i) ELSE hi(i) + 1
  <2>1. k \in 1 .. n /\ k - 1 = i /\ i \in Nat
    OBVIOUS
  <2>2. center[i] \in 0 .. m /\ center[k] \in 0 .. m /\ center[i] <= center[k]
    <3>1. center[k - 1] <= center[k]
      BY <2>1 DEF CornerToCorner
    <3> QED BY <1>1, <2>1, <3>1
  <2>3. IF i = 0 THEN center[k] <= band + 1 ELSE center[k] - center[i] <= 2 * band + 1
    <3>1. CASE i = 0
      BY <1>1, <2>1, <2>2, <3>1 DEF BandJumps
    <3>2. CASE i # 0
      <4>1. k \in 2 .. n /\ ~(center[k] - center[k - 1] > 2 * band + 1)
        BY <2>1, <3>2 DEF BandJumps
      <4> DEFINE x == center[k]
                 y == center[i]
      <4>2. ~(x - y > 2 * band + 1) /\ x \in Int /\ y \in Int
        BY <2>1, <2>2, <4>1
      <4> HIDE DEF x, y
      <4>3. x - y <= 2 * band + 1
        BY <4>2
      <4> QED BY <3>2, <4>3 DEF x, y
    <3> QED BY <3>1, <3>2
  <2>4. /\ s \in 1 .. m /\ lo <= s /\ s <= hi(k)
        /\ <<i, s>> \in R \/ <<i, s - 1>> \in R
    <3> DEFINE x == center[k]
               y == center[i]
               h == hi(i)
               g == hi(k)
    <3>1. /\ i = 0 => h = 0
          /\ i # 0 => h \in 1 .. m /\ h <= y + band /\ (h = y + band \/ h = m)
          /\ g = IF x + band < m THEN x + band ELSE m
      BY <1>2, <2>1, <2>2
    <3>2. /\ x \in 0 .. m /\ y \in 0 .. m /\ y <= x
          /\ IF i = 0 THEN x <= band + 1 ELSE x - y <= 2 * band + 1
          /\ s = IF i # 0 /\ x - band <= h THEN h ELSE h + 1
          /\ <<i, h>> \in R
      BY <1>4, <2>2, <2>3
    <3> HIDE DEF x, y, h, g, s, hi
    <3>3. s \in 1 .. m /\ x - band <= s /\ s <= g /\ (s = h \/ s - 1 = h)
      <4>1. CASE i = 0
        BY <3>1, <3>2, <4>1
      <4>2. CASE i # 0
        BY <3>1, <3>2, <4>2
      <4> QED BY <4>1, <4>2
    <3> QED BY <3>2, <3>3 DEF x, g
  <2> DEFINE H == {e \in 0 .. hi(k) - s : <<k, s + e>> \in R}
  <2>5. hi(k) \in 1 .. m /\ hi(k) <= center[k] + band /\ hi(k) - s \in Nat
    <3>1. hi(k) \in 1 .. m /\ hi(k) <= center[k] + band
      BY <1>2, <2>1
    <3> HIDE DEF hi, s
    <3> QED BY <2>4, <3>1
  <2> HIDE DEF hi, s, k
  <2>6. \A j \in s .. hi(k) : j \in 1 .. m /\ InBand(center, band, k, j)
    <3> SUFFICES ASSUME NEW j \in s .. hi(k) PROVE j \in 1 .. m /\ InBand(center, band, k, j)
      OBVIOUS
    <3> DEFINE x == center[k]
    <3>1. x \in 0 .. m /\ x - band <= s /\ hi(k) <= x + band /\ s \in 1 .. m /\ hi(k) \in 1 .. m
      BY <2>2, <2>4, <2>5
    <3> HIDE DEF x
    <3>2. j \in 1 .. m /\ x - band <= j /\ j <= x + band
      BY <3>1
    <3> QED BY <3>2 DEF InBand, x
  <2>7. 0 \in H
    <3>1. s \in s .. hi(k) /\ s + 0 = s /\ 0 \in 0 .. hi(k) - s
      BY <2>4, <2>5
    <3>2. <<k - 1, s>> \in R \/ <<k - 1, s - 1>> \in R
      BY <2>1, <2>4
    <3>3. <<k, s>> \in R
      BY <2>1, <2>6, <3>1, <3>2 DEF ReachedCells
    <3> QED BY <3>1, <3>3
  <2>8. ASSUME NEW e \in 0 .. (hi(k) - s) - 1, e \in H PROVE e + 1 \in H
    <3> DEFINE j == s + (e + 1)
    <3>1. j \in s .. hi(k) /\ j - 1 = s + e /\ e + 1 \in 0 .. hi(k) - s
      BY <2>4, <2>5
    <3>2. <<k, j - 1>> \in R
      BY <2>8, <3>1
    <3> HIDE DEF j
    <3>3. <<k, j>> \in R
      BY <2>1, <2>6, <3>1, <3>2 DEF ReachedCells
    <3> QED BY <3>1, <3>3 DEF j
  <2>9. 0 .. hi(k) - s \subseteq H
    <3> HIDE DEF H
    <3> QED BY <2>5, <2>7, <2>8, Induct
  <2>10. <<k, hi(k)>> \in R
    <3>1. hi(k) - s \in H /\ s + (hi(k) - s) = hi(k)
      BY <2>4, <2>5, <2>9
    <3> QED BY <3>1
  <2> QED BY <2>1, <2>10 DEF k
<1>5. n \in G
  <2>1. 0 .. n \subseteq G
    <3> HIDE DEF G
    <3> QED BY <1>3, <1>4, Induct
  <2> QED BY <2>1
<1>6. hi(n) = m
  BY DEF CornerToCorner
<1> QED BY <1>5, <1>6

\* Where it does, no cell of that row is reached, and none of any row after it.
LEMMA JumpStops ==
  ASSUME NEW n \in Nat, NEW m \in Nat, n # 0, m # 0, NEW band \in Nat,
         NEW center, CornerToCorner(center, n, m), BandJumps(center, band, n),
         NEW R, ReachedCells(R, n, m, center, band)
  PROVE  <<n, m>> \notin R
<1> DEFINE Dead(i) == \A j \in 0 .. m : <<i, j>> \notin R
<1>1. \A i \in 0 .. n : center[i] \in 0 .. m
  BY CenterInRange
<1>2. ASSUME NEW i \in 1 .. n,
             \A j \in 1 .. m : InBand(center, band, i, j) =>
                                 <<i - 1, j>> \notin R /\ <<i - 1, j - 1>> \notin R
      PROVE  Dead(i)
  <2> DEFINE H == {j \in 0 .. m : <<i, j>> \notin R}
  <2>1. 0 \in H
    BY DEF ReachedCells
  <2>2. ASSUME NEW j \in 0 .. m - 1, j \in H PROVE j + 1 \in H
    <3> DEFINE l == j + 1
    <3>1. l \in 1 .. m /\ l - 1 = j
      OBVIOUS
    <3>2. <<i, l - 1>> \notin R
      BY <2>2, <3>1
    <3> HIDE DEF l
    <3>3. <<i, l>> \notin R
      BY <1>2, <3>1, <3>2 DEF ReachedCells
    <3> QED BY <3>1, <3>3 DEF l
  <2>3. 0 .. m \subseteq H
    <3> HIDE DEF H
    <3> QED BY <2>1, <2>2, Induct
  <2> QED BY <2>3
<1>3. PICK i \in 1 .. n : center[i] - band > (IF i = 1 THEN 1 ELSE center[i - 1] + band + 1)
  <2>1. CASE center[1] > band + 1
    <3>1. 1 \in 1 .. n /\ center[1] \in 0 .. m
      BY <1>1
    <3> DEFINE x == center[1]
    <3>2. x - band > 1
      <4>1. x \in Int /\ x > band + 1
        BY <2>1, <3>1
      <4> HIDE DEF x
      <4> QED BY <4>1
    <3> QED BY <3>1, <3>2
  <2>2. CASE \E i \in 2 .. n : center[i] - center[i - 1] > 2 * band + 1
    <3>1. PICK i \in 2 .. n : center[i] - center[i - 1] > 2 * band + 1
      BY <2>2
    <3>2. i \in 1 .. n /\ i # 1 /\ i \in 0 .. n /\ i - 1 \in 0 .. n
      OBVIOUS
    <3> DEFINE x == center[i]
               y == center[i - 1]
    <3>3. x \in Int /\ y \in Int
      BY <1>1, <3>2
    <3>4. x - band > y + band + 1
      <4>1. x - y > 2 * band + 1
        BY <3>1
      <4> HIDE DEF x, y
      <4> QED BY <3>3, <4>1
    <3> QED BY <3>2, <3>4
  <2> QED BY <2>1, <2>2 DEF BandJumps
<1>4. Dead(i)
  <2> SUFFICES ASSUME NEW j \in 1 .. m, InBand(center, band, i, j)
               PROVE  <<i - 1, j>> \notin R /\ <<i - 1, j - 1>> \notin R
    BY <1>2
  <2> DEFINE x == center[i]
  <2>1. x \in 0 .. m /\ x - band <= j
    <3>1. i \in 0 .. n
      OBVIOUS
    <3> QED BY <1>1, <3>1 DEF InBand
  <2>2. CASE i = 1
    <3>1. x - band > 1
      BY <1>3, <2>2
    <3> HIDE DEF x
    <3>2. j \in 1 .. m /\ j - 1 \in 1 .. m /\ i - 1 = 0
      BY <2>1, <2>2, <3>1
    <3> QED BY <3>2 DEF ReachedCells
  <2>3. CASE i # 1
    <3> DEFINE k == i - 1
               y == center[k]
    <3>1. k \in 1 .. n /\ k \in 0 .. n
      BY <2>3
    <3>2. y \in 0 .. m /\ x - band > y + band + 1
      BY <1>1, <1>3, <2>3, <3>1
    <3> HIDE DEF x, y, k
    <3>3. j - 1 > y + band /\ j > y + band /\ j - 1 \in 1 .. m
      BY <2>1, <3>2
    <3>4. ~InBand(center, band, k, j) /\ ~InBand(center, band, k, j - 1)
      <4>1. ~(j <= y + band) /\ ~(j - 1 <= y + band)
        BY <3>2, <3>3
      <4> QED BY <4>1 DEF InBand, y
    <3>5. <<k, j>> \notin R /\ <<k, j - 1>> \notin R
      BY <3>1, <3>3, <3>4 DEF ReachedCells
    <3> QED BY <3>5 DEF k
  <2> QED BY <2>2, <2>3
<1> DEFINE G == {e \in 0 .. n - i : Dead(i + e)}
<1>5. 0 \in G
  BY <1>4
<1>6. ASSUME NEW e \in 0 .. (n - i) - 1, e \in G PROVE e + 1 \in G
  <2> DEFINE k == i + (e + 1)
  <2>1. k \in 1 .. n /\ k - 1 = i + e
    OBVIOUS
  <2>2. Dead(k - 1)
    BY <1>6, <2>1
  <2> HIDE DEF k
  <2>3. ASSUME NEW j \in 1 .. m PROVE <<k - 1, j>> \notin R /\ <<k - 1, j - 1>> \notin R
    <3>1. j \in 0 .. m /\ j - 1 \in 0 .. m
      OBVIOUS
    <3> QED BY <2>2, <3>1
  <2>4. Dead(k)
    BY <1>2, <2>1, <2>3
  <2> QED BY <2>4 DEF k
<1>7. 0 .. n - i \subseteq G
  <2>1. n - i \in Nat
    OBVIOUS
  <2> HIDE DEF G
  <2> QED BY <1>5, <1>6, <2>1, Induct
<1>8. Dead(n)
  <2>1. n - i \in G /\ i + (n - i) = n
    BY <1>7
  <2> QED BY <2>1
<1> QED BY <1>8

\* The fine pass of an attempt fails by its size or by a jump, and by nothing else.
LEMMA FinePass ==
  ASSUME NEW u \in Seq(Nat), NEW r \in Seq(Nat), NEW o, o = Overlap(u, r),
         NEW center, center = Center(o, Coarse(o)), NEW n, n = Len(o.user),
         Coarse(o).reason = "aligned"
  PROVE  BandedDtw(o.user, o.reference, center, RefineBand).reason =
           IF (n + 1) * (2 * RefineBand + 1) > MaxCells THEN "too_large"
           ELSE IF BandJumps(center, RefineBand, n) THEN "no_path" ELSE "aligned"
<1> DEFINE a == o.user
           b == o.reference
           m == Len(b)
           t == Table(a, b, center, RefineBand)
           cost == t[n + 1][m].cost
           R == {c \in (0 .. Len(a)) \X (0 .. Len(b)) : t[c[1] + 1][c[2]].cost < Infinity}
           pass == BandedDtw(a, b, center, RefineBand)
           cells == (n + 1) * (2 * RefineBand + 1)
<1>1. a \in Seq(Nat) /\ b \in Seq(Nat)
  BY OverlapIs
<1>2. u # <<>> /\ r # <<>>
  BY AlignedHasFrames
<1>3. n \in Nat /\ m \in Nat /\ n # 0 /\ m # 0 /\ (pass.reason = "too_large" <=> cells > MaxCells)
  BY <1>1, <1>2, FinePassTooLarge, LenProperties
<1>4. CornerToCorner(center, n, m)
  BY CenterOfAttempt
<1>5. RefineBand \in Nat /\ 1 <= RefineBand /\ cells \in Nat /\ MaxCells \in Nat
  <2>1. RefineBand \in Nat /\ 1 <= RefineBand /\ MaxCells \in Nat
    BY AlignAssumption, BandAssumption, StrideAssumption
  <2> DEFINE k == n + 1
             w == 2 * RefineBand + 1
  <2>2. k \in Nat /\ w \in Nat
    BY <1>3, <2>1
  <2> HIDE DEF k, w
  <2>3. k * w \in Nat
    BY <2>2
  <2> QED BY <2>1, <2>3 DEF k, w
<1>6. CASE cells > MaxCells
  BY <1>3, <1>6
<1>7. CASE ~(cells > MaxCells)
  <2>1. cells <= MaxCells
    <3> HIDE DEF cells
    <3> QED BY <1>5, <1>7
  <2>2. center \in [0 .. Len(a) -> Int] /\ n = Len(a)
    BY <1>4 DEF CornerToCorner
  <2>3. InBand(center, RefineBand, n, m)
    BY <1>3, <1>4, <1>5 DEF InBand, CornerToCorner
  <2>4. ReachedCells(R, n, m, center, RefineBand)
    <3>1. (Len(a) + 1) * (2 * RefineBand + 1) <= MaxCells
      BY <2>1
    <3>2. ReachedCells(R, Len(a), Len(b), center, RefineBand)
      <4> HIDE DEF a, b, R
      <4> QED BY <1>1, <1>5, <2>2, <3>1, TableReaches DEF R
    <3> QED BY <2>2, <3>2
  <2>5. <<n, m>> \in R <=> ~BandJumps(center, RefineBand, n)
    <3> HIDE DEF R, m
    <3> QED BY <1>3, <1>4, <1>5, <2>4, NoJumpReaches, JumpStops
  <2>6. cost \in Nat /\ (cost < Infinity \/ cost = Infinity) /\ (<<n, m>> \in R <=> cost < Infinity)
    <3>1. n \in 1 .. Len(a) /\ m \in 1 .. Len(b) /\ n \in 0 .. Len(a) /\ m \in 0 .. Len(b)
      BY <1>3
    <3>2. cost \in Nat
      <4> HIDE DEF a, b, t
      <4> QED BY <1>1, <3>1, CellCost DEF t
    <3>3. Grows(t, a, b, n, m)
      <4> HIDE DEF a, b, m
      <4> QED BY <1>1, <1>5, <2>1, <2>2, <2>3, <3>1, CostsStayBelow
    <3>4. <<n, m>> \in R <=> cost < Infinity
      BY <3>1
    <3> QED BY <3>2, <3>3, <3>4 DEF Grows, Unreached
  <2>7. pass.reason = IF cost = Infinity THEN "no_path" ELSE "aligned"
    <3>1. ~(Len(a) = 0 \/ Len(b) = 0) /\ Len(a) # 0 /\ Len(b) # 0
      BY <1>3
    <3>2. ~((Len(a) + 1) * (2 * RefineBand + 1) > MaxCells) /\ InBand(center, RefineBand, Len(a), Len(b))
      BY <1>7, <2>3
    <3>3. cost = Table(a, b, center, RefineBand)[Len(a) + 1][Len(b)].cost
      OBVIOUS
    <3> HIDE DEF a, b, cost
    <3> QED BY <3>1, <3>2, <3>3 DEF BandedDtw, NoPath
  <2> HIDE DEF cost, cells, pass, R
  <2> QED BY <1>7, <2>5, <2>6, <2>7, InfinityIsNat DEF pass, cells
<1> QED BY <1>6, <1>7
-----------------------------------------------------------------------------
(***************************************************************************)
(* Curves that sound the same frame by frame: the diagonal costs nothing,  *)
(* and is the path that is found.                                          *)
(***************************************************************************)
SoundsLike(a, b) ==
  Len(a) = Len(b) /\ \A i \in 1 .. Len(a) : PitchDistance(a[i], b[i]) = 0

AlongDiagonal(center, band, n) == \A i \in 1 .. n : InBand(center, band, i, i)

LEMMA DiagonalIsFree ==
  ASSUME NEW a \in Seq(Nat), NEW b \in Seq(Nat), SoundsLike(a, b),
         NEW center \in [0 .. Len(a) -> Int], NEW band \in Nat,
         AlongDiagonal(center, band, Len(a)),
         (Len(a) + 1) * (2 * band + 1) <= MaxCells,
         NEW t, t = Table(a, b, center, band)
  PROVE  /\ \A i \in 0 .. Len(a) : t[i + 1][i].cost = 0
         /\ \A i \in 1 .. Len(a) : t[i + 1][i].step = "diag"
<1> DEFINE n == Len(a)
<1>1. n \in Nat /\ Len(b) = n /\ Infinity \in Nat /\ Infinity # 0
  BY LenProperties, InfinityIsNat, StrideAssumption DEF Infinity, SoundsLike
<1>2. ASSUME NEW i \in 1 .. n, t[i][i - 1].cost = 0
      PROVE  t[i + 1][i].cost = 0 /\ t[i + 1][i].step = "diag"
  <2> DEFINE y == t[i][i].cost
             z == t[i + 1][i - 1].cost
             best == BestBefore(t, i, i)
  <2>1. /\ i - 1 \in 0 .. n /\ (i - 1) + 1 = i /\ i \in 0 .. n /\ i \in 1 .. Len(b)
        /\ i - 1 \in 0 .. Len(b) /\ i \in 0 .. Len(b)
    BY <1>1
  <2>2. y \in Nat /\ z \in Nat
    <3>1. t[(i - 1) + 1][i].cost \in Nat /\ z \in Nat
      BY <2>1, CellCost
    <3> QED BY <2>1, <3>1
  <2>3. best = Cheapest(0, y, z)
    BY <1>2 DEF BestBefore
  <2> HIDE DEF y, z, best
  <2>4. best = [cost |-> 0, step |-> "diag"]
    BY <2>2, <2>3 DEF Cheapest
  <2>5. Grows(t, a, b, i, i)
    BY <2>1, CostsStayBelow DEF AlongDiagonal
  <2>6. PitchDistance(a[i], b[i]) = 0
    BY DEF SoundsLike
  <2> QED BY <1>1, <2>4, <2>5, <2>6 DEF Grows, best
<1> DEFINE G == {i \in 0 .. n : t[i + 1][i].cost = 0}
<1>3. 0 \in G
  <2>1. t[1][0].cost = 0
    BY TableCells
  <2> QED BY <1>1, <2>1
<1>4. ASSUME NEW i \in 0 .. n - 1, i \in G PROVE i + 1 \in G
  <2>1. i + 1 \in 1 .. n /\ (i + 1) - 1 = i /\ i + 1 \in 0 .. n
    BY <1>1
  <2>2. t[i + 1][(i + 1) - 1].cost = 0
    BY <1>4, <2>1
  <2>3. t[(i + 1) + 1][i + 1].cost = 0
    BY <1>2, <2>1, <2>2
  <2> QED BY <2>1, <2>3
<1>5. 0 .. n \subseteq G
  <2> HIDE DEF G
  <2> QED BY <1>1, <1>3, <1>4, Induct
<1>6. \A i \in 0 .. n : t[i + 1][i].cost = 0
  BY <1>5
<1>7. ASSUME NEW i \in 1 .. n PROVE t[i + 1][i].step = "diag"
  <2>1. i - 1 \in 0 .. n /\ (i - 1) + 1 = i
    BY <1>1
  <2>2. t[i][i - 1].cost = 0
    BY <1>6, <2>1
  <2> QED BY <1>2, <2>2
<1> QED BY <1>6, <1>7

\* The diagonal as a path.
IsDiagonal(p, n) == Len(p) = n /\ \A k \in 1 .. n : p[k] = <<k - 1, k - 1>>

LEMMA DiagonalIsFound ==
  ASSUME NEW n \in Nat, NEW t, \A i \in 1 .. n : t[i + 1][i].step = "diag"
  PROVE  Backtrack(t, n, n) \in Paths(n, n) /\ IsDiagonal(Backtrack(t, n, n), n)
<1>1. PICK path : WayBack(path, t, n, n) /\ Backtrack(t, n, n) = path[<<n, n>>]
  BY BacktrackIs
<1> DEFINE G == {i \in 0 .. n : IsDiagonal(path[<<i, i>>], i)}
<1>2. 0 \in G
  <2>1. 0 \in 0 .. n
    OBVIOUS
  <2>2. path[<<0, 0>>] = <<>>
    BY <1>1, <2>1 DEF WayBack
  <2> QED BY <2>1, <2>2 DEF IsDiagonal
<1>3. ASSUME NEW i \in 0 .. n - 1, i \in G PROVE i + 1 \in G
  <2> DEFINE p == path[<<i, i>>]
             q == path[<<i + 1, i + 1>>]
  <2>1. i \in 0 .. n /\ i + 1 \in 0 .. n /\ i + 1 \in 1 .. n /\ i + 1 # 0 /\ (i + 1) - 1 = i /\ i \in Nat
    OBVIOUS
  <2>2. p \in Paths(n, n) /\ Len(p) = i /\ \A k \in 1 .. i : p[k] = <<k - 1, k - 1>>
    BY <1>1, <1>3, <2>1 DEF WayBack, IsDiagonal
  <2>3. q = Append(p, <<i, i>>)
    <3>1. t[(i + 1) + 1][i + 1].step = "diag"
      BY <2>1
    <3>2. q = Append(CASE t[(i + 1) + 1][i + 1].step = "diag" -> path[<<(i + 1) - 1, (i + 1) - 1>>]
                       [] t[(i + 1) + 1][i + 1].step = "up"   -> path[<<(i + 1) - 1, i + 1>>]
                       [] OTHER                               -> path[<<i + 1, (i + 1) - 1>>],
                     <<(i + 1) - 1, (i + 1) - 1>>)
      BY <1>1, <2>1 DEF WayBack
    <3> QED BY <2>1, <3>1, <3>2
  <2> HIDE DEF p, q
  <2>4. <<i, i>> \in (0 .. n - 1) \X (0 .. n - 1)
    OBVIOUS
  <2>5. Len(q) = i + 1 /\ (\A k \in 1 .. i : q[k] = p[k]) /\ q[i + 1] = <<i, i>>
    BY <2>2, <2>3, <2>4, AppendProperties DEF Paths
  <2>6. IsDiagonal(q, i + 1)
    <3> SUFFICES ASSUME NEW k \in 1 .. i + 1 PROVE q[k] = <<k - 1, k - 1>>
      BY <2>5 DEF IsDiagonal
    <3>1. CASE k = i + 1
      BY <2>1, <2>5, <3>1
    <3>2. CASE k # i + 1
      BY <2>1, <2>2, <2>5, <3>2
    <3> QED BY <3>1, <3>2
  <2> QED BY <2>1, <2>6 DEF q
<1>4. 0 .. n \subseteq G
  <2> HIDE DEF G
  <2> QED BY <1>2, <1>3, Induct
<1>5. n \in 0 .. n
  OBVIOUS
<1> QED BY <1>1, <1>4, <1>5 DEF WayBack

LEMMA FreePass ==
  ASSUME NEW a \in Seq(Nat), NEW b \in Seq(Nat), SoundsLike(a, b), Len(a) # 0,
         NEW center \in [0 .. Len(a) -> Int], NEW band \in Nat, AlongDiagonal(center, band, Len(a)),
         BandedDtw(a, b, center, band).reason # "too_large"
  PROVE  /\ BandedDtw(a, b, center, band).reason = "aligned"
         /\ BandedDtw(a, b, center, band).cost = 0
         /\ BandedDtw(a, b, center, band).path \in Paths(Len(a), Len(a))
         /\ IsDiagonal(BandedDtw(a, b, center, band).path, Len(a))
<1> DEFINE n == Len(a)
           t == Table(a, b, center, band)
           pass == BandedDtw(a, b, center, band)
<1>1. n \in Nat /\ n # 0 /\ Len(b) = n /\ n \in 0 .. n /\ n \in 1 .. n
  BY LenProperties DEF SoundsLike
<1>2. ~((n + 1) * (2 * band + 1) > MaxCells)
  BY <1>1 DEF BandedDtw, NoPath
<1>3. (n + 1) * (2 * band + 1) <= MaxCells
  <2> DEFINE w == 2 * band + 1
             x == (n + 1) * w
  <2>1. w \in Nat /\ n + 1 \in Nat /\ ~(x > MaxCells)
    BY <1>1, <1>2
  <2> HIDE DEF w, n
  <2>2. x \in Nat
    BY <2>1
  <2> HIDE DEF x
  <2>3. x <= MaxCells
    BY <2>1, <2>2, StrideAssumption
  <2> QED BY <2>3 DEF x, w, n
<1>4. t[n + 1][n].cost = 0 /\ \A i \in 1 .. n : t[i + 1][i].step = "diag"
  BY <1>1, <1>3, DiagonalIsFree, SMTT(30)
<1>5. InBand(center, band, n, n)
  BY <1>1 DEF AlongDiagonal
<1>6. Infinity # 0
  BY StrideAssumption DEF Infinity
<1>7. pass = [reason |-> "aligned", path |-> Backtrack(t, n, n), cost |-> t[n + 1][n].cost]
  BY <1>1, <1>2, <1>4, <1>5, <1>6 DEF BandedDtw
<1> HIDE DEF pass, t
<1>8. Backtrack(t, n, n) \in Paths(n, n) /\ IsDiagonal(Backtrack(t, n, n), n)
  <2> HIDE DEF n
  <2> QED BY <1>1, <1>4, DiagonalIsFound
<1> QED BY <1>4, <1>7, <1>8 DEF pass

LEMMA DiagonalProjection ==
  ASSUME NEW n \in Nat, n # 0, NEW p, IsDiagonal(p, n), NEW x \in Nat, NEW hop \in Nat \ {0}
  PROVE  /\ (n - 1) * hop \in Nat
         /\ UserToReference(p, hop, x) = IF x < (n - 1) * hop THEN x ELSE (n - 1) * hop
         /\ ReferenceToUser(p, hop, x) = UserToReference(p, hop, x)
<1> DEFINE xs == [k \in 1 .. n |-> (k - 1) * hop]
           last == (n - 1) * hop
<1>1. hop \in Nat /\ hop > 0 /\ Len(p) = n
  BY DEF IsDiagonal
<1>2. Column(p, 1, hop) = xs /\ Column(p, 2, hop) = xs
  BY <1>1 DEF Column, IsDiagonal
<1>3. ASSUME NEW k \in 1 .. n
      PROVE  xs[k] \in Nat /\ xs[k] <= last /\ (k # n => xs[k + 1] = xs[k] + hop)
  <2>1. k - 1 \in Nat /\ k - 1 <= n - 1 /\ xs[k] = (k - 1) * hop /\ n - 1 \in Nat
    OBVIOUS
  <2>2. (k - 1) * hop \in Nat /\ (k - 1) * hop <= last
    BY <1>1, <2>1
  <2>3. k # n => xs[k + 1] = k * hop
    OBVIOUS
  <2>4. k * hop = (k - 1) * hop + hop
    BY <1>1
  <2> HIDE DEF xs, last
  <2> QED BY <2>1, <2>2, <2>3, <2>4
<1>4. xs[n] = last /\ xs[1] = 0 /\ Len(xs) = n /\ xs \in Seq(Nat)
  <2>1. xs \in [1 .. n -> Nat]
    BY <1>3
  <2> QED BY <1>1, <2>1
<1>5. last \in Nat
  BY <1>3, <1>4
<1> HIDE DEF xs, last
<1>6. /\ UserToReference(p, hop, x) = Interp(x, xs, xs, 1)
      /\ ReferenceToUser(p, hop, x) = UserToReference(p, hop, x)
  BY <1>2 DEF UserToReference, ReferenceToUser
<1>7. PICK k \in 1 .. n : InterpAt(x, xs, xs, k)
  <2>1. Len(xs) # 0 /\ xs[1] <= x
    BY <1>4
  <2> QED BY <1>4, <2>1, InterpIs
<1>8. CASE k = n
  <2>1. Interp(x, xs, xs, 1) = RoundDiv(last, 1) /\ last <= x
    BY <1>4, <1>7, <1>8 DEF InterpAt
  <2>2. RoundDiv(last * 1, 1) = last /\ last * 1 = last
    BY <1>5, RoundDivExact
  <2> QED BY <1>5, <1>6, <2>1, <2>2 DEF last
<1>9. CASE k # n
  <2> DEFINE y == xs[k]
  <2>1. k + 1 \in 1 .. n
    BY <1>9
  <2>2. y \in Nat /\ xs[k + 1] = y + hop /\ xs[k + 1] <= last
    BY <1>3, <1>9, <2>1
  <2>3. y <= x /\ x < xs[k + 1]
    BY <1>4, <1>7, <1>9, Zenon DEF InterpAt
  <2>4. Interp(x, xs, xs, 1) =
          RoundDiv(y * (xs[k + 1] - y) + (xs[k + 1] - y) * (x - y), (xs[k + 1] - y) * 1)
    BY <1>4, <1>7, <1>9 DEF InterpAt
  <2> HIDE DEF y
  <2>5. xs[k + 1] - y = hop /\ hop * 1 = hop /\ y * hop + hop * (x - y) = x * hop
    BY <1>1, <2>2
  <2>6. Interp(x, xs, xs, 1) = RoundDiv(x * hop, hop)
    BY <2>4, <2>5
  <2>7. Interp(x, xs, xs, 1) = x
    BY <1>1, <2>6, RoundDivExact
  <2>8. x < last
    <3> DEFINE z == xs[k + 1]
    <3>1. z \in Nat /\ x < z /\ z <= last
      BY <1>3, <2>1, <2>2, <2>3
    <3> HIDE DEF z
    <3> QED BY <1>5, <3>1
  <2> QED BY <1>5, <1>6, <2>7, <2>8 DEF last
<1> QED BY <1>8, <1>9

\* What is missing at the end, spread over the projection, keeps it by the diagonal.
LEMMA SpreadStaysClose ==
  ASSUME NEW n \in Nat \ {0}, NEW gap \in 1 .. n, NEW i \in 0 .. n
  PROVE  /\ RoundDiv(gap * i, n) \in 0 .. gap
         /\ gap - (n - i) <= RoundDiv(gap * i, n)
<1>1. gap * i \in Int /\ gap * n \in Int /\ 0 * n \in Int /\ 0 * n <= gap * i /\ gap * i <= gap * n
  <2>1. gap \in Nat /\ i \in Nat /\ n \in Nat /\ i <= n
    OBVIOUS
  <2>2. gap * i \in Nat /\ gap * n \in Nat /\ gap * i <= gap * n
    BY <2>1
  <2> QED BY <2>2
<1>2. RoundDiv(gap * i, n) \in Int
  BY <1>1, RoundDivIs
<1>3. RoundDiv(0 * n, n) = 0 /\ RoundDiv(gap * n, n) = gap
  BY RoundDivExact
<1>4. 0 <= RoundDiv(gap * i, n) /\ RoundDiv(gap * i, n) <= gap
  <2>1. RoundDiv(0 * n, n) <= RoundDiv(gap * i, n)
    BY <1>1, RoundDivMonotone
  <2>2. RoundDiv(gap * i, n) <= RoundDiv(gap * n, n)
    BY <1>1, RoundDivMonotone
  <2> QED BY <1>3, <2>1, <2>2
<1>5. gap - (n - i) <= RoundDiv(gap * i, n)
  <2> DEFINE e == n - i
             c == gap - e
  <2>1. e \in Nat /\ i = n - e /\ c \in Int /\ n - gap \in Nat
    OBVIOUS
  <2>2. e * (n - gap) \in Nat /\ e * (n - gap) = e * n - e * gap
    BY <2>1
  <2>3. gap * i = gap * n - gap * e /\ c * n = gap * n - e * n /\ gap * e = e * gap
    BY <2>1
  <2>4. e * n \in Int /\ e * gap \in Int /\ gap * n \in Int
    BY <2>1
  <2> HIDE DEF e, c
  <2>5. c * n <= gap * i /\ c * n \in Int
    <3> DEFINE u == gap * i
               v == c * n
               en == e * n
               eg == e * gap
               gn == gap * n
    <3>1. /\ u = gn - eg /\ v = gn - en /\ en - eg \in Nat /\ en \in Int /\ eg \in Int /\ gn \in Int
      BY <2>2, <2>3, <2>4
    <3> HIDE DEF u, v, en, eg, gn
    <3>2. v <= u /\ v \in Int
      BY <3>1
    <3> QED BY <3>2 DEF u, v
  <2>6. RoundDiv(c * n, n) <= RoundDiv(gap * i, n)
    BY <1>1, <2>5, RoundDivMonotone
  <2>7. RoundDiv(c * n, n) = c
    BY <2>1, RoundDivExact
  <2> QED BY <2>6, <2>7 DEF c, e
<1> QED BY <1>2, <1>4, <1>5

LEMMA CenterNearDiagonal ==
  ASSUME NEW n \in Nat, n # 0, NEW p, IsDiagonal(p, CoarseLength(n)),
         NEW band \in Nat, 1 <= band, Stride <= band + 1
  PROVE  AlongDiagonal(RefineCenter(p, n, n), band, n)
<1> DEFINE last == (CoarseLength(n) - 1) * Stride
           U(i) == UserToReference(p, Stride, i - 1)
           raw == [i \in 0 .. n |-> IF i = 0 THEN 0 ELSE Clip(UserToReference(p, Stride, i - 1), 0, n)]
           gap == n - raw[n]
           spread(i) == RoundDiv(gap * i, n)
           center == RefineCenter(p, n, n)
<1>1. last \in Nat /\ n - Stride <= last /\ last <= n - 1 /\ Stride \in Nat /\ Stride > 0
  <2> DEFINE c == CoarseLength(n)
  <2>1. /\ c \in Nat /\ c # 0 /\ n <= c * Stride /\ c * Stride <= n + Stride - 1
        /\ Stride \in Nat /\ Stride > 0
    BY CoarseLengthIs, StrideAssumption
  <2> HIDE DEF c
  <2>2. (c - 1) * Stride = c * Stride - Stride /\ c * Stride \in Nat
    BY <2>1
  <2>3. c - 1 \in Nat
    BY <2>1
  <2>4. (c - 1) * Stride \in Nat
    BY <2>1, <2>3
  <2>5. n - Stride <= (c - 1) * Stride /\ (c - 1) * Stride <= n - 1
    BY <2>1, <2>2
  <2> QED BY <2>1, <2>4, <2>5 DEF c
<1>2. \A i \in 1 .. n : U(i) = IF i - 1 < last THEN i - 1 ELSE last
  <2> SUFFICES ASSUME NEW i \in 1 .. n PROVE U(i) = IF i - 1 < last THEN i - 1 ELSE last
    OBVIOUS
  <2>1. i - 1 \in Nat
    OBVIOUS
  <2>2. CoarseLength(n) \in Nat /\ CoarseLength(n) # 0
    BY CoarseLengthIs
  <2> QED BY <2>1, <2>2, DiagonalProjection, StrideAssumption
<1>3. \A i \in 0 .. n : raw[i] = IF i = 0 THEN 0 ELSE Clip(U(i), 0, n)
  OBVIOUS
<1>4. /\ center[n] = n
      /\ \A i \in 1 .. n - 1 : center[i] = Clip(raw[i] + spread(i), 0, n)
  BY DEF RefineCenter
<1> HIDE DEF raw, U, center, last
<1>5. \A i \in 1 .. n : raw[i] = IF i - 1 < last THEN i - 1 ELSE last
  <2> SUFFICES ASSUME NEW i \in 1 .. n PROVE raw[i] = IF i - 1 < last THEN i - 1 ELSE last
    OBVIOUS
  <2> DEFINE v == IF i - 1 < last THEN i - 1 ELSE last
  <2>1. raw[i] = Clip(v, 0, n)
    BY <1>2, <1>3
  <2>2. v \in 0 .. n
    BY <1>1
  <2> HIDE DEF v
  <2>3. raw[i] = v
    BY <2>1, <2>2 DEF Clip
  <2> QED BY <2>3 DEF v
<1>6. gap = n - last /\ gap \in 1 .. n /\ gap <= Stride
  BY <1>1, <1>5
<1> HIDE DEF gap
<1>7. \A i \in 1 .. n : spread(i) \in 0 .. gap /\ gap - (n - i) <= spread(i)
  <2> SUFFICES ASSUME NEW i \in 1 .. n PROVE spread(i) \in 0 .. gap /\ gap - (n - i) <= spread(i)
    OBVIOUS
  <2>1. i \in 0 .. n /\ n \in Nat \ {0}
    OBVIOUS
  <2> QED BY <1>6, <2>1, SpreadStaysClose
<1> HIDE DEF spread
<1>8. ASSUME NEW i \in 1 .. n PROVE center[i] \in Int /\ center[i] - band <= i /\ i <= center[i] + band
  <2>1. CASE i = n
    BY <1>4, <2>1
  <2>2. CASE i # n
    <3> DEFINE v == raw[i] + spread(i)
    <3>1. i \in 1 .. n - 1
      BY <2>2
    <3>2. center[i] = Clip(v, 0, n)
      BY <1>4, <3>1
    <3>3. v \in Int /\ v - (Stride - 1) <= i /\ i <= v + 1 /\ v \in 0 .. n
      <4>1. CASE i - 1 < last
        BY <1>1, <1>5, <1>6, <1>7, <4>1
      <4>2. CASE ~(i - 1 < last)
        BY <1>1, <1>5, <1>6, <1>7, <4>2
      <4> QED BY <4>1, <4>2
    <3> HIDE DEF v
    <3>4. center[i] = v
      BY <3>2, <3>3 DEF Clip
    <3> QED BY <1>1, <3>3, <3>4
  <2> QED BY <2>1, <2>2
<1> QED BY <1>8 DEF AlongDiagonal, InBand, center

\* An attempt at curves that sound the same is refused for its size or costs nothing.
LEMMA SameSoundAligns ==
  ASSUME NEW u \in Seq(Nat), NEW r \in Seq(Nat), SoundsLike(u, r), u # <<>>,
         Attempt(u, r, 0).reason # "too_large"
  PROVE  /\ Attempt(u, r, 0).reason = "aligned" /\ Attempt(u, r, 0).cost = 0
         /\ Attempt(u, r, 0).path \in Paths(Len(u), Len(u)) /\ IsDiagonal(Attempt(u, r, 0).path, Len(u))
<1> DEFINE n == Len(u)
           c == CoarseLength(n)
           o == Overlap(u, r)
           coarse == Coarse(o)
           center == Center(o, coarse)
           fine == BandedDtw(u, r, center, RefineBand)
<1>1. n \in Nat /\ n # 0 /\ Len(r) = n /\ c \in Nat /\ c # 0
  BY LenProperties, EmptySeq, CoarseLengthIs DEF SoundsLike
<1>2. From(r, 0) = r
  <2>1. 0 \in 0 .. Len(r)
    BY <1>1
  <2>2. From(r, 0) \in Seq(Nat) /\ Len(From(r, 0)) = Len(r)
    BY <1>1, <2>1, FromIs
  <2>3. \A i \in 1 .. Len(r) : From(r, 0)[i] = r[i]
    BY <1>1, SubSeqProperties DEF From
  <2> QED BY <2>2, <2>3, SeqEqual
<1>3. /\ Strided(u) \in Seq(Nat) /\ Len(Strided(u)) = c
      /\ Strided(r) \in Seq(Nat) /\ Len(Strided(r)) = c
      /\ \A k \in 1 .. c : /\ (k - 1) * Stride + 1 \in 1 .. n
                           /\ Strided(u)[k] = u[(k - 1) * Stride + 1]
                           /\ Strided(r)[k] = r[(k - 1) * Stride + 1]
  BY <1>1, StridedIs
<1>4. SoundsLike(Strided(u), Strided(r))
  BY <1>3 DEF SoundsLike
<1>5. ~Mismatch(Strided(u), Strided(r))
  <2> HIDE DEF c
  <2> QED BY <1>1, <1>3, AlignAssumption DEF Mismatch, Distance
<1>6. /\ o.coarseUser = Strided(u) /\ o.coarseReference = Strided(r)
      /\ o.user = u /\ o.reference = r
  BY <1>5 DEF Overlap
<1>7. coarse = BandedDtw(Strided(u), Strided(r), Diagonal(c), CoarseBand)
  BY <1>3, <1>6 DEF Coarse
<1>8. /\ Diagonal(c) \in [0 .. c -> Int]
      /\ AlongDiagonal(Diagonal(c), CoarseBand, c)
  <2> HIDE DEF c
  <2>1. \A i \in 0 .. c : Diagonal(c)[i] = i
    BY DEF Diagonal
  <2>2. \A i \in 1 .. c : i - CoarseBand <= i /\ i <= i + CoarseBand
    BY <1>1, AlignAssumption
  <2> QED BY <1>1, <2>1, <2>2 DEF Diagonal, AlongDiagonal, InBand
<1>9. Attempt(u, r, 0).reason = IF coarse.reason # "aligned" THEN coarse.reason
                                ELSE BandedDtw(o.user, o.reference, center, RefineBand).reason
  <2>1. o = Overlap(u, From(r, 0))
    BY <1>2
  <2> HIDE DEF o
  <2> QED BY <2>1, AttemptReason
<1>10. coarse.reason = "aligned" /\ IsDiagonal(coarse.path, c)
  <2>1. coarse.reason # "too_large"
    <3> HIDE DEF coarse, center
    <3> QED BY <1>9
  <2> DEFINE a == Strided(u)
             b == Strided(r)
             d == Diagonal(c)
  <2> HIDE DEF c, coarse, a, b, d
  <2>2. /\ a \in Seq(Nat) /\ b \in Seq(Nat) /\ Len(a) = c /\ Len(a) # 0 /\ SoundsLike(a, b)
        /\ d \in [0 .. Len(a) -> Int] /\ AlongDiagonal(d, CoarseBand, Len(a))
        /\ coarse = BandedDtw(a, b, d, CoarseBand)
    BY <1>1, <1>3, <1>4, <1>7, <1>8 DEF a, b, d
  <2>3. BandedDtw(a, b, d, CoarseBand).reason # "too_large"
    BY <2>1, <2>2
  <2>4. /\ BandedDtw(a, b, d, CoarseBand).reason = "aligned"
        /\ IsDiagonal(BandedDtw(a, b, d, CoarseBand).path, Len(a))
    BY <2>2, <2>3, AlignAssumption, FreePass
  <2> QED BY <2>2, <2>4
<1>11. /\ center = RefineCenter(coarse.path, n, n)
       /\ center \in [0 .. n -> Int] /\ AlongDiagonal(center, RefineBand, n)
  <2>1. center = RefineCenter(coarse.path, n, n)
    BY <1>1, <1>6 DEF Center
  <2>2. CornerToCorner(center, n, n)
    BY <1>1, <1>6, <1>10, CenterOfAttempt
  <2>3. AlongDiagonal(RefineCenter(coarse.path, n, n), RefineBand, n)
    <3> DEFINE path == coarse.path
    <3>1. IsDiagonal(path, CoarseLength(n))
      BY <1>10
    <3> HIDE DEF path, n
    <3>2. AlongDiagonal(RefineCenter(path, n, n), RefineBand, n)
      BY <1>1, <3>1, AlignAssumption, BandAssumption, CenterNearDiagonal
    <3> QED BY <3>2 DEF path
  <2> HIDE DEF center, coarse
  <2> QED BY <2>1, <2>2, <2>3 DEF CornerToCorner
<1>12. Attempt(u, r, 0) = fine
  BY <1>2, <1>6, <1>10 DEF Attempt
<1>13. fine.reason # "too_large"
  BY <1>12
<1> HIDE DEF center, coarse, o
<1>14. fine.reason = "aligned" /\ fine.cost = 0 /\ fine.path \in Paths(n, n) /\ IsDiagonal(fine.path, n)
  BY <1>1, <1>11, <1>13, AlignAssumption, FreePass
<1> QED BY <1>12, <1>14
=============================================================================
