----------------------------- MODULE Alignment -----------------------------
(***************************************************************************)
(* Banded dynamic time warping of a recording to its reference             *)
(* (dsp/dtw.py), and the time map read off a warping path                  *)
(* (audio/timemap.py).                                                     *)
(*                                                                         *)
(* A pitch curve is a sequence of frames, one per fine hop: 0 is an        *)
(* unvoiced frame, any other number a pitch in semitones.  Frames are      *)
(* counted from 1, paths from 0 as in the code; times are counted in fine  *)
(* hops, distances of frames in hundredths.                                *)
(***************************************************************************)
EXTENDS Integers, Sequences, FiniteSets, SequencesExt

CONSTANTS
  Stride,        \* fine hops per coarse hop
  MaxCells       \* DTW_MAX_CELLS

ASSUME StrideAssumption == Stride \in Nat \ {0} /\ MaxCells \in Nat

Distance(x, y) == IF x < y THEN y - x ELSE x - y

\* How far apart on the circle a number of semitones is.
Chord == <<52, 100, 141, 173, 193, 200, 193, 173, 141, 100, 52>>

\* Defect: two pitches an octave or more apart are as far apart as can be.
PitchDistanceUnfolded(x, y) ==
  IF x = 0 \/ y = 0 THEN (IF x = y THEN 0 ELSE 100)
  ELSE IF x = y THEN 0 ELSE IF Distance(x, y) > 11 THEN 200 ELSE Chord[Distance(x, y)]

(***************************************************************************)
(* The distance of two embedded frames.  A pitch is a point of the unit    *)
(* circle, one turn per octave, an unvoiced frame its centre: two pitches  *)
(* are a chord apart, whole octaves nothing.                               *)
(***************************************************************************)
PitchDistance(x, y) ==
  IF x = 0 \/ y = 0 THEN (IF x = y THEN 0 ELSE 100)
  ELSE IF Distance(x, y) % 12 = 0 THEN 0 ELSE Chord[Distance(x, y) % 12]

\* voiced_fraction counts the frames with a pitch.
Voiced(s) == Cardinality({i \in DOMAIN s : s[i] # 0})

\* A cell out of reach: more than any path through a table of MaxCells cells costs.
Infinity == 200 * MaxCells + 1
-----------------------------------------------------------------------------
(***************************************************************************)
(* The kernel.  A row of the table holds, for each prefix of b, the cost   *)
(* of matching it to the prefix of a, and the step that came last.         *)
(***************************************************************************)
Unreached == [cost |-> Infinity, step |-> "none"]

InBand(center, band, i, j) == center[i] - band <= j /\ j <= center[i] + band

FirstRow(m) ==
  [j \in 0 .. m |-> IF j = 0 THEN [cost |-> 0, step |-> "none"] ELSE Unreached]

\* The cheapest predecessor; diagonal before up before left on a tie.
Cheapest(diag, up, left) ==
  CASE diag <= up /\ diag <= left -> [cost |-> diag, step |-> "diag"]
    [] up < diag /\ up <= left    -> [cost |-> up, step |-> "up"]
    [] OTHER                      -> [cost |-> left, step |-> "left"]

\* The cell one step further, a frame of each curve d apart.
Extended(best, d) ==
  IF best.cost = Infinity THEN Unreached
  ELSE [cost |-> best.cost + d, step |-> best.step]

NextRow(prev, a, b, center, band, i) ==
  LET cell[j \in 0 .. Len(b)] ==
        IF j = 0 \/ ~InBand(center, band, i, j) THEN Unreached
        ELSE Extended(Cheapest(prev[j - 1].cost, prev[j].cost, cell[j - 1].cost),
                      PitchDistance(a[i], b[j]))
  IN [j \in 0 .. Len(b) |-> cell[j]]

\* The rows for prefixes of length 0 .. Len(a), first row first.
Table(a, b, center, band) ==
  LET rows[i \in 0 .. Len(a)] ==
        IF i = 0 THEN <<FirstRow(Len(b))>>
        ELSE LET before == rows[i - 1]
             IN Append(before, NextRow(before[i], a, b, center, band, i))
  IN rows[Len(a)]

\* Defect: the two single steps are read the other way round.
BacktrackSwapped(table, n, m) ==
  LET path[c \in (0 .. n) \X (0 .. m)] ==
        LET i == c[1]
            j == c[2]
        IN IF i = 0 \/ j = 0 THEN <<>>
           ELSE Append(CASE table[i + 1][j].step = "diag" -> path[<<i - 1, j - 1>>]
                         [] table[i + 1][j].step = "up"   -> path[<<i, j - 1>>]
                         [] OTHER                         -> path[<<i - 1, j>>],
                       <<i - 1, j - 1>>)
  IN path[<<n, m>>]

Backtrack(table, n, m) ==
  LET path[c \in (0 .. n) \X (0 .. m)] ==
        LET i == c[1]
            j == c[2]
        IN IF i = 0 \/ j = 0 THEN <<>>
           ELSE Append(CASE table[i + 1][j].step = "diag" -> path[<<i - 1, j - 1>>]
                         [] table[i + 1][j].step = "up"   -> path[<<i - 1, j>>]
                         [] OTHER                         -> path[<<i, j - 1>>],
                       <<i - 1, j - 1>>)
  IN path[<<n, m>>]

(***************************************************************************)
(* One banded pass.  "too_large" is AlignmentTooLarge, every other reason  *)
(* than "aligned" an AlignmentFailed.                                      *)
(***************************************************************************)
NoPath(why) == [reason |-> why, path |-> <<>>, cost |-> 0]

BandedDtw(a, b, center, band) ==
  LET n == Len(a)
      m == Len(b)
      table == Table(a, b, center, band)
      cost == table[n + 1][m].cost
  IN CASE n = 0 \/ m = 0                          -> NoPath("empty")
       [] n # 0 /\ m # 0 /\ (n + 1) * (2 * band + 1) > MaxCells -> NoPath("too_large")
       [] OTHER ->
            IF ~InBand(center, band, n, m) THEN NoPath("unreachable")
            ELSE IF cost = Infinity THEN NoPath("no_path")
            ELSE [reason |-> "aligned", path |-> Backtrack(table, n, m), cost |-> cost]

Diagonal(n) == [i \in 0 .. n |-> i]
-----------------------------------------------------------------------------
(***************************************************************************)
(* The time map of a path: numpy's interp over the matched times, rounded  *)
(* half to even.  Of several pairs at one time the last one counts.        *)
(***************************************************************************)
RoundDiv(p, q) ==
  LET f == p \div q
      twice == 2 * (p % q)
  IN IF twice < q \/ (twice = q /\ f % 2 = 0) THEN f ELSE f + 1

\* xs is sorted; x is not before xs[1].
Interp(x, xs, ys, unit) ==
  LET n == Len(xs)
      k == CHOOSE k \in 1 .. n : xs[k] <= x /\ (k = n \/ x < xs[k + 1])
  IN IF k = n THEN RoundDiv(ys[n], unit)
     ELSE LET dx == xs[k + 1] - xs[k]
          IN RoundDiv(ys[k] * dx + (ys[k + 1] - ys[k]) * (x - xs[k]), dx * unit)

Column(path, c, hop) == [k \in 1 .. Len(path) |-> path[k][c] * hop]

\* The frame of the reference at the time of a frame of the recording, and back.
UserToReference(path, hop, i) == Interp(i, Column(path, 1, hop), Column(path, 2, hop), 1)

ReferenceToUser(path, hop, j) == Interp(j, Column(path, 2, hop), Column(path, 1, hop), 1)

Clip(x, lo, hi) == IF x < lo THEN lo ELSE IF x > hi THEN hi ELSE x

\* Defect: what is missing at the end is not spread, only the end is pinned.
RefineCenterUnspread(coarse, n, m) ==
  [i \in 0 .. n |->
     CASE i = 0            -> 0
       [] i # 0 /\ i = n   -> UserToReference(coarse, Stride, i - 1)
       [] OTHER            -> Clip(UserToReference(coarse, Stride, i - 1), 0, m)]

(***************************************************************************)
(* refine_center: the coarse path projected onto the fine hop.  Whatever   *)
(* is missing at the end is spread over the projection.                    *)
(***************************************************************************)
RefineCenter(coarse, n, m) ==
  LET raw == [i \in 0 .. n |->
                IF i = 0 THEN 0 ELSE Clip(UserToReference(coarse, Stride, i - 1), 0, m)]
      gap == m - raw[n]
  IN [i \in 0 .. n |->
        CASE i = 0            -> 0
          [] i # 0 /\ i = n   -> m
          [] OTHER            -> Clip(raw[i] + RoundDiv(gap * i, n), 0, m)]
-----------------------------------------------------------------------------
(***************************************************************************)
(* The cheap scan for a start offset: the mean unwarped distance of the    *)
(* recording to the reference from frame k on, as a fraction.              *)
(***************************************************************************)
OffsetScore(user, reference, k) ==
  LET count == IF Len(user) < Len(reference) - k THEN Len(user) ELSE Len(reference) - k
  IN [total |-> FoldLeft(LAMBDA s, i : s + PitchDistance(user[i], reference[k + i]),
                         0, [i \in 1 .. count |-> i]),
      count |-> count]

NoWorse(s, t) == s.total * t.count <= t.total * s.count
=============================================================================
