----------------------------- MODULE AlignStage -----------------------------
(***************************************************************************)
(* The align stage (pipeline/stages/align.py): one attempt from the start  *)
(* of the reference, then a bounded search for a later start.  One action  *)
(* per attempt; the recording and the reference are the initial state.     *)
(***************************************************************************)
EXTENDS Alignment

CONSTANTS
  Recordings, References,  \* the pitch curves looked at
  MinVoicedPercent,        \* MIN_VOICED_FRACTION
  CoarseBand, RefineBand,  \* the radii of the two bands
  MaxDistancePercent,      \* ALIGN_PITCH_MAX_NORMALIZED_DISTANCE
  MaxStartOffset,          \* ALIGN_MAX_START_OFFSET_SECONDS, in fine hops
  CandidateCount           \* ALIGN_START_OFFSET_CANDIDATE_COUNT

ASSUME AlignAssumption ==
  /\ Recordings \subseteq Seq(Nat) /\ References \subseteq Seq(Nat)
  /\ MaxStartOffset \in Nat /\ CandidateCount \in Nat
  /\ CoarseBand \in Nat /\ RefineBand \in Nat

\* The fine band is at least a frame, and no narrower than the hop it follows (constants.py).
ASSUME BandAssumption ==
  /\ 1 <= RefineBand /\ Stride <= RefineBand + 1
  /\ MaxDistancePercent \in Nat

\* A recording with no voice at all is never compared (constants.py).
ASSUME VoiceAssumption == MinVoicedPercent \in Nat \ {0}

VARIABLES
  user, reference,  \* the two pitch curves
  at,               \* "start", "direct", "search", "aligned", or the failure's code
  tried,            \* the start offsets the search has taken up
  offset,           \* the start offset of the attempt that was accepted
  found             \* that attempt

alignVars == <<user, reference, at, tried, offset, found>>
-----------------------------------------------------------------------------
\* Every Stride-th frame, the first one included.
Strided(s) ==
  [k \in 1 .. (Len(s) + Stride - 1) \div Stride |-> s[(k - 1) * Stride + 1]]

Shorter(s, t) == IF Len(s) < Len(t) THEN Len(s) ELSE Len(t)

Front1(s, k) == SubSeq(s, 1, IF k < Len(s) THEN k ELSE Len(s))

\* Lengths further apart than the coarse band are cropped to the overlap.
Mismatch(u, r) == Distance(Len(u), Len(r)) > CoarseBand

\* Defect: whatever the lengths, nothing is cropped.
OverlapUncropped(u, r) ==
  [coarseUser |-> Strided(u), coarseReference |-> Strided(r), user |-> u, reference |-> r,
   mismatch |-> Mismatch(Strided(u), Strided(r))]

(***************************************************************************)
(* One attempt: a coarse pass around the diagonal, then a fine one around  *)
(* the coarse path.                                                        *)
(***************************************************************************)
Overlap(u, r) ==
  LET keep == Shorter(Strided(u), Strided(r))
  IN IF Mismatch(Strided(u), Strided(r))
     THEN [coarseUser |-> Front1(Strided(u), keep), coarseReference |-> Front1(Strided(r), keep),
           user |-> Front1(u, keep * Stride), reference |-> Front1(r, keep * Stride),
           mismatch |-> TRUE]
     ELSE [coarseUser |-> Strided(u), coarseReference |-> Strided(r),
           user |-> u, reference |-> r, mismatch |-> FALSE]

From(r, k) == SubSeq(r, k + 1, Len(r))

Coarse(o) ==
  BandedDtw(o.coarseUser, o.coarseReference, Diagonal(Len(o.coarseUser)), CoarseBand)

Center(o, coarse) == RefineCenter(coarse.path, Len(o.user), Len(o.reference))

Attempt(u, r, k) ==
  LET o == Overlap(u, From(r, k))
      coarse == Coarse(o)
      fine == BandedDtw(o.user, o.reference, Center(o, coarse), RefineBand)
  IN IF coarse.reason # "aligned" THEN [coarse EXCEPT !.path = <<>>] ELSE fine

Accepted(t) ==
  t.reason = "aligned" /\ t.cost <= MaxDistancePercent * Len(t.path)
-----------------------------------------------------------------------------
AlignInit ==
  /\ user \in Recordings /\ reference \in References
  /\ at = "start" /\ tried = {} /\ offset = 0 /\ found = NoPath("none")

CheckVoiced ==
  /\ at = "start"
  /\ at' = IF user = <<>> \/ Voiced(user) * 100 < MinVoicedPercent * Len(user)
           THEN "NO_VOICE_DETECTED" ELSE "direct"
  /\ UNCHANGED <<user, reference, tried, offset, found>>

LastOffset == IF MaxStartOffset < Len(reference) - 1 THEN MaxStartOffset ELSE Len(reference) - 1

\* Defect: an AlignmentTooLarge is answered by a search as well.
AttemptDirectSearchesAlways ==
  LET t == Attempt(user, reference, 0)
  IN /\ at = "direct"
     /\ at' = IF Accepted(t) THEN "aligned"
              ELSE IF LastOffset < 1 THEN "ALIGNMENT_FAILED" ELSE "search"
     /\ found' = IF Accepted(t) THEN t ELSE found
     /\ UNCHANGED <<user, reference, tried, offset>>

\* Only an AlignmentFailed is answered by a search.
AttemptDirect ==
  LET t == Attempt(user, reference, 0)
  IN /\ at = "direct"
     /\ \/ Accepted(t) /\ at' = "aligned" /\ found' = t
        \/ t.reason = "too_large" /\ at' = "ALIGNMENT_TOO_LARGE" /\ UNCHANGED found
        \/ /\ t.reason # "too_large" /\ ~Accepted(t)
           /\ at' = IF LastOffset < 1 THEN "ALIGNMENT_FAILED" ELSE "search"
           /\ UNCHANGED found
     /\ UNCHANGED <<user, reference, tried, offset>>

Score(k) == OffsetScore(user, reference, k)

\* argsort leaves the order of equal scores open.
NextCandidates ==
  LET left == (0 .. LastOffset) \ tried
  IN IF Cardinality(tried) = CandidateCount THEN {}
     ELSE {k \in left : \A l \in left : NoWorse(Score(k), Score(l))}

\* Defect: the candidate's attempt is stored before it is compared with the ceiling.
AttemptCandidateUnchecked ==
  /\ at = "search"
  /\ \E k \in NextCandidates :
       LET t == Attempt(user, reference, k)
       IN /\ tried' = tried \cup {k}
          /\ IF k # 0 /\ t.reason = "aligned"
             THEN at' = "aligned" /\ offset' = k /\ found' = t
             ELSE UNCHANGED <<at, offset, found>>
  /\ UNCHANGED <<user, reference>>

\* Offset 0 takes up a place among the candidates and is passed over.
AttemptCandidate ==
  /\ at = "search"
  /\ \E k \in NextCandidates :
       LET t == Attempt(user, reference, k)
           accepted == k # 0 /\ Accepted(t)
       IN /\ tried' = tried \cup {k}
          /\ offset' = IF accepted THEN k ELSE offset
          /\ found' = IF accepted THEN t ELSE found
          /\ at' = CASE accepted                          -> "aligned"
                     [] k # 0 /\ t.reason = "too_large"   -> "ALIGNMENT_TOO_LARGE"
                     [] OTHER                             -> "search"
  /\ UNCHANGED <<user, reference>>

\* The first failure is raised again.
SearchFails ==
  /\ at = "search" /\ NextCandidates = {}
  /\ at' = "ALIGNMENT_FAILED"
  /\ UNCHANGED <<user, reference, tried, offset, found>>

AlignNext == CheckVoiced \/ AttemptDirect \/ AttemptCandidate \/ SearchFails
AlignSpec == AlignInit /\ [][AlignNext]_alignVars
-----------------------------------------------------------------------------
(***************************************************************************)
(* What the passes promise.  A warping path steps forward in one or both   *)
(* curves; Warpings are all the paths of a band from corner to corner.     *)
(***************************************************************************)
PathCost(p, a, b) ==
  LET sum[k \in 0 .. Len(p)] ==
        IF k = 0 THEN 0 ELSE sum[k - 1] + PitchDistance(a[p[k][1] + 1], b[p[k][2] + 1])
  IN sum[Len(p)]

Warpings(n, m, center, band) ==
  LET to[c \in (0 .. n) \X (0 .. m)] ==
        LET i == c[1]
            j == c[2]
        IN IF i = 0 /\ j = 0 THEN {<<>>}
           ELSE IF i = 0 \/ j = 0 \/ ~InBand(center, band, i, j) THEN {}
           ELSE {Append(p, <<i - 1, j - 1>>) :
                   p \in to[<<i - 1, j - 1>>] \cup to[<<i - 1, j>>] \cup to[<<i, j - 1>>]}
  IN to[<<n, m>>]

IsCheapest(pass, a, b, center, band) ==
  LET all == Warpings(Len(a), Len(b), center, band)
  IN /\ pass.reason \in {"unreachable", "no_path"} => all = {}
     /\ pass.reason = "aligned" =>
          /\ pass.path \in all /\ PathCost(pass.path, a, b) = pass.cost
          /\ \A p \in all : pass.cost <= PathCost(p, a, b)

AlignFailures == {"NO_VOICE_DETECTED", "ALIGNMENT_TOO_LARGE", "ALIGNMENT_FAILED"}

\* Which control points and offsets a run of the stage can be at.
AlignTypeOK ==
  /\ user \in Recordings /\ reference \in References
  /\ at \in {"start", "direct", "search", "aligned"} \cup AlignFailures
  /\ tried \subseteq Nat /\ Cardinality(tried) <= CandidateCount
  /\ offset \in tried \cup {0}
  /\ found.reason = (IF at = "aligned" THEN "aligned" ELSE "none")

(***************************************************************************)
(* Both passes find a cheapest warping path of their band, and fail only   *)
(* where there is none: WarpingPath's contract and the kernel's, whose     *)
(* rows are addressed relative to a centre that moves.                     *)
(***************************************************************************)
PathsAreCheapest ==
  at = "direct" =>
    LET o == Overlap(user, reference)
        coarse == Coarse(o)
        center == Center(o, coarse)
    IN /\ IsCheapest(coarse, o.coarseUser, o.coarseReference,
                     Diagonal(Len(o.coarseUser)), CoarseBand)
       /\ coarse.reason = "aligned" =>
            IsCheapest(BandedDtw(o.user, o.reference, center, RefineBand),
                       o.user, o.reference, center, RefineBand)

\* The band of some frame begins past the column after the end of the band before it.
BandJumps(center, band, n) ==
  center[1] > band + 1 \/ \E i \in 2 .. n : center[i] - center[i - 1] > 2 * band + 1

(***************************************************************************)
(* What fails an attempt before its cost is looked at, wherever the        *)
(* reference starts: the size, or a projected centre that jumps past the   *)
(* fine band.  The crop leaves the coarse pass no way to fail by the       *)
(* lengths (ADR-0030); a gap it leaves alone, "already absorbed by the     *)
(* band" (align.py), is not always: the fine pass has no path where the    *)
(* coarse one leaps over it (refine_center, _banded_dtw_kernel).           *)
(***************************************************************************)
OnlyAJumpFails ==
  at = "direct" =>
    \A k \in 0 .. LastOffset :
      LET o == Overlap(user, From(reference, k))
          n == Len(o.user)
          center == Center(o, Coarse(o))
      IN /\ Coarse(o).reason \in {"aligned", "too_large"}
         /\ Coarse(o).reason = "aligned" =>
              BandedDtw(o.user, o.reference, center, RefineBand).reason =
                IF (n + 1) * (2 * RefineBand + 1) > MaxCells THEN "too_large"
                ELSE IF BandJumps(center, RefineBand, n) THEN "no_path" ELSE "aligned"

(***************************************************************************)
(* The projected centre moves forward, from the near corner to the far     *)
(* one, although the coarse hop covers another duration than the fine one: *)
(* the fine pass is never refused as unreachable (refine_center).          *)
(***************************************************************************)
CenterReachesCorner ==
  at = "direct" =>
    \A k \in 0 .. LastOffset :
      LET o == Overlap(user, From(reference, k))
          n == Len(o.user)
          center == Center(o, Coarse(o))
      IN Coarse(o).reason = "aligned" =>
           /\ center[0] = 0 /\ center[n] = Len(o.reference)
           /\ \A i \in 1 .. n : center[i - 1] <= center[i]

(***************************************************************************)
(* A search ends in an alignment or in the failure that started it: no     *)
(* candidate is larger than the direct attempt, so a limit on the size     *)
(* that let the direct attempt pass never stops the search                 *)
(* (_find_reference_start_offset catches AlignmentFailed only).            *)
(***************************************************************************)
SearchRaisesNothingNew ==
  at = "ALIGNMENT_TOO_LARGE" => tried = {}

(***************************************************************************)
(* A later start is assumed only for a recording that does not align from  *)
(* the beginning, and whatever is reported was accepted by the same        *)
(* two passes and the same ceiling from that start (ADR-0032).             *)
(***************************************************************************)
StartOffsetIsLastResort ==
  at = "aligned" =>
    /\ found = Attempt(user, reference, offset) /\ Accepted(found)
    /\ offset # 0 => /\ ~Accepted(Attempt(user, reference, 0))
                     /\ Attempt(user, reference, 0).reason # "too_large"
                     /\ offset <= MaxStartOffset
=============================================================================
