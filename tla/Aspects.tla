------------------------------- MODULE Aspects -------------------------------
(***************************************************************************)
(* What the stages after the alignment measure (pipeline/stages/pitch.py,  *)
(* key_normalization.py, rhythm.py, breath.py, vibrato.py, dynamics.py and *)
(* timbre.py, dsp/pitch_scoring.py).                                       *)
(*                                                                         *)
(* A score is counted in tenths of a point, the place it is rounded to;    *)
(* deviations in cents, times in fine hops, correlations in percent.  What *)
(* numeric code finds in the audio (onsets, silence, vibrato, correlation) *)
(* is an argument.                                                         *)
(***************************************************************************)
EXTENDS Alignment

CONSTANTS
  ZeroCents,                        \* PITCH_SCORE_CENTS_FOR_ZERO
  MinShift, MaxShift, MaxIqr,       \* KEY_SHIFT_MIN_SEMITONES and its like, in cents
  OnsetTolerance,                   \* RHYTHM_ONSET_TOLERANCE_MS
  PauseFrames, PauseTolerance,      \* BREATH_MIN_PAUSE_SECONDS, ..._MATCH_TOLERANCE_SECONDS
  RateTolerance, DepthTolerance,    \* VIBRATO_RATE_TOLERANCE_HZ, VIBRATO_DEPTH_TOLERANCE_CENTS
  PresenceMismatch                  \* VIBRATO_PRESENCE_MISMATCH_SCORE

ASSUME ToleranceAssumption ==
  /\ {ZeroCents, OnsetTolerance, RateTolerance, DepthTolerance} \subseteq Nat \ {0}
  /\ PresenceMismatch \in 0 .. 1000

\* A pause is a coarse frame at least, and met within half of one (constants.py).
ASSUME PauseAssumption ==
  PauseFrames \in Nat \ {0} /\ PauseTolerance \in Nat /\ Stride <= 2 * PauseTolerance

Abs(x) == Distance(x, 0)

\* 100 points for no error on average, falling to 0 at the given one.
Decay(sum, count, zero) ==
  IF sum >= zero * count THEN 0 ELSE RoundDiv(1000 * (zero * count - sum), zero * count)

SumAbs(f) == SumFunction([i \in DOMAIN f |-> Abs(f[i])])
-----------------------------------------------------------------------------
(***************************************************************************)
(* Pitch: every frame of the recording against the frame of the reference  *)
(* the time map gives for it, where both are voiced.                       *)
(***************************************************************************)
Cents(u, r) == 100 * (u - r)

\* Defect: frames are counted from 0 here.
AlignedReferenceFromZero(user, reference, path) ==
  [i \in DOMAIN user |->
     LET j == UserToReference(path, 1, i - 1)
     IN IF j \in DOMAIN reference THEN reference[j] ELSE 0]

AlignedReference(user, reference, path) ==
  [i \in DOMAIN user |->
     LET j == UserToReference(path, 1, i - 1) + 1
     IN IF j \in DOMAIN reference THEN reference[j] ELSE 0]

PresentDeviations(user, aligned) ==
  [i \in {i \in DOMAIN user : user[i] # 0 /\ aligned[i] # 0} |-> Cents(user[i], aligned[i])]

PitchResult(user, reference, path) ==
  LET aligned == AlignedReference(user, reference, path)
      deviations == PresentDeviations(user, aligned)
  IN [score |-> Decay(SumAbs(deviations), Cardinality(DOMAIN deviations), ZeroCents),
      aligned |-> aligned, deviations |-> deviations, voiced |-> Voiced(user)]
-----------------------------------------------------------------------------
\* Defect: the values are not sorted.
NthSmallestUnsorted(f, k) ==
  f[CHOOSE i \in DOMAIN f : Cardinality({j \in DOMAIN f : j < i}) = k - 1]

\* The k-th of the values of f, once they are sorted.
NthSmallest(f, k) ==
  CHOOSE x \in Range(f) : /\ Cardinality({i \in DOMAIN f : f[i] < x}) < k
                          /\ k <= Cardinality({i \in DOMAIN f : f[i] <= x})

\* Four times the q-th quartile, interpolated between neighbours.
Quartile(f, q) ==
  LET k == ((Cardinality(DOMAIN f) - 1) * q) \div 4
      part == ((Cardinality(DOMAIN f) - 1) * q) % 4
  IN (4 - part) * NthSmallest(f, k + 1) + (IF part = 0 THEN 0 ELSE part * NthSmallest(f, k + 2))

(***************************************************************************)
(* A shift of the whole take is taken off the deviations if it is large    *)
(* enough, steady enough and not too large, and may be there at all.       *)
(***************************************************************************)
NoShift == [applied |-> FALSE, outOfRange |-> FALSE, adjusted |-> 0]

KeyResult(deviations, mode, allowTransposition) ==
  LET median == Quartile(deviations, 2)
      iqr == Quartile(deviations, 3) - Quartile(deviations, 1)
      eligible == mode = "mixed" \/ allowTransposition
      outOfRange == eligible /\ Abs(median) > 4 * MaxShift
      applied == /\ eligible /\ ~outOfRange
                 /\ Abs(median) >= 4 * MinShift /\ iqr <= 4 * MaxIqr
      adjusted == [k \in DOMAIN deviations |-> 4 * deviations[k] - median]
  IN IF DOMAIN deviations = {} THEN NoShift
     ELSE [applied |-> applied, outOfRange |-> outOfRange,
           adjusted |-> IF applied THEN Decay(SumAbs(adjusted), Cardinality(DOMAIN deviations), 4 * ZeroCents)
                        ELSE 0]
-----------------------------------------------------------------------------
\* Each onset of the reference against the nearest one of the recording.  The path passes
\* through every frame up to its end, so that the moment of an onset needs no rounding.
OnsetOffset(r, userOnsets, path) ==
  Min({Distance(u, ReferenceToUser(path, 1, r)) : u \in userOnsets})

RhythmResult(userOnsets, referenceOnsets, path) ==
  LET paired == IF userOnsets = {} THEN {} ELSE referenceOnsets
      Offset(r) == OnsetOffset(r, userOnsets, path)
  IN [score |-> Decay(SumFunction([r \in paired |-> Offset(r)]), Cardinality(paired), OnsetTolerance),
      within |-> Cardinality({r \in paired : Offset(r) <= OnsetTolerance}),
      total |-> Cardinality(referenceOnsets)]
-----------------------------------------------------------------------------
\* The maximal silent runs long enough to be a pause; a silent track has none.
PauseRegions(silent) ==
  LET n == Len(silent)
  IN {run \in (0 .. n - 1) \X (1 .. n) :
        /\ run[1] + PauseFrames <= run[2] /\ \E i \in 1 .. n : ~silent[i]
        /\ \A i \in run[1] + 1 .. run[2] : silent[i]
        /\ run[1] = 0 \/ ~silent[run[1]]
        /\ run[2] = n \/ ~silent[run[2] + 1]}

\* The middle of a run of coarse frames, in halves of a fine hop: none is rounded.
MiddleOf(run) == (run[1] + run[2]) * Stride

BreathResult(userSilent, referenceSilent, path) ==
  LET pauses == PauseRegions(referenceSilent)
      matched == {p \in pauses : \E u \in PauseRegions(userSilent) :
                    Distance(MiddleOf(u), ReferenceToUser(path, 2, MiddleOf(p))) <= 2 * PauseTolerance}
  IN [score |-> IF pauses = {} THEN 1000
                ELSE RoundDiv(1000 * Cardinality(matched), Cardinality(pauses)),
      total |-> Cardinality(pauses)]
-----------------------------------------------------------------------------
VibratoScore(user, reference) ==
  CASE ~user.detected /\ ~reference.detected  -> 1000
    [] user.detected # reference.detected     -> PresenceMismatch
    [] OTHER -> Decay(Distance(user.rate, reference.rate) * DepthTolerance
                        + Distance(user.depth, reference.depth) * RateTolerance,
                      1, 2 * RateTolerance * DepthTolerance)

VibratoResult(user, reference) ==
  [score |-> VibratoScore(user, reference), user |-> user, reference |-> reference]

\* Dynamics and timbre: a likeness in percent, none if it is negative.
LikenessResult(percent) == [score |-> IF percent < 0 THEN 0 ELSE 10 * percent]
=============================================================================
