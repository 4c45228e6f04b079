------------------------------- MODULE Scoring -------------------------------
(***************************************************************************)
(* From measurements to an overall score with a confidence                 *)
(* (pipeline/stages/recording_condition.py, scoring/weights.py,            *)
(* scoring/confidence.py).                                                 *)
(***************************************************************************)
EXTENDS Aspects

CONSTANTS
  Weights, Whole,          \* SCORING_WEIGHTS_CLEAN and _MIXED, as parts of a whole
  DetectPercent,           \* ACCOMPANIMENT_DETECT_THRESHOLD
  MinUnvoicedFrames,       \* RECORDING_CONDITION_MIN_UNVOICED_FRAMES
  LowVoicedPercent,        \* CONFIDENCE_LOW_VOICED_RATIO
  WeakAlignmentPercent     \* CONFIDENCE_WEAK_ALIGNMENT_COST

Modes == {"clean", "mixed"}

\* Little voice is less than half of the frames, if not more (constants.py).
ASSUME ConfidenceAssumption == LowVoicedPercent \in Nat /\ LowVoicedPercent >= 50

ASPECTS == <<"pitch", "rhythm", "breath", "dynamics", "vibrato", "timbre">>

MODE_ASPECTS == [mode \in Modes |->
  IF mode = "clean" THEN ASPECTS ELSE <<"pitch", "rhythm", "dynamics", "vibrato">>]

AspectsOf(mode) == Range(MODE_ASPECTS[mode])

\* ScoringWeights.parse: one weight for each aspect of the mode, 1 in all; of any sign.
ASSUME WeightsAssumption ==
  /\ Whole \in Nat \ {0}
  /\ \A mode \in Modes :
       /\ Weights[mode] \in [AspectsOf(mode) -> Int]
       /\ SumFunction(Weights[mode]) = Whole

OverallScore(scores, mode) ==
  RoundDiv(SumFunction([a \in AspectsOf(mode) |-> scores[a] * Weights[mode][a]]), Whole)
-----------------------------------------------------------------------------
(***************************************************************************)
(* Accompaniment: how loud the recording still is where nobody sings, by   *)
(* the medians of what the two framings have in common.                    *)
(***************************************************************************)
Loudness(rms, curve, voiced) ==
  LET n == Min({Len(rms), Len(curve)})
  IN [i \in {i \in 1 .. n : (curve[i] # 0) = voiced} |-> rms[i]]

Accompanied(rms, curve) ==
  LET sung == Loudness(rms, curve, TRUE)
      rest == Loudness(rms, curve, FALSE)
  IN /\ DOMAIN sung # {} /\ DOMAIN rest # {}
     /\ Cardinality(DOMAIN rest) >= MinUnvoicedFrames
     /\ Quartile(sung, 2) > 0
     /\ Quartile(rest, 2) * 100 >= DetectPercent * Quartile(sung, 2)

ConditionResult(rms, curve, mode) ==
  LET detected == Accompanied(rms, curve)
  IN [detected |-> detected,
      effectiveMode |-> IF detected THEN mode ELSE "clean",
      warnings |-> CASE mode = "clean" /\ detected  -> <<"ACCOMPANIMENT_IN_CLEAN_MODE">>
                     [] mode = "mixed" /\ ~detected -> <<"MODE_DOWNGRADED_TO_CLEAN">>
                     [] OTHER                       -> <<>>]
-----------------------------------------------------------------------------
\* Defect: there is nothing below the lowest level.
StepDownUnbounded(level, steps) == level - steps

\* Levels of confidence: 0 is low, 1 medium, 2 high.
StepDown(level, steps) == IF level < steps THEN 0 ELSE level - steps

Highest(mode) == IF mode = "mixed" THEN 1 ELSE 2

LittleVoice(s) == s.voiced * 100 < LowVoicedPercent * s.frames

\* Defect: a crop and a start offset are not caveats.
CaveatsOfWhole(s) ==
  <<[holds |-> s.accompanimentInClean, code |-> "ACCOMPANIMENT_IN_CLEAN_MODE"],
    [holds |-> LittleVoice(s), code |-> "LITTLE_VOICE_DETECTED"],
    [holds |-> s.cost > WeakAlignmentPercent * s.steps, code |-> "WEAK_ALIGNMENT"],
    [holds |-> s.outOfRange, code |-> "KEY_SHIFT_OUT_OF_RANGE"]>>

\* The caveats, in the order compute_confidence looks at them.
Caveats(s) ==
  <<[holds |-> s.accompanimentInClean, code |-> "ACCOMPANIMENT_IN_CLEAN_MODE"],
    [holds |-> LittleVoice(s), code |-> "LITTLE_VOICE_DETECTED"],
    [holds |-> s.cost > WeakAlignmentPercent * s.steps, code |-> "WEAK_ALIGNMENT"],
    [holds |-> s.outOfRange, code |-> "KEY_SHIFT_OUT_OF_RANGE"],
    [holds |-> s.mismatch, code |-> "LENGTH_MISMATCH_PARTIAL_ANALYSIS"],
    [holds |-> s.startOffset > 0, code |-> "REFERENCE_START_OFFSET_DETECTED"]>>

\* A step down for each of them that holds, from the mode's highest level.
OverallConfidence(s) ==
  StepDown(Highest(s.mode), Cardinality({k \in DOMAIN Caveats(s) : Caveats(s)[k].holds}))

Confidence(s) ==
  LET present == SelectSeq(Caveats(s), LAMBDA c : c.holds)
      overall == OverallConfidence(s)
      doubtful == IF s.mode = "mixed" /\ LittleVoice(s) THEN {"pitch", "vibrato"} ELSE {}
  IN [overall |-> overall,
      aspects |-> [a \in AspectsOf(s.mode) |->
                     IF a \in doubtful THEN StepDown(overall, 1) ELSE overall],
      warnings |-> [k \in DOMAIN present |-> present[k].code]]
=============================================================================
