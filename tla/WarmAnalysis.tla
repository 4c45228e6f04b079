---------------------------- MODULE WarmAnalysis ----------------------------
(***************************************************************************)
(* The stages of an analysis from the alignment on, in the order of        *)
(* build_stages (worker.py), and the result the aggregate stage makes of   *)
(* them (pipeline/stages/aggregate.py).  A stage reads the results of the  *)
(* stages before it and adds its own.  How the runner schedules, retries   *)
(* and resumes stages is the subject of PipelineRunner.                    *)
(***************************************************************************)
EXTENDS AlignStage, Report

CONSTANT TakesOf(_, _)  \* what else a recording and its reference can be

\* Onsets are at frames of the curve, silence is by coarse frames.
ASSUME TakesAssumption ==
  \A u \in Recordings, r \in References : \A t \in TakesOf(u, r) :
    /\ t.mode \in Modes /\ t.locale \in Locales
    /\ t.userOnsets \subseteq 0 .. Len(u) - 1 /\ t.referenceOnsets \subseteq 0 .. Len(r) - 1
    /\ t.userSilent \in [1 .. Len(Strided(u)) -> BOOLEAN]
    /\ t.referenceSilent \in [1 .. Len(Strided(r)) -> BOOLEAN]
    /\ {t.userVibrato, t.referenceVibrato} \subseteq [detected : BOOLEAN, rate : Nat, depth : Nat]
    /\ {t.correlation, t.similarity} \subseteq Int /\ t.correlation <= 100 /\ t.similarity <= 100

VARIABLES
  take,     \* the request and what the numeric code finds in the audio
  results,  \* the results so far, by stage
  stage     \* the stage that runs next, "done" or "failed"

warmVars == <<user, reference, at, tried, offset, found, take, results, stage>>
-----------------------------------------------------------------------------
WarmInit ==
  /\ AlignInit /\ take \in TakesOf(user, reference)
  /\ results = <<>> /\ stage = "align"

\* context.results with the result of one more stage, or of a group of them.
With(more) ==
  [s \in DOMAIN results \cup DOMAIN more |-> IF s \in DOMAIN more THEN more[s] ELSE results[s]]

AlignResult ==
  [path |-> found.path, cost |-> found.cost, offset |-> offset,
   mismatch |-> Overlap(user, From(reference, offset)).mismatch]

RunAlign ==
  /\ stage = "align" /\ AlignNext
  /\ stage' = CASE at' = "aligned"        -> "pitch"
                [] at' \in AlignFailures  -> "failed"
                [] OTHER                  -> "align"
  /\ results' = IF at' = "aligned" THEN With([align |-> AlignResult']) ELSE results
  /\ UNCHANGED take

\* The stages after the alignment do not see its offset in the reference.
RunPitch ==
  /\ stage = "pitch" /\ stage' = "key_normalization"
  /\ results' = With([pitch |-> PitchResult(user, reference, results["align"].path)])
  /\ UNCHANGED <<user, reference, at, tried, offset, found, take>>

RunKeyNormalization ==
  /\ stage = "key_normalization" /\ stage' = "aspects"
  /\ results' = With([key_normalization |->
                  KeyResult(results["pitch"].deviations, take.mode, take.allowTransposition)])
  /\ UNCHANGED <<user, reference, at, tried, offset, found, take>>

AspectResult(aspect) ==
  LET path == results["align"].path
  IN CASE aspect = "rhythm"   -> RhythmResult(take.userOnsets, take.referenceOnsets, path)
       [] aspect = "vibrato"  -> VibratoResult(take.userVibrato, take.referenceVibrato)
       [] aspect = "dynamics" -> LikenessResult(take.correlation)
       [] aspect = "timbre"   -> LikenessResult(take.similarity)
       [] aspect = "breath"   -> BreathResult(take.userSilent, take.referenceSilent, path)

\* One parallel group; timbre and breath are not for mixed recordings.
RunAspects ==
  /\ stage = "aspects" /\ stage' = "recording_condition"
  /\ results' = With([aspect \in AspectsOf(take.mode) \ {"pitch"} |-> AspectResult(aspect)])
  /\ UNCHANGED <<user, reference, at, tried, offset, found, take>>

RunRecordingCondition ==
  /\ stage = "recording_condition" /\ stage' = "aggregate"
  /\ results' = With([recording_condition |-> ConditionResult(take.rms, user, take.mode)])
  /\ UNCHANGED <<user, reference, at, tried, offset, found, take>>
-----------------------------------------------------------------------------
\* The score of a shifted take takes the place of its pitch score.
AspectScores ==
  [aspect \in AspectsOf(take.mode) |->
     IF aspect = "pitch" /\ results["key_normalization"].applied
     THEN results["key_normalization"].adjusted ELSE results[aspect].score]

AccompanimentInClean == take.mode = "clean" /\ results["recording_condition"].detected

Signals ==
  [mode |-> take.mode, accompanimentInClean |-> AccompanimentInClean,
   voiced |-> results["pitch"].voiced, frames |-> Len(user),
   cost |-> results["align"].cost, steps |-> Len(results["align"].path),
   outOfRange |-> results["key_normalization"].outOfRange,
   mismatch |-> results["align"].mismatch, startOffset |-> results["align"].offset]

AggregateResult ==
  LET confidence == Confidence(Signals)
  IN [scores |-> AspectScores,
      overall |-> OverallScore(AspectScores, take.mode),
      confidence |-> confidence.overall, aspects |-> confidence.aspects,
      warnings |-> results["recording_condition"].warnings \o confidence.warnings]

\* A phrase that is missing is an exception, and the end of the analysis.
RunAggregate ==
  /\ stage = "aggregate"
  /\ results' = With([aggregate |-> AggregateResult])
  /\ stage' = IF \A a \in AspectsOf(take.mode) : HasPhrase(a, results[a], take.locale)
              THEN "done" ELSE "failed"
  /\ UNCHANGED <<user, reference, at, tried, offset, found, take>>

WarmNext ==
  \/ RunAlign \/ RunPitch \/ RunKeyNormalization \/ RunAspects
  \/ RunRecordingCondition \/ RunAggregate

WarmSpec == WarmInit /\ [][WarmNext]_warmVars
-----------------------------------------------------------------------------
Final == results["aggregate"]

\* Nothing keeps a configured weight from being negative (ScoringWeights.parse).
WeightsArePositive(mode) == \A a \in AspectsOf(mode) : Weights[mode][a] >= 0

(***************************************************************************)
(* The scores of the aspects are between 0 and 100 points, and so is the   *)
(* overall one unless a weight of the mode is negative; the levels of      *)
(* confidence are the three there are.                                     *)
(***************************************************************************)
WarmTypeOK ==
  /\ AlignTypeOK
  /\ (stage = "align") <=> at \in {"start", "direct", "search"}
  /\ stage = "done" =>
       /\ Final.overall \in Int /\ Final.confidence \in 0 .. 2
       /\ WeightsArePositive(take.mode) => Final.overall \in 0 .. 1000
       /\ Final.scores \in [AspectsOf(take.mode) -> 0 .. 1000]
       /\ Final.aspects \in [AspectsOf(take.mode) -> 0 .. 2]

(***************************************************************************)
(* A melody sung as it is, in whatever octave, aligns from the beginning   *)
(* at no cost (ADR-0033), unless it is too long or has too little voice.   *)
(***************************************************************************)
SameMelody ==
  /\ Len(user) = Len(reference)
  /\ \A i \in DOMAIN user : /\ user[i] = 0 <=> reference[i] = 0
                           /\ (user[i] - reference[i]) % 12 = 0

SameMelodyAligns ==
  SameMelody =>
    /\ at \notin {"search", "ALIGNMENT_FAILED"}
    /\ at = "aligned" => offset = 0 /\ found.cost = 0

(***************************************************************************)
(* The reference itself, sung back, gets full marks for everything: no     *)
(* stage loses a frame, an onset or a pause on the way.  (A reference      *)
(* without onsets has none to meet: the rhythm stage gives it nothing.)    *)
(***************************************************************************)
OwnTake ==
  /\ user = reference /\ take.referenceOnsets # {}
  /\ take.userOnsets = take.referenceOnsets /\ take.userSilent = take.referenceSilent
  /\ take.userVibrato = take.referenceVibrato
  /\ take.correlation = 100 /\ take.similarity = 100

OwnTakeIsPerfect ==
  stage = "done" /\ OwnTake => Final.overall = 1000

(***************************************************************************)
(* High confidence is given only to an a cappella recording, voiced for    *)
(* the most part, that was compared with the reference from its first      *)
(* frame to its last one (spec 6.15, scoring/confidence.py).               *)
(***************************************************************************)
ConfidenceIsHonest ==
  stage = "done" /\ Final.confidence = 2 =>
    /\ take.mode = "clean" /\ ~Accompanied(take.rms, user)
    /\ 2 * Voiced(user) >= Len(user)
    /\ offset = 0 /\ found.path[1] = <<0, 0>>
    /\ found.path[Len(found.path)] = <<Len(user) - 1, Len(reference) - 1>>

(***************************************************************************)
(* Taking a shift of the whole take off never costs points: what is taken  *)
(* off is the median, which no other shift beats (key_normalization.py).   *)
(***************************************************************************)
AdjustedNeverWorse ==
  stage = "done" /\ results["key_normalization"].applied =>
    results["key_normalization"].adjusted >= results["pitch"].score

(***************************************************************************)
(* No outcome lacks its phrase: what aligned is never failed by the report *)
(* (report.py looks a phrase up by a key it puts together).                *)
(***************************************************************************)
OnlyAlignmentFails == stage = "failed" => at \in AlignFailures

(***************************************************************************)
(* "the mapping this stage produces" is between moments that correspond    *)
(* (align.py, timemap.py), whatever the start of the reference: a frame is *)
(* compared with one the accepted alignment pairs it with.  It is not:     *)
(* the path counts from the start offset, the reference from its start.    *)
(***************************************************************************)
ComparedWhereAligned ==
  "pitch" \in DOMAIN results =>
    \A i \in {found.path[k][1] : k \in DOMAIN found.path} :
      \E k \in DOMAIN found.path :
        /\ found.path[k][1] = i
        /\ results["pitch"].aligned[i + 1] = reference[offset + found.path[k][2] + 1]

(***************************************************************************)
(* Transposing a take within the allowed shift does not move its pitch     *)
(* score (test T1 / NFR-20, key_normalization.py).  It does: the alignment *)
(* refuses a take that is a semitone or more away all along.               *)
(***************************************************************************)
Transposed ==
  /\ Len(user) = Len(reference) /\ (take.mode = "mixed" \/ take.allowTransposition)
  /\ Voiced(user) * 2 >= Len(user)
  /\ \E shift \in {300, -500} :
       \A i \in DOMAIN user :
         IF reference[i] = 0 THEN user[i] = 0
         ELSE user[i] # 0 /\ Cents(user[i], reference[i]) = shift

TransposedIsScored ==
  Transposed =>
    /\ stage # "failed"
    /\ stage = "done" => Final.scores["pitch"] = 1000
=============================================================================
