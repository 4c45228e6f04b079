-------------------------- MODULE WarmAnalysisProofs --------------------------
(***************************************************************************)
(* What the search for a start offset promises, for curves of any length,  *)
(* any bands and any limits, and what the stages after it make of it:      *)
(* scores, confidence and report, whatever the tolerances and the weights. *)
(***************************************************************************)
EXTENDS WarmAnalysis, AlignmentProofs, FiniteSetTheorems

\* The search is for a recording whose direct attempt failed, but not by its size.
SearchIsJustified ==
  at = "search" => /\ ~Accepted(Attempt(user, reference, 0))
                   /\ Attempt(user, reference, 0).reason # "too_large"

\* Until something is accepted nothing is found, and then the search is over.
AlignInv ==
  /\ AlignTypeOK /\ IsFiniteSet(tried)
  /\ at # "aligned" => offset = 0
  /\ SearchIsJustified /\ StartOffsetIsLastResort

StageInv ==
  /\ AlignInv
  /\ stage = "align" <=> at \in {"start", "direct", "search"}
  /\ take.mode \in Modes /\ take.locale \in Locales
  /\ OnlyAlignmentFails

\* No start is tried that is later than the limit.
LEMMA CandidatesInRange ==
  ASSUME AlignTypeOK, NEW k \in NextCandidates
  PROVE  /\ k \in Nat \ tried /\ k <= MaxStartOffset
         /\ Cardinality(tried) # CandidateCount
<1>1. k \in (0 .. LastOffset) \ tried /\ Cardinality(tried) # CandidateCount
  BY DEF NextCandidates
<1>2. LastOffset <= MaxStartOffset /\ LastOffset \in Int
  BY AlignAssumption DEF LastOffset, AlignTypeOK
<1> QED BY <1>1, <1>2, AlignAssumption

LEMMA AlignInitInv == AlignInit => AlignInv
<1> SUFFICES ASSUME AlignInit PROVE AlignInv
  OBVIOUS
<1>1. IsFiniteSet({}) /\ Cardinality({}) = 0
  BY FS_EmptySet
<1> QED BY <1>1, AlignAssumption
    DEF AlignInit, AlignInv, AlignTypeOK, SearchIsJustified, StartOffsetIsLastResort, NoPath

\* Every step of the align stage keeps the invariant.
LEMMA AlignNextInv == ASSUME AlignInv, AlignNext PROVE AlignInv'
<1> USE DEF AlignInv
<1>1. ASSUME CheckVoiced PROVE AlignInv'
  BY <1>1 DEF CheckVoiced, AlignTypeOK, AlignFailures, SearchIsJustified,
              StartOffsetIsLastResort
<1>2. ASSUME AttemptDirect PROVE AlignInv'
  <2>1. /\ at = "direct" /\ UNCHANGED <<user, reference, tried, offset>>
        /\ \/ /\ at' = "aligned" /\ found' = Attempt(user, reference, 0) /\ Accepted(found')
           \/ at' \in {"ALIGNMENT_TOO_LARGE", "ALIGNMENT_FAILED"} /\ UNCHANGED found
           \/ /\ at' = "search" /\ UNCHANGED found
              /\ ~Accepted(Attempt(user, reference, 0))
              /\ Attempt(user, reference, 0).reason # "too_large"
    BY <1>2 DEF AttemptDirect
  <2>2. offset = 0
    BY <2>1
  <2> QED BY <2>1, <2>2
      DEF AlignTypeOK, AlignFailures, SearchIsJustified, StartOffsetIsLastResort, Accepted
<1>3. ASSUME AttemptCandidate PROVE AlignInv'
  <2>1. PICK k \in NextCandidates :
           /\ at = "search" /\ tried' = tried \cup {k} /\ UNCHANGED <<user, reference>>
           /\ \/ /\ at' = "aligned" /\ offset' = k /\ k # 0
                 /\ found' = Attempt(user, reference, k) /\ Accepted(found')
              \/ at' \in {"search", "ALIGNMENT_TOO_LARGE"} /\ UNCHANGED <<offset, found>>
    <3>1. PICK k \in NextCandidates :
             LET t == Attempt(user, reference, k)
                 accepted == k # 0 /\ Accepted(t)
             IN /\ tried' = tried \cup {k}
                /\ offset' = IF accepted THEN k ELSE offset
                /\ found' = IF accepted THEN t ELSE found
                /\ at' = CASE accepted                          -> "aligned"
                           [] k # 0 /\ t.reason = "too_large"   -> "ALIGNMENT_TOO_LARGE"
                           [] OTHER                             -> "search"
      BY <1>3 DEF AttemptCandidate
    <3>2. at = "search" /\ UNCHANGED <<user, reference>>
      BY <1>3 DEF AttemptCandidate
    <3>3. CASE k # 0 /\ Accepted(Attempt(user, reference, k))
      <4>1. at' = "aligned" BY <3>1, <3>3 DEF Accepted
      <4> QED BY <3>1, <3>2, <3>3, <4>1
    <3>4. CASE ~(k # 0 /\ Accepted(Attempt(user, reference, k)))
      <4>1. at' \in {"search", "ALIGNMENT_TOO_LARGE"}
        BY <3>1, <3>4
      <4> QED BY <3>1, <3>2, <3>4, <4>1
    <3> QED BY <3>3, <3>4
  <2>2. k \in Nat \ tried /\ k <= MaxStartOffset /\ Cardinality(tried) # CandidateCount
    BY CandidatesInRange
  <2>3. IsFiniteSet(tried') /\ Cardinality(tried') = Cardinality(tried) + 1
    BY <2>1, <2>2, FS_AddElement
  <2>4. Cardinality(tried) \in Nat
    BY FS_CardinalityType
  <2>5. Cardinality(tried') <= CandidateCount
    BY <2>2, <2>3, <2>4, AlignAssumption DEF AlignTypeOK
  <2>6. AlignTypeOK'
    BY <2>1, <2>2, <2>5 DEF AlignTypeOK, Accepted, AlignFailures
  <2>7. StartOffsetIsLastResort'
    BY <2>1, <2>2 DEF StartOffsetIsLastResort, SearchIsJustified
  <2> QED BY <2>1, <2>3, <2>6, <2>7 DEF SearchIsJustified
<1>4. ASSUME SearchFails PROVE AlignInv'
  BY <1>4 DEF SearchFails, AlignTypeOK, AlignFailures, SearchIsJustified,
              StartOffsetIsLastResort
<1> QED BY <1>1, <1>2, <1>3, <1>4 DEF AlignNext

\* What is kept as long as the align stage does not run.
LEMMA AlignUnchanged ==
  ASSUME AlignInv, UNCHANGED alignVars PROVE AlignInv'
  BY DEF AlignInv, alignVars, AlignTypeOK, SearchIsJustified, StartOffsetIsLastResort
-----------------------------------------------------------------------------
LEMMA StageInitInv == WarmInit => StageInv
<1> SUFFICES ASSUME WarmInit PROVE StageInv
  OBVIOUS
<1>1. AlignInit /\ take \in TakesOf(user, reference) /\ stage = "align"
  BY DEF WarmInit
<1>2. take.mode \in Modes /\ take.locale \in Locales
  BY <1>1, TakesAssumption DEF AlignInit
<1> QED BY <1>1, <1>2, AlignInitInv DEF StageInv, AlignInit, OnlyAlignmentFails

\* The phrase chosen for an aspect is one its table has, in either language.
LEMMA NoPhraseIsMissing ==
  ASSUME NEW mode \in Modes, NEW locale \in Locales, NEW a \in AspectsOf(mode), NEW data
  PROVE  HasPhrase(a, data, locale)
<1>1. a \in {"pitch", "rhythm", "breath", "dynamics", "vibrato", "timbre"}
  BY DEF AspectsOf, MODE_ASPECTS, ASPECTS, Range, Modes
<1>2. \A score : Tier(score) \in TierKeys
  BY DEF Tier, TierKeys
<1>3. \A score : CoarseTier(score) \in {"excellent", "partial", "poor"}
  BY <1>2 DEF CoarseTier, TierKeys
<1>4. \A u, r : VibratoOutcomeKey(u, r) \in DifferKeys
  BY DEF VibratoOutcomeKey, DifferKeys
<1>5. CASE a \in {"pitch", "rhythm"}
  BY <1>5, <1>2 DEF HasPhrase, AspectFeedback, Templates
<1>6. CASE a \in {"breath", "dynamics"}
  BY <1>6, <1>3 DEF HasPhrase, AspectFeedback, Templates
<1>7. CASE a = "vibrato"
  BY <1>7, <1>4 DEF HasPhrase, AspectFeedback, Templates, VibratoFeedback, Only
<1>8. CASE a = "timbre"
  BY <1>8 DEF HasPhrase, AspectFeedback, Templates
<1> QED BY <1>1, <1>5, <1>6, <1>7, <1>8

(***************************************************************************)
(* The stages after the alignment run only once something was accepted,    *)
(* and the report is the only one of them that could fail.                 *)
(***************************************************************************)
StagesAfter == {"pitch", "key_normalization", "aspects", "recording_condition", "aggregate"}

LEMMA LaterStage ==
  ASSUME StageInv, WarmNext, ~RunAlign
  PROVE  UNCHANGED alignVars /\ stage \in StagesAfter
  BY DEF WarmNext, RunPitch, RunKeyNormalization, RunAspects, RunRecordingCondition,
         RunAggregate, alignVars, StagesAfter

\* Every stage keeps the invariant.
LEMMA StageNextInv == StageInv /\ [WarmNext]_warmVars => StageInv'
<1> SUFFICES ASSUME StageInv, [WarmNext]_warmVars PROVE StageInv'
  OBVIOUS
<1> USE DEF StageInv
<1>1. CASE UNCHANGED warmVars
  <2>1. UNCHANGED alignVars /\ UNCHANGED <<stage, take>>
    BY <1>1 DEF warmVars, alignVars
  <2> QED BY <2>1, AlignUnchanged DEF alignVars, OnlyAlignmentFails
<1>2. CASE RunAlign
  <2>1. AlignInv' /\ at' \in {"start", "direct", "search", "aligned"} \cup AlignFailures
    BY <1>2, AlignNextInv DEF RunAlign, AlignInv, AlignTypeOK
  <2>2. stage' = CASE at' = "aligned"        -> "pitch"
                   [] at' \in AlignFailures  -> "failed"
                   [] OTHER                  -> "align"
    BY <1>2 DEF RunAlign
  <2>3. UNCHANGED take
    BY <1>2 DEF RunAlign
  <2>4. stage' = "align" <=> at' \in {"start", "direct", "search"}
    BY <2>1, <2>2 DEF AlignFailures
  <2>5. stage' = "failed" => at' \in AlignFailures
    BY <2>1, <2>2 DEF AlignFailures
  <2> QED BY <2>1, <2>3, <2>4, <2>5 DEF OnlyAlignmentFails
<1>3. CASE WarmNext /\ ~RunAlign
  <2>1. UNCHANGED alignVars /\ stage \in StagesAfter
    BY <1>3, LaterStage
  <2>2. AlignInv' /\ UNCHANGED at
    BY <2>1, AlignUnchanged DEF alignVars
  <2>3. UNCHANGED take
    BY <1>3 DEF WarmNext, RunPitch, RunKeyNormalization, RunAspects, RunRecordingCondition,
                RunAggregate
  <2>4. stage' \in StagesAfter \cup {"done"}
    <3>1. CASE RunAggregate
      <4>1. \A a \in AspectsOf(take.mode) : HasPhrase(a, results[a], take.locale)
        BY NoPhraseIsMissing
      <4> QED BY <3>1, <4>1 DEF RunAggregate
    <3> QED BY <1>3, <3>1
        DEF WarmNext, RunPitch, RunKeyNormalization, RunAspects, RunRecordingCondition,
            StagesAfter
  <2> QED BY <2>1, <2>2, <2>3, <2>4 DEF StagesAfter, OnlyAlignmentFails
<1> QED BY <1>1, <1>2, <1>3

\* What holds of every state of every analysis.
THEOREM Invariance == WarmSpec => []StageInv
<1>1. WarmInit => StageInv BY StageInitInv
<1>2. StageInv /\ [WarmNext]_warmVars => StageInv' BY StageNextInv
<1> QED BY <1>1, <1>2, PTL DEF WarmSpec

(***************************************************************************)
(* A later start of the reference is only ever assumed for a recording     *)
(* that was refused from its beginning for what it sounds like, and what   *)
(* the later stages use passed the same ceiling (ADR-0032, align.py).      *)
(***************************************************************************)
THEOREM LastResort == WarmSpec => []StartOffsetIsLastResort
<1>1. StageInv => StartOffsetIsLastResort BY DEF StageInv, AlignInv
<1> QED BY <1>1, Invariance, PTL

(***************************************************************************)
(* Whatever the stages measured, the report has a phrase for it: only the  *)
(* alignment can refuse a recording (report.py, aggregate.py).             *)
(***************************************************************************)
THEOREM ReportNeverFails == WarmSpec => []OnlyAlignmentFails
<1>1. StageInv => OnlyAlignmentFails BY DEF StageInv
<1> QED BY <1>1, Invariance, PTL
-----------------------------------------------------------------------------
\* What comes to an attempt has frames, and a search starts with nothing tried.
SizeInv ==
  /\ at \notin {"start", "NO_VOICE_DETECTED"} => user # <<>>
  /\ at \in {"start", "direct"} => tried = {}
  /\ SearchRaisesNothingNew

LEMMA AlignStepOrNone ==
  ASSUME StageInv, [WarmNext]_warmVars PROVE UNCHANGED alignVars \/ AlignNext
<1>1. CASE UNCHANGED warmVars
  BY <1>1 DEF warmVars, alignVars
<1>2. CASE RunAlign
  BY <1>2 DEF RunAlign
<1>3. CASE WarmNext /\ ~RunAlign
  BY <1>3, LaterStage
<1> QED BY <1>1, <1>2, <1>3

LEMMA CandidateFits ==
  ASSUME AlignInv, SizeInv, at = "search", NEW k \in NextCandidates
  PROVE  Attempt(user, reference, k).reason # "too_large"
<1>1. user \in Seq(Nat) /\ reference \in Seq(Nat) /\ user # <<>>
  BY AlignAssumption DEF AlignInv, AlignTypeOK, SizeInv
<1>2. k \in 0 .. LastOffset
  BY DEF NextCandidates
<1>3. Len(reference) \in Nat
  BY <1>1, LenProperties
<1>4. k \in 0 .. Len(reference) - 1
  BY <1>2, <1>3, AlignAssumption DEF LastOffset
<1>5. Attempt(user, reference, 0).reason # "too_large"
  BY DEF AlignInv, SearchIsJustified
<1> QED BY <1>1, <1>4, <1>5, LaterStartsAreSmaller

LEMMA SizeNext ==
  ASSUME StageInv, SizeInv, [WarmNext]_warmVars PROVE SizeInv'
<1>1. AlignInv
  BY DEF StageInv
<1>2. CASE UNCHANGED alignVars
  BY <1>2 DEF alignVars, SizeInv, SearchRaisesNothingNew
<1>3. CASE CheckVoiced
  BY <1>3 DEF CheckVoiced, SizeInv, SearchRaisesNothingNew
<1>4. CASE AttemptDirect
  BY <1>4 DEF AttemptDirect, SizeInv, SearchRaisesNothingNew
<1>5. CASE AttemptCandidate
  <2>1. PICK k \in NextCandidates :
          LET t == Attempt(user, reference, k)
              accepted == k # 0 /\ Accepted(t)
          IN at' = CASE accepted                          -> "aligned"
                     [] k # 0 /\ t.reason = "too_large"   -> "ALIGNMENT_TOO_LARGE"
                     [] OTHER                             -> "search"
    BY <1>5 DEF AttemptCandidate
  <2>2. at = "search" /\ UNCHANGED <<user, reference>>
    BY <1>5 DEF AttemptCandidate
  <2>3. Attempt(user, reference, k).reason # "too_large"
    BY <1>1, <2>2, CandidateFits
  <2>4. at' \in {"aligned", "search"}
    BY <2>1, <2>3
  <2> QED BY <2>2, <2>4 DEF SizeInv, SearchRaisesNothingNew
<1>6. CASE SearchFails
  BY <1>6 DEF SearchFails, SizeInv, SearchRaisesNothingNew
<1> QED BY <1>2, <1>3, <1>4, <1>5, <1>6, AlignStepOrNone DEF AlignNext

(***************************************************************************)
(* A limit on the size that let the direct attempt pass never stops the    *)
(* search: a later start leaves less of the reference, so the crop leaves  *)
(* no more of the recording (_find_reference_start_offset, which lets an   *)
(* AlignmentTooLarge of a candidate escape, never meets one).              *)
(***************************************************************************)
THEOREM SearchNeverTooLarge == WarmSpec => []SearchRaisesNothingNew
<1>1. WarmInit => SizeInv
  BY DEF WarmInit, AlignInit, SizeInv, SearchRaisesNothingNew
<1>2. StageInv /\ SizeInv /\ [WarmNext]_warmVars => SizeInv'
  BY SizeNext
<1>3. SizeInv => SearchRaisesNothingNew
  BY DEF SizeInv
<1> QED BY <1>1, <1>2, <1>3, Invariance, PTL DEF WarmSpec

(***************************************************************************)
(* Whatever the curves and wherever the reference starts, an attempt is    *)
(* failed before its cost is looked at only by the size limit or by a      *)
(* centre that jumps past the fine band, and always by these: cropped to   *)
(* the overlap, the curves have a coarse path along the diagonal           *)
(* (ADR-0030, _crop_to_overlap), and a fine one unless the band breaks off *)
(* between two frames (refine_center, _banded_dtw_kernel).                 *)
(***************************************************************************)
THEOREM AttemptsFailByJumps == WarmSpec => []OnlyAJumpFails
<1>1. WarmInit => SizeInv
  BY DEF WarmInit, AlignInit, SizeInv, SearchRaisesNothingNew
<1>2. StageInv /\ SizeInv /\ [WarmNext]_warmVars => SizeInv'
  BY SizeNext
<1>3. StageInv /\ SizeInv => OnlyAJumpFails
  <2> SUFFICES ASSUME StageInv, SizeInv, at = "direct", NEW k \in 0 .. LastOffset,
                      NEW o, o = Overlap(user, From(reference, k)),
                      NEW center, center = Center(o, Coarse(o)), NEW n, n = Len(o.user)
               PROVE  /\ Coarse(o).reason \in {"aligned", "too_large"}
                      /\ Coarse(o).reason = "aligned" =>
                           BandedDtw(o.user, o.reference, center, RefineBand).reason =
                             IF (n + 1) * (2 * RefineBand + 1) > MaxCells THEN "too_large"
                             ELSE IF BandJumps(center, RefineBand, n) THEN "no_path" ELSE "aligned"
    BY Zenon DEF OnlyAJumpFails
  <2>1. user \in Seq(Nat) /\ reference \in Seq(Nat) /\ user # <<>>
    BY AlignAssumption DEF StageInv, AlignInv, AlignTypeOK, SizeInv
  <2>2. Len(reference) \in Nat
    BY <2>1, LenProperties
  <2>3. k \in 0 .. Len(reference) /\ Len(reference) - k \in Nat /\ Len(reference) - k # 0
    BY <2>2, AlignAssumption DEF LastOffset
  <2>4. From(reference, k) \in Seq(Nat) /\ Len(From(reference, k)) # 0
    BY <2>1, <2>3, FromIs
  <2>5. From(reference, k) # <<>>
    BY <2>4, EmptySeq
  <2>6. Coarse(o).reason \in {"aligned", "too_large"}
    BY <2>1, <2>4, <2>5, CoarsePass
  <2> QED BY <2>1, <2>4, <2>6, FinePass
<1> QED BY <1>1, <1>2, <1>3, Invariance, PTL DEF WarmSpec
-----------------------------------------------------------------------------
LEMMA FramesAligned ==
  ASSUME StageInv PROVE user \in Seq(Nat) /\ reference \in Seq(Nat)
BY AlignAssumption DEF StageInv, AlignInv, AlignTypeOK

(***************************************************************************)
(* Whatever the curves and the bands, each pass returns a cheapest warping *)
(* path of its band, the cost it returns is that path's, and it fails only *)
(* where the band has no path (_banded_dtw_kernel and its back track).     *)
(***************************************************************************)
THEOREM PassesAreCheapest == WarmSpec => []PathsAreCheapest
<1>1. StageInv => PathsAreCheapest
  <2> SUFFICES ASSUME StageInv, at = "direct", NEW o, o = Overlap(user, reference)
               PROVE  /\ IsCheapest(Coarse(o), o.coarseUser, o.coarseReference,
                                    Diagonal(Len(o.coarseUser)), CoarseBand)
                      /\ Coarse(o).reason = "aligned" =>
                           IsCheapest(BandedDtw(o.user, o.reference, Center(o, Coarse(o)), RefineBand),
                                      o.user, o.reference, Center(o, Coarse(o)), RefineBand)
    BY DEF PathsAreCheapest
  <2>1. user \in Seq(Nat) /\ reference \in Seq(Nat)
    BY FramesAligned
  <2>2. /\ o.coarseUser \in Seq(Nat) /\ o.coarseReference \in Seq(Nat)
        /\ o.user \in Seq(Nat) /\ o.reference \in Seq(Nat)
    BY <2>1, OverlapIs
  <2>3. Diagonal(Len(o.coarseUser)) \in [0 .. Len(o.coarseUser) -> Int]
    BY <2>2, LenProperties DEF Diagonal
  <2>4. IsCheapest(Coarse(o), o.coarseUser, o.coarseReference,
                   Diagonal(Len(o.coarseUser)), CoarseBand)
    BY <2>2, <2>3, AlignAssumption, PassIsCheapest DEF Coarse
  <2>5. ASSUME Coarse(o).reason = "aligned"
        PROVE  IsCheapest(BandedDtw(o.user, o.reference, Center(o, Coarse(o)), RefineBand),
                          o.user, o.reference, Center(o, Coarse(o)), RefineBand)
    <3>1. Center(o, Coarse(o)) \in [0 .. Len(o.user) -> Int]
      BY <2>1, <2>5, CenterOfAttempt DEF CornerToCorner
    <3> QED BY <2>2, <3>1, AlignAssumption, PassIsCheapest
  <2> QED BY <2>4, <2>5
<1> QED BY <1>1, Invariance, PTL

(***************************************************************************)
(* However long the curves and whatever the two hops, the projection of    *)
(* the coarse path never turns back and ends in the far corner, so the     *)
(* fine pass is never refused as unreachable (refine_center).              *)
(***************************************************************************)
THEOREM CenterRunsThrough == WarmSpec => []CenterReachesCorner
<1>1. StageInv => CenterReachesCorner
  <2> SUFFICES ASSUME StageInv, at = "direct", NEW k \in 0 .. LastOffset,
                      NEW o, o = Overlap(user, From(reference, k)), Coarse(o).reason = "aligned"
               PROVE  /\ Center(o, Coarse(o))[0] = 0
                      /\ Center(o, Coarse(o))[Len(o.user)] = Len(o.reference)
                      /\ \A i \in 1 .. Len(o.user) :
                           Center(o, Coarse(o))[i - 1] <= Center(o, Coarse(o))[i]
    BY DEF CenterReachesCorner
  <2>1. user \in Seq(Nat) /\ reference \in Seq(Nat) /\ Len(reference) \in Nat
    BY FramesAligned, LenProperties
  <2>2. k \in 0 .. Len(reference)
    BY <2>1, AlignAssumption DEF LastOffset
  <2>3. From(reference, k) \in Seq(Nat)
    BY <2>1, <2>2, FromIs
  <2> QED BY <2>1, <2>3, CenterOfAttempt DEF CornerToCorner
<1> QED BY <1>1, Invariance, PTL
-----------------------------------------------------------------------------
LEMMA SameMelodySounds ==
  ASSUME user \in Seq(Nat), reference \in Seq(Nat), SameMelody
  PROVE  SoundsLike(user, reference)
<1>1. Len(user) = Len(reference) /\ DOMAIN user = 1 .. Len(user)
  BY LenProperties DEF SameMelody
<1>2. ASSUME NEW i \in 1 .. Len(user) PROVE PitchDistance(user[i], reference[i]) = 0
  <2> DEFINE x == user[i]
             y == reference[i]
  <2>1. x \in Nat /\ y \in Nat
    BY <1>1, ElementOfSeq
  <2>2. (x = 0 <=> y = 0) /\ (x - y) % 12 = 0
    BY <1>1 DEF SameMelody
  <2> HIDE DEF x, y
  <2>3. Distance(x, y) % 12 = 0
    BY <2>1, <2>2 DEF Distance
  <2>4. PitchDistance(x, y) = 0
    BY <2>2, <2>3 DEF PitchDistance
  <2> QED BY <2>4 DEF x, y
<1> QED BY <1>1, <1>2 DEF SoundsLike

LEMMA SameMelodyDirect ==
  ASSUME StageInv, SizeInv, SameMelody, AttemptDirect
  PROVE  at' # "search" /\ at' # "ALIGNMENT_FAILED" /\ (at' = "aligned" => offset' = 0 /\ found'.cost = 0)
<1> DEFINE t == Attempt(user, reference, 0)
<1>1. user \in Seq(Nat) /\ reference \in Seq(Nat)
  BY FramesAligned
<1>2. at = "direct" /\ user # <<>> /\ offset = 0 /\ offset' = offset
  BY DEF AttemptDirect, SizeInv, StageInv, AlignInv
<1>3. CASE t.reason = "too_large"
  <2>1. ~Accepted(t)
    BY <1>3 DEF Accepted
  <2> QED BY <1>2, <1>3, <2>1 DEF AttemptDirect
<1>4. CASE t.reason # "too_large"
  <2>1. t.reason = "aligned" /\ t.cost = 0 /\ t.path \in Paths(Len(user), Len(user))
    BY <1>1, <1>2, <1>4, SameMelodySounds, SameSoundAligns
  <2>2. Accepted(t)
    <3> DEFINE l == Len(t.path)
    <3>1. l \in Nat
      BY <2>1, LenProperties DEF Paths
    <3> HIDE DEF l
    <3>2. 0 <= MaxDistancePercent * l
      BY <3>1, BandAssumption
    <3> HIDE DEF t
    <3> QED BY <2>1, <3>2 DEF Accepted, l
  <2>3. at' = "aligned" /\ found' = t
    BY <1>4, <2>2 DEF AttemptDirect
  <2> HIDE DEF t
  <2> QED BY <1>2, <2>1, <2>3
<1> QED BY <1>3, <1>4

LEMMA SameMelodyNext ==
  ASSUME StageInv, SizeInv, SameMelodyAligns, [WarmNext]_warmVars PROVE SameMelodyAligns'
<1>1. UNCHANGED <<user, reference>>
  <2>1. UNCHANGED alignVars \/ AlignNext
    BY AlignStepOrNone
  <2> QED BY <2>1 DEF alignVars, AlignNext, CheckVoiced, AttemptDirect, AttemptCandidate, SearchFails
<1> SUFFICES ASSUME SameMelody'
             PROVE  at' \notin {"search", "ALIGNMENT_FAILED"} /\ (at' = "aligned" => offset' = 0 /\ found'.cost = 0)
  BY DEF SameMelodyAligns
<1>2. SameMelody
  BY <1>1 DEF SameMelody
<1>3. at \notin {"search", "ALIGNMENT_FAILED"} /\ (at = "aligned" => offset = 0 /\ found.cost = 0)
  BY <1>2 DEF SameMelodyAligns
<1>4. CASE UNCHANGED alignVars
  BY <1>3, <1>4 DEF alignVars
<1>5. CASE CheckVoiced
  BY <1>5 DEF CheckVoiced
<1>6. CASE AttemptDirect
  BY <1>2, <1>6, SameMelodyDirect
<1>7. CASE AttemptCandidate \/ SearchFails
  BY <1>3, <1>7 DEF AttemptCandidate, SearchFails
<1> QED BY <1>4, <1>5, <1>6, <1>7, AlignStepOrNone DEF AlignNext

(***************************************************************************)
(* A take of the same melody, in whatever octave and of whatever length,   *)
(* aligns from the beginning at no cost, or is too long or has no voice    *)
(* (ADR-0033): neither pass leaves the diagonal, however the two hops      *)
(* divide the length.                                                      *)
(***************************************************************************)
THEOREM SameMelodyAccepted == WarmSpec => []SameMelodyAligns
<1>1. WarmInit => SizeInv /\ SameMelodyAligns
  BY DEF WarmInit, AlignInit, SizeInv, SearchRaisesNothingNew, SameMelodyAligns
<1>2. StageInv /\ SizeInv /\ [WarmNext]_warmVars => SizeInv'
  BY SizeNext
<1>3. StageInv /\ SizeInv /\ SameMelodyAligns /\ [WarmNext]_warmVars => SameMelodyAligns'
  BY SameMelodyNext
<1> QED BY <1>1, <1>2, <1>3, Invariance, PTL DEF WarmSpec
-----------------------------------------------------------------------------
\* Where the confidence is high, nothing was held against the take.
LEMMA HighIsUnreserved ==
  ASSUME NEW s, s.mode \in Modes, Confidence(s).overall = 2
  PROVE  /\ s.mode = "clean" /\ ~s.accompanimentInClean /\ ~LittleVoice(s)
         /\ ~s.mismatch /\ ~(s.startOffset > 0)
<1> DEFINE C == {k \in DOMAIN Caveats(s) : Caveats(s)[k].holds}
<1>1. OverallConfidence(s) = 2
  BY Zenon DEF Confidence
<1>2. StepDown(Highest(s.mode), Cardinality(C)) = 2
  BY <1>1 DEF OverallConfidence
<1>3. DOMAIN Caveats(s) = 1 .. 6
  BY DEF Caveats
<1>4. IsFiniteSet(C) /\ Cardinality(C) \in Nat
  <2>1. \A a, b \in Int : IsFiniteSet(a .. b)
    BY FS_Interval
  <2>2. IsFiniteSet(C) BY <1>3, <2>1, FS_Subset
  <2> QED BY <2>2, FS_CardinalityType
<1>5. s.mode = "clean" /\ Cardinality(C) = 0
  <2> HIDE DEF C
  <2> QED BY <1>2, <1>4 DEF StepDown, Highest, Modes
<1>6. C = {}
  <2> HIDE DEF C
  <2> QED BY <1>4, <1>5, FS_EmptySet
<1>7. ~Caveats(s)[1].holds /\ ~Caveats(s)[2].holds /\ ~Caveats(s)[5].holds /\ ~Caveats(s)[6].holds
  BY <1>3, <1>6
<1> QED BY <1>5, <1>7 DEF Caveats

\* The results in, and what of them the confidence is made of.
ResultsInv ==
  /\ stage \in StagesAfter \cup {"done"} =>
       /\ at = "aligned" /\ "align" \in DOMAIN results /\ results["align"] = AlignResult
  /\ stage \in (StagesAfter \ {"pitch"}) \cup {"done"} =>
       "pitch" \in DOMAIN results /\ results["pitch"].voiced = Voiced(user)
  /\ stage \in {"aggregate", "done"} =>
       /\ "recording_condition" \in DOMAIN results
       /\ results["recording_condition"].detected = Accompanied(take.rms, user)
  /\ ConfidenceIsHonest

\* A whole comparison runs from corner to corner of both curves.
LEMMA WholeIsCompared ==
  ASSUME StageInv, at = "aligned", offset = 0, ~AlignResult.mismatch
  PROVE  /\ found.path[1] = <<0, 0>>
         /\ found.path[Len(found.path)] = <<Len(user) - 1, Len(reference) - 1>>
<1> DEFINE o == Overlap(user, From(reference, 0))
           t == BandedDtw(o.user, o.reference, Center(o, Coarse(o)), RefineBand)
<1>1. user \in Seq(Nat) /\ reference \in Seq(Nat) /\ Len(reference) \in Nat
  BY FramesAligned, LenProperties
<1>2. From(reference, 0) = reference
  <2>1. \A s \in Seq(Nat) : SubSeq(s, 1, Len(s)) = s
    BY SubSeqProperties, LenProperties
  <2> QED BY <1>1, <2>1 DEF From
<1>3. found = Attempt(user, reference, 0) /\ found.reason = "aligned"
  BY DEF StageInv, AlignInv, StartOffsetIsLastResort, Accepted
<1>4. Coarse(o).reason = "aligned" /\ found = t
  BY <1>3 DEF Attempt
<1>5. o.user = user /\ o.reference = reference
  BY <1>2 DEF Overlap, AlignResult
<1>6. Center(o, Coarse(o)) \in [0 .. Len(user) -> Int]
  BY <1>1, <1>2, <1>4, <1>5, CenterOfAttempt DEF CornerToCorner
<1>7. found.path \in Warpings(Len(user), Len(reference), Center(o, Coarse(o)), RefineBand)
  BY <1>1, <1>3, <1>4, <1>5, <1>6, AlignAssumption, PassIsCheapest DEF IsCheapest
<1>8. Forward(found.path, Len(user), Len(reference)) /\ found.path \in Paths(Len(user), Len(reference))
  BY <1>1, <1>7, WarpingsGoForward, LenProperties
<1>9. Len(user) # 0
  BY <1>1, <1>2, <1>4, AlignedHasFrames, EmptySeq
<1> QED BY <1>8, <1>9 DEF Forward

LEMMA HonestWhenDone ==
  ASSUME StageInv, ResultsInv, RunAggregate PROVE ConfidenceIsHonest'
<1> SUFFICES ASSUME Final'.confidence = 2
             PROVE  (/\ take.mode = "clean" /\ ~Accompanied(take.rms, user)
                     /\ 2 * Voiced(user) >= Len(user)
                     /\ offset = 0 /\ found.path[1] = <<0, 0>>
                     /\ found.path[Len(found.path)] = <<Len(user) - 1, Len(reference) - 1>>)'
  BY DEF ConfidenceIsHonest
<1>1. UNCHANGED <<user, reference, offset, found, take>> /\ stage = "aggregate"
  BY DEF RunAggregate
<1>2. Final' = AggregateResult
  BY DEF RunAggregate, With, Final
<1>3. Confidence(Signals).overall = 2
  BY <1>2 DEF AggregateResult
<1>4. /\ Signals.mode = take.mode /\ Signals.accompanimentInClean = AccompanimentInClean
      /\ Signals.voiced = results["pitch"].voiced /\ Signals.frames = Len(user)
      /\ Signals.mismatch = results["align"].mismatch /\ Signals.startOffset = results["align"].offset
  BY DEF Signals
<1>5. Signals.mode \in Modes
  BY <1>4 DEF StageInv
<1>6. /\ take.mode = "clean" /\ ~AccompanimentInClean /\ ~LittleVoice(Signals)
      /\ ~results["align"].mismatch /\ ~(results["align"].offset > 0)
  BY <1>3, <1>4, <1>5, HighIsUnreserved
<1>7. /\ at = "aligned" /\ results["align"] = AlignResult /\ results["pitch"].voiced = Voiced(user)
      /\ results["recording_condition"].detected = Accompanied(take.rms, user)
  BY <1>1 DEF ResultsInv, StagesAfter
<1>8. ~Accompanied(take.rms, user)
  BY <1>6, <1>7 DEF AccompanimentInClean
<1>9. 2 * Voiced(user) >= Len(user)
  <2>1. ~(Voiced(user) * 100 < LowVoicedPercent * Len(user))
    BY <1>4, <1>6, <1>7 DEF LittleVoice
  <2>2. user \in Seq(Nat) /\ Len(user) \in Nat /\ DOMAIN user = 1 .. Len(user)
    BY FramesAligned, LenProperties
  <2>3. Voiced(user) \in Nat
    <3>1. IsFiniteSet(DOMAIN user)
      BY <2>2, FS_Interval
    <3>2. IsFiniteSet({i \in DOMAIN user : user[i] # 0})
      BY <3>1, FS_Subset
    <3> QED BY <3>2, FS_CardinalityType DEF Voiced
  <2> DEFINE v == Voiced(user)
             n == Len(user)
  <2>4. v \in Nat /\ n \in Nat /\ ~(v * 100 < LowVoicedPercent * n)
    BY <2>1, <2>2, <2>3
  <2> HIDE DEF v, n
  <2>5. 50 * n <= LowVoicedPercent * n
    BY <2>4, ConfidenceAssumption
  <2>6. LowVoicedPercent * n \in Nat
    BY <2>4, ConfidenceAssumption
  <2> DEFINE w == LowVoicedPercent * n
  <2> HIDE DEF w
  <2>7. w \in Nat /\ 50 * n <= w /\ ~(v * 100 < w)
    BY <2>4, <2>5, <2>6 DEF w
  <2>8. 2 * v >= n
    BY <2>4, <2>7
  <2> QED BY <2>8 DEF v, n
<1>10. offset = 0
  <2>1. offset \in Nat
    BY DEF StageInv, AlignInv, AlignTypeOK
  <2> QED BY <1>6, <1>7, <2>1 DEF AlignResult
<1>11. /\ found.path[1] = <<0, 0>>
       /\ found.path[Len(found.path)] = <<Len(user) - 1, Len(reference) - 1>>
  BY <1>6, <1>7, <1>10, WholeIsCompared
<1> QED BY <1>1, <1>6, <1>8, <1>9, <1>10, <1>11

LEMMA ResultsNext ==
  ASSUME StageInv, ResultsInv, [WarmNext]_warmVars PROVE ResultsInv'
<1>1. CASE UNCHANGED warmVars
  BY <1>1 DEF warmVars, ResultsInv, ConfidenceIsHonest, AlignResult, Final
<1>2. CASE RunAlign
  <2>1. stage' = CASE at' = "aligned"        -> "pitch"
                   [] at' \in AlignFailures  -> "failed"
                   [] OTHER                  -> "align"
    BY <1>2 DEF RunAlign
  <2>2. (stage' = "pitch" /\ at' = "aligned") \/ stage' \in {"align", "failed"}
    BY <2>1
  <2>3. CASE stage' = "pitch" /\ at' = "aligned"
    <3>1. results' = With([align |-> AlignResult'])
      BY <1>2, <2>3 DEF RunAlign
    <3>2. "align" \in DOMAIN results' /\ results'["align"] = AlignResult'
      BY <3>1 DEF With
    <3> QED BY <2>3, <3>2 DEF ResultsInv, ConfidenceIsHonest
  <2>4. CASE stage' \in {"align", "failed"}
    BY <2>4 DEF ResultsInv, ConfidenceIsHonest, StagesAfter
  <2> QED BY <2>2, <2>3, <2>4
<1>3. CASE WarmNext /\ ~RunAlign
  <2>1. UNCHANGED alignVars /\ stage \in StagesAfter
    BY <1>3, LaterStage
  <2>2. /\ at = "aligned" /\ "align" \in DOMAIN results /\ results["align"] = AlignResult
        /\ UNCHANGED <<at, user, AlignResult>>
    BY <2>1 DEF ResultsInv, alignVars, AlignResult
  <2>3. CASE RunPitch
    <3> DEFINE p == PitchResult(user, reference, results["align"].path)
    <3>1. p.voiced = Voiced(user)
      BY DEF PitchResult
    <3> HIDE DEF p
    <3>2. results' = With([pitch |-> p]) /\ stage' = "key_normalization"
      BY <2>3 DEF RunPitch, p
    <3> QED BY <2>2, <3>1, <3>2 DEF With, ResultsInv, ConfidenceIsHonest, StagesAfter
  <2>4. CASE RunKeyNormalization
    <3> DEFINE p == KeyResult(results["pitch"].deviations, take.mode, take.allowTransposition)
    <3> HIDE DEF p
    <3>1. results' = With([key_normalization |-> p]) /\ stage = "key_normalization" /\ stage' = "aspects"
      BY <2>4 DEF RunKeyNormalization, p
    <3> QED BY <2>2, <3>1 DEF With, ResultsInv, ConfidenceIsHonest, StagesAfter
  <2>5. CASE RunAspects
    <3> DEFINE p == [aspect \in AspectsOf(take.mode) \ {"pitch"} |-> AspectResult(aspect)]
    <3>1. "align" \notin DOMAIN p /\ "pitch" \notin DOMAIN p
      <4>1. ASSUME NEW mode \in Modes, NEW a \in AspectsOf(mode)
            PROVE  a \in {"pitch", "rhythm", "breath", "dynamics", "vibrato", "timbre"}
        BY DEF AspectsOf, MODE_ASPECTS, ASPECTS, Range, Modes
      <4> QED BY <4>1 DEF StageInv
    <3> HIDE DEF p
    <3>2. results' = With(p) /\ stage = "aspects" /\ stage' = "recording_condition"
      BY <2>5 DEF RunAspects, p
    <3> QED BY <2>2, <3>1, <3>2 DEF With, ResultsInv, ConfidenceIsHonest, StagesAfter
  <2>6. CASE RunRecordingCondition
    <3> DEFINE p == ConditionResult(take.rms, user, take.mode)
    <3>1. p.detected = Accompanied(take.rms, user)
      BY DEF ConditionResult
    <3> HIDE DEF p
    <3>2. /\ results' = With([recording_condition |-> p]) /\ UNCHANGED take
          /\ stage = "recording_condition" /\ stage' = "aggregate"
      BY <2>6 DEF RunRecordingCondition, p
    <3> QED BY <2>2, <3>1, <3>2 DEF With, ResultsInv, ConfidenceIsHonest, StagesAfter
  <2>7. CASE RunAggregate
    <3>1. ConfidenceIsHonest'
      BY <2>7, HonestWhenDone
    <3> DEFINE p == AggregateResult
    <3> HIDE DEF p
    <3>2. results' = With([aggregate |-> p]) /\ stage = "aggregate" /\ UNCHANGED take
      BY <2>7 DEF RunAggregate, p
    <3> QED BY <2>2, <3>1, <3>2 DEF With, ResultsInv, StagesAfter
  <2> QED BY <1>3, <2>3, <2>4, <2>5, <2>6, <2>7 DEF WarmNext
<1> QED BY <1>1, <1>2, <1>3

(***************************************************************************)
(* High confidence is earned: whatever the limits, it is given only to a   *)
(* recording without accompaniment, half of it sung at the least, compared *)
(* from the first frame of both curves to the last (compute_confidence,    *)
(* and what the aggregate stage hands it of the stages before).            *)
(***************************************************************************)
THEOREM HighConfidenceIsEarned == WarmSpec => []ConfidenceIsHonest
<1>1. WarmInit => ResultsInv
  BY DEF WarmInit, ResultsInv, ConfidenceIsHonest, StagesAfter
<1>2. StageInv /\ ResultsInv /\ [WarmNext]_warmVars => ResultsInv'
  BY ResultsNext
<1>3. ResultsInv => ConfidenceIsHonest
  BY DEF ResultsInv
<1> QED BY <1>1, <1>2, <1>3, Invariance, PTL DEF WarmSpec
-----------------------------------------------------------------------------
(***************************************************************************)
(* Sums of a finite set's values, and the order statistics the stages      *)
(* use: what a median leaves is never more than there was.                 *)
(***************************************************************************)
\* h adds up the values of f over the subsets of S, each time one that is chosen first.
AddsUp(h, f, S) ==
  /\ h[{}] = 0
  /\ \A s \in SUBSET S : s # {} => h[s] = f[CHOOSE x \in s : TRUE] + h[s \ {CHOOSE x \in s : TRUE}]

\* A property of a finite set that a chosen element hands on holds of it.
LEMMA SetInduct ==
  ASSUME NEW S, IsFiniteSet(S), NEW G, {} \in G,
         \A s \in SUBSET S : s # {} /\ s \ {CHOOSE x \in s : TRUE} \in G => s \in G
  PROVE  \A s \in SUBSET S : s \in G
<1> DEFINE H == {k \in 0 .. Cardinality(S) : \A s \in SUBSET S : Cardinality(s) <= k => s \in G}
<1>1. \A s \in SUBSET S : IsFiniteSet(s) /\ Cardinality(s) \in Nat /\ Cardinality(s) <= Cardinality(S)
  BY FS_Subset, FS_CardinalityType
<1>2. Cardinality(S) \in Nat
  BY <1>1
<1>3. 0 \in H
  <2>1. ASSUME NEW s \in SUBSET S, Cardinality(s) <= 0 PROVE s \in G
    <3>1. Cardinality(s) = 0
      BY <1>1, <2>1
    <3>2. s = {}
      BY <1>1, <3>1, FS_EmptySet
    <3> QED BY <3>2
  <2> QED BY <1>2, <2>1
<1>4. ASSUME NEW k \in 0 .. Cardinality(S) - 1, k \in H PROVE k + 1 \in H
  <2>1. ASSUME NEW s \in SUBSET S, Cardinality(s) <= k + 1 PROVE s \in G
    <3>1. CASE s = {}
      BY <3>1
    <3>2. CASE s # {}
      <4> DEFINE x == CHOOSE y \in s : TRUE
      <4>1. x \in s
        BY <3>2
      <4>2. Cardinality(s \ {x}) = Cardinality(s) - 1
        BY <1>1, <4>1, FS_RemoveElement
      <4>3. Cardinality(s \ {x}) <= k /\ s \ {x} \in SUBSET S
        BY <1>1, <1>2, <2>1, <4>2
      <4>4. s \ {x} \in G
        BY <1>4, <4>3
      <4> QED BY <3>2, <4>4
    <3> QED BY <3>1, <3>2
  <2> QED BY <1>2, <2>1
<1>5. Cardinality(S) \in H
  <2> HIDE DEF H
  <2>1. 0 .. Cardinality(S) \subseteq H
    BY <1>2, <1>3, <1>4, Induct
  <2> QED BY <1>2, <2>1
<1> QED BY <1>1, <1>5

\* What is added up this way exists, and is what SumFunction chooses.
LEMMA SumsAre ==
  ASSUME NEW S, IsFiniteSet(S), NEW f \in [S -> Int]
  PROVE  \E h \in [SUBSET S -> Int] : AddsUp(h, f, S) /\ SumFunction(f) = h[S]
<1> DEFINE One(s) == CHOOSE x \in s : TRUE
           Def(g) == [s \in SUBSET S |-> IF s = {} THEN 0 ELSE f[One(s)] + g[s \ {One(s)}]]
           chosen == CHOOSE g : g = Def(g)
<1>1. DOMAIN f = S
  OBVIOUS
<1>2. SumFunction(f) = chosen[S]
  BY Zenon, <1>1 DEF SumFunction, SumFunctionOnSet, FoldFunctionOnSet, MapThenFoldSet
<1> DEFINE Upto(k, h) == \A s \in SUBSET S : Cardinality(s) <= k =>
                            h[s] = IF s = {} THEN 0 ELSE f[One(s)] + h[s \ {One(s)}]
           n == Cardinality(S)
           H == {k \in 0 .. n : \E h \in [SUBSET S -> Int] : Upto(k, h)}
<1>3. \A s \in SUBSET S : IsFiniteSet(s) /\ Cardinality(s) \in Nat /\ Cardinality(s) <= n
  BY FS_Subset, FS_CardinalityType
<1>4. n \in Nat
  BY <1>3
<1>5. \A s \in SUBSET S : s # {} =>
        /\ One(s) \in s /\ s \ {One(s)} \in SUBSET S
        /\ Cardinality(s \ {One(s)}) = Cardinality(s) - 1
  BY <1>3, FS_RemoveElement
<1>6. 0 \in H
  <2> DEFINE h == [s \in SUBSET S |-> 0]
  <2>1. \A s \in SUBSET S : Cardinality(s) <= 0 => s = {}
    BY <1>3, FS_EmptySet
  <2>2. Upto(0, h) /\ h \in [SUBSET S -> Int]
    BY <2>1
  <2> HIDE DEF h, Upto
  <2> QED BY <1>4, <2>2
<1>7. ASSUME NEW k \in 0 .. n - 1, k \in H PROVE k + 1 \in H
  <2>1. PICK g \in [SUBSET S -> Int] : Upto(k, g)
    BY <1>7
  <2> DEFINE h == [s \in SUBSET S |-> IF s # {} /\ Cardinality(s) = k + 1
                                      THEN f[One(s)] + g[s \ {One(s)}] ELSE g[s]]
  <2>2. h \in [SUBSET S -> Int]
    <3>1. ASSUME NEW s \in SUBSET S, s # {} PROVE f[One(s)] + g[s \ {One(s)}] \in Int
      <4> HIDE DEF One
      <4>1. f[One(s)] \in Int /\ g[s \ {One(s)}] \in Int
        BY <1>5, <3>1
      <4> QED BY <4>1
    <3> HIDE DEF One
    <3> QED BY <3>1
  <2>3. ASSUME NEW s \in SUBSET S, Cardinality(s) <= k + 1
        PROVE  h[s] = IF s = {} THEN 0 ELSE f[One(s)] + h[s \ {One(s)}]
    <3> HIDE DEF One
    <3>1. CASE s = {}
      <4>1. Cardinality({}) = 0 /\ g[{}] = 0
        BY <2>1, FS_EmptySet
      <4> QED BY <3>1, <4>1
    <3>2. CASE s # {}
      <4> DEFINE r == s \ {One(s)}
      <4>1. r \in SUBSET S /\ Cardinality(r) = Cardinality(s) - 1 /\ Cardinality(s) \in Nat
        BY <1>3, <1>5, <3>2
      <4> HIDE DEF r
      <4>2. Cardinality(r) # k + 1
        BY <2>3, <4>1
      <4>3. h[r] = g[r]
        BY <4>1, <4>2
      <4>4. CASE Cardinality(s) = k + 1
        BY <3>2, <4>3, <4>4 DEF r
      <4>5. CASE Cardinality(s) # k + 1
        <5>1. Cardinality(s) <= k
          BY <2>3, <4>1, <4>5
        <5>2. g[s] = f[One(s)] + g[r]
          BY <2>1, <3>2, <5>1 DEF r
        <5> QED BY <3>2, <4>3, <4>5, <5>2 DEF r
      <4> QED BY <4>4, <4>5
    <3> QED BY <3>1, <3>2
  <2>4. Upto(k + 1, h)
    BY <2>3
  <2> HIDE DEF h, Upto
  <2> QED BY <1>4, <2>2, <2>4
<1>8. n \in H
  <2> HIDE DEF H
  <2>1. 0 .. n \subseteq H
    BY <1>4, <1>6, <1>7, Induct
  <2> QED BY <1>4, <2>1
<1>9. PICK h \in [SUBSET S -> Int] : Upto(n, h)
  BY <1>8
<1>10. h = Def(h)
  <2> HIDE DEF One
  <2> QED BY <1>3, <1>9
<1>11. chosen = Def(chosen)
  <2> HIDE DEF Def
  <2> QED BY <1>10
<1> DEFINE G == {s \in SUBSET S : chosen[s] \in Int}
<1>12. \A s \in SUBSET S : s \in G
  <2> HIDE DEF chosen
  <2>1. {} \in G
    BY <1>11
  <2>2. ASSUME NEW s \in SUBSET S, s # {} /\ s \ {One(s)} \in G PROVE s \in G
    <3> HIDE DEF One
    <3>1. chosen[s] = f[One(s)] + chosen[s \ {One(s)}]
      BY <1>11, <2>2
    <3>2. f[One(s)] \in Int
      BY <1>5, <2>2
    <3> QED BY <2>2, <3>1, <3>2
  <2> HIDE DEF G
  <2> QED BY <2>1, <2>2, SetInduct
<1>13. chosen \in [SUBSET S -> Int]
  <2> HIDE DEF chosen
  <2>1. chosen = [s \in SUBSET S |-> chosen[s]]
    BY <1>11
  <2> QED BY <1>12, <2>1
<1>14. AddsUp(chosen, f, S)
  <2> HIDE DEF chosen
  <2> QED BY <1>11 DEF AddsUp
<1> QED BY <1>2, <1>13, <1>14

\* A sum is at most another one, many times over and with more added, if its parts are.
LEMMA SumOrder ==
  ASSUME NEW S, IsFiniteSet(S), NEW f \in [S -> Int], NEW e \in [S -> Int], NEW w \in [S -> Int],
         NEW c \in Nat, \A x \in S : f[x] <= c * e[x] + w[x]
  PROVE  SumFunction(f) <= c * SumFunction(e) + SumFunction(w)
<1> DEFINE One(s) == CHOOSE x \in s : TRUE
<1>1. PICK h \in [SUBSET S -> Int] : AddsUp(h, f, S) /\ SumFunction(f) = h[S]
  BY SumsAre
<1>2. PICK g \in [SUBSET S -> Int] : AddsUp(g, e, S) /\ SumFunction(e) = g[S]
  BY SumsAre
<1>3. PICK k \in [SUBSET S -> Int] : AddsUp(k, w, S) /\ SumFunction(w) = k[S]
  BY SumsAre
<1> DEFINE G == {s \in SUBSET S : h[s] <= c * g[s] + k[s]}
<1>4. {} \in G
  BY <1>1, <1>2, <1>3 DEF AddsUp
<1>5. ASSUME NEW s \in SUBSET S, s # {} /\ s \ {One(s)} \in G PROVE s \in G
  <2> DEFINE x == One(s)
             r == s \ {x}
  <2>1. x \in S /\ r \in SUBSET S
    BY <1>5
  <2>2. h[s] = f[x] + h[r] /\ g[s] = e[x] + g[r] /\ k[s] = w[x] + k[r]
    BY <1>1, <1>2, <1>3, <1>5 DEF AddsUp
  <2>3. h[r] <= c * g[r] + k[r]
    BY <1>5
  <2> HIDE DEF x, r
  <2>4. /\ f[x] \in Int /\ e[x] \in Int /\ w[x] \in Int /\ f[x] <= c * e[x] + w[x]
        /\ h[r] \in Int /\ g[r] \in Int /\ k[r] \in Int
    BY <2>1
  <2>5. \A a, b, d, i, j, l \in Int :
          a <= c * b + d /\ i <= c * j + l => a + i <= c * (b + j) + (d + l)
    <3>1. \A b, j \in Int : c * (b + j) = c * b + c * j /\ c * b \in Int /\ c * j \in Int
      OBVIOUS
    <3> QED BY <3>1
  <2>6. h[s] <= c * g[s] + k[s]
    BY <2>2, <2>3, <2>4, <2>5
  <2> QED BY <2>6
<1>6. S \in G
  <2> HIDE DEF G
  <2> QED BY <1>4, <1>5, SetInduct
<1> QED BY <1>1, <1>2, <1>3, <1>6

LEMMA SumIsInt ==
  ASSUME NEW S, IsFiniteSet(S), NEW f \in [S -> Int]
  PROVE  SumFunction(f) \in Int
<1>1. PICK h \in [SUBSET S -> Int] : SumFunction(f) = h[S]
  BY SumsAre
<1> QED BY <1>1

\* What is added for the members of A is taken off for all others.
LEMMA SumOfBalance ==
  ASSUME NEW S, IsFiniteSet(S), NEW A \in SUBSET S, NEW m \in Nat
  PROVE  SumFunction([x \in S |-> IF x \in A THEN m ELSE - m])
           = m * Cardinality(A) - m * Cardinality(S \ A)
<1> DEFINE One(s) == CHOOSE x \in s : TRUE
           w == [x \in S |-> IF x \in A THEN m ELSE - m]
<1>1. w \in [S -> Int]
  OBVIOUS
<1>2. PICK h \in [SUBSET S -> Int] : AddsUp(h, w, S) /\ SumFunction(w) = h[S]
  BY <1>1, SumsAre
<1>3. \A s \in SUBSET S :
        /\ IsFiniteSet(s \cap A) /\ Cardinality(s \cap A) \in Nat
        /\ IsFiniteSet(s \ A) /\ Cardinality(s \ A) \in Nat
  <2>1. \A s \in SUBSET S : s \cap A \in SUBSET S /\ s \ A \in SUBSET S
    OBVIOUS
  <2>2. \A s \in SUBSET S : IsFiniteSet(s) /\ Cardinality(s) \in Nat
    BY FS_Subset, FS_CardinalityType
  <2> QED BY <2>1, <2>2
<1> DEFINE G == {s \in SUBSET S : h[s] = m * Cardinality(s \cap A) - m * Cardinality(s \ A)}
<1>4. {} \in G
  <2>1. {} \cap A = {} /\ {} \ A = {} /\ Cardinality({}) = 0
    BY FS_EmptySet
  <2> QED BY <1>2, <2>1 DEF AddsUp
<1>5. ASSUME NEW s \in SUBSET S, s # {} /\ s \ {One(s)} \in G PROVE s \in G
  <2> DEFINE x == One(s)
             r == s \ {x}
  <2>1. x \in s /\ x \in S /\ r \in SUBSET S
    BY <1>5
  <2>2. h[s] = w[x] + h[r]
    BY <1>2, <1>5 DEF AddsUp
  <2>3. h[r] = m * Cardinality(r \cap A) - m * Cardinality(r \ A)
    BY <1>5
  <2> HIDE DEF x
  <2> DEFINE i == Cardinality(r \cap A)
             j == Cardinality(r \ A)
             k == Cardinality(s \cap A)
             l == Cardinality(s \ A)
  <2>4. i \in Nat /\ j \in Nat /\ k \in Nat /\ l \in Nat
    BY <1>3, <2>1
  <2>5. CASE x \in A
    <3>1. r \cap A = (s \cap A) \ {x} /\ r \ A = s \ A /\ x \in s \cap A
      BY <2>1, <2>5
    <3>2. i = k - 1 /\ j = l
      <4>1. IsFiniteSet(s \cap A)
        BY <1>3
      <4>2. Cardinality((s \cap A) \ {x}) = Cardinality(s \cap A) - 1
        BY <3>1, <4>1, FS_RemoveElement
      <4> QED BY <3>1, <4>2
    <3>3. w[x] = m
      BY <2>1, <2>5
    <3> HIDE DEF i, j, k, l, w, r
    <3>4. m + (m * i - m * j) = m * (i + 1) - m * j
      BY <2>4
    <3>5. h[s] = m * k - m * l
      BY <2>2, <2>3, <2>4, <3>2, <3>3, <3>4 DEF i, j
    <3> QED BY <3>5 DEF k, l
  <2>6. CASE x \notin A
    <3>1. r \cap A = s \cap A /\ r \ A = (s \ A) \ {x} /\ x \in s \ A
      BY <2>1, <2>6
    <3>2. i = k /\ j = l - 1
      <4>1. IsFiniteSet(s \ A)
        BY <1>3
      <4>2. Cardinality((s \ A) \ {x}) = Cardinality(s \ A) - 1
        BY <3>1, <4>1, FS_RemoveElement
      <4> QED BY <3>1, <4>2
    <3>3. w[x] = - m
      BY <2>1, <2>6
    <3> HIDE DEF i, j, k, l, w, r
    <3>4. (- m) + (m * i - m * j) = m * i - m * (j + 1)
      BY <2>4
    <3>5. h[s] = m * k - m * l
      BY <2>2, <2>3, <2>4, <3>2, <3>3, <3>4 DEF i, j
    <3> QED BY <3>5 DEF k, l
  <2> QED BY <2>5, <2>6
<1>6. S \in G
  <2> HIDE DEF G
  <2> QED BY <1>4, <1>5, SetInduct
<1>7. S \cap A = A
  OBVIOUS
<1> QED BY <1>2, <1>6, <1>7

LEMMA SumScaled ==
  ASSUME NEW S, IsFiniteSet(S), NEW f \in [S -> Int], NEW e \in [S -> Int],
         NEW c \in Nat, \A x \in S : f[x] = c * e[x]
  PROVE  SumFunction(f) = c * SumFunction(e)
<1> DEFINE One(s) == CHOOSE x \in s : TRUE
<1>1. PICK h \in [SUBSET S -> Int] : AddsUp(h, f, S) /\ SumFunction(f) = h[S]
  BY SumsAre
<1>2. PICK g \in [SUBSET S -> Int] : AddsUp(g, e, S) /\ SumFunction(e) = g[S]
  BY SumsAre
<1> DEFINE G == {s \in SUBSET S : h[s] = c * g[s]}
<1>3. {} \in G
  BY <1>1, <1>2 DEF AddsUp
<1>4. ASSUME NEW s \in SUBSET S, s # {} /\ s \ {One(s)} \in G PROVE s \in G
  <2> DEFINE x == One(s)
             r == s \ {x}
  <2>1. x \in S /\ r \in SUBSET S
    BY <1>4
  <2>2. h[s] = f[x] + h[r] /\ g[s] = e[x] + g[r]
    BY <1>1, <1>2, <1>4 DEF AddsUp
  <2>3. h[r] = c * g[r]
    BY <1>4
  <2> HIDE DEF x, r
  <2>4. /\ f[x] \in Int /\ e[x] \in Int /\ f[x] = c * e[x]
        /\ h[r] \in Int /\ g[r] \in Int
    BY <2>1
  <2>5. \A b, j \in Int : c * (b + j) = c * b + c * j
    OBVIOUS
  <2>6. h[s] = c * g[s]
    BY <2>2, <2>3, <2>4, <2>5
  <2> QED BY <2>6
<1>5. S \in G
  <2> HIDE DEF G
  <2> QED BY <1>3, <1>4, SetInduct
<1> QED BY <1>1, <1>2, <1>5

LEMMA SumOfNothing ==
  ASSUME NEW S, IsFiniteSet(S), NEW f \in [S -> Int], \A x \in S : f[x] = 0
  PROVE  SumFunction(f) = 0
<1>1. PICK c \in Nat : c = 0
  OBVIOUS
<1>2. \A x \in S : f[x] = c * f[x]
  BY <1>1
<1>3. SumFunction(f) \in Int /\ SumFunction(f) = c * SumFunction(f)
  BY <1>2, SumScaled, SumIsInt
<1> QED BY <1>1, <1>3

LEMMA SumIsNat ==
  ASSUME NEW S, IsFiniteSet(S), NEW f \in [S -> Nat]
  PROVE  SumFunction(f) \in Nat
<1> DEFINE One(s) == CHOOSE x \in s : TRUE
<1>1. f \in [S -> Int]
  OBVIOUS
<1>2. PICK h \in [SUBSET S -> Int] : AddsUp(h, f, S) /\ SumFunction(f) = h[S]
  BY <1>1, SumsAre
<1> DEFINE G == {s \in SUBSET S : h[s] \in Nat}
<1>3. {} \in G
  BY <1>2 DEF AddsUp
<1>4. ASSUME NEW s \in SUBSET S, s # {} /\ s \ {One(s)} \in G PROVE s \in G
  <2>1. h[s] = f[One(s)] + h[s \ {One(s)}]
    BY <1>2, <1>4 DEF AddsUp
  <2>2. f[One(s)] \in Nat /\ h[s \ {One(s)}] \in Nat
    BY <1>4
  <2> QED BY <2>1, <2>2
<1>5. S \in G
  <2> HIDE DEF G
  <2> QED BY <1>3, <1>4, SetInduct
<1> QED BY <1>2, <1>5
-----------------------------------------------------------------------------
LEMMA GreatestExists ==
  ASSUME NEW S, IsFiniteSet(S), NEW f \in [S -> Int], NEW A \in SUBSET S, A # {}
  PROVE  \E j \in A : \A a \in A : f[a] <= f[j]
<1> DEFINE One(s) == CHOOSE x \in s : TRUE
           G == {s \in SUBSET S : s = {} \/ \E j \in s : \A a \in s : f[a] <= f[j]}
<1>1. {} \in G
  OBVIOUS
<1>2. ASSUME NEW s \in SUBSET S, s # {} /\ s \ {One(s)} \in G PROVE s \in G
  <2> DEFINE x == One(s)
             r == s \ {x}
  <2>1. x \in s /\ s = r \cup {x} /\ r \subseteq s
    BY <1>2
  <2>2. r = {} \/ \E j \in r : \A a \in r : f[a] <= f[j]
    BY <1>2
  <2> HIDE DEF x
  <2>3. f[x] \in Int /\ \A a \in r : f[a] \in Int
    BY <2>1
  <2>4. CASE r = {}
    BY <2>1, <2>3, <2>4
  <2>5. CASE \E j \in r : \A a \in r : f[a] <= f[j]
    <3>1. PICK j \in r : \A a \in r : f[a] <= f[j]
      BY <2>5
    <3>2. CASE f[x] <= f[j]
      <4>1. \A a \in s : f[a] <= f[j]
        BY <2>1, <3>1, <3>2
      <4> QED BY <2>1, <4>1
    <3>3. CASE ~(f[x] <= f[j])
      <4> HIDE DEF r
      <4>1. \A a \in r : f[a] <= f[x]
        BY <2>3, <3>1, <3>3
      <4>2. \A a \in s : f[a] <= f[x]
        BY <2>1, <2>3, <4>1
      <4> QED BY <2>1, <4>2
    <3> QED BY <3>2, <3>3
  <2> QED BY <2>2, <2>4, <2>5
<1>3. A \in G
  <2> HIDE DEF G
  <2> QED BY <1>1, <1>2, SetInduct
<1> QED BY <1>3

\* There are fewer than k values below the k-th, and k with those that equal it.
LEMMA NthIs ==
  ASSUME NEW S, IsFiniteSet(S), NEW f \in [S -> Int], NEW k \in 1 .. Cardinality(S),
         NEW x, x = NthSmallest(f, k)
  PROVE  /\ x \in Int
         /\ Cardinality({i \in S : f[i] < x}) < k /\ k <= Cardinality({i \in S : f[i] <= x})
<1> DEFINE Less(y) == {i \in S : f[i] < y}
           Upto(y) == {i \in S : f[i] <= y}
           R == {i \in S : k <= Cardinality(Upto(f[i]))}
           T == {Cardinality(Upto(f[i])) : i \in R}
<1>1. \A A \in SUBSET S : IsFiniteSet(A) /\ Cardinality(A) \in Nat
  BY FS_Subset, FS_CardinalityType
<1>2. Cardinality(S) \in Nat /\ k \in Nat /\ 1 <= k /\ k <= Cardinality(S)
  BY <1>1
<1>3. \E i \in S : i \in R
  <2>1. S # {}
    BY <1>2, FS_EmptySet
  <2>2. PICK i \in S : \A a \in S : f[a] <= f[i]
    BY <2>1, GreatestExists
  <2>3. Upto(f[i]) = S
    BY <2>2
  <2> QED BY <1>2, <2>3
<1>4. PICK i \in R : \A j \in R : Cardinality(Upto(f[i])) <= Cardinality(Upto(f[j]))
  <2>1. T \in SUBSET Nat
    BY <1>1
  <2>2. T # {}
    BY <1>3
  <2>3. PICK c \in T : \A d \in T : c <= d
    <3> HIDE DEF T
    <3> QED BY <2>1, <2>2, LeastExists
  <2> QED BY <2>3
<1>5. Cardinality(Less(f[i])) < k
  <2> SUFFICES ASSUME k <= Cardinality(Less(f[i])) PROVE FALSE
    BY <1>1, <1>2
  <2>1. Less(f[i]) # {}
    BY <1>2, FS_EmptySet
  <2>2. PICK j \in Less(f[i]) : \A a \in Less(f[i]) : f[a] <= f[j]
    BY <2>1, GreatestExists
  <2>3. f[i] \in Int /\ f[j] \in Int /\ f[j] < f[i] /\ j \in S /\ i \in S
    BY <2>2
  <2>4. Less(f[i]) \subseteq Upto(f[j])
    BY <2>2
  <2>5. Cardinality(Less(f[i])) <= Cardinality(Upto(f[j]))
    BY <1>1, <2>4, FS_Subset
  <2>6. j \in R
    BY <1>1, <1>2, <2>3, <2>5
  <2>7. Upto(f[j]) \subseteq Upto(f[i]) \ {i} /\ i \in Upto(f[i])
    BY <2>3
  <2>8. Cardinality(Upto(f[j])) <= Cardinality(Upto(f[i]) \ {i})
    BY <1>1, <2>7, FS_Subset
  <2>9. Cardinality(Upto(f[i]) \ {i}) = Cardinality(Upto(f[i])) - 1
    BY <1>1, <2>7, FS_RemoveElement
  <2>10. Cardinality(Upto(f[i])) \in Nat /\ Cardinality(Upto(f[j])) \in Nat
    BY <1>1
  <2>11. Cardinality(Upto(f[i])) <= Cardinality(Upto(f[j]))
    BY <1>4, <2>6
  <2> HIDE DEF Upto
  <2> QED BY <2>8, <2>9, <2>10, <2>11
<1>6. k <= Cardinality(Upto(f[i]))
  BY <1>4
<1>7. Range(f) = {f[a] : a \in S} /\ DOMAIN f = S
  BY DEF Range
<1>8. \E y \in Range(f) : Cardinality(Less(y)) < k /\ k <= Cardinality(Upto(y))
  <2>1. f[i] \in Range(f)
    BY <1>4, <1>7
  <2> HIDE DEF Less, Upto
  <2> QED BY <1>5, <1>6, <2>1
<1>9. x = CHOOSE y \in Range(f) : Cardinality(Less(y)) < k /\ k <= Cardinality(Upto(y))
  BY <1>7, Zenon DEF NthSmallest
<1>10. x \in Range(f) /\ Cardinality(Less(x)) < k /\ k <= Cardinality(Upto(x))
  <2> HIDE DEF Less, Upto
  <2> QED BY <1>8, <1>9
<1>11. x \in Int
  BY <1>7, <1>10
<1> QED BY <1>10, <1>11

\* At most half of the values are below the median, and at most half above.
LEMMA MedianIs ==
  ASSUME NEW S, IsFiniteSet(S), S # {}, NEW f \in [S -> Int], NEW m, m = Quartile(f, 2)
  PROVE  /\ m \in Int
         /\ 2 * Cardinality({i \in S : 4 * f[i] < m}) <= Cardinality(S)
         /\ 2 * Cardinality({i \in S : 4 * f[i] > m}) <= Cardinality(S)
<1> DEFINE n == Cardinality(S)
           k == ((n - 1) * 2) \div 4
           part == ((n - 1) * 2) % 4
           x == NthSmallest(f, k + 1)
           y == NthSmallest(f, k + 2)
           Less(z) == {i \in S : f[i] < z}
           Upto(z) == {i \in S : f[i] <= z}
           Below == {i \in S : 4 * f[i] < m}
           Above == {i \in S : 4 * f[i] > m}
<1>1. \A A \in SUBSET S : IsFiniteSet(A) /\ Cardinality(A) \in Nat
  BY FS_Subset, FS_CardinalityType
<1>2. n \in Nat /\ n # 0
  BY <1>1, FS_EmptySet
<1>3. \/ part = 0 /\ n = 2 * k + 1
      \/ part = 2 /\ n = 2 * k + 2
  BY <1>2
<1>4. k \in Nat
  BY <1>2
<1>5. DOMAIN f = S
  OBVIOUS
<1>6. m = (4 - part) * x + (IF part = 0 THEN 0 ELSE part * y)
  BY Zenon, <1>5 DEF Quartile
<1>7. x \in Int /\ Cardinality(Less(x)) < k + 1 /\ k + 1 <= Cardinality(Upto(x))
  <2>1. k + 1 \in 1 .. n
    <3> HIDE DEF k, part, n
    <3> QED BY <1>2, <1>3, <1>4
  <2> HIDE DEF k
  <2> QED BY <2>1, NthIs
<1>8. \A A, B \in SUBSET S : A \subseteq B => Cardinality(A) <= Cardinality(B)
  BY <1>1, FS_Subset
<1>9. \A z \in Int : Cardinality({i \in S : f[i] > z}) = n - Cardinality(Upto(z))
  <2> TAKE z \in Int
  <2>1. {i \in S : f[i] > z} = S \ Upto(z) /\ Upto(z) = S \cap Upto(z)
    OBVIOUS
  <2> HIDE DEF Upto
  <2>2. Cardinality(S \ Upto(z)) = Cardinality(S) - Cardinality(S \cap Upto(z))
    BY FS_Difference
  <2> QED BY <2>1, <2>2
<1>10. CASE part = 0 /\ n = 2 * k + 1
  <2>1. m = 4 * x
    <3> HIDE DEF x, k, part, n
    <3> QED BY <1>6, <1>7, <1>10
  <2>2. m \in Int /\ Below \subseteq Less(x) /\ Above \subseteq {i \in S : f[i] > x}
    <3> HIDE DEF x
    <3> QED BY <1>7, <2>1
  <2>3. /\ Cardinality(Below) <= Cardinality(Less(x))
        /\ Cardinality(Above) <= Cardinality({i \in S : f[i] > x})
    BY <1>8, <2>2
  <2>4. /\ Cardinality(Below) \in Nat /\ Cardinality(Above) \in Nat /\ Cardinality(Less(x)) \in Nat
        /\ Cardinality(Upto(x)) \in Nat
        /\ Cardinality({i \in S : f[i] > x}) = n - Cardinality(Upto(x))
    BY <1>1, <1>7, <1>9
  <2> HIDE DEF k, part, n, Below, Above, Less, Upto, x
  <2> QED BY <1>2, <1>4, <1>7, <1>10, <2>2, <2>3, <2>4 DEF Below, Above, n
<1>11. CASE part = 2 /\ n = 2 * k + 2
  <2>1. y \in Int /\ Cardinality(Less(y)) < k + 2 /\ k + 2 <= Cardinality(Upto(y))
    <3>1. k + 2 \in 1 .. n
      <4> HIDE DEF k, part, n
      <4> QED BY <1>4, <1>11
    <3>2. y = NthSmallest(f, k + 2)
      OBVIOUS
    <3> HIDE DEF k, x, y, part, Below, Above
    <3> QED BY <3>1, <3>2, NthIs
  <2>2. m = 2 * x + 2 * y
    <3> HIDE DEF x, y, k, part, n
    <3> QED BY <1>6, <1>7, <1>11, <2>1
  <2>3. x <= y
    <3> SUFFICES ASSUME y < x PROVE FALSE
      BY <1>7, <2>1
    <3>1. Upto(y) \subseteq Less(x)
      <4> HIDE DEF x, y
      <4> QED BY <1>7, <2>1
    <3>2. Cardinality(Upto(y)) <= Cardinality(Less(x))
      BY <1>8, <3>1
    <3>3. Cardinality(Upto(y)) \in Nat /\ Cardinality(Less(x)) \in Nat
      BY <1>1
    <3> HIDE DEF k, Less, Upto, x, y
    <3> QED BY <1>4, <1>7, <2>1, <3>2, <3>3
  <2>4. m \in Int /\ Below \subseteq Less(y) /\ Above \subseteq {i \in S : f[i] > x}
    <3> HIDE DEF x, y
    <3> QED BY <1>7, <2>1, <2>2, <2>3
  <2>5. /\ Cardinality(Below) <= Cardinality(Less(y))
        /\ Cardinality(Above) <= Cardinality({i \in S : f[i] > x})
    BY <1>8, <2>4
  <2>6. /\ Cardinality(Below) \in Nat /\ Cardinality(Above) \in Nat /\ Cardinality(Less(y)) \in Nat
        /\ Cardinality(Upto(x)) \in Nat
        /\ Cardinality({i \in S : f[i] > x}) = n - Cardinality(Upto(x))
    BY <1>1, <1>7, <1>9
  <2> HIDE DEF k, part, n, Below, Above, Less, Upto, x, y
  <2> QED BY <1>2, <1>4, <1>7, <1>11, <2>1, <2>4, <2>5, <2>6 DEF Below, Above, n
<1> HIDE DEF part, k, n
<1> QED BY <1>3, <1>10, <1>11 DEF n

LEMMA SumAbsIsNat ==
  ASSUME NEW S, IsFiniteSet(S), NEW f \in [S -> Int]
  PROVE  SumAbs(f) \in Nat
<1>1. \A x \in Int : Abs(x) \in Nat
  BY DEF Abs, Distance
<1>2. [i \in S |-> Abs(f[i])] \in [S -> Nat]
  BY <1>1
<1>3. SumAbs(f) = SumFunction([i \in S |-> Abs(f[i])])
  BY DEF SumAbs
<1> QED BY <1>2, <1>3, SumIsNat

\* Taking the median off, the deviations are no larger in all.
LEMMA MedianIsBest ==
  ASSUME NEW S, IsFiniteSet(S), S # {}, NEW d \in [S -> Int], NEW m, m = Quartile(d, 2)
  PROVE  /\ SumAbs([i \in S |-> 4 * d[i] - m]) \in Nat /\ SumAbs(d) \in Nat
         /\ SumAbs([i \in S |-> 4 * d[i] - m]) <= 4 * SumAbs(d)
<1> DEFINE left == [i \in S |-> 4 * d[i] - m]
           f == [i \in S |-> Abs(left[i])]
           e == [i \in S |-> Abs(d[i])]
           Below == {i \in S : 4 * d[i] < m}
           Above == {i \in S : 4 * d[i] > m}
<1>1. /\ m \in Int
      /\ 2 * Cardinality(Below) <= Cardinality(S) /\ 2 * Cardinality(Above) <= Cardinality(S)
  BY MedianIs
<1>2. \A x \in Int : Abs(x) = (IF x < 0 THEN - x ELSE x) /\ Abs(x) \in Nat
  BY DEF Abs, Distance
<1>3. left \in [S -> Int] /\ f \in [S -> Nat] /\ e \in [S -> Nat]
  BY <1>1, <1>2
<1>4. SumAbs(left) = SumFunction(f) /\ SumAbs(d) = SumFunction(e)
  BY DEF SumAbs
<1>5. \A A \in SUBSET S : IsFiniteSet(A) /\ Cardinality(A) \in Nat
  BY FS_Subset, FS_CardinalityType
<1>6. \A A \in SUBSET S : Cardinality(S \ A) = Cardinality(S) - Cardinality(A)
  <2> TAKE A \in SUBSET S
  <2>1. S \cap A = A
    OBVIOUS
  <2> QED BY <2>1, FS_Difference
<1>7. ASSUME NEW M \in Nat, NEW A \in SUBSET S, 2 * Cardinality(A) <= Cardinality(S),
             \A x \in S : f[x] <= 4 * e[x] + (IF x \in A THEN M ELSE - M)
      PROVE  SumFunction(f) <= 4 * SumFunction(e)
  <2> DEFINE w == [x \in S |-> IF x \in A THEN M ELSE - M]
             a == Cardinality(A)
             b == Cardinality(S \ A)
  <2>1. w \in [S -> Int] /\ f \in [S -> Int] /\ e \in [S -> Int]
    BY <1>3
  <2>2. \A x \in S : f[x] <= 4 * e[x] + w[x]
    BY <1>7
  <2>3. SumFunction(w) = M * a - M * b
    BY SumOfBalance
  <2> HIDE DEF f, e, w
  <2>4. SumFunction(f) <= 4 * SumFunction(e) + SumFunction(w)
    BY <2>1, <2>2, SumOrder
  <2>5. SumFunction(f) \in Int /\ SumFunction(e) \in Int /\ SumFunction(w) \in Int
    BY <2>1, SumIsInt
  <2>6. a \in Nat /\ b \in Nat /\ a <= b
    BY <1>5, <1>6, <1>7
  <2> HIDE DEF a, b
  <2>7. M * a <= M * b /\ M * a \in Int /\ M * b \in Int
    BY <2>6
  <2> QED BY <2>3, <2>4, <2>5, <2>7
<1>8. SumFunction(f) <= 4 * SumFunction(e)
  <2>1. CASE m >= 0
    <3>1. ASSUME NEW x \in S PROVE f[x] <= 4 * e[x] + (IF x \in Below THEN m ELSE - m)
      <4>1. d[x] \in Int /\ f[x] = Abs(4 * d[x] - m) /\ e[x] = Abs(d[x])
        OBVIOUS
      <4>2. x \in Below <=> 4 * d[x] < m
        OBVIOUS
      <4> DEFINE c == d[x]
      <4> HIDE DEF f, e, Below, c
      <4> QED BY <1>1, <1>2, <2>1, <4>1, <4>2 DEF c
    <3> HIDE DEF f, e
    <3> QED BY <1>1, <1>7, <2>1, <3>1
  <2>2. CASE m < 0
    <3>1. ASSUME NEW x \in S PROVE f[x] <= 4 * e[x] + (IF x \in Above THEN - m ELSE - (- m))
      <4>1. d[x] \in Int /\ f[x] = Abs(4 * d[x] - m) /\ e[x] = Abs(d[x])
        OBVIOUS
      <4>2. x \in Above <=> 4 * d[x] > m
        OBVIOUS
      <4> DEFINE c == d[x]
      <4> HIDE DEF f, e, Above, c
      <4> QED BY <1>1, <1>2, <2>2, <4>1, <4>2 DEF c
    <3> HIDE DEF f, e
    <3> QED BY <1>1, <1>7, <2>2, <3>1
  <2> QED BY <1>1, <2>1, <2>2
<1>9. SumFunction(f) \in Nat /\ SumFunction(e) \in Nat
  BY <1>3, SumIsNat
<1> QED BY <1>4, <1>8, <1>9
-----------------------------------------------------------------------------
(***************************************************************************)
(* Scores: a share of 1000 tenths of a point.                              *)
(***************************************************************************)
\* Tenths of a point.
Points == 0 .. 1000

LEMMA DivisionUnique ==
  ASSUME NEW p \in Int, NEW q \in Nat \ {0}, NEW f \in Int, NEW r \in 0 .. q - 1, p = q * f + r
  PROVE  p \div q = f /\ p % q = r
<1> DEFINE g == p \div q
           t == p % q
<1>1. g \in Int /\ t \in 0 .. q - 1 /\ p = q * g + t
  BY DivisionIs
<1> HIDE DEF g, t
<1>2. q * f \in Int /\ q * g \in Int
  BY <1>1
<1>3. ~(f > g)
  <2> SUFFICES ASSUME f > g PROVE FALSE
    OBVIOUS
  <2>1. q * f >= q * (g + 1) /\ q * (g + 1) = q * g + q
    BY <1>1
  <2> QED BY <1>1, <1>2, <2>1
<1>4. ~(g > f)
  <2> SUFFICES ASSUME g > f PROVE FALSE
    OBVIOUS
  <2>1. q * g >= q * (f + 1) /\ q * (f + 1) = q * f + q
    BY <1>1
  <2> QED BY <1>1, <1>2, <2>1
<1>5. f = g
  BY <1>1, <1>3, <1>4
<1>6. t = r
  BY <1>1, <1>2, <1>5
<1> QED BY <1>5, <1>6 DEF g, t

\* Four times as much of four times as many is the same share.
LEMMA RoundDivScaled ==
  ASSUME NEW p \in Int, NEW q \in Nat \ {0}
  PROVE  RoundDiv(4 * p, 4 * q) = RoundDiv(p, q)
<1> DEFINE f == p \div q
           r == p % q
<1>1. f \in Int /\ r \in 0 .. q - 1 /\ p = q * f + r
  BY DivisionIs
<1>2. RoundDiv(p, q) = IF 2 * r < q \/ (2 * r = q /\ f % 2 = 0) THEN f ELSE f + 1
  BY DEF RoundDiv
<1> HIDE DEF f, r
<1>3. 4 * p = (4 * q) * f + 4 * r
  <2>1. (4 * q) * f = 4 * (q * f) /\ q * f \in Int
    BY <1>1
  <2> QED BY <1>1, <2>1
<1>4. (4 * p) \div (4 * q) = f /\ (4 * p) % (4 * q) = 4 * r
  <2>1. 4 * p \in Int /\ 4 * q \in Nat \ {0} /\ 4 * r \in 0 .. (4 * q) - 1
    BY <1>1
  <2> DEFINE pp == 4 * p
             qq == 4 * q
             rr == 4 * r
  <2>2. pp \in Int /\ qq \in Nat \ {0} /\ rr \in 0 .. qq - 1 /\ pp = qq * f + rr
    BY <1>3, <2>1
  <2> HIDE DEF pp, qq, rr
  <2>3. pp \div qq = f /\ pp % qq = rr
    BY <1>1, <2>2, DivisionUnique
  <2> QED BY <2>3 DEF pp, qq, rr
<1>5. RoundDiv(4 * p, 4 * q) = IF 2 * (4 * r) < 4 * q \/ (2 * (4 * r) = 4 * q /\ f % 2 = 0) THEN f ELSE f + 1
  BY <1>4, Zenon DEF RoundDiv
<1>6. (2 * (4 * r) < 4 * q <=> 2 * r < q) /\ (2 * (4 * r) = 4 * q <=> 2 * r = q)
  BY <1>1
<1> QED BY <1>2, <1>5, <1>6

\* A share of a whole is between nothing and 100 points.
LEMMA ShareIs ==
  ASSUME NEW q \in Nat \ {0}, NEW p \in Nat, p <= 1000 * q
  PROVE  RoundDiv(p, q) \in Points
<1>1. RoundDiv(0 * q, q) = 0 /\ RoundDiv(1000 * q, q) = 1000
  BY RoundDivExact
<1>2. 0 * q <= p /\ p <= 1000 * q /\ 0 * q \in Int /\ p \in Int /\ 1000 * q \in Int
  OBVIOUS
<1>3. RoundDiv(0 * q, q) <= RoundDiv(p, q) /\ RoundDiv(p, q) <= RoundDiv(1000 * q, q)
  BY <1>2, RoundDivMonotone
<1>4. RoundDiv(p, q) \in Int
  BY <1>2, RoundDivIs
<1> QED BY <1>1, <1>3, <1>4 DEF Points

\* The more off in all, the fewer points, down to none.
LEMMA DecayIs ==
  ASSUME NEW sum \in Nat, NEW count \in Nat, NEW zero \in Nat \ {0}
  PROVE  Decay(sum, count, zero) \in Points
<1> DEFINE q == zero * count
<1>1. q \in Nat
  OBVIOUS
<1>2. Decay(sum, count, zero) = IF sum >= q THEN 0 ELSE RoundDiv(1000 * (q - sum), q)
  BY DEF Decay
<1> HIDE DEF q
<1>3. CASE sum >= q
  BY <1>2, <1>3 DEF Points
<1>4. CASE ~(sum >= q)
  <2> DEFINE p == 1000 * (q - sum)
  <2>1. q \in Nat \ {0} /\ p \in Nat /\ p <= 1000 * q
    BY <1>1, <1>4
  <2>2. Decay(sum, count, zero) = RoundDiv(p, q)
    BY <1>2, <1>4
  <2> HIDE DEF p
  <2>3. RoundDiv(p, q) \in Points
    BY <2>1, ShareIs
  <2> QED BY <2>2, <2>3
<1> QED BY <1>3, <1>4

\* With a quarter of the error or less, counted in quarters, the score is no worse.
LEMMA DecayScaled ==
  ASSUME NEW less \in Nat, NEW sum \in Nat, NEW count \in Nat, NEW zero \in Nat \ {0}, less <= 4 * sum
  PROVE  Decay(less, count, 4 * zero) >= Decay(sum, count, zero)
<1> DEFINE q == zero * count
<1>1. q \in Nat /\ (4 * zero) * count = 4 * q
  OBVIOUS
<1>2. Decay(sum, count, zero) = IF sum >= q THEN 0 ELSE RoundDiv(1000 * (q - sum), q)
  BY DEF Decay
<1>3. Decay(less, count, 4 * zero) = IF less >= 4 * q THEN 0 ELSE RoundDiv(1000 * (4 * q - less), 4 * q)
  BY <1>1 DEF Decay
<1>4. Decay(less, count, 4 * zero) \in Points
  <2> DEFINE z == 4 * zero
  <2>1. z \in Nat \ {0}
    OBVIOUS
  <2> HIDE DEF z
  <2>2. Decay(less, count, z) \in Points
    BY <2>1, DecayIs
  <2> QED BY <2>2 DEF z
<1> HIDE DEF q
<1>5. CASE sum >= q
  BY <1>2, <1>4, <1>5 DEF Points
<1>6. CASE ~(sum >= q)
  <2>1. q \in Nat \ {0} /\ ~(less >= 4 * q)
    BY <1>1, <1>6
  <2> DEFINE p == 1000 * (q - sum)
             s == 1000 * (4 * q - less)
             r == 4 * q
  <2>2. p \in Int /\ s \in Int /\ r \in Nat \ {0} /\ 4 * p <= s /\ 4 * p \in Int
    BY <1>1, <2>1
  <2>3. RoundDiv(4 * p, 4 * q) = RoundDiv(p, q)
    BY <2>1, <2>2, RoundDivScaled
  <2> HIDE DEF p, s
  <2>4. RoundDiv(4 * p, r) <= RoundDiv(s, r)
    <3> HIDE DEF r
    <3> QED BY <2>2, RoundDivMonotone
  <2>5. RoundDiv(4 * p, r) \in Int /\ RoundDiv(s, r) \in Int
    <3> HIDE DEF r
    <3> QED BY <2>2, RoundDivIs
  <2> QED BY <1>2, <1>3, <1>6, <2>1, <2>3, <2>4, <2>5 DEF p, s, r
<1> QED BY <1>5, <1>6
-----------------------------------------------------------------------------
(***************************************************************************)
(* What each stage measures, whatever the audio holds.                     *)
(***************************************************************************)
\* Finitely many deviations, and the score they make.
ScoreOf(score, d) ==
  /\ IsFiniteSet(DOMAIN d) /\ d \in [DOMAIN d -> Int]
  /\ score = Decay(SumAbs(d), Cardinality(DOMAIN d), ZeroCents) /\ score \in Points

LEMMA PitchIs ==
  ASSUME NEW u \in Seq(Nat), NEW r \in Seq(Nat), NEW p, NEW result, result = PitchResult(u, r, p)
  PROVE  ScoreOf(result.score, result.deviations)
<1> DEFINE aligned == AlignedReference(u, r, p)
           S == {i \in DOMAIN u : u[i] # 0 /\ aligned[i] # 0}
           d == result.deviations
<1>1. DOMAIN u = 1 .. Len(u) /\ Len(u) \in Nat /\ \A i \in DOMAIN u : u[i] \in Nat
  BY LenProperties, ElementOfSeq
<1>2. \A i \in DOMAIN u : aligned[i] \in Nat
  <2>1. DOMAIN r = 1 .. Len(r) /\ \A j \in DOMAIN r : r[j] \in Nat
    BY LenProperties, ElementOfSeq
  <2>2. ASSUME NEW i \in DOMAIN u PROVE aligned[i] \in Nat
    <3> DEFINE j == UserToReference(p, 1, i - 1) + 1
    <3>1. aligned[i] = IF j \in DOMAIN r THEN r[j] ELSE 0
      BY DEF AlignedReference
    <3> HIDE DEF j
    <3> QED BY <2>1, <3>1
  <2> QED BY <2>2
<1>3. /\ d = PresentDeviations(u, aligned)
      /\ result.score = Decay(SumAbs(d), Cardinality(DOMAIN d), ZeroCents)
  BY DEF PitchResult
<1> HIDE DEF aligned
<1>4. d = [i \in S |-> 100 * (u[i] - aligned[i])]
  BY <1>3 DEF PresentDeviations, Cents
<1> HIDE DEF d
<1>5. DOMAIN d = S /\ d \in [S -> Int]
  BY <1>1, <1>2, <1>4
<1>6. IsFiniteSet(S)
  <2>1. IsFiniteSet(DOMAIN u)
    BY <1>1, FS_Interval
  <2> QED BY <2>1, FS_Subset
<1>7. result.score \in Points
  <2>1. SumAbs(d) \in Nat
    BY <1>5, <1>6, SumAbsIsNat
  <2>2. Cardinality(S) \in Nat
    BY <1>6, FS_CardinalityType
  <2>3. ZeroCents \in Nat \ {0}
    BY ToleranceAssumption
  <2> HIDE DEF S
  <2>4. Decay(SumAbs(d), Cardinality(S), ZeroCents) \in Points
    BY <2>1, <2>2, <2>3, DecayIs
  <2> QED BY <1>3, <1>5, <2>4
<1> QED BY <1>3, <1>5, <1>6, <1>7 DEF d, ScoreOf

\* The score behind a shift is a score, and no worse than the one before it.
LEMMA KeyIs ==
  ASSUME NEW d, NEW score, ScoreOf(score, d), NEW mode, NEW allow,
         NEW key, key = KeyResult(d, mode, allow)
  PROVE  key.adjusted \in Points /\ (key.applied => key.adjusted >= score)
<1> DEFINE S == DOMAIN d
           m == Quartile(d, 2)
           n == Cardinality(S)
           after == Decay(SumAbs([k \in S |-> 4 * d[k] - m]), n, 4 * ZeroCents)
<1>0. /\ IsFiniteSet(S) /\ d \in [S -> Int]
      /\ score = Decay(SumAbs(d), Cardinality(S), ZeroCents)
  BY DEF ScoreOf
<1>1. CASE S = {}
  BY <1>1 DEF KeyResult, NoShift, Points
<1>2. CASE S # {}
  <2>1. /\ key.applied \in BOOLEAN
        /\ key.adjusted = IF key.applied THEN after ELSE 0
    BY <1>2, Zenon DEF KeyResult
  <2>2. /\ SumAbs([k \in S |-> 4 * d[k] - m]) \in Nat /\ SumAbs(d) \in Nat
        /\ SumAbs([k \in S |-> 4 * d[k] - m]) <= 4 * SumAbs(d)
    BY <1>0, <1>2, MedianIsBest
  <2>3. n \in Nat
    BY <1>0, FS_CardinalityType
  <2>4. ZeroCents \in Nat \ {0} /\ 4 * ZeroCents \in Nat \ {0}
    BY ToleranceAssumption
  <2> DEFINE less == SumAbs([k \in S |-> 4 * d[k] - m])
             sum == SumAbs(d)
  <2>5. less \in Nat /\ sum \in Nat /\ less <= 4 * sum
    BY <2>2
  <2> HIDE DEF less, n, sum
  <2>6. after \in Points
    <3> DEFINE z == 4 * ZeroCents
    <3>1. z \in Nat \ {0}
      BY <2>4
    <3> HIDE DEF z
    <3>2. Decay(less, n, z) \in Points
      BY <2>3, <2>5, <3>1, DecayIs
    <3> QED BY <3>2 DEF less, z
  <2>7. after >= Decay(sum, n, ZeroCents)
    BY <2>3, <2>4, <2>5, DecayScaled DEF less
  <2> HIDE DEF after
  <2> QED BY <1>0, <2>1, <2>6, <2>7 DEF sum, n, Points
<1> QED BY <1>1, <1>2

LEMMA DistanceIs ==
  ASSUME NEW x \in Int, NEW y \in Int
  PROVE  Distance(x, y) \in Nat
BY DEF Distance

LEMMA LeastIsIn ==
  ASSUME NEW T \in SUBSET Nat, T # {}
  PROVE  Min(T) \in T
<1>1. \E x \in T : \A y \in T : x <= y
  BY LeastExists
<1> QED BY <1>1 DEF Min

LEMMA RhythmIs ==
  ASSUME NEW U \in SUBSET Nat, IsFiniteSet(U), NEW R \in SUBSET Nat, IsFiniteSet(R), NEW p,
         \A x \in Nat : ReferenceToUser(p, 1, x) \in Nat
  PROVE  RhythmResult(U, R, p).score \in Points
<1> DEFINE paired == IF U = {} THEN {} ELSE R
           f == [r \in paired |-> OnsetOffset(r, U, p)]
<1>1. RhythmResult(U, R, p).score = Decay(SumFunction(f), Cardinality(paired), OnsetTolerance)
  BY DEF RhythmResult
<1>2. f \in [paired -> Nat]
  <2> SUFFICES ASSUME NEW r \in paired PROVE OnsetOffset(r, U, p) \in Nat
    OBVIOUS
  <2> DEFINE T == {Distance(x, ReferenceToUser(p, 1, r)) : x \in U}
  <2>1. U # {} /\ r \in Nat
    OBVIOUS
  <2>2. T \in SUBSET Nat /\ T # {}
    <3> DEFINE e == ReferenceToUser(p, 1, r)
    <3>1. e \in Int
      BY <2>1
    <3> HIDE DEF e
    <3>2. ASSUME NEW x \in U PROVE Distance(x, e) \in Nat
      <4>1. x \in Int
        OBVIOUS
      <4> QED BY <3>1, <4>1 DEF Distance
    <3>3. T = {Distance(x, e) : x \in U}
      BY DEF e
    <3> HIDE DEF T
    <3> QED BY <2>1, <3>2, <3>3
  <2>3. Min(T) \in Nat
    <3> HIDE DEF T
    <3> QED BY <2>2, LeastIsIn
  <2> QED BY <2>3 DEF OnsetOffset
<1>3. IsFiniteSet(paired)
  BY FS_EmptySet
<1>4. OnsetTolerance \in Nat \ {0}
  BY ToleranceAssumption
<1> HIDE DEF f, paired
<1>5. SumFunction(f) \in Nat /\ Cardinality(paired) \in Nat
  BY <1>2, <1>3, SumIsNat, FS_CardinalityType
<1>6. Decay(SumFunction(f), Cardinality(paired), OnsetTolerance) \in Points
  BY <1>4, <1>5, DecayIs
<1> QED BY <1>1, <1>6

LEMMA PausesAreFinite ==
  ASSUME NEW silent, Len(silent) \in Nat
  PROVE  IsFiniteSet(PauseRegions(silent))
<1> DEFINE n == Len(silent)
<1>1. IsFiniteSet(0 .. n - 1) /\ IsFiniteSet(1 .. n)
  BY FS_Interval
<1>2. IsFiniteSet((0 .. n - 1) \X (1 .. n))
  BY <1>1, FS_Product
<1>3. PauseRegions(silent) \subseteq (0 .. n - 1) \X (1 .. n)
  BY DEF PauseRegions
<1> QED BY <1>2, <1>3, FS_Subset

LEMMA BreathIs ==
  ASSUME NEW s, NEW t, Len(t) \in Nat, NEW p
  PROVE  BreathResult(s, t, p).score \in Points
<1> DEFINE pauses == PauseRegions(t)
           matched == {x \in pauses : \E u \in PauseRegions(s) :
                         Distance(MiddleOf(u), ReferenceToUser(p, 2, MiddleOf(x))) <= 2 * PauseTolerance}
<1>1. BreathResult(s, t, p).score =
        IF pauses = {} THEN 1000 ELSE RoundDiv(1000 * Cardinality(matched), Cardinality(pauses))
  BY DEF BreathResult
<1>2. IsFiniteSet(pauses)
  BY PausesAreFinite
<1>3. matched \subseteq pauses
  OBVIOUS
<1> HIDE DEF matched, pauses
<1>4. PICK k, n : k = Cardinality(matched) /\ n = Cardinality(pauses)
  OBVIOUS
<1>5. k \in Nat /\ n \in Nat /\ k <= n /\ (pauses # {} => n # 0)
  BY <1>2, <1>3, <1>4, FS_Subset, FS_CardinalityType, FS_EmptySet
<1>6. CASE pauses = {}
  BY <1>1, <1>6 DEF Points
<1>7. CASE pauses # {}
  <2> DEFINE hits == 1000 * k
  <2>1. n \in Nat \ {0} /\ hits \in Nat /\ hits <= 1000 * n
    BY <1>5, <1>7
  <2>2. BreathResult(s, t, p).score = RoundDiv(hits, n)
    BY <1>1, <1>4, <1>7
  <2> HIDE DEF hits
  <2>3. RoundDiv(hits, n) \in Points
    BY <2>1, ShareIs
  <2> QED BY <2>2, <2>3
<1> QED BY <1>6, <1>7

LEMMA VibratoIs ==
  ASSUME NEW v \in [detected : BOOLEAN, rate : Nat, depth : Nat],
         NEW w \in [detected : BOOLEAN, rate : Nat, depth : Nat]
  PROVE  VibratoResult(v, w).score \in Points
<1> DEFINE x == Distance(v.rate, w.rate)
           y == Distance(v.depth, w.depth)
           z == 2 * RateTolerance * DepthTolerance
           s == x * DepthTolerance + y * RateTolerance
<1>1. RateTolerance \in Nat \ {0} /\ DepthTolerance \in Nat \ {0} /\ PresenceMismatch \in Points
  BY ToleranceAssumption DEF Points
<1>2. x \in Nat /\ y \in Nat
  BY DistanceIs
<1>3. z \in Nat \ {0}
  BY <1>1
<1>4. s \in Nat
  <2> HIDE DEF x, y
  <2> QED BY <1>1, <1>2
<1>5. Decay(s, 1, z) \in Points
  <2> HIDE DEF s, z
  <2> QED BY <1>3, <1>4, DecayIs
<1>6. VibratoResult(v, w).score = CASE ~v.detected /\ ~w.detected -> 1000
                                    [] v.detected # w.detected    -> PresenceMismatch
                                    [] OTHER                      -> Decay(s, 1, z)
  BY DEF VibratoResult, VibratoScore
<1> HIDE DEF s, z
<1> QED BY <1>1, <1>5, <1>6 DEF Points

LEMMA LikenessIs ==
  ASSUME NEW percent \in Int, percent <= 100
  PROVE  LikenessResult(percent).score \in Points
BY DEF LikenessResult, Points
-----------------------------------------------------------------------------
\* A moment of the reference is at one of the recording, whatever the path.
LEMMA MomentIs ==
  ASSUME NEW n \in Nat, NEW m \in Nat, n # 0, NEW p \in Paths(n, m), Forward(p, n, m), NEW x \in Nat
  PROVE  ReferenceToUser(p, 1, x) \in Nat
<1> DEFINE xs == Column(p, 2, 1)
           ys == Column(p, 1, 1)
<1>1. /\ xs \in Seq(Nat) /\ ys \in Seq(Nat) /\ Len(ys) = Len(xs) /\ Len(xs) # 0
      /\ xs[1] = 0 /\ Ascending(xs) /\ Ascending(ys)
  BY ColumnIs
<1>2. xs[1] <= x
  BY <1>1
<1> HIDE DEF xs, ys
<1>3. Interp(x, xs, ys, 1) \in Nat
  BY <1>1, <1>2, InterpMonotone
<1> QED BY <1>3 DEF ReferenceToUser, xs, ys

LEMMA FromPastEnd ==
  ASSUME NEW r \in Seq(Nat), NEW k \in Nat PROVE From(r, k) \in Seq(Nat)
<1>1. Len(r) \in Nat
  BY LenProperties
<1>2. CASE k <= Len(r)
  BY <1>1, <1>2, FromIs
<1>3. CASE k > Len(r)
  <2>1. From(r, k) = <<>>
    BY <1>1, <1>3 DEF From
  <2> QED BY <2>1
<1> QED BY <1>1, <1>2, <1>3

\* What was accepted is a path of the two curves, forward from corner to corner.
LEMMA FoundIsPath ==
  ASSUME StageInv, at = "aligned", NEW o, o = Overlap(user, From(reference, offset))
  PROVE  /\ o.user \in Seq(Nat) /\ o.reference \in Seq(Nat)
         /\ Len(o.user) \in Nat /\ Len(o.reference) \in Nat /\ Len(o.user) # 0
         /\ found.path \in Paths(Len(o.user), Len(o.reference))
         /\ Forward(found.path, Len(o.user), Len(o.reference))
<1> DEFINE t == BandedDtw(o.user, o.reference, Center(o, Coarse(o)), RefineBand)
           r == From(reference, offset)
<1>1. user \in Seq(Nat) /\ r \in Seq(Nat)
  <2>1. offset \in Nat
    BY DEF StageInv, AlignInv, AlignTypeOK
  <2> QED BY <2>1, FramesAligned, FromPastEnd
<1>2. found = Attempt(user, reference, offset) /\ found.reason = "aligned"
  BY DEF StageInv, AlignInv, StartOffsetIsLastResort, Accepted
<1>3. Coarse(o).reason = "aligned" /\ found = t
  BY <1>2 DEF Attempt
<1> HIDE DEF r
<1>4. o = Overlap(user, r)
  BY DEF r
<1>5. o.user \in Seq(Nat) /\ o.reference \in Seq(Nat)
  BY <1>1, <1>4, OverlapIs
<1>6. Len(o.user) \in Nat /\ Len(o.reference) \in Nat
  BY <1>5, LenProperties
<1>7. Center(o, Coarse(o)) \in [0 .. Len(o.user) -> Int]
  BY <1>1, <1>3, <1>4, CenterOfAttempt DEF CornerToCorner
<1>8. found.path \in Warpings(Len(o.user), Len(o.reference), Center(o, Coarse(o)), RefineBand)
  BY <1>2, <1>3, <1>5, <1>7, AlignAssumption, PassIsCheapest DEF IsCheapest
<1>9. Forward(found.path, Len(o.user), Len(o.reference)) /\ found.path \in Paths(Len(o.user), Len(o.reference))
  BY <1>6, <1>8, WarpingsGoForward
<1>10. Len(o.user) # 0
  <2>1. user # <<>> /\ r # <<>>
    BY <1>1, <1>3, <1>4, AlignedHasFrames
  <2> QED BY <1>1, <1>4, <2>1, FinePassTooLarge
<1> QED BY <1>5, <1>6, <1>9, <1>10
-----------------------------------------------------------------------------
LEMMA AspectsAre ==
  ASSUME NEW mode \in Modes
  PROVE  /\ AspectsOf(mode) \subseteq {"pitch", "rhythm", "breath", "dynamics", "vibrato", "timbre"}
         /\ "pitch" \in AspectsOf(mode) /\ IsFiniteSet(AspectsOf(mode))
<1>1. ASSUME NEW a \in AspectsOf(mode)
      PROVE  a \in {"pitch", "rhythm", "breath", "dynamics", "vibrato", "timbre"}
  BY DEF AspectsOf, MODE_ASPECTS, ASPECTS, Range, Modes
<1>2. "pitch" \in AspectsOf(mode)
  <2>1. 1 \in DOMAIN MODE_ASPECTS[mode] /\ MODE_ASPECTS[mode][1] = "pitch"
    BY DEF MODE_ASPECTS, ASPECTS, Modes
  <2> QED BY <2>1 DEF AspectsOf, Range
<1>3. IsFiniteSet({"pitch", "rhythm", "breath", "dynamics", "vibrato", "timbre"})
  <2>1. \A S : IsFiniteSet(S) => \A x : IsFiniteSet(S \cup {x})
    BY FS_AddElement
  <2>2. IsFiniteSet({"pitch", "rhythm"})
    <3>1. IsFiniteSet({} \cup {"pitch"})
      BY <2>1, FS_EmptySet
    <3>2. IsFiniteSet(({} \cup {"pitch"}) \cup {"rhythm"})
      BY <2>1, <3>1
    <3>3. {"pitch", "rhythm"} = ({} \cup {"pitch"}) \cup {"rhythm"}
      OBVIOUS
    <3> QED BY <3>2, <3>3
  <2>3. IsFiniteSet({"pitch", "rhythm", "breath", "dynamics"})
    <3>1. IsFiniteSet(({"pitch", "rhythm"} \cup {"breath"}) \cup {"dynamics"})
      BY <2>1, <2>2
    <3>2. {"pitch", "rhythm", "breath", "dynamics"} = ({"pitch", "rhythm"} \cup {"breath"}) \cup {"dynamics"}
      OBVIOUS
    <3> QED BY <3>1, <3>2
  <2>4. IsFiniteSet(({"pitch", "rhythm", "breath", "dynamics"} \cup {"vibrato"}) \cup {"timbre"})
    BY <2>1, <2>3
  <2>5. {"pitch", "rhythm", "breath", "dynamics", "vibrato", "timbre"}
          = ({"pitch", "rhythm", "breath", "dynamics"} \cup {"vibrato"}) \cup {"timbre"}
    OBVIOUS
  <2> QED BY <2>4, <2>5
<1> QED BY <1>1, <1>2, <1>3, FS_Subset

\* Whatever the audio holds, every other aspect is given between 0 and 100 points.
LEMMA AspectIs ==
  ASSUME StageInv, at = "aligned", take \in TakesOf(user, reference), results["align"] = AlignResult,
         NEW a \in AspectsOf(take.mode), a # "pitch"
  PROVE  AspectResult(a).score \in Points
<1> DEFINE path == results["align"].path
<1>1. take.mode \in Modes /\ user \in Seq(Nat) /\ reference \in Seq(Nat)
  BY FramesAligned DEF StageInv
<1>2. a \in {"rhythm", "breath", "dynamics", "vibrato", "timbre"}
  BY <1>1, AspectsAre
<1>3. /\ take.userOnsets \subseteq 0 .. Len(user) - 1
      /\ take.referenceOnsets \subseteq 0 .. Len(reference) - 1
      /\ take.referenceSilent \in [1 .. Len(Strided(reference)) -> BOOLEAN]
      /\ {take.userVibrato, take.referenceVibrato} \subseteq [detected : BOOLEAN, rate : Nat, depth : Nat]
      /\ {take.correlation, take.similarity} \subseteq Int /\ take.correlation <= 100 /\ take.similarity <= 100
  <2>1. user \in Recordings /\ reference \in References
    BY DEF StageInv, AlignInv, AlignTypeOK
  <2> QED BY <2>1, TakesAssumption
<1>4. \A x \in Nat : ReferenceToUser(path, 1, x) \in Nat
  <2> DEFINE o == Overlap(user, From(reference, offset))
             n == Len(o.user)
             m == Len(o.reference)
  <2>1. /\ n \in Nat /\ m \in Nat /\ n # 0
        /\ found.path \in Paths(n, m) /\ Forward(found.path, n, m)
    BY FoundIsPath
  <2>2. path = found.path
    BY DEF AlignResult
  <2> HIDE DEF n, m, path
  <2> QED BY <2>1, <2>2, MomentIs
<1> HIDE DEF path
<1>5. CASE a = "rhythm"
  <2>1. AspectResult(a) = RhythmResult(take.userOnsets, take.referenceOnsets, path)
    BY <1>5 DEF AspectResult, path
  <2>2. \A k \in Int : IsFiniteSet(0 .. k) /\ (0 .. k) \subseteq Nat
    BY FS_Interval
  <2>3. Len(user) \in Nat /\ Len(reference) \in Nat
    BY <1>1, LenProperties
  <2> DEFINE U == take.userOnsets
             R == take.referenceOnsets
  <2>4. U \in SUBSET Nat /\ IsFiniteSet(U) /\ R \in SUBSET Nat /\ IsFiniteSet(R)
    <3>1. IsFiniteSet(0 .. Len(user) - 1) /\ IsFiniteSet(0 .. Len(reference) - 1)
      BY <2>2, <2>3
    <3> QED BY <1>3, <3>1, FS_Subset
  <2> HIDE DEF U, R
  <2>5. RhythmResult(U, R, path).score \in Points
    BY <1>4, <2>4, RhythmIs
  <2> QED BY <2>1, <2>5 DEF U, R
<1>6. CASE a = "breath"
  <2>1. AspectResult(a) = BreathResult(take.userSilent, take.referenceSilent, path)
    BY <1>6 DEF AspectResult, path
  <2>2. Len(take.referenceSilent) \in Nat
    <3>1. Len(Strided(reference)) \in Nat
      BY <1>1, StridedIs, LenProperties
    <3> QED BY <1>3, <3>1
  <2> QED BY <2>1, <2>2, BreathIs
<1>7. CASE a = "vibrato"
  <2>1. AspectResult(a) = VibratoResult(take.userVibrato, take.referenceVibrato)
    BY <1>7 DEF AspectResult
  <2> DEFINE v == take.userVibrato
             w == take.referenceVibrato
  <2>2. v \in [detected : BOOLEAN, rate : Nat, depth : Nat] /\ w \in [detected : BOOLEAN, rate : Nat, depth : Nat]
    BY <1>3
  <2> HIDE DEF v, w
  <2>3. VibratoResult(v, w).score \in Points
    BY <2>2, VibratoIs
  <2> QED BY <2>1, <2>3 DEF v, w
<1>8. CASE a = "dynamics"
  <2>1. AspectResult(a) = LikenessResult(take.correlation)
    BY <1>8 DEF AspectResult
  <2> DEFINE percent == take.correlation
  <2>2. percent \in Int /\ percent <= 100
    BY <1>3
  <2> HIDE DEF percent
  <2>3. LikenessResult(percent).score \in Points
    BY <2>2, LikenessIs
  <2> QED BY <2>1, <2>3 DEF percent
<1>9. CASE a = "timbre"
  <2>1. AspectResult(a) = LikenessResult(take.similarity)
    BY <1>9 DEF AspectResult
  <2> DEFINE percent == take.similarity
  <2>2. percent \in Int /\ percent <= 100
    BY <1>3
  <2> HIDE DEF percent
  <2>3. LikenessResult(percent).score \in Points
    BY <2>2, LikenessIs
  <2> QED BY <2>1, <2>3 DEF percent
<1> QED BY <1>2, <1>5, <1>6, <1>7, <1>8, <1>9

\* The weights are a whole, so the score of the whole is a score, unless one of them is negative.
LEMMA OverallIs ==
  ASSUME NEW mode \in Modes, NEW scores \in [AspectsOf(mode) -> Points]
  PROVE  /\ OverallScore(scores, mode) \in Int
         /\ WeightsArePositive(mode) => OverallScore(scores, mode) \in Points
<1> DEFINE S == AspectsOf(mode)
           e == Weights[mode]
           f == [a \in S |-> scores[a] * e[a]]
           w == [a \in S |-> 0]
           sum == SumFunction(f)
<1>1. IsFiniteSet(S) /\ e \in [S -> Int] /\ SumFunction(e) = Whole /\ Whole \in Nat \ {0}
  BY AspectsAre, WeightsAssumption
<1>2. OverallScore(scores, mode) = RoundDiv(sum, Whole)
  BY DEF OverallScore
<1>3. WeightsArePositive(mode) => \A a \in S : e[a] >= 0
  BY DEF WeightsArePositive
<1> HIDE DEF S, e
<1>4. ASSUME NEW a \in S
      PROVE  f[a] \in Int /\ (e[a] >= 0 => f[a] \in Nat /\ f[a] <= 1000 * e[a] + w[a])
  <2> DEFINE x == scores[a]
             y == e[a]
  <2>1. x \in Points /\ y \in Int /\ f[a] = x * y /\ w[a] = 0
    BY <1>1 DEF S
  <2> HIDE DEF x, y, f, w
  <2>2. x * y \in Int /\ (y >= 0 => x * y \in Nat /\ x * y <= 1000 * y)
    BY <2>1 DEF Points
  <2> QED BY <2>1, <2>2 DEF y
<1>5. f \in [S -> Int] /\ w \in [S -> Int]
  BY <1>4
<1>6. sum \in Int
  BY <1>1, <1>5, SumIsInt
<1>7. OverallScore(scores, mode) \in Int
  <2> HIDE DEF sum
  <2> QED BY <1>1, <1>2, <1>6, RoundDivIs
<1>8. CASE WeightsArePositive(mode)
  <2>1. \A a \in S : f[a] \in Nat /\ f[a] <= 1000 * e[a] + w[a]
    BY <1>3, <1>4, <1>8
  <2>2. f \in [S -> Nat]
    BY <2>1
  <2>3. SumFunction(w) = 0
    BY <1>1, <1>5, SumOfNothing
  <2>4. sum \in Nat
    BY <1>1, <2>2, SumIsNat
  <2>5. sum <= 1000 * SumFunction(e) + SumFunction(w)
    <3> HIDE DEF f, w
    <3> QED BY <1>1, <1>5, <2>1, SumOrder
  <2> HIDE DEF f, w, sum
  <2>6. sum <= 1000 * Whole
    BY <1>1, <2>3, <2>4, <2>5
  <2>7. RoundDiv(sum, Whole) \in Points
    BY <1>1, <2>4, <2>6, ShareIs
  <2> QED BY <1>2, <1>7, <2>7
<1> QED BY <1>7, <1>8

LEMMA CaveatsAreFinite ==
  ASSUME NEW s PROVE Cardinality({k \in DOMAIN Caveats(s) : Caveats(s)[k].holds}) \in Nat
<1> DEFINE C == {k \in DOMAIN Caveats(s) : Caveats(s)[k].holds}
<1>1. DOMAIN Caveats(s) = 1 .. 6
  BY DEF Caveats
<1>2. IsFiniteSet(1 .. 6)
  <2>1. PICK a \in Int, b \in Int : a = 1 /\ b = 6
    OBVIOUS
  <2>2. IsFiniteSet(a .. b)
    BY FS_Interval
  <2> QED BY <2>1, <2>2, Zenon
<1>3. IsFiniteSet(1 .. 6) /\ C \subseteq 1 .. 6
  BY <1>1, <1>2, Zenon
<1> HIDE DEF C
<1>4. IsFiniteSet(C) /\ Cardinality(C) \in Nat
  BY <1>3, FS_Subset, FS_CardinalityType
<1> QED BY <1>4 DEF C

\* A level of confidence stays one of the three, however much is held against the take.
LEMMA ConfidenceIs ==
  ASSUME NEW s, s.mode \in Modes
  PROVE  /\ Confidence(s).overall \in 0 .. 2
         /\ Confidence(s).aspects \in [AspectsOf(s.mode) -> 0 .. 2]
<1> DEFINE doubtful == IF s.mode = "mixed" /\ LittleVoice(s) THEN {"pitch", "vibrato"} ELSE {}
           overall == OverallConfidence(s)
<1>1. /\ Confidence(s).overall = overall
      /\ Confidence(s).aspects = [a \in AspectsOf(s.mode) |->
                                    IF a \in doubtful THEN StepDown(overall, 1) ELSE overall]
  BY Zenon DEF Confidence
<1>2. \A level \in 0 .. 2, steps \in Nat : StepDown(level, steps) \in 0 .. 2
  BY DEF StepDown
<1>3. overall \in 0 .. 2
  <2>1. Highest(s.mode) \in 0 .. 2
    BY DEF Highest
  <2> QED BY <1>2, <2>1, CaveatsAreFinite DEF OverallConfidence
<1> HIDE DEF doubtful, overall
<1>4. StepDown(overall, 1) \in 0 .. 2
  BY <1>2, <1>3
<1> QED BY <1>1, <1>3, <1>4
-----------------------------------------------------------------------------
(***************************************************************************)
(* The results of the stages, in the order they come in.                   *)
(***************************************************************************)
AfterKey == {"aspects", "recording_condition", "aggregate", "done"}
AfterAspects == {"recording_condition", "aggregate", "done"}

FinalInRange ==
  /\ Final.overall \in Int /\ (WeightsArePositive(take.mode) => Final.overall \in Points)
  /\ Final.confidence \in 0 .. 2
  /\ Final.scores \in [AspectsOf(take.mode) -> Points]
  /\ Final.aspects \in [AspectsOf(take.mode) -> 0 .. 2]

\* The results in, and that each is what its stage makes of the ones before it.
ScoresInv ==
  /\ take \in TakesOf(user, reference)
  /\ stage \in (StagesAfter \ {"pitch"}) \cup {"done"} =>
       /\ "pitch" \in DOMAIN results
       /\ results["pitch"] = PitchResult(user, reference, found.path)
  /\ stage \in AfterKey =>
       /\ "key_normalization" \in DOMAIN results
       /\ results["key_normalization"] =
            KeyResult(results["pitch"].deviations, take.mode, take.allowTransposition)
  /\ stage \in AfterAspects =>
       \A a \in AspectsOf(take.mode) \ {"pitch"} :
         a \in DOMAIN results /\ results[a].score \in Points
  /\ stage = "done" => FinalInRange

\* A shifted take's score, and the one it stands for.
LEMMA ShiftedIs ==
  ASSUME StageInv, ScoresInv, stage \in AfterKey
  PROVE  /\ results["pitch"].score \in Points /\ results["key_normalization"].adjusted \in Points
         /\ results["key_normalization"].applied =>
              results["key_normalization"].adjusted >= results["pitch"].score
<1> DEFINE pitch == results["pitch"]
           key == results["key_normalization"]
           d == pitch.deviations
<1>1. user \in Seq(Nat) /\ reference \in Seq(Nat)
  BY FramesAligned
<1>2. /\ pitch = PitchResult(user, reference, found.path) /\ d = pitch.deviations
      /\ key = KeyResult(d, take.mode, take.allowTransposition)
  BY DEF ScoresInv, AfterKey, StagesAfter
<1> HIDE DEF pitch, key, d
<1>3. ScoreOf(pitch.score, d)
  BY <1>1, <1>2, PitchIs
<1>4. key.adjusted \in Points /\ (key.applied => key.adjusted >= pitch.score)
  BY <1>2, <1>3, KeyIs
<1>5. pitch.score \in Points
  BY <1>3 DEF ScoreOf
<1> QED BY <1>4, <1>5 DEF pitch, key

\* What the aggregate stage makes of scores is scores.
LEMMA AggregateIs ==
  ASSUME StageInv, ScoresInv, stage = "aggregate", NEW final, final = AggregateResult
  PROVE  /\ final.overall \in Int /\ (WeightsArePositive(take.mode) => final.overall \in Points)
         /\ final.confidence \in 0 .. 2
         /\ final.scores \in [AspectsOf(take.mode) -> Points]
         /\ final.aspects \in [AspectsOf(take.mode) -> 0 .. 2]
<1> DEFINE mode == take.mode
           s == Signals
<1>1. mode \in Modes
  BY DEF StageInv
<1>2. /\ final.overall = OverallScore(AspectScores, mode) /\ final.scores = AspectScores
      /\ final.confidence = Confidence(s).overall /\ final.aspects = Confidence(s).aspects
  BY DEF AggregateResult
<1>3. AspectScores \in [AspectsOf(mode) -> Points]
  <2> SUFFICES ASSUME NEW a \in AspectsOf(mode)
               PROVE  (IF a = "pitch" /\ results["key_normalization"].applied
                       THEN results["key_normalization"].adjusted ELSE results[a].score) \in Points
    BY DEF AspectScores
  <2>1. results["pitch"].score \in Points /\ results["key_normalization"].adjusted \in Points
    BY ShiftedIs DEF AfterKey
  <2>2. a # "pitch" => results[a].score \in Points
    BY DEF ScoresInv, AfterAspects
  <2> QED BY <2>1, <2>2
<1>4. s.mode = mode
  BY DEF Signals
<1> HIDE DEF mode, s
<1>5. /\ OverallScore(AspectScores, mode) \in Int
      /\ WeightsArePositive(mode) => OverallScore(AspectScores, mode) \in Points
  BY <1>1, <1>3, OverallIs
<1>6. Confidence(s).overall \in 0 .. 2 /\ Confidence(s).aspects \in [AspectsOf(mode) -> 0 .. 2]
  BY <1>1, <1>4, ConfidenceIs
<1> QED BY <1>2, <1>3, <1>5, <1>6 DEF mode

LEMMA ScoresNext ==
  ASSUME StageInv, ResultsInv, ScoresInv, [WarmNext]_warmVars PROVE ScoresInv'
<1>1. CASE UNCHANGED warmVars
  BY <1>1 DEF warmVars, ScoresInv, FinalInRange, Final
<1>2. UNCHANGED <<user, reference, take>>
  <2>1. CASE RunAlign
    BY <2>1 DEF RunAlign, AlignNext, CheckVoiced, AttemptDirect, AttemptCandidate, SearchFails
  <2>2. CASE WarmNext /\ ~RunAlign
    BY <2>2 DEF WarmNext, RunPitch, RunKeyNormalization, RunAspects, RunRecordingCondition, RunAggregate
  <2> QED BY <2>1, <2>2, <1>1 DEF warmVars
<1>3. take' \in TakesOf(user, reference)'
  BY <1>2 DEF ScoresInv
<1>4. CASE RunAlign
  <2>1. stage' \in {"pitch", "failed", "align"}
    BY <1>4 DEF RunAlign
  <2> QED BY <1>3, <2>1 DEF ScoresInv, StagesAfter, AfterKey, AfterAspects
<1>5. CASE WarmNext /\ ~RunAlign
  <2>1. UNCHANGED <<found, offset>> /\ UNCHANGED alignVars /\ stage \in StagesAfter
    BY <1>5, LaterStage DEF alignVars
  <2>2. at = "aligned" /\ results["align"] = AlignResult /\ results["align"].path = found.path
    BY <2>1 DEF ResultsInv, AlignResult
  <2>3. take.mode \in Modes /\ "pitch" \in AspectsOf(take.mode)
        /\ AspectsOf(take.mode) \subseteq {"pitch", "rhythm", "breath", "dynamics", "vibrato", "timbre"}
    BY AspectsAre DEF StageInv
  <2>4. CASE RunPitch
    <3> DEFINE p == PitchResult(user, reference, found.path)
    <3> HIDE DEF p
    <3>1. results' = With([pitch |-> p]) /\ stage' = "key_normalization"
      BY <2>2, <2>4 DEF RunPitch, p
    <3>2. "pitch" \in DOMAIN results' /\ results'["pitch"] = p
      BY <3>1 DEF With
    <3>3. results'["pitch"] = PitchResult(user, reference, found.path)'
      BY <1>2, <2>1, <3>2 DEF p
    <3> QED BY <1>3, <3>1, <3>2, <3>3 DEF ScoresInv, StagesAfter, AfterKey, AfterAspects
  <2>5. CASE RunKeyNormalization
    <3> DEFINE p == KeyResult(results["pitch"].deviations, take.mode, take.allowTransposition)
    <3> HIDE DEF p
    <3>1. results' = With([key_normalization |-> p]) /\ stage = "key_normalization" /\ stage' = "aspects"
      BY <2>5 DEF RunKeyNormalization, p
    <3>2. /\ "key_normalization" \in DOMAIN results' /\ results'["key_normalization"] = p
          /\ "pitch" \in DOMAIN results' /\ results'["pitch"] = results["pitch"]
      BY <3>1 DEF With, ScoresInv, StagesAfter
    <3>3. results'["pitch"] = PitchResult(user, reference, found.path)'
      BY <1>2, <2>1, <3>1, <3>2 DEF ScoresInv, StagesAfter
    <3>4. p = KeyResult(results'["pitch"].deviations, take'.mode, take'.allowTransposition)
      BY <1>2, <3>2 DEF p
    <3> QED BY <1>3, <3>1, <3>2, <3>3, <3>4 DEF ScoresInv, StagesAfter, AfterKey, AfterAspects
  <2>6. CASE RunAspects
    <3> DEFINE p == [aspect \in AspectsOf(take.mode) \ {"pitch"} |-> AspectResult(aspect)]
    <3>1. results' = With(p) /\ stage = "aspects" /\ stage' = "recording_condition"
      BY <2>6 DEF RunAspects
    <3>2. /\ "pitch" \in DOMAIN results' /\ results'["pitch"] = results["pitch"]
          /\ "key_normalization" \in DOMAIN results'
          /\ results'["key_normalization"] = results["key_normalization"]
      <4>1. "pitch" \notin DOMAIN p /\ "key_normalization" \notin DOMAIN p
        BY <2>3
      <4> HIDE DEF p
      <4> QED BY <3>1, <4>1 DEF With, ScoresInv, StagesAfter, AfterKey
    <3>3. ASSUME NEW a \in AspectsOf(take.mode) \ {"pitch"}
          PROVE  a \in DOMAIN results' /\ results'[a].score \in Points
      <4>1. a \in DOMAIN p /\ p[a] = AspectResult(a)
        OBVIOUS
      <4>2. AspectResult(a).score \in Points
        BY <2>2, AspectIs DEF ScoresInv
      <4> HIDE DEF p
      <4>3. a \in DOMAIN results' /\ results'[a] = p[a]
        BY <3>1, <4>1 DEF With
      <4> QED BY <4>1, <4>2, <4>3
    <3>4. results'["pitch"] = PitchResult(user, reference, found.path)'
      BY <1>2, <2>1, <3>1, <3>2 DEF ScoresInv, StagesAfter
    <3>5. results'["key_normalization"]
            = KeyResult(results'["pitch"].deviations, take'.mode, take'.allowTransposition)
      BY <1>2, <3>1, <3>2 DEF ScoresInv, AfterKey
    <3>6. \A a \in AspectsOf(take'.mode) \ {"pitch"} : a \in DOMAIN results' /\ results'[a].score \in Points
      BY <1>2, <3>3
    <3> QED BY <1>3, <3>1, <3>2, <3>4, <3>5, <3>6 DEF ScoresInv, StagesAfter, AfterKey, AfterAspects
  <2>7. CASE RunRecordingCondition
    <3> DEFINE p == ConditionResult(take.rms, user, take.mode)
    <3> HIDE DEF p
    <3>1. results' = With([recording_condition |-> p]) /\ stage = "recording_condition" /\ stage' = "aggregate"
      BY <2>7 DEF RunRecordingCondition, p
    <3>2. \A s \in DOMAIN results : s # "recording_condition" => s \in DOMAIN results' /\ results'[s] = results[s]
      BY <3>1 DEF With
    <3> QED BY <1>2, <1>3, <2>1, <2>3, <3>1, <3>2 DEF ScoresInv, StagesAfter, AfterKey, AfterAspects
  <2>8. CASE RunAggregate
    <3> DEFINE p == AggregateResult
    <3>1. stage = "aggregate"
      BY <2>8 DEF RunAggregate
    <3>2. /\ p.overall \in Int /\ (WeightsArePositive(take.mode) => p.overall \in Points)
          /\ p.confidence \in 0 .. 2
          /\ p.scores \in [AspectsOf(take.mode) -> Points]
          /\ p.aspects \in [AspectsOf(take.mode) -> 0 .. 2]
      BY <3>1, AggregateIs
    <3> HIDE DEF p
    <3>3. results' = With([aggregate |-> p]) /\ stage' \in {"done", "failed"}
      BY <2>8 DEF RunAggregate, p
    <3>4. \A s \in DOMAIN results : s # "aggregate" => s \in DOMAIN results' /\ results'[s] = results[s]
      BY <3>3 DEF With
    <3>5. Final' = p
      BY <3>3 DEF With, Final
    <3>6. FinalInRange'
      BY <1>2, <3>2, <3>5 DEF FinalInRange
    <3> QED BY <1>2, <1>3, <2>1, <2>3, <3>1, <3>3, <3>4, <3>6 DEF ScoresInv, StagesAfter, AfterKey, AfterAspects
  <2> QED BY <1>5, <2>4, <2>5, <2>6, <2>7, <2>8 DEF WarmNext
<1> QED BY <1>1, <1>4, <1>5

LEMMA ScoresInitInv == WarmInit => ResultsInv /\ ScoresInv
BY DEF WarmInit, ResultsInv, ConfidenceIsHonest, StagesAfter, ScoresInv, AfterKey, AfterAspects

\* What holds of the results of every stage in every state.
LEMMA ScoresInvariance == WarmSpec => [](StageInv /\ ScoresInv)
<1>1. StageInv /\ ResultsInv /\ [WarmNext]_warmVars => ResultsInv'
  BY ResultsNext
<1>2. StageInv /\ ResultsInv /\ ScoresInv /\ [WarmNext]_warmVars => ScoresInv'
  BY ScoresNext
<1> QED BY <1>1, <1>2, ScoresInitInv, Invariance, PTL DEF WarmSpec

(***************************************************************************)
(* Whatever was sung and whatever the tolerances, no stage gives less than *)
(* nothing or more than full marks, and neither does their weighted sum if *)
(* the configuration has no negative weight, which nothing but its author  *)
(* sees to (ScoringWeights.parse looks at the sum); no list of caveats     *)
(* takes the confidence below its lowest level.                            *)
(***************************************************************************)
THEOREM ScoresInRange == WarmSpec => []WarmTypeOK
<1>1. StageInv /\ ScoresInv => WarmTypeOK
  BY DEF StageInv, AlignInv, ScoresInv, FinalInRange, WarmTypeOK, Points
<1> QED BY <1>1, ScoresInvariance, PTL

(***************************************************************************)
(* Taking the shift of a take off never costs it points, whatever the      *)
(* deviations and however many: the median, with half of them at the most  *)
(* on either side, is at least as close to them all as no shift at all     *)
(* (key_normalization.py).                                                 *)
(***************************************************************************)
THEOREM ShiftNeverCosts == WarmSpec => []AdjustedNeverWorse
<1>1. StageInv /\ ScoresInv => AdjustedNeverWorse
  BY ShiftedIs DEF AdjustedNeverWorse, AfterKey
<1> QED BY <1>1, ScoresInvariance, PTL
-----------------------------------------------------------------------------
(***************************************************************************)
(* The reference sung back, stage by stage.                                *)
(***************************************************************************)
\* Nothing is lost where there is no error, if anything was measured at all.
LEMMA DecayOfNothing ==
  ASSUME NEW count \in Nat \ {0}, NEW zero \in Nat \ {0}
  PROVE  Decay(0, count, zero) = 1000
<1> DEFINE q == zero * count
<1>1. q \in Nat \ {0}
  OBVIOUS
<1>2. Decay(0, count, zero) = IF 0 >= q THEN 0 ELSE RoundDiv(1000 * (q - 0), q)
  BY DEF Decay
<1> HIDE DEF q
<1>3. RoundDiv(1000 * q, q) = 1000
  BY <1>1, RoundDivExact
<1>4. q - 0 = q /\ ~(0 >= q)
  BY <1>1
<1> QED BY <1>1, <1>2, <1>3, <1>4

\* The path between a curve and itself leads from each frame to that frame.
LEMMA OwnMoment ==
  ASSUME NEW n \in Nat, n # 0, NEW p, IsDiagonal(p, n), NEW x \in Nat
  PROVE  /\ ReferenceToUser(p, 1, x) = IF x < n - 1 THEN x ELSE n - 1
         /\ UserToReference(p, 1, x) = IF x < n - 1 THEN x ELSE n - 1
<1>1. PICK hop \in Nat \ {0} : hop = 1
  OBVIOUS
<1>2. /\ UserToReference(p, hop, x) = IF x < (n - 1) * hop THEN x ELSE (n - 1) * hop
      /\ ReferenceToUser(p, hop, x) = UserToReference(p, hop, x)
  BY DiagonalProjection
<1>3. (n - 1) * hop = n - 1
  BY <1>1
<1> QED BY <1>1, <1>2, <1>3

LEMMA OwnPitch ==
  ASSUME NEW u \in Seq(Nat), u # <<>>, NEW p, IsDiagonal(p, Len(u)), Voiced(u) # 0
  PROVE  PitchResult(u, u, p).score = 1000
<1> DEFINE aligned == AlignedReference(u, u, p)
           S == {i \in DOMAIN u : u[i] # 0}
           d == PresentDeviations(u, aligned)
           f == [i \in DOMAIN d |-> Abs(d[i])]
           n == Len(u)
<1>1. DOMAIN u = 1 .. n /\ n \in Nat /\ n # 0 /\ \A i \in DOMAIN u : u[i] \in Nat
  BY LenProperties, ElementOfSeq, EmptySeq
<1>2. ASSUME NEW i \in DOMAIN u PROVE aligned[i] = u[i]
  <2> DEFINE j == UserToReference(p, 1, i - 1) + 1
  <2>1. aligned[i] = IF j \in DOMAIN u THEN u[j] ELSE 0
    BY DEF AlignedReference
  <2>2. UserToReference(p, 1, i - 1) = i - 1
    <3>1. i \in Nat /\ i - 1 \in Nat /\ i - 1 <= n - 1
      BY <1>1
    <3> DEFINE x == i - 1
    <3>2. x \in Nat /\ x <= n - 1
      BY <3>1
    <3> HIDE DEF x, n
    <3>3. UserToReference(p, 1, x) = IF x < n - 1 THEN x ELSE n - 1
      BY <1>1, <3>2, OwnMoment DEF n
    <3>4. UserToReference(p, 1, x) = x
      BY <1>1, <3>2, <3>3
    <3> QED BY <3>4 DEF x
  <2>3. j = i
    BY <1>1, <2>2
  <2> HIDE DEF j
  <2> QED BY <2>1, <2>3
<1>3. PitchResult(u, u, p).score = Decay(SumAbs(d), Cardinality(DOMAIN d), ZeroCents)
  BY DEF PitchResult
<1> HIDE DEF aligned
<1>4. d = [i \in S |-> 100 * (u[i] - aligned[i])]
  BY <1>2 DEF PresentDeviations, Cents
<1>5. DOMAIN d = S /\ IsFiniteSet(S) /\ Cardinality(S) \in Nat \ {0}
  <2>1. IsFiniteSet(DOMAIN u)
    BY <1>1, FS_Interval
  <2>2. IsFiniteSet(S) /\ Cardinality(S) \in Nat
    BY <2>1, FS_Subset, FS_CardinalityType
  <2>3. Cardinality(S) # 0
    BY DEF Voiced
  <2> QED BY <1>4, <2>2, <2>3
<1>6. ASSUME NEW i \in S PROVE f[i] = 0
  <2>1. d[i] = 100 * (u[i] - u[i]) /\ u[i] \in Nat
    BY <1>1, <1>2, <1>4
  <2>2. d[i] = 0
    BY <2>1
  <2> HIDE DEF d
  <2> QED BY <1>5, <2>2 DEF Abs, Distance
<1>7. SumAbs(d) = SumFunction(f)
  BY DEF SumAbs
<1> HIDE DEF d, S
<1>8. SumFunction(f) = 0
  <2>1. \A i \in S : f[i] = 0
    BY <1>6
  <2>2. f \in [S -> Int]
    BY <1>5, <2>1
  <2> HIDE DEF f
  <2> QED BY <1>5, <2>1, <2>2, SumOfNothing
<1>9. Decay(0, Cardinality(S), ZeroCents) = 1000
  BY <1>5, DecayOfNothing, ToleranceAssumption
<1> QED BY <1>3, <1>5, <1>7, <1>8, <1>9

LEMMA OwnRhythm ==
  ASSUME NEW n \in Nat, n # 0, NEW p, IsDiagonal(p, n), NEW U \in SUBSET (0 .. n - 1), U # {}
  PROVE  RhythmResult(U, U, p).score = 1000
<1> DEFINE f == [r \in U |-> OnsetOffset(r, U, p)]
<1>1. RhythmResult(U, U, p).score = Decay(SumFunction(f), Cardinality(U), OnsetTolerance)
  BY DEF RhythmResult
<1>2. ASSUME NEW r \in U PROVE OnsetOffset(r, U, p) = 0
  <2> DEFINE T == {Distance(x, ReferenceToUser(p, 1, r)) : x \in U}
  <2>1. r \in Nat /\ r <= n - 1
    OBVIOUS
  <2>2. ReferenceToUser(p, 1, r) = IF r < n - 1 THEN r ELSE n - 1
    BY <2>1, OwnMoment
  <2>3. ReferenceToUser(p, 1, r) = r
    BY <2>1, <2>2
  <2>4. Distance(r, r) = 0 /\ \A x \in U : Distance(x, r) \in Nat
    BY <2>1 DEF Distance
  <2>5. T = {Distance(x, r) : x \in U}
    BY <2>3
  <2> HIDE DEF T
  <2>6. 0 \in T /\ T \in SUBSET Nat
    BY <2>4, <2>5
  <2>7. \A y \in T : 0 <= y
    BY <2>6
  <2>8. Min(T) \in T /\ \A y \in T : Min(T) <= y
    BY <2>6, <2>7 DEF Min
  <2>9. Min(T) = 0
    <3> DEFINE y == Min(T)
    <3>1. y \in T /\ y <= 0
      BY <2>6, <2>8
    <3> HIDE DEF y
    <3>2. y \in Nat
      BY <2>6, <3>1
    <3>3. y = 0
      BY <3>1, <3>2
    <3> QED BY <3>3 DEF y
  <2> QED BY <2>9 DEF OnsetOffset, T
<1>3. IsFiniteSet(U) /\ Cardinality(U) \in Nat \ {0}
  <2>1. IsFiniteSet(0 .. n - 1)
    BY FS_Interval
  <2> QED BY <2>1, FS_Subset, FS_CardinalityType, FS_EmptySet
<1>4. SumFunction(f) = 0
  <2>1. f \in [U -> Int] /\ \A r \in U : f[r] = 0
    BY <1>2
  <2> HIDE DEF f
  <2> QED BY <1>3, <2>1, SumOfNothing
<1>5. Decay(0, Cardinality(U), OnsetTolerance) = 1000
  BY <1>3, DecayOfNothing, ToleranceAssumption
<1> QED BY <1>1, <1>4, <1>5

LEMMA OwnVibrato ==
  ASSUME NEW v \in [detected : BOOLEAN, rate : Nat, depth : Nat]
  PROVE  VibratoResult(v, v).score = 1000
<1> DEFINE z == 2 * RateTolerance * DepthTolerance
<1>1. RateTolerance \in Nat \ {0} /\ DepthTolerance \in Nat \ {0}
  BY ToleranceAssumption
<1>2. z \in Nat \ {0}
  BY <1>1
<1>3. Distance(v.rate, v.rate) = 0 /\ Distance(v.depth, v.depth) = 0
  BY DEF Distance
<1>4. VibratoResult(v, v).score = CASE ~v.detected  -> 1000
                                    [] v.detected   -> Decay(0, 1, z)
  BY <1>1, <1>3 DEF VibratoResult, VibratoScore
<1> HIDE DEF z
<1>5. Decay(0, 1, z) = 1000
  BY <1>2, DecayOfNothing
<1> QED BY <1>4, <1>5

\* A pause is met by itself, projected to the end of the curve at the most.
LEMMA OwnBreath ==
  ASSUME NEW n \in Nat, n # 0, NEW p, IsDiagonal(p, n),
         NEW silent, Len(silent) = CoarseLength(n)
  PROVE  BreathResult(silent, silent, p).score = 1000
<1> DEFINE pauses == PauseRegions(silent)
           matched == {x \in pauses : \E u \in PauseRegions(silent) :
                         Distance(MiddleOf(u), ReferenceToUser(p, 2, MiddleOf(x))) <= 2 * PauseTolerance}
           l == CoarseLength(n)
<1>1. BreathResult(silent, silent, p).score =
        IF pauses = {} THEN 1000 ELSE RoundDiv(1000 * Cardinality(matched), Cardinality(pauses))
  BY DEF BreathResult
<1>2. l \in Nat /\ l * Stride <= n + Stride - 1
  BY CoarseLengthIs
<1>3. ASSUME NEW x \in pauses PROVE x \in matched
  <2> DEFINE s == x[1]
             e == x[2]
             y == MiddleOf(x)
  <2>1. s \in 0 .. l - 1 /\ e \in 1 .. l /\ s + PauseFrames <= e
    BY DEF PauseRegions
  <2>2. y = (s + e) * Stride
    BY DEF MiddleOf
  <2> HIDE DEF s, e, l, y
  <2>3. y \in Nat /\ y <= (n - 1) * 2 + 2 * PauseTolerance
    <3>1. s \in Nat /\ e \in Nat /\ s + e <= 2 * l - 1 /\ Stride \in Nat /\ 2 * l - 1 \in Nat
      BY <1>2, <2>1, PauseAssumption, StrideAssumption
    <3> DEFINE t == s + e
    <3>2. t \in Nat /\ t <= 2 * l - 1
      BY <3>1
    <3>3. y \in Nat /\ y <= (2 * l - 1) * Stride
      <4>1. y = t * Stride
        BY <2>2
      <4> HIDE DEF t
      <4> QED BY <3>1, <3>2, <4>1
    <3>4. (2 * l - 1) * Stride = 2 * (l * Stride) - Stride /\ l * Stride \in Nat
      BY <1>2, <3>1
    <3> QED BY <1>2, <3>1, <3>3, <3>4, PauseAssumption
  <2>4. ReferenceToUser(p, 2, y) = IF y < (n - 1) * 2 THEN y ELSE (n - 1) * 2
    <3>1. PICK hop \in Nat \ {0} : hop = 2
      OBVIOUS
    <3>2. ReferenceToUser(p, hop, y) = IF y < (n - 1) * hop THEN y ELSE (n - 1) * hop
      BY <2>3, DiagonalProjection
    <3> QED BY <3>1, <3>2
  <2>5. Distance(y, ReferenceToUser(p, 2, y)) <= 2 * PauseTolerance
    BY <2>3, <2>4, PauseAssumption DEF Distance
  <2> QED BY <2>5 DEF y
<1>4. matched = pauses
  BY <1>3
<1>5. IsFiniteSet(pauses) /\ Cardinality(pauses) \in Nat
  BY <1>2, PausesAreFinite, FS_CardinalityType
<1> HIDE DEF matched, pauses
<1>6. CASE pauses # {}
  <2> PICK q : q = Cardinality(pauses)
    OBVIOUS
  <2>1. q \in Nat \ {0}
    BY <1>5, <1>6, FS_EmptySet
  <2>2. RoundDiv(1000 * q, q) = 1000
    BY <2>1, RoundDivExact
  <2> QED BY <1>1, <1>4, <1>6, <2>2
<1> QED BY <1>1, <1>6

LEMMA FullMarks ==
  ASSUME NEW mode \in Modes, NEW scores, \A a \in AspectsOf(mode) : scores[a] = 1000
  PROVE  OverallScore(scores, mode) = 1000
<1> DEFINE S == AspectsOf(mode)
           e == Weights[mode]
           f == [a \in S |-> scores[a] * e[a]]
<1>1. IsFiniteSet(S) /\ e \in [S -> Int] /\ SumFunction(e) = Whole /\ Whole \in Nat \ {0}
  BY AspectsAre, WeightsAssumption
<1>2. OverallScore(scores, mode) = RoundDiv(SumFunction(f), Whole)
  BY DEF OverallScore
<1>3. \A a \in S : f[a] = 1000 * e[a]
  BY <1>1
<1> HIDE DEF S, e
<1>4. f \in [S -> Int] /\ e \in [S -> Int]
  BY <1>1, <1>3
<1> HIDE DEF f
<1>5. SumFunction(f) = 1000 * Whole
  BY <1>1, <1>3, <1>4, SumScaled
<1>6. RoundDiv(1000 * Whole, Whole) = 1000
  BY <1>1, RoundDivExact
<1> QED BY <1>2, <1>5, <1>6

\* A curve is aligned with itself frame by frame.
LEMMA OwnPath ==
  ASSUME StageInv, SizeInv, SameMelodyAligns, at = "aligned", user = reference
  PROVE  user \in Seq(Nat) /\ user # <<>> /\ IsDiagonal(found.path, Len(user))
<1>1. user \in Seq(Nat) /\ user # <<>>
  BY FramesAligned DEF SizeInv
<1>2. SameMelody
  <2>1. DOMAIN user = 1 .. Len(user) /\ \A i \in DOMAIN user : user[i] \in Nat
    BY <1>1, LenProperties, ElementOfSeq
  <2>2. \A i \in DOMAIN user : (user[i] - user[i]) % 12 = 0
    BY <2>1
  <2> QED BY <2>2 DEF SameMelody
<1>3. offset = 0
  BY <1>2 DEF SameMelodyAligns
<1>4. found = Attempt(user, reference, 0) /\ found.reason = "aligned"
  BY <1>3 DEF StageInv, AlignInv, StartOffsetIsLastResort, Accepted
<1>5. SoundsLike(user, reference)
  BY <1>1, <1>2, SameMelodySounds
<1> QED BY <1>1, <1>4, <1>5, SameSoundAligns

\* An own take loses nothing in any other aspect.
LEMMA OwnAspect ==
  ASSUME StageInv, SizeInv, SameMelodyAligns, at = "aligned", OwnTake,
         take \in TakesOf(user, reference), results["align"] = AlignResult,
         NEW a \in AspectsOf(take.mode), a # "pitch"
  PROVE  AspectResult(a).score = 1000
<1> DEFINE path == results["align"].path
           n == Len(user)
           U == take.userOnsets
           v == take.userVibrato
           silent == take.userSilent
<1>1. a \in {"rhythm", "breath", "dynamics", "vibrato", "timbre"}
  BY AspectsAre DEF StageInv
<1>2. /\ n \in Nat /\ n # 0 /\ IsDiagonal(path, n) /\ path = found.path
  <2>1. user \in Seq(Nat) /\ user # <<>> /\ IsDiagonal(found.path, Len(user))
    BY OwnPath DEF OwnTake
  <2>2. path = found.path
    BY DEF AlignResult
  <2> QED BY <2>1, <2>2, LenProperties, EmptySeq
<1>3. /\ U \in SUBSET (0 .. n - 1) /\ U # {} /\ take.referenceOnsets = U
      /\ v \in [detected : BOOLEAN, rate : Nat, depth : Nat] /\ take.referenceVibrato = v
      /\ silent \in [1 .. Len(Strided(user)) -> BOOLEAN] /\ take.referenceSilent = silent
      /\ take.correlation = 100 /\ take.similarity = 100
  <2>1. user \in Recordings /\ reference \in References
    BY DEF StageInv, AlignInv, AlignTypeOK
  <2> QED BY <2>1, TakesAssumption DEF OwnTake
<1>4. Len(silent) = CoarseLength(n)
  <2>1. Len(Strided(user)) = CoarseLength(n) /\ CoarseLength(n) \in Nat
    BY <1>2, FramesAligned, StridedIs, CoarseLengthIs
  <2> HIDE DEF n
  <2> QED BY <1>3, <2>1
<1> HIDE DEF path, n, U, v, silent
<1>5. CASE a = "rhythm"
  <2>1. AspectResult(a) = RhythmResult(U, U, path)
    BY <1>3, <1>5 DEF AspectResult, path, U
  <2> QED BY <1>2, <1>3, <2>1, OwnRhythm
<1>6. CASE a = "breath"
  <2>1. AspectResult(a) = BreathResult(silent, silent, path)
    BY <1>3, <1>6 DEF AspectResult, path, silent
  <2> QED BY <1>2, <1>4, <2>1, OwnBreath
<1>7. CASE a = "vibrato"
  <2>1. AspectResult(a) = VibratoResult(v, v)
    BY <1>3, <1>7 DEF AspectResult, v
  <2> QED BY <1>3, <2>1, OwnVibrato
<1>8. CASE a \in {"dynamics", "timbre"}
  <2>1. AspectResult(a) = LikenessResult(100)
    BY <1>3, <1>8 DEF AspectResult
  <2> QED BY <2>1 DEF LikenessResult
<1> QED BY <1>1, <1>5, <1>6, <1>7, <1>8

\* A voice is heard before anything is compared, and an own take has lost nothing so far.
PerfectInv ==
  /\ at \notin {"start", "NO_VOICE_DETECTED"} => Voiced(user) # 0
  /\ stage \in AfterAspects /\ OwnTake =>
       \A a \in AspectsOf(take.mode) \ {"pitch"} : results[a].score = 1000
  /\ OwnTakeIsPerfect

LEMMA VoiceIsHeard ==
  ASSUME StageInv, CheckVoiced PROVE at' # "NO_VOICE_DETECTED" => Voiced(user) # 0
<1> SUFFICES ASSUME at' # "NO_VOICE_DETECTED", Voiced(user) = 0 PROVE FALSE
  OBVIOUS
<1> DEFINE n == Len(user)
<1>1. user # <<>> /\ ~(Voiced(user) * 100 < MinVoicedPercent * n)
  BY DEF CheckVoiced
<1>2. n \in Nat \ {0}
  BY <1>1, FramesAligned, LenProperties, EmptySeq
<1> HIDE DEF n
<1>3. MinVoicedPercent * n \in Nat \ {0}
  BY <1>2, VoiceAssumption
<1> QED BY <1>1, <1>3

LEMMA OwnScores ==
  ASSUME StageInv, SizeInv, SameMelodyAligns, ResultsInv, ScoresInv, PerfectInv,
         stage = "aggregate", OwnTake
  PROVE  AggregateResult.overall = 1000
<1>1. at = "aligned" /\ results["pitch"] = PitchResult(user, reference, found.path)
  BY DEF ResultsInv, ScoresInv, StagesAfter
<1>2. results["pitch"].score = 1000
  <2>1. user \in Seq(Nat) /\ user # <<>> /\ IsDiagonal(found.path, Len(user)) /\ Voiced(user) # 0
    BY <1>1, OwnPath DEF OwnTake, PerfectInv
  <2>2. PitchResult(user, user, found.path).score = 1000
    BY <2>1, OwnPitch
  <2> QED BY <1>1, <2>2 DEF OwnTake
<1>3. results["key_normalization"].applied => results["key_normalization"].adjusted = 1000
  <2> DEFINE adjusted == results["key_normalization"].adjusted
  <2>1. adjusted \in Points /\ (results["key_normalization"].applied => adjusted >= 1000)
    BY <1>2, ShiftedIs DEF AfterKey
  <2> HIDE DEF adjusted
  <2>2. adjusted \in Points /\ adjusted >= 1000 => adjusted = 1000
    BY DEF Points
  <2> QED BY <2>1, <2>2 DEF adjusted
<1>4. \A a \in AspectsOf(take.mode) : AspectScores[a] = 1000
  <2> SUFFICES ASSUME NEW a \in AspectsOf(take.mode) PROVE AspectScores[a] = 1000
    OBVIOUS
  <2>1. a # "pitch" => results[a].score = 1000
    BY DEF PerfectInv, AfterAspects
  <2> QED BY <1>2, <1>3, <2>1 DEF AspectScores
<1>5. OverallScore(AspectScores, take.mode) = 1000
  BY <1>4, FullMarks DEF StageInv
<1> QED BY <1>5 DEF AggregateResult

LEMMA PerfectNext ==
  ASSUME StageInv, SizeInv, SameMelodyAligns, ResultsInv, ScoresInv, PerfectInv, [WarmNext]_warmVars
  PROVE  PerfectInv'
<1>1. CASE UNCHANGED warmVars
  BY <1>1 DEF warmVars, PerfectInv, OwnTakeIsPerfect, OwnTake, Final
<1>2. UNCHANGED <<user, reference, take>>
  <2>1. CASE RunAlign
    BY <2>1 DEF RunAlign, AlignNext, CheckVoiced, AttemptDirect, AttemptCandidate, SearchFails
  <2>2. CASE WarmNext /\ ~RunAlign
    BY <2>2 DEF WarmNext, RunPitch, RunKeyNormalization, RunAspects, RunRecordingCondition, RunAggregate
  <2> QED BY <2>1, <2>2, <1>1 DEF warmVars
<1>3. OwnTake' <=> OwnTake
  BY <1>2 DEF OwnTake
<1>4. (at \notin {"start", "NO_VOICE_DETECTED"} => Voiced(user) # 0)'
  <2>1. CASE UNCHANGED alignVars
    BY <1>2, <2>1 DEF alignVars, PerfectInv
  <2>2. CASE CheckVoiced
    BY <1>2, <2>2, VoiceIsHeard
  <2>3. CASE AttemptDirect \/ AttemptCandidate \/ SearchFails
    <3>1. at \notin {"start", "NO_VOICE_DETECTED"}
      BY <2>3 DEF AttemptDirect, AttemptCandidate, SearchFails
    <3> QED BY <1>2, <3>1 DEF PerfectInv
  <2> QED BY <2>1, <2>2, <2>3, AlignStepOrNone DEF AlignNext
<1>5. CASE RunAlign
  <2>1. stage' \in {"pitch", "failed", "align"}
    BY <1>5 DEF RunAlign
  <2> QED BY <1>4, <2>1 DEF PerfectInv, OwnTakeIsPerfect, AfterAspects
<1>6. CASE RunPitch \/ RunKeyNormalization
  <2>1. stage' \in {"key_normalization", "aspects"}
    BY <1>6 DEF RunPitch, RunKeyNormalization
  <2> QED BY <1>4, <2>1 DEF PerfectInv, OwnTakeIsPerfect, AfterAspects
<1>7. CASE RunAspects
  <2> DEFINE p == [aspect \in AspectsOf(take.mode) \ {"pitch"} |-> AspectResult(aspect)]
  <2>1. results' = With(p) /\ stage = "aspects" /\ stage' = "recording_condition"
    BY <1>7 DEF RunAspects
  <2>2. at = "aligned" /\ results["align"] = AlignResult /\ take \in TakesOf(user, reference)
    BY <2>1 DEF ResultsInv, ScoresInv, StagesAfter
  <2>3. ASSUME OwnTake, NEW a \in AspectsOf(take.mode) \ {"pitch"} PROVE results'[a].score = 1000
    <3>1. a \in DOMAIN p /\ p[a] = AspectResult(a)
      OBVIOUS
    <3>2. AspectResult(a).score = 1000
      BY <2>2, <2>3, OwnAspect
    <3> HIDE DEF p
    <3>3. results'[a] = p[a]
      BY <2>1, <3>1 DEF With
    <3> QED BY <3>1, <3>2, <3>3
  <2> QED BY <1>2, <1>3, <1>4, <2>1, <2>3 DEF PerfectInv, OwnTakeIsPerfect
<1>8. CASE RunRecordingCondition \/ RunAggregate
  <2>1. PICK p : DOMAIN p \subseteq {"recording_condition", "aggregate"} /\ results' = With(p)
    <3>1. CASE RunRecordingCondition
      <4> DEFINE p == [recording_condition |-> ConditionResult(take.rms, user, take.mode)]
      <4>1. results' = With(p) /\ DOMAIN p \subseteq {"recording_condition", "aggregate"}
        BY <3>1 DEF RunRecordingCondition
      <4> HIDE DEF p
      <4> QED BY <4>1, Zenon
    <3>2. CASE RunAggregate
      <4> DEFINE p == [aggregate |-> AggregateResult]
      <4>1. results' = With(p) /\ DOMAIN p \subseteq {"recording_condition", "aggregate"}
        BY <3>2 DEF RunAggregate
      <4> HIDE DEF p
      <4> QED BY <4>1, Zenon
    <3> QED BY <1>8, <3>1, <3>2
  <2>2. stage \in {"recording_condition", "aggregate"}
    BY <1>8 DEF RunRecordingCondition, RunAggregate
  <2>3. ASSUME OwnTake, NEW a \in AspectsOf(take.mode) \ {"pitch"} PROVE results'[a].score = 1000
    <3>1. a \in DOMAIN results /\ results[a].score = 1000
      BY <2>2, <2>3 DEF ScoresInv, PerfectInv, AfterAspects
    <3>2. a \notin DOMAIN p
      BY <2>1, AspectsAre DEF StageInv
    <3> QED BY <2>1, <3>1, <3>2 DEF With
  <2>4. OwnTakeIsPerfect'
    <3>1. CASE RunRecordingCondition
      BY <3>1 DEF RunRecordingCondition, OwnTakeIsPerfect
    <3>2. CASE RunAggregate
      <4> DEFINE q == AggregateResult
      <4>1. OwnTake => q.overall = 1000
        BY <3>2, OwnScores DEF RunAggregate
      <4> HIDE DEF q
      <4>2. results' = With([aggregate |-> q])
        BY <3>2 DEF RunAggregate, q
      <4>3. Final' = q
        BY <4>2 DEF With, Final
      <4> QED BY <1>3, <4>1, <4>3 DEF OwnTakeIsPerfect
    <3> QED BY <1>8, <3>1, <3>2
  <2> QED BY <1>2, <1>3, <1>4, <2>3, <2>4 DEF PerfectInv
<1> QED BY <1>1, <1>5, <1>6, <1>7, <1>8 DEF WarmNext

(***************************************************************************)
(* The reference sung back gets full marks for everything, whatever the    *)
(* curve, the tolerances and the weights: it is aligned with itself frame  *)
(* by frame, so that no stage after it loses a frame, an onset or a pause. *)
(***************************************************************************)
THEOREM OwnTakeGetsFullMarks == WarmSpec => []OwnTakeIsPerfect
<1>1. WarmInit => SizeInv /\ SameMelodyAligns /\ PerfectInv
  BY DEF WarmInit, AlignInit, SizeInv, SearchRaisesNothingNew, SameMelodyAligns, PerfectInv,
         OwnTakeIsPerfect, AfterAspects
<1>2. StageInv /\ SizeInv /\ [WarmNext]_warmVars => SizeInv'
  BY SizeNext
<1>3. StageInv /\ SizeInv /\ SameMelodyAligns /\ [WarmNext]_warmVars => SameMelodyAligns'
  BY SameMelodyNext
<1>4. StageInv /\ ResultsInv /\ [WarmNext]_warmVars => ResultsInv'
  BY ResultsNext
<1>5. (/\ StageInv /\ SizeInv /\ SameMelodyAligns /\ ResultsInv /\ ScoresInv /\ PerfectInv
       /\ [WarmNext]_warmVars) => PerfectInv'
  BY PerfectNext
<1>6. PerfectInv => OwnTakeIsPerfect
  BY DEF PerfectInv
<1> QED BY <1>1, <1>2, <1>3, <1>4, <1>5, <1>6, ScoresInitInv, ScoresInvariance, Invariance, PTL DEF WarmSpec
=============================================================================
