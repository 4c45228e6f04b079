-------------------------------- MODULE Report --------------------------------
(***************************************************************************)
(* The text report (pipeline/report.py): which phrase is chosen for each   *)
(* aspect.  A phrase is its key in the table of the locale; a key the      *)
(* table lacks is a KeyError.                                              *)
(***************************************************************************)
EXTENDS Scoring

Locales == {"en", "uk"}

TierKeys == {"excellent", "good", "fair", "poor"}

\* How the rate and the depth of two vibratos differ, if they do.
DifferKeys == {"differs"} \X {"", "faster", "slower"} \X {"", "wider", "narrower"}

\* An outcome that says nothing of them.
Only(key) == <<key, "", "">>

\* The phrases a locale has; both have the same.
Templates == [locale \in Locales |->
  [pitch |-> TierKeys, rhythm |-> TierKeys,
   breath |-> {"no_pauses", "excellent", "partial", "poor"},
   dynamics |-> {"excellent", "partial", "poor"},
   vibrato |-> {Only(k) : k \in {"user_added", "neither", "user_missing", "close_match"}}
                 \cup DifferKeys,
   timbre |-> {"close", "differs"}]]

\* FEEDBACK_EXCELLENT_THRESHOLD, _GOOD_ and _FAIR_.
Tier(score) ==
  CASE score >= 900                 -> "excellent"
    [] score >= 750 /\ score < 900  -> "good"
    [] score >= 500 /\ score < 750  -> "fair"
    [] OTHER                        -> "poor"

\* Defect: four tiers where there are three phrases.
CoarseTierOfFour(score) == Tier(score)

\* Where there are phrases for the two ends and one for what is between.
CoarseTier(score) == IF Tier(score) \in {"good", "fair"} THEN "partial" ELSE Tier(score)

VibratoOutcomeKey(user, reference) ==
  LET rate == CASE user.rate > reference.rate + RateTolerance -> "faster"
                [] user.rate + RateTolerance < reference.rate -> "slower"
                [] OTHER                                      -> ""
      depth == CASE user.depth > reference.depth + DepthTolerance -> "wider"
                 [] user.depth + DepthTolerance < reference.depth -> "narrower"
                 [] OTHER                                         -> ""
  IN <<"differs", rate, depth>>

VibratoFeedback(data) ==
  CASE ~data.reference.detected -> Only(IF data.user.detected THEN "user_added" ELSE "neither")
    [] data.reference.detected /\ ~data.user.detected -> Only("user_missing")
    [] OTHER -> IF data.score >= 750 THEN Only("close_match")
                ELSE VibratoOutcomeKey(data.user, data.reference)

AspectFeedback(aspect, data) ==
  CASE aspect \in {"pitch", "rhythm"} -> Tier(data.score)
    [] aspect = "breath"   -> IF data.total = 0 THEN "no_pauses" ELSE CoarseTier(data.score)
    [] aspect = "dynamics" -> CoarseTier(data.score)
    [] aspect = "vibrato"  -> VibratoFeedback(data)
    [] aspect = "timbre"   -> IF data.score >= 750 THEN "close" ELSE "differs"

\* The lookup of a phrase; without one it raises.
HasPhrase(aspect, data, locale) == AspectFeedback(aspect, data) \in Templates[locale][aspect]
===============================================================================
