--------------------------- MODULE MCWarmAnalysis ---------------------------
(* Small recordings and references for TLC: held notes with rests, every   *)
(* reference of two and of five frames, and a few pairs looked at with     *)
(* everything else a take can bring.                                       *)
EXTENDS WarmAnalysis

Curves(n, values) == [1 .. n -> values]

\* Pitches in semitones: 1 is the note, 4 a minor third up, 13 the octave.
NotesAndRests == Curves(2, {0, 1}) \cup {u \in Curves(4, {0, 1}) : u[3] = 1}
Held == {<<1, 1, 0, 0, 1, 1>>, <<1, 0, 1, 0, 1, 0>>, <<0, 1, 1, 1, 0, 0>>}
Melodies == {<<1, 1, 0, 1>>, <<1, 3, 0, 0, 1>>, <<3, 1, 0, 3>>, <<4, 4, 0, 4, 4>>}
SmallRecordings == NotesAndRests \cup Held \cup Melodies
SmallReferences ==
  Curves(2, {0, 1}) \cup {r \in Curves(5, {0, 1, 4}) : r[5] # 4} \cup Held
  \cup {<<1, 3, 0, 0, 1>>, <<2, 3, 0, 0, 2>>, <<13, 13, 0, 13>>, <<2, 2, 0, 2>>, <<0, 0, 1, 4, 0>>}

Scored ==
  {<<u, r>> \in Melodies \X SmallReferences : r[2] = 3}
  \cup {<<<<1, 1, 0, 1>>, <<13, 13, 0, 13>>>>, <<<<1, 1, 0, 1>>, <<2, 2, 0, 2>>>>,
        <<<<0, 0, 1, 0>>, <<0, 0, 1, 4, 0>>>>, <<<<1, 1, 1, 1>>, <<4, 4, 1, 1, 1>>>>}
  \cup {<<u, u>> : u \in Held}
-----------------------------------------------------------------------------
Plain == [detected |-> FALSE, rate |-> 0, depth |-> 0]

\* Loudness of the take: nothing at all, a voice alone, something under it.
RmsOf(u) == {<<0, 0>>, [i \in 1 .. Len(u) + 1 |-> IF i \in DOMAIN u /\ u[i] = 0 THEN 1 ELSE 10],
             [i \in 1 .. Len(u) + 1 |-> 10]}

\* A pause in the second of the coarse frames.
PauseAtSecond(curve) == [i \in 1 .. Len(Strided(curve)) |-> i = 2]

Base(u, r) ==
  [mode |-> "clean", allowTransposition |-> TRUE, locale |-> "en",
   rms |-> CHOOSE rms \in RmsOf(u) : \E i \in DOMAIN rms : rms[i] = 10,
   userOnsets |-> {0}, referenceOnsets |-> {0},
   userSilent |-> PauseAtSecond(u), referenceSilent |-> PauseAtSecond(r),
   userVibrato |-> Plain, referenceVibrato |-> Plain, correlation |-> 100, similarity |-> 100]

\* Rates in tenths of a hertz, depths in cents.
Vibratos == {Plain} \cup [detected : {TRUE}, rate : {50, 70, 90}, depth : {60, 110, 190}]

Requests(u, r) ==
  {[Base(u, r) EXCEPT !.mode = m, !.allowTransposition = t, !.locale = l, !.rms = rms] :
     m \in Modes, t \in BOOLEAN, l \in Locales, rms \in RmsOf(u)}
Onsets(u, r) ==
  {[Base(u, r) EXCEPT !.userOnsets = o, !.referenceOnsets = p] :
     o \in SUBSET {0, 1, Len(u) - 1}, p \in SUBSET {0, Len(r) - 1}}
Silences(u, r) ==
  {[Base(u, r) EXCEPT !.userSilent = s, !.referenceSilent = t] :
     s \in Curves(Len(Strided(u)), BOOLEAN), t \in Curves(Len(Strided(r)), BOOLEAN)}
VibratoTakes(u, r) ==
  {[Base(u, r) EXCEPT !.userVibrato = v, !.referenceVibrato = w] :
     v \in Vibratos, w \in {Plain, [detected |-> TRUE, rate |-> 70, depth |-> 110]}}
Likenesses(u, r) ==
  {[Base(u, r) EXCEPT !.mode = m, !.correlation = c, !.similarity = s] :
     m \in Modes, c \in {-20, 60, 80, 95}, s \in {0, 80}}

SmallTakes(u, r) ==
  IF <<u, r>> \notin Scored THEN {Base(u, r)}
  ELSE UNION {Requests(u, r), Onsets(u, r), Silences(u, r), VibratoTakes(u, r), Likenesses(u, r)}

WeightsV1 ==
  [mode \in Modes |->
     IF mode = "clean"
     THEN [pitch |-> 35, rhythm |-> 20, breath |-> 15, dynamics |-> 10, vibrato |-> 10, timbre |-> 10]
     ELSE [pitch |-> 50, rhythm |-> 30, dynamics |-> 10, vibrato |-> 10]]
=============================================================================
