----------------------------- MODULE MCJobHandlers -----------------------------
(***************************************************************************)
(* The stages of build_stages and build_prep_stages for TLC.               *)
(***************************************************************************)
EXTENDS JobHandlers, Sequences

Warm == <<"preprocess", "separate_recording", "features", "align", "pitch",
          "key_normalization",
          "rhythm", "vibrato", "dynamics", "timbre", "breath",
          "recording_condition", "aggregate">>

Cold == <<"prep_reference", "separate_reference", "transcribe", "prep_reference_pitch">>

Aspects == {"rhythm", "vibrato", "dynamics", "timbre", "breath"}

Order == Warm \o Cold

AllStages == {Order[i] : i \in 1 .. Len(Order)}

PlaceInOrder == [s \in AllStages |-> CHOOSE i \in 1 .. Len(Order) : Order[i] = s]

\* The aspects are one entry, named by the place of the first of them.
EntryInList ==
  [s \in AllStages |-> PlaceInOrder[IF s \in Aspects THEN "rhythm" ELSE s]]

ParallelGroups == {PlaceInOrder["rhythm"]}

PathsOfStages ==
  [s \in AllStages |->
     CASE PlaceInOrder[s] > Len(Warm) -> {"prep"}
       [] s = "separate_recording" -> {"mixed"}
       [] s \in {"timbre", "breath"} -> {"clean"}
       [] OTHER -> {"clean", "mixed"}]

RequiredStages == AllStages \ {"transcribe"}
=============================================================================
