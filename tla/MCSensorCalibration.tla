------------------------ MODULE MCSensorCalibration ------------------------
(***************************************************************************)
(* The dispatcher's thread removes the background and saves while an       *)
(* application calibrates, so that two calibrations and a nap can overlap, *)
(* around the shortest nap: two frames with a calibration count of one.    *)
(* The loop's own triggers are off: an operator may ask for a nap in any   *)
(* state, which reaches whatever they could.                               *)
(***************************************************************************)
EXTENDS SensorCalibration

CONSTANTS dispatcher, application

MCOffers ==
  [c \in {dispatcher, application} |->
     IF c = dispatcher THEN {"background_remove", "save_all"} ELSE {"calibrate"}]

MCTemps == {0}
MCAutoConfigs ==
  {[enable |-> 0, inProcess |-> 0, byTime |-> 0, timeTarget |-> 0, tempTarget |-> 0]}
=============================================================================
