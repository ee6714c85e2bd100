------------------------- MODULE MCProcessAutomaton -------------------------
(***************************************************************************)
(* Registers with two or three values where the automaton branches on them *)
(* and one where it only compares: a moment below, between and above the   *)
(* two laser thresholds, a process of two tracks that measures on the last *)
(* one only, delays of none and of two frames (the first of which an awake *)
(* frame takes off at once).                                               *)
(***************************************************************************)
EXTENDS ProcessAutomaton

MCRegisterValues ==
  [MODE |-> {0, 1, 2}, START_TRACK_MOM_T |-> {2}, END_OF_TRACK |-> {1},
   REFERENCE_TRACK |-> {2}, TIME_TRACK |-> {1}, TRACK_REF_START |-> {2},
   DELAY_LASER_ON |-> {0, 2}, PREHEATING_ENA |-> {0, 1}, PREHEATING_TIME |-> {1},
   END_OF_PROCESS |-> {1}, LASER_EXTERAL_CONTROL |-> {0, 1}, AUTOMEASURE |-> {1},
   SET_REF_WIDTH |-> {0, 1}]

MCInitialRegisters == [r \in Registers |-> CHOOSE v \in MCRegisterValues[r] : TRUE]
MCMoments == {0, 1, 2}
=============================================================================
