--------------------------- MODULE MCProcessCore ---------------------------
(***************************************************************************)
(* A nap of four frames around a calibration of one, the shortest in which *)
(* the loop sleeps through the opening, and an END_OF_PROCESS of exactly   *)
(* the nap less two; automatic naps by time, in process or not; pulses     *)
(* with a delay.  The data of power and alarm is kept to what the          *)
(* composition needs: the component runs vary it.                          *)
(***************************************************************************)
EXTENDS ProcessCore

MCRegisterValues ==
  [MODE |-> {1, 2}, START_TRACK_MOM_T |-> {1}, END_OF_TRACK |-> {1},
   REFERENCE_TRACK |-> {1}, TIME_TRACK |-> {1}, TRACK_REF_START |-> {1},
   DELAY_LASER_ON |-> {1}, PREHEATING_ENA |-> {0}, PREHEATING_TIME |-> {1},
   END_OF_PROCESS |-> {2}, LASER_EXTERAL_CONTROL |-> {0}, AUTOMEASURE |-> {1},
   SET_REF_WIDTH |-> {0}]
MCExternalValues == [MCRegisterValues EXCEPT !.LASER_EXTERAL_CONTROL = {1}]

MCInitialRegisters == [r \in Registers |-> CHOOSE v \in MCRegisterValues[r] : TRUE]
MCExternalRegisters == [r \in Registers |-> CHOOSE v \in MCExternalValues[r] : TRUE]

MCMoments == {0, 1}
MCTemps == {0}
MCAutoConfigs ==
  {[enable |-> e, inProcess |-> p, byTime |-> 1, timeTarget |-> 2, tempTarget |-> 0] :
     <<e, p>> \in {<<0, 0>>, <<1, 0>>, <<1, 1>>}}
MCParameters ==
  {[max |-> 2, min |-> 0, slew |-> 1, ki |-> 0, kp |-> 1, kd |-> 0,
    integral |-> 1, powerMax |-> 2, powerMin |-> 0]}
MCBiases == {1}
MCErrors == {0}
MCAlarmParameters == {[enable |-> 1, max |-> 0, min |-> 0]}
MCAlarmTimes == {0}
MCWidths == {0}
=============================================================================
