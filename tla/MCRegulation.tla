---------------------------- MODULE MCRegulation ----------------------------
(***************************************************************************)
(* What a frame does with a width: the power regulator beside the path of  *)
(* the width from the image to the alarm.  They share no variable, and no  *)
(* property speaks of both, so a behaviour runs one of them, and the other *)
(* stays at its start.                                                     *)
(*                                                                         *)
(* The regulator has register files that differ in what matters: limits    *)
(* that span the range, crossed limits, a slew of nothing and no integral  *)
(* part, limits that reach below the range (a negative duty), and an empty *)
(* range.                                                                  *)
(*                                                                         *)
(* The path has a buffer of three entries with sizes of each length, below *)
(* and beyond it; two measured widths whose means (0, 2, 3, 4, 6: all      *)
(* exact) lie in the band and on each side of it; a counter of four        *)
(* values, so that the largest ALARM_TIME wraps (5 % 4); and the values    *)
(* 0, 1 and 2 of ENABLE_ALARM (only 1 enables).                            *)
(***************************************************************************)
EXTENDS PowerControl, WidthPath

Nominal == [max |-> 6, min |-> 1, slew |-> 2, ki |-> 2, kp |-> 1, kd |-> 1,
            integral |-> 5, powerMax |-> 6, powerMin |-> 1]

MCParameters ==
  {Nominal,
   [Nominal EXCEPT !.min = 7],
   [Nominal EXCEPT !.ki = 0, !.slew = 0],
   [Nominal EXCEPT !.max = 4, !.kd = -1, !.slew = 5, !.powerMin = 3],
   [Nominal EXCEPT !.powerMax = 1]}
MCBiases == {0, 3, 9}
MCErrors == {-3, 0, 1, 4}

Silent == [enable |-> 0, max |-> 4, min |-> 2]
MCAlarmParameters == [enable : {0, 1, 2}, max : {4}, min : {2}]
MCAlarmTimes == {0, 2, 5}
MCWidths == {0, 2, 3, 4, 6}
MCMeasured == {0, 6}
MCBuffSizes == {0, 2, 4}

VARIABLE running  \* which of the two this behaviour is about

RegulationVars == <<powerVars, pathVars, running>>

RegulationInit ==
  /\ PowerInit /\ PathInit
  /\ running \in {"power", "path"}
  /\ running = "path" => powerPar = Nominal
  /\ running = "power" => alarmPar = Silent /\ alarmOut = 0 /\ reloaded = 0

PowerRuns == running = "power" /\ PowerNext /\ UNCHANGED <<pathVars, running>>
PathRuns  == running = "path" /\ PathNext /\ UNCHANGED <<powerVars, running>>

\* Each runs as in PowerSpec and in PathSpec, which has the fairness.
RegulationSpec ==
  /\ RegulationInit /\ [][PowerRuns \/ PathRuns]_RegulationVars
  /\ WF_RegulationVars(PathRuns)
=============================================================================
