------------------------------ MODULE WidthPath ------------------------------
(***************************************************************************)
(* The width from the image to the alarm: nit_process_core_run averages    *)
(* what it measures and compares the average with the band.  Both halves   *)
(* of an iteration read their registers at its top.  Widths of WidthAlarm  *)
(* are the averages.                                                       *)
(***************************************************************************)
EXTENDS WidthAlarm, WidthBuffer

VARIABLE latched  \* the registers were read for the image that comes

pathVars == <<alarmVars, bufferVars, latched>>

PathInit == AlarmInit /\ BufferInit /\ latched = FALSE

PathRead(par, size) ==
  /\ ~ latched /\ latched' = TRUE
  /\ ReadAlarmParameters(par)
  /\ ReadBuffSize(size)

\* In a nap nothing is measured; the alarm looks at the W of before.
PathFrame(nap, laser, w, time) ==
  /\ latched /\ latched' = FALSE
  /\ IF nap THEN UNCHANGED bufferVars ELSE Average(w)
  /\ AlarmFrame(laser, averaged', time)

AnyPathFrame ==
  \E nap \in BOOLEAN, laser \in {0, 1}, w \in Measured, time \in AlarmTimes :
    PathFrame(nap, laser, w, time)

PathNext ==
  \/ \E par \in AlarmParameters, size \in BuffSizes : PathRead(par, size)
  \/ AnyPathFrame

\* The loop runs on.
PathSpec == PathInit /\ [][PathNext]_pathVars /\ WF_pathVars(PathNext)

-----------------------------------------------------------------------------
(***************************************************************************)
(* A fault that persists raises the alarm, and the alarm stays on with it: *)
(* naps, changes of the buffer's size and of the other registers do not    *)
(* put it off for ever, unless they end the fault or disable the alarm.    *)
(***************************************************************************)
PersistentFaultAlarms == <>[](badRun > 0) => <>[](alarm = 1)
=============================================================================
