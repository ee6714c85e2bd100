----------------------------- MODULE WidthAlarm -----------------------------
(***************************************************************************)
(* The width alarm of the process loop (nit_process_core_run): with the    *)
(* alarm enabled and the laser on, a width outside the band raises the     *)
(* alarm once the countdown cnt_aux_alarm, reloaded with ALARM_TIME on     *)
(* every good frame, is spent.  The alarm is shown on DIGITAL_OUT_0.       *)
(***************************************************************************)
EXTENDS Integers

CONSTANTS
  AlarmParameters,  \* what ENABLE_ALARM, ALARM_MAX and ALARM_MIN can hold
  AlarmTimes,       \* values of the register ALARM_TIME
  Widths,           \* values of the averaged width W
  CounterSize,      \* 2^16: cnt_aux_alarm is a uint16_t
  MaxRun            \* bound: the history counter badRun saturates here

AlarmRecords == [enable : Int, max : Int, min : Int]

ASSUME AlarmAssumption ==
  /\ AlarmParameters \subseteq AlarmRecords
  /\ AlarmTimes \subseteq Int /\ AlarmTimes # {}
  /\ Widths \subseteq Int
  /\ CounterSize \in Nat \ {0}
  /\ MaxRun \in Nat /\ CounterSize <= MaxRun

VARIABLES
  alarm,       \* alarm
  alarmCount,  \* cnt_aux_alarm
  alarmOut,    \* mb_core_shm[DIGITAL_OUT_0]
  alarmPar,    \* alarm_enable, alarm_max, alarm_min, as last read
  badRun,      \* history: bad frames in a row
  reloaded     \* history: ALARM_TIME at the last reload of the countdown

alarmVars == <<alarm, alarmCount, alarmOut, alarmPar, badRun, reloaded>>

AlarmTypeOK ==
  /\ alarm \in {0, 1}
  /\ alarmCount \in 0 .. CounterSize - 1
  /\ alarmOut \in {0, 1}
  /\ alarmPar \in AlarmRecords
  /\ badRun \in 0 .. MaxRun
  /\ reloaded \in Int

Truncated(t) == t % CounterSize

AlarmInit ==
  /\ alarm = 0
  /\ reloaded \in AlarmTimes
  /\ alarmCount = Truncated(reloaded)
  /\ alarmOut \in {0, 1}
  /\ alarmPar \in AlarmParameters
  /\ badRun = 0

-----------------------------------------------------------------------------
OutOfBand(w) == w > alarmPar.max \/ w < alarmPar.min

Bad(laser, w) == alarmPar.enable = 1 /\ laser # 0 /\ OutOfBand(w)

\* Definitions named X_Slip are slips a change of the code could make in X.
CountDown_Once ==
  /\ alarmCount' = IF alarmCount > 0 THEN alarmCount - 1 ELSE 0
  /\ alarm' = IF alarmCount > 1 THEN 0 ELSE 1

CountDown_Wraps ==
  alarmCount' = (alarmCount + CounterSize - 1) % CounterSize /\ alarm' = 0

CountDown ==
  IF alarmCount > 0
  THEN alarmCount' = alarmCount - 1 /\ alarm' = 0
  ELSE alarm' = 1 /\ UNCHANGED alarmCount

Reload(time) == alarmCount' = Truncated(time) /\ alarm' = 0

\* A disabled alarm leaves the output alone.
ShownAlarm_Always == alarm'
ShownAlarm        == IF alarmPar.enable = 1 THEN alarm' ELSE alarmOut

AlarmFrame(laser, w, time) ==
  /\ IF Bad(laser, w)
     THEN /\ CountDown
          /\ badRun' = IF badRun < MaxRun THEN badRun + 1 ELSE MaxRun
          /\ UNCHANGED reloaded
     ELSE /\ Reload(time)
          /\ badRun' = 0
          /\ reloaded' = time
  /\ alarmOut' = ShownAlarm
  /\ UNCHANGED alarmPar

\* The registers are read at the top of the iteration, before the loop sleeps.
ReadAlarmParameters(par) ==
  /\ alarmPar' = par
  /\ UNCHANGED <<alarm, alarmCount, alarmOut, badRun, reloaded>>

AnyAlarmFrame ==
  \E laser \in {0, 1}, w \in Widths, time \in AlarmTimes : AlarmFrame(laser, w, time)

AlarmNext ==
  \/ AnyAlarmFrame
  \/ \E par \in AlarmParameters : ReadAlarmParameters(par)

-----------------------------------------------------------------------------
(***************************************************************************)
(* The countdown is exact: it has as many frames left as the last reload   *)
(* gave it less the bad frames since, and the alarm is on exactly when     *)
(* there were more bad frames in a row than that (so a glitch of fewer     *)
(* frames than ALARM_TIME, if that fits the counter, raises no alarm).     *)
(***************************************************************************)
CountdownExact ==
  LET given == Truncated(reloaded)
  IN  /\ alarmCount = IF badRun < given THEN given - badRun ELSE 0
      /\ alarm = 1 <=> badRun > given

(***************************************************************************)
(* The output is never raised on its own: it goes to 1 only in a frame     *)
(* that finds a persistent fault, and while ENABLE_ALARM is not 1 it keeps *)
(* the value it had (an alarm disabled while it is shown stays shown).     *)
(***************************************************************************)
OutputRaisedByFault ==
  [][alarmOut' # alarmOut =>
       /\ alarmPar.enable = 1
       /\ alarmOut' = 1 => badRun' > Truncated(reloaded')]_alarmVars
=============================================================================
