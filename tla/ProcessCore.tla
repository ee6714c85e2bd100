---------------------------- MODULE ProcessCore ----------------------------
(***************************************************************************)
(* One iteration of the process loop (nit_process_core_run), composed from *)
(* its parts: the frame is at once a frame of the autoshutter, of the      *)
(* automaton, of the power regulator and of the width alarm, in the order  *)
(* of the code.  Commands write registers between the halves of it, the    *)
(* shutter and the offset update among them.                               *)
(*                                                                         *)
(* The light is the environment's: through a closed shutter the camera     *)
(* sees DarkMoment, which is below both laser thresholds.                  *)
(***************************************************************************)
EXTENDS Autoshutter, ProcessAutomaton, PowerControl, WidthAlarm

CONSTANT DarkMoment

ASSUME CoreAssumption ==
  /\ DarkMoment \in Moments
  /\ 0 \in Widths /\ AlarmParameters # {} /\ Parameters # {}

VARIABLES
  width,       \* W, the averaged width
  offSeen,     \* history: the laser was seen off, and not because a nap had the
               \* shutter closed, since the last measured frame that saw it on
  lostSignal   \* history: likewise since the last frame that regulated

coreHistory == <<offSeen, lostSignal>>
coreVars == <<autoshutterVars, automatonVars, powerVars, alarmVars, width, coreHistory>>

CoreTypeOK ==
  /\ AutoshutterTypeOK /\ AutomatonTypeOK /\ PowerTypeOK /\ AlarmTypeOK
  /\ width \in Widths
  /\ offSeen \in BOOLEAN /\ lostSignal \in BOOLEAN

CoreInit ==
  /\ AutoshutterInit /\ AutomatonInit /\ PowerInit /\ AlarmInit
  /\ width = 0
  /\ offSeen = TRUE /\ lostSignal = TRUE

-----------------------------------------------------------------------------
\* The nap as the automaton meets it, after the counters have gone down.
StillAsleep_BeforeRequest == measurementNap > 1
StillAsleep               == NapAtTest > 1

\* What the automaton asks, as a command of the regulator.
PowerStep(on, bias, e) ==
  LET command == PowerCommand(on, StillAsleep, ~ Measures)
  IN  PowerFrame(IF command \in {"manual", "preheat"} THEN "set" ELSE command,
                 bias, e, estado = MIDIENDO /\ estado' = CONTROL)

\* laser_status for an image taken with the shutter as the last frame left it.
LaserSeen == IF shutter = 1 THEN {LaserNow(DarkMoment, input) : input \in {0, 1}}
             ELSE LaserOutcomes

\* The loop itself has the shutter closed, and no command has moved it since.
DarkOfNap == shutter = 1 /\ mover = "loop"

Remember(on) ==
  /\ offSeen' = IF ~ DarkOfNap /\ on = 0 THEN TRUE
                ELSE IF Measures /\ on = 1 THEN FALSE ELSE offSeen
  /\ lostSignal' = IF lastFrame'.command = "regulate" THEN FALSE
                   ELSE IF estado # CONTROL THEN FALSE
                   ELSE lostSignal \/ (~ DarkOfNap /\ on = 0)

(***************************************************************************)
(* bias is POWER_MAN or PREHEATING_POWER, e is width_ref - W, w the width  *)
(* a measuring frame would find, time is ALARM_TIME.                       *)
(***************************************************************************)
CoreFrame(on, temp, w, bias, e, time) ==
  /\ Frame(on, StillAsleep, ~ Measures)
  /\ AutoshutterFrame(estado', temp)
  /\ width' = IF Measures THEN w ELSE width
  /\ PowerStep(on, bias, e)
  /\ AlarmFrame(on, width', time)
  /\ Remember(on)

AnyCoreFrame ==
  \E on \in LaserSeen, temp \in Temps, w \in Widths, bias \in Biases,
     e \in Errors, time \in AlarmTimes : CoreFrame(on, temp, w, bias, e, time)

\* The top of the loop reads every register it keeps a copy of.
CoreRead ==
  /\ ReadRegisters
  /\ \E c \in AutoConfigs : ReadAutoConfig(c)
  /\ \E par \in Parameters : ReadPowerParameters(par)
  /\ \E par \in AlarmParameters : ReadAlarmParameters(par)
  /\ UNCHANGED <<width, coreHistory>>

\* A slip: a command that means to wake the loop up.
CoreWrite_CancelsNap ==
  /\ SomeWrite
  /\ measurementNap' = 0
  /\ UNCHANGED <<autoShutter, shutter, offsetUpdate, napping, controlNap, calibration,
                 since, pending, temperature, lastTemperature, autoConfig, dark, mover>>

\* What the commands write of the autoshutter's registers.
ShutterCommand ==
  \E v \in {0, 1} : \/ RequestNap(v)
                   \/ WriteOffsetUpdate(v)
                   \/ \E c \in Clients : WriteShutter(c, v)

CoreWrite ==
  \/ SomeWrite /\ UNCHANGED autoshutterVars
  \/ ShutterCommand /\ UNCHANGED automatonVars

Command == CoreWrite /\ UNCHANGED <<powerVars, alarmVars, width, coreHistory>>

CoreNext == CoreRead \/ AnyCoreFrame \/ Command

CoreSpec == CoreInit /\ [][CoreNext]_coreVars /\ WF_coreVars(CoreRead \/ AnyCoreFrame)

-----------------------------------------------------------------------------
\* What the composed loop promises each of its parts: that part's own steps.
AutoshutterPart == AutoshutterInit /\ [][AutoshutterNext]_autoshutterVars
AutomatonPart   == AutomatonInit /\ [][AutomatonNext]_automatonVars
PowerPart       == PowerInit /\ [][PowerNext]_powerVars
AlarmPart       == AlarmInit /\ [][AlarmNext]_alarmVars

(***************************************************************************)
(* The composed loop implements each component as specified on its own.    *)
(***************************************************************************)
ImplementsParts == AutoshutterPart /\ AutomatonPart /\ PowerPart /\ AlarmPart

(***************************************************************************)
(* No nap makes the loop regulate on darkness: in a frame that computes    *)
(* the power from the width the shutter is not one the loop has closed,    *)
(* whatever naps were requested and when.  The loop never asks where the   *)
(* shutter is: one that a command has closed (clamir_service.cpp:101, 868, *)
(* route 0x0505) it regulates through, if the laser is signalled from      *)
(* outside.  (The width may be the one from before the nap:                *)
(* process_core.cpp:1071 looks at control_NAP after counting it.)          *)
(***************************************************************************)
NeverRegulatesInTheDark ==
  [][half = "frame" /\ half' = "read" /\ lastFrame'.command = "regulate" /\ mover' = "loop"
       => shutter' = 0]_coreVars

(***************************************************************************)
(* A nap makes no track.  The closing shutter looks like the laser going   *)
(* off and its opening like a pulse; with the nap three frames longer than *)
(* its calibration the loop sleeps through both, and in pulsed mode counts *)
(* a track only after the laser looked off with no nap to blame (through   *)
(* an open shutter, or one that a command has moved).                      *)
(***************************************************************************)
InternalLaser == RegisterValues["LASER_EXTERAL_CONTROL"] = {0}

NapMakesNoTrack ==
  [][InternalLaser /\ NAP_DURATION >= CalibrationFrames + 3
       /\ mode = Pulsed /\ track' > track => offSeen]_coreVars

(***************************************************************************)
(* A nap does not end a process.  Its frames count as images without       *)
(* signal, but with END_OF_PROCESS no less than the nap's frames less two, *)
(* CONTROL goes to IDLE only if the laser was lost with no nap to blame.   *)
(***************************************************************************)
EndOutlastsNap ==
  \A n \in RegisterValues["END_OF_PROCESS"] : n >= NAP_DURATION - 2

NapSparesProcess ==
  [][InternalLaser /\ EndOutlastsNap /\ NAP_DURATION >= CalibrationFrames + 3
       /\ half = "frame" /\ estado = CONTROL /\ estado' = IDLE
     => lostSignal']_coreVars

(***************************************************************************)
(* What TODO.md:61 says of the tracks of a pulsed measurement, "If Laser   *)
(* is On and measurement is not sleeping": a track is counted only awake.  *)
(***************************************************************************)
TracksCountedAwake ==
  [][estado = MIDIENDO /\ mode = Pulsed /\ track' > track => measurementNap' = 0]_coreVars
=============================================================================
