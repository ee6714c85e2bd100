------------------------- MODULE ProcessCoreProofs -------------------------
(***************************************************************************)
(* The composed loop implements each of its parts, so that what is proved  *)
(* of a part holds in the composition; and what relates the parts: a nap   *)
(* does not make the loop regulate in the dark, and neither makes a track  *)
(* nor ends a process.                                                     *)
(***************************************************************************)
EXTENDS ProcessCore, AutoshutterProofs, ProcessAutomatonProofs, RegulationProofs, TLAPS

USE AutoshutterAssumption, AutomatonAssumption, CoreAssumption

\* The nap outlives its calibration by enough frames to sleep through the opening.
LongNap == NAP_DURATION >= CalibrationFrames + 3

\* Frames of nap left when the shutter opens, less the one that opens it.
AfterOpening == NAP_DURATION - CalibrationFrames - 1

(***************************************************************************)
(* A laser that is off, but was not seen off with no nap to blame, is off  *)
(* because of a nap that has not yet had a lit frame.                      *)
(***************************************************************************)
OffIsDark ==
  InternalLaser /\ LongNap /\ ~ offSeen /\ laser = 0 => measurementNap >= AfterOpening

(***************************************************************************)
(* A process that is stopping, without having lost its signal, is in a nap *)
(* and has counted no frame from before it; no delay keeps it from         *)
(* regulating again when the nap ends.                                     *)
(***************************************************************************)
StopsInNap ==
  InternalLaser /\ LongNap /\ estado = CONTROL /\ ~ lostSignal /\ stop > 0
    => /\ delay = 0
       /\ measurementNap > 0
       /\ stop <= NAP_DURATION - measurementNap
       /\ laser = 0 => measurementNap >= AfterOpening

\* The inductive invariant of the composition.
CoreInv ==
  /\ AutoshutterInv
  /\ AutomatonInv
  /\ width \in Widths
  /\ InternalLaser => external = 0
  /\ OffIsDark
  /\ StopsInNap

-----------------------------------------------------------------------------
\* Where a frame finds the nap and leaves it, and what a shutter closed by the loop tells.
LEMMA NapStep ==
  ASSUME AutoshutterInv, NEW s, NEW temp, AutoshutterFrame(s, temp)
  PROVE  /\ measurementNap \in 0 .. NAP_DURATION /\ NapAtTest \in 0 .. NAP_DURATION
         /\ measurementNap' = IF NapAtTest = 0 THEN 0 ELSE NapAtTest - 1
         /\ NapAtTest # measurementNap => measurementNap = 0 /\ NapAtTest = NAP_DURATION
         /\ DarkOfNap => measurementNap > 0 /\ measurementNap > AfterOpening
         /\ Measures <=> NapAtTest = 0
<1> USE CalibrationFramesNat
<1>1. /\ measurementNap \in 0 .. NAP_DURATION /\ NapAtTest \in 0 .. NAP_DURATION
      /\ NapAtTest # measurementNap => measurementNap = 0 /\ NapAtTest = NAP_DURATION
      /\ Measures <=> NapAtTest = 0
  BY DEF AutoshutterInv, AutoshutterTypeOK, NapAtTest, NapStarts, Measures
<1>2. measurementNap' = IF NapAtTest = 0 THEN 0 ELSE NapAtTest - 1
  BY <1>1 DEF AutoshutterFrame, AwakeFrame, NapFrame
<1>3. DarkOfNap => measurementNap > 0 /\ measurementNap > AfterOpening
  BY <1>1
     DEF DarkOfNap, AutoshutterInv, AutoshutterTypeOK, NapTimeline, LoopsCount,
         LoopsShutter, AfterOpening
<1>4. QED BY <1>1, <1>2, <1>3

LEMMA SeenIsPossible == ASSUME AutomatonTypeOK, NEW on \in LaserSeen
                        PROVE  on \in LaserOutcomes /\ on \in {0, 1}
<1>1. on \in LaserOutcomes
  <2>1. CASE shutter = 1
    <3>1. PICK input \in {0, 1} : on = LaserNow(DarkMoment, input)
      BY <2>1 DEF LaserSeen
    <3>2. DarkMoment \in Moments BY DEF CoreAssumption
    <3>3. QED BY <3>1, <3>2 DEF LaserOutcomes
  <2>2. CASE shutter # 1
    BY <2>2 DEF LaserSeen
  <2>3. QED BY <2>1, <2>2
<1>2. QED BY <1>1, LaserIsBinary

-----------------------------------------------------------------------------
\* A step of the composition is a step of the autoshutter.
LEMMA AutoshutterStep ==
  AutomatonInv' /\ [CoreNext]_coreVars => [AutoshutterNext]_autoshutterVars
<1> SUFFICES ASSUME AutomatonInv', [CoreNext]_coreVars PROVE [AutoshutterNext]_autoshutterVars
  OBVIOUS
<1>1. CASE CoreRead
  BY <1>1 DEF CoreRead, AutoshutterNext
<1>2. CASE AnyCoreFrame
  <2>1. estado' \in Estados
    BY DEF AutomatonInv, AutomatonTypeOK
  <2>2. QED BY <1>2, <2>1 DEF AnyCoreFrame, CoreFrame, AutoshutterNext, AnyAutoshutterFrame
<1>3. CASE Command
  BY <1>3 DEF Command, CoreWrite, ShutterCommand, AutoshutterNext
<1>4. CASE UNCHANGED coreVars
  BY <1>4 DEF coreVars
<1>5. QED BY <1>1, <1>2, <1>3, <1>4 DEF CoreNext

\* A step of the composition is a step of the automaton.
LEMMA AutomatonStep ==
  AutoshutterInv /\ AutomatonInv /\ [CoreNext]_coreVars => [AutomatonNext]_automatonVars
<1> SUFFICES ASSUME AutoshutterInv, AutomatonInv, [CoreNext]_coreVars
             PROVE  [AutomatonNext]_automatonVars
  OBVIOUS
<1>1. CASE CoreRead
  BY <1>1 DEF CoreRead, AutomatonNext
<1>2. CASE AnyCoreFrame
  <2>1. PICK on \in LaserSeen, temp \in Temps : /\ Frame(on, StillAsleep, ~ Measures)
                                               /\ AutoshutterFrame(estado', temp)
    BY <1>2 DEF AnyCoreFrame, CoreFrame
  <2>2. on \in LaserOutcomes
    BY SeenIsPossible DEF AutomatonInv
  <2>3. StillAsleep => ~ Measures
    <3>1. NapAtTest \in 0 .. NAP_DURATION
      BY <2>1, NapStep
    <3>2. QED BY <3>1 DEF StillAsleep, Measures
  <2>4. StillAsleep \in BOOLEAN /\ (~ Measures) \in BOOLEAN
    BY DEF StillAsleep, Measures
  <2>5. AutomatonFrame
    BY <2>1, <2>2, <2>3, <2>4, Zenon DEF AutomatonFrame
  <2>6. QED BY <2>5 DEF AutomatonNext
<1>3. CASE Command
  BY <1>3 DEF Command, CoreWrite, ShutterCommand, AutomatonNext
<1>4. CASE UNCHANGED coreVars
  BY <1>4 DEF coreVars
<1>5. QED BY <1>1, <1>2, <1>3, <1>4 DEF CoreNext

\* A step of the composition is a step of the alarm.
LEMMA AlarmStep ==
  width' \in Widths /\ AutomatonInv /\ [CoreNext]_coreVars => [AlarmNext]_alarmVars
<1> SUFFICES ASSUME width' \in Widths, AutomatonInv, [CoreNext]_coreVars
             PROVE  [AlarmNext]_alarmVars
  OBVIOUS
<1>1. CASE CoreRead
  BY <1>1 DEF CoreRead, AlarmNext
<1>2. CASE AnyCoreFrame
  BY <1>2, SeenIsPossible DEF AnyCoreFrame, CoreFrame, AlarmNext, AnyAlarmFrame, AutomatonInv
<1>3. CASE Command
  BY <1>3 DEF Command
<1>4. CASE UNCHANGED coreVars
  BY <1>4 DEF coreVars
<1>5. QED BY <1>1, <1>2, <1>3, <1>4 DEF CoreNext

\* A set or held power does not depend on the error, nor on a bias it ignores.
LEMMA PowerFrameIgnores ==
  /\ \A bias, e, reset : PowerFrame("set", bias, e, reset) => PowerFrame("set", bias, 0, reset)
  /\ \A bias, e : PowerFrame("hold", bias, e, FALSE) => PowerFrame("hold", 0, 0, FALSE)
BY DEF PowerFrame, Requested

\* A step of the composition is a step of the power regulator.
LEMMA PowerStepOf == AutomatonInv /\ [CoreNext]_coreVars => [PowerNext]_powerVars
<1> SUFFICES ASSUME AutomatonInv, [CoreNext]_coreVars PROVE [PowerNext]_powerVars
  OBVIOUS
<1>1. CASE CoreRead
  BY <1>1 DEF CoreRead, PowerNext
<1>2. CASE AnyCoreFrame
  <2>1. PICK on \in LaserSeen, bias \in Biases, e \in Errors : PowerStep(on, bias, e)
    BY <1>2 DEF AnyCoreFrame, CoreFrame
  <2> DEFINE command == PowerCommand(on, StillAsleep, ~ Measures)
             reset == estado = MIDIENDO /\ estado' = CONTROL
  <2>2. estado \in Estados
    BY DEF AutomatonInv, AutomatonTypeOK
  <2>3. \/ command \in {"manual", "preheat"}
        \/ command \in {"hold", "regulate"} /\ estado # MIDIENDO
    BY <2>2 DEF PowerCommand, Estados, MANUAL, IDLE, MIDIENDO, CONTROL, PREHEATING
  <2>4. CASE command \in {"manual", "preheat"}
    <3>1. PowerFrame("set", bias, e, reset)
      BY <2>1, <2>4 DEF PowerStep
    <3>2. PowerFrame("set", bias, 0, reset) /\ reset \in BOOLEAN
      BY <3>1, PowerFrameIgnores
    <3>3. QED BY <3>2 DEF PowerNext
  <2>5. CASE command \in {"hold", "regulate"} /\ estado # MIDIENDO
    <3>1. PowerFrame(command, bias, e, FALSE)
      BY <2>1, <2>5 DEF PowerStep
    <3>2. QED BY <2>5, <3>1, PowerFrameIgnores DEF PowerNext
  <2>6. QED BY <2>3, <2>4, <2>5
<1>3. CASE Command
  BY <1>3 DEF Command
<1>4. CASE UNCHANGED coreVars
  BY <1>4 DEF coreVars
<1>5. QED BY <1>1, <1>2, <1>3, <1>4 DEF CoreNext

-----------------------------------------------------------------------------
\* A frame keeps StopsInNap: the case analysis of CONTROL.
LEMMA ControlFrameStops ==
  ASSUME CoreInv, InternalLaser, LongNap,
         NEW on \in LaserSeen, NEW temp \in Temps,
         Frame(on, StillAsleep, ~ Measures), AutoshutterFrame(estado', temp),
         ControlFrame(on, StillAsleep, ~ Measures),
         NEW bias, NEW e, PowerStep(on, bias, e), Remember(on),
         ~ lostSignal', estado' = CONTROL, stop' > 0
  PROVE  /\ delay' = 0
         /\ measurementNap' > 0
         /\ stop' <= NAP_DURATION - measurementNap'
         /\ laser' = 0 => measurementNap' >= AfterOpening
<1> DEFINE d == DelayAfterCount(on, StillAsleep, ~ Measures)
<1>1. /\ on \in {0, 1} /\ laser \in {0, 1} /\ laser' = on
      /\ delay \in Nat /\ stop \in Nat /\ estado = CONTROL /\ external = 0
      /\ reg["DELAY_LASER_ON"] \in Nat
  BY SeenIsPossible, RegisterRanges
  DEF CoreInv, AutomatonInv, AutomatonTypeOK, Frame, ControlFrame
<1>2. /\ measurementNap \in 0 .. NAP_DURATION /\ NapAtTest \in 0 .. NAP_DURATION
      /\ measurementNap' = IF NapAtTest = 0 THEN 0 ELSE NapAtTest - 1
      /\ measurementNap > 0 => NapAtTest = measurementNap
      /\ DarkOfNap => measurementNap > AfterOpening
  BY NapStep DEF CoreInv
<1>3. shutter \in {0, 1} /\ AfterOpening \in Int /\ AfterOpening >= 2
  BY CalibrationFramesNat DEF CoreInv, AutoshutterInv, AutoshutterTypeOK, LongNap, AfterOpening
<1>4. d \in Nat /\ (d > 0 => delay > 0 \/ (on = 1 /\ laser = 0 /\ ~ StillAsleep))
  BY <1>1 DEF DelayAfterCount, DelayNow, Pulse
<1>5. CASE Delay(d)
  <2>1. PowerCommand(on, StillAsleep, ~ Measures) = "hold"
    BY <1>1, <1>5 DEF PowerCommand, Delay, MANUAL, IDLE, MIDIENDO, CONTROL, PREHEATING
  <2>2. ~ lostSignal /\ stop > 0
    BY <1>1, <1>5, <2>1 DEF Remember, PowerStep, PowerFrame, Delay
  <2>3. delay = 0 /\ measurementNap > 0 /\ (laser = 0 => measurementNap >= AfterOpening)
    BY <1>1, <2>2 DEF CoreInv, StopsInNap
  <2>4. laser = 0 /\ NapAtTest <= 1
    BY <1>2, <1>4, <1>5, <2>3 DEF Delay, StillAsleep
  <2>5. QED BY <1>2, <1>3, <2>3, <2>4
<1>6. CASE d <= 0 /\ delay' = d /\ (on = 0 \/ StillAsleep) /\ Halt
  <2>1. PowerCommand(on, StillAsleep, ~ Measures) = "hold"
    BY <1>1, <1>6 DEF PowerCommand, MANUAL, IDLE, MIDIENDO, CONTROL, PREHEATING
  <2>2. ~ lostSignal /\ (on = 0 => DarkOfNap)
    BY <1>1, <1>3, <2>1 DEF Remember, PowerStep, PowerFrame
  <2>3. NapAtTest > 1 /\ (on = 0 => NapAtTest > AfterOpening)
    BY <1>2, <1>3, <1>6, <2>2 DEF StillAsleep
  <2>4. stop' = stop + 1
    BY <1>1, <1>6 DEF Halt
  <2>5. stop <= NAP_DURATION - NapAtTest
    BY <1>1, <1>2, <2>2 DEF CoreInv, StopsInNap
  <2>6. QED BY <1>1, <1>2, <1>3, <1>4, <1>6, <2>3, <2>4, <2>5
<1>7. CASE Regulate
  BY <1>7 DEF Regulate
<1>8. QED BY <1>5, <1>6, <1>7 DEF ControlFrame

\* A frame keeps the invariant of the composition.
LEMMA CoreFrameInv ==
  ASSUME CoreInv, NEW on \in LaserSeen, NEW temp \in Temps, NEW w \in Widths,
         NEW bias \in Biases, NEW e \in Errors, NEW time \in AlarmTimes,
         CoreFrame(on, temp, w, bias, e, time),
         AutoshutterInv', AutomatonInv'
  PROVE  CoreInv'
<1>1. width' \in Widths /\ (InternalLaser => external' = 0)
  BY DEF CoreInv, CoreFrame, Frame
<1>2. /\ on \in {0, 1} /\ laser \in {0, 1} /\ laser' = on
      /\ measurementNap \in 0 .. NAP_DURATION /\ NapAtTest \in 0 .. NAP_DURATION
      /\ measurementNap' = IF NapAtTest = 0 THEN 0 ELSE NapAtTest - 1
      /\ measurementNap > 0 => NapAtTest = measurementNap
      /\ DarkOfNap => measurementNap > AfterOpening
      /\ AfterOpening \in Int /\ shutter \in {0, 1}
  BY SeenIsPossible, NapStep, CalibrationFramesNat
  DEF CoreInv, CoreFrame, Frame, AutomatonInv, AutomatonTypeOK, AutoshutterInv,
      AutoshutterTypeOK, AfterOpening
<1>3. OffIsDark'
  <2> SUFFICES ASSUME InternalLaser, LongNap, ~ offSeen', laser' = 0
               PROVE  measurementNap' >= AfterOpening
    BY DEF OffIsDark, LongNap, InternalLaser, AfterOpening, CalibrationFrames
  <2>1. DarkOfNap
    BY <1>2 DEF CoreFrame, Remember
  <2>2. AfterOpening >= 2
    BY CalibrationFramesNat DEF LongNap, AfterOpening
  <2>3. QED BY <1>2, <2>1, <2>2
<1>4. StopsInNap'
  <2> SUFFICES ASSUME InternalLaser, LongNap, estado' = CONTROL, ~ lostSignal', stop' > 0
               PROVE  /\ delay' = 0
                      /\ measurementNap' > 0
                      /\ stop' <= NAP_DURATION - measurementNap'
                      /\ laser' = 0 => measurementNap' >= AfterOpening
    BY DEF StopsInNap, LongNap, InternalLaser, AfterOpening, CalibrationFrames, CONTROL
  <2>1. CASE estado = CONTROL
    <3>1. ControlFrame(on, StillAsleep, ~ Measures)
      BY <2>1 DEF CoreFrame, Frame, ManualFrame, IdleFrame, PreheatingFrame, MeasuringFrame,
         MANUAL, IDLE, MIDIENDO, CONTROL, PREHEATING
    <3>2. QED BY <3>1, ControlFrameStops DEF CoreFrame
  <2>2. CASE estado # CONTROL
    <3>1. MeasuringFrame(on, StillAsleep, ~ Measures)
      BY <2>2 DEF CoreFrame, Frame, ManualFrame, IdleFrame, PreheatingFrame, ControlFrame,
         MANUAL, IDLE, MIDIENDO, CONTROL, PREHEATING
    <3>2. stop' = 0
      BY <3>1 DEF CoreInv, AutomatonInv, CleanStart, MeasuringFrame
    <3>3. QED BY <3>2
  <2>3. QED BY <2>1, <2>2
<1>5. QED BY <1>1, <1>3, <1>4 DEF CoreInv

LEMMA CoreInitInv == CoreInit => CoreInv
BY AutoshutterInitInv, AutomatonInitInv
DEF CoreInit, CoreInv, AutomatonInit, OffIsDark, StopsInNap, MANUAL, CONTROL

\* A write to the registers cannot switch to the external laser if none is connected.
LEMMA LaserStaysInternal ==
  ASSUME InternalLaser, Legal(reg) PROVE reg["LASER_EXTERAL_CONTROL"] = 0
BY DEF InternalLaser, Legal, Registers

LEMMA CoreNextInv == CoreInv /\ [CoreNext]_coreVars => CoreInv'
<1> SUFFICES ASSUME CoreInv, [CoreNext]_coreVars PROVE CoreInv'
  OBVIOUS
<1>1. AutomatonInv'
  BY AutomatonStep, AutomatonNextInv DEF CoreInv
<1>2. AutoshutterInv'
  BY <1>1, AutoshutterStep, AutoshutterNextInv DEF CoreInv
<1> USE DEF LongNap, InternalLaser, AfterOpening, CalibrationFrames
<1>3. CASE CoreRead
  <2>1. InternalLaser => external' = 0
    BY <1>3, LaserStaysInternal
       DEF CoreRead, ReadRegisters, CoreInv, AutomatonInv, AutomatonTypeOK
  <2>2. OffIsDark'
    BY <1>3 DEF CoreRead, ReadRegisters, ReadAutoConfig, coreHistory, CoreInv, OffIsDark
  <2>3. StopsInNap'
    BY <1>3 DEF CoreRead, ReadRegisters, FollowMode, ReadAutoConfig, coreHistory, CoreInv,
       StopsInNap, MANUAL, IDLE, CONTROL
  <2>4. QED BY <1>1, <1>2, <1>3, <2>1, <2>2, <2>3 DEF CoreRead, CoreInv
<1>4. CASE AnyCoreFrame
  BY <1>1, <1>2, <1>4, CoreFrameInv DEF AnyCoreFrame
<1>5. CASE Command
  BY <1>1, <1>2, <1>5
  DEF Command, CoreWrite, SomeWrite, WriteRegister, ShutterCommand, RequestNap,
      WriteOffsetUpdate, WriteShutter, autoshutterVars, automatonVars, loopVars,
      coreHistory, CoreInv, OffIsDark, StopsInNap
<1>6. CASE UNCHANGED coreVars
  BY <1>1, <1>2, <1>6
  DEF coreVars, autoshutterVars, automatonVars, loopVars, coreHistory, CoreInv, OffIsDark,
      StopsInNap
<1>7. QED BY <1>3, <1>4, <1>5, <1>6 DEF CoreNext

LEMMA CoreInvariant == CoreSpec => []CoreInv
BY CoreInitInv, CoreNextInv, PTL DEF CoreSpec

-----------------------------------------------------------------------------
\* The composed loop is, for each of its parts, that part.
THEOREM CoreImplementsParts == CoreSpec => ImplementsParts
<1>1. CoreInit => AutoshutterInit /\ AutomatonInit /\ PowerInit /\ AlarmInit
  BY DEF CoreInit
<1>2. CoreInv /\ CoreInv' /\ [CoreNext]_coreVars
        => /\ [AutoshutterNext]_autoshutterVars /\ [AutomatonNext]_automatonVars
           /\ [PowerNext]_powerVars /\ [AlarmNext]_alarmVars
  BY AutoshutterStep, AutomatonStep, PowerStepOf, AlarmStep DEF CoreInv
<1>3. QED
  BY <1>1, <1>2, CoreInvariant, PTL
  DEF CoreSpec, ImplementsParts, AutoshutterPart, AutomatonPart, PowerPart, AlarmPart

(***************************************************************************)
(* What was proved of the parts holds in the loop, where the commands, the *)
(* light and the order of the parts in a frame are those of the code.      *)
(*                                                                         *)
(* The shutter: with the commands writing it beside the loop, no frame     *)
(* measures through a shutter that the loop was the last to move and left  *)
(* closed; and unless a command has moved it meanwhile, the offset is      *)
(* updated in the dark and the shutter opens after a whole calibration     *)
(* (process_core.cpp:893, :915, :922).                                     *)
(***************************************************************************)
THEOREM LoopKeepsTheShutter ==
  CoreSpec => []NeverMeasureInTheDark /\ OffsetUpdateInTheDark /\ OpensAfterCalibration
<1>1. AutoshutterPart => []AutoshutterInv
  BY AutoshutterInitInv, AutoshutterNextInv, PTL DEF AutoshutterPart
<1>2. AutoshutterInv => NeverMeasureInTheDark
  BY DEF AutoshutterInv, AutoshutterTypeOK, NapTimeline, LoopsShutter, NeverMeasureInTheDark
<1>3. AutoshutterPart => OffsetUpdateInTheDark
  BY <1>1, OffsetStep, PTL DEF AutoshutterPart, OffsetUpdateInTheDark
<1>4. AutoshutterPart => OpensAfterCalibration
  BY <1>1, OpeningStep, PTL DEF AutoshutterPart, OpensAfterCalibration
<1>5. QED BY <1>1, <1>2, <1>3, <1>4, CoreImplementsParts, PTL DEF ImplementsParts

(***************************************************************************)
(* The automaton: MANUAL is mode 2, a process starts with every count of   *)
(* the one before gone and ends patiently, and an automeasured reference   *)
(* is the mean of something.                                               *)
(***************************************************************************)
THEOREM LoopKeepsTheAutomaton ==
  CoreSpec => /\ []ManualIffMode /\ NothingCarriedOver
              /\ ProcessEndsPatiently /\ ReferenceIsMeasured
<1>1. AutomatonPart => []AutomatonInv
  BY AutomatonInitInv, AutomatonNextInv, PTL DEF AutomatonPart
<1>2. AutomatonInv => ManualIffMode
  BY DEF AutomatonInv
<1>3. AutomatonPart => ProcessEndsPatiently
  BY <1>1, EndStep, PTL DEF AutomatonPart, ProcessEndsPatiently
<1>4. AutomatonPart => ReferenceIsMeasured
  BY <1>1, ReferenceStep, PTL DEF AutomatonPart, ReferenceIsMeasured
<1>5. AutomatonInv /\ [AutomatonNext]_automatonVars
        => [/\ estado # PREHEATING /\ estado' = PREHEATING => NoCounts' /\ preheat' = 0
            /\ estado # MIDIENDO /\ estado' = MIDIENDO
                 => NoCounts' /\ samples' = 0]_automatonVars
  BY StartStep
<1>6. AutomatonPart => NothingCarriedOver
  BY <1>1, <1>5, PTL DEF AutomatonPart, NothingCarriedOver
<1>7. QED BY <1>1, <1>2, <1>3, <1>4, <1>6, CoreImplementsParts, PTL DEF ImplementsParts

(***************************************************************************)
(* The regulator: whatever the automaton commands and whenever it resets   *)
(* the regulator, the power, its slew, its integral and its duty keep      *)
(* within their limits.                                                    *)
(***************************************************************************)
THEOREM LoopKeepsThePower ==
  CoreSpec => [](OutputWithinLimits /\ IntegralBounded /\ DutyOnScale) /\ SlewBounded
<1>1. PowerPart => PowerSpec
  BY DEF PowerPart, PowerSpec
<1>2. QED
  BY <1>1, CoreImplementsParts, PowerWithinLimits, PowerSlewBounded, PowerIntegralBounded,
     PowerDutyOnScale, PTL DEF ImplementsParts

(***************************************************************************)
(* The alarm: the countdown is exact, so that no glitch raises it, and its *)
(* output rises on a persistent fault only, with the width the naps leave. *)
(***************************************************************************)
THEOREM LoopKeepsTheAlarm ==
  CoreSpec => []CountdownExact /\ OutputRaisedByFault
<1>1. AlarmInv /\ [AlarmNext]_alarmVars => AlarmInv'
  <2> SUFFICES ASSUME AlarmInv, [AlarmNext]_alarmVars PROVE AlarmInv'
    OBVIOUS
  <2>1. CASE AnyAlarmFrame
    BY <2>1, AlarmFrameInv DEF AnyAlarmFrame
  <2>2. ASSUME NEW par \in AlarmParameters, ReadAlarmParameters(par) PROVE AlarmInv'
    BY <2>2, AlarmAssumption
       DEF ReadAlarmParameters, AlarmInv, AlarmTypeOK, CountdownExact, Truncated
  <2>3. CASE UNCHANGED alarmVars
    BY <2>3 DEF alarmVars, AlarmInv, AlarmTypeOK, CountdownExact, Truncated
  <2>4. QED BY <2>1, <2>2, <2>3 DEF AlarmNext
<1>2. AlarmPart => []AlarmInv
  BY <1>1, AlarmInitInv, PTL DEF AlarmPart
<1>3. AlarmInv => CountdownExact
  BY DEF AlarmInv
<1>4. ASSUME AlarmInv, AlarmInv', [AlarmNext]_alarmVars
      PROVE  [alarmOut' # alarmOut =>
                /\ alarmPar.enable = 1
                /\ alarmOut' = 1 => badRun' > Truncated(reloaded')]_alarmVars
  <2> SUFFICES ASSUME alarmOut' # alarmOut
               PROVE  /\ alarmPar.enable = 1
                      /\ alarmOut' = 1 => badRun' > Truncated(reloaded')
    OBVIOUS
  <2>1. AnyAlarmFrame
    BY <1>4 DEF AlarmNext, ReadAlarmParameters, alarmVars
  <2>2. QED BY <1>4, <2>1, OutputFollowsFrame DEF AnyAlarmFrame
<1>5. AlarmPart => OutputRaisedByFault
  BY <1>2, <1>4, PTL DEF AlarmPart, OutputRaisedByFault
<1>6. QED BY <1>2, <1>3, <1>5, CoreImplementsParts, PTL DEF ImplementsParts

(***************************************************************************)
(* A frame that regulates does not do so through a shutter that the loop   *)
(* has closed (process_core.cpp:893, :1069); that a command may have       *)
(* closed it is not excluded.                                              *)
(***************************************************************************)
THEOREM RegulatesInTheLight == CoreSpec => NeverRegulatesInTheDark
<1> DEFINE Step == half = "frame" /\ half' = "read" /\ lastFrame'.command = "regulate"
                     /\ mover' = "loop" => shutter' = 0
<1>1. CoreInv /\ CoreInv' /\ [CoreNext]_coreVars => [Step]_coreVars
  <2> SUFFICES ASSUME CoreInv, CoreInv', CoreNext, half = "frame", half' = "read",
                      lastFrame'.command = "regulate", mover' = "loop"
               PROVE  shutter' = 0
    BY DEF coreVars
  <2>1. PICK on \in LaserSeen, temp \in Temps, bias \in Biases, e \in Errors :
          AutoshutterFrame(estado', temp) /\ PowerStep(on, bias, e)
    BY DEF CoreNext, CoreRead, ReadRegisters, AnyCoreFrame, CoreFrame, Command, CoreWrite,
       ShutterCommand, SomeWrite, WriteRegister, automatonVars
  <2>2. PowerCommand(on, StillAsleep, ~ Measures) = "regulate"
    BY <2>1 DEF PowerStep, PowerFrame
  <2>3. ~ StillAsleep
    BY <2>2 DEF PowerCommand, CoreInv, AutomatonInv, AutomatonTypeOK, Estados,
       MANUAL, IDLE, MIDIENDO, CONTROL, PREHEATING
  <2>4. measurementNap' = 0
    BY <2>1, <2>3, NapStep DEF CoreInv, StillAsleep
  <2>5. QED BY <2>4, CalibrationFramesNat
        DEF CoreInv, AutoshutterInv, AutoshutterTypeOK, NapTimeline, LoopsShutter
<1>2. QED BY <1>1, CoreInvariant, PTL DEF CoreSpec, NeverRegulatesInTheDark

\* With a long enough nap, only a laser seen off can make the next track.
THEOREM TracksAreReal == CoreSpec => NapMakesNoTrack
<1> DEFINE Step == InternalLaser /\ NAP_DURATION >= CalibrationFrames + 3
                     /\ mode = Pulsed /\ track' > track => offSeen
<1>1. CoreInv /\ [CoreNext]_coreVars => [Step]_coreVars
  <2> SUFFICES ASSUME CoreInv, CoreNext, InternalLaser, LongNap, mode = Pulsed,
                      track' > track, ~ offSeen
               PROVE  FALSE
    BY DEF coreVars, LongNap
  <2>1. track \in Nat
    BY DEF CoreInv, AutomatonInv, AutomatonTypeOK
  <2>2. track' # track /\ track' # 0
    BY <2>1
  <2>3. PICK on \in LaserSeen, temp \in Temps : /\ Frame(on, StillAsleep, ~ Measures)
                                               /\ AutoshutterFrame(estado', temp)
    BY <2>2 DEF CoreNext, CoreRead, ReadRegisters, AnyCoreFrame, CoreFrame, Command, CoreWrite,
       ShutterCommand, SomeWrite, WriteRegister, automatonVars, loopVars
  <2>4. Pulse(on, StillAsleep)
    BY <2>2, <2>3 DEF Frame, ManualFrame, IdleFrame, ForgetTracks, PreheatingFrame,
       MeasuringFrame, ControlFrame, CountTrack, Pulsed, Timed
  <2>5. laser = 0 /\ ~ StillAsleep
    BY <2>4, SeenIsPossible DEF Pulse, CoreInv, AutomatonInv, AutomatonTypeOK
  <2>6. measurementNap >= AfterOpening /\ AfterOpening >= 2
    BY <2>5, CalibrationFramesNat DEF CoreInv, OffIsDark, LongNap, AfterOpening
  <2>7. QED BY <2>3, <2>5, <2>6, NapStep, CalibrationFramesNat
        DEF CoreInv, StillAsleep, AfterOpening
<1>2. QED BY <1>1, CoreInvariant, PTL DEF CoreSpec, NapMakesNoTrack

\* With an END_OF_PROCESS that outlasts the nap, only a lost laser ends a process.
THEOREM NapsEndNothing == CoreSpec => NapSparesProcess
<1> DEFINE Step == InternalLaser /\ EndOutlastsNap /\ NAP_DURATION >= CalibrationFrames + 3
                     /\ half = "frame" /\ estado = CONTROL /\ estado' = IDLE => lostSignal'
<1>1. CoreInv /\ [CoreNext]_coreVars => [Step]_coreVars
  <2> SUFFICES ASSUME CoreInv, CoreNext, InternalLaser, EndOutlastsNap, LongNap,
                      half = "frame", estado = CONTROL, estado' = IDLE, ~ lostSignal'
               PROVE  FALSE
    BY DEF coreVars, LongNap
  <2>1. PICK on \in LaserSeen, temp \in Temps, bias \in Biases, e \in Errors :
          /\ Frame(on, StillAsleep, ~ Measures) /\ AutoshutterFrame(estado', temp)
          /\ PowerStep(on, bias, e) /\ Remember(on)
    BY DEF CoreNext, CoreRead, ReadRegisters, AnyCoreFrame, CoreFrame, Command, CoreWrite,
       ShutterCommand, SomeWrite, WriteRegister, automatonVars, loopVars, CONTROL, IDLE
  <2>2. ControlFrame(on, StillAsleep, ~ Measures)
    BY <2>1 DEF Frame, ManualFrame, IdleFrame, PreheatingFrame, MeasuringFrame,
       MANUAL, IDLE, MIDIENDO, CONTROL, PREHEATING
  <2>3. Finished /\ (on = 0 \/ StillAsleep)
    BY <2>2 DEF ControlFrame, Delay, Halt, Regulate, CONTROL, IDLE
  <2>4. PowerCommand(on, StillAsleep, ~ Measures) = "hold"
    BY <2>3 DEF PowerCommand, MANUAL, IDLE, MIDIENDO, CONTROL, PREHEATING
  <2>5. ~ lostSignal /\ (on = 0 => DarkOfNap)
    BY <2>1, <2>4 DEF Remember, PowerStep, PowerFrame
  <2>6. /\ stop \in Nat /\ reg["END_OF_PROCESS"] \in Nat /\ stop > reg["END_OF_PROCESS"]
        /\ reg["END_OF_PROCESS"] >= NAP_DURATION - 2 /\ on \in {0, 1}
    BY <2>3, RegisterRanges, SeenIsPossible
    DEF CoreInv, AutomatonInv, AutomatonTypeOK, Finished, EndOutlastsNap, Legal, Registers
  <2>7. /\ measurementNap > 0
        /\ stop <= NAP_DURATION - measurementNap
        /\ measurementNap \in 0 .. NAP_DURATION
        /\ NapAtTest = measurementNap
        /\ DarkOfNap => measurementNap > AfterOpening
    BY <2>1, <2>5, <2>6, NapStep DEF CoreInv, StopsInNap
  <2>8. measurementNap >= 2
    BY <2>3, <2>5, <2>6, <2>7, CalibrationFramesNat
    DEF CoreInv, AutoshutterInv, AutoshutterTypeOK, StillAsleep, AfterOpening, LongNap
  <2>9. QED BY <2>6, <2>7, <2>8
<1>2. QED BY <1>1, CoreInvariant, PTL DEF CoreSpec, NapSparesProcess
=============================================================================
