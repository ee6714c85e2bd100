---------------------------- MODULE Autoshutter ----------------------------
(***************************************************************************)
(* The autoshutter of the process loop (nit_process_core_run): on a        *)
(* request the loop closes the shutter and "naps" (siesta) for             *)
(* NAP_DURATION frames.  During the nap the width is frozen, the FPGA is   *)
(* told to take a new dark offset, and the shutter opens again.  Requests  *)
(* come from an operator (register AUTO_SHUTTER) or from the loop itself,  *)
(* which watches a frame counter or the drift of the temperature.          *)
(*                                                                         *)
(* One AutoshutterFrame is one iteration of the loop, restricted to the    *)
(* variables below; ProcessCore composes it with the rest of the frame.    *)
(*                                                                         *)
(* The loop is not alone: the commands that calibrate the sensor and the   *)
(* routes 0x0504 and 0x0505 write the shutter and the offset update too,   *)
(* between any two frames.  WriteShutter and WriteOffsetUpdate are those   *)
(* writes with their order left open; SensorCalibration puts them in the   *)
(* order of the handlers.  What the loop promises of the shutter it        *)
(* promises of what it has moved itself: mover remembers who wrote last.   *)
(***************************************************************************)
EXTENDS Integers, ProcessStates

CONSTANTS
  NAP_DURATION,            \* frames a nap lasts (750)
  WAIT_START_CALIBRATION,  \* frames in the dark before the offset update (150)
  WAIT_STOP_CALIBRATION,   \* frames given to the offset update (100)
  WAIT_SECOND_APERTURE,    \* further frames before the shutter opens (400)
  Temps,                   \* temperatures the metadata can carry
  AutoConfigs,             \* what AUTOSHUTTER_CONFIG and the two targets can hold
  Clients,                 \* the threads that run commands
  MaxSince                 \* bound: the frame counter saturates here

\* What cont_calibration counts down from.
CalibrationFrames ==
  WAIT_START_CALIBRATION + 1 + WAIT_STOP_CALIBRATION + WAIT_SECOND_APERTURE

\* The flags; AUTOSHUTTER_TIMER * 10000, in frames; AUTOSHUTTER_TEMP / 10.
AutoConfigRecords ==
  [enable : {0, 1}, inProcess : {0, 1}, byTime : {0, 1}, timeTarget : Nat, tempTarget : Nat]

(***************************************************************************)
(* The code's 750 exceeds its 651 by 99: a nap outlives its calibration.   *)
(***************************************************************************)
ASSUME AutoshutterAssumption ==
  /\ NAP_DURATION \in Nat
  /\ WAIT_START_CALIBRATION \in Nat
  /\ WAIT_STOP_CALIBRATION \in Nat
  /\ WAIT_SECOND_APERTURE \in Nat
  /\ CalibrationFrames < NAP_DURATION
  /\ Temps \subseteq Int /\ 0 \in Temps
  /\ AutoConfigs \subseteq AutoConfigRecords
  /\ MaxSince \in Nat
  /\ \A c \in AutoConfigs : c.timeTarget < MaxSince
  /\ "loop" \notin Clients

VARIABLES
  autoShutter,     \* proc_var_shm[AUTO_SHUTTER]
  shutter,         \* control_unit_shm[NIT_SHUTTER]: 1 is closed
  offsetUpdate,    \* control_unit_shm[NIT_OFFSET_UPDATE]
  napping,         \* mb_core_shm[DIGITAL_OUT_3]: the nap seen from outside
  measurementNap,  \* measurement_NAP
  controlNap,      \* control_NAP
  calibration,     \* cont_calibration
  since,           \* cnt_last_autoshutter
  pending,         \* pending_autoshutter
  temperature,     \* current_temperature, as read in the last frame
  lastTemperature, \* temperature_last_autoshutter
  autoConfig,      \* the decoded autoshutter_config and its two targets
  dark,            \* history: frames in a row that ended with the shutter closed,
                   \* which saturates at the bound NAP_DURATION
  mover            \* history: who wrote the shutter last, the loop or a client

autoshutterVars ==
  <<autoShutter, shutter, offsetUpdate, napping, measurementNap, controlNap,
    calibration, since, pending, temperature, lastTemperature, autoConfig, dark, mover>>

AutoshutterTypeOK ==
  /\ autoShutter \in {0, 1}
  /\ shutter \in {0, 1}
  /\ offsetUpdate \in {0, 1}
  /\ napping \in {0, 1}
  /\ measurementNap \in 0 .. NAP_DURATION
  /\ controlNap \in Int
  /\ calibration \in Int
  /\ since \in 0 .. MaxSince
  /\ pending \in {0, 1}
  /\ temperature \in Temps
  /\ lastTemperature \in Temps
  /\ autoConfig \in AutoConfigs
  /\ dark \in 0 .. NAP_DURATION
  /\ mover \in Clients \cup {"loop"}

(***************************************************************************)
(* current_temperature is zeroed memory until the first frame ends, while  *)
(* temperature_last_autoshutter is read from the metadata at the start.    *)
(***************************************************************************)
AutoshutterInit ==
  /\ autoShutter \in {0, 1}
  /\ shutter = 0
  /\ offsetUpdate \in {0, 1}
  /\ napping = 0
  /\ measurementNap = 0
  /\ controlNap = 0
  /\ calibration = 0
  /\ since = 0
  /\ pending = 0
  /\ temperature = 0
  /\ lastTemperature \in Temps
  /\ autoConfig \in AutoConfigs
  /\ dark = 0
  /\ mover = "loop"

-----------------------------------------------------------------------------
\* Definitions named X_Slip are slips a change of the code could make in X.
NapStarts_Restarts       == autoShutter # 0
\* A request is taken in any frame, but only starts a nap when awake.
NapStarts == autoShutter # 0 /\ measurementNap = 0

NapAtTest_TooShort       == IF NapStarts THEN CalibrationFrames ELSE measurementNap
ControlNapAtTest_Kept    == controlNap
CalibrationAtTest_NoWait ==
  IF NapStarts THEN 1 + WAIT_STOP_CALIBRATION + WAIT_SECOND_APERTURE ELSE calibration

\* measurement_NAP at the test that separates a measuring frame from a nap.
NapAtTest         == IF NapStarts THEN NAP_DURATION ELSE measurementNap
ControlNapAtTest  == IF NapStarts THEN NAP_DURATION ELSE controlNap
CalibrationAtTest == IF NapStarts THEN CalibrationFrames ELSE calibration

\* This frame measures a new width; otherwise the last one stays.
Measures == NapAtTest = 0

CalibrationSpent_Early == CalibrationAtTest <= WAIT_SECOND_APERTURE
CalibrationSpent       == CalibrationAtTest <= 0

(***************************************************************************)
(* One frame of the siesta: open the shutter once the calibration count is *)
(* spent, or ask for the offset update when the dark wait is over.         *)
(***************************************************************************)
NapFrame ==
  LET closed == IF NapStarts THEN 1 ELSE shutter
      opens  == CalibrationSpent /\ closed # 0
  IN  /\ napping' = 1
      /\ shutter' = IF opens THEN 0 ELSE closed
      /\ offsetUpdate' =
           IF /\ ~ opens
              /\ CalibrationAtTest = 1 + WAIT_STOP_CALIBRATION + WAIT_SECOND_APERTURE
           THEN 1 ELSE offsetUpdate
      /\ calibration' = CalibrationAtTest - 1
      /\ measurementNap' = NapAtTest - 1
      /\ controlNap' = ControlNapAtTest - 1

AwakeFrame_CountsNap ==
  /\ napping' = 0
  /\ measurementNap' = measurementNap - 1
  /\ controlNap' = controlNap - 1
  /\ UNCHANGED <<shutter, offsetUpdate, calibration>>

AwakeFrame ==
  /\ napping' = 0
  /\ UNCHANGED <<shutter, offsetUpdate, calibration, measurementNap, controlNap>>

MayRequest_OutOfProcess(estado) == autoConfig.enable = 1 /\ estado \in {MANUAL, IDLE}

\* The states in which the loop may request a nap of its own.
MayRequest(estado) ==
  /\ autoConfig.enable = 1
  /\ \/ estado \in {MANUAL, IDLE}
     \/ estado \in {MIDIENDO, CONTROL} /\ autoConfig.inProcess = 1

Drift(t, u) == IF t < u THEN u - t ELSE t - u

(***************************************************************************)
(* The end of the frame: count, compare with the target, and request a     *)
(* nap if one is pending and the state of the automaton allows it.         *)
(***************************************************************************)
Trigger(estado, temp) ==
  LET counted  == IF NapStarts THEN 0 ELSE since
      count    == IF counted < MaxSince THEN counted + 1 ELSE MaxSince
      lastTemp == IF NapStarts THEN temperature ELSE lastTemperature
      due      == IF autoConfig.byTime = 1
                  THEN autoConfig.timeTarget < count
                  ELSE autoConfig.tempTarget < Drift(lastTemp, temp)
      waiting  == IF due THEN 1 ELSE pending
      requests == waiting = 1 /\ MayRequest(estado)
  IN  /\ temperature' = temp
      /\ since' = IF due THEN 0 ELSE count
      /\ lastTemperature' = IF due /\ autoConfig.byTime = 0 THEN temp ELSE lastTemp
      /\ pending' = IF requests THEN 0 ELSE waiting
      /\ autoShutter' = IF requests THEN 1 ELSE 0

\* The history of the shutter at the end of a frame.
ObserveShutter ==
  /\ dark' = IF shutter' = 0 THEN 0 ELSE IF dark < NAP_DURATION THEN dark + 1 ELSE dark
  /\ mover' = IF NapStarts \/ shutter' # shutter THEN "loop" ELSE mover

\* One iteration of the loop; estado is the state the automaton leaves it in.
AutoshutterFrame(estado, temp) ==
  /\ IF Measures THEN AwakeFrame ELSE NapFrame
  /\ Trigger(estado, temp)
  /\ ObserveShutter
  /\ UNCHANGED autoConfig

\* The loop reads AUTOSHUTTER_CONFIG and the two targets before it sleeps.
ReadAutoConfig(c) ==
  /\ autoConfig' = c
  /\ UNCHANGED <<autoShutter, shutter, offsetUpdate, napping, measurementNap,
                 controlNap, calibration, since, pending, temperature,
                 lastTemperature, dark, mover>>

\* An operator's command writes AUTO_SHUTTER.
RequestNap(v) ==
  /\ autoShutter' = v
  /\ UNCHANGED <<shutter, offsetUpdate, napping, measurementNap, controlNap,
                 calibration, since, pending, temperature, lastTemperature,
                 autoConfig, dark, mover>>

\* A command of client c moves the shutter: a calibration, or route 0x0505.
WriteShutter(c, v) ==
  /\ shutter' = v
  /\ dark' = IF v = 0 THEN 0 ELSE dark
  /\ mover' = c
  /\ UNCHANGED <<autoShutter, offsetUpdate, napping, measurementNap, controlNap,
                 calibration, since, pending, temperature, lastTemperature, autoConfig>>

(***************************************************************************)
(* A command writes the offset update: a calibration, or route 0x0504.     *)
(* Only commands take it back to 0; the loop never does.                   *)
(***************************************************************************)
WriteOffsetUpdate(v) ==
  /\ offsetUpdate' = v
  /\ UNCHANGED <<autoShutter, shutter, napping, measurementNap, controlNap,
                 calibration, since, pending, temperature, lastTemperature,
                 autoConfig, dark, mover>>

AnyAutoshutterFrame == \E estado \in Estados, temp \in Temps : AutoshutterFrame(estado, temp)

AutoshutterNext ==
  \/ AnyAutoshutterFrame
  \/ \E c \in AutoConfigs : ReadAutoConfig(c)
  \/ \E v \in {0, 1} : \/ RequestNap(v)
                        \/ WriteOffsetUpdate(v)
                        \/ \E c \in Clients : WriteShutter(c, v)

\* The loop runs until the shutdown; nothing obliges an operator to act.
AutoshutterSpec ==
  AutoshutterInit /\ [][AutoshutterNext]_autoshutterVars
                  /\ WF_autoshutterVars(AnyAutoshutterFrame)

-----------------------------------------------------------------------------
(***************************************************************************)
(* The two naps and the calibration count run in step whatever commands    *)
(* do, and unless a command has moved the shutter since, it is closed      *)
(* exactly while the count has not run out: the invariant the other        *)
(* safety properties follow from.                                          *)
(***************************************************************************)
LoopsCount ==
  /\ controlNap = measurementNap
  /\ measurementNap > 0 =>
       calibration = measurementNap - (NAP_DURATION - CalibrationFrames)
  /\ measurementNap < NAP_DURATION

LoopsShutter ==
  mover = "loop" =>
    /\ shutter = 1 <=> measurementNap > 0 /\ calibration >= 0
    /\ shutter = 1 => dark >= NAP_DURATION - measurementNap

NapTimeline == LoopsCount /\ LoopsShutter

(***************************************************************************)
(* The loop measures no frame through a shutter it has closed itself:      *)
(* whenever it is awake (the branch of process_core.cpp:893) it has opened *)
(* that one again, or a command has moved it since.  A shutter a command   *)
(* has closed it does measure through: it never looks (:893).              *)
(***************************************************************************)
NeverMeasureInTheDark == measurementNap = 0 /\ shutter = 1 => mover # "loop"

(***************************************************************************)
(* The loop updates the offset on frames taken in the dark: when it raises *)
(* NIT_OFFSET_UPDATE, and no command has moved the shutter since the nap   *)
(* began, the shutter has been closed for at least WAIT_START_CALIBRATION  *)
(* frames in a row and stays closed in this one.                           *)
(***************************************************************************)
OffsetUpdateInTheDark ==
  [][offsetUpdate = 0 /\ offsetUpdate' = 1 /\ mover' = "loop" /\ AnyAutoshutterFrame
       => dark >= WAIT_START_CALIBRATION /\ shutter' = 1]_autoshutterVars

(***************************************************************************)
(* A nap never gives the light back early: when the loop opens a shutter   *)
(* it has closed itself, a whole calibration has passed in the dark, so    *)
(* WAIT_STOP_CALIBRATION + WAIT_SECOND_APERTURE frames since it asked for  *)
(* the offset update.                                                      *)
(***************************************************************************)
OpensAfterCalibration ==
  [][shutter = 1 /\ shutter' = 0 /\ mover = "loop" /\ mover' = "loop"
       => dark >= CalibrationFrames]_autoshutterVars

\* Every nap ends: the loop wakes up and opens the shutter, unless a command moved it.
NapEnds == (measurementNap > 0) ~> (measurementNap = 0 /\ (shutter = 0 \/ mover # "loop"))

(***************************************************************************)
(* The periodic autoshutter keeps firing.  If from some time on it is      *)
(* enabled, by time and in process, and the automaton is not stuck in      *)
(* PREHEATING (where the loop never requests), the loop closes the shutter *)
(* again and again, although requests that fall into a nap are dropped and *)
(* commands move the shutter too.  Operators leave AUTO_SHUTTER alone:     *)
(* writing 0 there takes a request back.                                   *)
(***************************************************************************)
RequestingFrame ==
  \E estado \in Estados \ {PREHEATING}, temp \in Temps : AutoshutterFrame(estado, temp)

PeriodicNapsRecur ==
  /\ <>[](autoConfig.enable = 1 /\ autoConfig.inProcess = 1 /\ autoConfig.byTime = 1)
  /\ []<><<RequestingFrame>>_autoshutterVars
  /\ <>[][\A v \in {0, 1} : ~ RequestNap(v)]_autoshutterVars
  => []<>(shutter = 1 /\ mover = "loop")
=============================================================================
