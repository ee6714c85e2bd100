------------------------- MODULE AutoshutterProofs -------------------------
(***************************************************************************)
(* Type correctness and the nap timeline of Autoshutter, for every nap     *)
(* that outlives its calibration, and what follows from the timeline: the  *)
(* loop never measures, and never takes an offset, in the wrong light,     *)
(* however requests and the writes of commands fall, unless it is a        *)
(* command that has moved the shutter.                                     *)
(***************************************************************************)
EXTENDS Autoshutter, TLAPS

USE AutoshutterAssumption

\* The inductive invariant.
AutoshutterInv == AutoshutterTypeOK /\ NapTimeline

LEMMA CalibrationFramesNat == CalibrationFrames \in Nat /\ CalibrationFrames >= 1
BY DEF CalibrationFrames

\* Nobody has napped at the start, so the timeline holds vacuously.
LEMMA AutoshutterInitInv == AutoshutterInit => AutoshutterInv
BY CalibrationFramesNat
   DEF AutoshutterInit, AutoshutterInv, AutoshutterTypeOK, NapTimeline, LoopsCount,
       LoopsShutter

(***************************************************************************)
(* What the middle of a frame leaves behind: in a nap frame the two naps   *)
(* and the count go down together, whether the nap starts or continues.    *)
(***************************************************************************)
LEMMA NapFrameTimeline ==
  ASSUME AutoshutterInv, ~ Measures, NapFrame, ObserveShutter
  PROVE  /\ NapTimeline'
         /\ shutter' \in {0, 1} /\ offsetUpdate' \in {0, 1} /\ napping' \in {0, 1}
         /\ measurementNap' \in 0 .. NAP_DURATION
         /\ controlNap' \in Int /\ calibration' \in Int
         /\ dark' \in 0 .. NAP_DURATION /\ mover' \in Clients \cup {"loop"}
<1> USE CalibrationFramesNat
<1>1. CASE NapStarts
  BY <1>1
     DEF AutoshutterInv, AutoshutterTypeOK, NapTimeline, LoopsCount, LoopsShutter,
         Measures, NapFrame, NapStarts, NapAtTest, ControlNapAtTest, CalibrationAtTest,
         CalibrationSpent, ObserveShutter
<1>2. CASE ~ NapStarts
  BY <1>2
     DEF AutoshutterInv, AutoshutterTypeOK, NapTimeline, LoopsCount, LoopsShutter,
         Measures, NapFrame, NapAtTest, ControlNapAtTest, CalibrationAtTest,
         CalibrationSpent, ObserveShutter
<1>3. QED BY <1>1, <1>2

LEMMA AwakeFrameTimeline ==
  ASSUME AutoshutterInv, Measures, AwakeFrame, ObserveShutter
  PROVE  /\ NapTimeline'
         /\ shutter' \in {0, 1} /\ offsetUpdate' \in {0, 1} /\ napping' \in {0, 1}
         /\ measurementNap' \in 0 .. NAP_DURATION
         /\ controlNap' \in Int /\ calibration' \in Int
         /\ dark' \in 0 .. NAP_DURATION /\ mover' \in Clients \cup {"loop"}
BY CalibrationFramesNat
   DEF AutoshutterInv, AutoshutterTypeOK, NapTimeline, LoopsCount, LoopsShutter, Measures,
       AwakeFrame, NapStarts, NapAtTest, ObserveShutter

\* The trigger at the end of the frame keeps the types of what it writes.
LEMMA TriggerTypes ==
  ASSUME AutoshutterInv, NEW estado \in Estados, NEW temp \in Temps, Trigger(estado, temp)
  PROVE  /\ autoShutter' \in {0, 1}
         /\ since' \in 0 .. MaxSince
         /\ pending' \in {0, 1}
         /\ temperature' \in Temps
         /\ lastTemperature' \in Temps
BY DEF AutoshutterInv, AutoshutterTypeOK, Trigger

LEMMA AutoshutterFrameInv ==
  ASSUME AutoshutterInv, NEW estado \in Estados, NEW temp \in Temps,
         AutoshutterFrame(estado, temp)
  PROVE  AutoshutterInv'
<1>1. autoConfig' \in AutoConfigs
  BY DEF AutoshutterFrame, AutoshutterInv, AutoshutterTypeOK
<1>2. CASE Measures
  BY <1>1, <1>2, AwakeFrameTimeline, TriggerTypes
     DEF AutoshutterFrame, AutoshutterInv, AutoshutterTypeOK
<1>3. CASE ~ Measures
  BY <1>1, <1>3, NapFrameTimeline, TriggerTypes
     DEF AutoshutterFrame, AutoshutterInv, AutoshutterTypeOK
<1>4. QED BY <1>2, <1>3

LEMMA AutoshutterNextInv ==
  AutoshutterInv /\ [AutoshutterNext]_autoshutterVars => AutoshutterInv'
<1> SUFFICES ASSUME AutoshutterInv, [AutoshutterNext]_autoshutterVars
             PROVE  AutoshutterInv'
  OBVIOUS
<1>1. CASE AnyAutoshutterFrame
  BY <1>1, AutoshutterFrameInv DEF AnyAutoshutterFrame
<1>2. ASSUME NEW c \in AutoConfigs, ReadAutoConfig(c) PROVE AutoshutterInv'
  BY <1>2 DEF ReadAutoConfig, AutoshutterInv, AutoshutterTypeOK,
     NapTimeline, LoopsCount, LoopsShutter
<1>3. ASSUME NEW v \in {0, 1}, RequestNap(v) PROVE AutoshutterInv'
  BY <1>3 DEF RequestNap, AutoshutterInv, AutoshutterTypeOK,
     NapTimeline, LoopsCount, LoopsShutter
<1>4. ASSUME NEW v \in {0, 1}, WriteOffsetUpdate(v) PROVE AutoshutterInv'
  BY <1>4 DEF WriteOffsetUpdate, AutoshutterInv, AutoshutterTypeOK,
     NapTimeline, LoopsCount, LoopsShutter
<1>5. ASSUME NEW v \in {0, 1}, NEW c \in Clients, WriteShutter(c, v) PROVE AutoshutterInv'
  BY <1>5 DEF WriteShutter, AutoshutterInv, AutoshutterTypeOK,
     NapTimeline, LoopsCount, LoopsShutter
<1>6. CASE UNCHANGED autoshutterVars
  BY <1>6 DEF autoshutterVars, AutoshutterInv, AutoshutterTypeOK,
     NapTimeline, LoopsCount, LoopsShutter
<1>7. QED BY <1>1, <1>2, <1>3, <1>4, <1>5, <1>6 DEF AutoshutterNext

\* The inductive invariant holds in every state of the autoshutter.
LEMMA AutoshutterInvariant == AutoshutterSpec => []AutoshutterInv
BY AutoshutterInitInv, AutoshutterNextInv, PTL DEF AutoshutterSpec

-----------------------------------------------------------------------------
(***************************************************************************)
(* Type correctness: in particular measurement_NAP and cont_calibration    *)
(* never leave the range the nap gives them.                               *)
(***************************************************************************)
THEOREM AutoshutterTypeCorrect == AutoshutterSpec => []AutoshutterTypeOK
BY AutoshutterInvariant, PTL DEF AutoshutterInv

(***************************************************************************)
(* The naps and the calibration count run in step whatever commands write, *)
(* and until a command moves it the shutter is closed exactly while the    *)
(* count of process_core.cpp:913 has not run out.                          *)
(***************************************************************************)
THEOREM NapTimelineHolds == AutoshutterSpec => []NapTimeline
BY AutoshutterInvariant, PTL DEF AutoshutterInv

(***************************************************************************)
(* A frame that measures (process_core.cpp:893) does not do so through a   *)
(* shutter the loop itself was the last to move.                           *)
(***************************************************************************)
THEOREM MeasuringIsLit == AutoshutterSpec => []NeverMeasureInTheDark
<1>1. AutoshutterInv => NeverMeasureInTheDark
  BY DEF AutoshutterInv, AutoshutterTypeOK, NapTimeline, LoopsShutter, NeverMeasureInTheDark
<1>2. QED BY <1>1, AutoshutterInvariant, PTL

\* An offset update of the loop begins after so many frames in the dark, and in the dark.
LEMMA OffsetStep ==
  ASSUME AutoshutterInv, AnyAutoshutterFrame, mover' = "loop",
         offsetUpdate = 0, offsetUpdate' = 1
  PROVE  dark >= WAIT_START_CALIBRATION /\ shutter' = 1
<1>1. PICK estado \in Estados, temp \in Temps : AutoshutterFrame(estado, temp)
  BY DEF AnyAutoshutterFrame
<1>2. ~ Measures /\ NapFrame /\ ObserveShutter
  BY <1>1 DEF AutoshutterFrame, AwakeFrame
<1>3. CASE NapStarts
  BY <1>2, <1>3 DEF NapFrame, NapStarts, CalibrationAtTest, CalibrationSpent,
     AutoshutterInv, AutoshutterTypeOK, NapTimeline, LoopsCount, LoopsShutter,
     CalibrationFrames
<1>4. CASE ~ NapStarts
  <2>1. shutter' = shutter /\ mover = "loop"
    BY <1>2, <1>4 DEF NapFrame, ObserveShutter, CalibrationAtTest, CalibrationSpent,
       AutoshutterInv, AutoshutterTypeOK
  <2>2. QED
    BY <1>2, <1>4, <2>1 DEF NapFrame, CalibrationAtTest, CalibrationSpent, Measures,
       NapAtTest, AutoshutterInv, AutoshutterTypeOK, NapTimeline, LoopsCount,
       LoopsShutter, CalibrationFrames
<1>5. QED BY <1>3, <1>4

(***************************************************************************)
(* The loop raises the offset update of process_core.cpp:922 only after    *)
(* WAIT_START_CALIBRATION frames in the dark, and in the dark, unless a    *)
(* command has moved the shutter during the nap.                           *)
(***************************************************************************)
THEOREM OffsetIsDark == AutoshutterSpec => OffsetUpdateInTheDark
BY OffsetStep, AutoshutterInvariant, PTL DEF AutoshutterSpec, OffsetUpdateInTheDark

\* A shutter the loop closes and opens has been closed for a whole calibration.
LEMMA OpeningStep ==
  ASSUME AutoshutterInv, [AutoshutterNext]_autoshutterVars, shutter = 1, shutter' = 0,
         mover = "loop", mover' = "loop"
  PROVE  dark >= CalibrationFrames
<1>1. PICK estado \in Estados, temp \in Temps : AutoshutterFrame(estado, temp)
  BY DEF AutoshutterNext, AnyAutoshutterFrame, ReadAutoConfig, RequestNap,
         WriteOffsetUpdate, WriteShutter, autoshutterVars
<1>2. ~ Measures /\ NapFrame
  BY <1>1 DEF AutoshutterFrame, AwakeFrame
<1>3. QED
  BY <1>2, CalibrationFramesNat DEF NapFrame, CalibrationAtTest, CalibrationSpent,
     NapStarts, AutoshutterInv, AutoshutterTypeOK, NapTimeline, LoopsCount, LoopsShutter

(***************************************************************************)
(* The shutter that process_core.cpp:915 opens has been closed for a whole *)
(* calibration, however requests fall, if it is the loop that closed it.   *)
(***************************************************************************)
THEOREM OpeningIsLate == AutoshutterSpec => OpensAfterCalibration
BY OpeningStep, AutoshutterInvariant, PTL DEF AutoshutterSpec, OpensAfterCalibration
=============================================================================
