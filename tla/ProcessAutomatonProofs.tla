----------------------- MODULE ProcessAutomatonProofs -----------------------
(***************************************************************************)
(* Type correctness and the safety properties of ProcessAutomaton for any  *)
(* register values, moments and bounds.                                    *)
(***************************************************************************)
EXTENDS ProcessAutomaton, TLAPS

USE AutomatonAssumption

\* While it measures pulses from a fixed track on, reaching it gives a sample.
SampledFromStart ==
  FixedReferenceStart /\ estado = MIDIENDO /\ mode = Pulsed
    /\ track >= reg["TRACK_REF_START"] => samples > 0

\* While a process has not counted yet, what it starts from is still there.
CleanStart ==
  /\ estado = PREHEATING => track = 0 /\ trackCount = 0 /\ delay = 0
  /\ estado \in {PREHEATING, MIDIENDO} => stop = 0

(***************************************************************************)
(* The inductive invariant: the checked invariants, and why they last.     *)
(* The stop count never runs ahead of the frames that did not regulate.    *)
(***************************************************************************)
AutomatonInv ==
  /\ AutomatonTypeOK
  /\ ManualIffMode
  /\ CleanStart
  /\ estado = CONTROL => stop <= quiet
  /\ estado # MANUAL => mode # ManualMode
  /\ SampledFromStart

LEMMA AutomatonInitInv == AutomatonInit => AutomatonInv
<1> SUFFICES ASSUME AutomatonInit PROVE AutomatonInv
  OBVIOUS
<1> USE DEF AutomatonInit, Estados, MANUAL, IDLE, MIDIENDO, CONTROL, PREHEATING, ManualMode
<1>1. Legal(reg)
  BY DEF Legal
<1>2. /\ half \in {"read", "frame"} /\ estado \in Estados
      /\ mode \in Int /\ external \in Int /\ automeasure \in Int /\ laser \in {0, 1}
      /\ reference \in References
  BY DEF References
<1>3. /\ track \in 0 .. MaxTrack /\ trackCount \in Nat /\ trackLength \in Nat
      /\ delay \in Nat /\ preheat \in Nat /\ samples \in 0 .. MaxSamples
      /\ stop \in 0 .. MaxQuiet /\ quiet \in 0 .. MaxQuiet
  OBVIOUS
<1>4. booted \in BOOLEAN
  BY Zenon
<1>5. QED
  BY <1>1, <1>2, <1>3, <1>4
     DEF AutomatonInv, AutomatonTypeOK, ManualIffMode, CleanStart, SampledFromStart

LEMMA LaserIsBinary ==
  ASSUME AutomatonTypeOK, NEW on \in LaserOutcomes PROVE on \in {0, 1}
BY DEF AutomatonTypeOK, LaserOutcomes, LaserNow

\* Taking SET_REF_WIDTH back keeps the register file legal, the rest untouched.
LEMMA ReferenceTaken ==
  ASSUME Legal(reg), reg' = [reg EXCEPT !["SET_REF_WIDTH"] = IF @ > 0 THEN 0 ELSE @]
  PROVE  /\ Legal(reg)'
         /\ reg'["TRACK_REF_START"] = reg["TRACK_REF_START"]
BY DEF Legal, Registers

LEMMA WriteIsLegal ==
  ASSUME Legal(reg), NEW r \in Registers, NEW v \in RegisterValues[r],
         reg' = [reg EXCEPT ![r] = v]
  PROVE  Legal(reg)'
BY DEF Legal

LEMMA FixedStart ==
  ASSUME FixedReferenceStart, Legal(reg), Legal(reg)'
  PROVE  reg'["TRACK_REF_START"] = reg["TRACK_REF_START"] /\ reg["TRACK_REF_START"] > 0
BY DEF FixedReferenceStart, Legal, Registers

\* The registers that frames compare and copy, with their ranges.
LEMMA RegisterRanges ==
  ASSUME Legal(reg)
  PROVE  /\ \A r \in Registers : reg[r] \in Int
         /\ reg["TIME_TRACK"] \in Nat /\ reg["DELAY_LASER_ON"] \in Nat
         /\ reg["END_OF_PROCESS"] \in Nat /\ reg["END_OF_PROCESS"] + 2 <= MaxQuiet
         /\ reg["MODE"] \in Int /\ reg["PREHEATING_TIME"] \in Int
         /\ reg["TRACK_REF_START"] \in Int /\ reg["TRACK_REF_START"] <= MaxTrack
         /\ reg["REFERENCE_TRACK"] \in Int /\ reg["SET_REF_WIDTH"] \in Int
         /\ reg["AUTOMEASURE"] \in Int /\ reg["LASER_EXTERAL_CONTROL"] \in Int
BY DEF Legal, Registers

-----------------------------------------------------------------------------
\* The first half of an iteration.
LEMMA ReadRegistersInv == AutomatonInv /\ ReadRegisters => AutomatonInv'
<1> SUFFICES ASSUME AutomatonInv, ReadRegisters PROVE AutomatonInv'
  OBVIOUS
<1> Legal(reg)
  BY DEF AutomatonInv, AutomatonTypeOK
<1> USE RegisterRanges
   DEF ReadRegisters, FollowMode, MANUAL, IDLE, MIDIENDO, CONTROL, PREHEATING, ManualMode
<1>1. AutomatonTypeOK'
  BY DEF AutomatonInv, AutomatonTypeOK, Estados, Legal
<1>2. ManualIffMode'
  BY DEF AutomatonInv, ManualIffMode
<1>3. /\ CleanStart' /\ (estado = CONTROL => stop <= quiet)'
      /\ (estado # MANUAL => mode # ManualMode)'
  BY DEF AutomatonInv, CleanStart
<1>4. SampledFromStart'
  BY DEF AutomatonInv, SampledFromStart
<1>5. QED BY <1>1, <1>2, <1>3, <1>4 DEF AutomatonInv

\* The second half, one case for each state.
LEMMA FrameInv ==
  ASSUME AutomatonInv, NEW on \in {0, 1}, NEW asleep \in BOOLEAN, NEW napFrame \in BOOLEAN,
         Frame(on, asleep, napFrame)
  PROVE  AutomatonInv'
<1>1. Legal(reg) /\ Legal(reg)' /\ reg'["TRACK_REF_START"] = reg["TRACK_REF_START"]
  BY ReferenceTaken DEF AutomatonInv, AutomatonTypeOK, Frame
<1> USE <1>1, RegisterRanges DEF Frame, MANUAL, IDLE, MIDIENDO, CONTROL, PREHEATING, ManualMode
<1>2. DelayNow(napFrame) \in Nat /\ DelayAfterCount(on, asleep, napFrame) \in Nat
  BY DEF AutomatonInv, AutomatonTypeOK, DelayNow, DelayAfterCount
<1>3. /\ ReferenceNow \in References
      /\ \A n \in 0 .. MaxTrack : Saturated(n, MaxTrack) \in 0 .. MaxTrack
      /\ \A n \in 0 .. MaxSamples : Saturated(n, MaxSamples) \in 1 .. MaxSamples
      /\ \A n \in 0 .. MaxQuiet : Saturated(n, MaxQuiet) \in 0 .. MaxQuiet
                                  /\ Saturated(n, MaxQuiet) >= n
  BY DEF AutomatonInv, AutomatonTypeOK, ReferenceNow, References, Saturated
<1>4. CASE ManualFrame
  BY <1>3, <1>4 DEF AutomatonInv, AutomatonTypeOK, ManualIffMode, CleanStart,
     SampledFromStart, ManualFrame, ForgetTracks, Estados
<1>5. CASE IdleFrame(on)
  <2>1. AutomatonTypeOK'
    BY <1>3, <1>5 DEF AutomatonInv, AutomatonTypeOK, IdleFrame, ForgetTracks, Estados
  <2>2. ManualIffMode' /\ CleanStart' /\ (estado = CONTROL => stop <= quiet)'
        /\ (estado # MANUAL => mode # ManualMode)'
    BY <1>5 DEF AutomatonInv, ManualIffMode, CleanStart, IdleFrame, ForgetTracks
  <2>3. SampledFromStart'
    BY <1>5, FixedStart DEF SampledFromStart, IdleFrame, ForgetTracks, FixedReferenceStart
  <2>4. QED BY <2>1, <2>2, <2>3 DEF AutomatonInv
<1>6. CASE PreheatingFrame(napFrame)
  <2>1. AutomatonTypeOK'
    BY <1>2, <1>3, <1>6 DEF AutomatonInv, AutomatonTypeOK, PreheatingFrame, Estados
  <2>2. ManualIffMode' /\ CleanStart' /\ (estado = CONTROL => stop <= quiet)'
        /\ (estado # MANUAL => mode # ManualMode)'
    BY <1>6 DEF AutomatonInv, ManualIffMode, CleanStart, PreheatingFrame, DelayNow
  <2>3. SampledFromStart'
    BY <1>6, FixedStart
    DEF AutomatonInv, CleanStart, SampledFromStart, PreheatingFrame, FixedReferenceStart
  <2>4. QED BY <2>1, <2>2, <2>3 DEF AutomatonInv
<1>7. CASE MeasuringFrame(on, asleep, napFrame)
  <2>1. track' \in 0 .. MaxTrack /\ trackCount' \in Nat /\ SamplesNow(on) \in 0 .. MaxSamples
    BY <1>7
       DEF AutomatonInv, AutomatonTypeOK, MeasuringFrame, CountTrack, Pulse, SamplesNow,
           Saturated
  <2>2. AutomatonTypeOK'
    BY <1>2, <1>3, <1>7, <2>1
    DEF AutomatonInv, AutomatonTypeOK, MeasuringFrame, Estados, References
  <2>3. ManualIffMode' /\ CleanStart' /\ (estado = CONTROL => stop <= quiet)'
        /\ (estado # MANUAL => mode # ManualMode)'
    BY <1>7, <2>1 DEF AutomatonInv, AutomatonTypeOK, ManualIffMode, CleanStart, MeasuringFrame
  <2>4. SampledFromStart'
    BY <1>3, <1>7
    DEF AutomatonInv, AutomatonTypeOK, SampledFromStart, MeasuringFrame, CountTrack, Pulse,
        SamplesNow, Pulsed, Timed, FixedReferenceStart
  <2>5. QED BY <2>2, <2>3, <2>4 DEF AutomatonInv
<1>8. CASE ControlFrame(on, asleep, napFrame)
  <2>1. track' \in 0 .. MaxTrack /\ trackCount' \in Nat
    BY <1>3, <1>8 DEF AutomatonInv, AutomatonTypeOK, ControlFrame, CountTrack
  <2>2. AutomatonTypeOK' /\ (estado = CONTROL => stop <= quiet)'
    BY <1>2, <1>3, <1>8, <2>1
    DEF AutomatonInv, AutomatonTypeOK, ControlFrame, Delay, Halt, Regulate, Finished, Saturated,
        Estados
  <2>3. ManualIffMode' /\ CleanStart' /\ (estado # MANUAL => mode # ManualMode)'
        /\ SampledFromStart'
    BY <1>8 DEF AutomatonInv, ManualIffMode, CleanStart, SampledFromStart,
       ControlFrame, Delay, Halt, Regulate
  <2>4. QED BY <2>2, <2>3 DEF AutomatonInv
<1>9. QED BY <1>4, <1>5, <1>6, <1>7, <1>8 DEF Frame

LEMMA WriteRegisterInv ==
  ASSUME AutomatonInv, NEW r \in Registers, NEW v \in RegisterValues[r], WriteRegister(r, v)
  PROVE  AutomatonInv'
<1>1. Legal(reg) /\ Legal(reg)'
  BY WriteIsLegal DEF AutomatonInv, AutomatonTypeOK, WriteRegister
<1>2. SampledFromStart'
  BY <1>1, FixedStart
  DEF AutomatonInv, SampledFromStart, WriteRegister, loopVars, FixedReferenceStart
<1>3. QED
  BY <1>1, <1>2 DEF AutomatonInv, AutomatonTypeOK, ManualIffMode, CleanStart,
     WriteRegister, loopVars

LEMMA AutomatonNextInv == AutomatonInv /\ [AutomatonNext]_automatonVars => AutomatonInv'
<1> SUFFICES ASSUME AutomatonInv, [AutomatonNext]_automatonVars PROVE AutomatonInv'
  OBVIOUS
<1>1. CASE ReadRegisters
  BY <1>1, ReadRegistersInv
<1>2. CASE AutomatonFrame
  BY <1>2, FrameInv, LaserIsBinary DEF AutomatonFrame, AutomatonInv
<1>3. CASE SomeWrite
  BY <1>3, WriteRegisterInv DEF SomeWrite
<1>4. CASE UNCHANGED automatonVars
  BY <1>4 DEF AutomatonInv, AutomatonTypeOK, ManualIffMode, CleanStart,
     SampledFromStart, Legal, automatonVars, loopVars
<1>5. QED BY <1>1, <1>2, <1>3, <1>4 DEF AutomatonNext

LEMMA AutomatonInvHolds == AutomatonSpec => []AutomatonInv
BY AutomatonInitInv, AutomatonNextInv, PTL DEF AutomatonSpec

-----------------------------------------------------------------------------
\* Every variable of the automaton keeps its type.
THEOREM AutomatonTypeCorrect == AutomatonSpec => []AutomatonTypeOK
<1>1. AutomatonInv => AutomatonTypeOK
  BY DEF AutomatonInv
<1>2. QED BY <1>1, AutomatonInvHolds, PTL

\* From the first frame on the automaton is in MANUAL exactly in mode 2.
THEOREM ManualModeIsManual == AutomatonSpec => []ManualIffMode
<1>1. AutomatonInv => ManualIffMode
  BY DEF AutomatonInv
<1>2. QED BY <1>1, AutomatonInvHolds, PTL

\* The frame that begins to preheat or to measure leaves nothing of the process before.
LEMMA StartStep ==
  ASSUME AutomatonInv, AutomatonNext
  PROVE  /\ estado # PREHEATING /\ estado' = PREHEATING => NoCounts' /\ preheat' = 0
         /\ estado # MIDIENDO /\ estado' = MIDIENDO => NoCounts' /\ samples' = 0
<1> USE DEF MANUAL, IDLE, MIDIENDO, CONTROL, PREHEATING
<1>1. CASE ReadRegisters \/ SomeWrite
  BY <1>1 DEF ReadRegisters, FollowMode, SomeWrite, WriteRegister, loopVars
<1>2. CASE AutomatonFrame
  <2>1. PICK on \in LaserOutcomes, napFrame \in BOOLEAN, asleep \in BOOLEAN :
          Frame(on, asleep, napFrame)
    BY <1>2 DEF AutomatonFrame
  <2>2. CASE ManualFrame \/ MeasuringFrame(on, asleep, napFrame)
             \/ ControlFrame(on, asleep, napFrame)
    BY <2>2 DEF ManualFrame, MeasuringFrame, ControlFrame, Delay, Halt, Regulate
  <2>3. CASE IdleFrame(on)
    BY <2>3 DEF IdleFrame, ForgetTracks, NoCounts
  <2>4. CASE PreheatingFrame(napFrame)
    BY <2>4 DEF PreheatingFrame, DelayNow, NoCounts, AutomatonInv, CleanStart
  <2>5. QED BY <2>1, <2>2, <2>3, <2>4 DEF Frame
<1>3. QED BY <1>1, <1>2 DEF AutomatonNext

(***************************************************************************)
(* A process begins to preheat, and to measure, with no tracks, delay or   *)
(* stop count of the one before, and with its own counter at zero.         *)
(***************************************************************************)
THEOREM ProcessStartsFresh == AutomatonSpec => NothingCarriedOver
<1>1. AutomatonInv /\ [AutomatonNext]_automatonVars
        => [/\ estado # PREHEATING /\ estado' = PREHEATING => NoCounts' /\ preheat' = 0
            /\ estado # MIDIENDO /\ estado' = MIDIENDO
                 => NoCounts' /\ samples' = 0]_automatonVars
  BY StartStep
<1>2. QED BY <1>1, AutomatonInvHolds, PTL DEF AutomatonSpec, NothingCarriedOver

\* The frame that ends CONTROL comes after so many that did not regulate.
LEMMA EndStep ==
  AutomatonInv /\ [AutomatonNext]_automatonVars
    => [estado = CONTROL /\ estado' = IDLE /\ half = "frame"
          => quiet' >= reg["END_OF_PROCESS"] + 2]_automatonVars
<1> SUFFICES ASSUME AutomatonInv, AutomatonNext, estado = CONTROL, estado' = IDLE,
                    half = "frame"
             PROVE  quiet' >= reg["END_OF_PROCESS"] + 2
  BY DEF automatonVars
<1>1. ~ ReadRegisters /\ ~ SomeWrite
  BY DEF ReadRegisters, SomeWrite, WriteRegister, loopVars, CONTROL, IDLE
<1>2. PICK on \in LaserOutcomes, asleep \in BOOLEAN, napFrame \in BOOLEAN :
        ControlFrame(on, asleep, napFrame)
  <2>1. PICK on \in LaserOutcomes, napFrame \in BOOLEAN, asleep \in BOOLEAN :
          Frame(on, asleep, napFrame)
    BY <1>1 DEF AutomatonNext, AutomatonFrame
  <2>2. ControlFrame(on, asleep, napFrame)
    BY <2>1 DEF Frame, ManualFrame, IdleFrame, PreheatingFrame,
     MeasuringFrame,
       MANUAL, IDLE, MIDIENDO, CONTROL, PREHEATING
  <2>3. QED BY <2>2
<1>3. Finished /\ quiet' = Saturated(quiet, MaxQuiet)
  BY <1>2 DEF ControlFrame, Delay, Halt, Regulate, CONTROL, IDLE
<1>4. /\ reg["END_OF_PROCESS"] \in Nat /\ reg["END_OF_PROCESS"] + 2 <= MaxQuiet
      /\ stop \in Nat /\ quiet \in 0 .. MaxQuiet /\ stop <= quiet
  BY RegisterRanges DEF AutomatonInv, AutomatonTypeOK
<1>5. QED BY <1>3, <1>4 DEF Finished, Saturated

\* CONTROL ends only after END_OF_PROCESS + 2 frames that did not regulate.
THEOREM ControlEndsPatiently == AutomatonSpec => ProcessEndsPatiently
BY EndStep, AutomatonInvHolds, PTL DEF AutomatonSpec, ProcessEndsPatiently

\* The frame that goes over to CONTROL in a pulsed process has sampled something.
LEMMA ReferenceStep ==
  AutomatonInv /\ [AutomatonNext]_automatonVars
    => [/\ FixedReferenceStart
        /\ estado = MIDIENDO /\ estado' = CONTROL
        /\ mode = Pulsed
        /\ reg["TRACK_REF_START"] <= reg["REFERENCE_TRACK"]
        => reference' # "empty"]_automatonVars
<1> SUFFICES ASSUME AutomatonInv, AutomatonNext, FixedReferenceStart,
                    estado = MIDIENDO, estado' = CONTROL, mode = Pulsed,
                    reg["TRACK_REF_START"] <= reg["REFERENCE_TRACK"]
             PROVE  reference' # "empty"
  BY DEF automatonVars
<1>1. ~ ReadRegisters /\ ~ SomeWrite
  BY
     DEF ReadRegisters, FollowMode, SomeWrite, WriteRegister, loopVars, MANUAL, MIDIENDO,
         CONTROL, IDLE
<1>2. PICK on \in LaserOutcomes, asleep \in BOOLEAN, napFrame \in BOOLEAN :
        MeasuringFrame(on, asleep, napFrame)
  <2>1. PICK on \in LaserOutcomes, napFrame \in BOOLEAN, asleep \in BOOLEAN :
          Frame(on, asleep, napFrame)
    BY <1>1 DEF AutomatonNext, AutomatonFrame
  <2>2. MeasuringFrame(on, asleep, napFrame)
    BY <2>1 DEF Frame, ManualFrame, IdleFrame, PreheatingFrame,
     ControlFrame,
       MANUAL, IDLE, MIDIENDO, CONTROL, PREHEATING
  <2>3. QED BY <2>2
<1>3. on \in {0, 1} /\ track \in 0 .. MaxTrack /\ samples \in 0 .. MaxSamples
      /\ reg["TRACK_REF_START"] \in Int /\ reg["REFERENCE_TRACK"] \in Int
  BY LaserIsBinary, RegisterRanges DEF AutomatonInv, AutomatonTypeOK
<1>4. track' >= reg["REFERENCE_TRACK"]
  BY <1>2 DEF MeasuringFrame, MIDIENDO, CONTROL
<1>5. track' # track => on # 0
  BY <1>2, <1>3 DEF MeasuringFrame, CountTrack, Pulse, Pulsed, Timed
<1>6. track' = track \/ track' \in 0 .. MaxTrack
  BY <1>2, <1>3 DEF MeasuringFrame, CountTrack, Pulse, Saturated
<1>7. SamplesNow(on) # 0
  BY <1>3, <1>4, <1>5, <1>6 DEF AutomatonInv, SampledFromStart, SamplesNow, Saturated
<1>8. QED BY <1>2, <1>4, <1>7 DEF MeasuringFrame

\* The automeasured reference of a pulsed process is never a mean of nothing.
THEOREM ReferenceIsReal == AutomatonSpec => ReferenceIsMeasured
BY ReferenceStep, AutomatonInvHolds, PTL DEF AutomatonSpec, ReferenceIsMeasured
=============================================================================
