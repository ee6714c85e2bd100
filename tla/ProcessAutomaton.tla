-------------------------- MODULE ProcessAutomaton --------------------------
(***************************************************************************)
(* The automaton of the process loop (nit_process_core_run): MANUAL, IDLE, *)
(* PREHEATING, MIDIENDO (measuring) and CONTROL, the detection of the      *)
(* laser, the counting of tracks and the delays that move it.              *)
(*                                                                         *)
(* An iteration has two halves with a sleep between them: ReadRegisters    *)
(* copies some registers (and follows a change of MODE at once), Frame     *)
(* handles one image.  An operator's command may write any register at any *)
(* time between them, and Frame reads most registers where they live.      *)
(***************************************************************************)
EXTENDS Integers, ProcessStates

CONSTANTS
  RegisterValues,    \* for each register, the values commands write to it
  InitialRegisters,  \* the registers as the configuration left them
  Moments,           \* values of the zeroth moment, metadatos[1]
  MaxTrack,          \* bound: track saturates, at or above every track it is compared with
  MaxSamples,        \* bound: contadorFramesMidiendo saturates (0 or not is all we ask)
  MaxQuiet           \* bound: the history counter quiet saturates

\* Names of MODE's values: tracks by time, tracks by laser pulses, no control.
Timed == 0
Pulsed == 1
ManualMode == 2

(***************************************************************************)
(* The registers the automaton reads.  TIME_TRACK stands for the two words *)
(* of the track time, already converted to frames.                         *)
(***************************************************************************)
Registers ==
  {"MODE", "START_TRACK_MOM_T", "END_OF_TRACK", "REFERENCE_TRACK", "TIME_TRACK",
   "TRACK_REF_START", "DELAY_LASER_ON", "PREHEATING_ENA", "PREHEATING_TIME",
   "END_OF_PROCESS", "LASER_EXTERAL_CONTROL", "AUTOMEASURE", "SET_REF_WIDTH"}

\* Every register holds a value that a command or the loop (SET_REF_WIDTH) gave it.
Legal(file) ==
  /\ file \in [Registers -> Int]
  /\ \A r \in Registers : file[r] \in RegisterValues[r]

ASSUME AutomatonAssumption ==
  /\ RegisterValues \in [Registers -> SUBSET Int]
  /\ RegisterValues["TIME_TRACK"] \subseteq Nat
  /\ RegisterValues["DELAY_LASER_ON"] \subseteq Nat
  /\ \A n \in RegisterValues["END_OF_PROCESS"] : n \in Nat /\ n + 2 <= MaxQuiet
  /\ \A n \in RegisterValues["REFERENCE_TRACK"] \cup RegisterValues["TRACK_REF_START"] :
       n <= MaxTrack
  /\ 0 \in RegisterValues["SET_REF_WIDTH"]
  /\ Legal(InitialRegisters)
  /\ Moments \subseteq Int
  /\ MaxTrack \in Nat /\ MaxSamples \in Nat \ {0} /\ MaxQuiet \in Nat

VARIABLES
  reg,          \* the registers, shared with the commands
  half,         \* "read" or "frame": which half of the iteration comes next
  estado,       \* estadoAutomata
  mode,         \* mode, the MODE the loop has acted on
  external,     \* laser_external, as last read
  automeasure,  \* automeasure_flag, as last read
  laser,        \* laser_status, and between frames last_laser_status
  track,        \* track
  trackCount,   \* track_cnt
  trackLength,  \* track_length
  delay,        \* delay_laser_on
  preheat,      \* cont_preheating
  samples,      \* contadorFramesMidiendo: widths summed in width_aux
  stop,         \* contadorFramesStop
  reference,    \* where width_ref comes from
  booted,       \* history: a first frame has been handled
  quiet         \* history: CONTROL frames since the last that regulated

loopVars == <<estado, mode, external, automeasure, laser, track, trackCount,
              trackLength, delay, preheat, samples, stop, reference, booted, quiet>>
automatonVars == <<reg, half, loopVars>>

\* width_ref: set (at the start or from WIDTH_REF), a mean of samples, or of none.
References == {"set", "measured", "empty"}

AutomatonTypeOK ==
  /\ Legal(reg)
  /\ half \in {"read", "frame"}
  /\ estado \in Estados
  /\ mode \in Int /\ external \in Int /\ automeasure \in Int
  /\ laser \in {0, 1}
  /\ track \in 0 .. MaxTrack
  /\ trackCount \in Nat /\ trackLength \in Nat
  /\ delay \in Nat /\ preheat \in Nat
  /\ samples \in 0 .. MaxSamples
  /\ stop \in 0 .. MaxQuiet
  /\ reference \in References
  /\ booted \in BOOLEAN
  /\ quiet \in 0 .. MaxQuiet

\* The loop starts in estado 0, which is MANUAL, with mode 0.
AutomatonInit ==
  /\ reg = InitialRegisters
  /\ half = "read"
  /\ estado = MANUAL /\ mode = 0
  /\ external = 0 /\ automeasure = 0
  /\ laser = 0
  /\ track = 0 /\ trackCount = 0 /\ trackLength = 2000
  /\ delay = 0 /\ preheat = 0 /\ samples = 0 /\ stop = 0
  /\ reference = "set"
  /\ booted = FALSE /\ quiet = 0

-----------------------------------------------------------------------------
(***************************************************************************)
(* The first half: latch registers; a new MODE aborts whatever runs.       *)
(***************************************************************************)
FollowMode_KeepsProcess ==
  estado' = IF mode # reg["MODE"] /\ reg["MODE"] = ManualMode THEN MANUAL ELSE estado

FollowMode ==
  estado' = IF mode = reg["MODE"] THEN estado
            ELSE IF reg["MODE"] = ManualMode THEN MANUAL ELSE IDLE

ReadRegisters ==
  /\ half = "read" /\ half' = "frame"
  /\ external' = reg["LASER_EXTERAL_CONTROL"]
  /\ automeasure' = reg["AUTOMEASURE"]
  /\ mode' = reg["MODE"]
  /\ FollowMode
  /\ UNCHANGED <<reg, laser, track, trackCount, trackLength, delay, preheat,
                 samples, stop, reference, booted, quiet>>

-----------------------------------------------------------------------------
\* laser_status: the external input, or the moment with its hysteresis.
LaserNow(moment, input) ==
  IF external # 0 THEN input
  ELSE IF laser # 0 THEN IF moment < reg["END_OF_TRACK"] THEN 0 ELSE laser
  ELSE IF moment >= reg["START_TRACK_MOM_T"] THEN 1 ELSE laser

\* An awake frame counts the delay down before the automaton looks at it.
DelayNow(napFrame) == IF ~ napFrame /\ delay > 0 THEN delay - 1 ELSE delay

Saturated(n, max) == IF n < max THEN n + 1 ELSE max

\* A pulse is a rising edge; without the external input it must fall awake.
Pulse_WhileAsleep(on, asleep) == on > 0 /\ on # laser
Pulse(on, asleep)             == on > 0 /\ on # laser /\ (external # 0 \/ ~ asleep)

CountTrack(on, asleep) ==
  LET timeUp == mode = Timed /\ trackCount >= trackLength
      pulse  == mode = Pulsed /\ Pulse(on, asleep)
  IN  /\ track' = IF timeUp \/ pulse THEN Saturated(track, MaxTrack) ELSE track
      /\ trackCount' = IF mode # Timed THEN trackCount
                       ELSE IF timeUp THEN 0 ELSE trackCount + 1

\* The delay after CountTrack: every counted pulse restarts it.
DelayAfterCount(on, asleep, napFrame) ==
  IF mode = Pulsed /\ Pulse(on, asleep) THEN reg["DELAY_LASER_ON"] ELSE DelayNow(napFrame)

ForgetTracks_KeepsDelay == track' = 0 /\ trackCount' = 0 /\ UNCHANGED delay
ForgetTracks            == track' = 0 /\ trackCount' = 0 /\ delay' = 0

\* SET_REF_WIDTH replaces the reference in any frame.
ReferenceNow == IF reg["SET_REF_WIDTH"] > 0 THEN "set" ELSE reference

ManualFrame ==
  /\ estado = MANUAL
  /\ estado' = IF mode # ManualMode THEN IDLE ELSE MANUAL
  /\ ForgetTracks
  /\ reference' = ReferenceNow
  /\ UNCHANGED <<trackLength, preheat, samples, stop, quiet>>

IdleFrame(on) ==
  LET preheats == reg["PREHEATING_ENA"] # 0
  IN  /\ estado = IDLE
      /\ stop' = 0
      /\ IF on # 0
         THEN /\ estado' = IF preheats THEN PREHEATING ELSE MIDIENDO
              /\ preheat' = IF preheats THEN 0 ELSE preheat
              /\ samples' = IF preheats THEN samples ELSE 0
              /\ trackLength' = reg["TIME_TRACK"]
         ELSE UNCHANGED <<estado, preheat, samples, trackLength>>
      /\ ForgetTracks
      /\ reference' = ReferenceNow
      /\ UNCHANGED quiet

\* The laser is not looked at: preheating always runs to its end.
PreheatingFrame(napFrame) ==
  LET done == preheat >= reg["PREHEATING_TIME"]
  IN  /\ estado = PREHEATING
      /\ preheat' = preheat + 1
      /\ estado' = IF done THEN MIDIENDO ELSE PREHEATING
      /\ samples' = IF done THEN 0 ELSE samples
      /\ delay' = DelayNow(napFrame)
      /\ reference' = ReferenceNow
      /\ UNCHANGED <<track, trackCount, trackLength, stop, quiet>>

\* A width is summed while the laser is on, from track TRACK_REF_START on.
SamplesNow_BeforeCount(on) ==
  IF on # 0 /\ track >= reg["TRACK_REF_START"] THEN Saturated(samples, MaxSamples) ELSE samples
SamplesNow(on) ==
  IF on # 0 /\ track' >= reg["TRACK_REF_START"] THEN Saturated(samples, MaxSamples) ELSE samples

MeasuringFrame(on, asleep, napFrame) ==
  LET done == track' >= reg["REFERENCE_TRACK"]
  IN  /\ estado = MIDIENDO
      /\ CountTrack(on, asleep)
      /\ delay' = DelayAfterCount(on, asleep, napFrame)
      /\ estado' = IF done THEN CONTROL ELSE MIDIENDO
      /\ samples' = IF done THEN 0 ELSE SamplesNow(on)
      /\ reference' = IF ~ done THEN ReferenceNow
                      ELSE IF automeasure # 1 THEN "set"
                      ELSE IF SamplesNow(on) = 0 THEN "empty" ELSE "measured"
      /\ quiet' = IF done THEN 0 ELSE quiet
      /\ UNCHANGED <<trackLength, preheat, stop>>

\* A frame without signal, or asleep, counts towards the end of the process.
Finished_Early == stop > 0 /\ stop >= reg["END_OF_PROCESS"] - 1
Finished       == stop > reg["END_OF_PROCESS"]

Halt ==
  /\ estado' = IF Finished THEN IDLE ELSE CONTROL
  /\ stop' = IF Finished THEN 0 ELSE stop + 1
  /\ quiet' = Saturated(quiet, MaxQuiet)

Delay_Forever(d) == /\ d > 0
                    /\ delay' = d
                    /\ quiet' = Saturated(quiet, MaxQuiet)
                    /\ UNCHANGED <<estado, stop>>

Delay(d) == /\ d > 0
            /\ delay' = d - 1
            /\ quiet' = Saturated(quiet, MaxQuiet)
            /\ UNCHANGED <<estado, stop>>

Regulate ==
  /\ stop' = 0
  /\ quiet' = 0
  /\ UNCHANGED estado

\* What a frame asks of the power.
PowerCommand(on, asleep, napFrame) ==
  CASE estado \in {MANUAL, MIDIENDO} -> "manual"
    [] estado = IDLE                 -> IF on = 0 THEN "manual" ELSE "hold"
    [] estado = PREHEATING           -> "preheat"
    [] estado = CONTROL              ->
         IF DelayAfterCount(on, asleep, napFrame) > 0 \/ on = 0 \/ asleep
         THEN "hold" ELSE "regulate"

ControlFrame(on, asleep, napFrame) ==
  LET d == DelayAfterCount(on, asleep, napFrame)
  IN  /\ estado = CONTROL
      /\ CountTrack(on, asleep)
      /\ \/ Delay(d)
         \/ d <= 0 /\ delay' = d /\ IF on = 0 \/ asleep THEN Halt ELSE Regulate
      /\ reference' = ReferenceNow
      /\ UNCHANGED <<trackLength, preheat, samples>>

(***************************************************************************)
(* The second half.  napFrame: the frame takes the nap branch; asleep: the *)
(* nap still runs after it (the last nap frame is no longer asleep).       *)
(***************************************************************************)
Frame(on, asleep, napFrame) ==
  /\ half = "frame" /\ half' = "read"
  /\ laser' = on
  /\ booted' = TRUE
  /\ reg' = [reg EXCEPT !["SET_REF_WIDTH"] = IF @ > 0 THEN 0 ELSE @]
  /\ \/ ManualFrame
     \/ IdleFrame(on)
     \/ PreheatingFrame(napFrame)
     \/ MeasuringFrame(on, asleep, napFrame)
     \/ ControlFrame(on, asleep, napFrame)
  /\ UNCHANGED <<mode, external, automeasure>>

LaserOutcomes == {LaserNow(moment, input) : moment \in Moments, input \in {0, 1}}

AutomatonFrame ==
  \E on \in LaserOutcomes, napFrame, asleep \in BOOLEAN :
    (asleep => napFrame) /\ Frame(on, asleep, napFrame)

\* A command writes one register.
WriteRegister(r, v) ==
  /\ reg' = [reg EXCEPT ![r] = v]
  /\ UNCHANGED <<half, loopVars>>

SomeWrite == \E r \in Registers : \E v \in RegisterValues[r] : WriteRegister(r, v)

AutomatonNext == ReadRegisters \/ AutomatonFrame \/ SomeWrite

\* The loop runs until the shutdown; nothing obliges an operator to act.
AutomatonSpec ==
  AutomatonInit /\ [][AutomatonNext]_automatonVars
                /\ WF_automatonVars(ReadRegisters \/ AutomatonFrame)

-----------------------------------------------------------------------------
(***************************************************************************)
(* MANUAL and mode 2 are the same thing from the first frame on: no        *)
(* interleaving of MODE writes leaves a process running in manual mode or  *)
(* the automaton in MANUAL when a process mode is selected.                *)
(***************************************************************************)
ManualIffMode == booted => (estado = MANUAL <=> mode = ManualMode)

(***************************************************************************)
(* A new process starts from nothing, however the one before ended         *)
(* (finished, or aborted by MODE): the step that begins to preheat, and    *)
(* the one that begins to measure, with or without preheating before,      *)
(* leave no track, delay or stop count, and their own counter at zero.     *)
(***************************************************************************)
NoCounts == track = 0 /\ trackCount = 0 /\ delay = 0 /\ stop = 0

NothingCarriedOver ==
  [][/\ estado # PREHEATING /\ estado' = PREHEATING => NoCounts' /\ preheat' = 0
     /\ estado # MIDIENDO /\ estado' = MIDIENDO => NoCounts' /\ samples' = 0]_automatonVars

(***************************************************************************)
(* The automeasured reference of pulsed mode is a mean of real samples: a  *)
(* process that measures its reference up to REFERENCE_TRACK, beginning no *)
(* later than that, at a fixed TRACK_REF_START of 1 or more, never enters  *)
(* CONTROL on the mean of no samples, which process_core.cpp would take    *)
(* for a width of 0.  (Timed mode gives no such guarantee.)                *)
(***************************************************************************)
FixedReferenceStart ==
  \A m, n \in RegisterValues["TRACK_REF_START"] : m = n /\ n > 0

ReferenceIsMeasured ==
  [][/\ FixedReferenceStart
     /\ estado = MIDIENDO /\ estado' = CONTROL
     /\ mode = Pulsed
     /\ reg["TRACK_REF_START"] <= reg["REFERENCE_TRACK"]
     => reference' # "empty"]_automatonVars

(***************************************************************************)
(* The loop ends a process patiently: unless MODE changes, CONTROL goes    *)
(* back to IDLE only after more than END_OF_PROCESS + 1 frames in a row    *)
(* that did not regulate, in spite of delays, pulses, naps and writes.     *)
(***************************************************************************)
ProcessEndsPatiently ==
  [][estado = CONTROL /\ estado' = IDLE /\ half = "frame"
       => quiet' >= reg["END_OF_PROCESS"] + 2]_automatonVars

(***************************************************************************)
(* A process whose laser has gone ends: if the laser stays off and only    *)
(* the loop takes steps (no register is written), the automaton comes to   *)
(* rest in IDLE or MANUAL; only outside timed mode can it wait in MIDIENDO *)
(* for tracks for ever.                                                    *)
(***************************************************************************)
AbandonedProcessEnds ==
  <>[](laser = 0) /\ <>[][half' # half]_automatonVars
    => <>[](estado \in {IDLE, MANUAL} \/ (estado = MIDIENDO /\ mode # Timed))

(***************************************************************************)
(* What process_core.cpp:48 says of END_OF_PROCESS, images without signal  *)
(* "para considerar un proceso finalizado" (to take a process as ended):   *)
(* the image that makes it END_OF_PROCESS of them in a row ends CONTROL.   *)
(***************************************************************************)
FinishedAtEndOfProcess ==
  [][/\ estado = CONTROL /\ half = "frame"
     /\ laser' = 0 /\ delay = 0 /\ stop + 1 >= reg["END_OF_PROCESS"]
     => estado' = IDLE]_automatonVars
=============================================================================
