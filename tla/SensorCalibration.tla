------------------------- MODULE SensorCalibration -------------------------
(***************************************************************************)
(* The commands that calibrate the sensor (background_remove, with or      *)
(* without sensor_calibrate, and nit_scc_core_calibrate) beside the        *)
(* process loop, whose nap closes and opens the same shutter and raises    *)
(* the same offset update.  Nothing synchronises them: every register      *)
(* write is a step of its own and frames of the loop fall in between.      *)
(*                                                                         *)
(* A command is a sequence of instructions <<register, value>>; its sleeps *)
(* are the steps others take before its next one.  Its call of             *)
(* offset_en_set is none: only the weak stub of that setter exists, which  *)
(* writes nothing.  An operator's direct write of the shutter (route       *)
(* 0x0505) is left out: what it closes is the operator's to open.  So are  *)
(* the two images <<"acquire", ...>> copies: the update that would read    *)
(* them is commented out.                                                  *)
(*                                                                         *)
(* D-Bus calls of the service run one after another in the dispatcher's    *)
(* thread, so a client is a thread and not a connection: the dispatcher,   *)
(* which the routes let remove the background and save, and an application *)
(* that links the library and calls nit_scc_core_calibrate, which no route *)
(* does.  save_all is here because it changes what the commands go by: it  *)
(* pulls calibration_bypass from the FPGA into the configuration.          *)
(***************************************************************************)
EXTENDS Autoshutter, Sequences

CONSTANTS
  Offers,                \* of each client: the commands it may run
  CalibrationDisabled    \* config: sensor_calibation_disable

CommandNames == {"background_remove", "calibrate", "save_all"}

ASSUME CalibrationAssumption ==
  /\ CalibrationDisabled \in BOOLEAN
  /\ Offers \in [Clients -> SUBSET CommandNames]

VARIABLES
  command,       \* of each client: the command it executes, or "none"
  pc,            \* of each client: the instruction that comes next
  scc,           \* the registers of the scc core that commands write
  bypassConfig,  \* the configuration's calibration_bypass
  unwritten      \* history: the registers that are as the last run left them

commandVars == <<command, pc, scc, bypassConfig, unwritten>>
calibrationVars == <<autoshutterVars, commandVars>>

\* calibration_bypass, opmode and calibration_mode.
SccRegisters ==
  [bypass : {0, 1}, opmode : {"process", "calibrate"},
   mode : {"idle", "min", "max", "updating"}]

-----------------------------------------------------------------------------
\* Definitions named X_Slip are slips a change of the code could make in X.
SensorCalibrate_AcquiresEarly ==
  << <<"offsetUpdate", 1>>, <<"bypass", 1>>,
     <<"opmode", "calibrate">>, <<"mode", "min">>, <<"acquire", "min">>,
     <<"shutter", 1>>, <<"mode", "max">>, <<"shutter", 0>>, <<"acquire", "max">>,
     <<"opmode", "process">>, <<"bypass", 0>>, <<"offsetUpdate", 0>> >>

SensorCalibrate_KeepsBypass ==
  << <<"offsetUpdate", 1>>, <<"bypass", 1>>,
     <<"opmode", "calibrate">>, <<"mode", "min">>, <<"shutter", 1>>,
     <<"acquire", "min">>, <<"mode", "max">>, <<"shutter", 0>>, <<"acquire", "max">>,
     <<"opmode", "process">>, <<"offsetUpdate", 0>> >>

(***************************************************************************)
(* An image in the dark and one in the light, in the mode that bypasses    *)
(* the scc.  <<"bypass", 0>> ends the bypass, unless it is configured.     *)
(***************************************************************************)
SensorCalibrate ==
  << <<"offsetUpdate", 1>>, <<"bypass", 1>>,
     <<"opmode", "calibrate">>, <<"mode", "min">>, <<"shutter", 1>>,
     <<"acquire", "min">>, <<"mode", "max">>, <<"shutter", 0>>, <<"acquire", "max">>,
     <<"opmode", "process">>, <<"bypass", 0>>, <<"offsetUpdate", 0>> >>

BackgroundRemove_StaysClosed ==
  (IF CalibrationDisabled THEN << >> ELSE SensorCalibrate)
  \o << <<"shutter", 1>>, <<"offsetUpdate", 1>>, <<"offsetUpdate", 0>> >>

BackgroundRemove ==
  (IF CalibrationDisabled THEN << >> ELSE SensorCalibrate)
  \o << <<"shutter", 1>>, <<"offsetUpdate", 1>>, <<"shutter", 0>>, <<"offsetUpdate", 0>> >>

SccCalibrate_NeverProcesses ==
  << <<"offsetUpdate", 1>>, <<"opmode", "calibrate">>,
     <<"mode", "min">>, <<"shutter", 1>>, <<"mode", "max">>, <<"shutter", 0>>,
     <<"mode", "updating">>, <<"wait", "idle">>, <<"offsetUpdate", 0>> >>

\* The calibration left to the FPGA; its wait ends after 100 ms at the latest.
SccCalibrate ==
  << <<"offsetUpdate", 1>>, <<"opmode", "calibrate">>,
     <<"mode", "min">>, <<"shutter", 1>>, <<"mode", "max">>, <<"shutter", 0>>,
     <<"mode", "updating">>, <<"wait", "idle">>, <<"opmode", "process">>,
     <<"offsetUpdate", 0>> >>

\* Of the save command, what reads a register (nit_scc_core_config_update_pull).
SaveAll == << <<"config", "pull">> >>

Program(name) ==
  CASE name = "background_remove" -> BackgroundRemove
    [] name = "calibrate"         -> SccCalibrate
    [] OTHER                      -> SaveAll

CalibrationTypeOK ==
  /\ shutter \in {0, 1} /\ offsetUpdate \in {0, 1} /\ measurementNap \in 0 .. NAP_DURATION
  /\ command \in [Clients -> CommandNames \cup {"none"}]
  /\ pc \in [Clients -> Nat]
  /\ \A c \in Clients : command[c] # "none" => pc[c] \in 1 .. Len(Program(command[c]))
  /\ scc \in SccRegisters
  /\ bypassConfig \in {0, 1}
  /\ unwritten \subseteq {"opmode", "bypass"}
  /\ mover \in Clients \cup {"loop"}

(***************************************************************************)
(* Opening the drivers writes none of the registers of the scc core, which *)
(* outlive the process: a run that crashed in the middle of a calibration  *)
(* leaves them in any state.                                               *)
(***************************************************************************)
CalibrationInit ==
  /\ AutoshutterInit
  /\ command = [c \in Clients |-> "none"]
  /\ pc = [c \in Clients |-> 1]
  /\ scc \in SccRegisters
  /\ bypassConfig \in {0, 1}
  /\ unwritten = {"opmode", "bypass"}

-----------------------------------------------------------------------------
Start(c, name) ==
  /\ name \in Offers[c] /\ command[c] = "none"
  /\ command' = [command EXCEPT ![c] = name]
  /\ pc' = [pc EXCEPT ![c] = 1]
  /\ UNCHANGED <<autoshutterVars, scc, bypassConfig, unwritten>>

Instruction(c) == Program(command[c])[pc[c]]

\* The registers of the scc core after a write.
Written(register, value) ==
  IF register \in DOMAIN scc /\ ~ (register = "bypass" /\ value = 0 /\ bypassConfig = 1)
  THEN [scc EXCEPT ![register] = value] ELSE scc

\* One instruction; the last one ends the command.
Execute(c) ==
  LET register == Instruction(c)[1]
      value    == Instruction(c)[2]
  IN  /\ command[c] # "none"
      /\ pc' = [pc EXCEPT ![c] = @ + 1]
      /\ command' = IF pc[c] = Len(Program(command[c]))
                    THEN [command EXCEPT ![c] = "none"] ELSE command
      /\ \/ register = "shutter" /\ WriteShutter(c, value)
         \/ register = "offsetUpdate" /\ WriteOffsetUpdate(value)
         \/ register \notin {"shutter", "offsetUpdate"} /\ UNCHANGED autoshutterVars
      /\ scc' = Written(register, value)
      /\ bypassConfig' = IF register = "config" THEN scc.bypass ELSE bypassConfig
      /\ unwritten' = unwritten \ {register}

\* A frame of the loop, whatever state its automaton is in.
LoopFrame == AnyAutoshutterFrame /\ UNCHANGED commandVars

LoopRead == (\E c \in AutoConfigs : ReadAutoConfig(c)) /\ UNCHANGED commandVars

NapRequest == (\E v \in {0, 1} : RequestNap(v)) /\ UNCHANGED commandVars

\* The FPGA finishes the update of its tables in its own time.
FpgaFinishes ==
  /\ scc.mode = "updating"
  /\ scc' = [scc EXCEPT !.mode = "idle"]
  /\ UNCHANGED <<autoshutterVars, command, pc, bypassConfig, unwritten>>

CalibrationNext ==
  \/ LoopFrame
  \/ LoopRead
  \/ NapRequest
  \/ FpgaFinishes
  \/ \E c \in Clients : \/ \E name \in CommandNames : Start(c, name)
                        \/ Execute(c)

\* The loop runs on, and a command that has begun runs to its end.
CalibrationSpec ==
  /\ CalibrationInit /\ [][CalibrationNext]_calibrationVars
  /\ WF_calibrationVars(LoopFrame)
  /\ \A c \in Clients : WF_calibrationVars(Execute(c))

-----------------------------------------------------------------------------
\* The last write to r that c's command has made so far is value.
LeftAt(c, r, value) ==
  /\ command[c] # "none"
  /\ \E i \in 1 .. pc[c] - 1 :
       /\ Program(command[c])[i] = <<r, value>>
       /\ \A j \in i + 1 .. pc[c] - 1 : Program(command[c])[j][1] # r

(***************************************************************************)
(* Nobody leaves the shutter closed behind: in spite of the unsynchronised *)
(* writes of the loop and of any number of commands, a closed shutter is   *)
(* always one that a nap or a command still running means to open.         *)
(***************************************************************************)
ShutterAccounted ==
  shutter = 1 =>
    \/ measurementNap > 0 /\ calibration >= 0
    \/ \E c \in Clients : LeftAt(c, "shutter", 1)

(***************************************************************************)
(* The scc core is in calibration only while a command runs that put it    *)
(* there, or as the last run left it: no command ends and leaves the       *)
(* sensor's images uncorrected.  A start does not repair what it finds.    *)
(***************************************************************************)
OpmodeAccounted ==
  scc.opmode = "calibrate" =>
    "opmode" \in unwritten \/ \E c \in Clients : LeftAt(c, "opmode", "calibrate")

(***************************************************************************)
(* Likewise the correction is bypassed, against the configuration, only    *)
(* while a calibration runs that needs it, or as the last run left it.     *)
(* (Saving then makes it the configuration: clamir_service.hpp:99.)        *)
(***************************************************************************)
BypassAccounted ==
  scc.bypass = 1 /\ bypassConfig = 0 =>
    "bypass" \in unwritten \/ \E c \in Clients : LeftAt(c, "bypass", 1)

(***************************************************************************)
(* sensor_calibrate takes its dark image through a closed shutter and its  *)
(* light one through an open one, unless somebody else has written the     *)
(* shutter since this command did (a nap, or another command).             *)
(***************************************************************************)
ImagesAreHonest ==
  [][\A c \in Clients :
       Execute(c) /\ mover = c
         => /\ Instruction(c) = <<"acquire", "min">> => shutter = 1
            /\ Instruction(c) = <<"acquire", "max">> => shutter = 0]_calibrationVars

\* Whoever closed it, a closed shutter opens again.
ShutterReopens == (shutter = 1) ~> (shutter = 0)

(***************************************************************************)
(* What nit_scc_core_calibrate says of itself (scc_core.cpp:1224-1225):    *)
(* "wait for calibration to complete", then "enable scc_core processing".  *)
(***************************************************************************)
ProcessesWhenComplete ==
  [][\A c \in Clients :
       Execute(c) /\ command[c] = "calibrate" /\ Instruction(c) = <<"opmode", "process">>
         => scc.mode = "idle"]_calibrationVars
=============================================================================
