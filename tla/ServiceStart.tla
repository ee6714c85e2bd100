---------------------------- MODULE ServiceStart ----------------------------
(***************************************************************************)
(* The start of the service (clamir_service::initialize) and the save      *)
(* command (clamir_service::save_all), across crashes and power cuts.      *)
(*                                                                         *)
(* Every driver has a configuration file that initialize loads into the    *)
(* registers, or writes from the registers if it cannot be loaded.  The    *)
(* registers of the FPGA outlive the process, so what a start finds in     *)
(* them is what the last run left there: only the files make a start       *)
(* independent of it.  A file is truncated and then written, so a crash    *)
(* in between leaves it torn.                                              *)
(***************************************************************************)
EXTENDS Naturals, Sequences

CONSTANTS
  BootOrder,  \* the order initialize handles the files in:
              \* <<"service", "scc", "arm", "control_unit", "mb", "process">>
  SaveOrder,  \* the order save_all writes them in:
              \* <<"arm", "control_unit", "mb", "process", "scc">>
  Registers,  \* what the drivers hold, the configuration of scc included
  Owned,      \* the registers of each driver
  Restored,   \* registers a driver's config_load_from_file writes
  Defaulted,  \* registers initialize writes itself, once scc is open
  Momentary,  \* registers that say what a run is doing, not how it is set up:
              \* the shutter
  Values,     \* what a register can hold
  Factory     \* what it holds after a power cut, or as initialize writes it

Names == {BootOrder[i] : i \in DOMAIN BootOrder}
Drivers == Names \ {"service"}

ASSUME ServiceAssumption ==
  /\ BootOrder \in Seq(STRING)
  /\ BootOrder # <<>>
  /\ BootOrder[1] = "service"
  /\ \A i, j \in DOMAIN BootOrder : BootOrder[i] = BootOrder[j] => i = j
  /\ SaveOrder \in Seq(Drivers)
  /\ Owned \in [Drivers -> SUBSET Registers]
  /\ \A d, e \in Drivers : d # e => Owned[d] \cap Owned[e] = {}
  /\ Restored \subseteq UNION {Owned[d] : d \in Drivers}
  /\ Defaulted \subseteq Registers
  /\ Momentary \subseteq Restored \ Owned["scc"]
  /\ "scc" \in Drivers /\ Defaulted \cap Owned["scc"] = {}
  /\ Factory \in Values

\* Definitions named X_Slip are slips a change of the code could make in X.

\* initialize and save_all do not agree on the names of the files.
BootName(d) == <<"clamir-core-config", d>>
SaveName(d) == <<"nit_core_config", d>>
Files == {BootName(d) : d \in Names} \cup {SaveName(d) : d \in Drivers}

\* Registers in the memory of the process: a new process finds them fresh.
Volatile == UNION {Owned[d] : d \in Drivers \cap {"scc", "process"}}

VARIABLES
  phase,    \* "starting", "serving", "degraded": a start that failed, or "down"
  at,       \* the file the start has reached
  step,     \* what is being done with a file
  saves,    \* the file save_all has reached, 0 outside of it
  file,     \* "absent", "torn": it does not load, or "whole"
  holds,    \* what each file says of the registers of its driver
  reg,      \* the registers
  lost      \* history: some write of a start was refused, or lost unnoticed

serviceVars == <<phase, at, step, saves, file, holds, reg, lost>>

ServiceTypeOK ==
  /\ phase \in {"down", "starting", "serving", "degraded"}
  /\ at \in DOMAIN BootOrder
  /\ step \in {"idle", "load", "open", "write", "reload"}
  /\ saves \in 0 .. Len(SaveOrder)
  /\ file \in [Files -> {"absent", "torn", "whole"}]
  /\ holds \in [Files -> [Registers -> Values]]
  /\ reg \in [Registers -> Values]
  /\ lost \in BOOLEAN
  /\ (step \in {"load", "reload"}) => phase = "starting"
  /\ (phase = "starting") => step # "idle" /\ saves = 0
  /\ (saves > 0) <=> phase # "starting" /\ step # "idle"
  /\ (phase = "down") => step = "idle"

ServiceInit ==
  /\ phase = "down"
  /\ at = 1
  /\ step = "idle"
  /\ saves = 0
  /\ file = [f \in Files |-> "absent"]
  /\ holds = [f \in Files |-> [r \in Registers |-> Factory]]
  /\ reg = [r \in Registers |-> Factory]
  /\ lost = FALSE

Current == BootOrder[at]
RegistersOf(d) == IF d \in Drivers THEN Owned[d] ELSE {}

\* The file a save is writing, and whose it is.
Saved == IF phase = "starting" THEN Current ELSE SaveOrder[saves]
SavedFile == IF phase = "starting" THEN BootName(Current) ELSE SaveName(Saved)

(***************************************************************************)
(* The drivers whose setters and getters do anything.  initialize opens    *)
(* arm, control_unit and mb before it loads scc, scc once it is loaded,    *)
(* and process before it loads process.                                    *)
(***************************************************************************)
Opened ==
  IF phase # "degraded" THEN Drivers
  ELSE IF Current = "service" THEN {}
  ELSE Drivers \ (IF Current = "scc" THEN {"scc", "process"} ELSE {"process"} \ {Current})

Start ==
  /\ phase = "down"
  /\ phase' = "starting"
  /\ at' = 1
  /\ step' = "load"
  /\ UNCHANGED <<saves, file, holds, reg, lost>>

\* initialize is done with a file; after the last one commands are served.
NextFile ==
  IF at < Len(BootOrder)
  THEN phase' = "starting" /\ at' = at + 1 /\ step' = "load"
  ELSE phase' = "serving" /\ at' = 1 /\ step' = "idle"

(***************************************************************************)
(* initialize returns -1.  Its caller ignores that and serves the commands *)
(* with what has been opened.                                              *)
(***************************************************************************)
Degrade ==
  /\ phase' = "degraded"
  /\ step' = "idle"
  /\ UNCHANGED at

\* Reads the file and leaves the FPGA alone, as control_unit_core.cpp:130 does.
Loaded_FileOnly(d) ==
  [r \in Registers |-> IF d = "scc" /\ r \in Defaulted THEN Factory ELSE reg[r]]

\* config_load_from_file; after scc, initialize writes its own defaults.
Loaded(d) ==
  [r \in Registers |->
     IF r \in RegistersOf(d) \cap Restored THEN holds[BootName(d)][r]
     ELSE IF d = "scc" /\ r \in Defaulted THEN Factory
     ELSE reg[r]]

LoadFile ==
  /\ step \in {"load", "reload"}
  /\ file[BootName(Current)] = "whole"
  /\ reg' = Loaded(Current)
  /\ NextFile
  /\ UNCHANGED <<saves, file, holds, lost>>

\* The configuration of scc is in memory, and the load may get halfway.
Garbled ==
  {v \in [Registers -> Values] : \A r \in Registers \ Owned["scc"] : v[r] = reg[r]}

LoadFails_Strict ==
  /\ step \in {"load", "reload"}
  /\ file[BootName(Current)] # "whole"
  /\ UNCHANGED reg
  /\ IF step = "reload" \/ file[BootName(Current)] = "torn"
     THEN Degrade
     ELSE step' = "open" /\ UNCHANGED <<phase, at>>
  /\ UNCHANGED <<saves, file, holds, lost>>

\* The service writes its file only if there is none.
LoadFails ==
  /\ step \in {"load", "reload"}
  /\ file[BootName(Current)] # "whole"
  /\ reg' \in IF Current = "scc" /\ file[BootName("scc")] = "torn" THEN Garbled ELSE {reg}
  /\ IF \/ Current \in {"service", "scc"} /\ step = "reload"
        \/ Current = "service" /\ file[BootName("service")] = "torn"
     THEN Degrade
     ELSE step' = "open" /\ UNCHANGED <<phase, at>>
  /\ UNCHANGED <<saves, file, holds, lost>>

\* What config_save_to_file collects: getters of a closed driver fail.
Snapshot(d) ==
  [r \in Registers |-> IF r \in RegistersOf(d) \cap Restored /\ d \in Opened \cup {"scc"}
                       THEN reg[r] ELSE Factory]

\* The getters of process are checked, those of the others are not.
OpenFile ==
  /\ step = "open"
  /\ Saved = "process" => "process" \in Opened
  /\ step' = "write"
  /\ file' = [file EXCEPT ![SavedFile] = "torn"]
  /\ holds' = [holds EXCEPT ![SavedFile] = Snapshot(Saved)]
  /\ UNCHANGED <<phase, at, saves, reg, lost>>

NextSave ==
  IF saves < Len(SaveOrder)
  THEN saves' = saves + 1 /\ step' = "open"
  ELSE saves' = 0 /\ step' = "idle"

\* The service and scc load what they have just written.
AfterWrite ==
  IF phase = "starting"
  THEN /\ IF Current \in {"service", "scc"}
          THEN step' = "reload" /\ UNCHANGED <<phase, at>>
          ELSE NextFile
       /\ UNCHANGED saves
  ELSE NextSave /\ UNCHANGED <<phase, at>>

CloseFile ==
  /\ step = "write"
  /\ file' = [file EXCEPT ![SavedFile] = "whole"]
  /\ AfterWrite
  /\ UNCHANGED <<holds, reg, lost>>

\* The disk is full when the stream is destroyed, and nobody is told.
LoseFile ==
  /\ step = "write"
  /\ lost' = (lost \/ phase = "starting")
  /\ AfterWrite
  /\ UNCHANGED <<file, holds, reg>>

\* A file that cannot be opened fails a start; save_all goes on.
OpenFails ==
  /\ step = "open"
  /\ IF phase = "starting"
     THEN Degrade /\ lost' = TRUE /\ UNCHANGED saves
     ELSE NextSave /\ UNCHANGED <<phase, at, lost>>
  /\ UNCHANGED <<file, holds, reg>>

Serving == phase \in {"serving", "degraded"}

\* The save command.
SaveAll ==
  /\ Serving
  /\ saves = 0
  /\ SaveOrder # <<>>
  /\ saves' = 1
  /\ step' = "open"
  /\ UNCHANGED <<phase, at, file, holds, reg, lost>>

\* A command, or the process loop, writes a register.
WriteRegister ==
  /\ Serving
  /\ \E d \in Opened : \E r \in Owned[d], v \in Values : reg' = [reg EXCEPT ![r] = v]
  /\ UNCHANGED <<phase, at, step, saves, file, holds, lost>>

Down ==
  /\ phase' = "down"
  /\ at' = 1
  /\ step' = "idle"
  /\ saves' = 0

Crash ==
  /\ phase # "down"
  /\ Down
  /\ reg' = [r \in Registers |-> IF r \in Volatile THEN Factory ELSE reg[r]]
  /\ UNCHANGED <<file, holds, lost>>

(***************************************************************************)
(* Nothing is ever synced: a power cut may cost any file its contents, one *)
(* at a time here, since the power may be cut again.                       *)
(***************************************************************************)
PowerCut ==
  /\ Down
  /\ reg' = [r \in Registers |-> Factory]
  /\ \/ UNCHANGED file
     \/ \E f \in Files : file[f] # "absent" /\ file' = [file EXCEPT ![f] = "torn"]
  /\ UNCHANGED <<holds, lost>>

ServiceNext ==
  \/ Start \/ LoadFile \/ LoadFails
  \/ OpenFile \/ CloseFile \/ LoseFile \/ OpenFails
  \/ SaveAll \/ WriteRegister
  \/ Crash \/ PowerCut

ServiceSpec == ServiceInit /\ [][ServiceNext]_serviceVars

-----------------------------------------------------------------------------
(***************************************************************************)
(* What nobody saved does not outlive a run.  When a start begins to serve *)
(* commands, whatever the runs before it wrote or left behind in the FPGA: *)
(*   - the shutter is open, even if the last run died in the middle of a   *)
(*     nap or saved its registers there;                                   *)
(*   - every setting has its factory value or the one of the last save of  *)
(*     its driver, and not one that a command wrote and nobody saved.      *)
(* Excepted are scc (a torn file may be saved again half read) and the     *)
(* registers nobody restores, the PWM duty for one.  That a save is never  *)
(* restored at all is not asked for here: see SavedSettingsReachStart.     *)
(***************************************************************************)
LastSaved(d, r) == holds[SaveName(d)][r]

UnsavedIsForgotten ==
  [][(phase = "starting" /\ phase' = "serving" /\ ~lost)
       => \A d \in Drivers \ {"scc"} : \A r \in Owned[d] \cap (Restored \cup Defaulted) :
            /\ reg'[r] \in {Factory, LastSaved(d, r)}
            /\ r \in Momentary => reg'[r] = Factory]_serviceVars

(***************************************************************************)
(* Torn files heal: once commands are served every file of the start can   *)
(* be loaded again, and the one thing that keeps a start from that is a    *)
(* torn file of the service itself (no crash, no power cut and no torn     *)
(* file of a driver does).                                                 *)
(***************************************************************************)
StartHeals ==
  ~lost =>
    /\ phase = "serving" => \A d \in Names : file[BootName(d)] = "whole"
    /\ phase = "degraded" => file[BootName("service")] = "torn"

(***************************************************************************)
(* What the save command is for.  TODO.md:22-25 names as the one thing the *)
(* old daemon lacks that it does not save the controller's parameters, and *)
(* asks for the drivers that save_all calls: a start restores every        *)
(* setting that the last save, if it is whole, has of it.                  *)
(***************************************************************************)
SavedSettingsReachStart ==
  [][(phase = "starting" /\ phase' = "serving" /\ ~lost)
       => \A d \in Drivers : file[SaveName(d)] = "whole" =>
            \A r \in (Owned[d] \cap Restored) \ Momentary :
              reg'[r] = LastSaved(d, r)]_serviceVars
=============================================================================
