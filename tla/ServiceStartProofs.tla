------------------------- MODULE ServiceStartProofs -------------------------
(***************************************************************************)
(* A start forgets what a run left unsaved, and torn files heal, for every *)
(* set of drivers, every order of the files and every set of registers.    *)
(***************************************************************************)
EXTENDS ServiceStart, TLAPS

LEMMA UpTo ==
  ASSUME NEW n \in Nat, NEW i \in 1 .. n
  PROVE  i \in 1 .. n - 1 \/ i = n
OBVIOUS

\* What a driver other than scc has restored.
Others == Drivers \ {"scc"}
Kept(d) == Owned[d] \cap Restored

\* The files a start loads hold what a first start finds.
FirstContents ==
  \A d \in Others : \A r \in Kept(d) : holds[BootName(d)][r] = Factory

\* Registers that no file can restore are still what a first start finds.
WholeOrFresh ==
  \A d \in Others : file[BootName(d)] # "whole" => \A r \in Kept(d) : reg[r] = Factory

\* What hangs on the i-th file of a start is restored.
Fresh(i) ==
  /\ BootOrder[i] \in Others => \A r \in Kept(BootOrder[i]) : reg[r] = Factory
  /\ BootOrder[i] = "scc" => \A r \in Defaulted : reg[r] = Factory

Handled(i) == file[BootName(BootOrder[i])] = "whole" /\ Fresh(i)

StartProgress ==
  phase = "starting" =>
    /\ \A i \in 1 .. at - 1 : Handled(i)
    /\ step \in {"open", "write"} => file[BootName(Current)] # "whole"
    /\ step = "reload" => file[BootName(Current)] = "whole"

\* A start fails at the service's own file, before any driver is open.
Served ==
  /\ phase = "serving" => \A d \in Names : file[BootName(d)] = "whole"
  /\ phase = "degraded" => Current = "service" /\ file[BootName("service")] = "torn"

ServiceInv == FirstContents /\ WholeOrFresh /\ StartProgress /\ Served

-----------------------------------------------------------------------------
\* A file of a start is no file of save_all, and has one owner.
LEMMA NamesApart ==
  /\ \A d, e : BootName(d) # SaveName(e)
  /\ \A d, e : BootName(d) = BootName(e) => d = e
<1>1. ASSUME NEW d, NEW e PROVE BootName(d) # SaveName(e)
  <2>1. "clamir-core-config" # "nit_core_config" OBVIOUS
  <2>2. QED BY <2>1 DEF BootName, SaveName
<1>2. ASSUME NEW d, NEW e, BootName(d) = BootName(e) PROVE d = e
  <2>1. BootName(d)[2] = BootName(e)[2] BY <1>2
  <2>2. QED BY <2>1 DEF BootName
<1>3. QED BY <1>1, <1>2

\* What the assumption on the parameters is used for.
LEMMA SaveOrderType ==
  Len(SaveOrder) \in Nat /\ \A i \in 1 .. Len(SaveOrder) : SaveOrder[i] \in Drivers
BY ServiceAssumption

LEMMA FactoryValue == Factory \in Values
BY ServiceAssumption

LEMMA RegisterSets ==
  /\ "scc" \in Drivers
  /\ \A d \in Drivers : Owned[d] \subseteq Registers
  /\ \A d, e \in Drivers : d # e => Owned[d] \cap Owned[e] = {}
  /\ \A r \in Restored : \E d \in Drivers : r \in Owned[d]
  /\ Defaulted \subseteq Registers /\ Defaulted \cap Owned["scc"] = {}
BY ServiceAssumption

LEMMA NameTypes ==
  /\ \A i \in DOMAIN BootOrder : BootOrder[i] \in Names /\ BootName(BootOrder[i]) \in Files
  /\ \A d \in Drivers : d \in Names /\ BootName(d) \in Files /\ SaveName(d) \in Files
  /\ "service" \in Names
  /\ 1 \in DOMAIN BootOrder
  /\ Len(BootOrder) \in Nat \ {0} /\ DOMAIN BootOrder = 1 .. Len(BootOrder)
<1>1. Len(BootOrder) \in Nat \ {0} /\ DOMAIN BootOrder = 1 .. Len(BootOrder)
  BY ServiceAssumption
<1>2. \A i \in DOMAIN BootOrder : BootOrder[i] \in Names /\ BootName(BootOrder[i]) \in Files
  BY DEF Names, Files
<1>3. \A d \in Drivers : d \in Names /\ BootName(d) \in Files /\ SaveName(d) \in Files
  BY DEF Drivers, Files
<1>4. "service" \in Names
  <2>1. BootOrder[1] = "service" BY ServiceAssumption
  <2>2. QED BY <1>1, <1>2, <2>1
<1>5. QED BY <1>1, <1>2, <1>3, <1>4

\* The file being saved is one of the files.
LEMMA SavedFileType ==
  ASSUME ServiceTypeOK, step \in {"open", "write"}
  PROVE  /\ SavedFile \in Files
         /\ phase = "starting" => SavedFile = BootName(Current)
         /\ phase # "starting" => saves \in 1 .. Len(SaveOrder) /\ SavedFile = SaveName(SaveOrder[saves])
<1>1. CASE phase = "starting"
  BY <1>1, NameTypes DEF ServiceTypeOK, SavedFile, Saved, Current
<1>2. CASE phase # "starting"
  <2>1. saves > 0 BY <1>2 DEF ServiceTypeOK
  <2>2. Len(SaveOrder) \in Nat BY SaveOrderType
  <2>3. saves \in 1 .. Len(SaveOrder) BY <2>1, <2>2 DEF ServiceTypeOK
  <2>4. SaveOrder[saves] \in Drivers BY <2>3, SaveOrderType
  <2>5. QED BY <1>2, <2>3, <2>4, NameTypes DEF SavedFile, Saved
<1>3. QED BY <1>1, <1>2

-----------------------------------------------------------------------------
\* The state's shape under each helper of the next-state relation.
LEMMA NextFileType ==
  ASSUME ServiceTypeOK, NextFile, phase = "starting", UNCHANGED saves
  PROVE  /\ phase' \in {"starting", "serving"} /\ at' \in DOMAIN BootOrder
         /\ step' \in {"idle", "load"} /\ (phase' = "starting" <=> step' = "load")
         /\ saves' = 0
<1>1. at \in 1 .. Len(BootOrder) BY NameTypes DEF ServiceTypeOK
<1>2. CASE at < Len(BootOrder)
  BY <1>1, <1>2, NameTypes DEF NextFile, ServiceTypeOK
<1>3. CASE ~(at < Len(BootOrder))
  BY <1>3, NameTypes DEF NextFile, ServiceTypeOK
<1>4. QED BY <1>2, <1>3

LEMMA NextSaveType ==
  ASSUME ServiceTypeOK, NextSave, phase # "starting", step # "idle", UNCHANGED phase
  PROVE  /\ saves' \in 0 .. Len(SaveOrder) /\ step' \in {"idle", "open"}
         /\ saves' > 0 <=> step' # "idle"
<1>1. Len(SaveOrder) \in Nat BY SaveOrderType
<1>2. QED BY <1>1 DEF NextSave, ServiceTypeOK

LEMMA RegTypes ==
  ASSUME ServiceTypeOK
  PROVE  /\ \A d \in Names : Loaded(d) \in [Registers -> Values]
         /\ \A d : Snapshot(d) \in [Registers -> Values]
         /\ Garbled \subseteq [Registers -> Values]
<1>1. \A d \in Names : Loaded(d) \in [Registers -> Values]
  <2> TAKE d \in Names
  <2>1. BootName(d) \in Files BY DEF Files
  <2>2. QED BY <2>1, FactoryValue DEF ServiceTypeOK, Loaded
<1>2. \A d : Snapshot(d) \in [Registers -> Values]
  BY FactoryValue DEF ServiceTypeOK, Snapshot
<1>3. QED BY <1>1, <1>2 DEF Garbled

LEMMA AfterWriteType ==
  ASSUME ServiceTypeOK, AfterWrite, step = "write"
  PROVE  /\ phase' \in {"starting", "serving", "degraded"}
         /\ at' \in DOMAIN BootOrder
         /\ step' \in {"idle", "load", "open", "write", "reload"}
         /\ saves' \in 0 .. Len(SaveOrder)
         /\ (step' \in {"load", "reload"}) => phase' = "starting"
         /\ (phase' = "starting") => step' # "idle" /\ saves' = 0
         /\ (saves' > 0) <=> phase' # "starting" /\ step' # "idle"
<1>1. CASE phase = "starting" /\ Current \in {"service", "scc"}
  BY <1>1 DEF AfterWrite, ServiceTypeOK
<1>2. CASE phase = "starting" /\ Current \notin {"service", "scc"}
  <2>1. NextFile /\ UNCHANGED saves BY <1>2 DEF AfterWrite
  <2>2. 0 \in 0 .. Len(SaveOrder) BY SaveOrderType
  <2>3. QED BY <1>2, <2>1, <2>2, NextFileType
<1>3. CASE phase # "starting"
  <2>1. NextSave /\ UNCHANGED <<phase, at>> BY <1>3 DEF AfterWrite
  <2>2. QED BY <1>3, <2>1, NextSaveType DEF ServiceTypeOK
<1>4. QED BY <1>1, <1>2, <1>3

LEMMA ServiceTypeStep ==
  ASSUME ServiceTypeOK, [ServiceNext]_serviceVars
  PROVE  ServiceTypeOK'
<1>0. Len(SaveOrder) \in Nat BY SaveOrderType
<1>1. CASE Start
  BY <1>1, NameTypes DEF Start, ServiceTypeOK
<1>2. CASE LoadFile
  <2>1. phase = "starting" /\ Current \in Names
    BY <1>2, NameTypes DEF LoadFile, ServiceTypeOK, Current
  <2>2. NextFile /\ UNCHANGED <<saves, file, holds, lost>> /\ reg' = Loaded(Current)
    BY <1>2 DEF LoadFile
  <2>3. reg' \in [Registers -> Values] BY <2>1, <2>2, RegTypes
  <2>4. QED BY <2>1, <2>2, <2>3, NextFileType DEF ServiceTypeOK
<1>3. CASE LoadFails
  <2>1. phase = "starting" BY <1>3 DEF LoadFails, ServiceTypeOK
  <2>2. reg' \in [Registers -> Values] BY <1>3, RegTypes DEF LoadFails, ServiceTypeOK
  <2>3. QED BY <1>3, <2>1, <2>2 DEF LoadFails, Degrade, ServiceTypeOK
<1>4. CASE OpenFile
  <2>1. SavedFile \in Files BY <1>4, SavedFileType DEF OpenFile
  <2>2. holds' \in [Files -> [Registers -> Values]]
    BY <1>4, <2>1, RegTypes DEF OpenFile, ServiceTypeOK
  <2>3. QED BY <1>4, <2>1, <2>2 DEF OpenFile, ServiceTypeOK
<1>5. CASE CloseFile
  <2>1. file' \in [Files -> {"absent", "torn", "whole"}]
    BY <1>5 DEF CloseFile, ServiceTypeOK
  <2>2. QED BY <1>5, <2>1, AfterWriteType DEF CloseFile, ServiceTypeOK
<1>6. CASE LoseFile
  BY <1>6, AfterWriteType DEF LoseFile, ServiceTypeOK
<1>7. CASE OpenFails
  <2>1. CASE phase = "starting"
    BY <1>7, <2>1 DEF OpenFails, Degrade, ServiceTypeOK
  <2>2. CASE phase # "starting"
    BY <1>7, <2>2, NextSaveType DEF OpenFails, ServiceTypeOK
  <2>3. QED BY <2>1, <2>2
<1>8. CASE SaveAll
  <2>1. Len(SaveOrder) > 0 BY <1>8 DEF SaveAll
  <2>2. QED BY <1>0, <1>8, <2>1 DEF SaveAll, Serving, ServiceTypeOK
<1>9. CASE WriteRegister
  <2>1. reg' \in [Registers -> Values] BY <1>9 DEF WriteRegister, ServiceTypeOK
  <2>2. QED BY <1>9, <2>1 DEF WriteRegister, ServiceTypeOK
<1>10. CASE Crash
  <2>1. reg' \in [Registers -> Values] BY <1>10, FactoryValue DEF Crash, ServiceTypeOK
  <2>2. QED BY <1>0, <1>10, <2>1, NameTypes DEF Crash, Down, ServiceTypeOK
<1>11. CASE PowerCut
  <2>1. reg' \in [Registers -> Values] BY <1>11, FactoryValue DEF PowerCut, ServiceTypeOK
  <2>2. file' \in [Files -> {"absent", "torn", "whole"}]
    BY <1>11 DEF PowerCut, ServiceTypeOK
  <2>3. QED BY <1>0, <1>11, <2>1, <2>2, NameTypes DEF PowerCut, Down, ServiceTypeOK
<1>12. CASE UNCHANGED serviceVars
  BY <1>12 DEF serviceVars, ServiceTypeOK
<1>13. QED
  BY <1>1, <1>2, <1>3, <1>4, <1>5, <1>6, <1>7, <1>8, <1>9, <1>10, <1>11, <1>12
  DEF ServiceNext

(***************************************************************************)
(* The phase, the position and the contents stay in their sets, and no     *)
(* file is being saved that is not there to save.                          *)
(***************************************************************************)
THEOREM ServiceTypeCorrect == ServiceSpec => []ServiceTypeOK
<1>1. ServiceInit => ServiceTypeOK
  <2> SUFFICES ASSUME ServiceInit PROVE ServiceTypeOK OBVIOUS
  <2>1. 0 \in 0 .. Len(SaveOrder) BY SaveOrderType
  <2>2. reg \in [Registers -> Values] /\ holds \in [Files -> [Registers -> Values]]
    BY FactoryValue DEF ServiceInit
  <2>3. file \in [Files -> {"absent", "torn", "whole"}]
    BY DEF ServiceInit
  <2>4. at \in DOMAIN BootOrder BY NameTypes DEF ServiceInit
  <2>5. saves \in 0 .. Len(SaveOrder) /\ ~(saves > 0) BY <2>1 DEF ServiceInit
  <2>6. QED BY <2>2, <2>3, <2>4, <2>5 DEF ServiceInit, ServiceTypeOK
<1>2. QED BY <1>1, ServiceTypeStep, PTL DEF ServiceSpec

-----------------------------------------------------------------------------
\* What no other driver's load can disturb.
LEMMA KeptApart ==
  /\ \A d \in Others : d \in Drivers /\ d # "scc" /\ d # "service"
  /\ \A d \in Others : \A r \in Kept(d) : r \in Registers /\ r \notin Owned["scc"] /\ r \in Restored
  /\ \A d \in Others, e \in Drivers : d # e => Kept(d) \cap Owned[e] = {}
  /\ \A r \in Defaulted : r \in Registers /\ r \notin Owned["scc"]
<1>1. \A d \in Others : d \in Drivers /\ d # "scc" /\ d # "service"
  BY DEF Others, Drivers
<1>2. \A d \in Others, e \in Drivers : d # e => Kept(d) \cap Owned[e] = {}
  BY <1>1, RegisterSets DEF Kept
<1>3. \A d \in Others : \A r \in Kept(d) : r \in Registers /\ r \notin Owned["scc"] /\ r \in Restored
  BY <1>1, <1>2, RegisterSets DEF Kept
<1>4. \A r \in Defaulted : r \in Registers /\ r \notin Owned["scc"]
  BY RegisterSets
<1>5. QED BY <1>1, <1>2, <1>3, <1>4

\* Loading a file keeps a register fresh that it does not make fresh.
LEMMA LoadedFresh ==
  ASSUME ServiceTypeOK, FirstContents,
         NEW d \in Names, NEW r \in Registers \ Owned["scc"], reg[r] = Factory
  PROVE  Loaded(d)[r] = Factory
<1>1. CASE r \in RegistersOf(d) \cap Restored
  <2>1. d \in Others /\ r \in Kept(d)
    BY <1>1 DEF RegistersOf, Others, Kept
  <2>2. holds[BootName(d)][r] = Factory BY <2>1 DEF FirstContents
  <2>3. QED BY <1>1, <2>2 DEF Loaded
<1>2. CASE r \notin RegistersOf(d) \cap Restored
  BY <1>2 DEF Loaded
<1>3. QED BY <1>1, <1>2

\* The file that has just been read, or written, is handled.
LEMMA LoadedHandled ==
  ASSUME ServiceTypeOK, FirstContents, NEW d \in Names
  PROVE  /\ d \in Others => \A r \in Kept(d) : Loaded(d)[r] = Factory
         /\ d = "scc" => \A r \in Defaulted : Loaded(d)[r] = Factory
<1>1. ASSUME d \in Others, NEW r \in Kept(d) PROVE Loaded(d)[r] = Factory
  <2>1. r \in RegistersOf(d) \cap Restored /\ r \in Registers
    BY <1>1, KeptApart DEF RegistersOf, Kept
  <2>2. holds[BootName(d)][r] = Factory BY <1>1 DEF FirstContents
  <2>3. QED BY <2>1, <2>2 DEF Loaded
<1>2. ASSUME d = "scc", NEW r \in Defaulted PROVE Loaded(d)[r] = Factory
  <2>1. r \in Registers /\ r \notin RegistersOf(d)
    BY <1>2, KeptApart DEF RegistersOf
  <2>2. QED BY <1>2, <2>1 DEF Loaded
<1>3. QED BY <1>1, <1>2

(***************************************************************************)
(* When initialize is done with a file, and what it has handled so far     *)
(* stays handled, the start goes on, or commands are served.               *)
(***************************************************************************)
LEMMA NextFileKeeps ==
  ASSUME ServiceTypeOK, phase = "starting", NextFile, \A i \in 1 .. at : Handled(i)'
  PROVE  StartProgress' /\ Served'
<1>1. at \in 1 .. Len(BootOrder) /\ Len(BootOrder) \in Nat
  BY NameTypes DEF ServiceTypeOK
<1>2. CASE at < Len(BootOrder)
  <2>1. phase' = "starting" /\ at' = at + 1 /\ step' = "load"
    BY <1>2 DEF NextFile
  <2>2. at' - 1 = at BY <1>1, <2>1
  <2>3. QED BY <2>1, <2>2 DEF StartProgress, Served
<1>3. CASE ~(at < Len(BootOrder))
  <2>1. phase' = "serving" BY <1>3 DEF NextFile
  <2>2. at = Len(BootOrder) BY <1>1, <1>3
  <2>3. ASSUME NEW d \in Names PROVE file'[BootName(d)] = "whole"
    <3>1. PICK i \in DOMAIN BootOrder : d = BootOrder[i] BY DEF Names
    <3>2. i \in 1 .. at BY <2>2, <3>1, NameTypes
    <3>3. QED BY <3>1, <3>2 DEF Handled
  <2>4. QED BY <2>1, <2>3 DEF StartProgress, Served
<1>4. QED BY <1>2, <1>3

\* When every driver is restored, every register is fresh.
LEMMA AllFresh ==
  ASSUME \A i \in DOMAIN BootOrder : Fresh(i)'
  PROVE  \A r \in (Restored \cup Defaulted) \ Owned["scc"] : reg'[r] = Factory
<1>1. ASSUME NEW r \in Restored \ Owned["scc"] PROVE reg'[r] = Factory
  <2>1. PICK d \in Drivers : r \in Owned[d] BY RegisterSets
  <2>2. d \in Others /\ r \in Kept(d) BY <1>1, <2>1 DEF Others, Kept
  <2>3. PICK i \in DOMAIN BootOrder : BootOrder[i] = d BY DEF Drivers, Names
  <2>4. QED BY <2>2, <2>3 DEF Fresh
<1>2. ASSUME NEW r \in Defaulted PROVE reg'[r] = Factory
  <2>1. PICK i \in DOMAIN BootOrder : BootOrder[i] = "scc" BY RegisterSets DEF Drivers, Names
  <2>2. QED BY <1>2, <2>1 DEF Fresh
<1>3. QED BY <1>1, <1>2

\* Registers that are fresh stay so under a change that keeps them fresh.
LEMMA FreshKept ==
  ASSUME NEW i \in DOMAIN BootOrder, Fresh(i),
         \A r \in Registers \ Owned["scc"] : reg[r] = Factory => reg'[r] = Factory
  PROVE  Fresh(i)'
<1>1. \A d \in Others : \A r \in Kept(d) : reg[r] = Factory => reg'[r] = Factory
  BY KeptApart
<1>2. \A r \in Defaulted : reg[r] = Factory => reg'[r] = Factory
  BY KeptApart
<1>3. QED BY <1>1, <1>2 DEF Fresh

\* A load, or the write of what could not be loaded, leaves its driver fresh.
LEMMA StepFresh ==
  ASSUME ServiceTypeOK, ServiceInv, phase = "starting",
         \/ LoadFile
         \/ (CloseFile \/ LoseFile) /\ Current \notin {"service", "scc"}
  PROVE  \A i \in 1 .. at : Fresh(i)'
<1>0. at \in DOMAIN BootOrder /\ at \in 1 .. Len(BootOrder) /\ Len(BootOrder) \in Nat
  BY NameTypes DEF ServiceTypeOK
<1>1. Current \in Names BY <1>0, NameTypes DEF Current
<1>2. ASSUME NEW i \in 1 .. at - 1 PROVE i \in DOMAIN BootOrder /\ Fresh(i)
  BY <1>0, NameTypes DEF ServiceInv, StartProgress, Handled
<1>3. CASE LoadFile
  <2>1. reg' = Loaded(Current) BY <1>3 DEF LoadFile
  <2>2. \A r \in Registers \ Owned["scc"] : reg[r] = Factory => reg'[r] = Factory
    BY <1>1, <2>1, LoadedFresh DEF ServiceInv
  <2>3. ASSUME NEW i \in 1 .. at, i = at PROVE Fresh(i)'
    <3>1. BootOrder[i] = Current BY <2>3 DEF Current
    <3>2. QED BY <1>1, <2>1, <3>1, LoadedHandled DEF ServiceInv, Fresh
  <2>4. ASSUME NEW i \in 1 .. at - 1 PROVE Fresh(i)'
    BY <1>2, <2>2, FreshKept
  <2>5. \A i \in 1 .. at : i \in 1 .. at - 1 \/ i = at BY <1>0, UpTo
  <2>6. QED BY <2>3, <2>4, <2>5
<1>4. CASE (CloseFile \/ LoseFile) /\ Current \notin {"service", "scc"}
  <2>1. reg' = reg BY <1>4 DEF CloseFile, LoseFile
  <2>2. step = "write" BY <1>4 DEF CloseFile, LoseFile
  <2>3. Current \in Others BY <1>1, <1>4 DEF Others, Drivers
  <2>4. file[BootName(Current)] # "whole" BY <2>2 DEF ServiceInv, StartProgress
  <2>5. \A r \in Kept(Current) : reg[r] = Factory
    BY <2>3, <2>4 DEF ServiceInv, WholeOrFresh
  <2>6. Fresh(at) BY <1>4, <2>5 DEF Fresh, Current
  <2>7. \A i \in 1 .. at : i \in 1 .. at - 1 \/ i = at BY <1>0, UpTo
  <2>8. QED BY <1>0, <1>2, <2>1, <2>6, <2>7, FreshKept
<1>5. QED BY <1>3, <1>4

-----------------------------------------------------------------------------
\* Outside of a start nothing touches the files that starts load.
LEMMA SavingKeeps ==
  ASSUME ServiceTypeOK, ServiceInv, phase # "starting", UNCHANGED <<phase, at, reg>>,
         \A d : file'[BootName(d)] = file[BootName(d)] /\ holds'[BootName(d)] = holds[BootName(d)]
  PROVE  ServiceInv'
<1>1. FirstContents' BY DEF ServiceInv, FirstContents
<1>2. WholeOrFresh' BY DEF ServiceInv, WholeOrFresh
<1>3. StartProgress' BY DEF StartProgress
<1>4. Served' BY DEF ServiceInv, Served, Current
<1>5. QED BY <1>1, <1>2, <1>3, <1>4 DEF ServiceInv

\* Registers that only get fresher, beside the same files.
LEMMA FresherKeeps ==
  ASSUME ServiceInv, UNCHANGED <<file, holds>>,
         \A r \in Registers \ Owned["scc"] : reg[r] = Factory => reg'[r] = Factory
  PROVE  FirstContents' /\ WholeOrFresh'
<1>1. FirstContents' BY DEF ServiceInv, FirstContents
<1>2. WholeOrFresh'
  <2> SUFFICES ASSUME NEW d \in Others, file[BootName(d)] # "whole", NEW r \in Kept(d)
               PROVE  reg'[r] = Factory
    BY DEF WholeOrFresh
  <2>1. reg[r] = Factory BY DEF ServiceInv, WholeOrFresh
  <2>2. QED BY <2>1, KeptApart
<1>3. QED BY <1>1, <1>2

LEMMA LoadFileKeeps ==
  ASSUME ServiceTypeOK, ServiceInv, LoadFile
  PROVE  ServiceInv'
<1>1. /\ phase = "starting" /\ Current \in Names /\ at \in DOMAIN BootOrder
      /\ at \in 1 .. Len(BootOrder) /\ Len(BootOrder) \in Nat
  BY NameTypes DEF LoadFile, ServiceTypeOK, Current
<1>2. NextFile /\ UNCHANGED <<file, holds>> /\ reg' = Loaded(Current)
  BY DEF LoadFile
<1>3. \A r \in Registers \ Owned["scc"] : reg[r] = Factory => reg'[r] = Factory
  BY <1>1, <1>2, LoadedFresh DEF ServiceInv
<1>4. FirstContents' /\ WholeOrFresh' BY <1>2, <1>3, FresherKeeps
<1>5. \A i \in 1 .. at : Fresh(i)' BY <1>1, StepFresh
<1>6. ASSUME NEW i \in 1 .. at PROVE file'[BootName(BootOrder[i])] = "whole"
  <2>1. CASE i = at BY <1>2, <2>1 DEF LoadFile, Current
  <2>2. CASE i \in 1 .. at - 1
    BY <1>1, <1>2, <2>2 DEF ServiceInv, StartProgress, Handled
  <2>3. QED BY <1>1, <2>1, <2>2, UpTo
<1>7. \A i \in 1 .. at : Handled(i)' BY <1>5, <1>6 DEF Handled
<1>8. StartProgress' /\ Served' BY <1>1, <1>2, <1>7, NextFileKeeps
<1>9. QED BY <1>4, <1>8 DEF ServiceInv

LEMMA LoadFailsKeeps ==
  ASSUME ServiceTypeOK, ServiceInv, LoadFails
  PROVE  ServiceInv'
<1>1. /\ phase = "starting" /\ at \in DOMAIN BootOrder
      /\ at \in 1 .. Len(BootOrder) /\ Len(BootOrder) \in Nat
  BY NameTypes DEF LoadFails, ServiceTypeOK
<1>2. file[BootName(Current)] # "whole" /\ UNCHANGED <<file, holds>>
  BY DEF LoadFails
<1>3. step = "load" BY <1>1, <1>2 DEF LoadFails, ServiceInv, StartProgress
<1>4. reg' \in Garbled \/ reg' = reg BY DEF LoadFails
<1>5. \A r \in Registers \ Owned["scc"] : reg'[r] = reg[r] BY <1>4 DEF Garbled
<1>6. FirstContents' /\ WholeOrFresh' BY <1>2, <1>5, FresherKeeps
<1>7. CASE Current = "service" /\ file[BootName("service")] = "torn"
  <2>1. phase' = "degraded" /\ at' = at BY <1>7 DEF LoadFails, Degrade
  <2>2. QED BY <1>2, <1>6, <1>7, <2>1 DEF ServiceInv, StartProgress, Served, Current
<1>8. CASE ~(Current = "service" /\ file[BootName("service")] = "torn")
  <2>1. step' = "open" /\ phase' = phase /\ at' = at BY <1>3, <1>8 DEF LoadFails
  <2>2. ASSUME NEW i \in 1 .. at - 1 PROVE Handled(i)'
    <3>1. Handled(i) /\ i \in DOMAIN BootOrder
      BY <1>1, NameTypes DEF ServiceInv, StartProgress
    <3>2. Fresh(i)' BY <1>5, <3>1, FreshKept DEF Handled
    <3>3. QED BY <1>2, <3>1, <3>2 DEF Handled
  <2>3. StartProgress' BY <1>2, <2>1, <2>2 DEF StartProgress, Current
  <2>4. Served' BY <1>1, <2>1 DEF Served
  <2>5. QED BY <1>6, <2>3, <2>4 DEF ServiceInv
<1>9. QED BY <1>7, <1>8

\* Where a start stands among its files.
LEMMA Position ==
  ASSUME ServiceTypeOK
  PROVE  /\ at \in DOMAIN BootOrder /\ at \in 1 .. Len(BootOrder)
         /\ Len(BootOrder) \in Nat /\ at \in Nat
         /\ Current \in Names /\ BootName(Current) \in Files
         /\ \A i \in 1 .. at - 1 :
              i \in DOMAIN BootOrder /\ BootName(BootOrder[i]) # BootName(Current)
<1>1. /\ at \in DOMAIN BootOrder /\ at \in 1 .. Len(BootOrder)
      /\ Len(BootOrder) \in Nat /\ at \in Nat
  BY NameTypes DEF ServiceTypeOK
<1>2. Current \in Names /\ BootName(Current) \in Files BY <1>1, NameTypes DEF Current
<1>3. ASSUME NEW i \in 1 .. at - 1
      PROVE  i \in DOMAIN BootOrder /\ BootName(BootOrder[i]) # BootName(Current)
  <2>1. i \in DOMAIN BootOrder /\ i # at BY <1>1, NameTypes
  <2>2. BootOrder[i] # BootOrder[at] BY <1>1, <2>1, ServiceAssumption
  <2>3. QED BY <2>1, <2>2, NamesApart DEF Current
<1>4. QED BY <1>1, <1>2, <1>3

LEMMA OpenFileKeeps ==
  ASSUME ServiceTypeOK, ServiceInv, OpenFile
  PROVE  ServiceInv'
<1>1. /\ UNCHANGED <<phase, at, saves, reg, lost>> /\ step = "open" /\ step' = "write"
      /\ file' = [file EXCEPT ![SavedFile] = "torn"]
      /\ holds' = [holds EXCEPT ![SavedFile] = Snapshot(Saved)]
  BY DEF OpenFile
<1>2. file \in [Files -> {"absent", "torn", "whole"}] /\ holds \in [Files -> [Registers -> Values]]
  BY DEF ServiceTypeOK
<1>3. CASE phase # "starting"
  <2>1. PICK d : SavedFile = SaveName(d) BY <1>1, <1>3, SavedFileType
  <2>2. \A e : file'[BootName(e)] = file[BootName(e)] /\ holds'[BootName(e)] = holds[BootName(e)]
    BY <1>1, <1>2, <2>1, NamesApart
  <2>3. QED BY <1>1, <1>3, <2>2, SavingKeeps
<1>4. CASE phase = "starting"
  <2>1. SavedFile = BootName(Current) /\ Saved = Current /\ Opened = Drivers
    BY <1>1, <1>4, SavedFileType DEF Saved, Opened
  <2>2. file[BootName(Current)] # "whole" /\ \A i \in 1 .. at - 1 : Handled(i)
    BY <1>1, <1>4 DEF ServiceInv, StartProgress
  <2>3. FirstContents'
    <3> SUFFICES ASSUME NEW d \in Others, NEW r \in Kept(d)
                 PROVE  holds'[BootName(d)][r] = Factory
      BY DEF FirstContents
    <3>1. d \in Drivers /\ BootName(d) \in Files /\ r \in Registers /\ r \in Owned[d] \cap Restored
      BY KeptApart, NameTypes DEF Kept
    <3>2. CASE d = Current
      <4>1. reg[r] = Factory BY <2>2, <3>2 DEF ServiceInv, WholeOrFresh
      <4>2. Snapshot(d)[r] = Factory BY <3>1, <4>1 DEF Snapshot
      <4>3. QED BY <1>1, <1>2, <2>1, <3>1, <3>2, <4>2
    <3>3. CASE d # Current
      <4>1. BootName(d) # BootName(Current) BY <3>3, NamesApart
      <4>2. QED BY <1>1, <1>2, <2>1, <3>1, <4>1 DEF ServiceInv, FirstContents
    <3>4. QED BY <3>2, <3>3
  <2>4. WholeOrFresh'
    <3> SUFFICES ASSUME NEW d \in Others, file'[BootName(d)] # "whole", NEW r \in Kept(d)
                 PROVE  reg[r] = Factory
      BY <1>1 DEF WholeOrFresh
    <3>1. file[BootName(d)] # "whole"
      BY <1>1, <1>2, <2>1, <2>2, NamesApart, KeptApart, NameTypes
    <3>2. QED BY <3>1 DEF ServiceInv, WholeOrFresh
  <2>5. \A i \in 1 .. at - 1 : Handled(i)'
    BY <1>1, <1>2, <2>1, <2>2, Position, NameTypes DEF Handled, Fresh
  <2>6. file'[BootName(Current)] = "torn"
    BY <1>1, <1>2, <2>1, Position
  <2>7. StartProgress' BY <1>1, <2>5, <2>6 DEF StartProgress, Current
  <2>8. Served' BY <1>1, <1>4 DEF Served
  <2>9. QED BY <2>3, <2>4, <2>7, <2>8 DEF ServiceInv
<1>5. QED BY <1>3, <1>4

LEMMA CloseFileKeeps ==
  ASSUME ServiceTypeOK, ServiceInv, CloseFile
  PROVE  ServiceInv'
<1>1. /\ UNCHANGED <<holds, reg, lost>> /\ step = "write" /\ AfterWrite
      /\ file' = [file EXCEPT ![SavedFile] = "whole"]
  BY DEF CloseFile
<1>2. file \in [Files -> {"absent", "torn", "whole"}]
  BY DEF ServiceTypeOK
<1>3. CASE phase # "starting"
  <2>1. PICK d : SavedFile = SaveName(d) BY <1>1, <1>3, SavedFileType
  <2>2. \A e : file'[BootName(e)] = file[BootName(e)]
    BY <1>1, <1>2, <2>1, NamesApart
  <2>3. UNCHANGED <<phase, at>> BY <1>1, <1>3 DEF AfterWrite
  <2>4. QED BY <1>1, <1>3, <2>2, <2>3, SavingKeeps
<1>4. CASE phase = "starting"
  <2>1. SavedFile = BootName(Current) BY <1>1, <1>4, SavedFileType
  <2>2. \A i \in 1 .. at - 1 : Handled(i) BY <1>4 DEF ServiceInv, StartProgress
  <2>3. FirstContents' BY <1>1 DEF ServiceInv, FirstContents
  <2>4. WholeOrFresh'
    <3> SUFFICES ASSUME NEW d \in Others, file'[BootName(d)] # "whole", NEW r \in Kept(d)
                 PROVE  reg[r] = Factory
      BY <1>1 DEF WholeOrFresh
    <3>1. file[BootName(d)] # "whole"
      BY <1>1, <1>2, <2>1, NamesApart, KeptApart, NameTypes
    <3>2. QED BY <3>1 DEF ServiceInv, WholeOrFresh
  <2>5. file'[BootName(Current)] = "whole" BY <1>1, <1>2, <2>1, Position
  <2>6. ASSUME NEW i \in 1 .. at - 1 PROVE file'[BootName(BootOrder[i])] = "whole"
    BY <1>1, <1>2, <2>1, <2>2, Position DEF Handled
  <2>7. CASE Current \in {"service", "scc"}
    <3>1. step' = "reload" /\ phase' = phase /\ at' = at
      BY <1>1, <1>4, <2>7 DEF AfterWrite
    <3>2. \A i \in 1 .. at - 1 : Handled(i)'
      BY <1>1, <2>2, <2>6 DEF Handled, Fresh
    <3>3. StartProgress' BY <2>5, <3>1, <3>2 DEF StartProgress, Current
    <3>4. Served' BY <1>4, <3>1 DEF Served
    <3>5. QED BY <2>3, <2>4, <3>3, <3>4 DEF ServiceInv
  <2>8. CASE Current \notin {"service", "scc"}
    <3>1. NextFile BY <1>1, <1>4, <2>8 DEF AfterWrite
    <3>2. \A i \in 1 .. at : Fresh(i)' BY <1>4, <2>8, StepFresh
    <3>3. ASSUME NEW i \in 1 .. at PROVE file'[BootName(BootOrder[i])] = "whole"
      <4>1. i \in 1 .. at - 1 \/ i = at BY Position, UpTo
      <4>2. QED BY <2>5, <2>6, <4>1 DEF Current
    <3>4. \A i \in 1 .. at : Handled(i)' BY <3>2, <3>3 DEF Handled
    <3>5. StartProgress' /\ Served' BY <1>4, <3>1, <3>4, NextFileKeeps
    <3>6. QED BY <2>3, <2>4, <3>5 DEF ServiceInv
  <2>9. QED BY <2>7, <2>8
<1>5. QED BY <1>3, <1>4

\* While nothing of a start has been lost, what starts rely on is kept.
LEMMA ServiceInvStep ==
  ASSUME ServiceTypeOK, ~lost => ServiceInv, [ServiceNext]_serviceVars
  PROVE  (~lost => ServiceInv)'
<1>0. SUFFICES ASSUME ~lost' PROVE ServiceInv' OBVIOUS
<1>1. ~lost /\ ServiceInv
  BY <1>0 DEF ServiceNext, serviceVars, Start, LoadFile, LoadFails, OpenFile, CloseFile,
     LoseFile, OpenFails, SaveAll, WriteRegister, Crash, PowerCut, ServiceTypeOK
<1>2. CASE Start
  <2>1. UNCHANGED <<file, holds, reg>> /\ phase' = "starting" /\ at' = 1 /\ step' = "load"
    BY <1>2 DEF Start
  <2>2. FirstContents' /\ WholeOrFresh' BY <1>1, <2>1, FresherKeeps
  <2>3. \A i \in 1 .. at' - 1 : FALSE BY <2>1
  <2>4. QED BY <2>1, <2>2, <2>3 DEF ServiceInv, StartProgress, Served
<1>3. CASE LoadFile BY <1>1, <1>3, LoadFileKeeps
<1>4. CASE LoadFails BY <1>1, <1>4, LoadFailsKeeps
<1>5. CASE OpenFile BY <1>1, <1>5, OpenFileKeeps
<1>6. CASE CloseFile BY <1>1, <1>6, CloseFileKeeps
<1>7. CASE LoseFile
  <2>1. phase # "starting" BY <1>0, <1>7 DEF LoseFile
  <2>2. UNCHANGED <<phase, at, reg, file, holds>> BY <1>7, <2>1 DEF LoseFile, AfterWrite
  <2>3. QED BY <1>1, <2>1, <2>2, SavingKeeps
<1>8. CASE OpenFails
  <2>1. phase # "starting" BY <1>0, <1>8 DEF OpenFails
  <2>2. UNCHANGED <<phase, at, reg, file, holds>> BY <1>8, <2>1 DEF OpenFails
  <2>3. QED BY <1>1, <2>1, <2>2, SavingKeeps
<1>9. CASE SaveAll
  <2>1. phase # "starting" /\ UNCHANGED <<phase, at, reg, file, holds>>
    BY <1>9 DEF SaveAll, Serving
  <2>2. QED BY <1>1, <2>1, SavingKeeps
<1>10. CASE WriteRegister
  <2>1. phase # "starting" /\ UNCHANGED <<phase, at, file, holds>> /\ Opened # {}
    BY <1>10 DEF WriteRegister, Serving
  <2>2. phase = "serving"
    BY <1>1, <1>10, <2>1 DEF WriteRegister, Serving, ServiceInv, Served, Opened
  <2>3. \A d \in Others : file'[BootName(d)] = "whole"
    BY <1>1, <2>1, <2>2, KeptApart, NameTypes DEF ServiceInv, Served
  <2>4. WholeOrFresh' BY <2>3 DEF WholeOrFresh
  <2>5. FirstContents' BY <1>1, <2>1 DEF ServiceInv, FirstContents
  <2>6. Served' /\ StartProgress'
    BY <1>1, <2>1, <2>2 DEF ServiceInv, Served, StartProgress
  <2>7. QED BY <2>4, <2>5, <2>6 DEF ServiceInv
<1>11. CASE Crash
  <2>1. phase' = "down" /\ UNCHANGED <<file, holds>> BY <1>11 DEF Crash, Down
  <2>2. \A r \in Registers \ Owned["scc"] : reg[r] = Factory => reg'[r] = Factory
    BY <1>11 DEF Crash
  <2>3. FirstContents' /\ WholeOrFresh' BY <1>1, <2>1, <2>2, FresherKeeps
  <2>4. QED BY <2>1, <2>3 DEF ServiceInv, StartProgress, Served
<1>12. CASE PowerCut
  <2>1. phase' = "down" /\ UNCHANGED holds /\ \A r \in Registers : reg'[r] = Factory
    BY <1>12 DEF PowerCut, Down
  <2>2. WholeOrFresh' BY <2>1, KeptApart DEF WholeOrFresh
  <2>3. FirstContents' BY <1>1, <2>1 DEF ServiceInv, FirstContents
  <2>4. QED BY <2>1, <2>2, <2>3 DEF ServiceInv, StartProgress, Served
<1>13. CASE UNCHANGED serviceVars
  <2>1. UNCHANGED <<phase, at, step, file, holds, reg>> BY <1>13 DEF serviceVars
  <2>2. FirstContents' /\ WholeOrFresh'
    BY <1>1, <2>1 DEF ServiceInv, FirstContents, WholeOrFresh
  <2>3. StartProgress' /\ Served'
    BY <1>1, <2>1 DEF ServiceInv, StartProgress, Served, Handled, Fresh, Current
  <2>4. QED BY <2>2, <2>3 DEF ServiceInv
<1>14. QED
  BY <1>2, <1>3, <1>4, <1>5, <1>6, <1>7, <1>8, <1>9, <1>10, <1>11, <1>12, <1>13
  DEF ServiceNext

LEMMA ServiceInvInit == ServiceInit => ServiceInv
<1> SUFFICES ASSUME ServiceInit PROVE ServiceInv OBVIOUS
<1>1. /\ phase = "down"
      /\ \A f \in Files : \A r \in Registers : holds[f][r] = Factory
      /\ \A r \in Registers : reg[r] = Factory
  BY DEF ServiceInit
<1>2. FirstContents BY <1>1, KeptApart, NameTypes DEF FirstContents
<1>3. WholeOrFresh BY <1>1, KeptApart DEF WholeOrFresh
<1>4. QED BY <1>1, <1>2, <1>3 DEF ServiceInv, StartProgress, Served

LEMMA ServiceInvariant == ServiceSpec => [](~lost => ServiceInv)
<1>1. ServiceInit => (~lost => ServiceInv) BY ServiceInvInit
<1>2. ServiceTypeOK /\ (~lost => ServiceInv) /\ [ServiceNext]_serviceVars => (~lost => ServiceInv)'
  BY ServiceInvStep
<1>3. QED BY <1>1, <1>2, ServiceTypeCorrect, PTL DEF ServiceSpec

(***************************************************************************)
(* Unless a start's write was refused or lost, every file of the start is  *)
(* whole once commands are served, and only the service's own torn file    *)
(* makes a start fail.                                                     *)
(***************************************************************************)
THEOREM TornFilesHeal == ServiceSpec => []StartHeals
<1>1. (~lost => ServiceInv) => StartHeals
  BY DEF ServiceInv, Served, StartHeals
<1>2. QED BY <1>1, ServiceInvariant, PTL

(***************************************************************************)
(* Unless a start's write was refused or lost, no run before it shows in   *)
(* what a start restores: a shutter left closed is open again, and no      *)
(* setting has a value that was written and not saved.                     *)
(***************************************************************************)
THEOREM StartsForget == ServiceSpec => UnsavedIsForgotten
<1> DEFINE Begins ==
      (phase = "starting" /\ phase' = "serving" /\ ~lost)
        => \A d \in Drivers \ {"scc"} : \A r \in Owned[d] \cap (Restored \cup Defaulted) :
             /\ reg'[r] \in {Factory, LastSaved(d, r)}
             /\ r \in Momentary => reg'[r] = Factory
<1>1. ASSUME ServiceTypeOK, ~lost => ServiceInv, [ServiceNext]_serviceVars
      PROVE  [Begins]_serviceVars
  <2> SUFFICES ASSUME phase = "starting", phase' = "serving", ~lost,
                      NEW d \in Drivers \ {"scc"},
                      NEW r \in Owned[d] \cap (Restored \cup Defaulted)
               PROVE  reg'[r] = Factory
    OBVIOUS
  <2>1. LoadFile \/ CloseFile \/ LoseFile
    BY <1>1 DEF ServiceNext, serviceVars, Start, LoadFails, OpenFile, OpenFails, SaveAll,
       WriteRegister, Crash, PowerCut, Down, Degrade, Serving
  <2>2. NextFile /\ (LoadFile \/ Current \notin {"service", "scc"})
    BY <2>1 DEF LoadFile, CloseFile, LoseFile, AfterWrite
  <2>3. \A i \in 1 .. at : Fresh(i)' BY <1>1, <2>1, <2>2, StepFresh
  <2>4. at = Len(BootOrder) BY <1>1, <2>2, Position DEF NextFile
  <2>5. DOMAIN BootOrder = 1 .. at BY <2>4, NameTypes
  <2>6. r \notin Owned["scc"] BY RegisterSets
  <2>7. QED BY <2>3, <2>5, <2>6, AllFresh
<1>2. ServiceSpec => [][Begins]_serviceVars
  BY <1>1, ServiceTypeCorrect, ServiceInvariant, PTL DEF ServiceSpec
<1>3. QED BY <1>2 DEF UnsavedIsForgotten, Begins
=============================================================================
