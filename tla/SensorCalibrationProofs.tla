---------------------- MODULE SensorCalibrationProofs ----------------------
(***************************************************************************)
(* Nobody leaves the shutter closed or the scc core in calibration behind, *)
(* for every number of clients and every nap that outlives its count; and  *)
(* no command undoes the light its images are taken in.                    *)
(***************************************************************************)
EXTENDS SensorCalibration, SequenceTheorems, TLAPS

USE AutoshutterAssumption, CalibrationAssumption

\* A program that writes on to r writes r again before its last instruction.
GivesBack(p, r, on) ==
  \A i \in 1 .. Len(p) :
    p[i] = <<r, on>> => \E k \in i + 1 .. Len(p) - 1 : p[k][1] = r

\* Every register is given a value of its own.
LegalWrite(w) ==
  /\ w = <<w[1], w[2]>>
  /\ w[1] \in {"shutter", "offsetUpdate", "bypass"} => w[2] \in {0, 1}
  /\ w[1] = "opmode" => w[2] \in {"process", "calibrate"}
  /\ w[1] = "mode" => w[2] \in {"idle", "min", "max", "updating"}

\* What the induction needs of a program.
WellFormed(p) ==
  /\ Len(p) \in Nat \ {0}
  /\ GivesBack(p, "shutter", 1)
  /\ GivesBack(p, "opmode", "calibrate")
  /\ GivesBack(p, "bypass", 1)
  /\ \A i \in 1 .. Len(p) : LegalWrite(p[i])

LEMMA SccCalibrateWellFormed == WellFormed(SccCalibrate)
<1> DEFINE p == SccCalibrate
<1>1. Len(p) = 10
  BY DEF SccCalibrate
<1>2. /\ p[1] = <<"offsetUpdate", 1>> /\ p[2] = <<"opmode", "calibrate">>
      /\ p[3] = <<"mode", "min">> /\ p[4] = <<"shutter", 1>>
      /\ p[5] = <<"mode", "max">> /\ p[6] = <<"shutter", 0>>
      /\ p[7] = <<"mode", "updating">> /\ p[8] = <<"wait", "idle">>
      /\ p[9] = <<"opmode", "process">> /\ p[10] = <<"offsetUpdate", 0>>
  BY DEF SccCalibrate
<1> HIDE DEF p
<1>3. \A i \in 1 .. 10 : i = 1 \/ i = 2 \/ i = 3 \/ i = 4 \/ i = 5 \/ i = 6 \/ i = 7
                         \/ i = 8 \/ i = 9 \/ i = 10
  OBVIOUS
<1>4. GivesBack(p, "shutter", 1)
  <2> SUFFICES ASSUME NEW i \in 1 .. 10, p[i] = <<"shutter", 1>>
               PROVE  \E k \in i + 1 .. 9 : p[k][1] = "shutter"
    BY <1>1 DEF GivesBack
  <2>1. i = 4 BY <1>2, <1>3
  <2>2. 6 \in i + 1 .. 9 /\ p[6][1] = "shutter" BY <1>2, <2>1
  <2>3. QED BY <2>2
<1>5. GivesBack(p, "opmode", "calibrate")
  <2> SUFFICES ASSUME NEW i \in 1 .. 10, p[i] = <<"opmode", "calibrate">>
               PROVE  \E k \in i + 1 .. 9 : p[k][1] = "opmode"
    BY <1>1 DEF GivesBack
  <2>1. i = 2 BY <1>2, <1>3
  <2>2. 9 \in i + 1 .. 9 /\ p[9][1] = "opmode" BY <1>2, <2>1
  <2>3. QED BY <2>2
<1>6. GivesBack(p, "bypass", 1)
  BY <1>1, <1>2, <1>3 DEF GivesBack
<1>7. \A i \in 1 .. 10 : LegalWrite(p[i])
  BY <1>2, <1>3 DEF LegalWrite
<1>8. QED BY <1>1, <1>4, <1>5, <1>6, <1>7 DEF WellFormed, p

LEMMA SensorCalibrateWellFormed == WellFormed(SensorCalibrate)
<1> DEFINE p == SensorCalibrate
<1>1. Len(p) = 12
  BY DEF SensorCalibrate
<1>2. /\ p[1] = <<"offsetUpdate", 1>> /\ p[2] = <<"bypass", 1>>
      /\ p[3] = <<"opmode", "calibrate">> /\ p[4] = <<"mode", "min">>
      /\ p[5] = <<"shutter", 1>> /\ p[6] = <<"acquire", "min">>
      /\ p[7] = <<"mode", "max">> /\ p[8] = <<"shutter", 0>>
      /\ p[9] = <<"acquire", "max">> /\ p[10] = <<"opmode", "process">>
      /\ p[11] = <<"bypass", 0>> /\ p[12] = <<"offsetUpdate", 0>>
  BY DEF SensorCalibrate
<1> HIDE DEF p
<1>3. \A i \in 1 .. 12 : i = 1 \/ i = 2 \/ i = 3 \/ i = 4 \/ i = 5 \/ i = 6 \/ i = 7
                         \/ i = 8 \/ i = 9 \/ i = 10 \/ i = 11 \/ i = 12
  OBVIOUS
<1>4. GivesBack(p, "shutter", 1)
  <2> SUFFICES ASSUME NEW i \in 1 .. 12, p[i] = <<"shutter", 1>>
               PROVE  \E k \in i + 1 .. 11 : p[k][1] = "shutter"
    BY <1>1 DEF GivesBack
  <2>1. i = 5 BY <1>2, <1>3
  <2>2. 8 \in i + 1 .. 11 /\ p[8][1] = "shutter" BY <1>2, <2>1
  <2>3. QED BY <2>2
<1>5. GivesBack(p, "opmode", "calibrate")
  <2> SUFFICES ASSUME NEW i \in 1 .. 12, p[i] = <<"opmode", "calibrate">>
               PROVE  \E k \in i + 1 .. 11 : p[k][1] = "opmode"
    BY <1>1 DEF GivesBack
  <2>1. i = 3 BY <1>2, <1>3
  <2>2. 10 \in i + 1 .. 11 /\ p[10][1] = "opmode" BY <1>2, <2>1
  <2>3. QED BY <2>2
<1>6. GivesBack(p, "bypass", 1)
  <2> SUFFICES ASSUME NEW i \in 1 .. 12, p[i] = <<"bypass", 1>>
               PROVE  \E k \in i + 1 .. 11 : p[k][1] = "bypass"
    BY <1>1 DEF GivesBack
  <2>1. i = 2 BY <1>2, <1>3
  <2>2. 11 \in i + 1 .. 11 /\ p[11][1] = "bypass" BY <1>2, <2>1
  <2>3. QED BY <2>2
<1>7. \A i \in 1 .. 12 : LegalWrite(p[i])
  BY <1>2, <1>3 DEF LegalWrite
<1>8. QED BY <1>1, <1>4, <1>5, <1>6, <1>7 DEF WellFormed, p

\* What background_remove does of its own.
OwnInstructions ==
  << <<"shutter", 1>>, <<"offsetUpdate", 1>>, <<"shutter", 0>>, <<"offsetUpdate", 0>> >>

LEMMA TailWellFormed == WellFormed(OwnInstructions)
<1> DEFINE p == OwnInstructions
<1>1. Len(p) = 4
  BY DEF OwnInstructions
<1>2. /\ p[1] = <<"shutter", 1>> /\ p[2] = <<"offsetUpdate", 1>>
      /\ p[3] = <<"shutter", 0>> /\ p[4] = <<"offsetUpdate", 0>>
  BY DEF OwnInstructions
<1> HIDE DEF p
<1>3. \A i \in 1 .. 4 : i = 1 \/ i = 2 \/ i = 3 \/ i = 4
  OBVIOUS
<1>4. GivesBack(p, "shutter", 1)
  <2> SUFFICES ASSUME NEW i \in 1 .. 4, p[i] = <<"shutter", 1>>
               PROVE  \E k \in i + 1 .. 3 : p[k][1] = "shutter"
    BY <1>1 DEF GivesBack
  <2>1. i = 1 BY <1>2, <1>3
  <2>2. 3 \in i + 1 .. 3 /\ p[3][1] = "shutter" BY <1>2, <2>1
  <2>3. QED BY <2>2
<1>5. GivesBack(p, "opmode", "calibrate")
  BY <1>1, <1>2, <1>3 DEF GivesBack
<1>6. GivesBack(p, "bypass", 1)
  BY <1>1, <1>2, <1>3 DEF GivesBack
<1>7. \A i \in 1 .. 4 : LegalWrite(p[i])
  BY <1>2, <1>3 DEF LegalWrite
<1>8. QED BY <1>1, <1>4, <1>5, <1>6, <1>7 DEF WellFormed, p

LEMMA SaveAllWellFormed == WellFormed(SaveAll)
<1>1. Len(SaveAll) = 1 /\ SaveAll[1] = <<"config", "pull">>
  BY DEF SaveAll
<1>2. \A i \in 1 .. 1 : i = 1
  OBVIOUS
<1>3. QED BY <1>1, <1>2 DEF WellFormed, GivesBack, LegalWrite

\* One well-formed program after another is a well-formed program.
LEMMA ConcatWellFormed ==
  ASSUME NEW D, NEW s \in Seq(D), NEW t \in Seq(D), WellFormed(s), WellFormed(t)
  PROVE  WellFormed(s \o t)
<1> DEFINE p == s \o t
           m == Len(s)
           n == Len(t)
<1>1. /\ m \in Nat \ {0} /\ n \in Nat \ {0}
      /\ Len(p) = m + n
      /\ \A i \in 1 .. m : p[i] = s[i]
      /\ \A i \in m + 1 .. m + n : p[i] = t[i - m]
  BY ConcatProperties DEF WellFormed
<1> HIDE DEF p, m, n
<1>2. ASSUME NEW r, NEW on, GivesBack(s, r, on), GivesBack(t, r, on)
      PROVE  GivesBack(p, r, on)
  <2> SUFFICES ASSUME NEW i \in 1 .. Len(p), p[i] = <<r, on>>
               PROVE  \E k \in i + 1 .. Len(p) - 1 : p[k][1] = r
    BY DEF GivesBack
  <2>1. CASE i \in 1 .. m
    <3>1. PICK k \in i + 1 .. m - 1 : s[k][1] = r
      BY <1>1, <1>2, <2>1 DEF GivesBack, m
    <3>2. k \in i + 1 .. Len(p) - 1 /\ k \in 1 .. m
      BY <1>1, <2>1, <3>1
    <3>3. QED BY <1>1, <3>1, <3>2
  <2>2. CASE i \in m + 1 .. m + n
    <3>1. i - m \in 1 .. n /\ t[i - m] = <<r, on>>
      BY <1>1, <2>2
    <3>2. PICK k \in i - m + 1 .. n - 1 : t[k][1] = r
      BY <1>2, <3>1 DEF GivesBack, n
    <3>3. k + m \in i + 1 .. Len(p) - 1 /\ k + m \in m + 1 .. m + n /\ (k + m) - m = k
      BY <1>1, <2>2, <3>2
    <3>4. p[k + m] = t[k]
      BY <1>1, <3>3
    <3>5. QED BY <3>2, <3>3, <3>4
  <2>3. QED BY <1>1, <2>1, <2>2
<1>3. ASSUME NEW i \in 1 .. m + n
      PROVE  LegalWrite(p[i])
  <2>1. CASE i \in 1 .. m
    <3>1. p[i] = s[i] /\ i \in 1 .. Len(s) BY <1>1, <2>1 DEF m
    <3>2. QED BY <3>1 DEF WellFormed
  <2>2. CASE i \in m + 1 .. m + n
    <3>1. p[i] = t[i - m] /\ i - m \in 1 .. Len(t) BY <1>1, <2>2 DEF n
    <3>2. QED BY <3>1 DEF WellFormed
  <2>3. QED BY <1>1, <2>1, <2>2
<1>4. Len(p) \in Nat \ {0}
  BY <1>1
<1>5. /\ GivesBack(p, "shutter", 1) /\ GivesBack(p, "opmode", "calibrate")
      /\ GivesBack(p, "bypass", 1)
  BY <1>2 DEF WellFormed
<1>6. QED BY <1>1, <1>3, <1>4, <1>5 DEF WellFormed, p

LEMMA ProgramsWellFormed ==
  ASSUME NEW name \in CommandNames PROVE WellFormed(Program(name))
<1> DEFINE D == {"offsetUpdate", "bypass", "opmode", "mode", "shutter", "acquire"}
                \X {0, 1, "calibrate", "process", "min", "max"}
<1>1. SensorCalibrate \in Seq(D) /\ OwnInstructions \in Seq(D)
  BY DEF SensorCalibrate, OwnInstructions
<1>2. WellFormed(SensorCalibrate \o OwnInstructions)
  BY <1>1, ConcatWellFormed, SensorCalibrateWellFormed, TailWellFormed
<1>3. << >> \o OwnInstructions = OwnInstructions
  BY <1>1, ConcatEmptySeq
<1>4. WellFormed(BackgroundRemove)
  BY <1>2, <1>3, TailWellFormed DEF BackgroundRemove, OwnInstructions
<1>5. QED BY <1>4, SccCalibrateWellFormed, SaveAllWellFormed DEF Program

-----------------------------------------------------------------------------
(***************************************************************************)
(* The inductive invariant: besides the nap's own count, the four facts.   *)
(***************************************************************************)
NapCount ==
  /\ calibration \in Int
  /\ measurementNap < NAP_DURATION
  /\ measurementNap > 0 =>
       calibration = measurementNap - (NAP_DURATION - CalibrationFrames)

CalibrationInv ==
  /\ CalibrationTypeOK /\ NapCount
  /\ ShutterAccounted /\ OpmodeAccounted /\ BypassAccounted

LEMMA FramesNat == CalibrationFrames \in Nat /\ CalibrationFrames >= 1
BY DEF CalibrationFrames

LEMMA CalibrationInitInv == CalibrationInit => CalibrationInv
BY FramesNat
   DEF CalibrationInit, AutoshutterInit, CalibrationInv, CalibrationTypeOK, NapCount,
       ShutterAccounted, OpmodeAccounted, BypassAccounted, SccRegisters

\* What a client left in a register stays its doing while it does not move.
LEMMA LeftByOthers ==
  ASSUME NEW d \in Clients, NEW r, NEW on, LeftAt(d, r, on),
         command'[d] = command[d], pc'[d] = pc[d]
  PROVE  LeftAt(d, r, on)'
BY DEF LeftAt

\* The instruction at the counter is one of the program.
LEMMA CounterInProgram ==
  ASSUME CalibrationTypeOK, NEW c \in Clients, command[c] # "none"
  PROVE  /\ command[c] \in CommandNames
         /\ pc[c] \in Nat /\ pc[c] \in 1 .. Len(Program(command[c]))
         /\ Len(Program(command[c])) \in Nat
         /\ WellFormed(Program(command[c]))
<1>1. command[c] \in CommandNames /\ pc[c] \in Nat /\ pc[c] \in 1 .. Len(Program(command[c]))
  BY DEF CalibrationTypeOK
<1>2. QED BY <1>1, ProgramsWellFormed DEF WellFormed

\* Who has to give r back has not reached the end of its program.
LEMMA HolderGoesOn ==
  ASSUME CalibrationTypeOK, NEW c \in Clients, Execute(c), NEW r, NEW on,
         Instruction(c) = <<r, on>> \/ LeftAt(c, r, on),
         GivesBack(Program(command[c]), r, on)
  PROVE  pc[c] # Len(Program(command[c]))
<1> DEFINE p == Program(command[c])
           n == pc[c]
<1>1. command[c] # "none" /\ n \in Nat /\ n \in 1 .. Len(p) /\ Len(p) \in Nat
  BY CounterInProgram DEF Execute
<1>2. CASE Instruction(c) = <<r, on>>
  BY <1>1, <1>2 DEF GivesBack, Instruction
<1>3. CASE LeftAt(c, r, on)
  <2>1. SUFFICES ASSUME n = Len(p) PROVE FALSE
    OBVIOUS
  <2>2. PICK i \in 1 .. n - 1 : p[i] = <<r, on>> /\ \A j \in i + 1 .. n - 1 : p[j][1] # r
    BY <1>3 DEF LeftAt
  <2>3. PICK k \in i + 1 .. Len(p) - 1 : p[k][1] = r
    BY <1>1, <2>2 DEF GivesBack
  <2>4. QED BY <1>1, <2>1, <2>2, <2>3
<1>4. QED BY <1>2, <1>3

\* A client that has written on to r, and is not at its end, has left it there.
LEMMA LeftByWriter ==
  ASSUME CalibrationTypeOK, NEW c \in Clients, Execute(c), NEW r, NEW on,
         Instruction(c) = <<r, on>>, pc[c] # Len(Program(command[c]))
  PROVE  LeftAt(c, r, on)'
<1> DEFINE p == Program(command[c])
           n == pc[c]
<1>1. command[c] # "none" /\ n \in Nat /\ n \in 1 .. Len(p) /\ Len(p) \in Nat
  BY CounterInProgram DEF Execute
<1>2. p[n] = <<r, on>>
  BY DEF Instruction
<1>3. command' = command /\ pc'[c] = n + 1
  BY <1>1 DEF Execute, CalibrationTypeOK
<1> HIDE DEF n
<1>4. n \in 1 .. (n + 1) - 1 /\ \A j \in n + 1 .. (n + 1) - 1 : p[j][1] # r
  BY <1>1
<1>5. QED BY <1>1, <1>2, <1>3, <1>4 DEF LeftAt

\* What it left in r stays its doing until it writes r again.
LEMMA LeftWhileWorking ==
  ASSUME CalibrationTypeOK, NEW c \in Clients, Execute(c), NEW r, NEW on,
         Instruction(c)[1] # r, LeftAt(c, r, on), pc[c] # Len(Program(command[c]))
  PROVE  LeftAt(c, r, on)'
<1> DEFINE p == Program(command[c])
           n == pc[c]
<1>1. command[c] # "none" /\ n \in Nat /\ n \in 1 .. Len(p) /\ Len(p) \in Nat
  BY CounterInProgram DEF Execute
<1>2. p[n][1] # r
  BY DEF Instruction
<1>3. PICK i \in 1 .. n - 1 : p[i] = <<r, on>> /\ \A j \in i + 1 .. n - 1 : p[j][1] # r
  BY DEF LeftAt
<1>4. command' = command /\ pc'[c] = n + 1
  BY <1>1 DEF Execute, CalibrationTypeOK
<1> HIDE DEF n
<1>5. i \in 1 .. (n + 1) - 1 /\ \A j \in i + 1 .. (n + 1) - 1 : p[j][1] # r
  BY <1>1, <1>2, <1>3
<1>6. QED BY <1>1, <1>3, <1>4, <1>5 DEF LeftAt

-----------------------------------------------------------------------------
\* What an instruction makes of the shutter, of the offset update and of the nap.
LEMMA ExecuteWrites ==
  ASSUME NEW c \in Clients, Execute(c)
  PROVE  /\ shutter' = IF Instruction(c)[1] = "shutter" THEN Instruction(c)[2] ELSE shutter
         /\ mover' = IF Instruction(c)[1] = "shutter" THEN c ELSE mover
         /\ offsetUpdate' = IF Instruction(c)[1] = "offsetUpdate"
                            THEN Instruction(c)[2] ELSE offsetUpdate
         /\ UNCHANGED <<measurementNap, calibration>>
<1>1. CASE Instruction(c)[1] = "shutter"
  BY <1>1 DEF Execute, WriteShutter
<1>2. CASE Instruction(c)[1] = "offsetUpdate"
  BY <1>2 DEF Execute, WriteOffsetUpdate
<1>3. CASE Instruction(c)[1] \notin {"shutter", "offsetUpdate"}
  BY <1>3 DEF Execute, autoshutterVars
<1>4. QED BY <1>1, <1>2, <1>3

\* A command's instruction keeps the types.
LEMMA ExecuteTypes ==
  ASSUME CalibrationTypeOK, NEW c \in Clients, Execute(c)
  PROVE  CalibrationTypeOK'
<1> DEFINE p == Program(command[c])
           n == pc[c]
<1>1. /\ command[c] # "none" /\ command[c] \in CommandNames
      /\ n \in Nat /\ n \in 1 .. Len(p) /\ Len(p) \in Nat
      /\ WellFormed(p)
  BY CounterInProgram DEF Execute
<1>2. LegalWrite(Instruction(c))
  BY <1>1 DEF WellFormed, Instruction
<1>3. shutter' \in {0, 1} /\ offsetUpdate' \in {0, 1}
  BY <1>2, ExecuteWrites DEF LegalWrite, CalibrationTypeOK
<1>4. scc' \in SccRegisters
  <2>1. scc \in SccRegisters /\ DOMAIN scc = {"bypass", "opmode", "mode"}
    BY DEF CalibrationTypeOK, SccRegisters
  <2>2. QED BY <1>2, <2>1 DEF Execute, Written, LegalWrite, SccRegisters
<1>5. command' \in [Clients -> CommandNames \cup {"none"}] /\ pc' \in [Clients -> Nat]
  BY <1>1 DEF Execute, CalibrationTypeOK
<1>6. ASSUME NEW d \in Clients, command'[d] # "none"
      PROVE  pc'[d] \in 1 .. Len(Program(command'[d]))
  <2>1. CASE d # c
    BY <1>6, <2>1 DEF Execute, CalibrationTypeOK
  <2>2. CASE d = c
    <3>1. n # Len(p) /\ command' = command /\ pc'[c] = n + 1
      BY <1>1, <1>6, <2>2 DEF Execute, CalibrationTypeOK
    <3>2. n + 1 \in 1 .. Len(p)
      BY <1>1, <3>1
    <3>3. QED BY <2>2, <3>1, <3>2
  <2>3. QED BY <2>1, <2>2
<1>7. mover' \in Clients \cup {"loop"} /\ measurementNap' \in 0 .. NAP_DURATION
  BY ExecuteWrites DEF CalibrationTypeOK
<1>8. bypassConfig' \in {0, 1} /\ unwritten' \subseteq {"opmode", "bypass"}
  BY DEF Execute, CalibrationTypeOK, SccRegisters
<1>9. QED BY <1>3, <1>4, <1>5, <1>6, <1>7, <1>8 DEF CalibrationTypeOK

(***************************************************************************)
(* Whatever value r is given, if it is on now then somebody who is still   *)
(* working has left it on: the writer itself, or whoever had before.       *)
(***************************************************************************)
LEMMA ExecuteKeepsShutterAccounted ==
  ASSUME CalibrationInv, NEW c \in Clients, Execute(c)
  PROVE  ShutterAccounted'
<1>1. CalibrationTypeOK /\ ShutterAccounted
  BY DEF CalibrationInv
<1>2. WellFormed(Program(command[c])) /\ command[c] # "none"
  BY <1>1, CounterInProgram DEF Execute
<1>3. GivesBack(Program(command[c]), "shutter", 1) /\ LegalWrite(Instruction(c))
  BY <1>1, <1>2, CounterInProgram DEF WellFormed, Instruction
<1>4. SUFFICES ASSUME shutter' = 1
               PROVE  \/ measurementNap' > 0 /\ calibration' >= 0
                      \/ \E d \in Clients : LeftAt(d, "shutter", 1)'
  BY DEF ShutterAccounted
<1>5. CASE Instruction(c)[1] = "shutter"
  <2>1. Instruction(c) = <<"shutter", 1>>
    BY <1>3, <1>4, <1>5, ExecuteWrites DEF LegalWrite
  <2>2. QED BY <1>1, <1>3, <2>1, HolderGoesOn, LeftByWriter
<1>6. CASE Instruction(c)[1] # "shutter"
  <2>1. shutter = 1 /\ measurementNap' = measurementNap /\ calibration' = calibration
    BY <1>4, <1>6, ExecuteWrites
  <2>2. CASE measurementNap > 0 /\ calibration >= 0
    BY <2>1, <2>2
  <2>3. CASE \E d \in Clients : LeftAt(d, "shutter", 1)
    <3>1. PICK d \in Clients : LeftAt(d, "shutter", 1)
      BY <2>3
    <3>2. CASE d = c
      BY <1>1, <1>3, <1>6, <3>1, <3>2, HolderGoesOn, LeftWhileWorking
    <3>3. CASE d # c
      <4>1. command'[d] = command[d] /\ pc'[d] = pc[d]
        BY <1>1, <3>3 DEF Execute, CalibrationTypeOK
      <4>2. QED BY <3>1, <4>1, LeftByOthers
    <3>4. QED BY <3>2, <3>3
  <2>4. QED BY <1>1, <2>1, <2>2, <2>3 DEF ShutterAccounted
<1>7. QED BY <1>5, <1>6

(***************************************************************************)
(* The same of a register of the scc core, which only commands write: what *)
(* a client has left there it still has, or whoever else had.              *)
(***************************************************************************)
LEMMA HolderStays ==
  ASSUME CalibrationTypeOK, NEW c \in Clients, Execute(c), NEW r, NEW on,
         GivesBack(Program(command[c]), r, on), Instruction(c)[1] # r,
         NEW d \in Clients, LeftAt(d, r, on)
  PROVE  LeftAt(d, r, on)'
<1>1. CASE d = c
  BY <1>1, HolderGoesOn, LeftWhileWorking
<1>2. CASE d # c
  <2>1. command'[d] = command[d] /\ pc'[d] = pc[d]
    BY <1>2 DEF Execute, CalibrationTypeOK
  <2>2. QED BY <2>1, LeftByOthers
<1>3. QED BY <1>1, <1>2

LEMMA ExecuteKeepsOpmodeAccounted ==
  ASSUME CalibrationInv, NEW c \in Clients, Execute(c)
  PROVE  OpmodeAccounted'
<1>1. CalibrationTypeOK /\ OpmodeAccounted
  BY DEF CalibrationInv
<1>2. WellFormed(Program(command[c])) /\ command[c] # "none"
  BY <1>1, CounterInProgram DEF Execute
<1>3. /\ GivesBack(Program(command[c]), "opmode", "calibrate")
      /\ LegalWrite(Instruction(c))
  BY <1>1, <1>2, CounterInProgram DEF WellFormed, Instruction
<1>4. SUFFICES ASSUME scc'.opmode = "calibrate", "opmode" \notin unwritten'
               PROVE  \E d \in Clients : LeftAt(d, "opmode", "calibrate")'
  BY DEF OpmodeAccounted
<1>5. scc \in SccRegisters /\ DOMAIN scc = {"bypass", "opmode", "mode"}
  BY <1>1 DEF CalibrationTypeOK, SccRegisters
<1>6. CASE Instruction(c)[1] = "opmode"
  <2>1. Instruction(c) = <<"opmode", "calibrate">>
    BY <1>3, <1>4, <1>5, <1>6 DEF Execute, Written, LegalWrite, SccRegisters
  <2>2. QED BY <1>1, <1>3, <2>1, HolderGoesOn, LeftByWriter
<1>7. CASE Instruction(c)[1] # "opmode"
  <2>1. scc.opmode = "calibrate" /\ "opmode" \notin unwritten
    BY <1>4, <1>5, <1>7 DEF Execute, Written, SccRegisters
  <2>2. PICK d \in Clients : LeftAt(d, "opmode", "calibrate")
    BY <1>1, <2>1 DEF OpmodeAccounted
  <2>3. QED BY <1>1, <1>3, <1>7, <2>2, HolderStays
<1>8. QED BY <1>6, <1>7

\* The bypass: a configured one is skipped, and only a lifted one can be configured away.
LEMMA ExecuteKeepsBypassAccounted ==
  ASSUME CalibrationInv, NEW c \in Clients, Execute(c)
  PROVE  BypassAccounted'
<1>1. CalibrationTypeOK /\ BypassAccounted
  BY DEF CalibrationInv
<1>2. WellFormed(Program(command[c])) /\ command[c] # "none"
  BY <1>1, CounterInProgram DEF Execute
<1>3. /\ GivesBack(Program(command[c]), "bypass", 1)
      /\ LegalWrite(Instruction(c))
  BY <1>1, <1>2, CounterInProgram DEF WellFormed, Instruction
<1>4. SUFFICES ASSUME scc'.bypass = 1, bypassConfig' = 0, "bypass" \notin unwritten'
               PROVE  \E d \in Clients : LeftAt(d, "bypass", 1)'
  BY DEF BypassAccounted
<1>5. scc \in SccRegisters /\ DOMAIN scc = {"bypass", "opmode", "mode"}
  BY <1>1 DEF CalibrationTypeOK, SccRegisters
<1>6. CASE Instruction(c)[1] = "bypass"
  <2>1. bypassConfig = 0
    BY <1>4, <1>6 DEF Execute
  <2>2. Instruction(c)[2] \in {0, 1} /\ Instruction(c) = <<"bypass", Instruction(c)[2]>>
    BY <1>3, <1>6 DEF LegalWrite
  <2>3. scc' = [scc EXCEPT !["bypass"] = Instruction(c)[2]]
    BY <1>5, <1>6, <2>1 DEF Execute, Written
  <2>4. Instruction(c) = <<"bypass", 1>>
    BY <1>4, <1>5, <2>2, <2>3 DEF SccRegisters
  <2>5. QED BY <1>1, <1>3, <2>4, HolderGoesOn, LeftByWriter
<1>7. CASE Instruction(c)[1] # "bypass"
  <2>1. scc.bypass = 1 /\ "bypass" \notin unwritten
    BY <1>4, <1>5, <1>7 DEF Execute, Written, SccRegisters
  <2>2. bypassConfig = 0
    BY <1>4, <2>1 DEF Execute
  <2>3. PICK d \in Clients : LeftAt(d, "bypass", 1)
    BY <1>1, <2>1, <2>2 DEF BypassAccounted
  <2>4. QED BY <1>1, <1>3, <1>7, <2>3, HolderStays
<1>8. QED BY <1>6, <1>7

-----------------------------------------------------------------------------
\* A command's instruction leaves the nap alone.
LEMMA ExecuteInv ==
  ASSUME CalibrationInv, NEW c \in Clients, Execute(c)
  PROVE  CalibrationInv'
<1>1. NapCount'
  BY ExecuteWrites DEF CalibrationInv, NapCount
<1>2. QED
  BY <1>1, ExecuteTypes, ExecuteKeepsShutterAccounted, ExecuteKeepsOpmodeAccounted,
     ExecuteKeepsBypassAccounted DEF CalibrationInv

\* A command that starts has written nothing yet, and its client held nothing.
LEMMA StartInv ==
  ASSUME CalibrationInv, NEW c \in Clients, NEW name \in CommandNames, Start(c, name)
  PROVE  CalibrationInv'
<1>1. ASSUME NEW d \in Clients, NEW r, NEW on, LeftAt(d, r, on)
      PROVE  LeftAt(d, r, on)'
  <2>1. d # c BY <1>1 DEF Start, LeftAt
  <2>2. command'[d] = command[d] /\ pc'[d] = pc[d]
    BY <2>1 DEF Start, CalibrationInv, CalibrationTypeOK
  <2>3. QED BY <1>1, <2>2, LeftByOthers
<1>2. 1 \in 1 .. Len(Program(name))
  BY ProgramsWellFormed DEF WellFormed
<1>3. UNCHANGED <<shutter, mover, offsetUpdate, measurementNap, calibration>>
  BY DEF Start, autoshutterVars
<1>4. CalibrationTypeOK'
  BY <1>2, <1>3 DEF Start, CalibrationInv, CalibrationTypeOK, CommandNames
<1>5. ShutterAccounted' /\ OpmodeAccounted' /\ BypassAccounted'
  BY <1>1, <1>3 DEF Start, CalibrationInv, ShutterAccounted, OpmodeAccounted, BypassAccounted
<1>6. QED BY <1>3, <1>4, <1>5 DEF CalibrationInv, NapCount

\* Steps that move no client and leave scc alone keep what clients left.
LEMMA LeftByAll ==
  ASSUME UNCHANGED <<command, pc>>
  PROVE  \A d \in Clients : \A r, on : LeftAt(d, r, on) => LeftAt(d, r, on)'
BY DEF LeftAt

(***************************************************************************)
(* A frame closes the shutter only as its nap begins, and the nap's count  *)
(* opens it before the nap is over, because the nap outlives the count.    *)
(***************************************************************************)
LEMMA LoopFrameInv == ASSUME CalibrationInv, LoopFrame PROVE CalibrationInv'
<1>1. PICK estado \in Estados, temp \in Temps : AutoshutterFrame(estado, temp)
  BY DEF LoopFrame, AnyAutoshutterFrame
<1>2. UNCHANGED <<command, pc, scc, bypassConfig, unwritten>>
  BY DEF LoopFrame, commandVars
<1>3. /\ NapCount' /\ shutter' \in {0, 1} /\ offsetUpdate' \in {0, 1}
      /\ measurementNap' \in 0 .. NAP_DURATION
      /\ shutter' = 1 => \/ measurementNap' > 0 /\ calibration' >= 0
                         \/ shutter = 1 /\ ~ (measurementNap > 0 /\ calibration >= 0)
  <2>1. CASE Measures
    BY <1>1, <2>1, FramesNat
       DEF AutoshutterFrame, AwakeFrame, Measures, NapAtTest, NapStarts, CalibrationInv,
           CalibrationTypeOK, NapCount
  <2>2. CASE ~ Measures /\ NapStarts
    BY <1>1, <2>2, FramesNat
       DEF AutoshutterFrame, NapFrame, Measures, NapAtTest, NapStarts, CalibrationInv,
           CalibrationTypeOK, NapCount, ControlNapAtTest, CalibrationAtTest, CalibrationSpent
  <2>3. CASE ~ Measures /\ ~ NapStarts
    BY <1>1, <2>3, FramesNat
       DEF AutoshutterFrame, NapFrame, Measures, NapAtTest, CalibrationInv,
           CalibrationTypeOK, NapCount, ControlNapAtTest, CalibrationAtTest, CalibrationSpent
  <2>4. QED BY <2>1, <2>2, <2>3
<1>4. mover' \in Clients \cup {"loop"}
  BY <1>1 DEF AutoshutterFrame, ObserveShutter, CalibrationInv, CalibrationTypeOK
<1>5. CalibrationTypeOK'
  BY <1>2, <1>3, <1>4 DEF CalibrationInv, CalibrationTypeOK
<1>6. ShutterAccounted'
  BY <1>2, <1>3, LeftByAll DEF CalibrationInv, ShutterAccounted
<1>7. OpmodeAccounted' /\ BypassAccounted'
  BY <1>2, LeftByAll DEF CalibrationInv, OpmodeAccounted, BypassAccounted
<1>8. QED BY <1>3, <1>5, <1>6, <1>7 DEF CalibrationInv

\* The other steps write neither the shutter nor the nap.
LEMMA OtherStepsInv ==
  ASSUME CalibrationInv, LoopRead \/ NapRequest \/ FpgaFinishes \/ UNCHANGED calibrationVars
  PROVE  CalibrationInv'
<1>1. /\ UNCHANGED <<command, pc, bypassConfig, unwritten>>
      /\ UNCHANGED <<mover, shutter, measurementNap, calibration, offsetUpdate>>
  BY DEF LoopRead, NapRequest, FpgaFinishes, ReadAutoConfig, RequestNap, calibrationVars,
         commandVars, autoshutterVars
<1>2. scc' \in SccRegisters /\ scc'.opmode = scc.opmode /\ scc'.bypass = scc.bypass
  <2>1. scc \in SccRegisters BY DEF CalibrationInv, CalibrationTypeOK
  <2>2. QED
    BY <2>1 DEF LoopRead, NapRequest, FpgaFinishes, calibrationVars, commandVars, SccRegisters
<1>3. CalibrationTypeOK' /\ NapCount'
  BY <1>1, <1>2 DEF CalibrationInv, CalibrationTypeOK, NapCount
<1>4. ShutterAccounted' /\ OpmodeAccounted' /\ BypassAccounted'
  BY <1>1, <1>2, LeftByAll
     DEF CalibrationInv, ShutterAccounted, OpmodeAccounted, BypassAccounted
<1>5. QED BY <1>3, <1>4 DEF CalibrationInv

LEMMA CalibrationNextInv ==
  CalibrationInv /\ [CalibrationNext]_calibrationVars => CalibrationInv'
<1> SUFFICES ASSUME CalibrationInv, [CalibrationNext]_calibrationVars
             PROVE  CalibrationInv'
  OBVIOUS
<1>1. CASE LoopFrame BY <1>1, LoopFrameInv
<1>2. CASE LoopRead \/ NapRequest \/ FpgaFinishes \/ UNCHANGED calibrationVars
  BY <1>2, OtherStepsInv
<1>3. CASE \E c \in Clients : Execute(c) BY <1>3, ExecuteInv
<1>4. CASE \E c \in Clients, name \in CommandNames : Start(c, name) BY <1>4, StartInv
<1>5. QED BY <1>1, <1>2, <1>3, <1>4 DEF CalibrationNext

LEMMA CalibrationInvariance == CalibrationSpec => []CalibrationInv
<1>1. QED BY CalibrationInitInv, CalibrationNextInv, PTL DEF CalibrationSpec

(***************************************************************************)
(* Type correctness of the commands beside the loop, for any clients.      *)
(***************************************************************************)
THEOREM CalibrationTypeCorrect == CalibrationSpec => []CalibrationTypeOK
<1>1. CalibrationInv => CalibrationTypeOK BY DEF CalibrationInv
<1>2. QED BY <1>1, CalibrationInvariance, PTL

(***************************************************************************)
(* Nobody leaves the shutter closed behind: for any number of clients and  *)
(* any interleaving of their unsynchronised writes with the loop's frames, *)
(* a closed shutter is one that a nap or a running command means to open.  *)
(***************************************************************************)
THEOREM ShutterIsAccounted == CalibrationSpec => []ShutterAccounted
<1>1. CalibrationInv => ShutterAccounted BY DEF CalibrationInv
<1>2. QED BY <1>1, CalibrationInvariance, PTL

(***************************************************************************)
(* The scc core is in calibration only while a command that put it there   *)
(* still runs, or as the last run of the service left it: no command ends  *)
(* and leaves the sensor uncorrected.                                      *)
(***************************************************************************)
THEOREM OpmodeIsAccounted == CalibrationSpec => []OpmodeAccounted
<1>1. CalibrationInv => OpmodeAccounted BY DEF CalibrationInv
<1>2. QED BY <1>1, CalibrationInvariance, PTL

(***************************************************************************)
(* The correction is bypassed against the configuration only while a       *)
(* command runs that bypassed it, or as the last run left it, although a   *)
(* save may change the configuration in the middle of a command.           *)
(***************************************************************************)
THEOREM BypassIsAccounted == CalibrationSpec => []BypassAccounted
<1>1. CalibrationInv => BypassAccounted BY DEF CalibrationInv
<1>2. QED BY <1>1, CalibrationInvariance, PTL

(***************************************************************************)
(* The commands write the shutter and the offset update as the autoshutter *)
(* lets any client do: what Autoshutter promises holds beside them.        *)
(***************************************************************************)
THEOREM CommandsAreClients ==
  CalibrationSpec => AutoshutterInit /\ [][AutoshutterNext]_autoshutterVars
<1>1. CalibrationInit => AutoshutterInit
  BY DEF CalibrationInit
<1>2. ASSUME CalibrationInv, [CalibrationNext]_calibrationVars
      PROVE  [AutoshutterNext]_autoshutterVars
  <2>1. CASE LoopFrame \/ LoopRead \/ NapRequest
    BY <2>1 DEF LoopFrame, LoopRead, NapRequest, AutoshutterNext
  <2>2. CASE FpgaFinishes \/ UNCHANGED calibrationVars
    BY <2>2 DEF FpgaFinishes, calibrationVars
  <2>3. CASE \E c \in Clients, name \in CommandNames : Start(c, name)
    BY <2>3 DEF Start
  <2>4. ASSUME NEW c \in Clients, Execute(c) PROVE [AutoshutterNext]_autoshutterVars
    <3>1. LegalWrite(Instruction(c))
      BY <1>2, <2>4, CounterInProgram
         DEF Execute, CalibrationInv, WellFormed, Instruction
    <3>2. CASE Instruction(c)[1] = "shutter"
      BY <2>4, <3>1, <3>2 DEF Execute, LegalWrite, AutoshutterNext
    <3>3. CASE Instruction(c)[1] = "offsetUpdate"
      BY <2>4, <3>1, <3>3 DEF Execute, LegalWrite, AutoshutterNext
    <3>4. CASE Instruction(c)[1] \notin {"shutter", "offsetUpdate"}
      BY <2>4, <3>4 DEF Execute
    <3>5. QED BY <3>2, <3>3, <3>4
  <2>5. QED BY <1>2, <2>1, <2>2, <2>3, <2>4 DEF CalibrationNext
<1>3. QED BY <1>1, <1>2, CalibrationInvariance, PTL DEF CalibrationSpec

-----------------------------------------------------------------------------
(***************************************************************************)
(* A program that takes an image has written value to the shutter before,  *)
(* and not written it since.                                               *)
(***************************************************************************)
TakesThrough(p, image, value) ==
  \A i \in 1 .. Len(p) :
    p[i] = <<"acquire", image>> =>
      \E k \in 1 .. i - 1 : /\ p[k] = <<"shutter", value>>
                            /\ \A j \in k + 1 .. i - 1 : p[j][1] # "shutter"

Honest(p) == TakesThrough(p, "min", 1) /\ TakesThrough(p, "max", 0)

LEMMA SensorCalibrateHonest == Honest(SensorCalibrate)
<1> DEFINE p == SensorCalibrate
<1>1. Len(p) = 12
  BY DEF SensorCalibrate
<1>2. /\ p[1] = <<"offsetUpdate", 1>> /\ p[2] = <<"bypass", 1>>
      /\ p[3] = <<"opmode", "calibrate">> /\ p[4] = <<"mode", "min">>
      /\ p[5] = <<"shutter", 1>> /\ p[6] = <<"acquire", "min">>
      /\ p[7] = <<"mode", "max">> /\ p[8] = <<"shutter", 0>>
      /\ p[9] = <<"acquire", "max">> /\ p[10] = <<"opmode", "process">>
      /\ p[11] = <<"bypass", 0>> /\ p[12] = <<"offsetUpdate", 0>>
  BY DEF SensorCalibrate
<1> HIDE DEF p
<1>3. \A i \in 1 .. 12 : i = 1 \/ i = 2 \/ i = 3 \/ i = 4 \/ i = 5 \/ i = 6 \/ i = 7
                         \/ i = 8 \/ i = 9 \/ i = 10 \/ i = 11 \/ i = 12
  OBVIOUS
<1>4. TakesThrough(p, "min", 1)
  <2> SUFFICES ASSUME NEW i \in 1 .. 12, p[i] = <<"acquire", "min">>
               PROVE  \E k \in 1 .. i - 1 : /\ p[k] = <<"shutter", 1>>
                                            /\ \A j \in k + 1 .. i - 1 : p[j][1] # "shutter"
    BY <1>1 DEF TakesThrough
  <2>1. i = 6 BY <1>2, <1>3
  <2>2. 5 \in 1 .. i - 1 /\ \A j \in 5 + 1 .. i - 1 : p[j][1] # "shutter" BY <2>1
  <2>3. QED BY <1>2, <2>2
<1>5. TakesThrough(p, "max", 0)
  <2> SUFFICES ASSUME NEW i \in 1 .. 12, p[i] = <<"acquire", "max">>
               PROVE  \E k \in 1 .. i - 1 : /\ p[k] = <<"shutter", 0>>
                                            /\ \A j \in k + 1 .. i - 1 : p[j][1] # "shutter"
    BY <1>1 DEF TakesThrough
  <2>1. i = 9 BY <1>2, <1>3
  <2>2. 8 \in 1 .. i - 1 /\ \A j \in 8 + 1 .. i - 1 : p[j][1] # "shutter" BY <2>1
  <2>3. QED BY <1>2, <2>2
<1>6. QED BY <1>4, <1>5 DEF Honest, p

\* The other programs take no image.
LEMMA ImagelessHonest ==
  ASSUME NEW p, \A i \in 1 .. Len(p) : p[i][1] # "acquire"
  PROVE  Honest(p)
BY DEF Honest, TakesThrough

LEMMA OwnInstructionsHonest == Honest(OwnInstructions)
<1>1. \A i \in 1 .. 4 : i = 1 \/ i = 2 \/ i = 3 \/ i = 4
  OBVIOUS
<1> DEFINE p == OwnInstructions
<1>2. Len(p) = 4
  BY DEF OwnInstructions
<1>3. /\ p[1][1] # "acquire" /\ p[2][1] # "acquire"
      /\ p[3][1] # "acquire" /\ p[4][1] # "acquire"
  BY DEF OwnInstructions
<1> HIDE DEF p
<1>4. \A i \in 1 .. 4 : p[i][1] # "acquire"
  BY <1>1, <1>3
<1>5. QED BY <1>2, <1>4, ImagelessHonest DEF p

LEMMA SccCalibrateHonest == Honest(SccCalibrate)
<1>1. \A i \in 1 .. 10 : i = 1 \/ i = 2 \/ i = 3 \/ i = 4 \/ i = 5 \/ i = 6 \/ i = 7
                         \/ i = 8 \/ i = 9 \/ i = 10
  OBVIOUS
<1> DEFINE p == SccCalibrate
<1>2. Len(p) = 10
  BY DEF SccCalibrate
<1>3. /\ p[1][1] # "acquire" /\ p[2][1] # "acquire" /\ p[3][1] # "acquire"
      /\ p[4][1] # "acquire" /\ p[5][1] # "acquire" /\ p[6][1] # "acquire"
      /\ p[7][1] # "acquire" /\ p[8][1] # "acquire" /\ p[9][1] # "acquire"
      /\ p[10][1] # "acquire"
  BY DEF SccCalibrate
<1> HIDE DEF p
<1>4. \A i \in 1 .. 10 : p[i][1] # "acquire"
  BY <1>1, <1>3
<1>5. QED BY <1>2, <1>4, ImagelessHonest DEF p

\* One honest program after another is an honest program.
LEMMA ConcatHonest ==
  ASSUME NEW D, NEW s \in Seq(D), NEW t \in Seq(D), Honest(s), Honest(t)
  PROVE  Honest(s \o t)
<1> DEFINE p == s \o t
           m == Len(s)
           n == Len(t)
<1>1. /\ m \in Nat /\ n \in Nat
      /\ Len(p) = m + n
      /\ \A i \in 1 .. m : p[i] = s[i]
      /\ \A i \in m + 1 .. m + n : p[i] = t[i - m]
  BY ConcatProperties
<1> HIDE DEF p, m, n
<1>2. ASSUME NEW image, NEW value, TakesThrough(s, image, value), TakesThrough(t, image, value)
      PROVE  TakesThrough(p, image, value)
  <2> SUFFICES ASSUME NEW i \in 1 .. Len(p), p[i] = <<"acquire", image>>
               PROVE  \E k \in 1 .. i - 1 : /\ p[k] = <<"shutter", value>>
                                            /\ \A j \in k + 1 .. i - 1 : p[j][1] # "shutter"
    BY DEF TakesThrough
  <2>1. CASE i \in 1 .. m
    <3>1. PICK k \in 1 .. i - 1 : /\ s[k] = <<"shutter", value>>
                                  /\ \A j \in k + 1 .. i - 1 : s[j][1] # "shutter"
      BY <1>1, <1>2, <2>1 DEF TakesThrough, m
    <3>2. k \in 1 .. m /\ \A j \in k + 1 .. i - 1 : j \in 1 .. m
      BY <1>1, <2>1, <3>1
    <3>3. QED BY <1>1, <3>1, <3>2
  <2>2. CASE i \in m + 1 .. m + n
    <3>1. i - m \in 1 .. n /\ t[i - m] = <<"acquire", image>>
      BY <1>1, <2>2
    <3>2. PICK k \in 1 .. (i - m) - 1 :
            /\ t[k] = <<"shutter", value>>
            /\ \A j \in k + 1 .. (i - m) - 1 : t[j][1] # "shutter"
      BY <1>2, <3>1 DEF TakesThrough, n
    <3>3. k + m \in 1 .. i - 1 /\ k + m \in m + 1 .. m + n /\ (k + m) - m = k
      BY <1>1, <2>2, <3>2
    <3>4. p[k + m] = <<"shutter", value>>
      BY <1>1, <3>2, <3>3
    <3>5. ASSUME NEW j \in (k + m) + 1 .. i - 1 PROVE p[j][1] # "shutter"
      <4>1. j \in m + 1 .. m + n /\ j - m \in k + 1 .. (i - m) - 1
        BY <1>1, <2>2, <3>2, <3>5
      <4>2. QED BY <1>1, <3>2, <4>1
    <3>6. QED BY <3>3, <3>4, <3>5
  <2>3. i \in 1 .. m \/ i \in m + 1 .. m + n
    BY <1>1
  <2>4. QED BY <2>1, <2>2, <2>3
<1>3. QED BY <1>2 DEF Honest, p

LEMMA ProgramsHonest ==
  ASSUME NEW name \in CommandNames PROVE Honest(Program(name))
<1> DEFINE D == {"offsetUpdate", "bypass", "opmode", "mode", "shutter", "acquire"}
                \X {0, 1, "calibrate", "process", "min", "max"}
<1>1. SensorCalibrate \in Seq(D) /\ OwnInstructions \in Seq(D)
  BY DEF SensorCalibrate, OwnInstructions
<1>2. Honest(SensorCalibrate \o OwnInstructions)
  BY <1>1, ConcatHonest, SensorCalibrateHonest, OwnInstructionsHonest
<1>3. << >> \o OwnInstructions = OwnInstructions
  BY <1>1, ConcatEmptySeq
<1>4. Honest(BackgroundRemove)
  BY <1>2, <1>3, OwnInstructionsHonest DEF BackgroundRemove, OwnInstructions
<1>5. Honest(SaveAll)
  <2>1. Len(SaveAll) = 1 /\ SaveAll[1][1] # "acquire"
    BY DEF SaveAll
  <2>2. QED BY <2>1, ImagelessHonest
<1>6. QED BY <1>4, <1>5, SccCalibrateHonest DEF Program

(***************************************************************************)
(* What is added to the invariant: if a client wrote the shutter last, and *)
(* its present command has written it, the shutter is as that command left *)
(* it.                                                                     *)
(***************************************************************************)
MoverTells ==
  \A c \in Clients : \A value : mover = c /\ LeftAt(c, "shutter", value) => shutter = value

LEMMA MoverTellsInit == CalibrationInit => MoverTells
BY DEF CalibrationInit, AutoshutterInit, MoverTells

\* Of a client's last write of the shutter, before or in the step it takes.
LEMMA ExecuteTells ==
  ASSUME CalibrationTypeOK, MoverTells, NEW d \in Clients, Execute(d)
  PROVE  MoverTells'
<1> SUFFICES ASSUME NEW c \in Clients, NEW value, mover' = c, LeftAt(c, "shutter", value)'
             PROVE  shutter' = value
  BY DEF MoverTells
<1>1. CASE c # d
  <2>1. command'[c] = command[c] /\ pc'[c] = pc[c]
    BY <1>1 DEF Execute, CalibrationTypeOK
  <2>2. LeftAt(c, "shutter", value)
    BY <2>1 DEF LeftAt
  <2>3. mover = c /\ shutter' = shutter
    BY <1>1, ExecuteWrites
  <2>4. QED BY <2>2, <2>3 DEF MoverTells
<1>2. CASE c = d
  <2> DEFINE p == Program(command[d])
             n == pc[d]
  <2>1. n \in Nat /\ n \in 1 .. Len(p) /\ Len(p) \in Nat
    BY CounterInProgram DEF Execute
  <2>2. pc'[d] = n + 1 /\ command'[d] # "none"
    BY <1>2 DEF Execute, CalibrationTypeOK, LeftAt
  <2>3. command' = command
    BY <2>2 DEF Execute, CalibrationTypeOK
  <2>4. Instruction(d) = p[n]
    BY DEF Instruction
  <2> HIDE DEF n
  <2>5. PICK i \in 1 .. n : /\ p[i] = <<"shutter", value>>
                            /\ \A j \in i + 1 .. n : p[j][1] # "shutter"
    <3>1. (n + 1) - 1 = n BY <2>1
    <3>2. QED BY <1>2, <2>2, <2>3, <3>1 DEF LeftAt
  <2>6. CASE i = n
    BY <2>4, <2>5, <2>6, ExecuteWrites
  <2>7. CASE i # n
    <3>1. n \in i + 1 .. n /\ i \in 1 .. n - 1
      BY <2>1, <2>5, <2>7
    <3>2. p[n][1] # "shutter"
      BY <2>5, <3>1
    <3>3. \A j \in i + 1 .. n - 1 : p[j][1] # "shutter"
      BY <2>1, <2>5
    <3>4. LeftAt(d, "shutter", value)
      BY <2>5, <3>1, <3>3 DEF LeftAt, Execute, n
    <3>5. mover = d /\ shutter' = shutter
      BY <1>2, <2>4, <3>2, ExecuteWrites
    <3>6. QED BY <3>4, <3>5 DEF MoverTells
  <2>8. QED BY <2>6, <2>7
<1>3. QED BY <1>1, <1>2

LEMMA MoverTellsNext ==
  CalibrationInv /\ MoverTells /\ [CalibrationNext]_calibrationVars => MoverTells'
<1> SUFFICES ASSUME CalibrationInv, MoverTells, [CalibrationNext]_calibrationVars
             PROVE  MoverTells'
  OBVIOUS
<1>1. CalibrationTypeOK
  BY DEF CalibrationInv
<1>2. CASE LoopFrame
  <2> SUFFICES ASSUME NEW c \in Clients, NEW value, mover' = c, LeftAt(c, "shutter", value)'
               PROVE  shutter' = value
    BY DEF MoverTells
  <2>1. mover = c /\ shutter' = shutter /\ UNCHANGED <<command, pc>>
    BY <1>2 DEF LoopFrame, AnyAutoshutterFrame, AutoshutterFrame, ObserveShutter, commandVars
  <2>2. QED BY <2>1 DEF LeftAt, MoverTells
<1>3. CASE LoopRead \/ NapRequest \/ FpgaFinishes \/ UNCHANGED calibrationVars
  <2>1. UNCHANGED <<command, pc, mover, shutter>>
    BY <1>3 DEF LoopRead, NapRequest, FpgaFinishes, ReadAutoConfig, RequestNap,
                calibrationVars, commandVars, autoshutterVars
  <2>2. QED BY <2>1 DEF LeftAt, MoverTells
<1>4. ASSUME NEW d \in Clients, NEW name \in CommandNames, Start(d, name)
      PROVE  MoverTells'
  <2> SUFFICES ASSUME NEW c \in Clients, NEW value, mover' = c, LeftAt(c, "shutter", value)'
               PROVE  shutter' = value
    BY DEF MoverTells
  <2>1. c # d
    BY <1>1, <1>4 DEF Start, LeftAt, CalibrationTypeOK
  <2>2. command'[c] = command[c] /\ pc'[c] = pc[c] /\ mover = c /\ shutter' = shutter
    BY <1>1, <1>4, <2>1 DEF Start, CalibrationTypeOK, autoshutterVars
  <2>3. QED BY <2>2 DEF LeftAt, MoverTells
<1>5. CASE \E d \in Clients : Execute(d) BY <1>1, <1>5, ExecuteTells
<1>6. QED BY <1>2, <1>3, <1>4, <1>5 DEF CalibrationNext

(***************************************************************************)
(* The dark image of sensor_calibrate is dark and its light one light, for *)
(* any clients, unless somebody else wrote the shutter in between: what    *)
(* the sleeps of clamir_service.cpp:103-108 wait for cannot be undone by   *)
(* the command itself.                                                     *)
(***************************************************************************)
THEOREM ImagesAreInTheRightLight == CalibrationSpec => ImagesAreHonest
<1>1. ASSUME CalibrationInv, MoverTells, NEW c \in Clients, Execute(c), mover = c
      PROVE  /\ Instruction(c) = <<"acquire", "min">> => shutter = 1
             /\ Instruction(c) = <<"acquire", "max">> => shutter = 0
  <2> DEFINE p == Program(command[c])
  <2>1. /\ command[c] # "none" /\ command[c] \in CommandNames
        /\ pc[c] \in 1 .. Len(p)
    BY <1>1, CounterInProgram DEF Execute, CalibrationInv
  <2>2. Honest(p)
    BY <2>1, ProgramsHonest
  <2>3. ASSUME NEW image, NEW value, TakesThrough(p, image, value),
               Instruction(c) = <<"acquire", image>>
        PROVE  shutter = value
    <3>1. LeftAt(c, "shutter", value)
      BY <2>1, <2>3 DEF TakesThrough, LeftAt, Instruction
    <3>2. QED BY <1>1, <3>1 DEF MoverTells
  <2>4. QED BY <2>2, <2>3 DEF Honest
<1>2. CalibrationInv /\ MoverTells /\ [CalibrationNext]_calibrationVars
        => [\A c \in Clients :
              Execute(c) /\ mover = c
                => /\ Instruction(c) = <<"acquire", "min">> => shutter = 1
                   /\ Instruction(c) = <<"acquire", "max">> => shutter = 0]_calibrationVars
  BY <1>1
<1>3. QED
  BY <1>2, CalibrationInitInv, MoverTellsInit, CalibrationInvariance, MoverTellsNext, PTL
     DEF CalibrationSpec, ImagesAreHonest
=============================================================================
