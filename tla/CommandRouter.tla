---------------------------- MODULE CommandRouter ----------------------------
(***************************************************************************)
(* The commands of the service (clamir_service::command_processor_legacy)  *)
(* and their handlers, beside the two places where the process loop reads  *)
(* what a command needs several register accesses for: the reference width *)
(* and the length of a track.                                              *)
(*                                                                         *)
(* A command is a D-Bus call with a 32-bit word that names a route, says   *)
(* whether it reads or writes, and carries 16 bits of value.  One thread   *)
(* dispatches all of them, so commands do not overlap each other, but they *)
(* do overlap the loop, register access by register access.                *)
(***************************************************************************)
EXTENDS Integers

CONSTANTS
  Routes,          \* the route table: from a route id to a parameter
  Words,           \* the word <<device, offset>> an accessor uses
  LoopWords,       \* the word the loop uses for what it shares with commands
  Fixed,           \* the constants some reads answer
  Wide,            \* parameters whose reads answer 32 bits
  Shared,          \* parameters that others write: the loop, or the sensor
  Devices,         \* the devices of the parameters
  Openings,        \* the sets of devices a start, perhaps a failed one, can open
  InitialWords,    \* what the registers can hold at first
  StoredByOthers,  \* bound: what others write
  Sessions,        \* bound: the sets of requests an operator's program may send
  VALUE_RANGE,     \* values a request can carry (2^16)
  WORD,            \* values of a register (2^32)
  UNIT,            \* clock cycles of a unit of time_track (10^7)
  TICKS            \* clock cycles of a unit of track_length (10^5)

Locations == {Words[p] : p \in DOMAIN Words}

\* What a read can be asked for; time_track is kept in two words.
Parameters ==
  (DOMAIN Words \ {"time_track_high", "time_track_low"}) \cup DOMAIN Fixed \cup {"time_track"}

ReadOnly == DOMAIN Fixed \cup {"background_remove"}

(***************************************************************************)
(* No two parameters share a word, and the loop means the same words as    *)
(* the accessors do.  The product of a value and UNIT fits two registers.  *)
(***************************************************************************)
ASSUME RouterAssumption ==
  /\ {"time_track_high", "time_track_low", "set_ref_width", "width_ref"} \subseteq DOMAIN Words
  /\ "time_track" \notin DOMAIN Words \cup DOMAIN Fixed
  /\ DOMAIN Fixed \cap DOMAIN Words = {}
  /\ "other" \notin Parameters
  /\ \A p \in DOMAIN Fixed : Fixed[p] \in Nat
  /\ \A p, r \in DOMAIN Words : Words[p] = Words[r] => p = r
  /\ \A p \in DOMAIN LoopWords \cap DOMAIN Words : LoopWords[p] = Words[p]
  /\ \A p \in DOMAIN Words : Words[p][1] \in Devices
  /\ Words["time_track_low"][1] = Words["time_track_high"][1]
  /\ Shared \subseteq Parameters \ {"time_track", "width_ref"}
  /\ "set_ref_width" \in Shared
  /\ InitialWords \subseteq [Locations -> Nat]
  /\ StoredByOthers \subseteq Nat
  /\ \A s \in Sessions : s \subseteq Nat
  /\ VALUE_RANGE \in Nat \ {0} /\ WORD \in Nat \ {0}
  /\ UNIT \in Nat \ {0} /\ TICKS \in Nat \ {0}

VARIABLES
  words,        \* the registers
  opened,       \* the devices whose drivers were opened
  session,      \* bound: the requests of the operator's program
  pc,           \* the dispatcher: which access of the command comes next
  request,      \* the word of the command
  answer,       \* p.value, what the call returns
  high,         \* of the time_track handler: the half it has read
  loopPc,       \* the loop: which access comes next
  loopHigh,     \* the upper half of track_length, before it is complete
  widthRef,     \* width_ref, in hundredths
  trackLength,  \* track_length
  asked,        \* history: what became of the last write of set_ref_width
  late,         \* history: it came between the loop's reading and its clearing
  seen,         \* history: the times of track there were, in clock cycles
  changing,     \* history: time_track is half written, and its upper half changed
  crossed       \* history: a change of the upper half fell into the loop's reading

commandVars == <<session, pc, request, answer, high>>
loopVars == <<loopPc, loopHigh, widthRef, trackLength>>
routerVars == <<words, opened, commandVars, loopVars, asked, late, seen, changing, crossed>>

-----------------------------------------------------------------------------
(* The request (packet): bits 0-6, 7, 8-11 and 16-31.                      *)

Endpoint(q) == q % 128
Reads(q)    == (q \div 128) % 2 = 1
Group(q)    == (q \div 256) % 16
Value(q)    == (q \div 65536) % VALUE_RANGE
RouteId(q)  == Endpoint(q) + 256 * Group(q)

Target(q) == IF RouteId(q) \in DOMAIN Routes THEN Routes[RouteId(q)] ELSE "other"

\* The value 10^7-fold, in two registers.
High(value) == (value * UNIT) \div WORD
Low(value)  == (value * UNIT) % WORD
Time(h, l)  == h * WORD + l

TimeHigh == Words["time_track_high"]
TimeLow  == Words["time_track_low"]
Device(p) == IF p = "time_track" THEN TimeHigh[1] ELSE Words[p][1]

\* The parameters that have a driver which was opened, and those that need none.
Live == {p \in Parameters : p \in DOMAIN Fixed \/ Device(p) \in opened}

\* A command of what has no accessor, no opened driver or no handler changes nothing.
MayRead(q)  == Reads(q) /\ Target(q) \in Live
MayWrite(q) == ~ Reads(q) /\ Target(q) \in Live \ ReadOnly

\* What a read answers of a register.
Answered(p, word) == IF p \in Wide THEN word ELSE word % VALUE_RANGE

RouterInit ==
  /\ words \in InitialWords
  /\ opened \in Openings
  /\ session \in Sessions
  /\ pc = "idle" /\ request = 0 /\ answer = 0 /\ high = 0
  /\ loopPc = "test" /\ loopHigh = 0
  /\ widthRef = 100 /\ trackLength = 2000
  /\ asked = "none" /\ late = FALSE
  /\ seen = {Time(words[TimeHigh], words[TimeLow])}
  /\ changing = FALSE /\ crossed = FALSE

-----------------------------------------------------------------------------
(* The dispatcher.                                                         *)

Receive(q) ==
  /\ pc = "idle" /\ q \in session
  /\ request' = q
  /\ answer' = Value(q)
  /\ pc' = "access"
  /\ UNCHANGED <<words, opened, session, high, loopVars, asked, late, seen, changing, crossed>>

\* No route, or an accessor that fails: the call returns the value it carried.
\* So does the command that saves the configuration, which changes no register.
Ignore ==
  /\ pc = "access" /\ ~ MayRead(request) /\ ~ MayWrite(request)
  /\ Reads(request) \/ Target(request) # "background_remove"
  /\ pc' = "reply"
  /\ UNCHANGED <<words, opened, session, request, answer, high, loopVars, asked, late, seen,
                 changing, crossed>>

\* The background is removed (SensorCalibration): what it stores, others store too.
Calibrate ==
  /\ pc = "access" /\ ~ Reads(request) /\ Target(request) = "background_remove"
  /\ pc' = "calibrating"
  /\ UNCHANGED <<words, opened, session, request, answer, high, loopVars, asked, late, seen,
                 changing, crossed>>

CalibrationEnds ==
  /\ pc = "calibrating"
  /\ pc' = "reply"
  /\ UNCHANGED <<words, opened, session, request, answer, high, loopVars, asked, late, seen,
                 changing, crossed>>

AnswerFixed ==
  /\ pc = "access" /\ MayRead(request) /\ Target(request) \in DOMAIN Fixed
  /\ answer' = Fixed[Target(request)]
  /\ pc' = "reply"
  /\ UNCHANGED <<words, opened, session, request, high, loopVars, asked, late, seen, changing,
                 crossed>>

Store ==
  LET p == Target(request)
      v == Value(request)
  IN  /\ pc = "access" /\ MayWrite(request) /\ p # "time_track"
      /\ words' = [words EXCEPT ![Words[p]] = v]
      /\ pc' = "reply"
      /\ asked' = IF p # "set_ref_width" THEN asked
                  ELSE IF v > 0 THEN "pending" ELSE "withdrawn"
      /\ late' = IF p # "set_ref_width" THEN late ELSE loopPc = "clear"
      /\ UNCHANGED <<opened, session, request, answer, high, loopVars, seen, changing, crossed>>

\* Definitions named X_Slip are slips a change of the code could make in X.
Load_Echoes ==
  /\ pc = "access" /\ MayRead(request)
  /\ Target(request) \notin DOMAIN Fixed \cup {"time_track"}
  /\ pc' = "reply"
  /\ UNCHANGED <<words, opened, session, request, answer, high, loopVars, asked, late, seen,
                 changing, crossed>>

Load ==
  LET p == Target(request)
  IN  /\ pc = "access" /\ MayRead(request) /\ p \notin DOMAIN Fixed \cup {"time_track"}
      /\ answer' = Answered(p, words[Words[p]])
      /\ pc' = "reply"
      /\ UNCHANGED <<words, opened, session, request, high, loopVars, asked, late, seen,
                     changing, crossed>>

\* time_track is written from its upper half down, with nothing to hold the loop off.
StoreHigh ==
  LET h == High(Value(request))
  IN  /\ pc = "access" /\ MayWrite(request) /\ Target(request) = "time_track"
      /\ words' = [words EXCEPT ![TimeHigh] = h]
      /\ pc' = "storelow"
      /\ changing' = (h # words[TimeHigh])
      /\ crossed' = (crossed \/ (loopPc = "low" /\ changing'))
      /\ UNCHANGED <<opened, session, request, answer, high, loopVars, asked, late, seen>>

StoreLow_Dropped ==
  /\ pc = "storelow"
  /\ pc' = "reply"
  /\ seen' = seen \cup {Value(request) * UNIT}
  /\ changing' = FALSE
  /\ UNCHANGED <<words, opened, session, request, answer, high, loopVars, asked, late, crossed>>

StoreLow ==
  /\ pc = "storelow"
  /\ words' = [words EXCEPT ![TimeLow] = Low(Value(request))]
  /\ pc' = "reply"
  /\ seen' = seen \cup {Value(request) * UNIT}
  /\ changing' = FALSE
  /\ UNCHANGED <<opened, session, request, answer, high, loopVars, asked, late, crossed>>

LoadHigh ==
  /\ pc = "access" /\ MayRead(request) /\ Target(request) = "time_track"
  /\ high' = words[TimeHigh]
  /\ pc' = "loadlow"
  /\ UNCHANGED <<words, opened, session, request, answer, loopVars, asked, late, seen, changing,
                 crossed>>

LoadLow ==
  /\ pc = "loadlow"
  /\ answer' = (Time(high, words[TimeLow]) \div UNIT) % VALUE_RANGE
  /\ pc' = "reply"
  /\ UNCHANGED <<words, opened, session, request, high, loopVars, asked, late, seen, changing,
                 crossed>>

Reply ==
  /\ pc = "reply"
  /\ pc' = "idle"
  /\ UNCHANGED <<words, opened, session, request, answer, high, loopVars, asked, late, seen,
                 changing, crossed>>

Dispatch ==
  \/ \E q \in session : Receive(q)
  \/ Ignore \/ AnswerFixed \/ Store \/ Load \/ Reply
  \/ StoreHigh \/ StoreLow \/ LoadHigh \/ LoadLow
  \/ Calibrate \/ CalibrationEnds

-----------------------------------------------------------------------------
(* The loop; it runs when every driver has been opened.                    *)

LoopTest_Unguarded ==
  /\ opened = Devices /\ loopPc = "test"
  /\ loopPc' = "clear"
  /\ UNCHANGED <<words, opened, commandVars, loopHigh, widthRef, trackLength, asked, late, seen,
                 changing, crossed>>

LoopTest_Edge ==
  /\ opened = Devices /\ loopPc = "test"
  /\ loopPc' = IF words[Words["set_ref_width"]] > 1 THEN "take" ELSE "automaton"
  /\ UNCHANGED <<words, opened, commandVars, loopHigh, widthRef, trackLength, asked, late, seen,
                 changing, crossed>>

LoopTest ==
  /\ opened = Devices /\ loopPc = "test"
  /\ loopPc' = IF words[Words["set_ref_width"]] > 0 THEN "take" ELSE "automaton"
  /\ UNCHANGED <<words, opened, commandVars, loopHigh, widthRef, trackLength, asked, late, seen,
                 changing, crossed>>

LoopTake ==
  /\ loopPc = "take"
  /\ widthRef' = words[Words["width_ref"]]
  /\ loopPc' = "clear"
  /\ asked' = "none"
  /\ UNCHANGED <<words, opened, commandVars, loopHigh, trackLength, late, seen, changing,
                 crossed>>

LoopClear ==
  /\ loopPc = "clear"
  /\ words' = [words EXCEPT ![Words["set_ref_width"]] = 0]
  /\ loopPc' = "automaton"
  /\ UNCHANGED <<opened, commandVars, loopHigh, widthRef, trackLength, asked, late, seen,
                 changing, crossed>>

\* A process begins: the length of its tracks is read, half by half.
LoopTrack ==
  /\ loopPc = "automaton"
  /\ loopHigh' = words[TimeHigh]
  /\ loopPc' = "low"
  /\ crossed' = changing
  /\ UNCHANGED <<words, opened, commandVars, widthRef, trackLength, asked, late, seen,
                 changing>>

LoopLow ==
  /\ loopPc = "low"
  /\ trackLength' = Time(loopHigh, words[TimeLow]) \div TICKS
  /\ loopPc' = "test"
  /\ UNCHANGED <<words, opened, commandVars, loopHigh, widthRef, asked, late, seen, changing,
                 crossed>>

\* Every other frame.
LoopSkip ==
  /\ loopPc = "automaton"
  /\ loopPc' = "test"
  /\ UNCHANGED <<words, opened, commandVars, loopHigh, widthRef, trackLength, asked, late, seen,
                 changing, crossed>>

LoopStep == LoopTest \/ LoopTake \/ LoopClear \/ LoopTrack \/ LoopLow \/ LoopSkip

\* Bound: only what the operator's program asks for.
OtherStore(p, v) ==
  /\ p \in Shared \ {"set_ref_width"} /\ p \in DOMAIN Words
  /\ Words[p][1] \in opened
  /\ \E q \in session : Target(q) = p
  /\ words' = [words EXCEPT ![Words[p]] = v]
  /\ UNCHANGED <<opened, commandVars, loopVars, asked, late, seen, changing, crossed>>

RouterNext ==
  \/ Dispatch
  \/ LoopStep
  \/ \E p \in Shared, v \in StoredByOthers : OtherStore(p, v)

\* The loop's thread runs on; nothing is asked of the operator's program.
RouterSpec == RouterInit /\ [][RouterNext]_routerVars /\ WF_routerVars(LoopStep)

-----------------------------------------------------------------------------
(***************************************************************************)
(* The command interface is a store of parameters: what a command writes   *)
(* is what later ones read, until somebody who may changes it, whatever    *)
(* the accessors, the widths and the halves of time_track do in between.   *)
(* A write of time_track takes place with its upper half: commands do not  *)
(* overlap, so no other command sees it half done.                         *)
(*                                                                         *)
(* The modulus stands for a conversion from double to uint16_t, undefined  *)
(* out of range (clamir_service.cpp:718).  Every length that a command or  *)
(* a whole start wrote is in range; one found in the registers after a     *)
(* start that failed may not be, and of its outcomes the modulus is one.   *)
(***************************************************************************)
HeldTime ==
  IF pc = "storelow" THEN Value(request)
  ELSE (Time(words[TimeHigh], words[TimeLow]) \div UNIT) % VALUE_RANGE

Held ==
  [p \in Parameters |->
     IF p \in DOMAIN Fixed THEN Fixed[p]
     ELSE IF p = "time_track" THEN HeldTime
     ELSE Answered(p, words[Words[p]])]

CallState ==
  IF pc = "idle" THEN "idle"
  ELSE IF pc \in {"access", "calibrating", "loadlow"} THEN "called" ELSE "done"

CallSeen ==
  [state |-> CallState,
   parameter |-> IF Target(request) \in Parameters THEN Target(request) ELSE "other",
   reads |-> Reads(request), value |-> answer]

Interface == INSTANCE RegisterStore WITH held <- Held, live <- Live, call <- CallSeen

ImplementsRegisterStore == Interface!StoreSpec

(***************************************************************************)
(* A request for the reference width is not lost: until the loop has taken *)
(* it, the register says so, unless it was written just between the loop's *)
(* reading of WIDTH_REF and its clearing of SET_REF_WIDTH.                 *)
(***************************************************************************)
RequestKept == asked = "pending" => words[Words["set_ref_width"]] > 0 \/ late

CommandedValues == {Value(q) : q \in UNION Sessions}

(***************************************************************************)
(* Otherwise the loop takes WIDTH_REF for its reference, unless meanwhile  *)
(* it is given another value or the request is withdrawn.                  *)
(***************************************************************************)
RequestServed ==
  \A v \in CommandedValues :
    (opened = Devices /\ asked = "pending" /\ words[Words["width_ref"]] = v)
      ~> \/ widthRef = v \/ words[Words["width_ref"]] # v
         \/ late \/ asked = "withdrawn"

(***************************************************************************)
(* The length the loop counts tracks with is one that was commanded, and   *)
(* never one put together from two commands, unless a command that changes *)
(* the upper half of the time (one of 430 units or more is involved) falls *)
(* into the loop's reading of the two halves.                              *)
(***************************************************************************)
TrackLengthHonest ==
  loopPc # "low" /\ ~ crossed
    => trackLength \in {2000} \cup {t \div TICKS : t \in seen}
=============================================================================
