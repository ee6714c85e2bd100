------------------------- MODULE CommandRouterProofs -------------------------
(***************************************************************************)
(* The commands implement a store of parameters, a request for the         *)
(* reference width is kept, and the loop never puts the length of a track  *)
(* together from two commands, for any table of routes and registers.      *)
(***************************************************************************)
EXTENDS CommandRouter, TLAPS

RouterTypes ==
  /\ words \in [Locations -> Nat]
  /\ session \subseteq Nat
  /\ pc \in {"idle", "access", "calibrating", "storelow", "loadlow", "reply"}
  /\ request \in Nat /\ answer \in Nat /\ high \in Nat
  /\ loopPc \in {"test", "take", "clear", "automaton", "low"}
  /\ changing \in BOOLEAN /\ crossed \in BOOLEAN /\ late \in BOOLEAN

\* What the dispatcher knows between two accesses of a command.
CallInv ==
  /\ pc \in {"access", "calibrating", "storelow"} => answer = Value(request)
  /\ pc = "calibrating" => ~ Reads(request) /\ Target(request) = "background_remove"
  /\ pc = "storelow" =>
       /\ MayWrite(request) /\ Target(request) = "time_track"
       /\ words[TimeHigh] = High(Value(request))
  /\ pc = "loadlow" =>
       /\ MayRead(request) /\ Target(request) = "time_track"
       /\ high = words[TimeHigh]

\* Only a half-written time with a new upper half is not one that was commanded.
TrackInv ==
  /\ changing => pc = "storelow"
  /\ ~ changing => Time(words[TimeHigh], words[TimeLow]) \in seen
  /\ loopPc = "low" /\ ~ crossed => loopHigh = words[TimeHigh] /\ ~ changing
  /\ TrackLengthHonest

\* The loop clears no request it has not taken, but one that came too late.
RequestInv ==
  /\ RequestKept
  /\ loopPc = "clear" => asked # "pending" \/ late

\* The inductive invariant.
RouterInv == RouterTypes /\ CallInv /\ TrackInv /\ RequestInv

-----------------------------------------------------------------------------
\* Where the registers are.
LEMMA Places ==
  /\ TimeHigh \in Locations /\ TimeLow \in Locations /\ TimeHigh # TimeLow
  /\ Words["set_ref_width"] \in Locations
  /\ Words["set_ref_width"] # TimeHigh /\ Words["set_ref_width"] # TimeLow
  /\ \A p \in Parameters : p \notin DOMAIN Fixed /\ p # "time_track" =>
       /\ p \in DOMAIN Words /\ Words[p] \in Locations
       /\ Words[p] # TimeHigh /\ Words[p] # TimeLow
BY RouterAssumption DEF Locations, TimeHigh, TimeLow, Parameters

\* The registers that others write are neither of time_track nor set_ref_width.
LEMMA SharedPlaces ==
  ASSUME NEW p \in Shared \ {"set_ref_width"}, p \in DOMAIN Words
  PROVE  /\ p \in Parameters /\ p \notin DOMAIN Fixed /\ p # "time_track"
         /\ Words[p] # Words["set_ref_width"]
BY RouterAssumption DEF Parameters

\* What a division leaves, and what it undoes.
LEMMA Division ==
  ASSUME NEW n \in Nat, NEW w \in Nat \ {0}
  PROVE  /\ n \div w \in Nat /\ n % w \in 0 .. w - 1
         /\ (n \div w) * w + (n % w) = n
BY SMTT(30)

LEMMA Product ==
  ASSUME NEW n \in Nat, NEW w \in Nat \ {0}
  PROVE  n * w \in Nat /\ (n * w) \div w = n
BY SMTT(30)

\* The value of a request is 16 bits, and its two halves make it up again.
LEMMA Halves ==
  ASSUME NEW q \in Nat
  PROVE  /\ Value(q) \in Nat /\ Value(q) % VALUE_RANGE = Value(q)
         /\ High(Value(q)) \in Nat /\ Low(Value(q)) \in Nat
         /\ Time(High(Value(q)), Low(Value(q))) = Value(q) * UNIT
         /\ ((Value(q) * UNIT) \div UNIT) % VALUE_RANGE = Value(q)
<1> DEFINE v == Value(q)
<1>1. VALUE_RANGE \in Nat \ {0} /\ WORD \in Nat \ {0} /\ UNIT \in Nat \ {0}
  BY RouterAssumption
<1>2. q \div 65536 \in Nat
  OBVIOUS
<1>3. v \in 0 .. VALUE_RANGE - 1
  BY <1>1, <1>2, Division DEF Value
<1>4. v \in Nat /\ v % VALUE_RANGE = v
  BY <1>1, <1>3
<1>5. v * UNIT \in Nat /\ (v * UNIT) \div UNIT = v
  BY <1>1, <1>4, Product
<1> HIDE DEF v
<1>6. /\ (v * UNIT) \div WORD \in Nat /\ (v * UNIT) % WORD \in 0 .. WORD - 1
      /\ ((v * UNIT) \div WORD) * WORD + ((v * UNIT) % WORD) = v * UNIT
  BY <1>1, <1>5, Division
<1>7. High(v) \in Nat /\ Low(v) \in Nat /\ Time(High(v), Low(v)) = v * UNIT
  BY <1>1, <1>6 DEF High, Low, Time
<1>8. QED BY <1>4, <1>5, <1>7 DEF v

LEMMA AnswerNat ==
  ASSUME NEW p, NEW n \in Nat
  PROVE  Answered(p, n) \in Nat /\ n % VALUE_RANGE \in Nat
<1>1. VALUE_RANGE \in Nat \ {0}
  BY RouterAssumption
<1>2. QED BY <1>1, Division DEF Answered

LEMMA TimeNat ==
  ASSUME NEW h \in Nat, NEW l \in Nat
  PROVE  Time(h, l) \in Nat /\ Time(h, l) \div UNIT \in Nat
<1>1. WORD \in Nat \ {0} /\ UNIT \in Nat \ {0}
  BY RouterAssumption
<1>2. Time(h, l) \in Nat
  BY <1>1, Product DEF Time
<1>3. QED BY <1>1, <1>2, Division

LEMMA RouterInitInv == RouterInit => RouterInv
<1> SUFFICES ASSUME RouterInit PROVE RouterInv
  OBVIOUS
<1>1. words \in [Locations -> Nat] /\ session \subseteq Nat
  BY RouterAssumption DEF RouterInit
<1>2. QED BY <1>1 DEF RouterInit, RouterInv, RouterTypes, CallInv, TrackInv, RequestInv,
    TrackLengthHonest, RequestKept

\* The types; every value that is stored or answered is a natural number.
LEMMA RouterTypesNext == RouterTypes /\ [RouterNext]_routerVars => RouterTypes'
<1> SUFFICES ASSUME RouterTypes, [RouterNext]_routerVars PROVE RouterTypes'
  OBVIOUS
<1> USE DEF RouterTypes
<1>1. CASE UNCHANGED routerVars
  BY <1>1 DEF routerVars, commandVars, loopVars
<1>2. ASSUME NEW q \in session, Receive(q) PROVE RouterTypes'
  BY <1>2, Halves DEF Receive, loopVars
<1>3. CASE Ignore \/ Reply \/ Calibrate \/ CalibrationEnds
  BY <1>3 DEF Ignore, Reply, Calibrate, CalibrationEnds, loopVars
<1>4. CASE AnswerFixed
  BY <1>4, RouterAssumption DEF AnswerFixed, loopVars
<1>5. CASE Store
  <2>1. words' \in [Locations -> Nat]
    BY <1>5, Halves, Places DEF Store, MayWrite, Live, ReadOnly
  <2>2. QED BY <1>5, <2>1 DEF Store, loopVars
<1>6. CASE Load
  <2>1. words[Words[Target(request)]] \in Nat
    BY <1>6, Places DEF Load, MayRead, Live
  <2>2. QED BY <1>6, <2>1, AnswerNat DEF Load, loopVars
<1>7. CASE StoreHigh
  BY <1>7, Halves, Places DEF StoreHigh, loopVars
<1>8. CASE StoreLow
  BY <1>8, Halves, Places DEF StoreLow, loopVars
<1>9. CASE LoadHigh
  BY <1>9, Places DEF LoadHigh, loopVars
<1>10. CASE LoadLow
  BY <1>10, Places, TimeNat, AnswerNat DEF LoadLow, loopVars
<1>11. CASE LoopStep
  <2>1. CASE LoopClear
    BY <1>11, <2>1, Places DEF LoopClear, commandVars
  <2>2. CASE LoopTest \/ LoopTake \/ LoopTrack \/ LoopLow \/ LoopSkip
    BY <1>11, <2>2 DEF LoopTest, LoopTake, LoopTrack, LoopLow, LoopSkip, commandVars
  <2>3. QED BY <1>11, <2>1, <2>2 DEF LoopStep
<1>12. ASSUME NEW p \in Shared, NEW v \in StoredByOthers, OtherStore(p, v) PROVE RouterTypes'
  <2>1. v \in Nat
    BY RouterAssumption
  <2>2. QED BY <1>12, <2>1 DEF OtherStore, commandVars, loopVars
<1>13. QED BY <1>1, <1>2, <1>3, <1>4, <1>5, <1>6, <1>7, <1>8, <1>9, <1>10, <1>11, <1>12
           DEF RouterNext, Dispatch

\* The dispatcher's knowledge: nobody else stores in the two words of time_track.
LEMMA CallNext ==
  RouterTypes /\ CallInv /\ [RouterNext]_routerVars => CallInv'
<1> SUFFICES ASSUME RouterTypes, CallInv, [RouterNext]_routerVars PROVE CallInv'
  OBVIOUS
<1> USE DEF RouterTypes, CallInv, MayRead, MayWrite, Live
<1>1. CASE UNCHANGED routerVars
  BY <1>1 DEF routerVars, commandVars
<1>2. ASSUME NEW q \in session, Receive(q) PROVE CallInv'
  BY <1>2 DEF Receive
<1>3. CASE Ignore \/ Reply \/ CalibrationEnds \/ AnswerFixed \/ Store \/ Load \/ StoreLow \/ LoadLow
  BY <1>3 DEF Ignore, Reply, CalibrationEnds, AnswerFixed, Store, Load, StoreLow, LoadLow
<1>4. CASE Calibrate
  BY <1>4 DEF Calibrate
<1>5. CASE StoreHigh
  BY <1>5, Places DEF StoreHigh
<1>6. CASE LoadHigh
  BY <1>6 DEF LoadHigh
<1>7. CASE LoopStep
  <2>1. words'[TimeHigh] = words[TimeHigh] /\ UNCHANGED <<opened, pc, request, answer, high>>
    BY <1>7, Places DEF LoopStep, LoopTest, LoopTake, LoopClear, LoopTrack, LoopLow, LoopSkip,
       commandVars
  <2>2. QED BY <2>1
<1>8. ASSUME NEW p \in Shared, NEW v \in StoredByOthers, OtherStore(p, v) PROVE CallInv'
  <2>1. words'[TimeHigh] = words[TimeHigh] /\ UNCHANGED <<opened, pc, request, answer, high>>
    BY <1>8, Places, SharedPlaces DEF OtherStore, commandVars
  <2>2. QED BY <2>1
<1>9. QED BY <1>1, <1>2, <1>3, <1>4, <1>5, <1>6, <1>7, <1>8 DEF RouterNext, Dispatch

\* A request is cleared only when it was taken.
LEMMA RequestNext ==
  RouterTypes /\ RequestInv /\ [RouterNext]_routerVars => RequestInv'
<1> SUFFICES ASSUME RouterTypes, RequestInv, [RouterNext]_routerVars PROVE RequestInv'
  OBVIOUS
<1> DEFINE SetRef == Words["set_ref_width"]
<1> USE DEF RouterTypes, RequestInv, RequestKept
<1>1. CASE UNCHANGED routerVars
  BY <1>1 DEF routerVars, loopVars
<1>2. CASE \/ \E q \in session : Receive(q)
           \/ Ignore \/ AnswerFixed \/ Load \/ Reply \/ LoadHigh \/ LoadLow
           \/ Calibrate \/ CalibrationEnds
  BY <1>2 DEF Receive, Ignore, AnswerFixed, Load, Reply, LoadHigh, LoadLow, Calibrate,
     CalibrationEnds, loopVars
<1>3. CASE Store
  <2>1. /\ Target(request) \in DOMAIN Words /\ Words[Target(request)] \in Locations
        /\ Target(request) # "set_ref_width" => Words[Target(request)] # SetRef
    BY <1>3, Places, RouterAssumption DEF Store, MayWrite, Live, ReadOnly
  <2>2. QED BY <1>3, <2>1, Places DEF Store, loopVars
<1>4. CASE StoreHigh \/ StoreLow
  BY <1>4, Places DEF StoreHigh, StoreLow, loopVars
<1>5. CASE LoopTest \/ LoopTake \/ LoopTrack \/ LoopLow \/ LoopSkip
  BY <1>5 DEF LoopTest, LoopTake, LoopTrack, LoopLow, LoopSkip
<1>6. CASE LoopClear
  BY <1>6, Places DEF LoopClear
<1>7. ASSUME NEW p \in Shared, NEW v \in StoredByOthers, OtherStore(p, v) PROVE RequestInv'
  BY <1>7, Places, SharedPlaces DEF OtherStore, loopVars
<1>8. QED BY <1>1, <1>2, <1>3, <1>4, <1>5, <1>6, <1>7 DEF RouterNext, Dispatch, LoopStep

\* The time of a track is only wrong while a command is between its halves.
LEMMA TrackNext ==
  RouterTypes /\ CallInv /\ TrackInv /\ [RouterNext]_routerVars => TrackInv'
<1> SUFFICES ASSUME RouterTypes, CallInv, TrackInv, [RouterNext]_routerVars PROVE TrackInv'
  OBVIOUS
<1> USE DEF RouterTypes, TrackInv, TrackLengthHonest
<1>1. ASSUME UNCHANGED <<loopVars, seen, changing, crossed>>, ~ changing \/ pc' = "storelow",
             words'[TimeHigh] = words[TimeHigh], words'[TimeLow] = words[TimeLow]
      PROVE  TrackInv'
  BY <1>1 DEF loopVars
<1>2. CASE UNCHANGED routerVars
  BY <1>1, <1>2 DEF routerVars, commandVars
<1>3. CASE \/ \E q \in session : Receive(q)
           \/ Ignore \/ AnswerFixed \/ Load \/ Reply \/ LoadHigh \/ LoadLow
           \/ Calibrate \/ CalibrationEnds
  BY <1>1, <1>3 DEF Receive, Ignore, AnswerFixed, Load, Reply, LoadHigh, LoadLow, Calibrate,
     CalibrationEnds
<1>4. CASE Store
  <2>1. words'[TimeHigh] = words[TimeHigh] /\ words'[TimeLow] = words[TimeLow]
    BY <1>4, Places DEF Store, MayWrite, Live, ReadOnly
  <2>2. QED BY <1>1, <1>4, <2>1 DEF Store
<1>5. CASE StoreHigh
  <2>1. /\ words'[TimeHigh] = High(Value(request)) /\ words'[TimeLow] = words[TimeLow]
        /\ ~ changing
    BY <1>5, Places DEF StoreHigh
  <2>2. /\ changing' = (words'[TimeHigh] # words[TimeHigh])
        /\ crossed' = (crossed \/ (loopPc = "low" /\ changing'))
        /\ pc' = "storelow" /\ UNCHANGED <<loopPc, loopHigh, trackLength, seen>>
    BY <1>5, <2>1 DEF StoreHigh, loopVars
  <2>3. ~ changing' => words'[TimeHigh] = words[TimeHigh]
    BY <2>2
  <2>4. ~ changing' => Time(words'[TimeHigh], words'[TimeLow]) \in seen'
    BY <2>1, <2>2, <2>3
  <2>5. loopPc' = "low" /\ ~ crossed' => loopHigh' = words'[TimeHigh] /\ ~ changing'
    BY <2>2, <2>3
  <2>6. TrackLengthHonest'
    BY <2>2
  <2>7. QED BY <2>2, <2>4, <2>5, <2>6
<1>6. CASE StoreLow
  <2>1. /\ words'[TimeHigh] = words[TimeHigh] /\ words'[TimeLow] = Low(Value(request))
        /\ words[TimeHigh] = High(Value(request))
    BY <1>6, Places DEF StoreLow, CallInv
  <2>2. Time(words'[TimeHigh], words'[TimeLow]) \in seen'
    BY <1>6, <2>1, Halves DEF StoreLow
  <2>3. QED BY <1>6, <2>1, <2>2 DEF StoreLow, loopVars
<1>7. CASE LoopTest \/ LoopTake \/ LoopClear \/ LoopSkip
  <2>1. words'[TimeHigh] = words[TimeHigh] /\ words'[TimeLow] = words[TimeLow]
    BY <1>7, Places DEF LoopTest, LoopTake, LoopClear, LoopSkip
  <2>2. QED BY <1>7, <2>1 DEF LoopTest, LoopTake, LoopClear, LoopSkip, commandVars
<1>8. CASE LoopTrack
  BY <1>8 DEF LoopTrack, commandVars
<1>9. CASE LoopLow
  BY <1>9 DEF LoopLow, commandVars
<1>10. ASSUME NEW p \in Shared, NEW v \in StoredByOthers, OtherStore(p, v) PROVE TrackInv'
  <2>1. words'[TimeHigh] = words[TimeHigh] /\ words'[TimeLow] = words[TimeLow]
    BY <1>10, Places, SharedPlaces DEF OtherStore
  <2>2. QED BY <1>1, <1>10, <2>1 DEF OtherStore, commandVars
<1>11. QED BY <1>2, <1>3, <1>4, <1>5, <1>6, <1>7, <1>8, <1>9, <1>10
           DEF RouterNext, Dispatch, LoopStep

THEOREM RouterInvariant == RouterSpec => []RouterInv
<1>1. RouterInv /\ [RouterNext]_routerVars => RouterInv'
  BY RouterTypesNext, CallNext, RequestNext, TrackNext DEF RouterInv
<1>2. QED BY <1>1, RouterInitInv, PTL DEF RouterSpec

\* A request for the reference width is kept, or came while the loop was clearing the last.
THEOREM RequestsAreKept == RouterSpec => []RequestKept
<1>1. RouterInv => RequestKept
  BY DEF RouterInv, RequestInv
<1>2. QED BY <1>1, RouterInvariant, PTL

(***************************************************************************)
(* While the loop runs (process_core.cpp:767), a request for the reference *)
(* width is served.  The prover knows no ENABLED: that the running loop    *)
(* always has a next access is a hypothesis of the theorem, and it is so   *)
(* because at every value of loopPc some step of LoopStep is guarded by no *)
(* more than that value and, at the test, by opened = Devices.             *)
(***************************************************************************)
LoopGoesOn == opened = Devices => ENABLED <<LoopStep>>_routerVars

\* The request with value v, and what ends the wait for it.
Requested(v) == opened = Devices /\ asked = "pending" /\ words[Words["width_ref"]] = v

Served(v) == \/ widthRef = v \/ words[Words["width_ref"]] # v
             \/ late \/ asked = "withdrawn"

WaitsAt(v, at) == Requested(v) /\ ~ Served(v) /\ loopPc = at

\* No step of the commands moves the loop, or ends the request without serving it.
LEMMA WaitsThrough ==
  ASSUME RouterInv, [RouterNext]_routerVars, NEW v, NEW at, WaitsAt(v, at), ~ LoopStep
  PROVE  WaitsAt(v, at)' \/ Served(v)'
<1> USE DEF WaitsAt, Requested, Served
<1>1. opened' = opened /\ loopPc' = loopPc
  BY DEF RouterNext, Dispatch, Receive, Ignore, AnswerFixed, Store, Load, Reply, StoreHigh,
     StoreLow, LoadHigh, LoadLow, Calibrate, CalibrationEnds, OtherStore, routerVars, loopVars
<1>2. asked' = asked \/ asked' \in {"pending", "withdrawn"}
  BY DEF RouterNext, Dispatch, Receive, Ignore, AnswerFixed, Store, Load, Reply, StoreHigh,
     StoreLow, LoadHigh, LoadLow, Calibrate, CalibrationEnds, OtherStore, routerVars
<1>3. QED BY <1>1, <1>2

\* The loop comes round to the test, which finds the request, and takes the reference.
LEMMA LoopServes ==
  ASSUME RouterInv, LoopStep, NEW v, NEW at, WaitsAt(v, at)
  PROVE  /\ at = "automaton" => WaitsAt(v, "low")' \/ WaitsAt(v, "test")' \/ Served(v)'
         /\ at = "low" => WaitsAt(v, "test")' \/ Served(v)'
         /\ at = "test" => WaitsAt(v, "take")' \/ Served(v)'
         /\ at = "take" => Served(v)'
<1> USE DEF WaitsAt, Requested, Served
<1>1. words[Words["set_ref_width"]] > 0
  BY DEF RouterInv, RequestInv, RequestKept
<1>2. CASE at = "automaton"
  BY <1>2 DEF LoopStep, LoopTest, LoopTake, LoopClear, LoopTrack, LoopLow, LoopSkip
<1>3. CASE at = "low"
  BY <1>3 DEF LoopStep, LoopTest, LoopTake, LoopClear, LoopTrack, LoopLow, LoopSkip
<1>4. CASE at = "test"
  BY <1>1, <1>4 DEF LoopStep, LoopTest, LoopTake, LoopClear, LoopTrack, LoopLow, LoopSkip
<1>5. CASE at = "take"
  BY <1>5 DEF LoopStep, LoopTest, LoopTake, LoopClear, LoopTrack, LoopLow, LoopSkip
<1>6. QED BY <1>2, <1>3, <1>4, <1>5

THEOREM RequestIsServed == RouterSpec /\ []LoopGoesOn => RequestServed
<1>1. ASSUME NEW v \in CommandedValues
      PROVE  RouterSpec /\ []LoopGoesOn => (Requested(v) ~> Served(v))
  <2>1. RouterInv /\ Requested(v)
          => \/ Served(v) \/ WaitsAt(v, "test") \/ WaitsAt(v, "take")
             \/ WaitsAt(v, "automaton") \/ WaitsAt(v, "low")
    BY DEF WaitsAt, Requested, Served, RouterInv, RouterTypes, RequestInv
  <2>2. \A at : WaitsAt(v, at) => opened = Devices
    BY DEF WaitsAt, Requested
  <2>3. RouterInv /\ [RouterNext]_routerVars /\ WaitsAt(v, "take")
          => Served(v)' \/ (WaitsAt(v, "take")' /\ ~ <<LoopStep>>_routerVars)
    BY WaitsThrough, LoopServes
  <2>4. RouterInv /\ [RouterNext]_routerVars /\ WaitsAt(v, "test")
          => \/ Served(v)' \/ WaitsAt(v, "take")'
             \/ (WaitsAt(v, "test")' /\ ~ <<LoopStep>>_routerVars)
    BY WaitsThrough, LoopServes
  <2>5. RouterInv /\ [RouterNext]_routerVars /\ WaitsAt(v, "low")
          => \/ Served(v)' \/ WaitsAt(v, "test")'
             \/ (WaitsAt(v, "low")' /\ ~ <<LoopStep>>_routerVars)
    BY WaitsThrough, LoopServes
  <2>6. RouterInv /\ [RouterNext]_routerVars /\ WaitsAt(v, "automaton")
          => \/ Served(v)' \/ WaitsAt(v, "low")' \/ WaitsAt(v, "test")'
             \/ (WaitsAt(v, "automaton")' /\ ~ <<LoopStep>>_routerVars)
    BY WaitsThrough, LoopServes
  <2>7. /\ WaitsAt(v, "take") => opened = Devices
        /\ WaitsAt(v, "test") => opened = Devices
        /\ WaitsAt(v, "low") => opened = Devices
        /\ WaitsAt(v, "automaton") => opened = Devices
    BY <2>2
  <2>8. QED
    BY <2>1, <2>3, <2>4, <2>5, <2>6, <2>7, RouterInvariant, PTL DEF RouterSpec, LoopGoesOn
<1>2. QED BY <1>1 DEF RequestServed, Requested, Served

\* The length of a track is a commanded one, but for a crossing of a changing upper half.
THEOREM TrackLengthIsHonest == RouterSpec => []TrackLengthHonest
<1>1. RouterInv => TrackLengthHonest
  BY DEF RouterInv, TrackInv
<1>2. QED BY <1>1, RouterInvariant, PTL

-----------------------------------------------------------------------------
(* The refinement.                                                         *)

LEMMA HeldNat == RouterTypes => Held \in [Parameters -> Nat]
<1> SUFFICES ASSUME RouterTypes PROVE Held \in [Parameters -> Nat]
  OBVIOUS
<1>1. ASSUME NEW p \in Parameters PROVE Held[p] \in Nat
  <2>1. CASE p \in DOMAIN Fixed
    BY <2>1, RouterAssumption DEF Held
  <2>2. CASE p \notin DOMAIN Fixed /\ p = "time_track"
    <3>1. HeldTime \in Nat
      BY Places, Halves, TimeNat, AnswerNat DEF HeldTime, RouterTypes
    <3>2. QED BY <2>2, <3>1 DEF Held
  <2>3. CASE p \notin DOMAIN Fixed /\ p # "time_track"
    BY <2>3, Places, AnswerNat DEF Held, RouterTypes
  <2>4. QED BY <2>1, <2>2, <2>3
<1>2. QED BY <1>1 DEF Held

\* A step that keeps the registers and the half-written time changes nothing held.
LEMMA HeldKept ==
  ASSUME UNCHANGED words, UNCHANGED HeldTime
  PROVE  Held' = Held
BY DEF Held

\* HeldTime only looks at pc while time_track is half written.
LEMMA HeldTimeKept ==
  ASSUME pc # "storelow", pc' # "storelow",
         words'[TimeHigh] = words[TimeHigh], words'[TimeLow] = words[TimeLow]
  PROVE  HeldTime' = HeldTime
BY DEF HeldTime

LEMMA CallsSeen == RouterTypes => CallSeen \in Interface!Calls
BY DEF RouterTypes, CallSeen, CallState, Reads, Interface!Calls

LEMMA HeldNatNext ==
  RouterTypes' => Held' \in [Parameters -> Nat] /\ CallSeen' \in Interface!Calls
<1>1. RouterTypes' => (Held \in [Parameters -> Nat])'
  BY HeldNat, PTL
<1>2. RouterTypes' => (CallSeen \in Interface!Calls)'
  BY CallsSeen, PTL
<1>3. (Held \in [Parameters -> Nat])' => Held' \in [Parameters -> Nat]
  OBVIOUS
<1>4. (CallSeen \in Interface!Calls)' => CallSeen' \in Interface!Calls
  BY DEF Interface!Calls
<1>5. QED BY <1>1, <1>2, <1>3, <1>4

LEMMA InterfaceInit == RouterInit /\ RouterInv => Interface!StoreInit
<1> SUFFICES ASSUME RouterInit, RouterInv PROVE Interface!StoreInit
  OBVIOUS
<1>1. Held \in [Parameters -> Nat] /\ CallSeen \in Interface!Calls
  BY HeldNat, CallsSeen DEF RouterInv
<1>2. Live \subseteq Parameters /\ CallSeen.state = "idle"
  BY DEF Live, CallSeen, CallState, RouterInit
<1>3. QED BY <1>1, <1>2 DEF Interface!StoreInit

\* Between two calls, and between the accesses of one, the store stutters.
LEMMA Stutters ==
  ASSUME Held' = Held, Live' = Live, CallSeen' = CallSeen
  PROVE  [Interface!StoreNext]_(Interface!storeVars)
BY DEF Interface!storeVars

LEMMA ReceiveSimulates ==
  ASSUME RouterInv, RouterTypes', NEW q \in session, Receive(q)
  PROVE  Interface!Call
<1>1. CallSeen.state = "idle" /\ CallSeen'.state = "called" /\ CallSeen' \in Interface!Calls
  BY HeldNatNext DEF Receive, CallSeen, CallState
<1>2. Held' = Held /\ Live' = Live
  BY HeldKept, HeldTimeKept DEF Receive, Live
<1>3. QED BY <1>1, <1>2 DEF Interface!Call

LEMMA IgnoreSimulates ==
  ASSUME RouterInv, Ignore \/ CalibrationEnds
  PROVE  Interface!Ignore
<1>1. Held' = Held /\ Live' = Live
  BY HeldKept, HeldTimeKept DEF Ignore, CalibrationEnds, Live
<1>2. CallSeen.parameter \notin (IF CallSeen.reads THEN Live ELSE Live \ ReadOnly)
  <2>1. "other" \notin Live /\ Live \subseteq Parameters
    BY RouterAssumption DEF Live
  <2>2. CASE Ignore
    BY <2>1, <2>2 DEF Ignore, MayRead, MayWrite, CallSeen
  <2>3. CASE CalibrationEnds
    BY <2>1, <2>3 DEF CalibrationEnds, CallSeen, ReadOnly, RouterInv, CallInv
  <2>4. QED BY <2>2, <2>3
<1>3. CallSeen.state = "called" /\ Interface!Done(CallSeen.value)
  BY DEF Ignore, CalibrationEnds, CallSeen, CallState, Interface!Done
<1>4. QED BY <1>1, <1>2, <1>3 DEF Interface!Ignore

LEMMA ReadSimulates ==
  ASSUME RouterInv, AnswerFixed \/ Load \/ LoadLow
  PROVE  Interface!Read
<1>1. Held' = Held /\ Live' = Live
  BY HeldKept, HeldTimeKept DEF AnswerFixed, Load, LoadLow, Live
<1>2. MayRead(request) /\ pc \in {"access", "loadlow"}
  BY DEF AnswerFixed, Load, LoadLow, RouterInv, CallInv
<1>3. /\ CallSeen.state = "called" /\ CallSeen.reads
      /\ CallSeen.parameter = Target(request) /\ Target(request) \in Live
  BY <1>2 DEF CallSeen, CallState, MayRead, Live
<1>4. answer' = Held[Target(request)]
  <2>1. Target(request) \in Parameters
    BY <1>2 DEF MayRead, Live
  <2>2. CASE AnswerFixed
    BY <2>1, <2>2 DEF AnswerFixed, Held
  <2>3. CASE Load
    BY <2>1, <2>3 DEF Load, Held
  <2>4. CASE LoadLow
    BY <2>1, <2>4, RouterAssumption DEF LoadLow, Held, HeldTime, RouterInv, CallInv
  <2>5. QED BY <2>2, <2>3, <2>4
<1>5. Interface!Done(answer')
  BY DEF AnswerFixed, Load, LoadLow, CallSeen, CallState, Interface!Done
<1>6. QED BY <1>1, <1>3, <1>4, <1>5 DEF Interface!Read

\* A write changes what is held of its parameter, and of nothing else.
LEMMA WriteSimulates ==
  ASSUME RouterInv, Store \/ StoreHigh
  PROVE  Interface!Write
<1> DEFINE p == Target(request)
           v == Value(request)
<1>1. /\ MayWrite(request) /\ pc = "access" /\ answer = v
      /\ Live' = Live /\ UNCHANGED <<request, answer>>
  BY DEF Store, StoreHigh, RouterInv, CallInv, Live
<1>2. p \in Live \ ReadOnly /\ p \in Parameters /\ p \notin DOMAIN Fixed /\ ~ Reads(request)
  BY <1>1 DEF MayWrite, Live, ReadOnly
<1>3. v \in Nat /\ v % VALUE_RANGE = v
  BY Halves DEF RouterInv, RouterTypes
<1>4. Held' = [Held EXCEPT ![p] = v]
  <2>1. CASE Store
    <3>1. /\ p \in DOMAIN Words /\ Words[p] \in Locations /\ p # "time_track"
          /\ Words[p] # TimeHigh /\ Words[p] # TimeLow
          /\ words' = [words EXCEPT ![Words[p]] = v]
          /\ words \in [Locations -> Nat]
      BY <1>2, <2>1, Places DEF Store, RouterInv, RouterTypes
    <3>2. HeldTime' = HeldTime
      BY <1>1, <2>1, <3>1, HeldTimeKept DEF Store
    <3>3. ASSUME NEW r \in Parameters, r \notin DOMAIN Fixed, r # "time_track"
          PROVE  Answered(r, words'[Words[r]])
                   = IF r = p THEN v ELSE Answered(r, words[Words[r]])
      <4>1. Words[r] \in Locations /\ (r # p => Words[r] # Words[p])
        BY <3>1, <3>3, Places, RouterAssumption
      <4>2. words'[Words[r]] = IF r = p THEN v ELSE words[Words[r]]
        BY <3>1, <4>1
      <4>3. QED BY <1>3, <4>2 DEF Answered
    <3>4. QED BY <1>2, <3>1, <3>2, <3>3 DEF Held
  <2>2. CASE StoreHigh
    <3>1. /\ p = "time_track" /\ HeldTime' = v
          /\ \A l \in Locations : l # TimeHigh => words'[l] = words[l]
      BY <2>2, Places DEF StoreHigh, HeldTime, RouterInv, RouterTypes
    <3>2. ASSUME NEW r \in Parameters, r \notin DOMAIN Fixed, r # "time_track"
          PROVE  words'[Words[r]] = words[Words[r]]
      BY <3>1, <3>2, Places
    <3>3. QED BY <1>2, <3>1, <3>2 DEF Held
  <2>3. QED BY <2>1, <2>2
<1>5. /\ CallSeen.state = "called" /\ ~ CallSeen.reads /\ CallSeen.value = v
      /\ CallSeen.parameter = p
      /\ Interface!Done(v)
  BY <1>1, <1>2 DEF CallSeen, CallState, Store, StoreHigh, Interface!Done
<1> HIDE DEF p, v
<1>6. QED BY <1>1, <1>2, <1>4, <1>5 DEF Interface!Write

LEMMA ReplySimulates == ASSUME RouterInv, Reply PROVE Interface!Return
<1>1. Held' = Held /\ Live' = Live
  BY HeldKept, HeldTimeKept DEF Reply, Live
<1>2. CallSeen.state = "done" /\ CallSeen' = [CallSeen EXCEPT !.state = "idle"]
  BY DEF Reply, CallSeen, CallState
<1>3. QED BY <1>1, <1>2 DEF Interface!Return

\* Inside a call: the second half of time_track, and the start of a calibration.
LEMMA InsideSimulates ==
  ASSUME RouterInv, StoreLow \/ LoadHigh \/ Calibrate
  PROVE  Held' = Held /\ Live' = Live /\ CallSeen' = CallSeen
<1>1. Live' = Live /\ CallSeen' = CallSeen
  BY DEF StoreLow, LoadHigh, Calibrate, Live, CallSeen, CallState
<1>2. CASE LoadHigh \/ Calibrate
  BY <1>1, <1>2, HeldKept, HeldTimeKept DEF LoadHigh, Calibrate
<1>3. CASE StoreLow
  <2>1. /\ words' = [words EXCEPT ![TimeLow] = Low(Value(request))]
        /\ words \in [Locations -> Nat] /\ words[TimeHigh] = High(Value(request))
        /\ pc = "storelow" /\ pc' = "reply" /\ request \in Nat
    BY <1>3 DEF StoreLow, RouterInv, RouterTypes, CallInv
  <2>2. HeldTime' = HeldTime
    BY <2>1, Places, Halves DEF HeldTime
  <2>3. ASSUME NEW r \in Parameters, r \notin DOMAIN Fixed, r # "time_track"
        PROVE  words'[Words[r]] = words[Words[r]]
    BY <2>1, <2>3, Places
  <2>4. QED BY <1>1, <2>2, <2>3 DEF Held
<1>4. QED BY <1>2, <1>3

\* The loop and the sensor only change shared parameters.
LEMMA OthersSimulate ==
  ASSUME RouterInv, RouterTypes',
         \/ LoopStep
         \/ \E p \in Shared, v \in StoredByOthers : OtherStore(p, v)
  PROVE  [Interface!StoreNext]_(Interface!storeVars)
<1>1. Live' = Live /\ CallSeen' = CallSeen /\ Held' \in [Parameters -> Nat]
  BY HeldNatNext
     DEF LoopStep, LoopTest, LoopTake, LoopClear, LoopTrack, LoopLow, LoopSkip, OtherStore,
         commandVars, Live, CallSeen, CallState
<1>2. pc' = pc /\ request' = request
  BY DEF LoopStep, LoopTest, LoopTake, LoopClear, LoopTrack, LoopLow, LoopSkip, OtherStore,
     commandVars
<1>3. ASSUME NEW p \in Shared, p \in DOMAIN Words, p \in Parameters, p \notin DOMAIN Fixed,
             p # "time_track", NEW n, words' = [words EXCEPT ![Words[p]] = n]
      PROVE  Interface!Change
  <2>1. words \in [Locations -> Nat] /\ Words[p] \in Locations
        /\ Words[p] # TimeHigh /\ Words[p] # TimeLow
    BY <1>3, Places DEF RouterInv, RouterTypes
  <2>2. HeldTime' = HeldTime
    BY <1>2, <1>3, <2>1, Places DEF HeldTime
  <2>3. ASSUME NEW r \in Parameters, r \notin DOMAIN Fixed, r # "time_track", r # p
        PROVE  words'[Words[r]] = words[Words[r]]
    <3>1. Words[r] \in Locations /\ Words[r] # Words[p]
      BY <1>3, <2>3, Places, RouterAssumption
    <3>2. QED BY <1>3, <2>1, <3>1
  <2>4. \A r \in Parameters \ Shared : Held'[r] = Held[r]
    BY <2>2, <2>3 DEF Held
  <2>5. QED BY <1>1, <2>4 DEF Interface!Change
<1>4. CASE LoopClear
  <2>1. "set_ref_width" \in Shared /\ "set_ref_width" \in DOMAIN Words
        /\ "set_ref_width" \in Parameters /\ "set_ref_width" \notin DOMAIN Fixed
    BY RouterAssumption DEF Parameters
  <2>2. Interface!Change
    BY <1>3, <1>4, <2>1 DEF LoopClear
  <2>3. QED BY <2>2 DEF Interface!StoreNext
<1>5. CASE LoopTest \/ LoopTake \/ LoopTrack \/ LoopLow \/ LoopSkip
  <2>1. words' = words
    BY <1>5 DEF LoopTest, LoopTake, LoopTrack, LoopLow, LoopSkip
  <2>2. QED BY <1>1, <1>2, <2>1, HeldKept, Stutters DEF HeldTime
<1>6. ASSUME NEW p \in Shared, NEW v \in StoredByOthers, OtherStore(p, v)
      PROVE  Interface!Change
  BY <1>3, <1>6, SharedPlaces DEF OtherStore
<1>7. QED BY <1>4, <1>5, <1>6 DEF LoopStep, Interface!StoreNext

LEMMA StepSimulates ==
  RouterInv /\ RouterInv' /\ [RouterNext]_routerVars
    => [Interface!StoreNext]_(Interface!storeVars)
<1> SUFFICES ASSUME RouterInv, RouterInv', [RouterNext]_routerVars
             PROVE  [Interface!StoreNext]_(Interface!storeVars)
  OBVIOUS
<1> USE DEF Interface!StoreNext
<1>1. RouterTypes'
  BY DEF RouterInv
<1>2. CASE UNCHANGED routerVars
  BY <1>2, HeldKept, Stutters
  DEF routerVars, commandVars, HeldTime, Live, CallSeen, CallState
<1>3. CASE \E q \in session : Receive(q)
  BY <1>1, <1>3, ReceiveSimulates
<1>4. CASE Ignore \/ CalibrationEnds
  BY <1>4, IgnoreSimulates
<1>5. CASE AnswerFixed \/ Load \/ LoadLow
  BY <1>5, ReadSimulates
<1>6. CASE Store \/ StoreHigh
  BY <1>6, WriteSimulates
<1>7. CASE Reply
  BY <1>7, ReplySimulates
<1>8. CASE StoreLow \/ LoadHigh \/ Calibrate
  BY <1>8, InsideSimulates, Stutters
<1>9. CASE LoopStep \/ \E p \in Shared, v \in StoredByOthers : OtherStore(p, v)
  BY <1>1, <1>9, OthersSimulate
<1>10. QED BY <1>2, <1>3, <1>4, <1>5, <1>6, <1>7, <1>8, <1>9 DEF RouterNext, Dispatch

(***************************************************************************)
(* The commands implement the store of parameters: every step of the       *)
(* dispatcher, of the loop and of the sensor is a step of it or a stutter. *)
(***************************************************************************)
THEOREM RouterImplementsStore == RouterSpec => ImplementsRegisterStore
<1>1. RouterInit => RouterInv
  BY RouterInitInv
<1>2. RouterSpec => []RouterInv
  BY RouterInvariant
<1>3. QED BY <1>1, <1>2, InterfaceInit, StepSimulates, PTL
          DEF RouterSpec, ImplementsRegisterStore, Interface!StoreSpec
=============================================================================
