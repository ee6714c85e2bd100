--------------------------- MODULE RegulationProofs ---------------------------
(***************************************************************************)
(* What the loop does with a width: the limits of PowerControl, for all    *)
(* gains, limits and errors; and, at the end, the alarm and the averaging  *)
(* buffer of WidthPath, for every counter width, band, size of the buffer  *)
(* and sequence of ALARM_TIME and BUFF_SIZE values.                        *)
(***************************************************************************)
EXTENDS PowerControl, WidthPath, SequenceTheorems, FiniteSetTheorems, TLAPS

\* The clamp lands between its bounds, if they are in order.
LEMMA ClampBounds ==
  ASSUME NEW x \in Int, NEW lo \in Int, NEW hi \in Int, lo <= hi
  PROVE  Clamp(x, lo, hi) \in lo .. hi
BY DEF Clamp

LEMMA ClampInt ==
  ASSUME NEW x \in Int, NEW lo \in Int, NEW hi \in Int
  PROVE  Clamp(x, lo, hi) \in Int
BY DEF Clamp

\* Clamping cannot move x further from a point that is within the bounds.
LEMMA ClampTowards ==
  ASSUME NEW x \in Int, NEW lo \in Int, NEW hi \in Int,
         NEW y \in lo .. hi, NEW d \in Nat, Magnitude(x - y) <= d
  PROVE  Magnitude(Clamp(x, lo, hi) - y) <= d
BY DEF Clamp, Magnitude

\* A quotient taken back does not exceed the dividend.
LEMMA DivTimes ==
  ASSUME NEW l \in Nat, NEW k \in Nat, k > 0
  PROVE  (l \div k) \in Nat /\ k * (l \div k) <= l
BY SMTT(30)

LEMMA TimesMonotone ==
  ASSUME NEW k \in Nat, NEW x \in Nat, NEW y \in Nat, x <= y
  PROVE  k * x <= k * y
BY SMTT(30)

\* The duty's arithmetic: a share of the scale stays on the scale.
LEMMA ShareOnScale ==
  ASSUME NEW a \in Nat, NEW b \in Nat, b > 0, a <= b, NEW f \in Nat
  PROVE  (a * f) \div b \in 0 .. f
<1>1. a * f \in Nat /\ a * f <= b * f
  BY SMTT(30)
<1> DEFINE n == a * f
<1>2. n \in Nat /\ n <= b * f BY <1>1
<1> HIDE DEF n
<1>3. n \div b \in Nat /\ b * (n \div b) <= n
  BY <1>2, DivTimes
<1> DEFINE q == n \div b
<1>4. q \in Nat /\ b * q <= b * f
  <2>1. b * f \in Int BY SMT
  <2>2. b * (n \div b) \in Int BY <1>3, SMT
  <2>3. QED BY <1>2, <1>3, <2>1, <2>2
<1> HIDE DEF q
<1>5. q <= f
  <2>1. SUFFICES ASSUME q >= f + 1 PROVE FALSE BY <1>4
  <2>2. b * q >= b * (f + 1) BY <1>4, <2>1, SMTT(30)
  <2>3. b * (f + 1) = b * f + b BY SMTT(30)
  <2>4. b * f \in Int /\ b * q \in Int BY <1>4, SMT
  <2>5. QED BY <1>4, <2>2, <2>3, <2>4
<1>6. QED BY <1>4, <1>5 DEF q, n

USE PowerAssumption

\* Whatever the registers hold, the integral's limit is an integer.
LEMMA IntegralLimitInt ==
  ASSUME PowerTypeOK
  PROVE  IntegralLimit \in Int
BY DEF PowerTypeOK, ParameterRecords, IntegralLimit

LEMMA LimitedIntegralInt ==
  ASSUME PowerTypeOK, NEW e \in Int
  PROVE  LimitedIntegral(e) \in Int
BY IntegralLimitInt DEF PowerTypeOK, LimitedIntegral

LEMMA RegulatedInt ==
  ASSUME PowerTypeOK, NEW bias \in Int, NEW e \in Int
  PROVE  Regulated(bias, e) \in Int
<1> DEFINE i == LimitedIntegral(e)
<1>1. i \in Int BY LimitedIntegralInt
<1> HIDE DEF i
<1>2. powerPar.kp * e \in Int /\ powerPar.ki * i \in Int
      /\ powerPar.kd * (e - lastError) \in Int
  BY <1>1 DEF PowerTypeOK, ParameterRecords
<1>3. QED BY <1>1, <1>2 DEF Regulated, i

LEMMA SlewedInt ==
  ASSUME PowerTypeOK, NEW p \in Int
  PROVE  /\ Slewed(p) \in Int
         /\ powerPar.slew >= 0 => Magnitude(Slewed(p) - power) <= powerPar.slew
BY DEF PowerTypeOK, ParameterRecords, Slewed, Magnitude

LEMMA RequestedInt ==
  ASSUME PowerTypeOK, NEW command \in Commands, NEW bias \in Int, NEW e \in Int
  PROVE  Requested(command, bias, e) \in Int
<1>1. Slewed(Regulated(bias, e)) \in Int BY RegulatedInt, SlewedInt
<1>2. QED BY <1>1 DEF Requested, Commands, PowerTypeOK

LEMMA DutiesNat ==
  ASSUME PowerTypeOK, NEW p \in Int
  PROVE  Duties(p) \subseteq Nat
<1> DEFINE offset == p - powerPar.powerMin
           span   == powerPar.powerMax - powerPar.powerMin
<1>1. offset \in Int /\ span \in Int BY DEF PowerTypeOK, ParameterRecords
<1> HIDE DEF offset, span
<1>2. DutyOver(offset, span) \subseteq Nat
  <2>1. CASE span = 0
    BY <2>1 DEF DutyOver
  <2>2. CASE span # 0 /\ offset * span < 0
    BY <2>2 DEF DutyOver
  <2>3. CASE span # 0 /\ ~ (offset * span < 0)
    <3>1. Magnitude(offset) \in Nat /\ Magnitude(span) \in Nat /\ Magnitude(span) > 0
      BY <1>1, <2>3 DEF Magnitude
    <3>2. Magnitude(offset) * FullScale \in Nat
      BY <3>1, SMT
    <3>3. (Magnitude(offset) * FullScale) \div Magnitude(span) \in Nat
      BY <3>1, <3>2, DivTimes
    <3>4. QED BY <2>3, <3>3 DEF DutyOver
  <2>4. QED BY <2>1, <2>2, <2>3
<1>3. QED BY <1>2 DEF Duties, offset, span

LEMMA PowerFrameTypes ==
  ASSUME PowerTypeOK, NEW command \in Commands, NEW bias \in Int, NEW e \in Int,
         NEW reset \in BOOLEAN, PowerFrame(command, bias, e, reset)
  PROVE  PowerTypeOK'
<1>1. power' \in Int
  BY RequestedInt, ClampInt DEF PowerFrame, Limited, PowerTypeOK, ParameterRecords
<1>2. integral' \in Int /\ lastError' \in Int
  BY LimitedIntegralInt DEF PowerFrame, PowerTypeOK
<1>3. duty' \in Nat
  BY <1>1, DutiesNat DEF PowerFrame
<1>4. powerPar' \in ParameterRecords
      /\ lastFrame' \in [command : Commands \cup {"none"}, par : ParameterRecords]
  BY DEF PowerFrame, PowerTypeOK
<1>5. QED BY <1>1, <1>2, <1>3, <1>4 DEF PowerTypeOK

\* Every step of PowerNext is a read of the registers or one of these frames.
LEMMA PowerSteps ==
  ASSUME PowerNext
  PROVE  \/ \E par \in Parameters : ReadPowerParameters(par)
         \/ \E command \in Commands, bias \in Int, e \in Int, reset \in BOOLEAN :
              PowerFrame(command, bias, e, reset)
<1>1. CASE \E bias \in Biases, reset \in BOOLEAN : PowerFrame("set", bias, 0, reset)
  <2>1. PICK bias \in Biases, reset \in BOOLEAN : PowerFrame("set", bias, 0, reset)
    BY <1>1
  <2>2. "set" \in Commands /\ bias \in Int /\ 0 \in Int BY DEF Commands
  <2>3. QED BY <2>1, <2>2
<1>2. CASE \E bias \in Biases, e \in Errors : PowerFrame("regulate", bias, e, FALSE)
  <2>1. PICK bias \in Biases, e \in Errors : PowerFrame("regulate", bias, e, FALSE)
    BY <1>2
  <2>2. "regulate" \in Commands /\ bias \in Int /\ e \in Int BY DEF Commands
  <2>3. QED BY <2>1, <2>2
<1>3. CASE PowerFrame("hold", 0, 0, FALSE)
  <2>1. "hold" \in Commands /\ 0 \in Int BY DEF Commands
  <2>2. QED BY <1>3, <2>1
<1>4. QED BY <1>1, <1>2, <1>3 DEF PowerNext

-----------------------------------------------------------------------------
(***************************************************************************)
(* Type correctness: power and integral stay integers, and the duty an     *)
(* unsigned one, through every product and quotient of a frame.            *)
(***************************************************************************)
THEOREM PowerTypeCorrect == PowerSpec => []PowerTypeOK
<1>1. PowerInit => PowerTypeOK
  BY DEF PowerInit, PowerTypeOK
<1>2. PowerTypeOK /\ [PowerNext]_powerVars => PowerTypeOK'
  <2> SUFFICES ASSUME PowerTypeOK, [PowerNext]_powerVars PROVE PowerTypeOK'
    OBVIOUS
  <2>1. ASSUME NEW par \in Parameters, ReadPowerParameters(par) PROVE PowerTypeOK'
    BY <2>1 DEF ReadPowerParameters, PowerTypeOK
  <2>2. ASSUME NEW command \in Commands, NEW bias \in Int, NEW e \in Int,
               NEW reset \in BOOLEAN, PowerFrame(command, bias, e, reset)
        PROVE  PowerTypeOK'
    BY <2>2, PowerFrameTypes
  <2>3. CASE UNCHANGED powerVars
    BY <2>3 DEF powerVars, PowerTypeOK
  <2>4. QED BY <2>1, <2>2, <2>3, PowerSteps
<1>3. QED BY <1>1, <1>2, PTL DEF PowerSpec

(***************************************************************************)
(* The clamp of process_core.cpp:1126 keeps every frame's power within the *)
(* limits the frame read, when POWER_LIMIT_MIN does not exceed _MAX.       *)
(***************************************************************************)
THEOREM PowerWithinLimits == PowerSpec => []OutputWithinLimits
<1>1. PowerInit => OutputWithinLimits
  BY DEF PowerInit, OutputWithinLimits
<1>2. PowerTypeOK /\ OutputWithinLimits /\ [PowerNext]_powerVars => OutputWithinLimits'
  <2> SUFFICES ASSUME PowerTypeOK, OutputWithinLimits, [PowerNext]_powerVars
               PROVE  OutputWithinLimits'
    OBVIOUS
  <2>1. ASSUME NEW par \in Parameters, ReadPowerParameters(par) PROVE OutputWithinLimits'
    BY <2>1 DEF ReadPowerParameters, OutputWithinLimits, Ordered
  <2>2. ASSUME NEW command \in Commands, NEW bias \in Int, NEW e \in Int,
               NEW reset \in BOOLEAN, PowerFrame(command, bias, e, reset)
        PROVE  OutputWithinLimits'
    <3>1. Requested(command, bias, e) \in Int BY RequestedInt
    <3>2. powerPar.min \in Int /\ powerPar.max \in Int
      BY DEF PowerTypeOK, ParameterRecords
    <3>3. powerPar.min <= powerPar.max => power' \in powerPar.min .. powerPar.max
      BY <2>2, <3>1, <3>2, ClampBounds DEF PowerFrame, Limited
    <3>4. lastFrame'.par = powerPar BY <2>2 DEF PowerFrame
    <3>5. QED BY <3>3, <3>4 DEF OutputWithinLimits, Ordered
  <2>3. CASE UNCHANGED powerVars
    BY <2>3 DEF powerVars, OutputWithinLimits, Ordered
  <2>4. QED BY <2>1, <2>2, <2>3, PowerSteps
<1>3. QED BY <1>1, <1>2, PowerTypeCorrect, PTL DEF PowerSpec

(***************************************************************************)
(* A regulated frame moves the power by no more than the slew it read,     *)
(* since clamping to limits that hold the last power only moves it nearer. *)
(***************************************************************************)
THEOREM PowerSlewBounded == PowerSpec => SlewBounded
<1>1. ASSUME PowerTypeOK, [PowerNext]_powerVars,
             lastFrame'.command = "regulate", lastFrame'.par.slew >= 0,
             lastFrame'.par.min <= power, power <= lastFrame'.par.max
      PROVE  Magnitude(power' - power) <= lastFrame'.par.slew
  <2>0. Magnitude(power - power) = 0 BY <1>1 DEF PowerTypeOK, Magnitude
  <2>1. ASSUME NEW par \in Parameters, ReadPowerParameters(par)
        PROVE  Magnitude(power' - power) <= lastFrame'.par.slew
    BY <1>1, <2>0, <2>1 DEF ReadPowerParameters
  <2>2. ASSUME NEW command \in Commands, NEW bias \in Int, NEW e \in Int,
               NEW reset \in BOOLEAN, PowerFrame(command, bias, e, reset)
        PROVE  Magnitude(power' - power) <= lastFrame'.par.slew
    <3>1. command = "regulate" /\ lastFrame'.par = powerPar
      BY <1>1, <2>2 DEF PowerFrame
    <3> DEFINE p == Slewed(Regulated(bias, e))
    <3>2. p \in Int /\ Magnitude(p - power) <= powerPar.slew
      BY <1>1, <3>1, RegulatedInt, SlewedInt
    <3>3. power' = Clamp(p, powerPar.min, powerPar.max)
      BY <2>2, <3>1 DEF PowerFrame, Requested, Limited
    <3> HIDE DEF p
    <3>4. power \in powerPar.min .. powerPar.max /\ powerPar.slew \in Nat
          /\ powerPar.min \in Int /\ powerPar.max \in Int
      BY <1>1, <3>1 DEF PowerTypeOK, ParameterRecords
    <3>5. QED BY <3>1, <3>2, <3>3, <3>4, ClampTowards
  <2>3. CASE UNCHANGED powerVars
    BY <1>1, <2>0, <2>3 DEF powerVars
  <2>4. QED BY <1>1, <2>1, <2>2, <2>3, PowerSteps
<1>2. QED BY <1>1, PowerTypeCorrect, PTL DEF PowerSpec, SlewBounded

(***************************************************************************)
(* Anti-windup: ki times the integral stays within LIMIT_INTEGRAL, in      *)
(* spite of the division of the limit by ki.                               *)
(***************************************************************************)
THEOREM PowerIntegralBounded == PowerSpec => []IntegralBounded
<1>1. PowerInit => IntegralBounded
  BY DEF PowerInit, IntegralBounded
<1>2. PowerTypeOK /\ IntegralBounded /\ [PowerNext]_powerVars => IntegralBounded'
  <2> SUFFICES ASSUME PowerTypeOK, IntegralBounded, [PowerNext]_powerVars
               PROVE  IntegralBounded'
    OBVIOUS
  <2>1. ASSUME NEW par \in Parameters, ReadPowerParameters(par) PROVE IntegralBounded'
    BY <2>1 DEF ReadPowerParameters, IntegralBounded
  <2>2. ASSUME NEW command \in Commands, NEW bias \in Int, NEW e \in Int,
               NEW reset \in BOOLEAN, PowerFrame(command, bias, e, reset)
        PROVE  IntegralBounded'
    <3> SUFFICES ASSUME command = "regulate", powerPar.ki > 0, powerPar.integral >= 0
                 PROVE  powerPar.ki * Magnitude(integral') <= powerPar.integral
      BY <2>2 DEF PowerFrame, IntegralBounded
    <3> DEFINE k == powerPar.ki
               l == powerPar.integral
    <3>1. k \in Nat /\ k > 0 /\ l \in Nat
      BY DEF PowerTypeOK, ParameterRecords
    <3>2. IntegralLimit = l \div k
      BY DEF IntegralLimit
    <3>3. (l \div k) \in Nat /\ k * (l \div k) <= l
      BY <3>1, DivTimes
    <3>4. CASE reset
      <4>1. Magnitude(integral') = 0 BY <2>2, <3>4 DEF PowerFrame, Magnitude
      <4>2. QED BY <3>1, <4>1
    <3>5. CASE ~ reset
      <4>1. integral' = LimitedIntegral(e) BY <2>2, <3>5 DEF PowerFrame
      <4>2. Magnitude(integral') \in Nat /\ Magnitude(integral') <= l \div k
        BY <3>2, <3>3, <4>1 DEF LimitedIntegral, Magnitude, PowerTypeOK
      <4>3. k * Magnitude(integral') <= k * (l \div k)
        BY <3>1, <3>3, <4>2, TimesMonotone
      <4>4. k * Magnitude(integral') \in Int /\ k * (l \div k) \in Int
        <5> DEFINE m == Magnitude(integral')
                   d == l \div k
        <5>1. m \in Nat /\ d \in Nat BY <3>3, <4>2
        <5> HIDE DEF m, d
        <5>2. k * m \in Int /\ k * d \in Int BY <3>1, <5>1, SMT
        <5>3. QED BY <5>2 DEF m, d
      <4>5. QED BY <3>1, <3>3, <4>3, <4>4
    <3>6. QED BY <3>4, <3>5
  <2>3. CASE UNCHANGED powerVars
    BY <2>3 DEF powerVars, IntegralBounded
  <2>4. QED BY <2>1, <2>2, <2>3, PowerSteps
<1>3. QED BY <1>1, <1>2, PowerTypeCorrect, PTL DEF PowerSpec

(***************************************************************************)
(* The duty stays on the PWM's scale when the limits are ordered inside    *)
(* the range: the cast of process_core.cpp:1141 is then always defined.    *)
(***************************************************************************)
THEOREM PowerDutyOnScale == PowerSpec => []DutyOnScale
<1>1. PowerInit => DutyOnScale
  BY DEF PowerInit, DutyOnScale
<1>2. PowerTypeOK /\ DutyOnScale /\ [PowerNext]_powerVars => DutyOnScale'
  <2> SUFFICES ASSUME PowerTypeOK, DutyOnScale, [PowerNext]_powerVars
               PROVE  DutyOnScale'
    OBVIOUS
  <2>1. ASSUME NEW par \in Parameters, ReadPowerParameters(par) PROVE DutyOnScale'
    BY <2>1 DEF ReadPowerParameters, DutyOnScale, Ordered
  <2>2. ASSUME NEW command \in Commands, NEW bias \in Int, NEW e \in Int,
               NEW reset \in BOOLEAN, PowerFrame(command, bias, e, reset)
        PROVE  DutyOnScale'
    <3> SUFFICES ASSUME powerPar.min <= powerPar.max, powerPar.powerMin <= powerPar.min,
                        powerPar.max <= powerPar.powerMax,
                        powerPar.powerMin < powerPar.powerMax
                 PROVE  duty' \in 0 .. FullScale
      BY <2>2 DEF PowerFrame, DutyOnScale, Ordered
    <3> DEFINE offset == power' - powerPar.powerMin
               span   == powerPar.powerMax - powerPar.powerMin
    <3>1. Requested(command, bias, e) \in Int BY RequestedInt
    <3>2. power' \in powerPar.min .. powerPar.max
      BY <2>2, <3>1, ClampBounds DEF PowerFrame, Limited, PowerTypeOK, ParameterRecords
    <3>3. offset \in Nat /\ span \in Nat /\ span > 0 /\ offset <= span
      BY <3>2 DEF PowerTypeOK, ParameterRecords
    <3>4. duty' \in DutyOver(offset, span)
      BY <2>2 DEF PowerFrame, Duties
    <3> HIDE DEF offset, span
    <3>5. ~ (offset * span < 0) /\ Magnitude(offset) = offset /\ Magnitude(span) = span
      BY <3>3, SMTT(30) DEF Magnitude
    <3>6. duty' = (offset * FullScale) \div span
      BY <3>3, <3>4, <3>5 DEF DutyOver
    <3>7. QED BY <3>3, <3>6, ShareOnScale
  <2>3. CASE UNCHANGED powerVars
    BY <2>3 DEF powerVars, DutyOnScale, Ordered
  <2>4. QED BY <2>1, <2>2, <2>3, PowerSteps
<1>3. QED BY <1>1, <1>2, PowerTypeCorrect, PTL DEF PowerSpec

-----------------------------------------------------------------------------
\* The alarm.
USE AlarmAssumption

\* The uint16_t a register value is stored in.
LEMMA TruncatedRange ==
  ASSUME NEW t \in Int
  PROVE  /\ Truncated(t) \in 0 .. CounterSize - 1
         /\ t \in 0 .. CounterSize - 1 => Truncated(t) = t
BY DEF Truncated

\* The inductive invariant.
AlarmInv == AlarmTypeOK /\ CountdownExact

LEMMA AlarmInitInv == AlarmInit => AlarmInv
<1> SUFFICES ASSUME AlarmInit PROVE AlarmInv
  OBVIOUS
<1>1. reloaded \in Int /\ Truncated(reloaded) \in 0 .. CounterSize - 1
  BY TruncatedRange DEF AlarmInit
<1>2. QED BY <1>1 DEF AlarmInit, AlarmInv, AlarmTypeOK, CountdownExact

LEMMA AlarmFrameInv ==
  ASSUME AlarmInv, NEW laser \in {0, 1}, NEW w, NEW time \in AlarmTimes,
         AlarmFrame(laser, w, time)
  PROVE  AlarmInv'
<1>1. CASE Bad(laser, w)
  <2>1. Truncated(reloaded) \in 0 .. CounterSize - 1
    BY TruncatedRange DEF AlarmInv, AlarmTypeOK
  <2>2. Truncated(reloaded)' = Truncated(reloaded)
    BY <1>1 DEF AlarmFrame, Truncated
  <2>3. QED
    BY <1>1, <2>1, <2>2
       DEF AlarmFrame, ShownAlarm, CountDown, AlarmInv, AlarmTypeOK, CountdownExact
<1>2. CASE ~ Bad(laser, w)
  <2>1. Truncated(time) \in 0 .. CounterSize - 1
    BY TruncatedRange
  <2>2. Truncated(reloaded)' = Truncated(time)
    BY <1>2 DEF AlarmFrame, Truncated
  <2>3. QED
    BY <1>2, <2>1, <2>2
       DEF AlarmFrame, ShownAlarm, Reload, AlarmInv, AlarmTypeOK, CountdownExact
<1>3. QED BY <1>1, <1>2

LEMMA PathNextInv == AlarmInv /\ [PathNext]_pathVars => AlarmInv'
<1> SUFFICES ASSUME AlarmInv, [PathNext]_pathVars PROVE AlarmInv'
  OBVIOUS
<1>1. ASSUME NEW par \in AlarmParameters, NEW size \in BuffSizes, PathRead(par, size)
      PROVE  AlarmInv'
  BY <1>1 DEF PathRead, ReadAlarmParameters, AlarmInv, AlarmTypeOK, CountdownExact, Truncated
<1>2. ASSUME NEW nap \in BOOLEAN, NEW laser \in {0, 1}, NEW w \in Measured,
             NEW time \in AlarmTimes, PathFrame(nap, laser, w, time)
      PROVE  AlarmInv'
  BY <1>2, AlarmFrameInv DEF PathFrame
<1>3. CASE UNCHANGED pathVars
  BY <1>3 DEF pathVars, alarmVars, AlarmInv, AlarmTypeOK, CountdownExact, Truncated
<1>4. QED BY <1>1, <1>2, <1>3 DEF PathNext, AnyPathFrame

LEMMA AlarmInvariant == PathSpec => []AlarmInv
<1>1. PathInit => AlarmInv BY AlarmInitInv DEF PathInit
<1>2. QED BY <1>1, PathNextInv, PTL DEF PathSpec

-----------------------------------------------------------------------------
(***************************************************************************)
(* cnt_aux_alarm is what is left of the last reload, and the alarm is on   *)
(* exactly when the bad frames in a row outnumber it.                      *)
(***************************************************************************)
THEOREM AlarmCountsExactly == PathSpec => []CountdownExact
BY AlarmInvariant, PTL DEF AlarmInv

\* A frame changes the output while the alarm is enabled, and raises it on a fault.
LEMMA OutputFollowsFrame ==
  ASSUME AlarmInv, AlarmInv', NEW laser \in {0, 1}, NEW w, NEW time \in AlarmTimes,
         AlarmFrame(laser, w, time), alarmOut' # alarmOut
  PROVE  /\ alarmPar.enable = 1
         /\ alarmOut' = 1 => badRun' > Truncated(reloaded')
<1>1. alarmPar.enable = 1 /\ alarmOut' = alarm'
  BY DEF AlarmFrame, ShownAlarm
<1>2. Truncated(reloaded)' = Truncated(reloaded')
  BY DEF Truncated
<1>3. QED BY <1>1, <1>2 DEF AlarmInv, CountdownExact

(***************************************************************************)
(* DIGITAL_OUT_0 is raised only by a frame that finds a persistent fault,  *)
(* and only while the alarm is enabled.                                    *)
(***************************************************************************)
THEOREM AlarmOutputFollowsFault == PathSpec => OutputRaisedByFault
<1>1. ASSUME AlarmInv, AlarmInv', [PathNext]_pathVars
      PROVE  [alarmOut' # alarmOut =>
                /\ alarmPar.enable = 1
                /\ alarmOut' = 1 => badRun' > Truncated(reloaded')]_alarmVars
  <2> SUFFICES ASSUME alarmOut' # alarmOut
               PROVE  /\ alarmPar.enable = 1
                      /\ alarmOut' = 1 => badRun' > Truncated(reloaded')
    OBVIOUS
  <2>1. PICK laser \in {0, 1}, time \in AlarmTimes : AlarmFrame(laser, averaged', time)
    BY <1>1
       DEF PathNext, PathRead, AnyPathFrame, PathFrame, ReadAlarmParameters, pathVars, alarmVars
  <2>2. QED BY <1>1, <2>1, OutputFollowsFrame
<1>2. QED BY <1>1, AlarmInvariant, PTL DEF PathSpec, OutputRaisedByFault

-----------------------------------------------------------------------------
(***************************************************************************)
(* Sums.  SumFunctionOnSet is a recursive function that takes the indices  *)
(* in an order CHOOSE gives; what it says of a circular buffer needs that  *)
(* the order does not matter.  Induction is over sets of naturals and of   *)
(* subsets, by their least element.                                        *)
(***************************************************************************)
\* A set of naturals has a least one.
LEMMA LeastNumber ==
  ASSUME NEW T, T \subseteq Nat, T # {}
  PROVE  \E n \in T : \A m \in T : n <= m
<1> DEFINE R == {ss \in Nat \X Nat : ss[1] < ss[2]}
<1>1. IsWellFoundedOn(R, Nat)
  BY NatLessThanWellFounded, Zenon DEF OpToRel
<1>2. PICK n \in T : \A m \in T : ~ (<<m, n>> \in R)
  <2> HIDE DEF R
  <2> QED BY <1>1, WFMin, Zenon
<1>3. ASSUME NEW m \in T PROVE n <= m
  <2>1. m \in Nat /\ n \in Nat /\ ~ (<<m, n>> \in R)
    BY <1>2
  <2>2. <<m, n>> \in Nat \X Nat /\ <<m, n>>[1] = m /\ <<m, n>>[2] = n
    BY <2>1
  <2>3. ~ (m < n)
    BY <2>1, <2>2
  <2>4. QED BY <2>1, <2>3
<1>4. QED BY <1>3

\* Induction over the naturals, of a set.
LEMMA SetOfNaturals ==
  ASSUME NEW P, 0 \in P, \A n \in Nat : n \in P => n + 1 \in P
  PROVE  Nat \subseteq P
<1> SUFFICES ASSUME Nat \ P # {} PROVE FALSE
  OBVIOUS
<1>1. PICK n \in Nat \ P : \A m \in Nat \ P : n <= m
  BY LeastNumber
<1>2. n - 1 \in Nat /\ ~ (n <= n - 1)
  BY <1>1
<1>3. QED BY <1>1, <1>2

\* How SumFunctionOnSet adds up: it takes away one index after another, First(s) of
\* those that are left.  IsSum tabulates it for all the indices that can be left.
First(s) == CHOOSE x \in s : TRUE
IsSum(t, f, S) ==
  /\ t \in [SUBSET S -> Int]
  /\ t[{}] = 0
  /\ \A s \in SUBSET S : s # {} => t[s] = f[First(s)] + t[s \ {First(s)}]

\* Of some subsets of a finite set, one has no other of them inside.
LEMMA SmallestSet ==
  ASSUME NEW S, IsFiniteSet(S), NEW X, X \subseteq SUBSET S, X # {}
  PROVE  \E s \in X : \A r \in SUBSET S : r \subseteq s /\ r # s => r \notin X
<1>1. IsWellFoundedOn(StrictSubsetOrdering(S), FiniteSubsetsOf(S))
  BY FS_StrictSubsetOrderingWellFounded
<1>2. X \subseteq FiniteSubsetsOf(S)
  BY FS_Subset DEF FiniteSubsetsOf
<1>3. PICK s \in X : \A r \in X : ~ (<<r, s>> \in StrictSubsetOrdering(S))
  BY <1>1, <1>2, WFMin, Zenon
<1>4. ASSUME NEW r \in SUBSET S, r \subseteq s, r # s PROVE r \notin X
  <2>1. <<r, s>> \in StrictSubsetOrdering(S)
    BY <1>4, Zenon DEF StrictSubsetOrdering
  <2>2. QED BY <1>3, <2>1
<1>5. QED BY <1>4

\* There is such a table: one row more for every index more.
LEMMA SumOverFirst ==
  ASSUME NEW f, NEW S, IsFiniteSet(S), \A i \in S : f[i] \in Int
  PROVE  \E t : IsSum(t, f, S)
<1> DEFINE D(n) == {s \in SUBSET S : Cardinality(s) <= n}
           Row(t, s) == IF s = {} THEN 0 ELSE f[First(s)] + t[s \ {First(s)}]
           Part(t, n) == /\ t \in [D(n) -> Int]
                         /\ \A s \in D(n) : t[s] = Row(t, s)
           P == {n \in Nat : \E t : Part(t, n)}
<1>0. \A s \in SUBSET S : IsFiniteSet(s) /\ Cardinality(s) \in Nat
  BY FS_Subset, FS_CardinalityType
<1>first. ASSUME NEW s \in SUBSET S, s # {}
          PROVE  First(s) \in s /\ f[First(s)] \in Int
                 /\ s \ {First(s)} \in SUBSET S
                 /\ Cardinality(s \ {First(s)}) = Cardinality(s) - 1
  <2>1. First(s) \in s
    BY <1>first DEF First
  <2>2. QED BY <2>1, <1>0, FS_RemoveElement
<1>1. 0 \in P
  <2> DEFINE t == [s \in D(0) |-> 0]
  <2>1. \A s \in D(0) : s = {}
    BY <1>0, FS_EmptySet
  <2>2. Part(t, 0)
    BY <2>1
  <2>3. QED BY <2>2
<1>2. ASSUME NEW n \in Nat, n \in P PROVE n + 1 \in P
  <2>1. PICK t : Part(t, n)
    BY <1>2
  <2> DEFINE u == [s \in D(n + 1) |-> Row(t, s)]
  <2>2. ASSUME NEW s \in D(n + 1), s # {} PROVE s \ {First(s)} \in D(n)
    <3>1. s \in SUBSET S /\ Cardinality(s) <= n + 1
      OBVIOUS
    <3>2. /\ s \ {First(s)} \in SUBSET S
          /\ Cardinality(s \ {First(s)}) = Cardinality(s) - 1
          /\ Cardinality(s) \in Nat
      BY <1>0, <1>first, <2>2, <3>1
    <3>3. Cardinality(s \ {First(s)}) <= n
      BY <3>1, <3>2
    <3>4. QED BY <3>2, <3>3
  <2>3. D(n) \subseteq D(n + 1)
    BY <1>0
  <2>4. \A s \in D(n) : u[s] = t[s]
    BY <2>1, <2>3
  <2>5. ASSUME NEW s \in D(n + 1) PROVE u[s] \in Int /\ u[s] = Row(u, s)
    <3>1. CASE s = {}
      BY <3>1
    <3>2. CASE s # {}
      <4>1. s \ {First(s)} \in D(n) /\ f[First(s)] \in Int
        BY <1>first, <2>2, <3>2
      <4>2. u[s] = f[First(s)] + t[s \ {First(s)}]
        BY <3>2
      <4>3. t[s \ {First(s)}] \in Int /\ u[s \ {First(s)}] = t[s \ {First(s)}]
        BY <2>1, <2>4, <4>1
      <4> HIDE DEF u
      <4>4. QED BY <3>2, <4>1, <4>2, <4>3
    <3>3. QED BY <3>1, <3>2
  <2>6. Part(u, n + 1)
    <3>1. u \in [D(n + 1) -> Int]
      BY <2>5
    <3>2. QED BY <2>5, <3>1
  <2>7. \E v : Part(v, n + 1)
    <3> HIDE DEF u, Part
    <3> QED BY <2>6
  <2> HIDE DEF Part
  <2>8. QED BY <2>7
<1>3. Nat \subseteq P
  <2> HIDE DEF P
  <2> QED BY <1>1, <1>2, SetOfNaturals
<1>4. PICK t : Part(t, Cardinality(S))
  BY <1>0, <1>3
<1>5. D(Cardinality(S)) = SUBSET S
  BY <1>0, FS_Subset
<1>6. IsSum(t, f, S)
  BY <1>4, <1>5 DEF IsSum
<1>7. QED BY <1>6

\* And SumFunctionOnSet, a CHOOSE of such a table, is one of its entries.
LEMMA SumIs ==
  ASSUME NEW f, NEW S, IsFiniteSet(S), \A i \in S : f[i] \in Int
  PROVE  \E t : IsSum(t, f, S) /\ SumFunctionOnSet(f, S) = t[S]
<1> DEFINE Table(g) == g = [s \in SUBSET S |-> IF s = {} THEN 0
                                   ELSE f[First(s)] + g[s \ {First(s)}]]
           iter == CHOOSE g : Table(g)
<1>1. SumFunctionOnSet(f, S) = iter[S]
  BY Zenon DEF SumFunctionOnSet, FoldFunctionOnSet, MapThenFoldSet, First
<1>2. PICK t : IsSum(t, f, S)
  BY SumOverFirst
<1>3. Table(t)
  BY <1>2 DEF IsSum
<1>4. Table(iter)
  <2> HIDE DEF Table
  <2> QED BY <1>3
<1> HIDE DEF iter
<1>5. ASSUME NEW s \in SUBSET S PROVE iter[s] = t[s]
  <2> DEFINE X == {r \in SUBSET S : iter[r] # t[r]}
  <2> SUFFICES ASSUME X # {} PROVE FALSE
    OBVIOUS
  <2>1. PICK s1 \in X : \A r \in SUBSET S : r \subseteq s1 /\ r # s1 => r \notin X
    <3>1. X \subseteq SUBSET S
      OBVIOUS
    <3> HIDE DEF X
    <3> QED BY <3>1, SmallestSet
  <2>2. CASE s1 = {}
    BY <1>3, <1>4, <2>1, <2>2
  <2>3. CASE s1 # {}
    <3>1. First(s1) \in s1
      BY <2>3 DEF First
    <3>2. iter[s1 \ {First(s1)}] = t[s1 \ {First(s1)}]
      BY <2>1, <3>1
    <3>3. QED BY <1>3, <1>4, <2>1, <2>3, <3>2
  <2>4. QED BY <2>2, <2>3
<1>6. iter[S] = t[S]
  BY <1>5
<1>7. QED BY <1>1, <1>2, <1>6

\* It does not matter which index is taken away first.
TakesApart(t, f, S) == \A s \in SUBSET S : \A x \in s : t[s] = f[x] + t[s \ {x}]

LEMMA SumFromAny ==
  ASSUME NEW f, NEW S, IsFiniteSet(S), \A i \in S : f[i] \in Int,
         NEW t, IsSum(t, f, S)
  PROVE  TakesApart(t, f, S)
<1> DEFINE X == {s \in SUBSET S : ~ \A x \in s : t[s] = f[x] + t[s \ {x}]}
<1> SUFFICES ASSUME X # {} PROVE FALSE
  BY DEF TakesApart
<1>1. PICK s \in X : \A r \in SUBSET S : r \subseteq s /\ r # s => r \notin X
  <2>1. X \subseteq SUBSET S
    OBVIOUS
  <2> HIDE DEF X
  <2> QED BY <2>1, SmallestSet
<1>2. PICK x \in s : t[s] # f[x] + t[s \ {x}]
  BY <1>1
<1> DEFINE y == First(s)
           rest == (s \ {x}) \ {y}
<1>3. y \in s /\ t[s] = f[y] + t[s \ {y}]
  BY <1>1, <1>2 DEF IsSum, First
<1>4. x # y
  BY <1>2, <1>3
<1> HIDE DEF y
<1>5. t[s \ {x}] = f[y] + t[rest]
  <2>1. s \ {x} \in SUBSET S /\ s \ {x} \notin X /\ y \in s \ {x}
    BY <1>1, <1>2, <1>3, <1>4
  <2>2. QED BY <2>1
<1>6. t[s \ {y}] = f[x] + t[rest]
  <2>1. s \ {y} \in SUBSET S /\ s \ {y} \notin X /\ x \in s \ {y}
    BY <1>1, <1>2, <1>3, <1>4
  <2>2. (s \ {y}) \ {x} = rest
    OBVIOUS
  <2>3. t[s \ {y}] = f[x] + t[(s \ {y}) \ {x}]
    BY <2>1
  <2>4. QED BY <2>2, <2>3
<1>7. t[rest] \in Int /\ f[x] \in Int /\ f[y] \in Int
  BY <1>1, <1>2, <1>3 DEF IsSum
<1> HIDE DEF rest
<1>8. QED BY <1>2, <1>3, <1>5, <1>6, <1>7

\* The sum, with the properties that define it.
LEMMA SumTotal ==
  ASSUME NEW f, NEW S, IsFiniteSet(S), \A i \in S : f[i] \in Int
  PROVE  \E t : t[{}] = 0 /\ TakesApart(t, f, S) /\ SumFunctionOnSet(f, S) = t[S]
<1>1. PICK t : IsSum(t, f, S) /\ SumFunctionOnSet(f, S) = t[S]
  BY SumIs
<1>2. TakesApart(t, f, S)
  BY <1>1, SumFromAny
<1>3. QED BY <1>1, <1>2 DEF IsSum

\* The sum is the same where the same numbers stand at other places.
LEMMA SumMoved ==
  ASSUME NEW f, NEW S, IsFiniteSet(S), \A i \in S : f[i] \in Int,
         NEW g, NEW T, IsFiniteSet(T), \A j \in T : g[j] \in Int,
         NEW b \in [S -> T], \A i, j \in S : b[i] = b[j] => i = j,
         \A i \in S : f[i] = g[b[i]],
         \A j \in T : \E i \in S : b[i] = j
  PROVE  SumFunctionOnSet(f, S) = SumFunctionOnSet(g, T)
<1>1. PICK t : t[{}] = 0 /\ TakesApart(t, f, S) /\ SumFunctionOnSet(f, S) = t[S]
  BY SumTotal
<1>2. PICK u : u[{}] = 0 /\ TakesApart(u, g, T) /\ SumFunctionOnSet(g, T) = u[T]
  BY SumTotal
<1> DEFINE To(s) == {b[i] : i \in s}
           X == {s \in SUBSET S : t[s] # u[To(s)]}
<1>3. ASSUME X # {} PROVE FALSE
  <2>1. PICK s \in X : \A r \in SUBSET S : r \subseteq s /\ r # s => r \notin X
    <3>1. X \subseteq SUBSET S
      OBVIOUS
    <3> HIDE DEF X
    <3> QED BY <1>3, <3>1, SmallestSet
  <2>2. CASE s = {}
    <3>1. To(s) = {}
      BY <2>2
    <3>2. QED BY <1>1, <1>2, <2>1, <2>2, <3>1
  <2>3. CASE s # {}
    <3> DEFINE x == First(s)
    <3>1. x \in s
      BY <2>3 DEF First
    <3> HIDE DEF x
    <3>2. t[s] = f[x] + t[s \ {x}]
      BY <1>1, <2>1, <3>1 DEF TakesApart
    <3>3. t[s \ {x}] = u[To(s \ {x})]
      BY <2>1, <3>1
    <3>4. To(s) \in SUBSET T /\ b[x] \in To(s) /\ f[x] = g[b[x]]
      BY <2>1, <3>1
    <3>5. To(s \ {x}) = To(s) \ {b[x]}
      BY <2>1, <3>1
    <3>6. u[To(s)] = g[b[x]] + u[To(s) \ {b[x]}]
      <4> HIDE DEF To
      <4> QED BY <1>2, <3>4 DEF TakesApart
    <3>7. t[s] = u[To(s)]
      <4> HIDE DEF To
      <4> QED BY <3>2, <3>3, <3>4, <3>5, <3>6
    <3>8. QED BY <2>1, <3>7
  <2>4. QED BY <2>2, <2>3
<1>4. t[S] = u[To(S)]
  BY <1>3
<1>5. To(S) = T
  OBVIOUS
<1> HIDE DEF To
<1>6. QED BY <1>1, <1>2, <1>4, <1>5

-----------------------------------------------------------------------------
\* The averaging buffer.
USE BufferAssumption

\* How many widths ago the entry at place i was put in, if the last is at place at.
Age(i, at, size) == IF i <= at THEN at - i + 1 ELSE at - i + size + 1

LEMMA AgeOfLast == ASSUME NEW i \in Int, NEW size \in Int PROVE Age(i, i, size) = 1
BY DEF Age

LEMMA AgePositive ==
  ASSUME NEW size \in Int, NEW i \in 0 .. size - 1, NEW at \in Int, at >= 0
  PROVE  Age(i, at, size) \in Int /\ 1 <= Age(i, at, size)
BY DEF Age

\* Inside the window every entry has an age of its own.
LEMMA AgeInWindow ==
  ASSUME NEW size \in Int, NEW i \in 0 .. size - 1, NEW at \in 0 .. size - 1
  PROVE  /\ Age(i, at, size) \in 1 .. size
         /\ \A j \in 0 .. size - 1 : Age(i, at, size) = Age(j, at, size) => i = j
BY DEF Age

\* Where the position goes on, the other entries are one width older.
LEMMA AgeGrows ==
  ASSUME NEW size \in Int, NEW i \in 0 .. size - 1, NEW at \in 0 .. size - 1,
         NEW next \in Int, next = (IF at + 1 >= size THEN 0 ELSE at + 1), i # next
  PROVE  Age(i, next, size) = Age(i, at, size) + 1
BY DEF Age

BufferTypes ==
  /\ buffSize \in 1 .. LMAX_CIRCULAR_BUFFER_SIZE
  /\ z \in 0 .. LMAX_CIRCULAR_BUFFER_SIZE - 1
  /\ wCircBuffer \in [0 .. LMAX_CIRCULAR_BUFFER_SIZE - 1 -> Int]
  /\ lastWidths \in Seq(Int)
  /\ sinceChange \in 0 .. LMAX_CIRCULAR_BUFFER_SIZE
  /\ sinceChange <= Len(lastWidths) /\ Len(lastWidths) <= LMAX_CIRCULAR_BUFFER_SIZE

(***************************************************************************)
(* The inductive invariant: from the first width after a change of the     *)
(* size on, the position is inside the window, and an entry no older than  *)
(* the change is the width of its age.                                     *)
(***************************************************************************)
BufferInv ==
  /\ BufferTypes
  /\ sinceChange > 0 =>
       z < buffSize /\ averaged = Mean(wCircBuffer, 0 .. buffSize - 1)
  /\ \A i \in 0 .. buffSize - 1 :
       Age(i, z, buffSize) <= sinceChange => wCircBuffer[i] = lastWidths[Age(i, z, buffSize)]

LEMMA BufferInitInv == BufferInit => BufferInv
<1> SUFFICES ASSUME BufferInit PROVE BufferInv
  OBVIOUS
<1>1. BufferTypes
  <2>1. lastWidths \in Seq(Int) /\ Len(lastWidths) = 0
    BY DEF BufferInit
  <2>2. QED BY <2>1 DEF BufferInit, BufferTypes
<1>2. \A i \in 0 .. buffSize - 1 : ~ (Age(i, z, buffSize) <= sinceChange)
  BY DEF BufferInit, Age
<1>3. QED BY <1>1, <1>2 DEF BufferInit, BufferInv

\* The new width goes first, and the others grow older.
LEMMA WidthsMoveOn ==
  ASSUME BufferTypes, NEW w \in Int, Average(w)
  PROVE  /\ lastWidths' \in Seq(Int)
         /\ Len(lastWidths') = IF Len(lastWidths) < LMAX_CIRCULAR_BUFFER_SIZE
                               THEN Len(lastWidths) + 1 ELSE LMAX_CIRCULAR_BUFFER_SIZE
         /\ lastWidths'[1] = w
         /\ \A k \in 2 .. Len(lastWidths') : lastWidths'[k] = lastWidths[k - 1]
<1> DEFINE longer == <<w>> \o lastWidths
           length == IF Len(lastWidths) < LMAX_CIRCULAR_BUFFER_SIZE
                     THEN Len(lastWidths) + 1 ELSE LMAX_CIRCULAR_BUFFER_SIZE
<1>1. <<w>> \in Seq(Int) /\ Len(<<w>>) = 1 /\ <<w>>[1] = w
  OBVIOUS
<1>2. lastWidths \in Seq(Int) /\ Len(lastWidths) \in Nat
  BY DEF BufferTypes
<1>3. /\ longer \in Seq(Int) /\ Len(longer) = 1 + Len(lastWidths)
      /\ \A k \in 1 .. 1 + Len(lastWidths) :
           longer[k] = IF k <= 1 THEN <<w>>[k] ELSE lastWidths[k - 1]
  BY <1>1, <1>2, ConcatProperties
<1>4. lastWidths' = SubSeq(longer, 1, length)
  BY DEF Average
<1> HIDE DEF longer
<1>5. length \in Nat /\ 1 <= length /\ length <= 1 + Len(lastWidths)
  BY <1>2 DEF BufferTypes
<1>6. \A k \in 1 .. length : longer[k] \in Int
  BY <1>2, <1>3, <1>5
<1> HIDE DEF length
<1>7. /\ SubSeq(longer, 1, length) \in Seq(Int)
      /\ Len(SubSeq(longer, 1, length)) = length
      /\ \A k \in 1 .. length : SubSeq(longer, 1, length)[k] = longer[k]
  <2>1. /\ SubSeq(longer, 1, length) \in Seq(Int)
        /\ Len(SubSeq(longer, 1, length)) =
             IF 1 <= length THEN length - 1 + 1 ELSE 0
        /\ \A k \in 1 .. length - 1 + 1 : SubSeq(longer, 1, length)[k] = longer[1 + k - 1]
    BY <1>5, <1>6, SubSeqProperties
  <2>2. length - 1 + 1 = length /\ \A k \in 1 .. length : 1 + k - 1 = k
    BY <1>5
  <2>3. QED BY <1>5, <2>1, <2>2
<1>8. lastWidths'[1] = w
  BY <1>1, <1>3, <1>4, <1>5, <1>7
<1>9. \A k \in 2 .. length : lastWidths'[k] = lastWidths[k - 1]
  BY <1>3, <1>4, <1>5, <1>7
<1>10. QED BY <1>4, <1>7, <1>8, <1>9 DEF length

LEMMA AverageInv ==
  ASSUME BufferInv, NEW w \in Int, Average(w)
  PROVE  BufferInv'
<1> DEFINE L == LMAX_CIRCULAR_BUFFER_SIZE
<1>1. BufferTypes
  BY DEF BufferInv
<1>2. /\ buffSize' = buffSize
      /\ z' = NextPlace
      /\ wCircBuffer' = [wCircBuffer EXCEPT ![z'] = w]
      /\ averaged' = Mean(wCircBuffer, 0 .. buffSize - 1)'
      /\ sinceChange' = IF sinceChange < L THEN sinceChange + 1 ELSE sinceChange
  BY DEF Average, Mean
<1>ints. /\ buffSize \in Int /\ z \in Int /\ z >= 0 /\ z' \in Int /\ L \in Int /\ L >= 1
      /\ sinceChange \in Int /\ sinceChange >= 0
  BY <1>1, <1>2 DEF BufferTypes, NextPlace
<1>3. z' \in 0 .. buffSize - 1
  BY <1>1, <1>2 DEF BufferTypes, NextPlace
<1>4. sinceChange' > 0 /\ sinceChange' <= sinceChange + 1 /\ sinceChange' \in 1 .. L
  BY <1>1, <1>2 DEF BufferTypes
<1>5. BufferTypes'
  <2>1. sinceChange' <= Len(lastWidths')
    BY <1>1, <1>2, WidthsMoveOn DEF BufferTypes
  <2>2. wCircBuffer' \in [0 .. L - 1 -> Int]
    BY <1>1, <1>2 DEF BufferTypes
  <2>3. lastWidths' \in Seq(Int) /\ Len(lastWidths') <= L
    BY <1>1, WidthsMoveOn DEF BufferTypes
  <2>4. QED BY <1>1, <1>2, <1>3, <1>4, <2>1, <2>2, <2>3 DEF BufferTypes
<1>6. ASSUME NEW i \in 0 .. buffSize - 1, Age(i, z', buffSize') <= sinceChange'
      PROVE  wCircBuffer'[i] = lastWidths'[Age(i, z', buffSize')]
  <2>1. CASE i = z'
    <3>1. Age(i, z', buffSize') = 1
      BY <1>2, <1>ints, <2>1, AgeOfLast
    <3>2. wCircBuffer'[i] = w
      BY <1>1, <1>2, <1>3, <2>1 DEF BufferTypes
    <3>3. QED BY <1>1, <3>1, <3>2, WidthsMoveOn
  <2>2. CASE i # z'
    <3>1. z < buffSize
      <4>1. CASE sinceChange > 0
        BY <4>1 DEF BufferInv
      <4>2. CASE ~ (sinceChange > 0) /\ ~ (z < buffSize)
        <5>1. z' = 0 /\ sinceChange' = 1
          BY <1>ints, <1>2, <4>2 DEF NextPlace
        <5>2. Age(i, z', buffSize') = buffSize - i + 1 /\ i < buffSize /\ i \in Int
          BY <1>ints, <1>2, <2>2, <5>1 DEF Age
        <5>3. ~ (Age(i, z', buffSize') <= sinceChange')
          BY <1>ints, <5>1, <5>2
        <5>4. QED BY <1>6, <5>3
      <4>3. QED BY <4>1, <4>2
    <3>2. /\ Age(i, z', buffSize') = Age(i, z, buffSize) + 1
          /\ Age(i, z, buffSize) \in Int /\ 1 <= Age(i, z, buffSize)
      <4>1. z \in 0 .. buffSize - 1 /\ z' = IF z + 1 >= buffSize THEN 0 ELSE z + 1
        BY <1>ints, <1>2, <3>1 DEF NextPlace
      <4>2. QED BY <1>ints, <1>2, <2>2, <4>1, AgeGrows, AgePositive
    <3>3. Age(i, z, buffSize) <= sinceChange
      <4> DEFINE a == Age(i, z, buffSize)
                 b == Age(i, z', buffSize')
      <4>1. b = a + 1 /\ a \in Int /\ b <= sinceChange'
        BY <1>6, <3>2
      <4> HIDE DEF a, b
      <4>2. sinceChange' <= sinceChange + 1 /\ sinceChange' \in Int /\ sinceChange \in Int
        BY <1>1, <1>4 DEF BufferTypes
      <4>3. a <= sinceChange BY <4>1, <4>2
      <4>4. QED BY <4>3 DEF a
    <3>4. wCircBuffer'[i] = wCircBuffer[i] /\ wCircBuffer[i] = lastWidths[Age(i, z, buffSize)]
      BY <1>1, <1>2, <1>3, <2>2, <3>3 DEF BufferInv, BufferTypes
    <3>5. Age(i, z', buffSize') \in 2 .. Len(lastWidths')
      <4> DEFINE a == Age(i, z, buffSize)
                 b == Age(i, z', buffSize')
      <4>1. b = a + 1 /\ a \in Int /\ 1 <= a /\ b <= sinceChange'
        BY <1>6, <3>2
      <4>2. sinceChange' <= Len(lastWidths') /\ Len(lastWidths') \in Int /\ sinceChange' \in Int
        BY <1>4, <1>5 DEF BufferTypes
      <4> HIDE DEF a, b
      <4>3. b \in 2 .. Len(lastWidths') BY <4>1, <4>2
      <4>4. QED BY <4>3 DEF b
    <3>6. lastWidths'[Age(i, z', buffSize')] = lastWidths[Age(i, z, buffSize)]
      <4> DEFINE a == Age(i, z, buffSize)
                 b == Age(i, z', buffSize')
      <4>1. b = a + 1 /\ a \in Int /\ b \in 2 .. Len(lastWidths')
        BY <3>2, <3>5
      <4>2. \A k \in 2 .. Len(lastWidths') : lastWidths'[k] = lastWidths[k - 1]
        BY <1>1, WidthsMoveOn
      <4> HIDE DEF a, b
      <4>3. b - 1 = a BY <4>1
      <4>4. lastWidths'[b] = lastWidths[a] BY <4>1, <4>2, <4>3
      <4>5. QED BY <4>4 DEF a, b
    <3>7. QED BY <3>4, <3>6
  <2>3. QED BY <2>1, <2>2
<1>7. z' < buffSize' /\ averaged' = Mean(wCircBuffer, 0 .. buffSize - 1)'
  BY <1>1, <1>2, <1>3 DEF BufferTypes
<1>8. QED BY <1>2, <1>5, <1>6, <1>7 DEF BufferInv

\* Where the size changes, nothing is known of the entries any more.
LEMMA ReadBuffSizeInv ==
  ASSUME BufferInv, NEW size \in BuffSizes, ReadBuffSize(size)
  PROVE  BufferInv'
<1>1. buffSize' \in 1 .. LMAX_CIRCULAR_BUFFER_SIZE
  BY DEF ReadBuffSize, Clamped
<1>2. UNCHANGED <<wCircBuffer, z, averaged, lastWidths>>
  BY DEF ReadBuffSize
<1>3. CASE buffSize' = buffSize
  <2>1. UNCHANGED <<buffSize, sinceChange>>
    BY <1>3 DEF ReadBuffSize
  <2>2. QED BY <1>2, <2>1 DEF BufferInv, BufferTypes, Age, Mean
<1>4. CASE buffSize' # buffSize
  <2>1. sinceChange' = 0
    BY <1>4 DEF ReadBuffSize
  <2>2. BufferTypes'
    <3>1. 0 <= Len(lastWidths)
      BY DEF BufferInv, BufferTypes
    <3>2. QED BY <1>1, <1>2, <2>1, <3>1 DEF BufferInv, BufferTypes
  <2>3. ASSUME NEW i \in 0 .. buffSize' - 1 PROVE ~ (Age(i, z', buffSize') <= sinceChange')
    <3>1. z' \in Int /\ z' >= 0 /\ buffSize' \in Int
      BY <1>1, <1>2 DEF BufferInv, BufferTypes
    <3>2. Age(i, z', buffSize') \in Int /\ 1 <= Age(i, z', buffSize')
      BY <3>1, AgePositive
    <3>3. QED BY <2>1, <3>2
  <2>4. QED BY <2>1, <2>2, <2>3 DEF BufferInv
<1>5. QED BY <1>3, <1>4

LEMMA BufferNextInv == BufferInv /\ [PathNext]_pathVars => BufferInv'
<1> SUFFICES ASSUME BufferInv, [PathNext]_pathVars PROVE BufferInv'
  OBVIOUS
<1>1. ASSUME NEW par \in AlarmParameters, NEW size \in BuffSizes, PathRead(par, size)
      PROVE  BufferInv'
  BY <1>1, ReadBuffSizeInv DEF PathRead
<1>2. ASSUME UNCHANGED bufferVars PROVE BufferInv'
  BY <1>2 DEF bufferVars, BufferInv, BufferTypes, Age, Mean
<1>3. ASSUME NEW nap \in BOOLEAN, NEW laser \in {0, 1}, NEW w \in Measured,
             NEW time \in AlarmTimes, PathFrame(nap, laser, w, time)
      PROVE  BufferInv'
  <2>1. w \in Int
    OBVIOUS
  <2>2. UNCHANGED bufferVars \/ Average(w)
    BY <1>3 DEF PathFrame
  <2>3. QED BY <1>2, <2>1, <2>2, AverageInv
<1>4. CASE UNCHANGED pathVars
  BY <1>2, <1>4 DEF pathVars
<1>5. QED BY <1>1, <1>3, <1>4 DEF PathNext, AnyPathFrame

LEMMA BufferInvariant == PathSpec => []BufferInv
<1>1. PathInit => BufferInv BY BufferInitInv DEF PathInit
<1>2. QED BY <1>1, BufferNextInv, PTL DEF PathSpec

(***************************************************************************)
(* What the loop of process_core.cpp:906 sums up, once there are as many   *)
(* widths since BUFF_SIZE changed as it says: the last ones, each once.    *)
(***************************************************************************)
WindowHoldsTheLast ==
  sinceChange >= buffSize =>
    /\ averaged = Mean(wCircBuffer, 0 .. buffSize - 1)
    /\ \A i \in 0 .. buffSize - 1 :
         /\ Age(i, z, buffSize) \in 1 .. buffSize
         /\ wCircBuffer[i] = lastWidths[Age(i, z, buffSize)]
    /\ \A i, j \in 0 .. buffSize - 1 : Age(i, z, buffSize) = Age(j, z, buffSize) => i = j

\* The averaging buffer holds the last widths, whatever sizes there were before.
THEOREM WindowIsRecent == PathSpec => []WindowHoldsTheLast
<1>1. BufferInv => WindowHoldsTheLast
  <2> SUFFICES ASSUME BufferInv, sinceChange >= buffSize
               PROVE  WindowHoldsTheLast
    BY DEF WindowHoldsTheLast
  <2>1. BufferTypes /\ z < buffSize /\ averaged = Mean(wCircBuffer, 0 .. buffSize - 1)
    BY DEF BufferInv, BufferTypes
  <2>ints. buffSize \in Int /\ z \in 0 .. buffSize - 1
    BY <2>1 DEF BufferTypes
  <2>2. \A i \in 0 .. buffSize - 1 : Age(i, z, buffSize) \in 1 .. buffSize
    BY <2>ints, AgeInWindow
  <2>3. ASSUME NEW i \in 0 .. buffSize - 1 PROVE wCircBuffer[i] = lastWidths[Age(i, z, buffSize)]
    <3>1. Age(i, z, buffSize) <= sinceChange
      BY <2>ints, <2>1, <2>2 DEF BufferTypes
    <3>2. QED BY <3>1 DEF BufferInv
  <2>4. \A i, j \in 0 .. buffSize - 1 : Age(i, z, buffSize) = Age(j, z, buffSize) => i = j
    BY <2>ints, AgeInWindow
  <2>5. QED BY <2>1, <2>2, <2>3, <2>4 DEF WindowHoldsTheLast
<1>2. QED BY <1>1, BufferInvariant, PTL

\* Every age inside the window is that of an entry.
LEMMA AgeOfSome ==
  ASSUME NEW size \in Int, NEW at \in 0 .. size - 1, NEW age \in 1 .. size
  PROVE  \E i \in 0 .. size - 1 : Age(i, at, size) = age
<1> DEFINE i == IF age <= at + 1 THEN at - age + 1 ELSE at - age + size + 1
<1>1. i \in 0 .. size - 1 /\ Age(i, at, size) = age
  BY DEF Age
<1>2. QED BY <1>1

(***************************************************************************)
(* W is the mean of the last circ_buffer_size widths as soon as there are  *)
(* so many since the size changed, for every size of the buffer: the sum   *)
(* the loop of process_core.cpp:906 makes of the entries is the sum of the *)
(* widths, in whatever order the entries stand.                            *)
(***************************************************************************)
THEOREM WidthIsWindowAverage == PathSpec => []WindowAverage
<1>1. BufferInv /\ WindowHoldsTheLast => WindowAverage
  <2> SUFFICES ASSUME BufferInv, WindowHoldsTheLast, sinceChange >= buffSize
               PROVE  averaged = Mean(lastWidths, 1 .. buffSize)
    BY DEF WindowAverage
  <2> DEFINE places == 0 .. buffSize - 1
             ages   == 1 .. buffSize
             age    == [i \in places |-> Age(i, z, buffSize)]
  <2>1. /\ BufferTypes /\ z < buffSize
        /\ averaged = Mean(wCircBuffer, places)
        /\ \A i \in places : /\ Age(i, z, buffSize) \in ages
                             /\ wCircBuffer[i] = lastWidths[Age(i, z, buffSize)]
        /\ \A i, j \in places : Age(i, z, buffSize) = Age(j, z, buffSize) => i = j
    <3>1. BufferTypes /\ z < buffSize
      BY DEF BufferInv, BufferTypes
    <3>2. QED BY <3>1 DEF WindowHoldsTheLast
  <2>2. buffSize \in Int /\ z \in 0 .. buffSize - 1
    BY <2>1 DEF BufferTypes
  <2>3. IsFiniteSet(places) /\ IsFiniteSet(ages)
    BY <2>2, FS_Interval
  <2>4. \A i \in places : wCircBuffer[i] \in Int
    <3>1. places \subseteq 0 .. LMAX_CIRCULAR_BUFFER_SIZE - 1
      BY <2>1 DEF BufferTypes
    <3> HIDE DEF places
    <3>2. QED BY <2>1, <3>1 DEF BufferTypes
  <2>5. \A k \in ages : lastWidths[k] \in Int
    <3>1. buffSize <= Len(lastWidths)
      BY <2>1, <2>2 DEF BufferTypes
    <3>2. ages \subseteq 1 .. Len(lastWidths)
      BY <2>1, <2>2, <3>1 DEF BufferTypes
    <3>3. QED BY <2>1, <3>2 DEF BufferTypes
  <2>6. \A k \in ages : \E i \in places : age[i] = k
    BY <2>2, AgeOfSome
  <2>7. /\ age \in [places -> ages]
        /\ \A i, j \in places : age[i] = age[j] => i = j
        /\ \A i \in places : wCircBuffer[i] = lastWidths[age[i]]
    BY <2>1
  <2> HIDE DEF places, ages, age
  <2>8. SumFunctionOnSet(wCircBuffer, places) = SumFunctionOnSet(lastWidths, ages)
    BY <2>3, <2>4, <2>5, <2>6, <2>7, SumMoved
  <2>9. QED BY <2>1, <2>8 DEF Mean, ages
<1>2. QED BY <1>1, BufferInvariant, WindowIsRecent, PTL
=============================================================================
