---------------------------- MODULE PowerControl ----------------------------
(***************************************************************************)
(* The laser power of the process loop (nit_process_core_run): the PID     *)
(* regulator of state CONTROL with its integral and slew limits, the power *)
(* the other states set, the clamp to the operator's limits and the PWM    *)
(* duty written at the end of every frame.                                 *)
(*                                                                         *)
(* Powers, errors and gains are integers for the code's doubles; the       *)
(* integral is counted in units of dt.  potencia_t0 and potencia_t1 are    *)
(* equal at the end of a frame (process_core.cpp:1133), so one variable    *)
(* stands for both between frames.                                         *)
(***************************************************************************)
EXTENDS Integers

CONSTANTS
  Parameters,       \* the register values read at the top of an iteration
  Biases,           \* values of POWER_MAN and PREHEATING_POWER
  Errors,           \* values of width_ref - W
  FreeIntegral,     \* bound of the integral when ki is not positive (1000)
  FullScale,        \* duty of the whole PWM range (16383)
  UndefinedDuties   \* what the cast of an unrepresentable duty can yield

ParameterRecords ==
  [max : Int, min : Int, slew : Int, ki : Int, kp : Int, kd : Int,
   integral : Int, powerMax : Int, powerMin : Int]

ASSUME PowerAssumption ==
  /\ Parameters \subseteq ParameterRecords
  /\ Biases \subseteq Int
  /\ Errors \subseteq Int
  /\ FreeIntegral \in Nat
  /\ FullScale \in Nat
  /\ UndefinedDuties \subseteq Nat

VARIABLES
  power,        \* potencia_t0 = potencia_t1
  integral,     \* integral, in units of dt
  lastError,    \* error_t1
  duty,         \* mb_core_shm[PWM]
  powerPar,     \* ki, kp, kd, the limits and the range, as last read
  lastFrame     \* history: what the last frame commanded, and under which powerPar

powerVars == <<power, integral, lastError, duty, powerPar, lastFrame>>

\* Command of a frame: keep the power, set it, or regulate the width.
Commands == {"hold", "set", "regulate"}

PowerTypeOK ==
  /\ power \in Int
  /\ integral \in Int
  /\ lastError \in Int
  /\ duty \in Nat
  /\ powerPar \in ParameterRecords
  /\ lastFrame \in [command : Commands \cup {"none"}, par : ParameterRecords]

PowerInit ==
  /\ power = 0
  /\ integral = 0
  /\ lastError = 0
  /\ duty = 0
  /\ powerPar \in Parameters
  /\ lastFrame = [command |-> "none", par |-> powerPar]

-----------------------------------------------------------------------------
\* Definitions named X_Slip are slips a change of the code could make in X.
Magnitude(x) == IF x < 0 THEN - x ELSE x

Clamp(x, lo, hi) == IF x > hi THEN hi ELSE IF x < lo THEN lo ELSE x

\* limit_integral_divided
IntegralLimit_Undivided == powerPar.integral
IntegralLimit ==
  IF powerPar.ki > 0 THEN powerPar.integral \div powerPar.ki ELSE FreeIntegral

\* The integral after adding error e, held within its limit.
LimitedIntegral(e) ==
  LET sum == integral + e
  IN  IF Magnitude(sum) >= IntegralLimit
      THEN IF sum < 0 THEN - IntegralLimit ELSE IntegralLimit
      ELSE sum

Regulated(bias, e) ==
  bias + powerPar.kp * e + powerPar.ki * LimitedIntegral(e)
       + powerPar.kd * (e - lastError)

\* The slew limit: no further from the last power than limiteSlew.
Slewed_UpwardsOnly(p) == IF p - power > powerPar.slew THEN power + powerPar.slew ELSE p
Slewed(p) ==
  IF Magnitude(power - p) > powerPar.slew
  THEN IF p < power THEN power - powerPar.slew ELSE power + powerPar.slew
  ELSE p

Requested(command, bias, e) ==
  CASE command = "hold"     -> power
    [] command = "set"      -> bias
    [] command = "regulate" -> Slewed(Regulated(bias, e))

Limited_UpperOnly(p) == IF p > powerPar.max THEN powerPar.max ELSE p
Limited(p)           == Clamp(p, powerPar.min, powerPar.max)

(***************************************************************************)
(* The duty of power p: its share of the range, as an unsigned integer.    *)
(* With an empty range, or for a negative share, the cast is undefined     *)
(* (a share between -1 and 0 is still cast to 0).                          *)
(***************************************************************************)
DutyOver_Signed(offset, span) ==
  IF span = 0 THEN UndefinedDuties ELSE {(offset * FullScale) \div span}

DutyOver(offset, span) ==
  CASE span = 0          -> UndefinedDuties
    [] offset * span < 0 -> UndefinedDuties \cup {0}
    [] OTHER             -> {(Magnitude(offset) * FullScale) \div Magnitude(span)}

Duties_Unshifted(p) == DutyOver(p, powerPar.powerMax - powerPar.powerMin)
Duties(p)           == DutyOver(p - powerPar.powerMin, powerPar.powerMax - powerPar.powerMin)

\* One frame; reset is the transition from MIDIENDO to CONTROL.
PowerFrame(command, bias, e, reset) ==
  /\ power' = Limited(Requested(command, bias, e))
  /\ integral' = IF reset THEN 0
                 ELSE IF command = "regulate" THEN LimitedIntegral(e) ELSE integral
  /\ lastError' = IF reset THEN 0 ELSE IF command = "regulate" THEN e ELSE lastError
  /\ duty' \in Duties(power')
  /\ lastFrame' = [command |-> command, par |-> powerPar]
  /\ UNCHANGED powerPar

\* The registers are read at the top of the iteration, before the loop sleeps.
ReadPowerParameters(par) ==
  /\ powerPar' = par
  /\ UNCHANGED <<power, integral, lastError, duty, lastFrame>>

PowerNext ==
  \/ \E par \in Parameters : ReadPowerParameters(par)
  \/ \E bias \in Biases, reset \in BOOLEAN :
       PowerFrame("set", bias, 0, reset)
  \/ \E bias \in Biases, e \in Errors : PowerFrame("regulate", bias, e, FALSE)
  \/ PowerFrame("hold", 0, 0, FALSE)

PowerSpec == PowerInit /\ [][PowerNext]_powerVars

-----------------------------------------------------------------------------
Ordered(par) == par.min <= par.max

(***************************************************************************)
(* Whatever a frame commands, the power it leaves is within the limits it  *)
(* read, if they are in order.  The two limits are separate registers that *)
(* separate commands write; while POWER_LIMIT_MIN exceeds POWER_LIMIT_MAX  *)
(* the clamp of process_core.cpp:1126 guarantees neither.                  *)
(***************************************************************************)
OutputWithinLimits ==
  lastFrame.command # "none" /\ Ordered(lastFrame.par)
    => power \in lastFrame.par.min .. lastFrame.par.max

(***************************************************************************)
(* A regulated frame moves the power by at most the slew limit it read,    *)
(* unless the limits in force already exclude the power of the last frame, *)
(* whichever gains, integral and previous commands it meets.               *)
(***************************************************************************)
SlewBounded ==
  [][lastFrame'.command = "regulate"
       /\ lastFrame'.par.slew >= 0
       /\ lastFrame'.par.min <= power /\ power <= lastFrame'.par.max
     => Magnitude(power' - power) <= lastFrame'.par.slew]_powerVars

(***************************************************************************)
(* Anti-windup: after a regulated frame the integral's contribution to the *)
(* power, ki * integral, is no larger than LIMIT_INTEGRAL.                 *)
(***************************************************************************)
IntegralBounded ==
  lastFrame.command = "regulate" /\ lastFrame.par.ki > 0 /\ lastFrame.par.integral >= 0
    => lastFrame.par.ki * Magnitude(integral) <= lastFrame.par.integral

(***************************************************************************)
(* The duty never leaves the PWM's scale, if the operator's limits are     *)
(* ordered and lie inside the range MIN_POWER .. MAX_POWER: the cast of    *)
(* process_core.cpp:1141 then never meets a value it cannot represent.     *)
(***************************************************************************)
DutyOnScale ==
  LET par == lastFrame.par
  IN  /\ lastFrame.command # "none" /\ Ordered(par)
      /\ par.powerMin <= par.min /\ par.max <= par.powerMax
      /\ par.powerMin < par.powerMax
      => duty \in 0 .. FullScale
=============================================================================
