--------------------------- MODULE MCServiceStart ---------------------------
(***************************************************************************)
(* Three drivers in the code's order.  The shutter is restored and not     *)
(* defaulted, the operating mode is both, the PWM duty is neither.  The    *)
(* shutter is what a run is doing; the other two restored are settings.    *)
(***************************************************************************)
EXTENDS ServiceStart

MCBootOrder == <<"service", "scc", "control_unit", "mb">>
MCSaveOrder == <<"control_unit", "mb", "scc">>
MCRegisters == {"bypass", "shutter", "mode", "pwm"}
MCOwned == [d \in {"scc", "control_unit", "mb"} |->
              CASE d = "scc" -> {"bypass"}
                [] d = "control_unit" -> {"shutter"}
                [] d = "mb" -> {"mode", "pwm"}]
MCRestored == {"bypass", "shutter", "mode"}
MCDefaulted == {"mode"}
MCMomentary == {"shutter"}
=============================================================================
