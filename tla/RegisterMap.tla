----------------------------- MODULE RegisterMap -----------------------------
(***************************************************************************)
(* What the source says about the registers in its tables: which parameter *)
(* a command addresses, which core's accessor its handler calls, which     *)
(* word of which mapping the accessor uses, and which words the process    *)
(* loop uses.  The four tables are written by hand, apart from each other. *)
(*                                                                         *)
(* A parameter is named as in the field tables; gen, mom, roi and pwm are  *)
(* parts of one mapping, "mb".                                             *)
(***************************************************************************)
EXTENDS Naturals, TLC

-----------------------------------------------------------------------------
(* The routes of command_processor_routes_legacy.  Left out are 040E and   *)
(* 041A to 041C (soft_reset and the LEDs): their handlers take the driver  *)
(* of mb for the one of arm, and what that does is undefined.              *)

ControlUnitRoutes ==
  \h0501 :> "int_time" @@ \h0502 :> "bias_v" @@ \h0503 :> "offset_en" @@
  \h0504 :> "offset_update" @@ \h0505 :> "shutter" @@ \h0506 :> "bpc_en" @@
  \h0507 :> "bpc_mem_write" @@ \h0508 :> "bpc_identify" @@ \h0509 :> "temp1" @@
  \h050A :> "temp2" @@ \h050B :> "temp3" @@ \h050C :> "temp4" @@
  \h050D :> "drift_enable" @@ \h050E :> "drift_position" @@ \h050F :> "drift_level" @@
  \h0520 :> "trigger_usec" @@ \h0521 :> "black_level" @@ \h0522 :> "sincronization" @@
  \h0523 :> "save_embedded_conf" @@ \h0524 :> "arm_sw_version" @@ \h0525 :> "magic_id" @@
  \h0526 :> "fpga_version"

ProcessRoutes ==
  \h0401 :> "ki" @@ \h0402 :> "kp" @@ \h0403 :> "kd" @@ \h0404 :> "max_power" @@
  \h0405 :> "min_power" @@ \h0407 :> "power_man" @@ \h0409 :> "background_remove" @@
  \h040D :> "set_ref_width" @@ \h0418 :> "power_limit_max" @@ \h0419 :> "power_limit_min" @@
  \h041F :> "width_ref" @@ \h0420 :> "pixel_mm_ratio" @@ \h0421 :> "pid_error" @@
  \h0422 :> "end_of_process" @@ \h0423 :> "limit_integral" @@ \h0424 :> "limit_slew" @@
  \h0425 :> "buff_size" @@ \h04A5 :> "buff_size" @@ \h0426 :> "enable_alarm" @@
  \h0427 :> "alarm_max" @@ \h0428 :> "alarm_min" @@ \h0429 :> "alarm_time" @@
  \h042A :> "serial_number" @@ \h042E :> "automeasure" @@
  \h042F :> "autoshutter_config" @@ \h0431 :> "autoshutter_temp" @@
  \h0432 :> "autoshutter_timer" @@ \h0433 :> "track_ref_start" @@
  \h0434 :> "laser_external_control" @@ \h0435 :> "delay_laser_on" @@
  \h0436 :> "preheating_ena" @@ \h0437 :> "preheating_time" @@
  \h0438 :> "preheating_power"

MbRoutes ==
  \h0406 :> "start_track_mom_t" @@ \h0408 :> "end_of_track" @@ \h040A :> "mode" @@
  \h040B :> "reference_track" @@ \h040C :> "time_track" @@
  \h040F :> "threshold" @@ \h0410 :> "round" @@ \h0411 :> "enable_roi" @@ \h0412 :> "x1" @@
  \h0413 :> "y1" @@ \h0414 :> "x2" @@ \h0415 :> "y2" @@ \h0416 :> "mode" @@
  \h0417 :> "pwm" @@
  \h041D :> "pwm_limit_max" @@ \h041E :> "pwm_limit_min" @@ \h0430 :> "digital_out_conf" @@
  \h0439 :> "digital_out_0" @@ \h043A :> "digital_out_1" @@ \h043B :> "digital_out_2" @@
  \h043C :> "digital_out_3"

LegacyRoutes == ControlUnitRoutes @@ ProcessRoutes @@ MbRoutes

-----------------------------------------------------------------------------
(* The field tables: the words of the parameters that have an accessor of  *)
(* their own.  The others only have the weak accessors of common.h, which  *)
(* touch no register.                                                      *)

BiasFields == "bias_v" :> 1 @@ "black_level" :> 36 @@ "bpc_en" :> 5

DriftFields == "drift_enable" :> 16 @@ "drift_position" :> 17 @@ "drift_level" :> 18

ExposureFields == "int_time" :> 0 @@ "offset_update" :> 3 @@ "shutter" :> 4

TemperatureFields == "temp1" :> 8 @@ "temp2" :> 9

OutputFields ==
  "digital_out_0" :> 9 @@ "digital_out_1" :> 10 @@ "digital_out_2" :> 14 @@
  "digital_out_3" :> 15 @@ "digital_out_conf" :> 11

GenFields == "enable_roi" :> 2 @@ OutputFields

TrackFields ==
  "reference_track" :> \h4000 + 15 @@ "end_of_track" :> \h4000 + 16 @@
  "start_track_mom_t" :> \h4000 + 9 @@ "threshold" :> \h4000 + 0

TimeFields == "time_track_low" :> \h4000 + 12 @@ "time_track_high" :> \h4000 + 13

ModeFields == "mode" :> \h4000 + 11

RoiFields ==
  "x1" :> \h8000 + 0 @@ "y1" :> \h8000 + 1 @@ "x2" :> \h8000 + 2 @@ "y2" :> \h8000 + 3 @@
  "round" :> \h8000 + 4

PwmFields ==
  "pwm_limit_max" :> \hC000 + 0 @@ "pwm" :> \hC000 + 1 @@ "pwm_limit_min" :> \hC000 + 3

PowerFields ==
  "ki" :> 0 @@ "kp" :> 1 @@ "kd" :> 2 @@ "max_power" :> 3 @@ "min_power" :> 4 @@
  "power_man" :> 5 @@ "power_limit_max" :> 6 @@ "power_limit_min" :> 7

MeasureFields ==
  "set_ref_width" :> 8 @@ "width_ref" :> 9 @@ "pixel_mm_ratio" :> 10 @@ "pid_error" :> 11 @@
  "end_of_process" :> 12 @@ "limit_integral" :> 13 @@ "limit_slew" :> 14 @@
  "buff_size" :> 15

AlarmFields ==
  "background_remove" :> 16 @@ "enable_alarm" :> 17 @@ "alarm_max" :> 18 @@
  "alarm_min" :> 19 @@ "alarm_time" :> 20

AutomationFields ==
  "automeasure" :> 23 @@ "autoshutter_config" :> 24 @@ "autoshutter_temp" :> 25 @@
  "autoshutter_timer" :> 26 @@ "track_ref_start" :> 27 @@
  "laser_external_control" :> 28 @@ "delay_laser_on" :> 29 @@ "preheating_ena" :> 30 @@
  "preheating_time" :> 31 @@ "preheating_power" :> 32

ProcessFields == PowerFields @@ MeasureFields @@ AlarmFields @@ AutomationFields

\* Where an accessor finds its parameter: a device and a word of its mapping.
On(device, fields) == [p \in DOMAIN fields |-> <<device, fields[p]>>]

ControlUnitWords ==
  On("control_unit", BiasFields @@ DriftFields @@ ExposureFields @@ TemperatureFields)

MbWords ==
  On("mb", GenFields @@ TrackFields @@ TimeFields @@ ModeFields @@ RoiFields
             @@ PwmFields)

ProcessWords == On("process", ProcessFields)

FieldWords == ControlUnitWords @@ MbWords @@ ProcessWords

-----------------------------------------------------------------------------
(* The words the loop reads and writes are macros of its own.              *)

LoopProcessWords ==
  On("process",
    "ki" :> 0 @@ "kp" :> 1 @@ "kd" :> 2 @@ "max_power" :> 3 @@ "min_power" :> 4 @@
    "power_man" :> 5 @@ "power_limit_max" :> 6 @@ "power_limit_min" :> 7 @@
    "set_ref_width" :> 8 @@ "width_ref" :> 9 @@ "pixel_mm_ratio" :> 10 @@
    "pid_error" :> 11 @@ "end_of_process" :> 12 @@ "limit_integral" :> 13 @@
    "limit_slew" :> 14 @@ "buff_size" :> 15 @@ "background_remove" :> 16 @@
    "enable_alarm" :> 17 @@ "alarm_max" :> 18 @@ "alarm_min" :> 19 @@ "alarm_time" :> 20 @@
    "automeasure" :> 23 @@ "autoshutter_config" :> 24 @@ "autoshutter_temp" :> 25 @@
    "autoshutter_timer" :> 26 @@ "track_ref_start" :> 27 @@
    "laser_external_control" :> 28 @@ "delay_laser_on" :> 29 @@ "preheating_ena" :> 30 @@
    "preheating_time" :> 31 @@ "preheating_power" :> 32)

LoopMbWords ==
  On("mb",
    "mode" :> \h4000 + 11 @@ "time_track_low" :> \h4000 + 12 @@
    "time_track_high" :> \h4000 + 13 @@ "digital_out_0" :> 9 @@ "digital_out_3" :> 15 @@
    "pwm_limit_max" :> \hC000 + 0 @@ "pwm" :> \hC000 + 1 @@ "pwm_limit_min" :> \hC000 + 3)

LoopControlUnitWords == On("control_unit", "offset_update" :> 3 @@ "shutter" :> 4)

LoopMacros == LoopProcessWords @@ LoopMbWords @@ LoopControlUnitWords

-----------------------------------------------------------------------------
(* What the handlers do of their own.                                      *)

(***************************************************************************)
(* Answers that are constants; the serial number is "189J611", cut to its  *)
(* last two bytes.  They are the defaults: the service's configuration or  *)
(* bpcc.sys may replace them at the start (clamir_service.cpp:436-440).    *)
(***************************************************************************)
FixedAnswers ==
  "arm_sw_version" :> 6 @@ "magic_id" :> \h0700 @@ "fpga_version" :> \h0002 @@
  "serial_number" :> \h0031

\* Reads of the process core answer all 32 bits, the others 16.
WideParameters == DOMAIN ProcessFields
=============================================================================
