--------------------------- MODULE MCCommandRouter ---------------------------
(***************************************************************************)
(* The tables of the source, and one session for each route: reads and two *)
(* writes of it in any order, also as the calls of a service whose start   *)
(* failed; besides, an operator who sets the reference width or the time   *)
(* of a track to several values, and calls that no route takes.            *)
(*                                                                         *)
(* Registers keep their width for the truncations, but the time of a track *)
(* is counted in small units: 3 of them do not fit its lower register.     *)
(***************************************************************************)
EXTENDS CommandRouter, RegisterMap

MCDevices == {"control_unit", "mb", "process"}
\* initialize opens them in this order and stops where one fails.
MCOpenings == {{}, {"control_unit"}, {"control_unit", "mb"}, MCDevices}

MCShared ==
  {"shutter", "offset_update", "temp1", "temp2", "digital_out_0", "digital_out_3", "pwm",
   "pid_error", "set_ref_width", "background_remove"}

Times == {FieldWords["time_track_high"], FieldWords["time_track_low"]}
Fresh == Times \cup {FieldWords["set_ref_width"], FieldWords["width_ref"]}
MCLocations == {FieldWords[p] : p \in DOMAIN FieldWords}
MCInitialWords == {[l \in MCLocations |-> IF l \in Fresh THEN 0 ELSE 65538]}
MCStoredByOthers == {65537}

ReadOf(id)     == (id % 128) + 128 + 256 * (id \div 256)
WriteOf(id, v) == (id % 128) + 256 * (id \div 256) + 65536 * v

Watch(id) == {ReadOf(id), WriteOf(id, 1), WriteOf(id, 3)}
SetReference ==
  {WriteOf(\h041F, 1), WriteOf(\h041F, 3), WriteOf(\h040D, 0), WriteOf(\h040D, 1)}
SetTrackTime ==
  {ReadOf(\h040C), WriteOf(\h040C, 0), WriteOf(\h040C, 1), WriteOf(\h040C, 3)}
Unknown == {ReadOf(\h042B), WriteOf(\h0101, 1)}

MCSessions ==
  {Watch(id) : id \in DOMAIN LegacyRoutes} \cup {SetReference, SetTrackTime, Unknown}
=============================================================================
