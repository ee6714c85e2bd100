--------------------------- MODULE MCAutoshutter ---------------------------
(***************************************************************************)
(* A short nap (6 frames) around a calibration of 4 (1 + 1 + 1 + 1): every *)
(* phase of the code's 750 around 651 lasts at least one frame, two frames *)
(* of nap follow the opening, and the targets fall inside and outside it.  *)
(* One client stands for all commands: only who moved last matters.        *)
(***************************************************************************)
EXTENDS Autoshutter

MCTemps == {0, 3}
MCTriggers ==
  {[byTime |-> 1, time |-> 1], [byTime |-> 1, time |-> 7], [byTime |-> 0, time |-> 1]}
MCFlags ==
  {[enable |-> 0, inProcess |-> 1], [enable |-> 1, inProcess |-> 0],
   [enable |-> 1, inProcess |-> 1]}
MCAutoConfigs ==
  {[enable |-> f.enable, inProcess |-> f.inProcess, byTime |-> t.byTime,
    timeTarget |-> t.time, tempTarget |-> 2] : f \in MCFlags, t \in MCTriggers}
=============================================================================
