---------------------------- MODULE MCThreadPool ----------------------------
(***************************************************************************)
(* Two workers, so that one may run while the other sleeps or is on its    *)
(* way, and two emissions of a signal with two slots: up to four tasks.    *)
(***************************************************************************)
EXTENDS Signal

CONSTANTS w1, w2, s1, s2

MCWorkers == {w1, w2}
MCSlots == {s1, s2}
MCTasks == (1 .. MaxEmissions) \X MCSlots
=============================================================================
