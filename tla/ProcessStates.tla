---------------------------- MODULE ProcessStates ----------------------------
\* The states of the automaton of nit_process_core_run, by their numbers.
MANUAL      == 0
IDLE        == 8
MIDIENDO    == 9
CONTROL     == 10
PREHEATING  == 11
Estados     == {MANUAL, IDLE, MIDIENDO, CONTROL, PREHEATING}
=============================================================================
