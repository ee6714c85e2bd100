---------------------------- MODULE RegisterStore ----------------------------
(***************************************************************************)
(* What the command interface promises: a store of named parameters, each  *)
(* of which a call reads or writes as a whole.  A call of anything else is *)
(* answered with the value it carried.  Shared parameters also change by   *)
(* themselves: the process loop and the sensor write them.                 *)
(***************************************************************************)
EXTENDS Naturals

CONSTANTS
  Parameters,  \* what a command can read
  ReadOnly,    \* what it cannot write
  Shared       \* what others write

VARIABLES
  held,  \* of each parameter: the answer to a command that reads it
  live,  \* the parameters whose device was opened
  call   \* the call in progress: what it is for, and its value or answer

storeVars == <<held, live, call>>

Calls ==
  [state : {"idle", "called", "done"}, parameter : Parameters \cup {"other"},
   reads : BOOLEAN, value : Nat]

StoreInit ==
  /\ held \in [Parameters -> Nat]
  /\ live \subseteq Parameters
  /\ call \in Calls /\ call.state = "idle"

Call ==
  /\ call.state = "idle"
  /\ call' \in Calls /\ call'.state = "called"
  /\ UNCHANGED <<held, live>>

Done(value) ==
  call' = [state |-> "done", parameter |-> call.parameter, reads |-> call.reads,
            value |-> value]

Write ==
  /\ call.state = "called" /\ ~ call.reads
  /\ call.parameter \in live \ ReadOnly
  /\ held' = [held EXCEPT ![call.parameter] = call.value]
  /\ Done(call.value)
  /\ UNCHANGED live

Read ==
  /\ call.state = "called" /\ call.reads
  /\ call.parameter \in live
  /\ Done(held[call.parameter])
  /\ UNCHANGED <<held, live>>

Ignore ==
  /\ call.state = "called"
  /\ call.parameter \notin (IF call.reads THEN live ELSE live \ ReadOnly)
  /\ Done(call.value)
  /\ UNCHANGED <<held, live>>

Return ==
  /\ call.state = "done"
  /\ call' = [call EXCEPT !.state = "idle"]
  /\ UNCHANGED <<held, live>>

Change ==
  /\ held' \in [Parameters -> Nat]
  /\ \A p \in Parameters \ Shared : held'[p] = held[p]
  /\ UNCHANGED <<live, call>>

StoreNext == Call \/ Write \/ Read \/ Ignore \/ Return \/ Change

StoreSpec == StoreInit /\ [][StoreNext]_storeVars
=============================================================================
