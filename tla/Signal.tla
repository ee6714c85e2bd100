------------------------------- MODULE Signal -------------------------------
(***************************************************************************)
(* core::signal: a list of slots under a mutex, and an emission that walks *)
(* the list and submits one task per slot to the thread pool.  The task    *)
(* holds a copy of the slot, so what is connected afterwards does not      *)
(* matter to it: a slot may be called after it was disconnected.           *)
(***************************************************************************)
EXTENDS ThreadPool, SequencesExt

CONSTANTS
  Slots,       \* the slots a program connects
  MaxEmissions \* bound: emissions of the signal

\* The pool runs the calls of this signal only: nothing else submits.
ASSUME SignalAssumption ==
  /\ IsFiniteSet(Slots)
  /\ MaxEmissions \in Nat
  /\ Tasks = (1 .. MaxEmissions) \X Slots

VARIABLES
  sinks,     \* sinks, from its beginning
  emission,  \* the emission that runs, or ran last
  place,     \* where it is in the list; 0 when none runs
  owed       \* history: the calls that the emissions owe to their slots

signalVars == <<sinks, emission, place, owed>>

Connected == ToSet(sinks)

SignalInit ==
  /\ PoolInit
  /\ sinks = <<>>
  /\ emission = 0 /\ place = 0
  /\ owed = {}

\* _mutex is not taken by those who change the list.
SignalFree_Unlocked == TRUE

\* An emission holds _mutex from its first slot to its last.
SignalFree == place = 0

Connect(s) ==
  /\ SignalFree
  /\ s \notin Connected
  /\ sinks' = Append(sinks, s)
  /\ UNCHANGED <<poolVars, emission, place, owed>>

\* By the iterator that connect returned.
Disconnect(i) ==
  /\ SignalFree
  /\ sinks' = RemoveAt(sinks, i)
  /\ UNCHANGED <<poolVars, emission, place, owed>>

DisconnectAll ==
  /\ SignalFree
  /\ sinks' = <<>>
  /\ UNCHANGED <<poolVars, emission, place, owed>>

Emit ==
  /\ SignalFree
  /\ emission < MaxEmissions
  /\ emission' = emission + 1
  /\ place' = 1
  /\ owed' = owed \cup {<<emission + 1, s>> : s \in Connected}
  /\ UNCHANGED <<poolVars, sinks>>

SubmitSlot ==
  /\ place \in DOMAIN sinks
  /\ Submit(<<emission, sinks[place]>>)
  /\ place' = place + 1
  /\ UNCHANGED <<sinks, emission, owed>>

EmissionEnds ==
  /\ place > Len(sinks)
  /\ place' = 0
  /\ UNCHANGED <<poolVars, sinks, emission, owed>>

PoolStep ==
  /\ \/ \E w \in Workers : Worker(w) \/ WakeSpuriously(w)
     \/ SetStop \/ NotifyAll \/ Join
  /\ UNCHANGED signalVars

SignalNext ==
  \/ \E s \in Slots : Connect(s)
  \/ \E i \in DOMAIN sinks : Disconnect(i)
  \/ DisconnectAll
  \/ Emit \/ SubmitSlot \/ EmissionEnds
  \/ PoolStep

SignalSpec == SignalInit /\ [][SignalNext]_<<poolVars, signalVars>>

\* An emission that was begun goes on, and is given the pool's mutex at some time.
SignalFairSpec ==
  /\ SignalSpec
  /\ PoolFairness
  /\ SF_<<poolVars, signalVars>>(SubmitSlot)
  /\ WF_<<poolVars, signalVars>>(EmissionEnds)

-----------------------------------------------------------------------------
ToCome  == {<<emission, sinks[i]>> : i \in {j \in DOMAIN sinks : place # 0 /\ j >= place}}
Running == UNION {hand[w] : w \in Workers}

(***************************************************************************)
(* No call is lost and none is made up, whoever connects, disconnects and  *)
(* shuts down meanwhile: what the emissions owe to the slots connected     *)
(* when they began is still to be submitted, queued, running or done.      *)
(***************************************************************************)
EachCallKept == owed = ToCome \cup ToSet(queue) \cup Running \cup done

-----------------------------------------------------------------------------
\* What CallBoard calls the board: the queue, and behind it the calls that the
\* emission has still to submit.
CallsOf(n, list) == [i \in DOMAIN list |-> <<n, list[i]>>]

ToSubmit == IF place = 0 THEN <<>> ELSE CallsOf(emission, SubSeq(sinks, place, Len(sinks)))

Waiting == queue \o ToSubmit

Phase == IF ~ stop THEN "open" ELSE IF caller = "joined" THEN "closed" ELSE "closing"

\* Once _stop is set, who has passed its test of while (!_stop) takes one more task.
Willing == IF stop THEN At("lock") \cup At("gap") \cup At("asleep") ELSE Workers

Board == INSTANCE CallBoard WITH
  Threads <- Workers, MaxSlots <- Cardinality(Slots), emitted <- emission,
  waiting <- Waiting, running <- hand, finished <- done, phase <- Phase, willing <- Willing

(***************************************************************************)
(* Signal and pool are the board of CallBoard: whoever connects and        *)
(* disconnects meanwhile, calls begin in the order in which slots were     *)
(* connected and signals emitted, each of them once; after _stop a worker  *)
(* takes one more task at most, and when shutdown returns nothing runs.    *)
(***************************************************************************)
ImplementsCallBoard == Board!BoardSpec

(***************************************************************************)
(* Every slot connected when a signal is emitted is called, even if it is  *)
(* disconnected before, unless the pool is shut down.                      *)
(***************************************************************************)
SlotsCalled == \A t \in Tasks : t \in owed ~> (t \in done \/ stop)
=============================================================================
