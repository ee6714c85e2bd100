----------------------------- MODULE ThreadPool -----------------------------
(***************************************************************************)
(* core::thread_pool: workers that wait on one condition variable for      *)
(* tasks, submit, and the shutdown that the destructor runs.  submit       *)
(* changes the queue under the mutex; shutdown sets _stop without it, so   *)
(* it may fall between the moment a worker finds nothing to do and the     *)
(* moment it sleeps.                                                       *)
(***************************************************************************)
EXTENDS Naturals, Sequences, FiniteSets

CONSTANTS
  Workers,  \* the threads of _pool
  Tasks     \* what is submitted

ASSUME PoolAssumption ==
  /\ IsFiniteSet(Workers)
  /\ Workers # {}

VARIABLES
  pc,      \* "check": at while (!_stop), "lock": wants the mutex to test the
           \* queue, "gap": found nothing, about to sleep with the mutex still
           \* held, "asleep", "run": has a task, "ended"
  hand,    \* the tasks a worker has taken from the queue and not finished
  queue,   \* _q
  done,    \* the tasks that were run
  stop,    \* _stop
  caller,  \* the thread in shutdown: "away", "notify", "join" or "joined"
  missed   \* history: notify_all came while a worker was in the gap

poolVars == <<pc, hand, queue, done, stop, caller, missed>>

PoolTypeOK ==
  /\ pc \in [Workers -> {"check", "lock", "gap", "asleep", "run", "ended"}]
  /\ hand \in [Workers -> SUBSET Tasks]
  /\ queue \in Seq(Tasks)
  /\ done \subseteq Tasks
  /\ stop \in BOOLEAN
  /\ caller \in {"away", "notify", "join", "joined"}
  /\ missed \in BOOLEAN
  /\ stop <=> caller # "away"

PoolInit ==
  /\ pc = [w \in Workers |-> "check"]
  /\ hand = [w \in Workers |-> {}]
  /\ queue = <<>>
  /\ done = {}
  /\ stop = FALSE
  /\ caller = "away"
  /\ missed = FALSE

At(l) == {w \in Workers : pc[w] = l}

\* Definitions named X_Slip are slips a change of the code could make in X.

\* The mutex is released before the worker sleeps.
MutexFree_Unlocked == TRUE

\* Only a worker in the gap holds the mutex from one step to the next.
MutexFree == At("gap") = {}

-----------------------------------------------------------------------------
\* A worker is woken only when the queue was empty.
NotifyOne_WhenEmpty ==
  IF At("asleep") = {} \/ queue # <<>> THEN UNCHANGED pc
  ELSE \E w \in At("asleep") : pc' = [pc EXCEPT ![w] = "lock"]

NotifyOne ==
  IF At("asleep") = {} THEN UNCHANGED pc
  ELSE \E w \in At("asleep") : pc' = [pc EXCEPT ![w] = "lock"]

Submit(t) ==
  /\ MutexFree
  /\ queue' = Append(queue, t)
  /\ NotifyOne
  /\ UNCHANGED <<hand, done, stop, caller, missed>>

Check(w) ==
  /\ pc[w] = "check"
  /\ pc' = [pc EXCEPT ![w] = IF stop THEN "ended" ELSE "lock"]
  /\ UNCHANGED <<hand, queue, done, stop, caller, missed>>

\* The predicate is tested again after every wake-up, under the mutex.
Take(w) ==
  /\ pc[w] = "lock"
  /\ MutexFree
  /\ queue # <<>>
  /\ pc' = [pc EXCEPT ![w] = "run"]
  /\ hand' = [hand EXCEPT ![w] = {Head(queue)}]
  /\ queue' = Tail(queue)
  /\ UNCHANGED <<done, stop, caller, missed>>

Leave(w) ==
  /\ pc[w] = "lock"
  /\ MutexFree
  /\ queue = <<>>
  /\ pc' = [pc EXCEPT ![w] = IF stop THEN "ended" ELSE "gap"]
  /\ UNCHANGED <<hand, queue, done, stop, caller, missed>>

\* wait releases the mutex and sleeps in one step.
Sleep(w) ==
  /\ pc[w] = "gap"
  /\ pc' = [pc EXCEPT ![w] = "asleep"]
  /\ UNCHANGED <<hand, queue, done, stop, caller, missed>>

\* Condition variables may wake a worker for no reason.
WakeSpuriously(w) ==
  /\ pc[w] = "asleep"
  /\ pc' = [pc EXCEPT ![w] = "lock"]
  /\ UNCHANGED <<hand, queue, done, stop, caller, missed>>

\* The task returns or throws; both are the same to the worker.
Run(w) ==
  /\ pc[w] = "run"
  /\ pc' = [pc EXCEPT ![w] = "check"]
  /\ hand' = [hand EXCEPT ![w] = {}]
  /\ done' = done \cup hand[w]
  /\ UNCHANGED <<queue, stop, caller, missed>>

SetStop ==
  /\ caller = "away"
  /\ stop' = TRUE
  /\ caller' = "notify"
  /\ UNCHANGED <<pc, hand, queue, done, missed>>

NotifyAll_One ==
  /\ caller = "notify"
  /\ NotifyOne
  /\ caller' = "join"
  /\ missed' = (At("gap") # {})
  /\ UNCHANGED <<hand, queue, done, stop>>

NotifyAll ==
  /\ caller = "notify"
  /\ pc' = [w \in Workers |-> IF pc[w] = "asleep" THEN "lock" ELSE pc[w]]
  /\ caller' = "join"
  /\ missed' = (At("gap") # {})
  /\ UNCHANGED <<hand, queue, done, stop>>

Join ==
  /\ caller = "join"
  /\ At("ended") = Workers
  /\ caller' = "joined"
  /\ UNCHANGED <<pc, hand, queue, done, stop, missed>>

Worker(w) == Check(w) \/ Take(w) \/ Leave(w) \/ Sleep(w) \/ Run(w)

PoolNext ==
  \/ \E t \in Tasks : Submit(t)
  \/ \E w \in Workers : Worker(w) \/ WakeSpuriously(w)
  \/ SetStop \/ NotifyAll \/ Join

PoolSpec == PoolInit /\ [][PoolNext]_poolVars

(***************************************************************************)
(* Threads are scheduled, tasks end, and a thread that keeps asking for    *)
(* the mutex is given it at some time.  Nobody has to shut the pool down.  *)
(***************************************************************************)
WorkerFairness(w) ==
  /\ WF_poolVars(Check(w)) /\ WF_poolVars(Sleep(w)) /\ WF_poolVars(Run(w))
  /\ SF_poolVars(Take(w) \/ Leave(w))

PoolFairness ==
  /\ \A w \in Workers : WorkerFairness(w)
  /\ WF_poolVars(NotifyAll)
  /\ WF_poolVars(Join)

-----------------------------------------------------------------------------
(***************************************************************************)
(* The pool works at full width: while a worker sleeps there is, for every *)
(* task in the queue, a worker on its way to it.  So no task waits behind  *)
(* a running one that might be long, and no wake-up of submit is lost.     *)
(***************************************************************************)
FullParallelism ==
  At("asleep") # {} => Len(queue) <= Cardinality(At("lock"))

(***************************************************************************)
(* A shutdown ends, unless its notify_all came while a worker was between  *)
(* its test of _stop and its sleep: such a worker is never woken, and the  *)
(* join waits for it.  Nothing in the code excludes that case.             *)
(***************************************************************************)
ShutdownEnds == stop ~> (caller = "joined" \/ missed)
=============================================================================
