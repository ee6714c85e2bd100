--------------------------- MODULE ThreadPoolProofs ---------------------------
(***************************************************************************)
(* Proofs about the thread pool, for any set of workers and tasks, and     *)
(* about the signal that feeds it, for any slots and number of emissions.  *)
(***************************************************************************)
EXTENDS Signal, FiniteSetTheorems, SequenceTheorems, TLAPS

Points == {"check", "lock", "gap", "asleep", "run", "ended"}

\* Who is about to sleep saw an empty queue, and still holds the mutex.
GapSeesNothing == At("gap") # {} => queue = <<>>

(***************************************************************************)
(* Once shutdown waits in join, a worker that still sleeps or is about to  *)
(* was in the gap when notify_all came.  This is all that can go wrong     *)
(* with a shutdown.                                                        *)
(***************************************************************************)
OnlyTheGapMisses ==
  caller \in {"join", "joined"} /\ At("asleep") \cup At("gap") # {} => missed

PoolInv ==
  /\ PoolTypeOK
  /\ GapSeesNothing
  /\ FullParallelism
  /\ OnlyTheGapMisses

-----------------------------------------------------------------------------
\* A worker that comes to the mutex makes one more.
LEMMA OneMoreAtLock ==
  ASSUME NEW w \in Workers, pc[w] # "lock", pc \in [Workers -> Points],
         pc' = [pc EXCEPT ![w] = "lock"]
  PROVE  /\ Cardinality(At("lock")) \in Nat
         /\ Cardinality(At("lock")') = Cardinality(At("lock")) + 1
<1>1. IsFiniteSet(At("lock"))
  BY FS_Subset, PoolAssumption DEF At, PoolAssumption
<1>2. At("lock")' = At("lock") \cup {w} /\ w \notin At("lock")
  BY DEF At
<1> QED
  BY <1>1, <1>2, FS_AddElement, FS_CardinalityType

\* A worker that leaves the mutex makes one less.
LEMMA OneLessAtLock ==
  ASSUME NEW w \in Workers, pc[w] = "lock", pc \in [Workers -> Points],
         NEW l \in Points, l # "lock", pc' = [pc EXCEPT ![w] = l]
  PROVE  /\ Cardinality(At("lock")') \in Nat
         /\ Cardinality(At("lock")') = Cardinality(At("lock")) - 1
<1>1. IsFiniteSet(At("lock"))
  BY FS_Subset, PoolAssumption DEF At, PoolAssumption
<1>2. At("lock")' = At("lock") \ {w} /\ w \in At("lock")
  BY DEF At
<1>3. IsFiniteSet(At("lock")')
  BY <1>1, <1>2, FS_Subset
<1> QED
  BY <1>1, <1>2, <1>3, FS_RemoveElement, FS_CardinalityType

LEMMA LockIsFinite == Cardinality(At("lock")) \in Nat
  BY FS_Subset, FS_CardinalityType, PoolAssumption DEF At, PoolAssumption

LEMMA InitInv == PoolInit => PoolInv
<1> SUFFICES ASSUME PoolInit PROVE PoolInv
  OBVIOUS
<1>1. PoolTypeOK
  <2>1. <<>> \in Seq(Tasks)
    OBVIOUS
  <2> QED
    BY <2>1 DEF PoolInit, PoolTypeOK
<1>2. At("gap") = {} /\ At("asleep") = {}
  BY DEF PoolInit, At
<1> QED
  BY <1>1, <1>2 DEF PoolInit, PoolInv, GapSeesNothing, FullParallelism,
                    OnlyTheGapMisses

-----------------------------------------------------------------------------
\* Every step keeps the types.
LEMMA StepTypes == PoolTypeOK /\ [PoolNext]_poolVars => PoolTypeOK'
<1> SUFFICES ASSUME PoolTypeOK, [PoolNext]_poolVars PROVE PoolTypeOK'
  OBVIOUS
<1> USE DEF PoolTypeOK
<1>1. ASSUME NEW t \in Tasks, Submit(t) PROVE PoolTypeOK'
  BY <1>1 DEF Submit, NotifyOne, At
<1>2. ASSUME NEW w \in Workers, Check(w) PROVE PoolTypeOK'
  BY <1>2 DEF Check
<1>3. ASSUME NEW w \in Workers, Take(w) PROVE PoolTypeOK'
  <2>1. Head(queue) \in Tasks /\ Tail(queue) \in Seq(Tasks)
    BY <1>3 DEF Take
  <2> QED
    BY <1>3, <2>1 DEF Take
<1>4. ASSUME NEW w \in Workers, Leave(w) PROVE PoolTypeOK'
  BY <1>4 DEF Leave
<1>5. ASSUME NEW w \in Workers, Sleep(w) PROVE PoolTypeOK'
  BY <1>5 DEF Sleep
<1>6. ASSUME NEW w \in Workers, Run(w) PROVE PoolTypeOK'
  BY <1>6 DEF Run
<1>7. ASSUME NEW w \in Workers, WakeSpuriously(w) PROVE PoolTypeOK'
  BY <1>7 DEF WakeSpuriously
<1>8. CASE SetStop
  BY <1>8 DEF SetStop
<1>9. CASE NotifyAll
  BY <1>9 DEF NotifyAll
<1>10. CASE Join
  BY <1>10 DEF Join
<1>11. CASE UNCHANGED poolVars
  BY <1>11 DEF poolVars
<1> QED
  BY <1>1, <1>2, <1>3, <1>4, <1>5, <1>6, <1>7, <1>8, <1>9, <1>10, <1>11
     DEF PoolNext, Worker

\* Every step keeps what the queue owes to the workers that sleep.
LEMMA StepQueue ==
  ASSUME PoolTypeOK, GapSeesNothing, FullParallelism, [PoolNext]_poolVars
  PROVE  GapSeesNothing' /\ FullParallelism'
<1> DEFINE L == Cardinality(At("lock"))
<1>0. /\ pc \in [Workers -> Points]
      /\ queue \in Seq(Tasks)
      /\ L \in Nat
  BY LockIsFinite DEF PoolTypeOK, Points
<1> USE DEF GapSeesNothing, FullParallelism
<1>1. ASSUME NEW t \in Tasks, Submit(t) PROVE GapSeesNothing' /\ FullParallelism'
  <2>1. At("gap") = {} /\ Len(queue') = Len(queue) + 1
    BY <1>0, <1>1 DEF Submit, MutexFree
  <2>2. CASE At("asleep") = {}
    <3>1. pc' = pc
      BY <1>1, <2>2 DEF Submit, NotifyOne
    <3> QED
      BY <2>1, <2>2, <3>1 DEF At
  <2>3. CASE At("asleep") # {}
    <3>1. PICK w \in At("asleep") : pc' = [pc EXCEPT ![w] = "lock"]
      BY <1>1, <2>3 DEF Submit, NotifyOne
    <3>2. w \in Workers /\ pc[w] = "asleep"
      BY DEF At
    <3>3. Cardinality(At("lock")') = L + 1
      BY <1>0, <3>1, <3>2, OneMoreAtLock
    <3>4. At("gap")' = {}
      BY <1>0, <2>1, <3>1, <3>2 DEF At
    <3>5. Len(queue) <= L
      BY <2>3
    <3> QED
      BY <1>0, <2>1, <3>3, <3>4, <3>5
  <2> QED
    BY <2>2, <2>3
<1>2. ASSUME NEW w \in Workers, Check(w) PROVE GapSeesNothing' /\ FullParallelism'
  <2>1. At("gap")' = At("gap") /\ At("asleep")' = At("asleep") /\ queue' = queue
    BY <1>0, <1>2 DEF Check, At
  <2>2. CASE stop
    <3>1. At("lock")' = At("lock")
      BY <1>0, <1>2, <2>2 DEF Check, At
    <3> QED
      BY <2>1, <3>1
  <2>3. CASE ~stop
    <3>1. Cardinality(At("lock")') = L + 1
      BY <1>0, <1>2, <2>3, OneMoreAtLock DEF Check
    <3> QED
      BY <1>0, <2>1, <3>1
  <2> QED
    BY <2>2, <2>3
<1>3. ASSUME NEW w \in Workers, Take(w) PROVE GapSeesNothing' /\ FullParallelism'
  <2>1. At("gap")' = {} /\ At("asleep")' = At("asleep")
    BY <1>0, <1>3 DEF Take, MutexFree, At
  <2>2. Len(queue') = Len(queue) - 1
    BY <1>0, <1>3 DEF Take
  <2>3. Cardinality(At("lock")') = L - 1
    BY <1>0, <1>3, OneLessAtLock DEF Take, Points
  <2> QED
    BY <1>0, <2>1, <2>2, <2>3
<1>4. ASSUME NEW w \in Workers, Leave(w) PROVE GapSeesNothing' /\ FullParallelism'
  <2>1. queue' = <<>>
    BY <1>4 DEF Leave
  <2>2. Cardinality(At("lock")') \in Nat
    BY <1>0, <1>4, OneLessAtLock DEF Leave, Points
  <2> QED
    BY <2>1, <2>2
<1>5. ASSUME NEW w \in Workers, Sleep(w) PROVE GapSeesNothing' /\ FullParallelism'
  <2>1. queue = <<>> /\ queue' = queue
    BY <1>5 DEF Sleep, At
  <2>2. At("lock")' = At("lock")
    BY <1>0, <1>5 DEF Sleep, At
  <2> QED
    BY <1>0, <2>1, <2>2
<1>6. ASSUME NEW w \in Workers, Run(w) PROVE GapSeesNothing' /\ FullParallelism'
  <2>1. /\ At("gap")' = At("gap") /\ At("asleep")' = At("asleep")
        /\ At("lock")' = At("lock") /\ queue' = queue
    BY <1>0, <1>6 DEF Run, At
  <2> QED
    BY <2>1
<1>7. ASSUME NEW w \in Workers, WakeSpuriously(w)
      PROVE GapSeesNothing' /\ FullParallelism'
  <2>1. At("gap")' = At("gap") /\ queue' = queue /\ At("asleep") # {}
    BY <1>0, <1>7 DEF WakeSpuriously, At
  <2>2. Cardinality(At("lock")') = L + 1
    BY <1>0, <1>7, OneMoreAtLock DEF WakeSpuriously
  <2>3. Len(queue) <= L
    BY <2>1
  <2> QED
    BY <1>0, <2>1, <2>2, <2>3
<1>8. ASSUME NotifyAll PROVE GapSeesNothing' /\ FullParallelism'
  <2>1. At("asleep")' = {} /\ At("gap")' = At("gap") /\ queue' = queue
    BY <1>0, <1>8 DEF NotifyAll, At
  <2> QED
    BY <2>1
<1>9. ASSUME pc' = pc, queue' = queue PROVE GapSeesNothing' /\ FullParallelism'
  BY <1>9 DEF At
<1>10. SetStop \/ Join \/ UNCHANGED poolVars => pc' = pc /\ queue' = queue
  BY DEF SetStop, Join, poolVars
<1> QED
  BY <1>1, <1>2, <1>3, <1>4, <1>5, <1>6, <1>7, <1>8, <1>9, <1>10 DEF PoolNext, Worker

\* Every step keeps what is known of a shutdown.
LEMMA StepShutdown ==
  ASSUME PoolTypeOK, OnlyTheGapMisses, [PoolNext]_poolVars
  PROVE  OnlyTheGapMisses'
<1>0. pc \in [Workers -> Points] /\ (stop <=> caller # "away")
  BY DEF PoolTypeOK, Points
<1> DEFINE Idle == At("asleep") \cup At("gap")
<1> USE DEF OnlyTheGapMisses
<1>1. ASSUME NEW t \in Tasks, Submit(t) PROVE OnlyTheGapMisses'
  <2>1. caller' = caller /\ missed' = missed
    BY <1>1 DEF Submit
  <2>2. CASE pc' = pc
    BY <2>1, <2>2 DEF At
  <2>3. CASE \E w \in At("asleep") : pc' = [pc EXCEPT ![w] = "lock"]
    <3>1. PICK w \in Workers : pc[w] = "asleep" /\ pc' = [pc EXCEPT ![w] = "lock"]
      BY <2>3 DEF At
    <3>2. Idle' \subseteq Idle
      BY <1>0, <3>1 DEF At
    <3> QED
      BY <2>1, <3>2
  <2> QED
    BY <1>1, <2>2, <2>3 DEF Submit, NotifyOne
<1>2. ASSUME NEW w \in Workers, Check(w) \/ Take(w) \/ Run(w) \/ WakeSpuriously(w)
      PROVE OnlyTheGapMisses'
  <2>1. caller' = caller /\ missed' = missed
    BY <1>2 DEF Check, Take, Run, WakeSpuriously
  <2>2. Idle' \subseteq Idle
    BY <1>0, <1>2 DEF Check, Take, Run, WakeSpuriously, At
  <2> QED
    BY <2>1, <2>2
<1>3. ASSUME NEW w \in Workers, Leave(w) PROVE OnlyTheGapMisses'
  <2>1. caller' = caller /\ missed' = missed
    BY <1>3 DEF Leave
  <2>2. CASE stop
    <3>1. Idle' \subseteq Idle
      BY <1>0, <1>3, <2>2 DEF Leave, At
    <3> QED
      BY <2>1, <3>1
  <2>3. CASE ~stop
    BY <1>0, <2>1, <2>3
  <2> QED
    BY <2>2, <2>3
<1>4. ASSUME NEW w \in Workers, Sleep(w) PROVE OnlyTheGapMisses'
  <2>1. caller' = caller /\ missed' = missed
    BY <1>4 DEF Sleep
  <2>2. Idle # {}
    BY <1>4 DEF Sleep, At
  <2> QED
    BY <2>1, <2>2
<1>5. CASE SetStop
  BY <1>5 DEF SetStop
<1>6. CASE NotifyAll
  <2>1. Idle' = At("gap")
    BY <1>0, <1>6 DEF NotifyAll, At
  <2>2. caller' = "join" /\ missed' = (At("gap") # {})
    BY <1>6 DEF NotifyAll
  <2> QED
    BY <2>1, <2>2
<1>7. CASE Join
  <2>1. pc' = pc /\ At("ended") = Workers
    BY <1>7 DEF Join
  <2>2. Idle' = {}
    BY <2>1 DEF At
  <2> QED
    BY <2>2
<1>8. CASE UNCHANGED poolVars
  BY <1>8 DEF poolVars, At
<1> QED
  BY <1>1, <1>2, <1>3, <1>4, <1>5, <1>6, <1>7, <1>8 DEF PoolNext, Worker

LEMMA StepInv == PoolInv /\ [PoolNext]_poolVars => PoolInv'
  BY StepTypes, StepQueue, StepShutdown DEF PoolInv

(***************************************************************************)
(* The invariant of the pool holds in every behaviour: types, an empty     *)
(* queue behind whoever is about to sleep, full width, and shutdowns that  *)
(* miss nobody but a worker in the gap.                                    *)
(***************************************************************************)
THEOREM PoolInvariant == PoolSpec => []PoolInv
  BY InitInv, StepInv, PTL DEF PoolSpec

-----------------------------------------------------------------------------
(***************************************************************************)
(* The pool's variables keep their types, and _stop is set exactly while   *)
(* and after shutdown runs, for any number of workers and tasks.           *)
(***************************************************************************)
THEOREM PoolTypeCorrect == PoolSpec => []PoolTypeOK
<1>1. PoolInv => PoolTypeOK
  BY DEF PoolInv
<1> QED
  BY <1>1, PoolInvariant, PTL

(***************************************************************************)
(* submit's notify_one under the mutex loses no wake-up: while a worker    *)
(* sleeps, each task in the queue has a worker on its way to it.           *)
(***************************************************************************)
THEOREM NoWakeUpIsLost == PoolSpec => []FullParallelism
<1>1. PoolInv => FullParallelism
  BY DEF PoolInv
<1> QED
  BY <1>1, PoolInvariant, PTL

(***************************************************************************)
(* shutdown's notify_all without the mutex loses wake-ups in one case      *)
(* only: a worker that was between its test of _stop and its sleep.        *)
(***************************************************************************)
THEOREM ShutdownMissesOnlyTheGap == PoolSpec => []OnlyTheGapMisses
<1>1. PoolInv => OnlyTheGapMisses
  BY DEF PoolInv
<1> QED
  BY <1>1, PoolInvariant, PTL
-----------------------------------------------------------------------------
(***************************************************************************)
(* What a shutdown waits for.  The prover knows no ENABLED: that a worker  *)
(* which is not blocked has a next step is a hypothesis here, as plain as  *)
(* the guards of its steps.                                                *)
(***************************************************************************)
WorkersGoOn ==
  \A w \in Workers :
    /\ pc[w] = "check" => ENABLED <<Check(w)>>_poolVars
    /\ pc[w] = "run" => ENABLED <<Run(w)>>_poolVars
    /\ pc[w] = "lock" /\ MutexFree => ENABLED <<Take(w) \/ Leave(w)>>_poolVars

\* shutdown has woken whoever slept, and missed nobody.
AllWoken == stop /\ caller \in {"join", "joined"} /\ ~ missed

\* Then nobody sleeps or is about to, and a worker only moves on to its end.
LEMMA WokenMoveOn ==
  ASSUME PoolInv, AllWoken, NEW w \in Workers
  PROVE  /\ pc[w] \in {"check", "lock", "run", "ended"} /\ MutexFree
         /\ [PoolNext]_poolVars =>
              /\ AllWoken'
              /\ \/ pc'[w] = pc[w] /\ ~ Check(w) /\ ~ Run(w) /\ ~ Take(w) /\ ~ Leave(w)
                 \/ pc[w] = "check" /\ pc'[w] = "ended"
                 \/ pc[w] = "run" /\ pc'[w] = "check"
                 \/ pc[w] = "lock" /\ pc'[w] \in {"run", "ended"}
<1>1. At("gap") = {} /\ At("asleep") = {}
  BY DEF AllWoken, PoolInv, OnlyTheGapMisses
<1>2. pc[w] \in {"check", "lock", "run", "ended"} /\ MutexFree
  BY <1>1 DEF PoolInv, PoolTypeOK, At, MutexFree
<1>3. ASSUME [PoolNext]_poolVars PROVE AllWoken'
  <2>1. stop' = stop /\ missed' = missed /\ caller' \in {caller, "joined"}
    BY <1>3 DEF PoolNext, Worker, Submit, Check, Take, Leave, Sleep, Run, WakeSpuriously,
       SetStop, NotifyAll, Join, poolVars, AllWoken
  <2>2. QED BY <2>1 DEF AllWoken
<1> DEFINE Moves == \/ pc'[w] = pc[w] /\ ~ Check(w) /\ ~ Run(w) /\ ~ Take(w) /\ ~ Leave(w)
                    \/ pc[w] = "check" /\ pc'[w] = "ended"
                    \/ pc[w] = "run" /\ pc'[w] = "check"
                    \/ pc[w] = "lock" /\ pc'[w] \in {"run", "ended"}
<1>4. ASSUME [PoolNext]_poolVars PROVE Moves
  <2>0. pc \in [Workers -> Points] /\ stop /\ caller \in {"join", "joined"}
    BY DEF PoolInv, PoolTypeOK, Points, AllWoken
  <2>1. ASSUME pc' = pc PROVE Moves
    BY <2>0, <2>1 DEF Check, Run, Take, Leave, Points
  <2>2. ASSUME NEW t \in Tasks, Submit(t) PROVE Moves
    BY <1>1, <2>1, <2>2 DEF Submit, NotifyOne
  <2>3. ASSUME NEW v \in Workers, Check(v) \/ Run(v) \/ Take(v) \/ Leave(v) PROVE Moves
    <3>1. CASE v = w
      BY <2>0, <2>3, <3>1 DEF Check, Run, Take, Leave
    <3>2. CASE v # w
      <4>1. pc'[w] = pc[w] /\ pc'[v] # pc[v]
        BY <2>0, <2>3, <3>2 DEF Check, Run, Take, Leave
      <4>2. ~ Check(w) /\ ~ Run(w) /\ ~ Take(w) /\ ~ Leave(w)
        BY <2>0, <4>1 DEF Check, Run, Take, Leave
      <4>3. QED BY <4>1, <4>2
    <3>3. QED BY <3>1, <3>2
  <2>4. ASSUME NEW v \in Workers, Sleep(v) \/ WakeSpuriously(v) PROVE FALSE
    BY <1>1, <2>4 DEF Sleep, WakeSpuriously, At
  <2>5. CASE SetStop \/ NotifyAll \/ Join
    BY <2>0, <2>1, <2>5 DEF SetStop, NotifyAll, Join
  <2>6. CASE UNCHANGED poolVars
    BY <2>1, <2>6 DEF poolVars
  <2>7. QED BY <1>4, <2>2, <2>3, <2>4, <2>5, <2>6 DEF PoolNext, Worker
<1>5. QED BY <1>2, <1>3, <1>4

(***************************************************************************)
(* A shutdown whose notify_all missed nobody brings every worker to its    *)
(* end, for any number of workers and whatever is queued; so the join of   *)
(* thread_pool.hpp:41 waits for none of them for ever.                     *)
(***************************************************************************)
THEOREM EveryWorkerEnds ==
  PoolSpec /\ PoolFairness /\ []WorkersGoOn
    => \A w \in Workers : (caller = "join" /\ ~ missed) ~> (pc[w] = "ended")
<1>0. PoolFairness => \A w \in Workers : WorkerFairness(w)
  BY PTL DEF PoolFairness
<1>1. ASSUME NEW w \in Workers
      PROVE  PoolSpec /\ PoolFairness /\ []WorkersGoOn
               => ((caller = "join" /\ ~ missed) ~> (pc[w] = "ended"))
  <2> DEFINE Is(l) == AllWoken /\ pc[w] = l
  <2>1. PoolInv /\ caller = "join" /\ ~ missed
          => Is("check") \/ Is("lock") \/ Is("run") \/ Is("ended")
    BY WokenMoveOn DEF AllWoken, PoolInv, PoolTypeOK
  <2>2. PoolInv /\ [PoolNext]_poolVars /\ Is("check")
          => Is("ended")' \/ (Is("check")' /\ ~ <<Check(w)>>_poolVars)
    BY WokenMoveOn
  <2>3. PoolInv /\ [PoolNext]_poolVars /\ Is("run")
          => Is("check")' \/ (Is("run")' /\ ~ <<Run(w)>>_poolVars)
    BY WokenMoveOn
  <2>4. PoolInv /\ [PoolNext]_poolVars /\ Is("lock")
          => \/ Is("run")' \/ Is("ended")'
             \/ (Is("lock")' /\ ~ <<Take(w) \/ Leave(w)>>_poolVars)
    BY WokenMoveOn
  <2>5. PoolInv /\ WorkersGoOn
          => /\ Is("check") => ENABLED <<Check(w)>>_poolVars
             /\ Is("run") => ENABLED <<Run(w)>>_poolVars
             /\ Is("lock") => ENABLED <<Take(w) \/ Leave(w)>>_poolVars
    BY WokenMoveOn DEF WorkersGoOn
  <2>6. PoolFairness => WorkerFairness(w)
    BY <1>0
  <2>7. Is("ended") => pc[w] = "ended"
    OBVIOUS
  <2> HIDE DEF Is
  <2>8. QED
    BY <2>1, <2>2, <2>3, <2>4, <2>5, <2>6, <2>7, PoolInvariant, PTL DEF PoolSpec, WorkerFairness
<1>2. QED BY <1>1

-----------------------------------------------------------------------------
\* The signal.
vars == <<poolVars, signalVars>>

SignalTypeInv ==
  /\ sinks \in Seq(Slots)
  /\ emission \in 0 .. MaxEmissions
  /\ place \in Nat
  /\ place # 0 => emission # 0

\* A worker that does not run a task holds none: a task taken is not forgotten.
IdleHoldsNothing == \A w \in Workers : pc[w] # "run" => hand[w] = {}

SignalInv == PoolTypeOK /\ SignalTypeInv /\ IdleHoldsNothing /\ EachCallKept

\* What is left of a list when one of its elements is erased.
LEMMA RemoveAtSeq ==
  ASSUME NEW S, NEW s \in Seq(S), NEW i \in DOMAIN s
  PROVE  RemoveAt(s, i) \in Seq(S)
<1>1. i \in 1 .. Len(s) /\ Len(s) \in Nat /\ \A j \in 1 .. Len(s) : s[j] \in S
  OBVIOUS
<1>2. SubSeq(s, 1, i - 1) \in Seq(S)
  BY <1>1, SubSeqProperties
<1>3. SubSeq(s, i + 1, Len(s)) \in Seq(S)
  BY <1>1, SubSeqProperties
<1>4. QED BY <1>2, <1>3, ConcatProperties DEF RemoveAt

LEMMA AppendedSet ==
  ASSUME NEW S, NEW s \in Seq(S), NEW x \in S
  PROVE  ToSet(Append(s, x)) = ToSet(s) \cup {x}
BY AppendProperties DEF ToSet

LEMMA PoppedSet ==
  ASSUME NEW S, NEW s \in Seq(S), s # <<>>
  PROVE  ToSet(s) = ToSet(Tail(s)) \cup {Head(s)}
<1>1. /\ Tail(s) \in Seq(S) /\ Len(Tail(s)) = Len(s) - 1 /\ Len(s) \in Nat \ {0}
      /\ \A i \in 1 .. Len(s) - 1 : Tail(s)[i] = s[i + 1]
      /\ Head(s) = s[1]
  BY HeadTailProperties, EmptySeq
<1> DEFINE t == Tail(s)
<1>2. DOMAIN s = 1 .. Len(s) /\ DOMAIN t = 1 .. Len(s) - 1
  BY <1>1
<1>3. ASSUME NEW i \in DOMAIN s, i # 1
      PROVE  i - 1 \in DOMAIN t /\ s[i] = t[i - 1]
  <2>1. i - 1 \in 1 .. Len(s) - 1 BY <1>1, <1>2, <1>3
  <2>2. t[i - 1] = s[(i - 1) + 1] BY <1>1, <2>1
  <2>3. QED BY <1>2, <2>1, <2>2
<1>4. \A i \in DOMAIN t : i + 1 \in DOMAIN s /\ t[i] = s[i + 1]
  BY <1>1, <1>2
<1>5. 1 \in DOMAIN s /\ s[1] = Head(s) BY <1>1, <1>2
<1> HIDE DEF t
<1>6. ToSet(s) = ToSet(t) \cup {Head(s)} BY <1>3, <1>4, <1>5 DEF ToSet
<1>7. QED BY <1>6 DEF t

\* What an emission submits is one of the pool's tasks.
LEMMA SlotTask ==
  ASSUME SignalTypeInv, place \in DOMAIN sinks
  PROVE  <<emission, sinks[place]>> \in Tasks
<1>1. place # 0 /\ sinks[place] \in Slots BY DEF SignalTypeInv
<1>2. emission \in 1 .. MaxEmissions
  BY <1>1, SignalAssumption DEF SignalTypeInv
<1>3. QED BY <1>1, <1>2, SignalAssumption

(***************************************************************************)
(* Every step of the signal is one of the pool, or leaves the pool alone.  *)
(***************************************************************************)
LEMMA SignalStepsPool == SignalTypeInv /\ [SignalNext]_vars => [PoolNext]_poolVars
<1> SUFFICES ASSUME SignalTypeInv, [SignalNext]_vars PROVE [PoolNext]_poolVars
  OBVIOUS
<1>1. CASE SubmitSlot
  BY <1>1, SlotTask DEF SubmitSlot, PoolNext
<1>2. CASE PoolStep
  BY <1>2 DEF PoolStep, PoolNext
<1>3. CASE UNCHANGED poolVars
  BY <1>3
<1>4. QED
  BY <1>1, <1>2, <1>3
     DEF SignalNext, Connect, Disconnect, DisconnectAll, Emit, EmissionEnds, vars

LEMMA SignalStepTypes ==
  ASSUME SignalTypeInv, [SignalNext]_vars
  PROVE  SignalTypeInv'
<1>1. ASSUME NEW s \in Slots, Connect(s) PROVE SignalTypeInv'
  BY <1>1, AppendProperties DEF Connect, SignalTypeInv
<1>2. ASSUME NEW i \in DOMAIN sinks, Disconnect(i) PROVE SignalTypeInv'
  BY <1>2, RemoveAtSeq DEF Disconnect, SignalTypeInv
<1>3. CASE DisconnectAll
  <2>1. <<>> \in Seq(Slots) BY EmptySeq
  <2>2. QED BY <1>3, <2>1 DEF DisconnectAll, SignalTypeInv
<1>4. CASE Emit
  BY <1>4, SignalAssumption DEF Emit, SignalTypeInv
<1>5. CASE SubmitSlot
  BY <1>5 DEF SubmitSlot, SignalTypeInv
<1>6. CASE EmissionEnds
  BY <1>6 DEF EmissionEnds, SignalTypeInv
<1>7. CASE UNCHANGED signalVars
  BY <1>7 DEF signalVars, SignalTypeInv
<1>8. QED
  BY <1>1, <1>2, <1>3, <1>4, <1>5, <1>6, <1>7 DEF SignalNext, PoolStep, vars

-----------------------------------------------------------------------------
\* A step of the pool that moves no task.
LEMMA NothingMoves ==
  ASSUME EachCallKept, UNCHANGED <<queue, hand, done, signalVars>>
  PROVE  EachCallKept'
BY DEF EachCallKept, ToCome, Running, signalVars

LEMMA PoolStepKeeps ==
  ASSUME SignalInv, PoolStep
  PROVE  IdleHoldsNothing' /\ EachCallKept'
<1>0. /\ pc \in [Workers -> Points] /\ hand \in [Workers -> SUBSET Tasks]
      /\ queue \in Seq(Tasks) /\ UNCHANGED signalVars
  BY DEF SignalInv, PoolTypeOK, PoolStep, Points
<1>00. IdleHoldsNothing /\ EachCallKept BY DEF SignalInv
<1>1. ASSUME NEW w \in Workers, Take(w) PROVE IdleHoldsNothing' /\ EachCallKept'
  <2>1. IdleHoldsNothing'
    BY <1>0, <1>00, <1>1 DEF Take, IdleHoldsNothing
  <2>2. hand[w] = {} BY <1>00, <1>1 DEF Take, IdleHoldsNothing
  <2>3. ToSet(queue) = ToSet(queue') \cup {Head(queue)}
    BY <1>0, <1>1, PoppedSet DEF Take
  <2>4. Running' = Running \cup {Head(queue)}
    BY <1>0, <1>1, <2>2 DEF Take, Running
  <2>5. ToCome' = ToCome /\ owed' = owed /\ done' = done
    BY <1>0, <1>1 DEF Take, ToCome, signalVars
  <2>6. ToSet(queue)' = ToSet(queue') BY DEF ToSet
  <2>7. QED BY <1>00, <2>1, <2>3, <2>4, <2>5, <2>6 DEF EachCallKept
<1>2. ASSUME NEW w \in Workers, Run(w) PROVE IdleHoldsNothing' /\ EachCallKept'
  <2>1. IdleHoldsNothing'
    BY <1>0, <1>00, <1>2 DEF Run, IdleHoldsNothing
  <2>2. Running' \cup done' = Running \cup done
    BY <1>0, <1>2 DEF Run, Running
  <2>3. ToCome' = ToCome /\ owed' = owed /\ ToSet(queue)' = ToSet(queue)
    BY <1>0, <1>2 DEF Run, ToCome, signalVars
  <2>4. QED BY <1>00, <2>1, <2>2, <2>3 DEF EachCallKept
<1>3. ASSUME NEW w \in Workers, Check(w) \/ Leave(w) \/ Sleep(w) \/ WakeSpuriously(w)
      PROVE  IdleHoldsNothing' /\ EachCallKept'
  <2>1. UNCHANGED <<queue, hand, done>> /\ pc[w] # "run"
    BY <1>3 DEF Check, Leave, Sleep, WakeSpuriously
  <2>2. \A v \in Workers : v # w => pc'[v] = pc[v]
    BY <1>0, <1>3 DEF Check, Leave, Sleep, WakeSpuriously
  <2>3. IdleHoldsNothing' BY <1>00, <2>1, <2>2 DEF IdleHoldsNothing
  <2>4. QED BY <1>0, <1>00, <2>1, <2>3, NothingMoves
<1>4. CASE SetStop \/ NotifyAll \/ Join
  <2>1. UNCHANGED <<queue, hand, done>>
    BY <1>4 DEF SetStop, NotifyAll, Join
  <2>2. \A v \in Workers : pc'[v] # "run" => pc[v] # "run"
    BY <1>0, <1>4 DEF SetStop, NotifyAll, Join
  <2>3. IdleHoldsNothing' BY <1>00, <2>1, <2>2 DEF IdleHoldsNothing
  <2>4. QED BY <1>0, <1>00, <2>1, <2>3, NothingMoves
<1>5. QED BY <1>1, <1>2, <1>3, <1>4 DEF PoolStep, Worker

LEMMA SubmitSlotKeeps ==
  ASSUME SignalInv, SubmitSlot
  PROVE  IdleHoldsNothing' /\ EachCallKept'
<1> DEFINE t == <<emission, sinks[place]>>
<1>0. /\ queue \in Seq(Tasks) /\ t \in Tasks
      /\ pc \in [Workers -> Points] /\ place \in DOMAIN sinks
      /\ sinks \in Seq(Slots) /\ place \in Nat /\ place # 0
      /\ IdleHoldsNothing /\ EachCallKept
  BY SlotTask DEF SignalInv, SignalTypeInv, PoolTypeOK, Points, SubmitSlot
<1>1. queue' = Append(queue, t) /\ UNCHANGED <<hand, done>> /\ NotifyOne
  BY DEF SubmitSlot, Submit
<1>2. \A v \in Workers : pc'[v] # "run" => pc[v] # "run"
  BY <1>0, <1>1 DEF NotifyOne, At
<1>3. IdleHoldsNothing' BY <1>0, <1>1, <1>2 DEF IdleHoldsNothing
<1>4. ToSet(queue') = ToSet(queue) \cup {t}
  BY <1>0, <1>1, AppendedSet
<1>5. ToCome = ToCome' \cup {t}
  <2>1. sinks' = sinks /\ emission' = emission /\ place' = place + 1 BY DEF SubmitSlot
  <2>2. {j \in DOMAIN sinks : place # 0 /\ j >= place}
          = {j \in DOMAIN sinks : place + 1 # 0 /\ j >= place + 1} \cup {place}
    BY <1>0
  <2>3. QED BY <2>1, <2>2 DEF ToCome
<1>6. owed' = owed /\ Running' = Running /\ ToSet(queue)' = ToSet(queue')
  BY <1>1 DEF SubmitSlot, Running, ToSet
<1> HIDE DEF t
<1>7. QED BY <1>0, <1>1, <1>3, <1>4, <1>5, <1>6 DEF EachCallKept

LEMMA SignalStepInv == SignalInv /\ [SignalNext]_vars => SignalInv'
<1> SUFFICES ASSUME SignalInv, [SignalNext]_vars PROVE SignalInv'
  OBVIOUS
<1>1. PoolTypeOK' BY SignalStepsPool, StepTypes DEF SignalInv
<1>2. SignalTypeInv' BY SignalStepTypes DEF SignalInv
<1>3. IdleHoldsNothing' /\ EachCallKept'
  <2>0. IdleHoldsNothing /\ EachCallKept /\ sinks \in Seq(Slots) /\ emission \in Nat
    BY SignalAssumption DEF SignalInv, SignalTypeInv
  <2>1. CASE PoolStep BY <2>1, PoolStepKeeps
  <2>2. CASE SubmitSlot BY <2>2, SubmitSlotKeeps
  <2>3. ASSUME UNCHANGED <<poolVars, emission, place, owed>>, place = 0
        PROVE  IdleHoldsNothing' /\ EachCallKept'
    BY <2>0, <2>3 DEF poolVars, IdleHoldsNothing, EachCallKept, ToCome, Running
  <2>4. CASE Emit
    <3>1. ToCome = {} BY <2>4 DEF Emit, SignalFree, ToCome
    <3>2. ToCome' = {<<emission + 1, s>> : s \in Connected}
      BY <2>0, <2>4 DEF Emit, ToCome, Connected, ToSet
    <3>3. QED
      BY <2>0, <2>4, <3>1, <3>2 DEF Emit, poolVars, IdleHoldsNothing, EachCallKept, Running
  <2>5. CASE EmissionEnds
    <3>1. ToCome = {} /\ ToCome' = {}
      BY <2>0, <2>5 DEF EmissionEnds, ToCome, SignalInv, SignalTypeInv
    <3>2. QED
      BY <2>0, <2>5, <3>1 DEF EmissionEnds, poolVars, IdleHoldsNothing, EachCallKept, Running
  <2>6. CASE UNCHANGED vars
    BY <2>0, <2>6
       DEF vars, poolVars, signalVars, IdleHoldsNothing, EachCallKept, ToCome, Running
  <2>7. QED
    BY <2>1, <2>2, <2>3, <2>4, <2>5, <2>6
       DEF SignalNext, Connect, Disconnect, DisconnectAll, SignalFree
<1>4. QED BY <1>1, <1>2, <1>3 DEF SignalInv

LEMMA SignalInitInv == SignalInit => SignalInv
<1> SUFFICES ASSUME SignalInit PROVE SignalInv
  OBVIOUS
<1>1. PoolTypeOK BY InitInv DEF SignalInit, PoolInv
<1>2. <<>> \in Seq(Slots) /\ DOMAIN <<>> = {} BY EmptySeq
<1>3. SignalTypeInv /\ IdleHoldsNothing
  BY <1>2, SignalAssumption DEF SignalInit, PoolInit, SignalTypeInv, IdleHoldsNothing
<1>4. ToCome = {} /\ ToSet(queue) = {} /\ Running = {} /\ done = {} /\ owed = {}
  BY <1>2 DEF SignalInit, PoolInit, ToCome, ToSet, Running
<1>5. QED BY <1>1, <1>3, <1>4 DEF SignalInv, EachCallKept

-----------------------------------------------------------------------------
(***************************************************************************)
(* The signal uses the pool as any caller may: what is proved of the pool  *)
(* holds of a pool that signals feed.                                      *)
(***************************************************************************)
THEOREM SignalFeedsPool == SignalSpec => PoolSpec
<1>1. SignalInit => PoolInit BY DEF SignalInit
<1>2. SignalInv /\ [SignalNext]_vars => [PoolNext]_poolVars
  BY SignalStepsPool DEF SignalInv
<1>3. QED
  BY <1>1, <1>2, SignalInitInv, SignalStepInv, PTL DEF SignalSpec, PoolSpec, vars

(***************************************************************************)
(* No call of a slot is lost on its way through the pool, and none is made *)
(* up, for any number of workers, slots and emissions.                     *)
(***************************************************************************)
THEOREM CallsAreKept == SignalSpec => []EachCallKept
<1>1. SignalInv => EachCallKept BY DEF SignalInv
<1>2. QED BY <1>1, SignalInitInv, SignalStepInv, PTL DEF SignalSpec, vars
-----------------------------------------------------------------------------
(***************************************************************************)
(* The board of CallBoard.                                                 *)
(***************************************************************************)
CallsIn == Nat \X Slots

\* What the pool runs are calls.
LEMMA TasksAreCalls == Tasks \subseteq CallsIn
BY SignalAssumption DEF CallsIn

\* The first element of a list that is given with it, and the others.
LEMMA HeadTailOfCons ==
  ASSUME NEW S, NEW x \in S, NEW list \in Seq(S)
  PROVE  /\ <<x>> \o list # <<>>
         /\ Head(<<x>> \o list) = x
         /\ Tail(<<x>> \o list) = list
OBVIOUS

\* The calls of a list, one for each of its slots, in its order.
LEMMA CallsOfList ==
  ASSUME NEW n \in Nat, NEW list \in Seq(Slots)
  PROVE  /\ CallsOf(n, list) \in Seq(CallsIn)
         /\ Len(CallsOf(n, list)) = Len(list)
         /\ \A i \in 1 .. Len(list) : CallsOf(n, list)[i] = <<n, list[i]>>
BY DEF CallsOf, CallsIn

\* The call of its first slot, and those of the others.
LEMMA CallsOfFirst ==
  ASSUME NEW n \in Nat, NEW x \in Slots, NEW list \in Seq(Slots)
  PROVE  CallsOf(n, <<x>> \o list) = <<<<n, x>>>> \o CallsOf(n, list)
<1> DEFINE c == <<<<n, x>>>>
           l == <<x>> \o list
           a == CallsOf(n, l)
           d == CallsOf(n, list)
           b == c \o d
<1>1. /\ <<x>> \in Seq(Slots) /\ Len(<<x>>) = 1 /\ <<x>>[1] = x
      /\ c \in Seq(CallsIn) /\ Len(c) = 1 /\ c[1] = <<n, x>>
      /\ Len(list) \in Nat
  BY DEF CallsIn
<1>2. /\ l \in Seq(Slots) /\ Len(l) = 1 + Len(list)
      /\ \A i \in 1 .. 1 + Len(list) : l[i] = IF i <= 1 THEN <<x>>[i] ELSE list[i - 1]
  BY <1>1, ConcatProperties
<1>3. /\ d \in Seq(CallsIn) /\ Len(d) = Len(list)
      /\ \A i \in 1 .. Len(list) : d[i] = <<n, list[i]>>
  BY CallsOfList
<1> HIDE DEF c, l
<1>4. /\ a \in Seq(CallsIn) /\ Len(a) = 1 + Len(list)
      /\ \A i \in 1 .. 1 + Len(list) : a[i] = <<n, l[i]>>
  BY <1>2, CallsOfList
<1> HIDE DEF d, a
<1>5. /\ b \in Seq(CallsIn) /\ Len(b) = 1 + Len(list)
      /\ \A i \in 1 .. 1 + Len(list) : b[i] = IF i <= 1 THEN c[i] ELSE d[i - 1]
  <2>1. /\ b \in Seq(CallsIn) /\ Len(b) = Len(c) + Len(d)
        /\ \A i \in 1 .. Len(c) + Len(d) :
             b[i] = IF i <= Len(c) THEN c[i] ELSE d[i - Len(c)]
    <3>1. c \in Seq(CallsIn) /\ d \in Seq(CallsIn) BY <1>1, <1>3
    <3>2. QED BY <3>1, ConcatProperties
  <2> HIDE DEF b
  <2>2. QED BY <1>1, <1>3, <2>1
<1> HIDE DEF b
<1>6. ASSUME NEW i \in 1 .. 1 + Len(list) PROVE a[i] = b[i]
  <2>1. CASE i = 1
    <3>1. 1 \in 1 .. 1 + Len(list) BY <1>1
    <3>2. l[1] = x /\ b[1] = c[1] BY <1>1, <1>2, <1>5, <3>1
    <3>3. QED BY <1>1, <1>4, <2>1, <3>1, <3>2
  <2>2. CASE i # 1
    <3>1. i - 1 \in 1 .. Len(list) /\ ~ (i <= 1)
      BY <1>1, <2>2
    <3>2. l[i] = list[i - 1] /\ b[i] = d[i - 1]
      BY <1>2, <1>5, <3>1
    <3>3. QED BY <1>3, <1>4, <3>1, <3>2
  <2>3. QED BY <2>1, <2>2
<1>7. a = b BY <1>4, <1>5, <1>6, SeqEqual
<1>8. QED BY <1>7 DEF a, b, c, d, l

\* What an emission submits next is the first of what it has to submit.
LEMMA SubmitsTheFirst ==
  ASSUME NEW n \in Nat, NEW list \in Seq(Slots), NEW p \in 1 .. Len(list)
  PROVE  CallsOf(n, SubSeq(list, p, Len(list)))
           = <<<<n, list[p]>>>> \o CallsOf(n, SubSeq(list, p + 1, Len(list)))
<1>1. Len(list) \in Nat /\ \A i \in 1 .. Len(list) : list[i] \in Slots
  OBVIOUS
<1>2. Len(list) \in p .. Len(list) BY <1>1
<1>3. SubSeq(list, p, Len(list)) = <<list[p]>> \o SubSeq(list, p + 1, Len(list))
  BY <1>2, SubSeqRecursiveFirst
<1>4. SubSeq(list, p + 1, Len(list)) \in Seq(Slots) /\ list[p] \in Slots
  BY <1>1, SubSeqProperties
<1>5. QED BY <1>3, <1>4, CallsOfFirst

\* A list without repetition is one of the lists that CallBoard allows.
LEMMA DistinctIsShort ==
  ASSUME NEW list \in Seq(Slots), IsInjective(list)
  PROVE  list \in Board!SlotLists
<1>1. Len(list) \in Nat /\ list \in Injection(1 .. Len(list), Slots)
  BY DEF Injection
<1>2. Cardinality(1 .. Len(list)) = Len(list)
  <2>1. Cardinality(1 .. Len(list)) = IF 1 > Len(list) THEN 0 ELSE Len(list) - 1 + 1
    BY <1>1, FS_Interval
  <2>2. QED BY <1>1, <2>1
<1>3. Len(list) <= Cardinality(Slots) /\ Cardinality(Slots) \in Nat
  BY <1>1, <1>2, FS_Injection, FS_CardinalityType, SignalAssumption
<1>4. Len(list) \in 0 .. Cardinality(Slots)
  BY <1>1, <1>3
<1>5. QED BY <1>1, <1>4
   DEF Board!SlotLists, Injection, Board!Injection, IsInjective, Board!IsInjective
\* The inductive invariant of the refinement.
Distinct == IsInjective(sinks)

BoardInv == SignalInv /\ Distinct

LEMMA AppendDistinct ==
  ASSUME NEW S, NEW list \in Seq(S), NEW x \in S, x \notin ToSet(list), IsInjective(list)
  PROVE  IsInjective(Append(list, x))
<1>1. /\ Len(list) \in Nat /\ Append(list, x) \in Seq(S)
      /\ Len(Append(list, x)) = Len(list) + 1
      /\ \A i \in 1 .. Len(list) : Append(list, x)[i] = list[i]
      /\ Append(list, x)[Len(list) + 1] = x
  BY AppendProperties
<1>2. \A i \in 1 .. Len(list) : list[i] # x
  BY DEF ToSet
<1> DEFINE a == Append(list, x)
<1>3. DOMAIN a = 1 .. Len(list) + 1 /\ DOMAIN list = 1 .. Len(list)
  BY <1>1
<1> HIDE DEF a
<1>4. \A i, j \in 1 .. Len(list) : list[i] = list[j] => i = j
  BY <1>3 DEF IsInjective
<1>5. \A i \in 1 .. Len(list) : a[i] = list[i] /\ a[i] # x
  BY <1>1, <1>2 DEF a
<1>6. a[Len(list) + 1] = x BY <1>1 DEF a
<1>7. ASSUME NEW i \in DOMAIN a, NEW j \in DOMAIN a, a[i] = a[j] PROVE i = j
  <2>1. i \in 1 .. Len(list) \/ i = Len(list) + 1 BY <1>1, <1>3
  <2>2. j \in 1 .. Len(list) \/ j = Len(list) + 1 BY <1>1, <1>3
  <2>3. QED BY <1>4, <1>5, <1>6, <1>7, <2>1, <2>2
<1>8. IsInjective(a) BY <1>7 DEF IsInjective
<1>9. QED BY <1>8 DEF a

LEMMA RemoveDistinct ==
  ASSUME NEW S, NEW list \in Seq(S), NEW i \in DOMAIN list, IsInjective(list)
  PROVE  IsInjective(RemoveAt(list, i))
<1> DEFINE a == SubSeq(list, 1, i - 1)
           b == SubSeq(list, i + 1, Len(list))
           r == RemoveAt(list, i)
           From(k) == IF k < i THEN k ELSE k + 1
<1>1. /\ Len(list) \in Nat /\ i \in 1 .. Len(list)
      /\ \A k \in 1 .. Len(list) : list[k] \in S
      /\ DOMAIN list = 1 .. Len(list)
  OBVIOUS
<1>2. /\ a \in Seq(S) /\ Len(a) = i - 1
      /\ \A k \in 1 .. i - 1 : a[k] = list[k]
  BY <1>1, SubSeqProperties
<1>3. /\ b \in Seq(S) /\ Len(b) = Len(list) - i
      /\ \A k \in 1 .. Len(list) - i : b[k] = list[i + k]
  BY <1>1, SubSeqProperties
<1>4. r = a \o b BY DEF RemoveAt
<1> HIDE DEF a, b, r
<1>5. /\ DOMAIN r = 1 .. Len(list) - 1
      /\ \A k \in 1 .. Len(list) - 1 : r[k] = IF k <= i - 1 THEN a[k] ELSE b[k - (i - 1)]
  <2>1. /\ r \in Seq(S) /\ Len(r) = Len(a) + Len(b)
        /\ \A k \in 1 .. Len(a) + Len(b) : r[k] = IF k <= Len(a) THEN a[k] ELSE b[k - Len(a)]
    BY <1>2, <1>3, <1>4, ConcatProperties
  <2>2. Len(a) + Len(b) = Len(list) - 1 BY <1>1, <1>2, <1>3
  <2>3. QED BY <1>2, <2>1, <2>2
<1>6. ASSUME NEW k \in DOMAIN r PROVE From(k) \in DOMAIN list /\ r[k] = list[From(k)]
  <2>1. CASE k < i
    BY <1>1, <1>2, <1>5, <2>1
  <2>2. CASE k >= i
    <3>1. k - (i - 1) \in 1 .. Len(list) - i /\ ~ (k <= i - 1) /\ ~ (k < i)
      BY <1>1, <1>5, <2>2
    <3>2. b[k - (i - 1)] = list[i + (k - (i - 1))] BY <1>3, <3>1
    <3>3. i + (k - (i - 1)) = k + 1 /\ k + 1 \in 1 .. Len(list) BY <1>1, <1>5, <3>1
    <3>4. QED BY <1>1, <1>5, <3>1, <3>2, <3>3
  <2>3. QED BY <1>1, <1>5, <2>1, <2>2
<1>7. ASSUME NEW k \in DOMAIN r, NEW l \in DOMAIN r, From(k) = From(l) PROVE k = l
  BY <1>1, <1>5, <1>7
<1> HIDE DEF From
<1>8. IsInjective(r) BY <1>6, <1>7 DEF IsInjective
<1>9. QED BY <1>8 DEF r

LEMMA BoardInitInv == SignalInit => BoardInv
BY SignalInitInv DEF BoardInv, Distinct, IsInjective, SignalInit

LEMMA BoardStepInv == BoardInv /\ [SignalNext]_vars => BoardInv'
<1> SUFFICES ASSUME BoardInv, [SignalNext]_vars PROVE Distinct'
  BY SignalStepInv DEF BoardInv
<1>0. sinks \in Seq(Slots) /\ Distinct BY DEF BoardInv, SignalInv, SignalTypeInv
<1>1. ASSUME NEW s \in Slots, Connect(s) PROVE Distinct'
  BY <1>0, <1>1, AppendDistinct DEF Connect, Connected, Distinct
<1>2. ASSUME NEW i \in DOMAIN sinks, Disconnect(i) PROVE Distinct'
  BY <1>0, <1>2, RemoveDistinct DEF Disconnect, Distinct
<1>3. CASE DisconnectAll
  BY <1>3 DEF DisconnectAll, Distinct, IsInjective
<1>4. CASE sinks' = sinks
  BY <1>0, <1>4 DEF Distinct
<1>5. QED
  BY <1>1, <1>2, <1>3, <1>4
  DEF SignalNext, Emit, SubmitSlot, EmissionEnds, PoolStep, vars, signalVars
-----------------------------------------------------------------------------
\* What is on the board are calls, and each step of the code is one of the board's.
LEMMA BoardTypes ==
  ASSUME SignalInv
  PROVE  /\ queue \in Seq(CallsIn)
         /\ ToSubmit \in Seq(CallsIn)
         /\ Waiting \in Seq(CallsIn)
<1>1. queue \in Seq(CallsIn)
  BY TasksAreCalls, SeqMonotonic DEF SignalInv, PoolTypeOK
<1>2. ToSubmit \in Seq(CallsIn)
  <2>1. CASE place = 0
    BY <2>1, EmptySeq DEF ToSubmit
  <2>2. CASE place # 0
    <3>1. /\ sinks \in Seq(Slots) /\ Len(sinks) \in Nat /\ place \in Nat \ {0}
          /\ emission \in Nat
          /\ \A i \in 1 .. Len(sinks) : sinks[i] \in Slots
      BY <2>2, SignalAssumption DEF SignalInv, SignalTypeInv
    <3>2. SubSeq(sinks, place, Len(sinks)) \in Seq(Slots)
      BY <3>1, SubSeqProperties
    <3>3. QED BY <2>2, <3>1, <3>2, CallsOfList DEF ToSubmit
  <2>3. QED BY <2>1, <2>2
<1>3. QED BY <1>1, <1>2, ConcatProperties DEF Waiting

\* The board does not change.
BoardSame ==
  /\ emission' = emission /\ owed' = owed /\ Waiting' = Waiting /\ hand' = hand
  /\ done' = done /\ Phase' = Phase /\ Willing' = Willing

LEMMA SameIsStutter == BoardSame => [Board!BoardNext]_(Board!boardVars)
BY DEF BoardSame, Board!boardVars

LEMMA EmitPosts == BoardInv /\ Emit => Board!Post
<1> SUFFICES ASSUME BoardInv, Emit PROVE Board!Post
  OBVIOUS
<1>0. /\ sinks \in Seq(Slots) /\ emission \in Nat /\ Distinct
      /\ place = 0 /\ place' = 1 /\ sinks' = sinks /\ emission' = emission + 1
      /\ UNCHANGED poolVars /\ queue \in Seq(CallsIn)
  BY BoardTypes, SignalAssumption
     DEF BoardInv, SignalInv, SignalTypeInv, Emit, SignalFree
<1>1. sinks \in Board!SlotLists
  BY <1>0, DistinctIsShort DEF Distinct
<1>2. Waiting = queue
  <2>1. ToSubmit = <<>> BY <1>0 DEF ToSubmit
  <2>2. QED BY <1>0, <2>1, ConcatEmptySeq DEF Waiting
<1>3. Waiting' = queue \o Board!CallsOf(emission + 1, sinks)
  <2>1. ToSubmit' = CallsOf(emission + 1, SubSeq(sinks, 1, Len(sinks)))
    BY <1>0 DEF ToSubmit, CallsOf
  <2>2. ToSubmit' = Board!CallsOf(emission + 1, sinks)
    BY <1>0, <2>1, SubSeqFull DEF CallsOf, Board!CallsOf
  <2>3. queue' = queue BY <1>0 DEF poolVars
  <2>4. QED BY <2>2, <2>3 DEF Waiting
<1>4. owed' = owed \cup {<<emission + 1, s>> : s \in Board!ToSet(sinks)}
  BY DEF Emit, Connected, ToSet, Board!ToSet
<1>5. UNCHANGED <<hand, done, Phase, Willing>>
  BY <1>0 DEF poolVars, Phase, Willing, At
<1>6. QED BY <1>0, <1>1, <1>2, <1>3, <1>4, <1>5 DEF Board!Post

LEMMA SubmitIsSilent == BoardInv /\ SubmitSlot => BoardSame
<1> SUFFICES ASSUME BoardInv, SubmitSlot PROVE BoardSame
  OBVIOUS
<1> DEFINE t == <<emission, sinks[place]>>
           rest == CallsOf(emission, SubSeq(sinks, place + 1, Len(sinks)))
<1>0. /\ sinks \in Seq(Slots) /\ emission \in Nat /\ place \in 1 .. Len(sinks)
      /\ Len(sinks) \in Nat
      /\ place' = place + 1 /\ UNCHANGED <<sinks, emission, owed>>
      /\ queue' = Append(queue, t) /\ UNCHANGED <<hand, done, stop, caller>>
      /\ NotifyOne /\ pc \in [Workers -> Points]
  BY SignalAssumption
     DEF BoardInv, SignalInv, SignalTypeInv, PoolTypeOK, Points, SubmitSlot, Submit
<1>1. t \in CallsIn /\ queue \in Seq(CallsIn)
  BY <1>0, BoardTypes DEF CallsIn, BoardInv
<1>2. ToSubmit = <<t>> \o rest
  <2>1. place # 0 BY <1>0
  <2>2. QED BY <1>0, <2>1, SubmitsTheFirst DEF ToSubmit
<1>3. ToSubmit' = rest
  <2>1. place + 1 # 0 BY <1>0
  <2>2. QED BY <1>0, <2>1 DEF ToSubmit, CallsOf
<1>4. rest \in Seq(CallsIn)
  <2>1. \A i \in place + 1 .. Len(sinks) : sinks[i] \in Slots BY <1>0
  <2>2. SubSeq(sinks, place + 1, Len(sinks)) \in Seq(Slots)
    BY <1>0, <2>1, SubSeqProperties
  <2>3. QED BY <1>0, <2>2, CallsOfList
<1> HIDE DEF t, rest
<1>5. Waiting' = Waiting
  <2>1. <<t>> \in Seq(CallsIn) BY <1>1
  <2>2. Append(queue, t) = queue \o <<t>> BY <1>1, AppendIsConcat
  <2>3. (queue \o <<t>>) \o rest = queue \o (<<t>> \o rest)
    BY <1>1, <1>4, <2>1, ConcatAssociative
  <2>4. QED BY <1>0, <1>2, <1>3, <2>2, <2>3 DEF Waiting
<1>6. Willing' = Willing
  BY <1>0 DEF Willing, NotifyOne, At
<1>7. QED BY <1>0, <1>5, <1>6 DEF BoardSame, Phase
\* What an emission has to submit is nothing when it ends, and when none runs.
LEMMA EndIsSilent == BoardInv /\ EmissionEnds => BoardSame
<1> SUFFICES ASSUME BoardInv, EmissionEnds PROVE BoardSame
  OBVIOUS
<1>1. /\ sinks \in Seq(Slots) /\ Len(sinks) \in Nat /\ place \in Nat
      /\ place > Len(sinks) /\ place' = 0
      /\ UNCHANGED <<poolVars, sinks, emission, owed>>
  BY DEF BoardInv, SignalInv, SignalTypeInv, EmissionEnds
<1>2. ToSubmit = <<>>
  <2>1. SubSeq(sinks, place, Len(sinks)) = <<>> BY <1>1, SubSeqEmpty
  <2>2. CallsOf(emission, <<>>) = <<>> BY DEF CallsOf
  <2>3. QED BY <2>1, <2>2 DEF ToSubmit
<1>3. ToSubmit' = <<>> BY <1>1 DEF ToSubmit
<1>4. QED BY <1>1, <1>2, <1>3 DEF BoardSame, Waiting, Phase, Willing, At, poolVars

LEMMA ListIsSilent == UNCHANGED <<poolVars, emission, place, owed>> /\ place = 0 => BoardSame
BY DEF BoardSame, Waiting, ToSubmit, Phase, Willing, At, poolVars

LEMMA PoolStepMoves ==
  ASSUME BoardInv, PoolStep
  PROVE  [Board!BoardNext]_(Board!boardVars)
<1>0. /\ pc \in [Workers -> Points] /\ hand \in [Workers -> SUBSET Tasks]
      /\ queue \in Seq(Tasks) /\ UNCHANGED signalVars
      /\ stop \in BOOLEAN /\ (stop <=> caller # "away")
      /\ caller \in {"away", "notify", "join", "joined"}
      /\ IdleHoldsNothing
      /\ queue \in Seq(CallsIn) /\ ToSubmit \in Seq(CallsIn)
  BY BoardTypes DEF BoardInv, SignalInv, PoolTypeOK, PoolStep, Points
<1>00. /\ ToSubmit' = ToSubmit /\ emission' = emission /\ owed' = owed
  BY <1>0 DEF ToSubmit, signalVars, CallsOf
<1>1. ASSUME queue' = queue, hand' = hand, done' = done, Phase' = Phase, Willing' = Willing
      PROVE  BoardSame
  BY <1>00, <1>1 DEF BoardSame, Waiting
<1>2. ASSUME NEW w \in Workers, Check(w) PROVE BoardSame
  <2>1. Willing' = Willing
    BY <1>0, <1>2 DEF Check, Willing, At
  <2>2. QED BY <1>1, <1>2, <2>1 DEF Check, Phase
<1>3. ASSUME NEW w \in Workers, Take(w) PROVE Board!Begin(w)
  <2>1. queue # <<>> /\ queue' = Tail(queue) BY <1>3 DEF Take
  <2>2. /\ Waiting # <<>> /\ Head(Waiting) = Head(queue)
        /\ Tail(Waiting) = Tail(queue) \o ToSubmit
    <3>1. queue = <<Head(queue)>> \o Tail(queue) /\ Head(queue) \in CallsIn
          /\ Tail(queue) \in Seq(CallsIn)
      BY <1>0, <2>1
    <3>2. Waiting = <<Head(queue)>> \o (Tail(queue) \o ToSubmit)
      <4>1. <<Head(queue)>> \in Seq(CallsIn) BY <3>1
      <4>2. (<<Head(queue)>> \o Tail(queue)) \o ToSubmit
              = <<Head(queue)>> \o (Tail(queue) \o ToSubmit)
        BY <1>0, <3>1, <4>1, ConcatAssociative
      <4>3. QED BY <3>1, <4>2 DEF Waiting
    <3>3. Tail(queue) \o ToSubmit \in Seq(CallsIn)
      BY <1>0, <3>1, ConcatProperties
    <3>4. QED BY <3>1, <3>2, <3>3, HeadTailOfCons
  <2>3. Waiting' = Tail(Waiting) BY <1>00, <2>1, <2>2 DEF Waiting
  <2>4. w \in Willing /\ hand[w] = {}
    BY <1>0, <1>3 DEF Take, Willing, At, IdleHoldsNothing
  <2>5. Willing' = IF Phase = "open" THEN Willing ELSE Willing \ {w}
    BY <1>0, <1>3 DEF Take, Willing, At, Phase
  <2>6. QED
    BY <1>3, <1>00, <2>2, <2>3, <2>4, <2>5 DEF Take, Board!Begin, Phase
<1>4. ASSUME NEW w \in Workers, Leave(w) PROVE BoardSame \/ Board!GiveUp
  <2>1. CASE ~ stop
    <3>1. Willing' = Willing BY <1>4, <2>1 DEF Leave, Willing
    <3>2. QED BY <1>1, <1>4, <3>1 DEF Leave, Phase
  <2>2. CASE stop
    <3>1. Willing' \subseteq Willing
      BY <1>0, <1>4, <2>2 DEF Leave, Willing, At
    <3>2. Phase # "open" /\ Phase' = Phase BY <1>4, <2>2 DEF Leave, Phase
    <3>3. QED BY <1>00, <1>4, <3>1, <3>2 DEF Leave, Waiting, Board!GiveUp
  <2>3. QED BY <2>1, <2>2
<1>5. ASSUME NEW w \in Workers, Sleep(w) \/ WakeSpuriously(w) PROVE BoardSame
  <2>1. Willing' = Willing
    <3>1. CASE Sleep(w) BY <1>0, <3>1 DEF Sleep, Willing, At
    <3>2. CASE WakeSpuriously(w) BY <1>0, <3>2 DEF WakeSpuriously, Willing, At
    <3>3. QED BY <1>5, <3>1, <3>2
  <2>2. QED BY <1>1, <1>5, <2>1 DEF Sleep, WakeSpuriously, Phase
<1>6. ASSUME NEW w \in Workers, Run(w) PROVE BoardSame \/ Board!Finish(w)
  <2>1. Willing' = Willing /\ Phase' = Phase
    BY <1>0, <1>6 DEF Run, Willing, At, Phase
  <2>2. CASE hand[w] = {}
    <3>1. hand' = hand /\ done' = done BY <1>0, <1>6, <2>2 DEF Run
    <3>2. QED BY <1>1, <1>6, <2>1, <3>1 DEF Run
  <2>3. CASE hand[w] # {}
    BY <1>00, <1>6, <2>1, <2>3 DEF Run, Waiting, Board!Finish
  <2>4. QED BY <2>2, <2>3
<1>7. ASSUME SetStop PROVE Board!StartClosing
  <2>1. Phase = "open" /\ Phase' = "closing" /\ Willing' \subseteq Willing
    BY <1>0, <1>7 DEF SetStop, Phase, Willing, At
  <2>2. QED BY <1>00, <1>7, <2>1 DEF SetStop, Waiting, Board!StartClosing
<1>8. ASSUME NotifyAll PROVE BoardSame
  <2>1. Willing' = Willing /\ Phase' = Phase
    BY <1>0, <1>8 DEF NotifyAll, Willing, At, Phase
  <2>2. QED BY <1>1, <1>8, <2>1 DEF NotifyAll
<1>9. ASSUME Join PROVE Board!Close
  <2>1. /\ Phase = "closing" /\ Phase' = "closed"
        /\ Willing = {} /\ Willing' = {}
    BY <1>0, <1>9 DEF Join, Phase, Willing, At
  <2>2. \A w \in Workers : hand[w] = {}
    BY <1>0, <1>9 DEF Join, At, IdleHoldsNothing
  <2>3. QED BY <1>00, <1>9, <2>1, <2>2 DEF Join, Waiting, Board!Close
<1>10. QED
  BY <1>2, <1>3, <1>4, <1>5, <1>6, <1>7, <1>8, <1>9, SameIsStutter
     DEF PoolStep, Worker, Board!BoardNext

LEMMA BoardStep == BoardInv /\ [SignalNext]_vars => [Board!BoardNext]_(Board!boardVars)
<1> SUFFICES ASSUME BoardInv, [SignalNext]_vars PROVE [Board!BoardNext]_(Board!boardVars)
  OBVIOUS
<1>1. CASE Emit BY <1>1, EmitPosts DEF Board!BoardNext
<1>2. CASE SubmitSlot BY <1>2, SubmitIsSilent, SameIsStutter
<1>3. CASE EmissionEnds BY <1>3, EndIsSilent, SameIsStutter
<1>4. CASE PoolStep BY <1>4, PoolStepMoves
<1>5. CASE UNCHANGED <<poolVars, emission, place, owed>> /\ place = 0
  BY <1>5, ListIsSilent, SameIsStutter
<1>6. CASE UNCHANGED vars
  <2>1. BoardSame
    BY <1>6 DEF vars, poolVars, signalVars, BoardSame, Waiting, ToSubmit, CallsOf, Phase,
                Willing, At
  <2>2. QED BY <2>1, SameIsStutter
<1>7. QED
  BY <1>1, <1>2, <1>3, <1>4, <1>5, <1>6
     DEF SignalNext, Connect, Disconnect, DisconnectAll, SignalFree

LEMMA BoardStart == SignalInit => Board!BoardInit
<1> SUFFICES ASSUME SignalInit PROVE Board!BoardInit
  OBVIOUS
<1>1. Waiting = <<>>
  <2>1. <<>> \in Seq(CallsIn) BY EmptySeq
  <2>2. <<>> \o <<>> = <<>> BY <2>1, ConcatEmptySeq
  <2>3. QED BY <2>2 DEF SignalInit, PoolInit, Waiting, ToSubmit
<1>2. QED BY <1>1 DEF SignalInit, PoolInit, Phase, Willing, Board!BoardInit

(***************************************************************************)
(* The signal on its pool implements CallBoard, for any workers, slots and *)
(* emissions: calls begin in order and once each, a pool being shut down   *)
(* takes one more task per worker at most, and shutdown returns when       *)
(* nothing runs.                                                           *)
(***************************************************************************)
THEOREM SignalImplementsBoard == SignalSpec => ImplementsCallBoard
  BY BoardStart, BoardStep, BoardInitInv, BoardStepInv, PTL
     DEF SignalSpec, ImplementsCallBoard, Board!BoardSpec, vars
-----------------------------------------------------------------------------
\* What the board promises of each call, from its own steps.
LEMMA ConcatDistinct ==
  ASSUME NEW S, NEW s \in Seq(S), NEW t \in Seq(S),
         IsInjective(s), IsInjective(t), ToSet(s) \cap ToSet(t) = {}
  PROVE  /\ IsInjective(s \o t)
         /\ ToSet(s \o t) = ToSet(s) \cup ToSet(t)
<1> DEFINE m == Len(s)
           n == Len(t)
           c == s \o t
<1>1. /\ m \in Nat /\ n \in Nat
      /\ DOMAIN s = 1 .. m /\ DOMAIN t = 1 .. n
  OBVIOUS
<1>2. /\ DOMAIN c = 1 .. m + n
      /\ \A i \in 1 .. m + n : c[i] = IF i <= m THEN s[i] ELSE t[i - m]
  <2>1. /\ c \in Seq(S) /\ Len(c) = m + n
        /\ \A i \in 1 .. m + n : c[i] = IF i <= m THEN s[i] ELSE t[i - m]
    BY ConcatProperties
  <2> HIDE DEF c
  <2>2. QED BY <2>1
<1> HIDE DEF m, n, c
<1>3. \A i \in 1 .. m : i \in DOMAIN c /\ c[i] = s[i]
  BY <1>1, <1>2
<1>4. ASSUME NEW j \in 1 .. n PROVE m + j \in DOMAIN c /\ c[m + j] = t[j]
  <2>1. m + j \in 1 .. m + n /\ ~ (m + j <= m) /\ (m + j) - m = j BY <1>1
  <2>2. c[m + j] = t[(m + j) - m] BY <1>2, <2>1
  <2>3. QED BY <1>2, <2>1, <2>2
<1>5. \A i \in DOMAIN c : i \in 1 .. m \/ \E j \in 1 .. n : i = m + j
  <2> SUFFICES ASSUME NEW i \in DOMAIN c, i \notin 1 .. m PROVE \E j \in 1 .. n : i = m + j
    OBVIOUS
  <2>1. i - m \in 1 .. n /\ i = m + (i - m) BY <1>1, <1>2
  <2>2. QED BY <2>1
<1>6. ToSet(c) = ToSet(s) \cup ToSet(t)
  <2>1. ASSUME NEW i \in DOMAIN c PROVE c[i] \in ToSet(s) \cup ToSet(t)
    <3>1. CASE i \in 1 .. m BY <1>1, <1>3, <3>1 DEF ToSet
    <3>2. CASE i \notin 1 .. m
      <4>1. PICK j \in 1 .. n : i = m + j BY <1>5, <3>2
      <4>2. c[i] = t[j] BY <1>4, <4>1
      <4>3. QED BY <1>1, <4>2 DEF ToSet
    <3>3. QED BY <3>1, <3>2
  <2>2. ToSet(c) \subseteq ToSet(s) \cup ToSet(t) BY <2>1 DEF ToSet
  <2>3. ToSet(s) \subseteq ToSet(c) BY <1>1, <1>3 DEF ToSet
  <2>4. ASSUME NEW j \in DOMAIN t PROVE t[j] \in ToSet(c)
    BY <1>1, <1>4 DEF ToSet
  <2>5. ToSet(t) \subseteq ToSet(c) BY <2>4 DEF ToSet
  <2>6. QED BY <2>2, <2>3, <2>5
<1>7. \A i \in 1 .. m, j \in 1 .. n : s[i] # t[j]
  BY <1>1 DEF ToSet
<1>8. \A i, j \in 1 .. m : s[i] = s[j] => i = j
  BY <1>1 DEF IsInjective
<1>9. \A i, j \in 1 .. n : t[i] = t[j] => i = j
  BY <1>1 DEF IsInjective
<1>10. ASSUME NEW i \in DOMAIN c, NEW j \in DOMAIN c, c[i] = c[j] PROVE i = j
  <2>1. CASE i \in 1 .. m /\ j \in 1 .. m BY <1>3, <1>8, <1>10, <2>1
  <2>2. CASE i \in 1 .. m /\ j \notin 1 .. m BY <1>3, <1>4, <1>5, <1>7, <1>10, <2>2
  <2>3. CASE i \notin 1 .. m /\ j \in 1 .. m BY <1>3, <1>4, <1>5, <1>7, <1>10, <2>3
  <2>4. CASE i \notin 1 .. m /\ j \notin 1 .. m
    <3>1. PICK k \in 1 .. n : i = m + k BY <1>5, <2>4
    <3>2. PICK l \in 1 .. n : j = m + l BY <1>5, <2>4
    <3>3. QED BY <1>4, <1>9, <1>10, <3>1, <3>2
  <2>5. QED BY <2>1, <2>2, <2>3, <2>4
<1>11. IsInjective(c) BY <1>10 DEF IsInjective
<1>12. QED BY <1>6, <1>11 DEF c

LEMMA TailDistinct ==
  ASSUME NEW S, NEW s \in Seq(S), s # <<>>, IsInjective(s)
  PROVE  /\ IsInjective(Tail(s))
         /\ Head(s) \notin ToSet(Tail(s))
         /\ ToSet(s) = ToSet(Tail(s)) \cup {Head(s)}
<1> DEFINE t == Tail(s)
<1>1. /\ t \in Seq(S) /\ Len(t) = Len(s) - 1 /\ Len(s) \in Nat \ {0}
      /\ \A i \in 1 .. Len(s) - 1 : t[i] = s[i + 1]
      /\ Head(s) = s[1]
  BY HeadTailProperties, EmptySeq
<1> HIDE DEF t
<1>2. DOMAIN s = 1 .. Len(s) /\ DOMAIN t = 1 .. Len(s) - 1
  BY <1>1
<1>3. \A i \in DOMAIN t : i + 1 \in DOMAIN s /\ i + 1 # 1 /\ t[i] = s[i + 1]
  BY <1>1, <1>2
<1>4. ASSUME NEW i \in DOMAIN t, NEW j \in DOMAIN t, t[i] = t[j] PROVE i = j
  <2>1. i + 1 = j + 1 BY <1>3, <1>4 DEF IsInjective
  <2>2. QED BY <1>1, <1>2, <2>1
<1>5. 1 \in DOMAIN s BY <1>1, <1>2
<1>6. Head(s) \notin ToSet(t)
  BY <1>1, <1>3, <1>5 DEF ToSet, IsInjective
<1>7. IsInjective(t) BY <1>4 DEF IsInjective
<1>8. QED BY <1>6, <1>7, PoppedSet DEF t

\* Every call known to the board is of an emission that there was.
Posted(calls) == calls \subseteq {c \in CallsIn : c[1] <= emission}

OnceInv ==
  /\ Posted(ToSet(Waiting)) /\ Posted(done)
  /\ \A w \in Workers : Posted(hand[w])
  /\ Board!EachCallOnce
  /\ Board!ClosedIsQuiet

LEMMA OnceInit == SignalInit => OnceInv
<1> SUFFICES ASSUME SignalInit PROVE OnceInv
  OBVIOUS
<1>1. Waiting = <<>> /\ hand = [w \in Workers |-> {}] /\ done = {} /\ Phase = "open"
  BY BoardStart DEF Board!BoardInit
<1>2. DOMAIN <<>> = {} OBVIOUS
<1>3. QED
  BY <1>1, <1>2 DEF OnceInv, Posted, ToSet, Board!EachCallOnce, Board!ClosedIsQuiet,
     Board!IsInjective, Board!ToSet

LEMMA OnceStep ==
  ASSUME BoardInv, Waiting' \in Seq(CallsIn), OnceInv, [Board!BoardNext]_(Board!boardVars)
  PROVE  OnceInv'
<1>0. /\ Waiting \in Seq(CallsIn) /\ emission \in Nat
      /\ hand \in [Workers -> SUBSET Tasks] /\ Phase \in {"open", "closing", "closed"}
  BY BoardTypes, SignalAssumption DEF BoardInv, SignalInv, SignalTypeInv, PoolTypeOK, Phase
<1>1. /\ \A c \in ToSet(Waiting) \cup done : c \in CallsIn /\ c[1] <= emission
      /\ \A w \in Workers : \A c \in hand[w] : c \in CallsIn /\ c[1] <= emission
      /\ IsInjective(Waiting) /\ ToSet(Waiting) \cap done = {}
      /\ \A w \in Workers : hand[w] \cap (ToSet(Waiting) \cup done) = {}
      /\ \A v, w \in Workers : v # w => hand[v] \cap hand[w] = {}
      /\ Phase = "closed" => Willing = {} /\ \A w \in Workers : hand[w] = {}
  BY DEF OnceInv, Posted, Board!EachCallOnce, Board!ClosedIsQuiet, Board!IsInjective,
     Board!ToSet, IsInjective, ToSet
<1>2. ASSUME /\ \A c \in ToSet(Waiting') \cup done' : c \in CallsIn /\ c[1] <= emission'
             /\ \A w \in Workers : \A c \in hand'[w] : c \in CallsIn /\ c[1] <= emission'
             /\ IsInjective(Waiting') /\ ToSet(Waiting') \cap done' = {}
             /\ \A w \in Workers : hand'[w] \cap (ToSet(Waiting') \cup done') = {}
             /\ \A v, w \in Workers : v # w => hand'[v] \cap hand'[w] = {}
             /\ Phase' = "closed" => Willing' = {} /\ \A w \in Workers : hand'[w] = {}
      PROVE  OnceInv'
  BY <1>2 DEF OnceInv, Posted, Board!EachCallOnce, Board!ClosedIsQuiet, Board!IsInjective,
     Board!ToSet, IsInjective, ToSet
<1>3. CASE Board!Post
  <2>1. PICK list \in Board!SlotLists :
          /\ emission' = emission + 1
          /\ Waiting' = Waiting \o Board!CallsOf(emission + 1, list)
          /\ UNCHANGED <<hand, done, Phase, Willing>>
    BY <1>3 DEF Board!Post
  <2> DEFINE new == CallsOf(emission + 1, list)
  <2>2. list \in Seq(Slots) /\ IsInjective(list)
    BY FS_CardinalityType, SignalAssumption
       DEF Board!SlotLists, Board!Injection, Board!IsInjective, IsInjective
  <2>3. /\ new \in Seq(CallsIn) /\ Len(new) = Len(list)
        /\ \A i \in 1 .. Len(list) : new[i] = <<emission + 1, list[i]>>
    BY <1>0, <2>2, CallsOfList
  <2>4. Waiting' = Waiting \o new
    BY <2>1 DEF CallsOf, Board!CallsOf
  <2> HIDE DEF new
  <2>5. DOMAIN new = 1 .. Len(list) /\ DOMAIN list = 1 .. Len(list)
    BY <2>2, <2>3
  <2>6. /\ IsInjective(new)
        /\ \A c \in ToSet(new) : c \in CallsIn /\ c[1] = emission + 1
    BY <2>2, <2>3, <2>5 DEF IsInjective, ToSet
  <2>7. \A c \in ToSet(new) : ~ (c[1] <= emission)
    BY <1>0, <2>6
  <2>8. ToSet(Waiting) \cap ToSet(new) = {}
    BY <1>1, <2>7
  <2>9. IsInjective(Waiting') /\ ToSet(Waiting') = ToSet(Waiting) \cup ToSet(new)
    BY <1>0, <1>1, <2>3, <2>4, <2>6, <2>8, ConcatDistinct
  <2>10. \A c \in CallsIn : c[1] \in Nat BY DEF CallsIn
  <2>11. \A c \in CallsIn : c[1] <= emission \/ c[1] = emission + 1 => c[1] <= emission'
    BY <1>0, <2>1, <2>10
  <2>12. QED BY <1>1, <1>2, <2>1, <2>6, <2>7, <2>9, <2>11
<1>4. ASSUME NEW w \in Workers, Board!Begin(w) PROVE OnceInv'
  <2>1. /\ Waiting # <<>> /\ hand[w] = {} /\ w \in Willing
        /\ Waiting' = Tail(Waiting) /\ hand' = [hand EXCEPT ![w] = {Head(Waiting)}]
        /\ emission' = emission /\ done' = done /\ Phase' = Phase
    BY <1>4 DEF Board!Begin
  <2>2. /\ IsInjective(Waiting') /\ Head(Waiting) \notin ToSet(Waiting')
        /\ ToSet(Waiting) = ToSet(Waiting') \cup {Head(Waiting)}
    BY <1>0, <1>1, <2>1, TailDistinct
  <2>3. Phase # "closed" BY <1>1, <2>1
  <2>4. /\ hand'[w] = {Head(Waiting)}
        /\ \A v \in Workers : v # w => hand'[v] = hand[v]
    BY <1>0, <2>1
  <2>5. QED BY <1>1, <1>2, <2>1, <2>2, <2>3, <2>4
<1>5. ASSUME NEW w \in Workers, Board!Finish(w) PROVE OnceInv'
  <2>1. /\ hand[w] # {} /\ hand'[w] = {} /\ done' = done \cup hand[w]
        /\ \A v \in Workers : v # w => hand'[v] = hand[v]
        /\ Waiting' = Waiting /\ emission' = emission /\ Phase' = Phase
    BY <1>0, <1>5 DEF Board!Finish
  <2>2. QED BY <1>1, <1>2, <2>1
<1>6. CASE Board!StartClosing
  <2>1. UNCHANGED <<Waiting, hand, done, emission>> /\ Phase' = "closing"
    BY <1>6 DEF Board!StartClosing
  <2>2. QED BY <1>1, <1>2, <2>1
<1>7. CASE Board!GiveUp
  <2>1. UNCHANGED <<Waiting, hand, done, emission, Phase>> /\ Willing' \subseteq Willing
    BY <1>7 DEF Board!GiveUp
  <2>2. QED BY <1>1, <1>2, <2>1
<1>8. CASE Board!Close
  <2>1. /\ UNCHANGED <<Waiting, hand, done, emission>> /\ Willing' = {}
        /\ \A w \in Workers : hand[w] = {}
    BY <1>8 DEF Board!Close
  <2>2. QED BY <1>1, <1>2, <2>1
<1>9. CASE UNCHANGED Board!boardVars
  <2>1. UNCHANGED <<Waiting, hand, done, emission, Phase, Willing>>
    BY <1>9 DEF Board!boardVars
  <2>2. QED BY <1>1, <1>2, <2>1
<1>10. QED
  BY <1>3, <1>4, <1>5, <1>6, <1>7, <1>8, <1>9 DEF Board!BoardNext

(***************************************************************************)
(* No call of a slot is begun twice or by two workers, and once shutdown   *)
(* has returned no slot runs or will: what a slot refers to may then go.   *)
(***************************************************************************)
THEOREM CallsRunOnce == SignalSpec => [](Board!EachCallOnce /\ Board!ClosedIsQuiet)
<1> DEFINE Typed == Waiting \in Seq(CallsIn)
<1>1. OnceInv => Board!EachCallOnce /\ Board!ClosedIsQuiet
  BY DEF OnceInv
<1>2. BoardInv => Typed
  BY BoardTypes DEF BoardInv
<1>3. BoardInv /\ Typed' /\ OnceInv /\ [SignalNext]_vars => OnceInv'
  BY BoardStep, OnceStep
<1> HIDE DEF Typed
<1>4. QED
  BY <1>1, <1>2, <1>3, OnceInit, BoardInitInv, BoardStepInv, PTL DEF SignalSpec, vars
=============================================================================
