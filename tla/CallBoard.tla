------------------------------ MODULE CallBoard ------------------------------
(***************************************************************************)
(* What an asynchronous signal promises to its slots: an emission posts    *)
(* one call for each of them, in their order; threads begin the calls in   *)
(* the order of the board, one at a time each, and every call once.  After *)
(* the board begins to close, a thread begins at most one more call, and   *)
(* when it is closed none runs and none will.                              *)
(***************************************************************************)
EXTENDS Naturals, SequencesExt

CONSTANTS
  Threads,
  Slots,
  MaxSlots  \* how many slots a signal may have

VARIABLES
  emitted,   \* how many emissions there were
  owed,      \* the calls they posted
  waiting,   \* those that did not begin, in order
  running,   \* of each thread: the call it runs, if any
  finished,  \* those that ended
  phase,     \* "open", "closing" or "closed"
  willing    \* the threads that may yet begin a call

boardVars == <<emitted, owed, waiting, running, finished, phase, willing>>

\* A call is an emission and a slot.
CallsOf(n, list) == [i \in DOMAIN list |-> <<n, list[i]>>]

SlotLists == UNION {Injection(1 .. n, Slots) : n \in 0 .. MaxSlots}

BoardInit ==
  /\ emitted = 0
  /\ owed = {} /\ waiting = <<>> /\ finished = {}
  /\ running = [t \in Threads |-> {}]
  /\ phase = "open"
  /\ willing = Threads

Post ==
  /\ emitted' = emitted + 1
  /\ \E list \in SlotLists :
       /\ waiting' = waiting \o CallsOf(emitted + 1, list)
       /\ owed' = owed \cup {<<emitted + 1, s>> : s \in ToSet(list)}
  /\ UNCHANGED <<running, finished, phase, willing>>

Begin(t) ==
  /\ waiting # <<>>
  /\ t \in willing /\ running[t] = {}
  /\ waiting' = Tail(waiting)
  /\ running' = [running EXCEPT ![t] = {Head(waiting)}]
  /\ willing' = IF phase = "open" THEN willing ELSE willing \ {t}
  /\ UNCHANGED <<emitted, owed, finished, phase>>

Finish(t) ==
  /\ running[t] # {}
  /\ running' = [running EXCEPT ![t] = {}]
  /\ finished' = finished \cup running[t]
  /\ UNCHANGED <<emitted, owed, waiting, phase, willing>>

StartClosing ==
  /\ phase = "open"
  /\ phase' = "closing"
  /\ willing' \subseteq willing
  /\ UNCHANGED <<emitted, owed, waiting, running, finished>>

GiveUp ==
  /\ phase # "open"
  /\ willing' \subseteq willing
  /\ UNCHANGED <<emitted, owed, waiting, running, finished, phase>>

Close ==
  /\ phase = "closing"
  /\ willing = {}
  /\ \A t \in Threads : running[t] = {}
  /\ phase' = "closed"
  /\ UNCHANGED <<emitted, owed, waiting, running, finished, willing>>

BoardNext ==
  \/ Post
  \/ \E t \in Threads : Begin(t) \/ Finish(t)
  \/ StartClosing \/ GiveUp \/ Close

BoardSpec == BoardInit /\ [][BoardNext]_boardVars

-----------------------------------------------------------------------------
\* Each call is in one place, once: no thread begins it that another has begun.
EachCallOnce ==
  /\ IsInjective(waiting)
  /\ ToSet(waiting) \cap finished = {}
  /\ \A t \in Threads : running[t] \cap (ToSet(waiting) \cup finished) = {}
  /\ \A t, u \in Threads : t # u => running[t] \cap running[u] = {}

\* Nothing runs, and nothing will, when the board is closed.
ClosedIsQuiet ==
  phase = "closed" => willing = {} /\ \A t \in Threads : running[t] = {}
=============================================================================
