----------------------------- MODULE WidthBuffer -----------------------------
(***************************************************************************)
(* The width W the process loop works with: the mean of the first          *)
(* circ_buffer_size entries of a circular buffer of measured widths.  The  *)
(* size is the register BUFF_SIZE, clamped and read anew for every image,  *)
(* so the entries beyond a smaller size are old when it grows again.       *)
(* Widths are integers here, as in WidthAlarm; where sizes do not divide   *)
(* the sum, the quotient stands for the double of the code.                *)
(***************************************************************************)
EXTENDS Integers, Sequences, Functions

CONSTANTS
  Measured,                   \* the widths an image can measure
  BuffSizes,                  \* values of the register BUFF_SIZE
  LMAX_CIRCULAR_BUFFER_SIZE

ASSUME BufferAssumption ==
  /\ Measured \subseteq Int
  /\ BuffSizes \subseteq Int
  /\ LMAX_CIRCULAR_BUFFER_SIZE \in Nat \ {0}

VARIABLES
  wCircBuffer,  \* w_circ_buffer, from its entry 0
  z,            \* where the last width was put
  buffSize,     \* circ_buffer_size
  averaged,     \* W
  lastWidths,   \* history: the last LMAX_CIRCULAR_BUFFER_SIZE widths, latest first
  sinceChange   \* history: widths since the size changed, at most as many

bufferVars == <<wCircBuffer, z, buffSize, averaged, lastWidths, sinceChange>>

BufferInit ==
  /\ wCircBuffer = [i \in 0 .. LMAX_CIRCULAR_BUFFER_SIZE - 1 |-> 0]
  /\ z = 0
  /\ buffSize = 1
  /\ averaged = 0
  /\ lastWidths = <<>>
  /\ sinceChange = 0

\* Definitions named X_Slip are slips a change of the code could make in X.
Clamped(size) ==
  IF size < 1 THEN 1
  ELSE IF size > LMAX_CIRCULAR_BUFFER_SIZE THEN LMAX_CIRCULAR_BUFFER_SIZE ELSE size

\* The position wraps only where the buffer ends.
NextPlace_AtTheEnd == (z + 1) % LMAX_CIRCULAR_BUFFER_SIZE

NextPlace == IF z + 1 >= buffSize THEN 0 ELSE z + 1

Mean(widths, places) == SumFunctionOnSet(widths, places) \div buffSize

\* An image that is measured; in a nap W stays as it is.
Average(w) ==
  /\ z' = NextPlace
  /\ wCircBuffer' = [wCircBuffer EXCEPT ![NextPlace] = w]
  /\ averaged' = Mean(wCircBuffer', 0 .. buffSize - 1)
  /\ lastWidths' = SubSeq(<<w>> \o lastWidths, 1,
                          IF Len(lastWidths) < LMAX_CIRCULAR_BUFFER_SIZE
                          THEN Len(lastWidths) + 1 ELSE LMAX_CIRCULAR_BUFFER_SIZE)
  /\ sinceChange' = IF sinceChange < LMAX_CIRCULAR_BUFFER_SIZE THEN sinceChange + 1
                    ELSE sinceChange
  /\ UNCHANGED buffSize

ReadBuffSize(size) ==
  /\ buffSize' = Clamped(size)
  /\ sinceChange' = IF buffSize' = buffSize THEN sinceChange ELSE 0
  /\ UNCHANGED <<wCircBuffer, z, averaged, lastWidths>>

(***************************************************************************)
(* Whatever sizes there were before, and wherever the buffer stood when    *)
(* the size changed, W is the mean of the last circ_buffer_size widths as  *)
(* soon as there are so many since the change: nothing older is left in.   *)
(***************************************************************************)
WindowAverage == sinceChange >= buffSize => averaged = Mean(lastWidths, 1 .. buffSize)
=============================================================================
