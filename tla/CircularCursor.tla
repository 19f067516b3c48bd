--------------------------- MODULE CircularCursor ---------------------------
(***************************************************************************)
(* The index arithmetic of NCircularBuffer<T> (NCircularBuffer.hpp).  The  *)
(* C++ class keeps two pointers into an array of capacity_ cells and a     *)
(* count; here a cursor is the record of the two offsets and the count,    *)
(*                                                                         *)
(*   [head |-> head_ - buffer_, tail |-> tail_ - buffer_, count |-> count_] *)
(*                                                                         *)
(* and every member function that moves a pointer is an operator from      *)
(* cursors to cursors.  What is stored in the cells is left to the module  *)
(* that owns them (CircularBuffer, PacketWindow).                          *)
(***************************************************************************)
EXTENDS Integers

CONSTANT Capacity   \* capacity_: the number of cells

ASSUME CapacityAssumption == Capacity \in Nat \ {0}

Cell == 0 .. Capacity - 1

Cursor == [head : Cell, tail : Cell, count : 0 .. Capacity]

\* One cell forward and one cell back, with the wrap the code writes as a
\* comparison with buffer_ + capacity_ (or buffer_).
After(i)  == IF i + 1 = Capacity THEN 0 ELSE i + 1
Before(i) == IF i = 0 THEN Capacity - 1 ELSE i - 1

\* The constructor and clear(): the cells themselves are not touched.
Cleared == [head |-> 0, tail |-> 0, count |-> 0]

isEmpty(c) == c.count = 0
isFull(c)  == c.count = Capacity

\* operator[]: the cell of the i-th element.
At(c, i) == (c.head + i) % Capacity

-----------------------------------------------------------------------------
(* Single steps.                                                           *)

unshiftFront(c) ==
  LET h == Before(c.head)
  IN  IF isFull(c)
      THEN [head |-> h, tail |-> Before(c.tail), count |-> c.count]
      ELSE [head  |-> h,
            tail  |-> IF isEmpty(c) THEN h ELSE c.tail,
            count |-> c.count + 1]

shiftBack(c) ==
  LET t == After(c.tail)
  IN  IF isFull(c)
      THEN [head |-> After(c.head), tail |-> t, count |-> c.count]
      ELSE [head  |-> IF isEmpty(c) THEN t ELSE c.head,
            tail  |-> t,
            count |-> c.count + 1]

\* shiftFront() and unshiftBack() do nothing to an empty buffer.
shiftFront(c) ==
  IF isEmpty(c) THEN c
  ELSE [head |-> After(c.head), tail |-> c.tail, count |-> c.count - 1]

unshiftBack(c) ==
  IF isEmpty(c) THEN c
  ELSE [head |-> c.head, tail |-> Before(c.tail), count |-> c.count - 1]

-----------------------------------------------------------------------------
(* The loops over the single steps, in closed form.  BulkIsLoop of         *)
(* CircularBuffer compares each of them with the loop the code runs.       *)

AtMost(n, bound)  == IF n <= bound THEN n ELSE bound
Excess(n, bound)  == IF n <= bound THEN 0 ELSE n - bound

\* Faulty variant: whether an element was pushed off, not how many.
OverAny(c, n) == IF c.count + n > Capacity THEN 1 ELSE 0

\* How many elements shiftBack(n) pushes off the front: its return value.
OverNum(c, n) == Excess(c.count + n, Capacity)

shiftBackN(c, n) ==
  IF n = 0 THEN c
  ELSE [head  |-> ((IF isEmpty(c) THEN c.tail + 1 ELSE c.head) + OverNum(c, n))
                    % Capacity,
        tail  |-> (c.tail + n) % Capacity,
        count |-> AtMost(c.count + n, Capacity)]

unshiftFrontN(c, n) ==
  IF n = 0 THEN c
  ELSE [head  |-> (c.head - n) % Capacity,
        tail  |-> ((IF isEmpty(c) THEN c.head - 1 ELSE c.tail) - OverNum(c, n))
                    % Capacity,
        count |-> AtMost(c.count + n, Capacity)]

shiftFrontN(c, n) ==
  LET k == AtMost(n, c.count)
  IN  [head  |-> (c.head + k) % Capacity,
       tail  |-> c.tail,
       count |-> c.count - k]

unshiftBackN(c, n) ==
  LET k == AtMost(n, c.count)
  IN  [head  |-> c.head,
       tail  |-> (c.tail - k) % Capacity,
       count |-> c.count - k]
=============================================================================
