--------------------------- MODULE CircularBuffer ---------------------------
(***************************************************************************)
(* NCircularBuffer<T> as a state machine: the cells, the cursor over them  *)
(* and one action per public member function that changes them.            *)
(***************************************************************************)
EXTENDS CircularCursor, Sequences

CONSTANTS
  Value,      \* what a cell holds
  Default,    \* the value `new T[capacity]` leaves in a cell
  MaxBulk     \* bound on the num argument of the bulk operations

ASSUME ValueAssumption == Default \in Value /\ MaxBulk \in Nat \ {0}

VARIABLES
  buffer,     \* buffer_: the cells
  cur,        \* head_, tail_ and count_
  over,       \* what the last shiftBack / pushBack returned
  hadRoom     \* what the last unshiftFront / pushFront returned

vars == <<buffer, cur, over, hadRoom>>

TypeOK ==
  /\ buffer \in [Cell -> Value]
  /\ cur \in Cursor
  /\ over \in 0 .. MaxBulk + 1
  /\ hadRoom \in BOOLEAN

Init ==
  /\ buffer = [i \in Cell |-> Default]
  /\ cur = Cleared
  /\ over = 0
  /\ hadRoom = TRUE

pushFront(v) ==
  /\ cur' = unshiftFront(cur)
  /\ buffer' = [buffer EXCEPT ![cur'.head] = v]
  /\ hadRoom' = ~isFull(cur)
  /\ UNCHANGED over

\* Faulty variant: the test for a full buffer comes after the move.
pushBackTestsAfter(v) ==
  /\ cur' = shiftBack(cur)
  /\ buffer' = [buffer EXCEPT ![cur'.tail] = v]
  /\ over' = IF isFull(cur') THEN 1 ELSE 0
  /\ UNCHANGED hadRoom

pushBack(v) ==
  /\ cur' = shiftBack(cur)
  /\ buffer' = [buffer EXCEPT ![cur'.tail] = v]
  /\ over' = IF isFull(cur) THEN 1 ELSE 0
  /\ UNCHANGED hadRoom

\* unshiftFront(num): the result is that of the last iteration, TRUE for none.
UnshiftFrontMany(n) ==
  /\ cur' = unshiftFrontN(cur, n)
  /\ hadRoom' = (n = 0 \/ cur.count + n <= Capacity)
  /\ UNCHANGED <<buffer, over>>

ShiftBackMany(n) ==
  /\ cur' = shiftBackN(cur, n)
  /\ over' = OverNum(cur, n)
  /\ UNCHANGED <<buffer, hadRoom>>

popFront(n) ==
  /\ cur' = shiftFrontN(cur, n)
  /\ UNCHANGED <<buffer, over, hadRoom>>

popBack(n) ==
  /\ cur' = unshiftBackN(cur, n)
  /\ UNCHANGED <<buffer, over, hadRoom>>

\* Faulty variant: only the pointers are reset.
clearKeepsCount ==
  /\ cur' = [head |-> 0, tail |-> 0, count |-> cur.count]
  /\ UNCHANGED <<buffer, over, hadRoom>>

clear ==
  /\ cur' = Cleared
  /\ UNCHANGED <<buffer, over, hadRoom>>

Next ==
  \/ \E v \in Value : pushFront(v)
  \/ \E v \in Value : pushBack(v)
  \/ \E n \in 0 .. MaxBulk : UnshiftFrontMany(n)
  \/ \E n \in 0 .. MaxBulk : ShiftBackMany(n)
  \/ \E n \in 0 .. MaxBulk : popFront(n)
  \/ \E n \in 0 .. MaxBulk : popBack(n)
  \/ clear

Spec == Init /\ [][Next]_vars

-----------------------------------------------------------------------------
\* The elements in order, as traverse() and operator[] show them.
Elements == [i \in 1 .. cur.count |-> buffer[At(cur, i - 1)]]

\* The class keeps front, back and count separately; back() must be the last
\* of the count_ cells that start at front(), whatever mix of operations at
\* the two ends, wraps, overwrites and clears led here.
TailIsLast ==
  cur.count > 0 => cur.tail = At(cur, cur.count - 1)

\* num iterations of a single step.
Loop(step, c, num) ==
  LET after[n \in 0 .. num] == IF n = 0 THEN c ELSE step[after[n - 1]]
  IN  after[num]

\* shiftBack() and the addition of what it returns to over_num.
shiftBackSum ==
  [p \in Cursor \X Nat |-> <<shiftBack(p[1]), p[2] + (IF isFull(p[1]) THEN 1 ELSE 0)>>]

\* The bulk operations of the class are loops over the single-step ones: from
\* every reachable cursor the closed forms the models use do what num
\* iterations do, and shiftBack(num) returns the sum of what they return.
BulkIsLoop ==
  \A num \in 0 .. MaxBulk :
    /\ Loop(shiftBackSum, <<cur, 0>>, num) = <<shiftBackN(cur, num), OverNum(cur, num)>>
    /\ Loop([c \in Cursor |-> unshiftFront(c)], cur, num) = unshiftFrontN(cur, num)
    /\ Loop([c \in Cursor |-> shiftFront(c)], cur, num) = shiftFrontN(cur, num)
    /\ Loop([c \in Cursor |-> unshiftBack(c)], cur, num) = unshiftBackN(cur, num)

\* A call never moves or rewrites an element it does not drop: the buffer
\* implements the bounded deque, return values included.
Deque == INSTANCE BoundedDeque WITH items <- Elements, dropped <- over

ImplementsDeque == Deque!Spec
=============================================================================
