------------------------ MODULE CircularBufferProofs ------------------------
(***************************************************************************)
(* Proofs about CircularBuffer for every capacity, value set and bulk      *)
(* size.                                                                   *)
(***************************************************************************)
EXTENDS CircularBuffer, CursorLemmas, SequenceTheorems

\* TailIsLast is inductive together with the types; the lemmas on cursors say
\* it as Linked.
IInv == TypeOK /\ Linked(cur)

\* One cell forward or back, as a remainder.
LEMMA StepCells ==
  ASSUME NEW i \in 0 .. Capacity - 1
  PROVE  After(i) = (i + 1) % Capacity /\ Before(i) = (i - 1) % Capacity
  <1>1. CASE i = 0
    BY <1>1, CapacityAssumption DEF After, Before
  <1>2. CASE i > 0
    BY <1>2, CapacityAssumption DEF After, Before
  <1>3. QED
    BY <1>1, <1>2, CapacityAssumption

\* The single steps are the bulk operations with num = 1.
LEMMA ShiftBackIsBulk ==
  ASSUME NEW c \in Cursor
  PROVE  shiftBack(c) = shiftBackN(c, 1)
  <1>1. c.head \in 0 .. Capacity - 1 /\ c.tail \in 0 .. Capacity - 1 /\ c.count \in 0 .. Capacity
    BY CursorInts
  <1>2. After(c.tail) = (c.tail + 1) % Capacity /\ After(c.head) = (c.head + 1) % Capacity
    BY <1>1, StepCells
  <1>3. (c.head + 0) % Capacity = c.head
    BY <1>1, CapacityAssumption
  <1>4. CASE isFull(c)
    <2>1. OverNum(c, 1) = 1 /\ AtMost(c.count + 1, Capacity) = c.count /\ c.count # 0
      BY <1>1, <1>4, CapacityAssumption DEF isFull, OverNum, Excess, AtMost
    <2>2. QED
      BY <2>1, <1>2, <1>4 DEF shiftBack, shiftBackN, isEmpty, Cursor
  <1>5. CASE ~isFull(c) /\ isEmpty(c)
    <2>1. OverNum(c, 1) = 0 /\ AtMost(c.count + 1, Capacity) = c.count + 1
      BY <1>1, <1>5, CapacityAssumption DEF isFull, OverNum, Excess, AtMost
    <2>2. (c.tail + 1) + 0 = c.tail + 1
      BY <1>1
    <2>3. QED
      BY <2>1, <2>2, <1>2, <1>5 DEF shiftBack, shiftBackN
  <1>6. CASE ~isFull(c) /\ ~isEmpty(c)
    <2>1. OverNum(c, 1) = 0 /\ AtMost(c.count + 1, Capacity) = c.count + 1
      BY <1>1, <1>6, CapacityAssumption DEF isFull, OverNum, Excess, AtMost
    <2>2. QED
      BY <2>1, <1>2, <1>3, <1>6 DEF shiftBack, shiftBackN
  <1>7. QED
    BY <1>4, <1>5, <1>6

LEMMA UnshiftFrontIsBulk ==
  ASSUME NEW c \in Cursor
  PROVE  unshiftFront(c) = unshiftFrontN(c, 1)
  <1>1. c.head \in 0 .. Capacity - 1 /\ c.tail \in 0 .. Capacity - 1 /\ c.count \in 0 .. Capacity
    BY CursorInts
  <1>2. Before(c.tail) = (c.tail - 1) % Capacity /\ Before(c.head) = (c.head - 1) % Capacity
    BY <1>1, StepCells
  <1>3. (c.tail - 0) % Capacity = c.tail
    BY <1>1, CapacityAssumption
  <1>4. CASE isFull(c)
    <2>1. OverNum(c, 1) = 1 /\ AtMost(c.count + 1, Capacity) = c.count /\ c.count # 0
      BY <1>1, <1>4, CapacityAssumption DEF isFull, OverNum, Excess, AtMost
    <2>2. QED
      BY <2>1, <1>2, <1>4 DEF unshiftFront, unshiftFrontN, isEmpty, Cursor
  <1>5. CASE ~isFull(c) /\ isEmpty(c)
    <2>1. OverNum(c, 1) = 0 /\ AtMost(c.count + 1, Capacity) = c.count + 1
      BY <1>1, <1>5, CapacityAssumption DEF isFull, OverNum, Excess, AtMost
    <2>2. (c.head - 1) - 0 = c.head - 1
      BY <1>1
    <2>3. QED
      BY <2>1, <2>2, <1>2, <1>5 DEF unshiftFront, unshiftFrontN
  <1>6. CASE ~isFull(c) /\ ~isEmpty(c)
    <2>1. OverNum(c, 1) = 0 /\ AtMost(c.count + 1, Capacity) = c.count + 1
      BY <1>1, <1>6, CapacityAssumption DEF isFull, OverNum, Excess, AtMost
    <2>2. QED
      BY <2>1, <1>2, <1>3, <1>6 DEF unshiftFront, unshiftFrontN
  <1>7. QED
    BY <1>4, <1>5, <1>6

\* Removing elements at either end.
LEMMA ShiftFrontN ==
  ASSUME NEW c \in Cursor, Linked(c), NEW n \in Nat
  PROVE  shiftFrontN(c, n) \in Cursor /\ Linked(shiftFrontN(c, n))
  <1> DEFINE k == AtMost(n, c.count)
             x == c.head + k
             y == c.count - k - 1
  <1>1. c.head \in 0 .. Capacity - 1 /\ c.tail \in 0 .. Capacity - 1 /\ c.count \in 0 .. Capacity
    BY CursorInts
  <1>2. k \in 0 .. c.count
    BY <1>1 DEF AtMost
  <1>3. shiftFrontN(c, n) = [head |-> x % Capacity, tail |-> c.tail, count |-> c.count - k]
    BY DEF shiftFrontN, Cursor
  <1> HIDE DEF k
  <1>4. x \in Int /\ y \in Int /\ x + y = c.head + (c.count - 1)
    BY <1>1, <1>2
  <1>5. x % Capacity \in Cell
    BY <1>4, ModCell
  <1>6. shiftFrontN(c, n) \in Cursor
    <2>1. c.tail \in Cell /\ c.count - k \in 0 .. Capacity
      BY <1>1, <1>2, CapacityAssumption DEF Cell
    <2>2. QED
      BY <2>1, <1>3, <1>5 DEF Cursor
  <1>7. ASSUME c.count - k > 0
        PROVE  c.tail = ((x % Capacity) + y) % Capacity
    <2>1. c.tail = (c.head + (c.count - 1)) % Capacity
      BY <1>7, <1>1, <1>2 DEF Linked, At
    <2> HIDE DEF x, y
    <2>2. ((x % Capacity) + y) % Capacity = (x + y) % Capacity
      BY <1>4, CellChain
    <2>3. QED
      BY <1>4, <2>1, <2>2
  <1>8. Linked(shiftFrontN(c, n))
    BY <1>3, <1>7 DEF Linked, At
  <1>9. QED
    BY <1>6, <1>8

LEMMA UnshiftBackN ==
  ASSUME NEW c \in Cursor, Linked(c), NEW n \in Nat
  PROVE  unshiftBackN(c, n) \in Cursor /\ Linked(unshiftBackN(c, n))
  <1> DEFINE k == AtMost(n, c.count)
             x == c.head + (c.count - 1)
             y == -k
  <1>1. c.head \in 0 .. Capacity - 1 /\ c.tail \in 0 .. Capacity - 1 /\ c.count \in 0 .. Capacity
    BY CursorInts
  <1>2. k \in 0 .. c.count
    BY <1>1 DEF AtMost
  <1>3. unshiftBackN(c, n) = [head |-> c.head, tail |-> (c.tail - k) % Capacity, count |-> c.count - k]
    BY DEF unshiftBackN, Cursor
  <1> HIDE DEF k
  <1>4. x \in Int /\ y \in Int /\ x + y = c.head + ((c.count - k) - 1) /\ c.tail - k = c.tail + y
    BY <1>1, <1>2
  <1>5. (c.tail - k) % Capacity \in Cell
    BY <1>1, <1>2, ModCell
  <1>6. unshiftBackN(c, n) \in Cursor
    <2>1. c.head \in Cell /\ c.count - k \in 0 .. Capacity
      BY <1>1, <1>2, CapacityAssumption DEF Cell
    <2>2. QED
      BY <2>1, <1>3, <1>5 DEF Cursor
  <1>7. ASSUME c.count - k > 0
        PROVE  (c.tail - k) % Capacity = (c.head + ((c.count - k) - 1)) % Capacity
    <2>1. c.tail = x % Capacity
      BY <1>7, <1>1, <1>2 DEF Linked, At
    <2> HIDE DEF x, y
    <2>2. ((x % Capacity) + y) % Capacity = (x + y) % Capacity
      BY <1>4, CellChain
    <2>3. QED
      BY <1>4, <2>1, <2>2
  <1>8. Linked(unshiftBackN(c, n))
    BY <1>3, <1>7 DEF Linked, At
  <1>9. QED
    BY <1>6, <1>8

LEMMA InitInv == Init => IInv
  BY CapacityAssumption, ValueAssumption DEF Init, IInv, TypeOK, Cleared, Cursor, Cell, Linked

LEMMA StepInv == IInv /\ [Next]_vars => IInv'
  <1> SUFFICES ASSUME IInv, [Next]_vars PROVE IInv'
    OBVIOUS
  <1>1. cur \in Cursor /\ Linked(cur) /\ buffer \in [Cell -> Value]
        /\ over \in 0 .. MaxBulk + 1 /\ hadRoom \in BOOLEAN
    BY DEF IInv, TypeOK
  <1>0. 0 .. MaxBulk \subseteq Nat
    BY ValueAssumption
  <1>2. ASSUME NEW v \in Value, pushFront(v)
        PROVE  IInv'
    <2>1. cur' = unshiftFrontN(cur, 1)
      BY <1>1, <1>2, UnshiftFrontIsBulk DEF pushFront
    <2>2. cur' \in Cursor /\ Linked(cur')
      BY <1>1, <2>1, UnshiftFrontN
    <2>3. QED
      BY <1>1, <1>2, <2>2 DEF pushFront, IInv, TypeOK, Cursor, isFull
  <1>3. ASSUME NEW v \in Value, pushBack(v)
        PROVE  IInv'
    <2>1. cur' = shiftBackN(cur, 1)
      BY <1>1, <1>3, ShiftBackIsBulk DEF pushBack
    <2>2. cur' \in Cursor /\ Linked(cur')
      BY <1>1, <2>1, ShiftBackN
    <2>3. QED
      BY <1>1, <1>3, <2>2, ValueAssumption DEF pushBack, IInv, TypeOK, Cursor
  <1>4. ASSUME NEW n \in 0 .. MaxBulk, UnshiftFrontMany(n)
        PROVE  IInv'
    <2>1. cur' \in Cursor /\ Linked(cur')
      BY <1>0, <1>1, <1>4, UnshiftFrontN DEF UnshiftFrontMany
    <2>2. QED
      BY <1>1, <1>4, <2>1 DEF UnshiftFrontMany, IInv, TypeOK
  <1>5. ASSUME NEW n \in 0 .. MaxBulk, ShiftBackMany(n)
        PROVE  IInv'
    <2>1. cur' \in Cursor /\ Linked(cur') /\ OverNum(cur, n) \in 0 .. n
      BY <1>0, <1>1, <1>5, ShiftBackN DEF ShiftBackMany
    <2>2. QED
      BY <1>1, <1>5, <2>1, ValueAssumption DEF ShiftBackMany, IInv, TypeOK
  <1>6. ASSUME NEW n \in 0 .. MaxBulk, popFront(n)
        PROVE  IInv'
    <2>1. cur' \in Cursor /\ Linked(cur')
      BY <1>0, <1>1, <1>6, ShiftFrontN DEF popFront
    <2>2. QED
      BY <1>1, <1>6, <2>1 DEF popFront, IInv, TypeOK
  <1>7. ASSUME NEW n \in 0 .. MaxBulk, popBack(n)
        PROVE  IInv'
    <2>1. cur' \in Cursor /\ Linked(cur')
      BY <1>0, <1>1, <1>7, UnshiftBackN DEF popBack
    <2>2. QED
      BY <1>1, <1>7, <2>1 DEF popBack, IInv, TypeOK
  <1>8. CASE clear
    BY <1>1, <1>8, CapacityAssumption DEF clear, Cleared, IInv, TypeOK, Cursor, Cell, Linked
  <1>9. CASE UNCHANGED vars
    BY <1>9 DEF vars, IInv, TypeOK, Linked, At
  <1>10. QED
    BY <1>2, <1>3, <1>4, <1>5, <1>6, <1>7, <1>8, <1>9 DEF Next

\* Whatever the mix of operations, back() is the last of the size() cells that
\* start at front(): NCircularBuffer's three cursor fields never come apart.
THEOREM BufferTailIsLast == Spec => [](TypeOK /\ TailIsLast)
  <1>1. IInv => TypeOK /\ TailIsLast
    BY DEF IInv, TailIsLast, Linked
  <1>2. QED
    BY InitInv, StepInv, <1>1, PTL DEF Spec
-----------------------------------------------------------------------------
(* The buffer implements the bounded deque. *)

\* The elements are a sequence of count_ values.
LEMMA ElementsSeq ==
  ASSUME NEW c \in Cursor, NEW b \in [Cell -> Value], NEW e,
         e = [i \in 1 .. c.count |-> b[At(c, i - 1)]]
  PROVE  /\ e \in Seq(Value) /\ Len(e) = c.count
         /\ \A i \in 1 .. c.count : e[i] = b[At(c, i - 1)]
  <1>1. c.head \in 0 .. Capacity - 1 /\ c.count \in 0 .. Capacity /\ c.count \in Nat
    BY CursorInts, CapacityAssumption
  <1>2. \A i \in 1 .. c.count : At(c, i - 1) \in Cell
    BY <1>1, ModCell DEF At
  <1>3. \A i \in 1 .. c.count : b[At(c, i - 1)] \in Value
    BY <1>2
  <1> QED BY <1>1, <1>3

\* Adding n elements at the back, whatever they are, where the cells of the
\* elements that stay are not written.
LEMMA BackAdds ==
  ASSUME IInv, TypeOK', NEW n \in 0 .. MaxBulk, cur' = shiftBackN(cur, n), over' = OverNum(cur, n),
         UNCHANGED hadRoom,
         \A i \in 1 .. cur'.count :
            i + over' <= cur.count => buffer'[At(cur', i - 1)] = buffer[At(cur', i - 1)]
  PROVE  \E added \in Deque!BoundedSeq(Value, MaxBulk) : Deque!AddBack(added)
  <1> DEFINE e == Elements
             f == Elements'
             k == cur.count
             o == OverNum(cur, n)
             g == [j \in 1 .. n |-> IF j + k - o \in 1 .. cur'.count THEN f[j + k - o] ELSE Default]
             all == e \o g
  <1>0. /\ n \in Nat /\ k \in 0 .. Capacity /\ cur'.count = k + n - o /\ o \in 0 .. n
        /\ cur \in Cursor /\ Capacity \in Nat
    <2>1. n \in Nat /\ cur \in Cursor /\ Linked(cur) /\ Capacity \in Nat
      BY ValueAssumption, CapacityAssumption DEF IInv, TypeOK
    <2> QED BY <2>1, ShiftBackN, CursorInts
  <1>1. e \in Seq(Value) /\ Len(e) = k /\ \A i \in 1 .. k : e[i] = buffer[At(cur, i - 1)]
    BY ElementsSeq DEF IInv, TypeOK, Elements
  <1>2. /\ f \in Seq(Value) /\ Len(f) = k + n - o
        /\ \A i \in 1 .. k + n - o : f[i] = buffer'[At(cur', i - 1)]
    <2>1. cur' \in Cursor /\ buffer' \in [Cell -> Value]
          /\ f = [i \in 1 .. cur'.count |-> buffer'[At(cur', i - 1)]]
      BY DEF TypeOK, Elements
    <2> HIDE DEF f
    <2> QED BY <1>0, <2>1, ElementsSeq
  <1>3. o = IF k + n > Capacity THEN k + n - Capacity ELSE 0
    BY <1>0 DEF OverNum, Excess
  <1> HIDE DEF e, f, o, k
  <1>4. g \in Seq(Value) /\ Len(g) = n /\ g \in Deque!BoundedSeq(Value, MaxBulk)
    <2>1. \A j \in 1 .. n : g[j] \in Value
      BY <1>0, <1>2, ValueAssumption
    <2>2. g \in [1 .. n -> Value]
      BY <2>1
    <2> HIDE DEF g
    <2>3. g \in Seq(Value) /\ Len(g) = n
      BY <1>0, <2>2
    <2>4. g \in UNION {[1 .. m -> Value] : m \in 0 .. MaxBulk}
      BY <2>2
    <2>5. Deque!BoundedSeq(Value, MaxBulk) = UNION {[1 .. m -> Value] : m \in 0 .. MaxBulk}
      BY DEF Deque!BoundedSeq, Deque!SeqOf
    <2> QED BY <2>3, <2>4, <2>5
  <1>5. Len(all) = k + n /\ all \in Seq(Value)
    <2> HIDE DEF g
    <2> QED BY <1>0, <1>1, <1>4, ConcatProperties
  <1> HIDE DEF all
  <1>6. f = SubSeq(all, o + 1, Len(all))
    <2> DEFINE s == SubSeq(all, o + 1, Len(all))
    <2>1. /\ s \in Seq(Value) /\ Len(s) = k + n - o
          /\ \A i \in 1 .. k + n - o : s[i] = all[i + o]
      BY <1>0, <1>5
    <2>2. ASSUME NEW i \in 1 .. k + n - o PROVE all[i + o] = f[i]
      <3>1. CASE i + o <= k
        <4>1. all[i + o] = e[i + o]
          <5> HIDE DEF g
          <5> QED BY <1>0, <1>1, <1>4, <3>1, ConcatProperties DEF all
        <4>2. e[i + o] = buffer[At(cur, (i + o) - 1)]
          BY <1>0, <1>1, <3>1
        <4>3. At(cur', i - 1) = At(cur, (i + o) - 1)
          <5>1. k > 0 /\ (i + o) - 1 \in Int /\ ((i + o) - 1) - o = i - 1
            BY <1>0, <3>1
          <5>2. CASE n = 0
            BY <1>0, <5>1, <5>2 DEF shiftBackN
          <5>3. CASE n # 0
            <6>1. n \in Nat \ {0} /\ cur.count > 0
              BY <1>0, <5>1, <5>3 DEF k
            <6>2. At(shiftBackN(cur, n), ((i + o) - 1) - OverNum(cur, n)) = At(cur, (i + o) - 1)
              BY <1>0, <5>1, <6>1, ShiftBackKeeps
            <6> QED BY <5>1, <6>2 DEF o
          <5> QED BY <5>2, <5>3
        <4>4. buffer'[At(cur', i - 1)] = buffer[At(cur', i - 1)]
          BY <1>0, <3>1 DEF o, k
        <4> QED BY <1>2, <4>1, <4>2, <4>3, <4>4
      <3>2. CASE i + o > k
        <4>1. all[i + o] = g[(i + o) - k]
          <5> HIDE DEF g
          <5> QED BY <1>0, <1>1, <1>4, <3>2, ConcatProperties DEF all
        <4>2. (i + o) - k \in 1 .. n /\ ((i + o) - k) + k - o = i
          BY <1>0, <3>2
        <4> QED BY <1>0, <4>1, <4>2
      <3> QED BY <1>0, <3>1, <3>2
    <2> HIDE DEF s
    <2>3. \A i \in 1 .. k + n - o : s[i] = f[i]
      BY <2>1, <2>2
    <2>4. s = f
      BY <1>0, <1>2, <2>1, <2>3, SeqEqual
    <2> QED BY <2>4 DEF s
  <1>7. Deque!AddBack(g)
    <2> HIDE DEF g
    <2>1. (IF Len(all) > Capacity THEN Len(all) - Capacity ELSE 0) = o
      BY <1>0, <1>3, <1>5
    <2> QED BY <1>6, <2>1 DEF Deque!AddBack, e, f, o, all
  <1> QED BY <1>4, <1>7

\* Adding n elements at the front, whatever they are.
LEMMA FrontAdds ==
  ASSUME IInv, TypeOK', NEW n \in 0 .. MaxBulk, cur' = unshiftFrontN(cur, n),
         hadRoom' = (cur.count + n <= Capacity), UNCHANGED over,
         \A i \in 1 .. cur'.count : i > n => buffer'[At(cur', i - 1)] = buffer[At(cur', i - 1)]
  PROVE  \E added \in Deque!BoundedSeq(Value, MaxBulk) : Deque!AddFront(added)
  <1> DEFINE e == Elements
             f == Elements'
             k == cur.count
             o == OverNum(cur, n)
             g == [j \in 1 .. n |-> IF j \in 1 .. cur'.count THEN f[j] ELSE Default]
             all == g \o e
  <1>0. /\ n \in Nat /\ k \in 0 .. Capacity /\ cur'.count = k + n - o /\ o \in 0 .. n
        /\ cur \in Cursor /\ Capacity \in Nat
    <2>1. n \in Nat /\ cur \in Cursor /\ Linked(cur) /\ Capacity \in Nat
      BY ValueAssumption, CapacityAssumption DEF IInv, TypeOK
    <2> QED BY <2>1, UnshiftFrontN, CursorInts
  <1>1. e \in Seq(Value) /\ Len(e) = k /\ \A i \in 1 .. k : e[i] = buffer[At(cur, i - 1)]
    BY ElementsSeq DEF IInv, TypeOK, Elements
  <1>2. /\ f \in Seq(Value) /\ Len(f) = k + n - o
        /\ \A i \in 1 .. k + n - o : f[i] = buffer'[At(cur', i - 1)]
    <2>1. cur' \in Cursor /\ buffer' \in [Cell -> Value]
          /\ f = [i \in 1 .. cur'.count |-> buffer'[At(cur', i - 1)]]
      BY DEF TypeOK, Elements
    <2> HIDE DEF f
    <2> QED BY <1>0, <2>1, ElementsSeq
  <1>3. k + n - o = IF k + n > Capacity THEN Capacity ELSE k + n
    BY <1>0 DEF OverNum, Excess
  <1> HIDE DEF e, f, o, k
  <1>4. g \in Seq(Value) /\ Len(g) = n /\ g \in Deque!BoundedSeq(Value, MaxBulk)
    <2>1. \A j \in 1 .. n : g[j] \in Value
      BY <1>0, <1>2, ValueAssumption
    <2>2. g \in [1 .. n -> Value]
      BY <2>1
    <2> HIDE DEF g
    <2>3. g \in Seq(Value) /\ Len(g) = n
      BY <1>0, <2>2
    <2>4. g \in UNION {[1 .. m -> Value] : m \in 0 .. MaxBulk}
      BY <2>2
    <2>5. Deque!BoundedSeq(Value, MaxBulk) = UNION {[1 .. m -> Value] : m \in 0 .. MaxBulk}
      BY DEF Deque!BoundedSeq, Deque!SeqOf
    <2> QED BY <2>3, <2>4, <2>5
  <1>5. Len(all) = k + n /\ all \in Seq(Value)
    <2> HIDE DEF g
    <2>1. Len(all) = n + k /\ all \in Seq(Value)
      BY <1>1, <1>4, ConcatProperties
    <2> HIDE DEF all
    <2> QED BY <1>0, <2>1
  <1> HIDE DEF all
  <1>6. f = SubSeq(all, 1, k + n - o)
    <2> DEFINE s == SubSeq(all, 1, k + n - o)
    <2>1. /\ s \in Seq(Value) /\ Len(s) = k + n - o
          /\ \A i \in 1 .. k + n - o : s[i] = all[i]
      BY <1>0, <1>5
    <2>2. ASSUME NEW i \in 1 .. k + n - o PROVE all[i] = f[i]
      <3>1. CASE i > n
        <4>1. all[i] = e[i - n]
          <5> HIDE DEF g
          <5> QED BY <1>0, <1>1, <1>4, <3>1, ConcatProperties DEF all
        <4>2. e[i - n] = buffer[At(cur, (i - n) - 1)]
          BY <1>0, <1>1, <3>1
        <4>3. At(cur', i - 1) = At(cur, (i - n) - 1)
          <5>1. (i - n) - 1 \in Int /\ ((i - n) - 1) + n = i - 1
            BY <1>0
          <5>2. CASE n = 0
            BY <5>1, <5>2 DEF unshiftFrontN
          <5>3. CASE n # 0
            <6>1. n \in Nat \ {0}
              BY <1>0, <5>3
            <6>2. At(unshiftFrontN(cur, n), ((i - n) - 1) + n) = At(cur, (i - n) - 1)
              BY <1>0, <5>1, <6>1, UnshiftFrontKeeps
            <6> QED BY <5>1, <6>2
          <5> QED BY <5>2, <5>3
        <4>4. buffer'[At(cur', i - 1)] = buffer[At(cur', i - 1)]
          BY <1>0, <3>1
        <4> QED BY <1>2, <4>1, <4>2, <4>3, <4>4
      <3>2. CASE i <= n
        <4>1. all[i] = g[i]
          <5> HIDE DEF g
          <5> QED BY <1>0, <1>1, <1>4, <3>2, ConcatProperties DEF all
        <4> QED BY <1>0, <3>2, <4>1
      <3> QED BY <1>0, <3>1, <3>2
    <2> HIDE DEF s
    <2>3. \A i \in 1 .. k + n - o : s[i] = f[i]
      BY <2>1, <2>2
    <2>4. s = f
      BY <1>0, <1>2, <2>1, <2>3, SeqEqual
    <2> QED BY <2>4 DEF s
  <1>7. Deque!AddFront(g)
    <2> HIDE DEF g
    <2>1. (IF Len(all) > Capacity THEN Capacity ELSE Len(all)) = k + n - o
      BY <1>0, <1>3, <1>5
    <2>2. hadRoom' = (Len(all) <= Capacity)
      BY <1>0, <1>5 DEF k
    <2> QED BY <1>6, <2>1, <2>2 DEF Deque!AddFront, e, f, all
  <1> QED BY <1>4, <1>7

\* Removing at either end leaves a part of the elements.
LEMMA Removes ==
  ASSUME IInv, NEW n \in 0 .. MaxBulk, popFront(n) \/ popBack(n)
  PROVE  Deque!RemoveFront(n) \/ Deque!RemoveBack(n)
  <1>0. /\ n \in Nat /\ cur \in Cursor /\ cur.count \in 0 .. Capacity /\ cur.head \in 0 .. Capacity - 1
        /\ buffer \in [Cell -> Value]
    BY ValueAssumption, CursorInts DEF IInv, TypeOK
  <1>1. /\ Elements \in Seq(Value) /\ Len(Elements) = cur.count
        /\ \A i \in 1 .. cur.count : Elements[i] = buffer[At(cur, i - 1)]
    BY <1>0, ElementsSeq DEF Elements
  <1>2. CASE popFront(n)
    <2> DEFINE s == SubSeq(Elements, n + 1, Len(Elements))
               k == AtMost(n, cur.count)
    <2>1. /\ cur' = [head |-> (cur.head + k) % Capacity, tail |-> cur.tail, count |-> cur.count - k]
          /\ UNCHANGED <<buffer, over, hadRoom>>
      BY <1>2 DEF popFront, shiftFrontN
    <2>2. k \in 0 .. cur.count /\ (k = n \/ (k = cur.count /\ k < n))
      BY <1>0 DEF AtMost
    <2> HIDE DEF k
    <2>3. Elements' = [i \in 1 .. cur.count - k |-> buffer[At(cur', i - 1)]]
      BY <2>1 DEF Elements
    <2>4. ASSUME NEW i \in 1 .. cur.count - k
          PROVE  buffer[At(cur', i - 1)] = Elements[i + k]
      <3> DEFINE x == cur.head + k
                 y == i - 1
      <3>1. x \in Int /\ y \in Int /\ x + y = cur.head + ((i + k) - 1) /\ i + k \in 1 .. cur.count
        BY <1>0, <2>2
      <3>2. Elements[i + k] = buffer[At(cur, (i + k) - 1)]
        BY <1>1, <3>1
      <3> HIDE DEF x, y
      <3>3. ((x % Capacity) + y) % Capacity = (x + y) % Capacity
        BY <3>1, CellChain
      <3>4. At(cur', i - 1) = At(cur, (i + k) - 1)
        BY <2>1, <3>1, <3>3 DEF At, x, y
      <3> QED BY <3>2, <3>4
    <2>5. Elements' = [i \in 1 .. cur.count - k |-> Elements[i + k]]
      BY <2>3, <2>4
    <2>6. s = [i \in 1 .. cur.count - k |-> Elements[i + k]]
      <3>1. CASE k = n
        BY <1>0, <1>1, <3>1
      <3>2. CASE k = cur.count /\ k < n
        BY <1>0, <1>1, <3>2
      <3> QED BY <2>2, <3>1, <3>2
    <2> QED BY <2>1, <2>5, <2>6 DEF Deque!RemoveFront
  <1>3. CASE popBack(n)
    <2> DEFINE s == SubSeq(Elements, 1, Len(Elements) - n)
               k == AtMost(n, cur.count)
    <2>1. /\ cur'.head = cur.head /\ cur'.count = cur.count - k
          /\ UNCHANGED <<buffer, over, hadRoom>>
      BY <1>3 DEF popBack, unshiftBackN
    <2>2. k \in 0 .. cur.count /\ (k = n \/ (k = cur.count /\ k < n))
      BY <1>0 DEF AtMost
    <2> HIDE DEF k
    <2>3. Elements' = [i \in 1 .. cur.count - k |-> buffer[At(cur, i - 1)]]
      BY <2>1 DEF Elements, At
    <2>4. Elements' = [i \in 1 .. cur.count - k |-> Elements[i]]
      BY <1>0, <1>1, <2>2, <2>3
    <2>5. s = [i \in 1 .. cur.count - k |-> Elements[i]]
      <3>1. CASE k = n
        BY <1>0, <1>1, <3>1
      <3>2. CASE k = cur.count /\ k < n
        BY <1>0, <1>1, <3>2
      <3> QED BY <2>2, <3>1, <3>2
    <2> QED BY <2>1, <2>4, <2>5 DEF Deque!RemoveBack
  <1> QED BY <1>2, <1>3

LEMMA StepImplements == IInv /\ IInv' /\ [Next]_vars => [Deque!Next]_Deque!dequeVars
  <1> SUFFICES ASSUME IInv, IInv', [Next]_vars PROVE [Deque!Next]_Deque!dequeVars
    OBVIOUS
  <1>0. /\ cur \in Cursor /\ cur' \in Cursor /\ Linked(cur) /\ Linked(cur') /\ TypeOK'
        /\ cur.count \in 0 .. Capacity /\ buffer \in [Cell -> Value]
        /\ 1 \in 0 .. MaxBulk /\ 0 .. MaxBulk \subseteq Nat /\ Capacity \in Nat \ {0}
    BY ValueAssumption, CapacityAssumption, CursorInts DEF IInv, TypeOK
  <1>1. ASSUME NEW v \in Value, pushFront(v) PROVE Deque!Next
    <2>1. cur' = unshiftFrontN(cur, 1) /\ UNCHANGED over
      BY <1>0, <1>1, UnshiftFrontIsBulk DEF pushFront
    <2>2. hadRoom' = (cur.count + 1 <= Capacity)
      BY <1>0, <1>1 DEF pushFront, isFull
    <2>3. ASSUME NEW i \in 1 .. cur'.count, i > 1
          PROVE  buffer'[At(cur', i - 1)] = buffer[At(cur', i - 1)]
      <3>1. i - 1 \in 0 .. Capacity - 1 /\ i - 1 # 0 /\ 0 \in 0 .. Capacity - 1
        BY <1>0, <2>3, CursorInts
      <3>2. At(cur', i - 1) # At(cur', 0) /\ At(cur', 0) = cur'.head
        <4>1. cur'.head \in 0 .. Capacity - 1
          BY <1>0, CursorInts
        <4> QED BY <1>0, <3>1, <4>1, AtInjective, AtCell
      <3> QED BY <1>0, <1>1, <3>2 DEF pushFront
    <2>4. \E added \in Deque!BoundedSeq(Value, MaxBulk) : Deque!AddFront(added)
      BY <1>0, <2>1, <2>2, <2>3, FrontAdds
    <2> QED BY <2>4 DEF Deque!Next
  <1>2. ASSUME NEW v \in Value, pushBack(v) PROVE Deque!Next
    <2>1. cur' = shiftBackN(cur, 1) /\ UNCHANGED hadRoom
      BY <1>0, <1>2, ShiftBackIsBulk DEF pushBack
    <2>2. over' = OverNum(cur, 1)
      BY <1>0, <1>2 DEF pushBack, isFull, OverNum, Excess
    <2>3. ASSUME NEW i \in 1 .. cur'.count, i + over' <= cur.count
          PROVE  buffer'[At(cur', i - 1)] = buffer[At(cur', i - 1)]
      <3>1. cur'.count = cur.count + 1 - over' /\ over' \in 0 .. 1 /\ cur'.count \in 0 .. Capacity
        BY <1>0, <2>1, <2>2, ShiftBackN, CursorInts
      <3>2. /\ i - 1 \in 0 .. Capacity - 1 /\ cur'.count - 1 \in 0 .. Capacity - 1
            /\ i - 1 # cur'.count - 1 /\ cur'.count > 0
        BY <1>0, <2>3, <3>1
      <3>3. At(cur', i - 1) # At(cur', cur'.count - 1)
        BY <1>0, <3>2, AtInjective
      <3>4. cur'.tail = At(cur', cur'.count - 1)
        BY <1>0, <3>2 DEF Linked
      <3> QED BY <1>0, <1>2, <3>3, <3>4 DEF pushBack
    <2>4. \E added \in Deque!BoundedSeq(Value, MaxBulk) : Deque!AddBack(added)
      BY <1>0, <2>1, <2>2, <2>3, BackAdds
    <2> QED BY <2>4 DEF Deque!Next
  <1>3. ASSUME NEW n \in 0 .. MaxBulk, UnshiftFrontMany(n) PROVE Deque!Next
    <2>1. /\ cur' = unshiftFrontN(cur, n) /\ UNCHANGED <<over, buffer>>
          /\ hadRoom' = (cur.count + n <= Capacity)
      BY <1>0, <1>3 DEF UnshiftFrontMany
    <2>2. \E added \in Deque!BoundedSeq(Value, MaxBulk) : Deque!AddFront(added)
      BY <1>0, <2>1, FrontAdds
    <2> QED BY <2>2 DEF Deque!Next
  <1>4. ASSUME NEW n \in 0 .. MaxBulk, ShiftBackMany(n) PROVE Deque!Next
    <2>1. cur' = shiftBackN(cur, n) /\ UNCHANGED <<hadRoom, buffer>> /\ over' = OverNum(cur, n)
      BY <1>4 DEF ShiftBackMany
    <2>2. \E added \in Deque!BoundedSeq(Value, MaxBulk) : Deque!AddBack(added)
      BY <1>0, <2>1, BackAdds
    <2> QED BY <2>2 DEF Deque!Next
  <1>5. ASSUME NEW n \in 0 .. MaxBulk, popFront(n) \/ popBack(n) PROVE Deque!Next
    BY <1>5, Removes DEF Deque!Next
  <1>6. ASSUME clear PROVE Deque!Next
    <2>1. cur'.count = 0 /\ UNCHANGED <<over, hadRoom>>
      BY <1>6 DEF clear, Cleared
    <2>2. Elements' = <<>>
      BY <2>1 DEF Elements
    <2> QED BY <2>1, <2>2 DEF Deque!Next, Deque!Clear
  <1>7. ASSUME UNCHANGED vars PROVE UNCHANGED Deque!dequeVars
    BY <1>7 DEF vars, Deque!dequeVars, Elements, At
  <1> QED BY <1>1, <1>2, <1>3, <1>4, <1>5, <1>6, <1>7 DEF Next

\* NCircularBuffer implements the bounded deque for every capacity: no call moves,
\* rewrites or forgets an element it does not report as dropped, and the results
\* of shiftBack and unshiftFront say what was dropped.
THEOREM BufferImplementsDeque == Spec => ImplementsDeque
  <1>1. Init => Deque!Init
    BY DEF Init, Deque!Init, Elements, Cleared
  <1>2. IInv /\ IInv' /\ [Next]_vars => [Deque!Next]_Deque!dequeVars
    BY StepImplements
  <1>3. Spec => []IInv
    BY InitInv, StepInv, PTL DEF Spec
  <1> QED BY <1>1, <1>2, <1>3, PTL DEF Spec, ImplementsDeque, Deque!Spec

-----------------------------------------------------------------------------
(* The bulk operations are the loops the code runs.                         *)

\* f holds what the iterations yield, one after the other.
Iterates(f, step, c, num) ==
  f = [n \in 0 .. num |-> IF n = 0 THEN c ELSE step[f[n - 1]]]

\* The recursive function of Loop exists.
LEMMA LoopFunction ==
  ASSUME NEW step, NEW c, NEW num \in Nat
  PROVE  \E f : Iterates(f, step, c, num)
  <1> DEFINE G == {m \in Nat : \E f : Iterates(f, step, c, m)}
  <1>1. 0 \in G
    <2> DEFINE f == [n \in 0 .. 0 |-> c]
    <2>1. Iterates(f, step, c, 0)
      BY DEF Iterates
    <2>2. QED
      BY <2>1
  <1>2. ASSUME NEW m \in Nat, m \in G PROVE m + 1 \in G
    <2>1. PICK f : Iterates(f, step, c, m)
      BY <1>2
    <2> DEFINE g == [n \in 0 .. m + 1 |-> IF n = m + 1 THEN step[f[m]] ELSE f[n]]
    <2>2. ASSUME NEW n \in 0 .. m + 1
          PROVE  g[n] = IF n = 0 THEN c ELSE step[g[n - 1]]
      <3>1. CASE n = m + 1
        <4>1. m \in 0 .. m + 1 /\ m # m + 1 /\ n # 0 /\ n - 1 = m
          BY <3>1
        <4>2. QED
          BY <3>1, <4>1
      <3>2. CASE n # m + 1 /\ n # 0
        <4>1. n \in 0 .. m /\ n - 1 \in 0 .. m + 1 /\ n - 1 # m + 1
          BY <3>2
        <4>2. f[n] = step[f[n - 1]]
          BY <2>1, <4>1, <3>2 DEF Iterates
        <4>3. QED
          BY <3>2, <4>1, <4>2
      <3>3. CASE n = 0
        <4>1. n \in 0 .. m /\ n # m + 1
          BY <3>3
        <4>2. f[n] = c
          BY <2>1, <4>1, <3>3 DEF Iterates
        <4>3. QED
          BY <3>3, <4>1, <4>2
      <3>4. QED
        BY <3>1, <3>2, <3>3
    <2> HIDE DEF g
    <2>3. g = [n \in 0 .. m + 1 |-> g[n]]
      BY DEF g
    <2>4. Iterates(g, step, c, m + 1)
      BY <2>2, <2>3 DEF Iterates
    <2>5. QED
      BY <2>4
  <1> HIDE DEF G
  <1>3. Nat \subseteq G
    BY <1>1, <1>2, NatInd
  <1>4. QED
    BY <1>3 DEF G

\* A loop ends where a closed form says, if that starts and steps as the loop does.
LEMMA LoopEnds ==
  ASSUME NEW step, NEW c, NEW num \in Nat, NEW closed,
         closed[0] = c,
         \A n \in 0 .. num - 1 : closed[n + 1] = step[closed[n]]
  PROVE  Loop(step, c, num) = closed[num]
  <1> DEFINE after == CHOOSE f : Iterates(f, step, c, num)
             G == {m \in Nat : m <= num => after[m] = closed[m]}
  <1>1. Iterates(after, step, c, num)
    BY LoopFunction
  <1>2. Loop(step, c, num) = after[num]
    BY DEF Loop, Iterates
  <1> HIDE DEF after
  <1>3. 0 \in G
    BY <1>1 DEF Iterates
  <1>4. ASSUME NEW m \in Nat, m \in G PROVE m + 1 \in G
    <2>1. CASE m + 1 <= num
      <3>1. m + 1 \in 0 .. num /\ m \in 0 .. num - 1 /\ m + 1 # 0 /\ (m + 1) - 1 = m /\ m <= num
        BY <2>1
      <3>2. after[m + 1] = step[after[m]]
        BY <1>1, <3>1 DEF Iterates
      <3>3. after[m] = closed[m]
        BY <1>4, <3>1
      <3>4. QED
        BY <3>1, <3>2, <3>3
    <2>2. QED
      BY <2>1
  <1> HIDE DEF G
  <1>5. Nat \subseteq G
    BY <1>3, <1>4, NatInd
  <1>6. QED
    BY <1>2, <1>5 DEF G

-----------------------------------------------------------------------------
(* One more iteration is one more step.                                    *)

\* What one more iteration adds to the count and to the elements pushed off.
LEMMA OneMore ==
  ASSUME NEW c \in Cursor, NEW d \in Cursor, NEW n \in Nat, d.count = c.count + n - OverNum(c, n)
  PROVE  /\ AtMost(c.count + (n + 1), Capacity) = AtMost(d.count + 1, Capacity)
         /\ OverNum(c, n + 1) = OverNum(c, n) + OverNum(d, 1)
         /\ OverNum(d, 1) = IF isFull(d) THEN 1 ELSE 0
         /\ {OverNum(c, n), OverNum(c, n + 1), OverNum(d, 1)} \subseteq Nat
  <1>1. c.count \in 0 .. Capacity /\ d.count \in 0 .. Capacity
    BY CursorInts
  <1>2. QED
    BY <1>1, CapacityAssumption DEF OverNum, Excess, AtMost, isFull

\* shiftBack(num + 1) is shiftBack(num) and a shiftBack().
LEMMA ShiftBackNext ==
  ASSUME NEW c \in Cursor, Linked(c), NEW n \in Nat
  PROVE  /\ shiftBackN(c, n + 1) = shiftBack(shiftBackN(c, n))
         /\ OverNum(c, n + 1) = OverNum(c, n) + (IF isFull(shiftBackN(c, n)) THEN 1 ELSE 0)
  <1> DEFINE d == shiftBackN(c, n)
             h == IF c.count = 0 THEN c.tail + 1 ELSE c.head
             k == OverNum(c, n)
             l == OverNum(d, 1)
  <1>1. c.head \in 0 .. Capacity - 1 /\ c.tail \in 0 .. Capacity - 1 /\ c.count \in 0 .. Capacity
    BY CursorInts
  <1>2. d \in Cursor /\ d.count = c.count + n - k
    BY ShiftBackN
  <1>3. /\ AtMost(c.count + (n + 1), Capacity) = AtMost(d.count + 1, Capacity)
        /\ OverNum(c, n + 1) = k + l
        /\ l = IF isFull(d) THEN 1 ELSE 0
        /\ {k, l} \subseteq Nat
    BY <1>2, OneMore
  <1>4. shiftBack(d) = shiftBackN(d, 1)
    BY <1>2, ShiftBackIsBulk
  <1>5. CASE n = 0
    <2>1. d = c
      BY <1>5 DEF shiftBackN
    <2>2. QED
      BY <2>1, <1>3, <1>4, <1>5
  <1>6. CASE n > 0
    <2>1. d = [head |-> (h + k) % Capacity, tail |-> (c.tail + n) % Capacity,
               count |-> AtMost(c.count + n, Capacity)]
      BY <1>6 DEF shiftBackN, isEmpty
    <2>2. shiftBackN(c, n + 1) = [head |-> (h + (k + l)) % Capacity, tail |-> (c.tail + (n + 1)) % Capacity,
                                  count |-> AtMost(d.count + 1, Capacity)]
      BY <1>3, <1>6 DEF shiftBackN, isEmpty
    <2>3. d.count > 0
      BY <2>1, <1>1, <1>6, CapacityAssumption DEF AtMost
    <2>4. shiftBackN(d, 1) = [head |-> (d.head + l) % Capacity, tail |-> (d.tail + 1) % Capacity,
                              count |-> AtMost(d.count + 1, Capacity)]
      BY <2>3 DEF shiftBackN, isEmpty
    <2>5. d.head = (h + k) % Capacity /\ d.tail = (c.tail + n) % Capacity
      BY <2>1
    <2>6. h \in Int /\ k \in Int /\ l \in Int
      BY <1>1, <1>3
    <2> HIDE DEF d, h, k, l
    <2>7. (d.head + l) % Capacity = (h + (k + l)) % Capacity
      <3>1. (h + k) + l = h + (k + l)
        BY <2>6
      <3>2. h + k \in Int
        BY <2>6
      <3>3. QED
        BY <2>5, <2>6, <3>1, <3>2, CellChain
    <2>8. (d.tail + 1) % Capacity = (c.tail + (n + 1)) % Capacity
      <3> DEFINE x == c.tail + n
      <3>1. x + 1 = c.tail + (n + 1) /\ x \in Int /\ d.tail = x % Capacity
        BY <1>1, <2>5
      <3> HIDE DEF x
      <3>2. ((x % Capacity) + 1) % Capacity = (x + 1) % Capacity
        BY <3>1, CellChain
      <3>3. QED
        BY <3>1, <3>2
    <2>9. shiftBackN(c, n + 1) = shiftBack(d)
      BY <1>4, <2>2, <2>4, <2>7, <2>8
    <2>10. QED
      BY <2>9, <1>3 DEF d, k, l
  <1>7. QED
    BY <1>5, <1>6

\* unshiftFront(num + 1) is unshiftFront(num) and an unshiftFront().
LEMMA UnshiftFrontNext ==
  ASSUME NEW c \in Cursor, Linked(c), NEW n \in Nat
  PROVE  unshiftFrontN(c, n + 1) = unshiftFront(unshiftFrontN(c, n))
  <1> DEFINE d == unshiftFrontN(c, n)
             t == IF c.count = 0 THEN c.head - 1 ELSE c.tail
             k == OverNum(c, n)
             l == OverNum(d, 1)
  <1>1. c.head \in 0 .. Capacity - 1 /\ c.tail \in 0 .. Capacity - 1 /\ c.count \in 0 .. Capacity
    BY CursorInts
  <1>2. d \in Cursor /\ d.count = c.count + n - k
    BY UnshiftFrontN
  <1>3. /\ AtMost(c.count + (n + 1), Capacity) = AtMost(d.count + 1, Capacity)
        /\ OverNum(c, n + 1) = k + l
        /\ {k, l} \subseteq Nat
    BY <1>2, OneMore
  <1>4. unshiftFront(d) = unshiftFrontN(d, 1)
    BY <1>2, UnshiftFrontIsBulk
  <1>5. CASE n = 0
    <2>1. d = c
      BY <1>5 DEF unshiftFrontN
    <2>2. QED
      BY <2>1, <1>4, <1>5
  <1>6. CASE n > 0
    <2>1. d = [head |-> (c.head - n) % Capacity, tail |-> (t - k) % Capacity,
               count |-> AtMost(c.count + n, Capacity)]
      BY <1>6 DEF unshiftFrontN, isEmpty
    <2>2. unshiftFrontN(c, n + 1) = [head |-> (c.head - (n + 1)) % Capacity,
                                     tail |-> (t - (k + l)) % Capacity,
                                     count |-> AtMost(d.count + 1, Capacity)]
      BY <1>3, <1>6 DEF unshiftFrontN, isEmpty
    <2>3. d.count > 0
      BY <2>1, <1>1, <1>6, CapacityAssumption DEF AtMost
    <2>4. unshiftFrontN(d, 1) = [head |-> (d.head - 1) % Capacity, tail |-> (d.tail - l) % Capacity,
                                 count |-> AtMost(d.count + 1, Capacity)]
      BY <2>3 DEF unshiftFrontN, isEmpty
    <2>5. d.head = (c.head - n) % Capacity /\ d.tail = (t - k) % Capacity
      BY <2>1
    <2>6. t \in Int /\ k \in Int /\ l \in Int
      BY <1>1, <1>3
    <2> HIDE DEF d, t, k, l
    <2> DEFINE x == c.head - n
               y == t - k
    <2>7. x \in Int /\ y \in Int /\ x + (-1) = c.head - (n + 1) /\ y + (-l) = t - (k + l) /\ -l \in Int
      BY <1>1, <2>6
    <2>8. d.head = x % Capacity /\ d.tail = y % Capacity
      BY <2>5
    <2> HIDE DEF x, y
    <2>9. ((x % Capacity) + (-1)) % Capacity = (x + (-1)) % Capacity
      BY <2>7, CellChain
    <2>10. ((y % Capacity) + (-l)) % Capacity = (y + (-l)) % Capacity
      BY <2>7, CellChain
    <2>11. d.head - 1 = (x % Capacity) + (-1) /\ d.tail - l = (y % Capacity) + (-l)
      BY <1>2, <2>6, <2>8, CursorInts
    <2>12. unshiftFrontN(c, n + 1) = unshiftFront(d)
      BY <1>4, <2>2, <2>4, <2>7, <2>9, <2>10, <2>11
    <2>13. QED
      BY <2>12 DEF d
  <1>7. QED
    BY <1>5, <1>6

\* popFront(num + 1) is popFront(num) and a shiftFront(), also on an empty buffer.
LEMMA ShiftFrontNext ==
  ASSUME NEW c \in Cursor, Linked(c), NEW n \in Nat
  PROVE  shiftFrontN(c, n + 1) = shiftFront(shiftFrontN(c, n))
  <1> DEFINE d == shiftFrontN(c, n)
             k == AtMost(n, c.count)
  <1>1. c.head \in 0 .. Capacity - 1 /\ c.count \in 0 .. Capacity /\ Capacity \in Nat \ {0}
    BY CursorInts, CapacityAssumption
  <1>2. d = [head |-> (c.head + k) % Capacity, tail |-> c.tail, count |-> c.count - k]
    BY DEF shiftFrontN
  <1>3. k \in 0 .. n /\ k <= c.count
    BY <1>1 DEF AtMost
  <1>4. CASE c.count <= n
    <2>1. AtMost(n + 1, c.count) = k /\ d.count = 0
      BY <1>1, <1>2, <1>4 DEF AtMost
    <2>2. QED
      BY <2>1 DEF shiftFront, isEmpty, shiftFrontN
  <1>5. CASE n < c.count
    <2>1. AtMost(n + 1, c.count) = k + 1 /\ k = n /\ d.count = c.count - n /\ d.count # 0
      BY <1>1, <1>2, <1>5 DEF AtMost
    <2> HIDE DEF d, k
    <2> DEFINE x == c.head + n
    <2>2. d.head = x % Capacity /\ x \in Int
      BY <1>1, <1>2, <2>1
    <2>3. d.head \in 0 .. Capacity - 1
      BY <2>2, ModCell DEF Cell
    <2>4. After(d.head) = (d.head + 1) % Capacity
      BY <2>3, StepCells
    <2>6. x + 1 = c.head + (n + 1) /\ c.count - (n + 1) = d.count - 1
      BY <1>1, <2>1
    <2> HIDE DEF x
    <2>5. (x + 1) % Capacity = (d.head + 1) % Capacity
      BY <2>2, CellChain
    <2>7. shiftFrontN(c, n + 1) = [head |-> (c.head + (n + 1)) % Capacity, tail |-> c.tail,
                                   count |-> c.count - (n + 1)]
      BY <2>1 DEF shiftFrontN
    <2>8. shiftFront(d) = [head |-> After(d.head), tail |-> d.tail, count |-> d.count - 1]
      BY <2>1 DEF shiftFront, isEmpty
    <2>9. d.tail = c.tail
      BY <1>2
    <2>10. QED
      BY <2>4, <2>5, <2>6, <2>7, <2>8, <2>9 DEF d
  <1>6. QED
    BY <1>1, <1>4, <1>5

\* popBack(num + 1) is popBack(num) and an unshiftBack(), also on an empty buffer.
LEMMA UnshiftBackNext ==
  ASSUME NEW c \in Cursor, Linked(c), NEW n \in Nat
  PROVE  unshiftBackN(c, n + 1) = unshiftBack(unshiftBackN(c, n))
  <1> DEFINE d == unshiftBackN(c, n)
             k == AtMost(n, c.count)
  <1>1. c.tail \in 0 .. Capacity - 1 /\ c.count \in 0 .. Capacity /\ Capacity \in Nat \ {0}
    BY CursorInts, CapacityAssumption
  <1>2. d = [head |-> c.head, tail |-> (c.tail - k) % Capacity, count |-> c.count - k]
    BY DEF unshiftBackN
  <1>3. k \in 0 .. n /\ k <= c.count
    BY <1>1 DEF AtMost
  <1>4. CASE c.count <= n
    <2>1. AtMost(n + 1, c.count) = k /\ d.count = 0
      BY <1>1, <1>2, <1>4 DEF AtMost
    <2>2. QED
      BY <2>1 DEF unshiftBack, isEmpty, unshiftBackN
  <1>5. CASE n < c.count
    <2>1. AtMost(n + 1, c.count) = k + 1 /\ k = n /\ d.count = c.count - n /\ d.count # 0
      BY <1>1, <1>2, <1>5 DEF AtMost
    <2> HIDE DEF d, k
    <2>2. d.tail = (c.tail - n) % Capacity /\ c.tail - n \in Int
      BY <1>1, <1>2, <2>1
    <2>3. d.tail \in 0 .. Capacity - 1
      BY <2>2, ModCell DEF Cell
    <2>4. Before(d.tail) = (d.tail - 1) % Capacity
      BY <2>3, StepCells
    <2> DEFINE x == c.tail - n
    <2>5. x \in Int /\ d.tail = x % Capacity /\ x + (-1) = c.tail - (n + 1) /\ c.count - (n + 1) = d.count - 1
      BY <1>1, <2>1, <2>2
    <2> HIDE DEF x
    <2>6. ((x % Capacity) + (-1)) % Capacity = (x + (-1)) % Capacity
      BY <2>5, CellChain
    <2>7. (x % Capacity) + (-1) = d.tail - 1
      BY <2>3, <2>5
    <2>8. unshiftBackN(c, n + 1) = [head |-> c.head, tail |-> (c.tail - (n + 1)) % Capacity,
                                    count |-> c.count - (n + 1)]
      BY <2>1 DEF unshiftBackN
    <2>9. unshiftBack(d) = [head |-> d.head, tail |-> Before(d.tail), count |-> d.count - 1]
      BY <2>1 DEF unshiftBack, isEmpty
    <2>10. d.head = c.head
      BY <1>2
    <2>11. QED
      BY <2>4, <2>5, <2>6, <2>7, <2>8, <2>9, <2>10 DEF d
  <1>6. QED
    BY <1>1, <1>4, <1>5

-----------------------------------------------------------------------------
(* The closed forms are the loops.                                         *)

\* From a linked cursor every loop ends where its closed form says.
LEMMA LoopsFrom ==
  ASSUME NEW c \in Cursor, Linked(c), NEW num \in Nat
  PROVE  /\ Loop(shiftBackSum, <<c, 0>>, num) = <<shiftBackN(c, num), OverNum(c, num)>>
         /\ Loop([d \in Cursor |-> unshiftFront(d)], c, num) = unshiftFrontN(c, num)
         /\ Loop([d \in Cursor |-> shiftFront(d)], c, num) = shiftFrontN(c, num)
         /\ Loop([d \in Cursor |-> unshiftBack(d)], c, num) = unshiftBackN(c, num)
  <1>0. c.head \in 0 .. Capacity - 1 /\ c.tail \in 0 .. Capacity - 1 /\ c.count \in 0 .. Capacity
    BY CursorInts
  <1>1. Loop(shiftBackSum, <<c, 0>>, num) = <<shiftBackN(c, num), OverNum(c, num)>>
    <2> DEFINE closed == [n \in 0 .. num |-> <<shiftBackN(c, n), OverNum(c, n)>>]
    <2>1. closed[0] = <<c, 0>>
      <3>1. shiftBackN(c, 0) = c /\ OverNum(c, 0) = 0
        BY <1>0 DEF shiftBackN, OverNum, Excess
      <3>2. QED
        BY <3>1
    <2>2. ASSUME NEW n \in 0 .. num - 1 PROVE closed[n + 1] = shiftBackSum[closed[n]]
      <3>1. n \in Nat /\ n \in 0 .. num /\ n + 1 \in 0 .. num
        OBVIOUS
      <3>2. <<shiftBackN(c, n), OverNum(c, n)>> \in Cursor \X Nat
        BY <3>1, ShiftBackN
      <3>3. shiftBackSum[<<shiftBackN(c, n), OverNum(c, n)>>] =
              <<shiftBack(shiftBackN(c, n)),
                OverNum(c, n) + (IF isFull(shiftBackN(c, n)) THEN 1 ELSE 0)>>
        BY <3>2 DEF shiftBackSum
      <3>4. QED
        BY <3>1, <3>3, ShiftBackNext
    <2> HIDE DEF closed
    <2>3. Loop(shiftBackSum, <<c, 0>>, num) = closed[num]
      BY <2>1, <2>2, LoopEnds
    <2>4. QED
      BY <2>3 DEF closed
  <1>2. Loop([d \in Cursor |-> unshiftFront(d)], c, num) = unshiftFrontN(c, num)
    <2> DEFINE closed == [n \in 0 .. num |-> unshiftFrontN(c, n)]
               step == [d \in Cursor |-> unshiftFront(d)]
    <2>1. closed[0] = c
      BY DEF unshiftFrontN
    <2>2. ASSUME NEW n \in 0 .. num - 1 PROVE closed[n + 1] = step[closed[n]]
      <3>1. n \in Nat /\ n \in 0 .. num /\ n + 1 \in 0 .. num
        OBVIOUS
      <3>2. unshiftFrontN(c, n) \in Cursor
        BY <3>1, UnshiftFrontN
      <3>3. QED
        BY <3>1, <3>2, UnshiftFrontNext
    <2> HIDE DEF closed, step
    <2>3. Loop(step, c, num) = closed[num]
      BY <2>1, <2>2, LoopEnds
    <2>4. QED
      BY <2>3 DEF closed, step
  <1>3. Loop([d \in Cursor |-> shiftFront(d)], c, num) = shiftFrontN(c, num)
    <2> DEFINE closed == [n \in 0 .. num |-> shiftFrontN(c, n)]
               step == [d \in Cursor |-> shiftFront(d)]
    <2>1. closed[0] = c
      <3>1. shiftFrontN(c, 0) = [head |-> c.head % Capacity, tail |-> c.tail, count |-> c.count]
        BY <1>0 DEF shiftFrontN, AtMost
      <3>2. c.head % Capacity = c.head
        BY <1>0, CapacityAssumption
      <3>3. QED
        BY <3>1, <3>2 DEF Cursor
    <2>2. ASSUME NEW n \in 0 .. num - 1 PROVE closed[n + 1] = step[closed[n]]
      <3>1. n \in Nat /\ n \in 0 .. num /\ n + 1 \in 0 .. num
        OBVIOUS
      <3>2. shiftFrontN(c, n) \in Cursor
        BY <3>1, ShiftFrontN
      <3>3. QED
        BY <3>1, <3>2, ShiftFrontNext
    <2> HIDE DEF closed, step
    <2>3. Loop(step, c, num) = closed[num]
      BY <2>1, <2>2, LoopEnds
    <2>4. QED
      BY <2>3 DEF closed, step
  <1>4. Loop([d \in Cursor |-> unshiftBack(d)], c, num) = unshiftBackN(c, num)
    <2> DEFINE closed == [n \in 0 .. num |-> unshiftBackN(c, n)]
               step == [d \in Cursor |-> unshiftBack(d)]
    <2>1. closed[0] = c
      <3>1. unshiftBackN(c, 0) = [head |-> c.head, tail |-> c.tail % Capacity, count |-> c.count]
        BY <1>0 DEF unshiftBackN, AtMost
      <3>2. c.tail % Capacity = c.tail
        BY <1>0, CapacityAssumption
      <3>3. QED
        BY <3>1, <3>2 DEF Cursor
    <2>2. ASSUME NEW n \in 0 .. num - 1 PROVE closed[n + 1] = step[closed[n]]
      <3>1. n \in Nat /\ n \in 0 .. num /\ n + 1 \in 0 .. num
        OBVIOUS
      <3>2. unshiftBackN(c, n) \in Cursor
        BY <3>1, UnshiftBackN
      <3>3. QED
        BY <3>1, <3>2, UnshiftBackNext
    <2> HIDE DEF closed, step
    <2>3. Loop(step, c, num) = closed[num]
      BY <2>1, <2>2, LoopEnds
    <2>4. QED
      BY <2>3 DEF closed, step
  <1>5. QED
    BY <1>1, <1>2, <1>3, <1>4

\* Whatever was called before, each bulk operation is the loop over single steps
\* that the code runs, for every number of iterations.
THEOREM BulkAlwaysLoop == Spec => []BulkIsLoop
  <1>1. IInv => BulkIsLoop
    <2> SUFFICES ASSUME IInv PROVE BulkIsLoop
      OBVIOUS
    <2>1. cur \in Cursor /\ Linked(cur) /\ 0 .. MaxBulk \subseteq Nat
      BY ValueAssumption DEF IInv, TypeOK
    <2>2. QED
      BY <2>1, LoopsFrom DEF BulkIsLoop
  <1>2. QED
    BY InitInv, StepInv, <1>1, PTL DEF Spec
=============================================================================
