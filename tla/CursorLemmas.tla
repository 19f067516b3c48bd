---------------------------- MODULE CursorLemmas ----------------------------
(***************************************************************************)
(* What the cursor operations of CircularCursor do to the cells of the     *)
(* elements, for every capacity.                                           *)
(***************************************************************************)
EXTENDS CircularCursor, WellFoundedInduction, TLAPS

-----------------------------------------------------------------------------
(* Facts about %, for every modulus.                                       *)

\* A number is its quotient times the modulus plus its remainder.
LEMMA DivMod ==
  ASSUME NEW C \in Nat \ {0}, NEW a \in Int
  PROVE  /\ a % C \in 0 .. C - 1
         /\ a \div C \in Int
         /\ a = C * (a \div C) + (a % C)
  BY SMT

\* The remainder is the only r in 0 .. C-1 with a = C * q + r.
LEMMA ModUnique ==
  ASSUME NEW C \in Nat \ {0}, NEW a \in Int, NEW q \in Int,
         NEW r \in 0 .. C - 1, a = C * q + r
  PROVE  a % C = r
  <1>1. /\ a = C * (a \div C) + (a % C)
        /\ a % C \in 0 .. C - 1
        /\ a \div C \in Int
    BY DivMod
  <1>2. C * (q - (a \div C)) = (a % C) - r
    BY <1>1
  <1>3. q - (a \div C) = 0
    <2>1. CASE q - (a \div C) >= 1
      <3>1. C * (q - (a \div C)) >= C
        BY <2>1, <1>1
      <3>2. QED
        BY <3>1, <1>1, <1>2
    <2>2. CASE q - (a \div C) <= -1
      <3>1. C * (q - (a \div C)) <= -C
        BY <2>2, <1>1
      <3>2. QED
        BY <3>1, <1>1, <1>2
    <2>3. QED
      BY <2>1, <2>2, <1>1
  <1>4. QED
    BY <1>1, <1>2, <1>3

\* Reducing a summand first changes nothing.
LEMMA ModAdd ==
  ASSUME NEW C \in Nat \ {0}, NEW a \in Int, NEW b \in Int
  PROVE  ((a % C) + b) % C = (a + b) % C
  <1> DEFINE x == (a % C) + b
             q == ((a + b) \div C) - (a \div C)
             r == (a + b) % C
  <1>1. a = C * (a \div C) + (a % C) /\ a % C \in 0 .. C - 1 /\ a \div C \in Int
    BY DivMod
  <1>2. /\ a + b = C * ((a + b) \div C) + ((a + b) % C)
        /\ (a + b) % C \in 0 .. C - 1
        /\ (a + b) \div C \in Int
    <2>1. a + b \in Int
      OBVIOUS
    <2>2. QED
      BY <2>1, DivMod
  <1>3. x \in Int /\ q \in Int /\ r \in 0 .. C - 1 /\ x = C * q + r
    BY <1>1, <1>2
  <1> HIDE DEF x, q, r
  <1>4. x % C = r
    BY <1>3, ModUnique
  <1>5. QED
    BY <1>4 DEF x, r

-----------------------------------------------------------------------------
(* Induction.                                                              *)

\* Every set of natural numbers has a least element.
LEMMA LeastNat ==
  ASSUME NEW T, T \subseteq Nat, T # {}
  PROVE  \E x \in T : \A y \in T : x <= y
  <1>1. IsWellFoundedOn(OpToRel(<, Nat), Nat)
    BY NatLessThanWellFounded
  <1>2. PICK x \in T : \A y \in T : ~ (<<y, x>> \in OpToRel(<, Nat))
    BY <1>1, WFMin
  <1>3. ASSUME NEW y \in T PROVE x <= y
    <2>1. ~ (y < x)
      BY <1>2 DEF OpToRel
    <2>2. x \in Nat /\ y \in Nat
      OBVIOUS
    <2>3. QED
      BY <2>1, <2>2
  <1>4. QED
    BY <1>3

\* What holds of 0 and passes on to the successor holds of every number.
LEMMA NatInd ==
  ASSUME NEW G, 0 \in G, \A n \in Nat : n \in G => n + 1 \in G
  PROVE  Nat \subseteq G
  <1> SUFFICES ASSUME Nat \ G # {} PROVE FALSE
    OBVIOUS
  <1>1. PICK x \in Nat \ G : \A y \in Nat \ G : x <= y
    BY LeastNat
  <1>2. x # 0
    OBVIOUS
  <1>3. x - 1 \in Nat /\ x - 1 \notin Nat \ G
    BY <1>1, <1>2
  <1>4. QED
    BY <1>1, <1>3

-----------------------------------------------------------------------------
(* Cells.                                                                  *)

\* The relation between head, tail and count: the back is the last of count
\* cells from the front on.
Linked(c) == c.count > 0 => c.tail = At(c, c.count - 1)

\* A remainder is a cell.
LEMMA ModCell ==
  ASSUME NEW a \in Int
  PROVE  a % Capacity \in Cell
  BY CapacityAssumption, DivMod DEF Cell

\* The cell b steps after cell a, without %.
LEMMA CellAfter ==
  ASSUME NEW a \in 0 .. Capacity - 1, NEW b \in 0 .. Capacity
  PROVE  /\ (a + b) % Capacity \in 0 .. Capacity - 1
         /\ (a + b) % Capacity = IF a + b < Capacity THEN a + b ELSE a + b - Capacity
  <1>1. CASE a + b < Capacity
    BY <1>1, CapacityAssumption
  <1>2. CASE a + b >= Capacity
    BY <1>2, CapacityAssumption
  <1>3. QED
    BY <1>1, <1>2, CapacityAssumption

\* The cell of the i-th element, without %.
LEMMA AtCell ==
  ASSUME NEW c \in Cursor, NEW i \in 0 .. Capacity - 1
  PROVE  /\ At(c, i) \in 0 .. Capacity - 1
         /\ At(c, i) = IF c.head + i < Capacity THEN c.head + i ELSE c.head + i - Capacity
  <1>1. c.head \in 0 .. Capacity - 1 /\ i \in 0 .. Capacity
    BY CapacityAssumption DEF Cursor, Cell
  <1>2. QED
    BY <1>1, CellAfter DEF At

\* Different positions have different cells.
LEMMA AtInjective ==
  ASSUME NEW c \in Cursor, NEW i \in 0 .. Capacity - 1, NEW j \in 0 .. Capacity - 1, i # j
  PROVE  At(c, i) # At(c, j)
  <1>1. c.head \in 0 .. Capacity - 1
    BY DEF Cursor, Cell
  <1>2. QED
    BY <1>1, AtCell, CapacityAssumption

\* Going on from a reduced cell is going on from where it came from.
LEMMA CellChain ==
  ASSUME NEW x \in Int, NEW y \in Int
  PROVE  ((x % Capacity) + y) % Capacity = (x + y) % Capacity
  BY CapacityAssumption, ModAdd

\* The same number of steps from the same cell, cut in two at different
\* places, ends in the same cell.
LEMMA CellChains ==
  ASSUME NEW x \in Int, NEW y \in Int, NEW m \in Int, NEW n \in Int, x + m = y + n
  PROVE  ((x % Capacity) + m) % Capacity = ((y % Capacity) + n) % Capacity
  <1>1. ((x % Capacity) + m) % Capacity = (x + m) % Capacity
    BY CellChain
  <1>2. ((y % Capacity) + n) % Capacity = (y + n) % Capacity
    BY CellChain
  <1>3. QED
    BY <1>1, <1>2

\* The numbers in a cursor.
LEMMA CursorInts ==
  ASSUME NEW c \in Cursor
  PROVE  c.head \in 0 .. Capacity - 1 /\ c.tail \in 0 .. Capacity - 1 /\ c.count \in 0 .. Capacity
  BY DEF Cursor, Cell

LEMMA ShiftBackN ==
  ASSUME NEW c \in Cursor, Linked(c), NEW n \in Nat
  PROVE  /\ shiftBackN(c, n) \in Cursor
         /\ Linked(shiftBackN(c, n))
         /\ shiftBackN(c, n).count = c.count + n - OverNum(c, n)
         /\ OverNum(c, n) \in 0 .. n
  <1> DEFINE d == shiftBackN(c, n)
             k == OverNum(c, n)
             h == IF c.count = 0 THEN c.tail + 1 ELSE c.head
             e == AtMost(c.count + n, Capacity)
  <1>1. c.head \in 0 .. Capacity - 1 /\ c.tail \in 0 .. Capacity - 1 /\ c.count \in 0 .. Capacity
    BY CursorInts
  <1>2. k \in 0 .. n /\ e \in 0 .. Capacity /\ e = c.count + n - k /\ h \in Int
    BY <1>1, CapacityAssumption DEF OverNum, Excess, AtMost
  <1>3. CASE n = 0
    BY <1>1, <1>3, CapacityAssumption DEF shiftBackN, OverNum, Excess
  <1>4. CASE n > 0
    <2>1. d = [head |-> (h + k) % Capacity, tail |-> (c.tail + n) % Capacity, count |-> e]
      BY <1>4 DEF shiftBackN, isEmpty
    <2> HIDE DEF d, k, h, e
    <2>2. (h + k) % Capacity \in Cell /\ (c.tail + n) % Capacity \in Cell
      BY <1>1, <1>2, ModCell
    <2>3. d \in Cursor
      BY <2>1, <2>2, <1>2 DEF Cursor
    <2>4. (c.tail + n) % Capacity = (((h + k) % Capacity) + (e - 1)) % Capacity
      <3>1. CASE c.count = 0
        <4>1. h = c.tail + 1
          BY <3>1 DEF h
        <4>2. ((h + k) + (e - 1)) = c.tail + n
          BY <4>1, <3>1, <1>1, <1>2
        <4>3. QED
          BY <4>2, <1>1, <1>2, CellChain
      <3>2. CASE c.count > 0
        <4>1. h = c.head /\ c.tail = (c.head + (c.count - 1)) % Capacity
          BY <3>2 DEF h, Linked, At
        <4>2. (c.head + (c.count - 1)) + n = (h + k) + (e - 1)
          BY <4>1, <1>1, <1>2
        <4>3. QED
          BY <4>1, <4>2, <1>1, <1>2, CellChains
      <3>3. QED
        BY <3>1, <3>2, <1>1
    <2>5. QED
      BY <2>1, <2>3, <2>4, <1>2 DEF Linked, At, d, k
  <1>5. QED
    BY <1>3, <1>4

\* The elements that shiftBack(n) does not push off the front keep their cells.
LEMMA ShiftBackKeeps ==
  ASSUME NEW c \in Cursor, c.count > 0, NEW n \in Nat \ {0}, NEW i \in Int
  PROVE  At(shiftBackN(c, n), i - OverNum(c, n)) = At(c, i)
  <1> DEFINE k == OverNum(c, n)
  <1>1. c.head \in Int /\ k \in Int /\ c.count \in Int
    BY CursorInts, CapacityAssumption DEF OverNum, Excess
  <1>2. shiftBackN(c, n).head = (c.head + k) % Capacity
    BY DEF shiftBackN, isEmpty
  <1> HIDE DEF k
  <1> DEFINE x == c.head + k
             y == i - k
  <1>3. x \in Int /\ y \in Int /\ x + y = c.head + i
    BY <1>1
  <1> HIDE DEF x, y
  <1>4. ((x % Capacity) + y) % Capacity = (x + y) % Capacity
    BY <1>3, CellChain
  <1>5. QED
    BY <1>2, <1>3, <1>4 DEF At, k, x, y

LEMMA UnshiftFrontN ==
  ASSUME NEW c \in Cursor, Linked(c), NEW n \in Nat
  PROVE  /\ unshiftFrontN(c, n) \in Cursor
         /\ Linked(unshiftFrontN(c, n))
         /\ unshiftFrontN(c, n).count = c.count + n - OverNum(c, n)
         /\ OverNum(c, n) \in 0 .. n
  <1> DEFINE d == unshiftFrontN(c, n)
             k == OverNum(c, n)
             t == IF c.count = 0 THEN c.head - 1 ELSE c.tail
             e == AtMost(c.count + n, Capacity)
  <1>1. c.head \in 0 .. Capacity - 1 /\ c.tail \in 0 .. Capacity - 1 /\ c.count \in 0 .. Capacity
    BY CursorInts
  <1>2. k \in 0 .. n /\ e \in 0 .. Capacity /\ e = c.count + n - k /\ t \in Int
    BY <1>1, CapacityAssumption DEF OverNum, Excess, AtMost
  <1>3. CASE n = 0
    BY <1>1, <1>3, CapacityAssumption DEF unshiftFrontN, OverNum, Excess
  <1>4. CASE n > 0
    <2>1. d = [head |-> (c.head - n) % Capacity, tail |-> (t - k) % Capacity, count |-> e]
      BY <1>4 DEF unshiftFrontN, isEmpty
    <2> HIDE DEF d, k, t, e
    <2>2. (c.head - n) % Capacity \in Cell /\ (t - k) % Capacity \in Cell
      BY <1>1, <1>2, ModCell
    <2>3. d \in Cursor
      BY <2>1, <2>2, <1>2 DEF Cursor
    <2>4. (t - k) % Capacity = (((c.head - n) % Capacity) + (e - 1)) % Capacity
      <3>1. CASE c.count = 0
        <4>1. t = c.head - 1
          BY <3>1 DEF t
        <4> DEFINE x == c.head - n
                   y == e - 1
        <4>2. x \in Int /\ y \in Int /\ x + y = t - k
          BY <4>1, <3>1, <1>1, <1>2
        <4> HIDE DEF x, y
        <4>3. ((x % Capacity) + y) % Capacity = (x + y) % Capacity
          BY <4>2, CellChain
        <4>4. QED
          BY <4>2, <4>3 DEF x, y
      <3>2. CASE c.count > 0
        <4>1. t = (c.head + (c.count - 1)) % Capacity
          BY <3>2 DEF t, Linked, At
        <4>2. (c.head + (c.count - 1)) + (-k) = (c.head - n) + (e - 1)
          BY <1>1, <1>2
        <4>3. (t + (-k)) % Capacity = (((c.head - n) % Capacity) + (e - 1)) % Capacity
          BY <4>1, <4>2, <1>1, <1>2, CellChains
        <4>4. QED
          BY <4>3, <1>2
      <3>3. QED
        BY <3>1, <3>2, <1>1
    <2>5. QED
      BY <2>1, <2>3, <2>4, <1>2 DEF Linked, At, d, k
  <1>5. QED
    BY <1>3, <1>4

\* unshiftFront(n) moves the elements n positions back and leaves their cells.
LEMMA UnshiftFrontKeeps ==
  ASSUME NEW c \in Cursor, NEW n \in Nat \ {0}, NEW i \in Int
  PROVE  At(unshiftFrontN(c, n), i + n) = At(c, i)
  <1>1. c.head \in Int
    BY CursorInts
  <1>2. unshiftFrontN(c, n).head = (c.head - n) % Capacity
    BY DEF unshiftFrontN
  <1> DEFINE x == c.head - n
             y == i + n
  <1>3. x \in Int /\ y \in Int /\ x + y = c.head + i
    BY <1>1
  <1> HIDE DEF x, y
  <1>4. ((x % Capacity) + y) % Capacity = (x + y) % Capacity
    BY <1>3, CellChain
  <1>5. QED
    BY <1>2, <1>3, <1>4 DEF At, x, y
=============================================================================
