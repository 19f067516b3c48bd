---------------------------- MODULE BoundedDeque ----------------------------
(***************************************************************************)
(* What NCircularBuffer promises its users: a double-ended queue of at     *)
(* most Capacity elements.  Adding at one end of a full deque drops        *)
(* elements at the other end, and the adding call reports it: shiftBack    *)
(* returns how many elements were dropped, unshiftFront whether its last   *)
(* element found room.  CircularBuffer implements this specification.      *)
(***************************************************************************)
EXTENDS Integers, Sequences, SequencesExt

CONSTANTS
  Capacity,   \* the number of elements the deque can hold
  Value,      \* the elements
  MaxBulk     \* bound on how many elements one call adds or removes

VARIABLES
  items,      \* the elements, front first
  dropped,    \* what the last shiftBack returned
  hadRoom     \* what the last unshiftFront returned

dequeVars == <<items, dropped, hadRoom>>

Init ==
  /\ items = <<>>
  /\ dropped = 0
  /\ hadRoom = TRUE

\* The elements added are arbitrary: shiftBack(n) and unshiftFront(n) expose
\* cells without writing them.
AddBack(added) ==
  LET all  == items \o added
      over == IF Len(all) > Capacity THEN Len(all) - Capacity ELSE 0
  IN  /\ items' = SubSeq(all, over + 1, Len(all))
      /\ dropped' = over
      /\ UNCHANGED hadRoom

AddFront(added) ==
  LET all == added \o items
  IN  /\ items' = SubSeq(all, 1, IF Len(all) > Capacity THEN Capacity ELSE Len(all))
      /\ hadRoom' = (Len(all) <= Capacity)
      /\ UNCHANGED dropped

RemoveFront(n) ==
  /\ items' = SubSeq(items, n + 1, Len(items))
  /\ UNCHANGED <<dropped, hadRoom>>

RemoveBack(n) ==
  /\ items' = SubSeq(items, 1, Len(items) - n)
  /\ UNCHANGED <<dropped, hadRoom>>

Clear ==
  /\ items' = <<>>
  /\ UNCHANGED <<dropped, hadRoom>>

Next ==
  \/ \E added \in BoundedSeq(Value, MaxBulk) : AddBack(added) \/ AddFront(added)
  \/ \E n \in 0 .. MaxBulk : RemoveFront(n) \/ RemoveBack(n)
  \/ Clear

Spec == Init /\ [][Next]_dequeVars
=============================================================================
