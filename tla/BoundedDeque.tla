---------------------------- MODULE BoundedDeque ----------------------------
(***************************************************************************)
(* What the ring buffer of memory/ promises: a deque of at most Capacity   *)
(* values, in which a value pushed at one end of a full deque takes the    *)
(* place of the value at the other end.                                    *)
(***************************************************************************)
EXTENDS Naturals, Sequences

CONSTANTS Value, Capacity, Nothing

VARIABLES deque,     \* back to front
          returned   \* what the last read returned

Init == deque = <<>> /\ returned = Nothing

Full == Len(deque) = Capacity

PushBack(v) ==
  /\ deque' = <<v>> \o (IF Full THEN SubSeq(deque, 1, Capacity - 1) ELSE deque)
  /\ returned' = Nothing

PushFront(v) ==
  /\ deque' = Append(IF Full THEN Tail(deque) ELSE deque, v)
  /\ returned' = Nothing

PopBack ==
  IF deque = <<>> THEN deque' = deque /\ returned' = Nothing
  ELSE deque' = Tail(deque) /\ returned' = Head(deque)

PopFront ==
  IF deque = <<>> THEN deque' = deque /\ returned' = Nothing
  ELSE /\ deque' = SubSeq(deque, 1, Len(deque) - 1)
       /\ returned' = deque[Len(deque)]

Next == PopBack \/ PopFront \/ \E v \in Value : PushBack(v) \/ PushFront(v)

Spec == Init /\ [][Next]_<<deque, returned>>
=============================================================================
