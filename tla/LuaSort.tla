------------------------------ MODULE LuaSort -------------------------------
(***************************************************************************)
(* The table library (ltablib.c).  table.sort is a quicksort that asks a   *)
(* function of the program which of two elements comes first, one step     *)
(* each; the function may answer anything.  insert, remove, concat, unpack *)
(* and tpack are operators.                                                 *)
(***************************************************************************)
EXTENDS Integers, Sequences
LOCAL INSTANCE SequencesExt
LOCAL INSTANCE FiniteSetsExt

CONSTANTS Lists,        \* lists to sort, of integers
          Element,      \* an element to insert
          NoElem,       \* nil
          INT_MAX,      \* of a C int that is narrow enough to enumerate
          StackRoom     \* how many values lua_checkstack finds room for

VARIABLES unsorted,    \* the list before it was sorted
          list,      \* the list
          ranges,    \* the ranges auxsort works on, each called by the one before
          query,       \* the comparison that is next, "done" or "error"
          up, down, pivot,  \* the indices of the partition and the pivot
          honest    \* every answer so far was that of <

sortVars == <<unsorted, list, ranges, query, up, down, pivot, honest>>

SortInit ==
  /\ unsorted \in Lists /\ list = unsorted
  /\ ranges = <<[l |-> 1, u |-> Len(unsorted)]>>
  /\ query = IF Len(unsorted) > 1 THEN "ends" ELSE "done"
  /\ up = 1 /\ down = 1 /\ pivot = NoElem /\ honest = TRUE

\* no list to sort
SortIdle ==
  /\ unsorted = <<>> /\ list = <<>> /\ ranges = <<>> /\ query = "idle"
  /\ up = 1 /\ down = 1 /\ pivot = NoElem /\ honest = TRUE

lo == Last(ranges).l
hi == Last(ranges).u

(* set2 after both elements were read.                                     *)
set2(a, x, y) == [a EXCEPT ![x] = a[y], ![y] = a[x]]
SwapIf(b, x, y) == list' = IF b THEN set2(list, x, y) ELSE list

(* sort_comp(x, y) answered b.                                             *)
sort_comp(x, y, b) == honest' = (honest /\ b = (x < y))

(* Goes on with the ranges that have more than one element; the others     *)
(* return to their callers.                                                *)
RECURSIVE LeaveRanges(_)
LeaveRanges(c) == IF c # <<>> /\ Last(c).l >= Last(c).u THEN LeaveRanges(Front(c)) ELSE c

NextRange(c) ==
  /\ ranges' = LeaveRanges(c)
  /\ query' = IF LeaveRanges(c) = <<>> THEN "done" ELSE "ends"
  /\ UNCHANGED <<up, down, pivot>>

LeaveRange == Front(ranges)

(* a[u] < a[l]?                                                            *)
CompareEnds(b) ==
  /\ query = "ends"
  /\ sort_comp(list[hi], list[lo], b) /\ SwapIf(b, lo, hi)
  /\ IF hi - lo = 1 THEN NextRange(LeaveRange)
     ELSE query' = "low" /\ up' = (lo + hi) \div 2 /\ UNCHANGED <<ranges, down, pivot>>
  /\ UNCHANGED unsorted

(* The three elements are in order: with the pivot moved next to the last  *)
(* one, the partition starts with the second.                              *)
StartPartition(a) ==
  IF hi - lo = 2 THEN list' = a /\ NextRange(LeaveRange)
  ELSE /\ pivot' = a[up] /\ list' = set2(a, up, hi - 1)
       /\ up' = lo + 1 /\ down' = hi - 1 /\ query' = "up" /\ UNCHANGED ranges

(* a[i] < a[l]?                                                            *)
CompareLow(b) ==
  /\ query = "low"
  /\ sort_comp(list[up], list[lo], b)
  /\ IF b THEN StartPartition(set2(list, up, lo))
     ELSE query' = "high" /\ UNCHANGED <<list, ranges, up, down, pivot>>
  /\ UNCHANGED unsorted

(* a[u] < a[i]?                                                            *)
CompareHigh(b) ==
  /\ query = "high"
  /\ sort_comp(list[hi], list[up], b)
  /\ StartPartition(IF b THEN set2(list, up, hi) ELSE list)
  /\ UNCHANGED unsorted

PastTheEnd == up > hi
TooFarUp == up >= hi
InvalidOrder == query' = "error" /\ UNCHANGED <<up, down>>

(* a[i] < P?                                                               *)
CompareUp(b) ==
  /\ query = "up"
  /\ sort_comp(list[up], pivot, b)
  /\ CASE b /\ TooFarUp -> InvalidOrder
       [] b /\ ~TooFarUp -> up' = up + 1 /\ UNCHANGED <<query, down>>
       [] ~b -> query' = "down" /\ down' = down - 1 /\ UNCHANGED up
  /\ UNCHANGED <<unsorted, list, ranges, pivot>>

(* The pivot takes its place; the smaller side is sorted by a call, the    *)
(* larger one by the loop.                                                 *)
SmallerFirst(below, above) ==
  IF up - lo < hi - up THEN <<above, below>> ELSE <<below, above>>

Halves == SmallerFirst([l |-> lo, u |-> up - 1], [l |-> up + 1, u |-> hi])

(* P < a[j]?                                                               *)
CompareDown(b) ==
  /\ query = "down"
  /\ sort_comp(pivot, list[down], b)
  /\ CASE b /\ down <= lo -> InvalidOrder /\ UNCHANGED <<list, ranges, pivot>>
       [] b /\ down > lo -> down' = down - 1 /\ UNCHANGED <<list, ranges, query, up, pivot>>
       [] ~b /\ down >= up -> /\ list' = set2(list, up, down) /\ up' = up + 1 /\ query' = "up"
                              /\ UNCHANGED <<ranges, down, pivot>>
       [] ~b /\ down < up -> list' = set2(list, hi - 1, up) /\ NextRange(LeaveRange \o Halves)
  /\ UNCHANGED unsorted

SortNext == \E b \in BOOLEAN : \/ CompareEnds(b) \/ CompareLow(b) \/ CompareHigh(b)
                               \/ CompareUp(b) \/ CompareDown(b)

(* ---------------- insert, remove, concat, unpack, tpack ----------------- *)

Elem(t, k) == IF k \in DOMAIN t THEN t[k] ELSE NoElem
rawseti(t, k, v) == [n \in DOMAIN t \cup {k} |-> IF n = k THEN v ELSE t[n]]

\* the indices from a down to b
Downward(a, b) == [n \in 1 .. a - b + 1 |-> a - n + 1]
Upward(a, b) == [n \in 1 .. b - a + 1 |-> a + n - 1]

MoveUp(t, first, last) ==
  FoldLeft(LAMBDA x, k : rawseti(x, k, Elem(x, k - 1)), t, Downward(last, first))

tinsert(t, pos, v) ==
  LET e == Max({Len(t) + 1, pos}) IN rawseti(MoveUp(t, pos + 1, e), pos, v)

tremove(t, pos) ==
  LET e == Len(t)
      moved == FoldLeft(LAMBDA x, k : rawseti(x, k, Elem(x, k + 1)), t, Upward(pos, e - 1))
  IN IF pos \notin 1 .. e THEN [list |-> t, result |-> NoElem]
     ELSE [list |-> [k \in 1 .. e - 1 |-> moved[k]], result |-> t[pos]]

(* sep between the elements, none behind the last.                         *)
tconcat(t, first, last, sep) ==
  LET most == FoldLeft(LAMBDA b, k : b \o <<t[k], sep>>, <<>>, Upward(first, last - 1))
  IN IF first <= last THEN Append(most, t[last]) ELSE <<>>

(* An int of the machine.                                                  *)
Int32(n) == LET m == 2 * (INT_MAX + 1) IN ((n + INT_MAX + 1) % m) - (INT_MAX + 1)

TooMany == "too many results to unpack"
unpack(t, first, e) ==
  LET n == Int32(e - first + 1)
  IN IF first > e THEN <<>>
     ELSE IF n <= 0 \/ n > StackRoom THEN TooMany
     ELSE [k \in 1 .. n |-> Elem(t, first + k - 1)]

tpack(args) == [n |-> Len(args),
               list |-> FoldLeft(LAMBDA t, k : rawseti(t, k, args[k]), <<>>, Downward(Len(args), 1))]

(* ------------------------------ properties ----------------------------- *)

Times(t, x) == Cardinality({k \in DOMAIN t : t[k] = x})

(* Whatever the order function answers: sorting looks at no element        *)
(* outside of the range it works on, loses and doubles none, also when it  *)
(* raises `invalid order function', and its calls, which each hold a part  *)
(* of the C stack and of the 40 slots reserved, work on ever smaller       *)
(* halves.  If the answers are those of an order, the list ends up sorted  *)
(* and no error is raised.                                                 *)
SortsWithin ==
  /\ query = "up" => up \in lo .. hi
  /\ query = "down" => down \in lo .. hi
  /\ \A x \in ToSet(unsorted) \cup ToSet(list) : Times(list, x) = Times(unsorted, x)
  /\ \A k \in DOMAIN ranges : (ranges[k].u - ranges[k].l + 1) * 2 ^ (k - 1) <= Len(unsorted)
  /\ query = "error" => ~honest
  /\ query = "done" /\ honest => \A k \in 1 .. Len(list) - 1 : list[k] <= list[k + 1]

(* Elements are moved one at a time within the list itself, and none       *)
(* overwrites another that is still to be moved; the number of results is  *)
(* counted in an int that may overflow.                                    *)
ListsKept ==
  query = "done" =>
    /\ \A pos \in 1 .. Len(list) + 1 : tinsert(list, pos, Element) = InsertAt(list, pos, Element)
    /\ \A pos \in 1 .. Len(list) : tremove(list, pos) = [list |-> RemoveAt(list, pos),
                                                       result |-> list[pos]]
    /\ tpack(list) = [n |-> Len(list), list |-> list]
    /\ \A a, e \in 1 .. Len(list) :
         tconcat(list, a, e, Element) = FlattenSeq([k \in 1 .. e - a + 1 |->
           IF k = 1 THEN <<list[a]>> ELSE <<Element, list[a + k - 1]>>])
    /\ \A a, e \in -INT_MAX - 1 .. INT_MAX :
         IF e - a + 1 > StackRoom THEN unpack(list, a, e) = TooMany
         ELSE unpack(list, a, e) = [k \in 1 .. e - a + 1 |-> Elem(list, a + k - 1)]

TableLibrary == SortsWithin /\ ListsKept
=============================================================================
