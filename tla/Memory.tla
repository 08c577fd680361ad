------------------------------- MODULE Memory -------------------------------
(***************************************************************************)
(* The memory pool of memory/: pages that are used up from their end       *)
(* downwards; what does not fit opens a new page, what is larger than a    *)
(* page gets one of its own, kept behind the first so that the first stays *)
(* in use.  Nothing is given back but everything at once.  Below, the pool *)
(* and the small-object allocator side by side in one program.             *)
(***************************************************************************)
EXTENDS Allocators, Sequences

CONSTANTS PageSize,
          PoolAlign,   \* AlignSize of the pool
          MaxRequest,  \* largest size asked for
          MaxPages     \* bound: pages of the run

ASSUME PoolAssumption ==
  PageSize \in Nat \ {0} /\ PoolAlign \in Nat \ {0} /\ MaxRequest \in Nat /\ MaxPages \in Nat \ {0}

VARIABLES pages,   \* list of pages: [id, size, start]; the first is the one in use
          made,    \* number of pages made
          taken    \* history: blocks given out, [page, from, to, asked]

poolVars == <<pages, made, taken>>

Page(id, size) == [id |-> id, size |-> size, start |-> size]

PoolInit == pages = <<Page(1, PageSize)>> /\ made = 1 /\ taken = {}

(* A whole alignment is added to a size that is already aligned.  A mutant *)
(* first: sizes are rounded down.                                          *)
AlignedDown(size) == size - (size % PoolAlign)
Aligned(size) == (size + PoolAlign) - (size % PoolAlign)

(* LemonMemoryPoolPageAlloc from the i-th page of list, if it has room.    *)
TakeFrom(list, i, asked, n) ==
  LET p == list[i]
  IN  /\ p.start >= n
      /\ pages' = [list EXCEPT ![i].start = @ - n]
      /\ taken' = taken \cup {[page |-> p.id, from |-> p.start - n, to |-> p.start - n + asked,
                               asked |-> asked]}

PoolAlloc(asked) ==
  LET n == Aligned(asked)
  IN  /\ pages # <<>>
      /\ \/ /\ n > PageSize /\ made < MaxPages
            /\ TakeFrom(<<Head(pages), Page(made + 1, n)>> \o Tail(pages), 2, asked, n)
            /\ made' = made + 1
         \/ n <= PageSize /\ TakeFrom(pages, 1, asked, n) /\ UNCHANGED made
         \/ /\ n <= PageSize /\ Head(pages).start < n /\ made < MaxPages
            /\ TakeFrom(<<Page(made + 1, PageSize)>> \o pages, 1, asked, n)
            /\ made' = made + 1

(* LemonMemoryPoolGarbageCollect; an allocation after it has no first page *)
(* to look at.                                                             *)
GarbageCollect == pages' = <<>> /\ taken' = {} /\ UNCHANGED made

PoolNext == GarbageCollect \/ \E n \in 0 .. MaxRequest : PoolAlloc(n)

(* Blocks of one page do not overlap, lie within the page and above what   *)
(* it still has to give, whatever sizes are asked for in whatever order.   *)
BlocksDisjoint ==
  /\ \A x, y \in taken : x # y /\ x.page = y.page => x.to <= y.from \/ y.to <= x.from
  /\ \A x \in taken : \E i \in DOMAIN pages :
       pages[i].id = x.page /\ pages[i].start <= x.from /\ x.to <= pages[i].size

-----------------------------------------------------------------------------
MemoryInit == AllocInit /\ PoolInit

MemoryNext == (AllocNext /\ UNCHANGED poolVars) \/ (PoolNext /\ UNCHANGED allocVars)

MemorySpec == MemoryInit /\ [][MemoryNext]_<<allocVars, poolVars>>

(* The memory the allocators have given out and not taken back never overlaps: a
   block of the small-object allocator is free or in use and in one chunk, and the
   ranges of the pool lie apart within their pages. *)
MemoryApart == BlocksPlaced /\ BlocksDisjoint
=============================================================================
