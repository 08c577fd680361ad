----------------------------- MODULE Allocators -----------------------------
(***************************************************************************)
(* The small-object allocator of memory/: one fixed-size allocator for     *)
(* each multiple of the alignment, each a list of chunks of UCHAR_MAX      *)
(* blocks.  The free blocks of a chunk are linked through their first      *)
(* byte, the number of the next free block; a block in use holds whatever  *)
(* its owner writes.                                                       *)
(***************************************************************************)
EXTENDS Naturals, Sequences, FiniteSets

CONSTANTS UCHAR_MAX,    \* blocks in a chunk (255 in the code)
          AlignSize,
          MaxBlockSize,
          MaxChunks,    \* bound: chunks an allocator may ask for
          User          \* a byte the owner of a block has written

ASSUME AllocatorAssumption ==
  /\ UCHAR_MAX \in Nat \ {0} /\ AlignSize \in Nat \ {0} /\ MaxBlockSize \in Nat \ {0}
  /\ MaxChunks \in Nat /\ User \notin Nat

(* The fixed-size allocators; the i-th serves blocks of i * AlignSize.     *)
PoolSize == (MaxBlockSize + AlignSize - 1) \div AlignSize
Class == 1 .. PoolSize
Index(size) == (size + AlignSize - 1) \div AlignSize

VARIABLES
  chunks,      \* [Class -> Seq of chunks], oldest first; the code's list is newest first
  lastAlloc,   \* [Class -> LastAllocChunk, 0 for NULL]
  lastFree,    \* [Class -> LastFreeChunk, 0 for NULL]
  allocBlocks, \* [Class -> AllocBlocks]
  held,        \* blocks in use and the size that was asked for
  asserted     \* an assertion has failed

allocVars == <<chunks, lastAlloc, lastFree, allocBlocks, held, asserted>>

FreshChunk == [first |-> 0, available |-> UCHAR_MAX,
               byte |-> [b \in 0 .. UCHAR_MAX - 1 |-> b + 1]]

AllocInit ==
  /\ chunks = [c \in Class |-> <<>>]
  /\ lastAlloc = [c \in Class |-> 0] /\ lastFree = [c \in Class |-> 0]
  /\ allocBlocks = [c \in Class |-> 0]
  /\ held = {} /\ asserted = FALSE

(* LemonMemoryChunkAlloc: the first free block, cleared.  A mutant first:  *)
(* the next free block is read from the block that has just been cleared.  *)
ClearedFirst(chunk) ==
  [chunk EXCEPT !.byte[chunk.first] = User, !.first = 0, !.available = @ - 1]
ChunkAlloc(chunk) ==
  [chunk EXCEPT !.byte[chunk.first] = User, !.first = chunk.byte[chunk.first],
                !.available = @ - 1]

(* LemonMemoryChunkFree.                                                   *)
ChunkFree(chunk, b) ==
  [chunk EXCEPT !.byte[b] = chunk.first, !.first = b, !.available = @ + 1]

(* LemonFixObjectAlloc in chunk i of cs, which may be a new one.           *)
Take(c, cs, i, size) ==
  /\ chunks' = [chunks EXCEPT ![c] = [cs EXCEPT ![i] = ChunkAlloc(@)]]
  /\ lastAlloc' = [lastAlloc EXCEPT ![c] = i]
  /\ allocBlocks' = [allocBlocks EXCEPT ![c] = @ + 1]
  /\ held' = held \cup {[class |-> c, chunk |-> i, block |-> cs[i].first, size |-> size]}
  /\ UNCHANGED <<lastFree, asserted>>

HasBlock(c, i) == i # 0 /\ chunks[c][i].available > 0

(* LemonSmallObjAlloc; larger sizes go to malloc and leave no trace here.  *)
SmallObjAlloc(size) ==
  LET c == Index(size)
  IN  /\ size \in 1 .. MaxBlockSize
      /\ \/ HasBlock(c, lastAlloc[c]) /\ Take(c, chunks[c], lastAlloc[c], size)
         \/ /\ ~HasBlock(c, lastAlloc[c])
            /\ \E i \in DOMAIN chunks[c] :
                 /\ HasBlock(c, i) /\ \A j \in DOMAIN chunks[c] : HasBlock(c, j) => j <= i
                 /\ Take(c, chunks[c], i, size)
         \/ /\ \A i \in DOMAIN chunks[c] : ~HasBlock(c, i)
            /\ Len(chunks[c]) < MaxChunks
            /\ Take(c, Append(chunks[c], FreshChunk), Len(chunks[c]) + 1, size)

(* Of no bytes: the index is the largest size_t.                           *)
SmallObjAllocNothing ==
  /\ asserted' = TRUE
  /\ UNCHANGED <<chunks, lastAlloc, lastFree, allocBlocks, held>>

(* LemonSmallObjFree of a block and the size it was asked for with.  The   *)
(* chunk is the one of LastFreeChunk if the address is in it, else it is   *)
(* looked for in the list: the same chunk either way.                      *)
SmallObjFree(h) ==
  LET c == Index(h.size)
  IN  /\ h \in held
      /\ chunks' = [chunks EXCEPT ![c][h.chunk] = ChunkFree(@, h.block)]
      /\ lastFree' = [lastFree EXCEPT ![c] = h.chunk]
      /\ allocBlocks' = [allocBlocks EXCEPT ![c] = @ - 1]
      /\ held' = held \ {h}
      /\ UNCHANGED <<lastAlloc, asserted>>

(* LemoFixObjectFreeAll: all chunks are made new; owners lose their blocks. *)
FixObjectFreeAll(c) ==
  /\ chunks' = [chunks EXCEPT ![c] = [i \in DOMAIN @ |-> FreshChunk]]
  /\ lastAlloc' = [lastAlloc EXCEPT ![c] = 0] /\ lastFree' = [lastFree EXCEPT ![c] = 0]
  /\ allocBlocks' = [allocBlocks EXCEPT ![c] = 0]
  /\ held' = {h \in held : h.class # c}
  /\ UNCHANGED asserted

AllocNext ==
  /\ ~asserted
  /\ \/ \E size \in 1 .. MaxBlockSize : SmallObjAlloc(size)
     \/ SmallObjAllocNothing
     \/ \E h \in held : SmallObjFree(h)
     \/ \E c \in Class : FixObjectFreeAll(c)

----------------------------------------------------------------------------
(* The free list of a chunk as the next allocations will follow it.        *)
FreeList(chunk) ==
  LET f[n \in 1 .. chunk.available] ==
        IF n = 1 THEN chunk.first ELSE chunk.byte[f[n - 1]]
  IN  {f[n] : n \in DOMAIN f}

HeldIn(c, i) == {h \in held : h.class = c /\ h.chunk = i}

(* In every order of allocations and frees, the free list threaded through *)
(* a chunk's blocks has exactly the blocks nobody holds, so a block is     *)
(* never handed out twice nor lost; held blocks are as large as was asked, *)
(* and the count of blocks in use is right.                                *)
BlocksPlaced ==
  /\ \A c \in Class : \A i \in DOMAIN chunks[c] :
       /\ FreeList(chunks[c][i]) = (0 .. UCHAR_MAX - 1) \ {h.block : h \in HeldIn(c, i)}
       /\ chunks[c][i].available + Cardinality(HeldIn(c, i)) = UCHAR_MAX
  /\ \A h \in held : h.size <= h.class * AlignSize
  /\ \A c \in Class : allocBlocks[c] = Cardinality({h \in held : h.class = c})
=============================================================================
