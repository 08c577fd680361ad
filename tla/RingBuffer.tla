----------------------------- MODULE RingBuffer -----------------------------
(***************************************************************************)
(* The ring buffer of memory/: blocks linked to a ring by Prev and Next,   *)
(* written and read at both ends.  Front is the block the next value at    *)
(* the front goes to, Back the block of the value at the back; a full ring *)
(* and an empty one differ in ValidBlocks alone.                           *)
(*                                                                         *)
(* The code returns a pointer to a block, which the caller fills (or reads *)
(* at once); both are one step here.                                       *)
(***************************************************************************)
EXTENDS Naturals, Sequences

CONSTANTS Values,         \* what callers write
          Blocks,         \* arguments of LemonCreateRingBuffer
          BlocksPerPage,
          NoValue         \* the NULL a read of an empty buffer returns

Pages == Blocks \div BlocksPerPage + (IF Blocks % BlocksPerPage # 0 THEN 1 ELSE 0)
RingCapacity == Pages * BlocksPerPage

ASSUME RingAssumption ==
  Blocks \in Nat \ {0} /\ BlocksPerPage \in Nat \ {0} /\ NoValue \notin Values

Block == 1 .. RingCapacity

VARIABLES prev, nextBlock,   \* the links LemonCreateRingBuffer makes
          data,         \* what is in each block
          front, back, validBlocks,
          lastRead      \* what the last read returned

ringVars == <<prev, nextBlock, data, front, back, validBlocks, lastRead>>

(* Blocks are numbered in the order the loop over the pages visits them;   *)
(* each becomes Prev of the one before, and the last one's Prev the first. *)
RingInit ==
  /\ prev = [b \in Block |-> (b % RingCapacity) + 1]
  /\ nextBlock = [b \in Block |-> IF b = 1 THEN RingCapacity ELSE b - 1]
  /\ data \in [Block -> {NoValue}]
  /\ front = 1 /\ back = 1
  /\ validBlocks = RingCapacity
  /\ lastRead = NoValue

RingLength == RingCapacity - validBlocks

WriteFront(v) ==
  /\ data' = [data EXCEPT ![front] = v]
  /\ front' = nextBlock[front]
  /\ IF validBlocks = 0
     THEN back' = nextBlock[back] /\ UNCHANGED validBlocks
     ELSE validBlocks' = validBlocks - 1 /\ UNCHANGED back
  /\ lastRead' = NoValue
  /\ UNCHANGED <<prev, nextBlock>>

FrontStays == UNCHANGED front   \* a mutant of the next definition
FrontGivesWay == front' = prev[front]

WriteBack(v) ==
  /\ data' = [data EXCEPT ![prev[back]] = v]
  /\ back' = prev[back]
  /\ IF validBlocks = 0
     THEN FrontGivesWay /\ UNCHANGED validBlocks
     ELSE validBlocks' = validBlocks - 1 /\ UNCHANGED front
  /\ lastRead' = NoValue
  /\ UNCHANGED <<prev, nextBlock>>

ReadNothing ==
  /\ RingLength = 0
  /\ lastRead' = NoValue
  /\ UNCHANGED <<prev, nextBlock, data, front, back, validBlocks>>

ReadBack ==
  /\ RingLength > 0
  /\ lastRead' = data[back]
  /\ back' = nextBlock[back]
  /\ validBlocks' = validBlocks + 1
  /\ UNCHANGED <<prev, nextBlock, data, front>>

ReadFront ==
  /\ RingLength > 0
  /\ front' = prev[front]
  /\ lastRead' = data[prev[front]]
  /\ validBlocks' = validBlocks + 1
  /\ UNCHANGED <<prev, nextBlock, data, back>>

RingNext ==
  \/ ReadNothing \/ ReadBack \/ ReadFront
  \/ \E v \in Values : WriteFront(v) \/ WriteBack(v)

RingSpec == RingInit /\ [][RingNext]_ringVars

(* The blocks a walk of LemonRingBufferIteratorDecrement from              *)
(* LemonRingBufferBack passes.                                             *)
Walk[n \in 1 .. RingCapacity] == IF n = 1 THEN back ELSE nextBlock[Walk[n - 1]]

RingContents == [n \in 1 .. RingLength |-> data[Walk[n]]]

(* The ring is a bounded deque: whichever mixture of pushes and pops at    *)
(* the two ends, wrapping round or overwriting, a read returns what a deque *)
(* returns and iteration sees what the deque holds.                        *)
Deque == INSTANCE BoundedDeque WITH
  Value <- Values, Capacity <- RingCapacity, Nothing <- NoValue,
  deque <- RingContents, returned <- lastRead

RingIsDeque == Deque!Spec
=============================================================================
