------------------------------ MODULE IrpTable ------------------------------
(***************************************************************************)
(* The memory of the IRP table, io/irp.cpp: objects of files in doubly     *)
(* linked chains of a hash table that grows, and in each object a doubly   *)
(* linked queue of IRPs.  All under the table's mutex, so that an          *)
(* operation is one step.  Reactor sees the same table as a function from  *)
(* files to sequences: this module is why it may.  Built for completion    *)
(* ports the table also drops an object whose IRPs are all cancelled       *)
(* (LemonIRPCounter under LEMON_IO_IOCP); Iocp has that.                   *)
(***************************************************************************)
EXTENDS Integers, FiniteSets, Lists

CONSTANTS Handles,      \* __lemon_io_file; one object each
          Irps,
          HandleHash,   \* [Handles -> Nat]: LemonIRPTableHashF is this modulo the irpBuckets
          FirstBuckets, \* 1024 in the code
          NoIrp         \* NULL, of both kinds

ASSUME IrpTableAssumption ==
  /\ HandleHash \in [Handles -> Nat] /\ FirstBuckets \in Nat \ {0}
  /\ NoIrp \notin Handles \cup Irps /\ IsFiniteSet(Handles) /\ IsFiniteSet(Irps)

VARIABLES
  irpArray,    \* [0 .. irpBuckets - 1 -> first object]
  irpCounter,  \* table->Counter
  objNext, objPrev,          \* [Handles -> object]
  firstIrp, lastIrp,              \* [Handles -> IRP]: IRPsHeader, IRPsTail
  irpNext, irpPrev,          \* [Irps -> IRP]
  queues    \* the promise: [files that have an object -> IRPs, in order]

irpTableVars == <<irpArray, irpCounter, objNext, objPrev, firstIrp, lastIrp, irpNext, irpPrev, queues>>
irpHashVars == <<irpArray, irpCounter, objNext, objPrev>>

IrpTableInit ==
  /\ irpArray = [b \in 0 .. FirstBuckets - 1 |-> NoIrp] /\ irpCounter = 0
  /\ objNext = [h \in Handles |-> NoIrp] /\ objPrev = [h \in Handles |-> NoIrp]
  /\ firstIrp = [h \in Handles |-> NoIrp] /\ lastIrp = [h \in Handles |-> NoIrp]
  /\ irpNext = [i \in Irps |-> NoIrp] /\ irpPrev = [i \in Irps |-> NoIrp]
  /\ queues = <<>>

irpBuckets == Cardinality(DOMAIN irpArray)

(* What pointers reach; a walk that does not end stops after all there is. *)
Walked(first, nexts, most) ==
  LET walk[n \in 1 .. most + 1] ==
        IF n = 1 THEN first
        ELSE IF walk[n - 1] = NoIrp THEN NoIrp ELSE nexts[walk[n - 1]]
  IN [n \in {k \in DOMAIN walk : walk[k] # NoIrp} |-> walk[n]]

IrpChain(b) == Walked(irpArray[b], objNext, Cardinality(Handles))

(* LemonIRPTableSearch.                                                    *)
SearchFile(h) ==
  LET c == IrpChain(HandleHash[h] % irpBuckets) IN \E i \in DOMAIN c : c[i] = h

(* Putting an object in front of its chain; hash is the chains so far.     *)
Pushed(hash, h) ==
  LET b == HandleHash[h] % Cardinality(DOMAIN hash.array)
      first == hash.array[b]
  IN [array |-> [hash.array EXCEPT ![b] = h],
      nexts |-> [hash.nexts EXCEPT ![h] = first],
      prevs |-> IF first = NoIrp THEN hash.prevs ELSE [hash.prevs EXCEPT ![first] = h]]

(* LemonIRPTableResize: objects move one by one, chain after chain.        *)
ForgetPrev(prevs, h) == prevs   \* a mutant of the next definition
ClearPrev(prevs, h) == [prevs EXCEPT ![h] = NoIrp]

ResizedTable ==
  LET new == [array |-> [b \in 0 .. 2 * irpBuckets - 1 |-> NoIrp],
              nexts |-> objNext, prevs |-> objPrev]
      Move(hash, h) == Pushed([hash EXCEPT !.prevs = ClearPrev(hash.prevs, h)], h)
      chain[b \in 0 .. irpBuckets] == IF b = 0 THEN <<>> ELSE chain[b - 1] \o IrpChain(b - 1)
      all == chain[irpBuckets]
      moved[n \in 0 .. Len(all)] == IF n = 0 THEN new ELSE Move(moved[n - 1], all[n])
  IN moved[Len(all)]

(* LemonPushIRP: at the end.                                               *)
PushIrp(h, i) ==
  /\ lastIrp' = [lastIrp EXCEPT ![h] = i]
  /\ irpPrev' = [irpPrev EXCEPT ![i] = lastIrp[h]]
  /\ IF firstIrp[h] = NoIrp
     THEN firstIrp' = [firstIrp EXCEPT ![h] = i] /\ irpNext' = [irpNext EXCEPT ![i] = NoIrp]
     ELSE /\ irpNext' = [irpNext EXCEPT ![i] = NoIrp, ![lastIrp[h]] = i] /\ UNCHANGED firstIrp

(* LemonInsertIRP_TS, with LemonCreateIRPTableFileObj and LemonIRPTableAdd *)
(* where the file is new to the table: it grows when it has more objects   *)
(* than half its buckets (LEMON_IO_HASHMAP_LOAD_FACTOR, private.h:25).       *)
InsertIrp(h, i) ==
  /\ \A g \in DOMAIN queues : \A n \in DOMAIN queues[g] : queues[g][n] # i
  /\ IF SearchFile(h)
     THEN UNCHANGED irpHashVars /\ PushIrp(h, i)
     ELSE LET now  == [array |-> irpArray, nexts |-> objNext,
                       prevs |-> [objPrev EXCEPT ![h] = NoIrp]]
              hash == Pushed(IF 2 * irpCounter > irpBuckets THEN ResizedTable ELSE now, h)
          IN /\ irpArray' = hash.array /\ objNext' = hash.nexts
             /\ objPrev' = [hash.prevs EXCEPT ![h] = NoIrp]
             /\ irpCounter' = irpCounter + 1
             /\ firstIrp' = [firstIrp EXCEPT ![h] = i] /\ lastIrp' = [lastIrp EXCEPT ![h] = i]
             /\ irpNext' = [irpNext EXCEPT ![i] = NoIrp]
             /\ irpPrev' = [irpPrev EXCEPT ![i] = NoIrp]
  /\ queues' = [g \in DOMAIN queues \cup {h} |->
                  IF g \notin DOMAIN queues THEN <<i>>
                  ELSE IF g = h THEN Append(queues[g], i) ELSE queues[g]]

(* LemonIRPTableRemove.                                                    *)
UnlinkFile(h) ==
  /\ irpArray' = IF objPrev[h] = NoIrp
              THEN [irpArray EXCEPT ![HandleHash[h] % irpBuckets] = objNext[h]] ELSE irpArray
  /\ objNext' = IF objPrev[h] = NoIrp THEN objNext
                ELSE [objNext EXCEPT ![objPrev[h]] = objNext[h]]
  /\ objPrev' = IF objNext[h] = NoIrp THEN objPrev
                ELSE [objPrev EXCEPT ![objNext[h]] = objPrev[h]]
  /\ irpCounter' = irpCounter - 1

Without(f, h) == [g \in DOMAIN f \ {h} |-> f[g]]
Drop(s, p) == [n \in 1 .. Len(s) - 1 |-> IF n < p THEN s[n] ELSE s[n + 1]]

(* LemonRemoveIRP_TS: LemonRemoveIRP, and the object with its last IRP.    *)
RemoveIrp(h, i) ==
  /\ h \in DOMAIN queues
  /\ \E p \in DOMAIN queues[h] :
       /\ queues[h][p] = i
       /\ firstIrp' = IF irpPrev[i] = NoIrp THEN [firstIrp EXCEPT ![h] = irpNext[i]] ELSE firstIrp
       /\ lastIrp' = IF irpNext[i] = NoIrp THEN [lastIrp EXCEPT ![h] = irpPrev[i]] ELSE lastIrp
       /\ irpNext' = IF irpPrev[i] = NoIrp THEN [irpNext EXCEPT ![i] = NoIrp]
                     ELSE [irpNext EXCEPT ![irpPrev[i]] = irpNext[i], ![i] = NoIrp]
       /\ irpPrev' = IF irpNext[i] = NoIrp THEN [irpPrev EXCEPT ![i] = NoIrp]
                     ELSE [irpPrev EXCEPT ![irpNext[i]] = irpPrev[i], ![i] = NoIrp]
       /\ IF firstIrp'[h] = NoIrp
          THEN UnlinkFile(h) /\ queues' = Without(queues, h)
          ELSE UNCHANGED irpHashVars /\ queues' = [queues EXCEPT ![h] = Drop(@, p)]

(* LemonIRPFileCancel, LemonExecuteIRPs: LemonRemoveIRPsAll takes the list *)
(* off, which is then walked; what is not done is pushed again.            *)
ExecuteFile(h, undone) ==
  /\ h \in DOMAIN queues
  /\ LET list == Walked(firstIrp[h], irpNext, Cardinality(Irps))
         left == Kept(list, undone)
         n    == Len(left)
         At(k) == IF k \in 1 .. n THEN left[k] ELSE NoIrp
         place(i) == CHOOSE k \in 1 .. n : left[k] = i
         kept == {left[k] : k \in 1 .. n}
     IN /\ firstIrp' = [firstIrp EXCEPT ![h] = At(1)] /\ lastIrp' = [lastIrp EXCEPT ![h] = At(n)]
        /\ irpNext' = [i \in Irps |-> IF i \in kept THEN At(place(i) + 1) ELSE irpNext[i]]
        /\ irpPrev' = [i \in Irps |-> IF i \in kept THEN At(place(i) - 1) ELSE irpPrev[i]]
        /\ queues' = [queues EXCEPT ![h] = Kept(@, undone)]
  /\ UNCHANGED irpHashVars

(* LemonIRPCloseFile_TS.                                                   *)
CloseIrpFile(h) ==
  /\ SearchFile(h)
  /\ UnlinkFile(h)
  /\ firstIrp' = [firstIrp EXCEPT ![h] = NoIrp] /\ lastIrp' = [lastIrp EXCEPT ![h] = NoIrp]
  /\ queues' = Without(queues, h)
  /\ UNCHANGED <<irpNext, irpPrev>>

(* LemonIRPTableCancel_TS: all IRPs and all objects, at once.              *)
CancelTable ==
  /\ irpArray' = [b \in DOMAIN irpArray |-> NoIrp] /\ irpCounter' = 0
  /\ firstIrp' = [h \in Handles |-> NoIrp] /\ lastIrp' = [h \in Handles |-> NoIrp]
  /\ queues' = <<>>
  /\ UNCHANGED <<objNext, objPrev, irpNext, irpPrev>>

IrpTableNext ==
  \/ \E h \in Handles, i \in Irps : InsertIrp(h, i)
  \/ \E h \in Handles, i \in Irps : RemoveIrp(h, i)
  \/ \E h \in DOMAIN queues : \E undone \in SUBSET {queues[h][n] : n \in DOMAIN queues[h]} :
       ExecuteFile(h, undone)
  \/ \E h \in Handles : CloseIrpFile(h)
  \/ CancelTable

IrpTableSpec == IrpTableInit /\ [][IrpTableNext]_irpTableVars

----------------------------------------------------------------------------
(* The table is a map from files to queues: through every growth, removal  *)
(* and partial execution exactly the files with an object are found, each  *)
(* once and in its own bucket (LemonIRPTableForeach asserts the count),    *)
(* and walking a file's IRPs forwards or backwards gives them in the order *)
(* they were started.                                                      *)
Backwards(s) == [n \in 1 .. Len(s) |-> s[Len(s) + 1 - n]]

TableIsQueues ==
  /\ {h \in Handles : SearchFile(h)} = DOMAIN queues
  /\ irpCounter = Cardinality(DOMAIN queues)
  /\ \A b \in DOMAIN irpArray : \A n \in DOMAIN IrpChain(b) :
       LET c == IrpChain(b) IN
       /\ HandleHash[c[n]] % irpBuckets = b
       /\ objPrev[c[n]] = IF n = 1 THEN NoIrp ELSE c[n - 1]
  /\ \A h \in DOMAIN queues :
       /\ Walked(firstIrp[h], irpNext, Cardinality(Irps)) = queues[h]
       /\ Walked(lastIrp[h], irpPrev, Cardinality(Irps)) = Backwards(queues[h])
=============================================================================
