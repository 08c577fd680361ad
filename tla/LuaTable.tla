------------------------------ MODULE LuaTable ------------------------------
(***************************************************************************)
(* The tables of the interpreter in lua/ (ltable.c): an array part for the *)
(* values of 1 .. sizearray, and a hash part of a power of two nodes, in   *)
(* which a key that finds its main position taken goes to a free node and  *)
(* is chained (Brent's variation).  When there is no free node the sizes   *)
(* of both parts are computed anew and everything is inserted again.       *)
(***************************************************************************)
EXTENDS Integers, Sequences, FiniteSets

CONSTANTS IntKeys,     \* numbers used as keys
          OtherKeys,   \* strings and objects used as keys
          KeyHash,     \* [OtherKeys -> Nat]
          Collectable, \* the OtherKeys that are objects, which may die
          TableValues, Empty, MaxInt

TableKeys == IntKeys \cup OtherKeys

ASSUME LuaTableAssumption ==
  /\ IntKeys \subseteq Nat \ {0} /\ KeyHash \in [OtherKeys -> Nat] /\ Collectable \subseteq OtherKeys
  /\ MaxInt \in Nat

VARIABLES
  t,         \* the Table
  bound,     \* history: what has been assigned to each key
  cursor,    \* the key lua_next has returned last, Empty before the first call
  traversal, \* "none", "open", "done" or "error"
  visited,   \* history: what the traversal has returned, in order
  atStart    \* history: the keys with values when the traversal began

tableVars == <<t, bound, cursor, traversal, visited, atStart>>

NoNode  == [key |-> Empty, val |-> Empty, nxt |-> -1, dead |-> FALSE]
NodeVec(size) == [i \in 0 .. size - 1 |-> NoNode]
dummynode == NodeVec(1)

sizearray(h) == Len(h.array)
sizenode(h) == Cardinality(DOMAIN h.node)

luaO_ceillog2(x) == CHOOSE n \in 0 .. x : 2 ^ n >= x /\ (n = 0 \/ 2 ^ (n - 1) < x)

(* Numbers are hashed by an odd modulus, the others by masking.            *)
mainposition(h, k) ==
  IF k \in IntKeys THEN k % (IF sizenode(h) = 1 THEN 1 ELSE sizenode(h) - 1)
  ELSE KeyHash[k] % sizenode(h)

(* The node of a key: the first of the chain that has it, or -1.           *)
RECURSIVE InChain(_, _, _, _)
InChain(h, n, k, deadok) ==
  IF n = -1 THEN -1
  ELSE IF h.node[n].key = k /\ (deadok \/ ~h.node[n].dead) THEN n
  ELSE InChain(h, h.node[n].nxt, k, deadok)

NodeOf(h, k) == InChain(h, mainposition(h, k), k, FALSE)
InArray(h, k) == k \in IntKeys /\ k <= sizearray(h)

luaH_get(h, k) ==
  IF InArray(h, k) THEN h.array[k]
  ELSE LET n == NodeOf(h, k) IN IF n = -1 THEN Empty ELSE h.node[n].val

luaH_getint(h, j) == IF j \in IntKeys THEN luaH_get(h, j) ELSE Empty

----------------------------------------------------------------------------
(* Sizes.  Nums(S) counts the array indices of S by slices 2^(i-1) < k <=  *)
(* 2^i, and the array gets the largest power of two more than half of      *)
(* whose slots would be used.                                              *)
CountUpTo(S, n) == Cardinality({k \in S : k <= n})

computesizes(S) ==
  LET sizes == {2 ^ i : i \in 0 .. Cardinality(S)}
      good == {n \in sizes : n < 2 * Cardinality(S) /\ 2 * CountUpTo(S, n) > n}
  IN IF good = {} THEN 0 ELSE CHOOSE n \in good : \A o \in good : o <= n

WithValues(h) == {k \in TableKeys : luaH_get(h, k) # Empty}

setnodevector(h, size) ==
  IF size = 0 THEN [h EXCEPT !.node = dummynode, !.isdummy = TRUE, !.lastfree = 0]
  ELSE LET n == 2 ^ luaO_ceillog2(size)
       IN [h EXCEPT !.node = NodeVec(n), !.isdummy = FALSE, !.lastfree = n]

RECURSIVE luaH_set(_, _, _), luaH_newkey(_, _, _), luaH_resize(_, _, _),
          PutArray(_, _, _, _), PutNodes(_, _, _), getfreepos(_, _), Before(_, _, _)

luaH_set(h, k, v) ==
  LET n == NodeOf(h, k)
  IN IF InArray(h, k) THEN [h EXCEPT !.array[k] = v]
     ELSE IF n # -1 THEN [h EXCEPT !.node[n].val = v]
     ELSE luaH_newkey(h, k, v)

(* A free node is one that has never had a key.                            *)
getfreepos(h, from) ==
  IF from = 0 THEN -1
  ELSE IF h.node[from - 1].key = Empty THEN from - 1 ELSE getfreepos(h, from - 1)

Before(h, n, mp) == IF h.node[n].nxt = mp THEN n ELSE Before(h, h.node[n].nxt, mp)

Stay(h, n, mp, othern) == h   \* a mutant of the next definition: the chain is not redone
Moved(h, n, mp, othern) ==
  [h EXCEPT !.node[Before(h, othern, mp)].nxt = n,
            !.node[n] = h.node[mp], !.node[mp] = NoNode]

rehash(h, ek) ==
  LET K == WithValues(h) \cup {ek}
      na == computesizes(K \cap IntKeys)
  IN luaH_resize(h, na, Cardinality(K) - CountUpTo(K \cap IntKeys, na))

luaH_newkey(h, k, v) ==
  LET mp == mainposition(h, k)
      n  == getfreepos(h, h.lastfree)
      othern == mainposition(h, h.node[mp].key)
      here == [NoNode EXCEPT !.key = k, !.val = v]
  IN IF h.node[mp].val = Empty /\ ~h.isdummy
     THEN [h EXCEPT !.node[mp] = [here EXCEPT !.nxt = h.node[mp].nxt]]
     ELSE IF n = -1 THEN luaH_set(rehash(h, k), k, v)
     ELSE LET g == [h EXCEPT !.lastfree = n]
          IN IF othern # mp
             THEN [Moved(g, n, mp, othern) EXCEPT !.node[mp] = here]
             ELSE [g EXCEPT !.node[n] = [here EXCEPT !.nxt = h.node[mp].nxt],
                            !.node[mp].nxt = n]

(* The old array beyond the new size, in order, and the old nodes, from    *)
(* the last, are inserted into the new table.                              *)
PutArray(h, old, i, to) ==
  IF i > to THEN h
  ELSE PutArray(IF old[i] = Empty THEN h ELSE luaH_set(h, i, old[i]), old, i + 1, to)

PutNodes(h, old, i) ==
  IF i < 0 THEN h
  ELSE PutNodes(IF old[i].val = Empty THEN h ELSE luaH_set(h, old[i].key, old[i].val), old, i - 1)

luaH_resize(h, nasize, nhsize) ==
  LET vec == [i \in 1 .. nasize |-> IF i <= sizearray(h) THEN h.array[i] ELSE Empty]
      new == setnodevector([h EXCEPT !.array = vec], nhsize)
  IN PutNodes(PutArray(new, h.array, nasize + 1, sizearray(h)), h.node, sizenode(h) - 1)

----------------------------------------------------------------------------
(* The length: a border in the array part, found by bisection, or beyond.  *)
RECURSIVE Bisect(_, _, _), Linear(_, _), Doubling(_, _, _)
Bisect(h, i, j) ==
  IF j - i <= 1 THEN i
  ELSE LET mid == (i + j) \div 2
       IN IF luaH_getint(h, mid) = Empty THEN Bisect(h, i, mid) ELSE Bisect(h, mid, j)

Linear(h, i) == IF luaH_getint(h, i) = Empty THEN i - 1 ELSE Linear(h, i + 1)

Doubling(h, i, j) ==
  IF luaH_getint(h, j) = Empty THEN Bisect(h, i, j)
  ELSE IF 2 * j > MaxInt THEN Linear(h, 1) ELSE Doubling(h, j, 2 * j)

unbound_search(h, j) == Doubling(h, j, j + 1)

luaH_getn(h) ==
  LET j == sizearray(h)
  IN IF j > 0 /\ h.array[j] = Empty THEN Bisect(h, 0, j)
     ELSE IF h.isdummy THEN j ELSE unbound_search(h, j)

----------------------------------------------------------------------------
(* Traversal: the array part, then the nodes by their places.  The key may *)
(* have died since it was returned.                                        *)
findindex(h, k) ==
  IF k = Empty THEN 0
  ELSE IF InArray(h, k) THEN k
  ELSE LET n == InChain(h, mainposition(h, k), k, TRUE)
       IN IF n = -1 THEN -1 ELSE sizearray(h) + n + 1

KeyAt(h, i) == IF i <= sizearray(h) THEN i ELSE h.node[i - sizearray(h) - 1].key
ValAt(h, i) == IF i <= sizearray(h) THEN h.array[i] ELSE h.node[i - sizearray(h) - 1].val

luaH_next ==
  LET i == findindex(t, cursor)
      later == {j \in i + 1 .. sizearray(t) + sizenode(t) : ValAt(t, j) # Empty}
  IN /\ traversal = "open"
     /\ IF i = -1 THEN traversal' = "error" /\ UNCHANGED <<cursor, visited>>
        ELSE IF later = {} THEN traversal' = "done" /\ UNCHANGED <<cursor, visited>>
        ELSE LET j == CHOOSE j \in later : \A o \in later : j <= o
             IN /\ cursor' = KeyAt(t, j) /\ visited' = Append(visited, KeyAt(t, j))
                /\ UNCHANGED traversal
     /\ UNCHANGED <<t, bound, atStart>>

BeginTraversal ==
  /\ traversal = "none"
  /\ traversal' = "open" /\ cursor' = Empty /\ visited' = <<>>
  /\ atStart' = {k \in TableKeys : bound[k] # Empty}
  /\ UNCHANGED <<t, bound>>

EndTraversal ==
  /\ traversal \in {"open", "done"}
  /\ traversal' = "none" /\ cursor' = Empty /\ visited' = <<>> /\ atStart' = {}
  /\ UNCHANGED <<t, bound>>

(* An assignment; during a traversal only to fields that exist.            *)
SetTable == \E k \in TableKeys, v \in TableValues \cup {Empty} :
  /\ traversal = "none" \/ (traversal = "open" /\ bound[k] # Empty)
  /\ t' = luaH_set(t, k, v)
  /\ bound' = [bound EXCEPT ![k] = v]
  /\ UNCHANGED <<cursor, traversal, visited, atStart>>

(* The collector marks the key of an empty entry as dead: the object is    *)
(* gone, and another one may get its address (removeentry in lgc.c).       *)
removeentry == \E n \in DOMAIN t.node :
  /\ t.node[n].key \in Collectable /\ t.node[n].val = Empty /\ ~t.node[n].dead
  /\ t' = [t EXCEPT !.node[n].dead = TRUE]
  /\ UNCHANGED <<bound, cursor, traversal, visited, atStart>>

luaH_new == setnodevector([array |-> <<>>, node |-> dummynode, isdummy |-> TRUE, lastfree |-> 0], 0)

(* lua_createtable and OP_NEWTABLE ask for sizes beforehand, OP_SETLIST    *)
(* (luaH_resizearray) for the array part it is about to fill.              *)
Create == \E na \in 0 .. 2, nh \in 1 .. 2 :
  /\ t = luaH_new
  /\ t' = luaH_resize(t, na, nh)
  /\ UNCHANGED <<bound, cursor, traversal, visited, atStart>>

luaH_resizearray == \E na \in IntKeys :
  /\ traversal = "none" /\ na > sizearray(t)
  /\ t' = luaH_resize(t, na, IF t.isdummy THEN 0 ELSE sizenode(t))
  /\ UNCHANGED <<bound, cursor, traversal, visited, atStart>>

TableInit ==
  /\ t = luaH_new
  /\ bound = [k \in TableKeys |-> Empty]
  /\ cursor = Empty /\ traversal = "none" /\ visited = <<>> /\ atStart = {}

TableNext == SetTable \/ removeentry \/ Create \/ luaH_resizearray \/ luaH_next \/ BeginTraversal \/ EndTraversal

TableSpec == TableInit /\ [][TableNext]_tableVars

----------------------------------------------------------------------------
(* The table is the map of the assignments made to it, its length is a     *)
(* border of that map (an n with a value at n, or n = 0, and none at       *)
(* n + 1), and a traversal, although it looks the last key up again, loses *)
(* its way never and visits each key that has kept a value exactly once,   *)
(* through collisions, moved nodes, dead keys and growth.                  *)
TableIsMap ==
  /\ \A k \in TableKeys : luaH_get(t, k) = bound[k]
  /\ LET n == luaH_getn(t)
     IN (n = 0 \/ luaH_getint(t, n) # Empty) /\ luaH_getint(t, n + 1) = Empty
  /\ traversal # "error"
  /\ \A i, j \in DOMAIN visited : visited[i] = visited[j] => i = j
  /\ traversal = "done" => {k \in atStart : bound[k] # Empty}
                             \subseteq {visited[i] : i \in DOMAIN visited}
=============================================================================
