------------------------------ MODULE HashMap -------------------------------
(***************************************************************************)
(* The hash map of memory/: an array of buckets, each a list of nodes      *)
(* linked by Next and Prev, that doubles when it is too full.  Entries of  *)
(* a bucket are added at its head.  Nodes come from a fixed-size allocator *)
(* (zeroed) and go back to it only when the whole map is cleared.          *)
(***************************************************************************)
EXTENDS Naturals, Sequences, FiniteSets

CONSTANTS MapKeys, MapValues,
          Hash,       \* [MapKeys -> Nat]: F and the mixing of LemonHashMapReHashF
          Buckets,    \* buckets the map is created with
          Factor,     \* allowed entries for each bucket
          MaxNodes,   \* bound: nodes allocated before the map is cleared
          NULL

MapNode == 1 .. MaxNodes

ASSUME HashMapAssumption ==
  /\ Hash \in [MapKeys -> Nat] /\ Buckets \in Nat \ {0} /\ Factor \in Nat \ {0} /\ MaxNodes \in Nat
  /\ NULL \notin MapKeys \cup MapValues \cup Nat

VARIABLES
  buckets,  \* table->Buckets
  array,    \* table->Array: the head of each bucket
  node,     \* [MapNode -> [key, value, nextNode, prevNode]]
  nodes,    \* number of nodes allocated
  mapCounter,  \* table->Counter
  contents  \* history: what the calls so far have bound, [MapKeys -> value or NULL]

mapVars == <<buckets, array, node, nodes, mapCounter, contents>>

Unused == [key |-> NULL, value |-> NULL, nextNode |-> NULL, prevNode |-> NULL]

MapInit ==
  /\ buckets = Buckets
  /\ array = [i \in 0 .. Buckets - 1 |-> NULL]
  /\ node = [n \in MapNode |-> Unused]
  /\ nodes = 0 /\ mapCounter = 0
  /\ contents = [k \in MapKeys |-> NULL]

ReHashF(n, k) == Hash[k] % n

(* The nodes of a bucket of a table [array, node], from its head.          *)
Chain(t, i) ==
  LET f[n \in 1 .. MaxNodes + 1] ==
        IF n = 1 THEN t.array[i]
        ELSE LET before == f[n - 1] IN IF before = NULL THEN NULL ELSE t.node[before].nextNode
  IN  [n \in {m \in DOMAIN f : f[m] # NULL} |-> f[n]]

Table == [array |-> array, node |-> node]

(* A node becomes the head of bucket i.                                    *)
Link(t, n, i) ==
  LET h == t.array[i]
      linked == [t.node EXCEPT ![n].nextNode = h]
  IN  [array |-> [t.array EXCEPT ![i] = n],
       node  |-> IF h = NULL THEN linked ELSE [linked EXCEPT ![h].prevNode = n]]

(* LemonResizeHashMap: the nodes, bucket by bucket and each from its head, *)
(* are taken off the old links and put into the new array.  A mutant       *)
(* first: the links to the previous nodes are left as they were.           *)
KeepLinks(t, n) == t
Unlinked(t, n) == [t EXCEPT !.node[n].nextNode = NULL, !.node[n].prevNode = NULL]

Flatten(t, n) ==
  LET f[i \in 0 .. n] == IF i = 0 THEN <<>> ELSE f[i - 1] \o Chain(t, i - 1) IN f[n]

Resized(t, n, new) ==
  LET order == Flatten(t, n)
      f[i \in 0 .. Len(order)] ==
        IF i = 0 THEN [array |-> [b \in 0 .. new - 1 |-> NULL], node |-> t.node]
        ELSE Link(Unlinked(f[i - 1], order[i]), order[i], ReHashF(new, t.node[order[i]].key))
  IN  f[Len(order)]

(* __LemonHashMapSearch: the first node of its bucket with an equal key.   *)
Found(t, n, k) ==
  LET c == Chain(t, ReHashF(n, k))
      hits == {i \in DOMAIN c : t.node[c[i]].key = k}
  IN  IF hits = {} THEN NULL ELSE c[CHOOSE i \in hits : \A j \in hits : i <= j]

(* LemonHashMapAdd: the map may grow first, also if the key is bound.      *)
MapAdd(k, v) ==
  LET new == IF mapCounter > Factor * buckets THEN 2 * buckets ELSE buckets
      t   == IF new = buckets THEN Table ELSE Resized(Table, buckets, new)
      old == Found(t, new, k)
      n   == nodes + 1
      added == Link([t EXCEPT !.node[n] = [Unused EXCEPT !.key = k, !.value = v]],
                    n, ReHashF(new, k))
  IN  /\ buckets' = new
      /\ \/ /\ old # NULL
            /\ node' = [t.node EXCEPT ![old].value = v] /\ array' = t.array
            /\ UNCHANGED <<nodes, mapCounter>>
         \/ /\ old = NULL /\ nodes < MaxNodes
            /\ node' = added.node /\ array' = added.array
            /\ nodes' = n /\ mapCounter' = mapCounter + 1
      /\ contents' = [contents EXCEPT ![k] = v]

(* LemonHashMapRemove: the node is unlinked and stays with the allocator.  *)
Unlink(t, n, i) ==
  LET x == t.node[n]
      past == IF x.prevNode = NULL THEN t.node ELSE [t.node EXCEPT ![x.prevNode].nextNode = x.nextNode]
  IN  [array |-> IF x.prevNode = NULL THEN [t.array EXCEPT ![i] = x.nextNode] ELSE t.array,
       node  |-> IF x.nextNode = NULL THEN past ELSE [past EXCEPT ![x.nextNode].prevNode = x.prevNode]]

MapRemove(k) ==
  LET n == Found(Table, buckets, k)
      t == Unlink(Table, n, ReHashF(buckets, k))
  IN  /\ n # NULL
      /\ array' = t.array /\ node' = t.node
      /\ mapCounter' = mapCounter - 1
      /\ contents' = [contents EXCEPT ![k] = NULL]
      /\ UNCHANGED <<buckets, nodes>>

(* The number of buckets stays what it has grown to.                       *)
MapClear ==
  /\ array' = [i \in DOMAIN array |-> NULL]
  /\ node' = [n \in MapNode |-> Unused] /\ nodes' = 0
  /\ mapCounter' = 0 /\ contents' = [k \in MapKeys |-> NULL]
  /\ UNCHANGED buckets

MapNext == MapClear \/ \E k \in MapKeys : MapRemove(k) \/ \E v \in MapValues : MapAdd(k, v)

MapSpec == MapInit /\ [][MapNext]_mapVars

----------------------------------------------------------------------------
(* The calls that change nothing.                                          *)
MapSearch(k) ==
  LET n == Found(Table, buckets, k) IN IF n = NULL THEN NULL ELSE node[n].value

MapForeach == Flatten(Table, buckets)

MapSize == mapCounter

(* Through every order of additions, removals and growth the linked        *)
(* buckets stand for the one partial function the calls have made: a       *)
(* search finds what was last added, an iteration visits every binding     *)
(* once, and the counter is their number.                                  *)
HashMapIsMap ==
  LET bound == {k \in MapKeys : contents[k] # NULL}
  IN  /\ \A k \in MapKeys : MapSearch(k) = contents[k]
      /\ Len(MapForeach) = Cardinality(bound)
      /\ {node[MapForeach[i]].key : i \in DOMAIN MapForeach} = bound
      /\ MapSize = Cardinality(bound)
=============================================================================
