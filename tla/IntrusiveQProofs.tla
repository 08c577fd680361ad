-------------------------- MODULE IntrusiveQProofs --------------------------
(* The links of IntrusiveQ stand for the sequences, for any queues and nodes. *)
EXTENDS IntrusiveQ, TLAPS

(* The two ends of a sequence. *)
LEMMA AppendFacts ==
  ASSUME NEW S, NEW s \in Seq(S), NEW e \in S
  PROVE  /\ Append(s, e) \in Seq(S) /\ Append(s, e) # <<>>
         /\ Len(Append(s, e)) = Len(s) + 1
         /\ \A i \in 1..Len(s) : Append(s, e)[i] = s[i]
         /\ Append(s, e)[Len(s) + 1] = e
         /\ Len(s) \in Nat
OBVIOUS

LEMMA EmptyFacts ==
  /\ Len(<<>>) = 0
  /\ 1..(0 - 1) = {}
  /\ \A S : \A s \in Seq(S) : Len(s) = 0 => s = <<>>
OBVIOUS

LEMMA TailFacts ==
  ASSUME NEW S, NEW s \in Seq(S), s # <<>>
  PROVE  /\ Tail(s) \in Seq(S) /\ Len(s) \in Nat /\ Len(s) >= 1
         /\ Len(Tail(s)) = Len(s) - 1
         /\ \A i \in 1..Len(Tail(s)) : Tail(s)[i] = s[i + 1]
         /\ \A i \in 1..Len(s) : s[i] \in S
OBVIOUS

(* No assertion fails on a queue that is linked: this is why the guards of *)
(* PushNode and PopNode, which end the program, are never false.           *)
LEMMA LinkedAsserts == LinksInv => AssertsHold
<1> SUFFICES ASSUME LinksInv, NEW q \in Queue
             PROVE  PushAsserts(q) /\ PopAsserts(q)
  BY DEF AssertsHold
<1>1. /\ items[q] \in Seq(Node) /\ ChainOf(q, items[q]) /\ Null \notin Node
      /\ Len(items[q]) \in Nat
  BY NullIsNoNode DEF LinksInv, LinksTypeOK, Linked
<1>2. CASE items[q] = <<>>
  BY <1>1, <1>2 DEF ChainOf, PushAsserts, PopAsserts
<1>3. CASE items[q] # <<>>
  <2>1. /\ Len(items[q]) >= 1 /\ \A i \in 1..Len(items[q]) : items[q][i] \in Node
    BY <1>1, <1>3, TailFacts
  <2>2. /\ counter[q] = Len(items[q]) /\ header[q] = items[q][1]
        /\ tail[q] = items[q][Len(items[q])]
        /\ \A i \in 1..(Len(items[q]) - 1) : next[items[q][i]] = items[q][i + 1]
    BY <1>1, <1>3 DEF ChainOf
  <2>3. 1 \in 1..Len(items[q]) /\ Len(items[q]) \in 1..Len(items[q])
    BY <1>1, <2>1
  <2>4. header[q] # Null /\ tail[q] # Null
    BY <1>1, <2>1, <2>2, <2>3
  <2>5. ASSUME Len(items[q]) > 1 PROVE next[header[q]] # Null
    <3>1. 1 \in 1..(Len(items[q]) - 1) /\ 1 + 1 \in 1..Len(items[q])
      BY <1>1, <2>5
    <3> QED
      BY <1>1, <2>1, <2>2, <3>1
  <2>6. counter[q] = 1 \/ Len(items[q]) > 1
    <3>1. /\ Len(items[q]) \in Nat /\ Len(items[q]) >= 1
          /\ counter[q] = Len(items[q])
      BY <1>1, <2>1, <2>2
    <3>2. \A k \in Nat : k >= 1 => k = 1 \/ k > 1
      OBVIOUS
    <3> QED
      BY <3>1, <3>2
  <2> QED
    BY <2>1, <2>2, <2>4, <2>5, <2>6 DEF PushAsserts, PopAsserts
<1> QED
  BY <1>2, <1>3

LEMMA InitLinks == LinksInit => LinksInv
<1> SUFFICES ASSUME LinksInit PROVE LinksInv
  OBVIOUS
<1>1. <<>> \in Seq(Node) /\ Len(<<>>) = 0 /\ 1..0 = {}
  OBVIOUS
<1>2. LinksTypeOK
  BY <1>1 DEF LinksInit, LinksTypeOK
<1>3. OneQueue
  BY <1>1 DEF LinksInit, OneQueue
<1>4. Linked
  <2>1. ASSUME NEW q \in Queue PROVE ChainOf(q, <<>>)
    <3>1. 1..(Len(<<>>) - 1) = {}
      BY <1>1
    <3> QED
      BY <1>1, <3>1 DEF LinksInit, ChainOf
  <2> QED
    BY <2>1 DEF LinksInit, Linked
<1> QED
  BY <1>2, <1>3, <1>4 DEF LinksInv

LEMMA PushLinks ==
  ASSUME LinksInv, NEW q \in Queue, NEW n \in Node, Push(q, n)
  PROVE  LinksInv'
<1>0. PICK s : s = items[q]
  OBVIOUS
<1>1. /\ counter \in [Queue -> Nat] /\ header \in [Queue -> Node \cup {Null}]
      /\ tail \in [Queue -> Node \cup {Null}] /\ next \in [Node -> Node \cup {Null}]
      /\ items \in [Queue -> Seq(Node)] /\ s \in Seq(Node) /\ Len(s) \in Nat
  BY <1>0 DEF LinksInv, LinksTypeOK
<1>2. /\ ChainOf(q, s) /\ OneQueue /\ Null \notin Node
      /\ \A r \in Queue : ChainOf(r, items[r])
      /\ \A r \in Queue : \A i \in 1..Len(items[r]) : items[r][i] # n
  BY <1>0, NullIsNoNode DEF LinksInv, Linked, Push, Loose, In
<1>3. /\ items' = [items EXCEPT ![q] = Append(s, n)]
      /\ counter' = [counter EXCEPT ![q] = counter[q] + 1]
      /\ tail' = [tail EXCEPT ![q] = n]
  BY <1>0 DEF Push, PushNode
<1>4. /\ Append(s, n) \in Seq(Node) /\ Append(s, n) # <<>>
      /\ Len(Append(s, n)) = Len(s) + 1
      /\ \A i \in 1..Len(s) : Append(s, n)[i] = s[i]
      /\ Append(s, n)[Len(s) + 1] = n
  <2>1. s \in Seq(Node)
    BY <1>1
  <2> QED
    BY <2>1, AppendFacts
<1>5. /\ \A r \in Queue : r # q => /\ items'[r] = items[r] /\ counter'[r] = counter[r]
                                   /\ header'[r] = header[r] /\ tail'[r] = tail[r]
      /\ items'[q] = Append(s, n) /\ counter'[q] = counter[q] + 1 /\ tail'[q] = n
  BY <1>1, <1>3 DEF Push, PushNode
<1>6. counter[q] = Len(s) /\ (counter[q] = 0 <=> s = <<>>)
  BY <1>1, <1>2 DEF ChainOf
<1>7. s # <<>> => /\ header[q] = s[1] /\ tail[q] = s[Len(s)] /\ Len(s) >= 1
                  /\ tail[q] \in Node /\ tail[q] # n /\ Len(s) \in 1..Len(s)
  <2>1. s # <<>> => Len(s) >= 1 /\ Len(s) \in 1..Len(s) /\ s[Len(s)] \in Node
    BY <1>1
  <2> QED
    BY <1>2, <2>1 DEF ChainOf
<1>8. /\ next' \in [Node -> Node \cup {Null}]
      /\ next'[n] = Null
      /\ s # <<>> => next'[tail[q]] = n
      /\ \A m \in Node : m # n /\ (s # <<>> => m # tail[q]) => next'[m] = next[m]
  BY <1>1, <1>6, <1>7 DEF Push, PushNode, LinkLast
<1>9. header'[q] = IF s = <<>> THEN n ELSE header[q]
  BY <1>1, <1>6 DEF Push, PushNode
<1>10. LinksTypeOK'
  BY <1>1, <1>3, <1>4, <1>8 DEF LinksTypeOK, Push, PushNode
<1>11. OneQueue'
  <2>1. ASSUME NEW r \in Queue, NEW i \in 1..Len(items'[r])
        PROVE  \/ r = q /\ i = Len(s) + 1 /\ items'[r][i] = n
               \/ i \in 1..Len(items[r]) /\ items'[r][i] = items[r][i]
    <3>1. CASE r # q
      BY <1>5, <3>1
    <3>2. CASE r = q
      <4>1. i \in 1..(Len(s) + 1) /\ Len(s) \in Nat
        BY <1>1, <1>4, <1>5, <3>2
      <4>2. i \in 1..Len(s) \/ i = Len(s) + 1
        BY <4>1
      <4> QED
        BY <1>0, <1>4, <1>5, <3>2, <4>2
    <3> QED
      BY <3>1, <3>2
  <2> QED
    BY <1>2, <2>1 DEF OneQueue
<1>12. ASSUME NEW r \in Queue, r # q PROVE ChainOf(r, items[r])'
  <2>0. PICK t : t = items[r]
    OBVIOUS
  <2>1. t \in Seq(Node) /\ Len(t) \in Nat /\ ChainOf(r, t)
    BY <1>1, <1>2, <2>0
  <2>2. ASSUME NEW i \in 1..Len(t) PROVE next'[t[i]] = next[t[i]]
    <3>1. t[i] \in Node /\ t[i] # n
      BY <1>2, <2>0, <2>1
    <3>2. s # <<>> => t[i] # tail[q]
      BY <1>0, <1>2, <1>7, <1>12, <2>0 DEF OneQueue
    <3> QED
      BY <1>8, <3>1, <3>2
  <2>3. t # <<>> => Len(t) \in 1..Len(t)
    BY <2>1
  <2>4. \A i \in 1..(Len(t) - 1) : i \in 1..Len(t)
    BY <2>1
  <2>5. items'[r] = t
    BY <1>5, <1>12, <2>0
  <2>6. ChainOf(r, t)'
    BY <1>5, <1>12, <2>1, <2>2, <2>3, <2>4 DEF ChainOf
  <2> QED
    BY <2>5, <2>6 DEF ChainOf
<1>13. ChainOf(q, items[q])'
  <2>1. ASSUME NEW i \in 1..(Len(s) - 1) PROVE next'[s[i]] = s[i + 1]
    <3>1. /\ i \in 1..Len(s) /\ i + 1 \in 1..Len(s) /\ s # <<>> /\ i # Len(s)
      BY <1>1
    <3>2. s[i] \in Node /\ s[i] # n /\ s[i] # tail[q]
      BY <1>0, <1>1, <1>2, <1>7, <3>1 DEF OneQueue
    <3>3. next[s[i]] = s[i + 1]
      BY <1>2 DEF ChainOf
    <3> QED
      BY <1>8, <3>2, <3>3
  <2>2. ASSUME NEW i \in 1..Len(s)
        PROVE  next'[Append(s, n)[i]] = Append(s, n)[i + 1]
    <3>1. CASE i = Len(s)
      <4>1. s # <<>>
        BY <1>1, <3>1
      <4> QED
        BY <1>4, <1>7, <1>8, <3>1, <4>1
    <3>2. CASE i # Len(s)
      <4>1. i \in 1..(Len(s) - 1) /\ i + 1 \in 1..Len(s)
        BY <1>1, <3>2
      <4> QED
        BY <1>4, <2>1, <4>1
    <3> QED
      BY <3>1, <3>2
  <2>3. header'[q] = Append(s, n)[1]
    <3>1. s = <<>> => Len(s) = 0
      BY <1>1
    <3>2. s # <<>> => 1 \in 1..Len(s)
      BY <1>1, <1>7
    <3> QED
      BY <1>4, <1>7, <1>9, <3>1, <3>2
  <2>4. Len(Append(s, n)) - 1 = Len(s)
    BY <1>1, <1>4
  <2> QED
    BY <1>4, <1>5, <1>6, <1>8, <2>2, <2>3, <2>4 DEF ChainOf
<1> QED
  BY <1>10, <1>11, <1>12, <1>13 DEF LinksInv, Linked

LEMMA PopLinks ==
  ASSUME LinksInv, NEW q \in Queue, PopNode(q)
  PROVE  LinksInv'
<1>0. PICK s : s = items[q]
  OBVIOUS
<1>1. /\ counter \in [Queue -> Nat] /\ header \in [Queue -> Node \cup {Null}]
      /\ tail \in [Queue -> Node \cup {Null}] /\ next \in [Node -> Node \cup {Null}]
      /\ items \in [Queue -> Seq(Node)] /\ s \in Seq(Node) /\ Len(s) \in Nat
  BY <1>0 DEF LinksInv, LinksTypeOK
<1>2. /\ ChainOf(q, s) /\ OneQueue /\ \A r \in Queue : ChainOf(r, items[r])
  BY <1>0 DEF LinksInv, Linked
<1>3. counter[q] = Len(s) /\ s # <<>>
  <2>1. Len(<<>>) = 0
    OBVIOUS
  <2> QED
    BY <1>2, <2>1 DEF ChainOf, PopNode
<1>u. PICK u : u = Tail(s)
  OBVIOUS
<1>4. /\ u \in Seq(Node) /\ Len(s) >= 1 /\ Len(u) = Len(s) - 1
      /\ \A i \in 1..Len(u) : u[i] = s[i + 1]
      /\ \A i \in 1..Len(s) : s[i] \in Node
  <2>1. s \in Seq(Node)
    BY <1>1
  <2> QED
    BY <1>u, <1>3, <2>1, TailFacts
<1>5. /\ \A r \in Queue : r # q => /\ items'[r] = items[r] /\ counter'[r] = counter[r]
                                   /\ header'[r] = header[r] /\ tail'[r] = tail[r]
      /\ items'[q] = u /\ counter'[q] = Len(s) - 1 /\ next' = next
      /\ header'[q] = IF Len(s) = 1 THEN Null ELSE next[header[q]]
      /\ tail'[q] = IF Len(s) = 1 THEN Null ELSE tail[q]
      /\ items' = [items EXCEPT ![q] = u]
  BY <1>0, <1>u, <1>1, <1>3 DEF PopNode, ClearTail
<1>6. /\ header[q] = s[1] /\ tail[q] = s[Len(s)] /\ next[s[Len(s)]] = Null
      /\ \A i \in 1..(Len(s) - 1) : next[s[i]] = s[i + 1]
  BY <1>2, <1>3 DEF ChainOf
<1>7. LinksTypeOK'
  <2>1. counter' \in [Queue -> Nat]
    <3>1. Len(s) - 1 \in Nat
      BY <1>1, <1>4
    <3> QED
      BY <1>1, <1>3, <3>1 DEF PopNode
  <2>2. items' \in [Queue -> Seq(Node)]
    BY <1>1, <1>4, <1>5
  <2>3. header[q] \in Node /\ next[header[q]] \in Node \cup {Null}
    <3>1. 1 \in 1..Len(s)
      BY <1>1, <1>4
    <3> QED
      BY <1>1, <1>4, <1>6, <3>1
  <2>4. header' \in [Queue -> Node \cup {Null}] /\ tail' \in [Queue -> Node \cup {Null}]
    BY <1>1, <2>3 DEF PopNode, ClearTail
  <2> QED
    BY <1>1, <1>5, <2>1, <2>2, <2>4 DEF LinksTypeOK
<1>8. \A i \in 1..Len(u) : i + 1 \in 1..Len(s) /\ i \in 1..(Len(s) - 1)
  BY <1>1, <1>4
<1>9. OneQueue'
  <2>1. ASSUME NEW r \in Queue, NEW i \in 1..Len(items'[r])
        PROVE  \/ r = q /\ i + 1 \in 1..Len(items[r]) /\ items'[r][i] = items[r][i + 1]
               \/ r # q /\ i \in 1..Len(items[r]) /\ items'[r][i] = items[r][i]
    <3>1. CASE r # q
      BY <1>5, <3>1
    <3>2. CASE r = q
      <4>0. items'[r] = u
        BY <1>5, <3>2
      <4>1. i \in 1..Len(u)
        BY <4>0
      <4> QED
        BY <1>0, <1>4, <1>5, <1>8, <3>2, <4>1
    <3> QED
      BY <3>1, <3>2
  <2>2. ASSUME NEW r \in Queue, NEW t \in Queue, NEW i \in 1..Len(items'[r]),
               NEW k \in 1..Len(items'[t]), items'[r][i] = items'[t][k]
        PROVE  r = t /\ i = k
    <3>1. i \in Nat /\ k \in Nat
      OBVIOUS
    <3>2. r = t
      BY <1>2, <2>1, <2>2 DEF OneQueue
    <3>3. r = q => i + 1 = k + 1
      BY <1>2, <2>1, <2>2, <3>2 DEF OneQueue
    <3>4. r # q => i = k
      BY <1>2, <2>1, <2>2, <3>2 DEF OneQueue
    <3> QED
      BY <3>1, <3>2, <3>3, <3>4
  <2> QED
    BY <2>2 DEF OneQueue
<1>10. ASSUME NEW r \in Queue, r # q PROVE ChainOf(r, items[r])'
  <2>1. ChainOf(r, items[r])
    BY <1>2
  <2> QED
    BY <1>5, <1>10, <2>1 DEF ChainOf
<1>11. ChainOf(q, items[q])'
  <2>1. CASE Len(s) = 1
    <3>1. u = <<>> /\ Len(u) = 0 /\ 1..(0 - 1) = {}
      <4>1. u \in Seq(Node) /\ Len(u) = 0
        BY <1>4, <2>1
      <4> QED
        BY <4>1, EmptyFacts
    <3>2. items'[q] = <<>> /\ counter'[q] = 0 /\ header'[q] = Null /\ tail'[q] = Null
      BY <1>5, <2>1, <3>1
    <3> QED
      BY <3>1, <3>2 DEF ChainOf
  <2>2. CASE Len(s) # 1
    <3>1. /\ Len(s) > 1 /\ 1 \in 1..(Len(s) - 1) /\ 1 \in 1..Len(u)
          /\ Len(u) \in 1..Len(u) /\ Len(u) + 1 = Len(s)
          /\ u # <<>>
      <4>1. /\ Len(s) \in Nat /\ Len(s) >= 1 /\ Len(s) # 1
            /\ Len(u) = Len(s) - 1
        BY <1>1, <1>4, <2>2
      <4> QED
        BY <4>1, EmptyFacts
    <3>2. header'[q] = u[1]
      BY <1>4, <1>5, <1>6, <2>2, <3>1
    <3>3. /\ tail'[q] = u[Len(u)]
          /\ next'[u[Len(u)]] = Null
      BY <1>4, <1>5, <1>6, <2>2, <3>1
    <3>4. ASSUME NEW i \in 1..(Len(u) - 1)
          PROVE  next'[u[i]] = u[i + 1]
      <4>1. /\ i \in 1..Len(u) /\ i + 1 \in 1..Len(u)
            /\ i + 1 \in 1..(Len(s) - 1)
        BY <1>1, <1>4
      <4> QED
        BY <1>4, <1>5, <1>6, <4>1
    <3> QED
      BY <1>4, <1>5, <3>1, <3>2, <3>3, <3>4 DEF ChainOf
  <2> QED
    BY <2>1, <2>2
<1> QED
  BY <1>7, <1>9, <1>10, <1>11 DEF LinksInv, Linked

(* As long as only nodes that are in no queue are pushed, the links and the *)
(* counter of every queue are those of its sequence, whatever the queues    *)
(* interleave, and no assertion of a push or a pop ever fails.              *)
THEOREM LinksCorrect == LinksSpec => [](Linked /\ AssertsHold)
<1>1. LinksInv /\ [LinksNext]_links => LinksInv'
  <2> SUFFICES ASSUME LinksInv, [LinksNext]_links PROVE LinksInv'
    OBVIOUS
  <2>1. CASE LinksNext
    BY <2>1, PushLinks, PopLinks DEF LinksNext
  <2>2. CASE UNCHANGED links
    BY <2>2 DEF links, LinksInv, LinksTypeOK, OneQueue, Linked, ChainOf
  <2> QED
    BY <2>1, <2>2
<1>2. LinksInv => Linked /\ AssertsHold
  BY LinkedAsserts DEF LinksInv
<1> QED
  BY <1>1, <1>2, InitLinks, PTL DEF LinksSpec
=============================================================================
