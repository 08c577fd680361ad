---------------------------- MODULE MultiCastProofs ----------------------------
(* Messages and the FIFOs that share them are in order until a message is spoilt, for
   any number of jobs, members and messages.  (How they are spoilt is what MultiCastShared
   and MultiCastDead show.)  The lemmas of IntrusiveQProofs do not apply: a message that
   was cast is in several FIFOs at once. *)
EXTENDS MultiCast, FiniteSetTheorems, TLAPS

MailTypeOK ==
  /\ inuse \subseteq Message /\ hand \in [Job -> Message \cup {Null}]
  /\ multi \in [Message -> BOOLEAN] /\ wrapped \in [Message -> BOOLEAN]
  /\ refs \in [Message -> Nat]
  /\ cast \in Message \cup {Null} /\ drop \in Job \cup {Null}
  /\ unvisited \subseteq group /\ group \subseteq Job

(* A FIFO's header, tail, counter and links but the last are those of its sequence;
   the link of the last message may be another FIFO's. *)
Distinct(s) == \A i, k \in 1..Len(s) : s[i] = s[k] => i = k
SharedChain(q, s) ==
  /\ counter[q] = Len(s)
  /\ IF s = <<>> THEN header[q] = Null /\ tail[q] = Null
     ELSE header[q] = s[1] /\ tail[q] = s[Len(s)]
  /\ \A i \in 1..(Len(s) - 1) : next[s[i]] = s[i + 1]
FifosInOrder ==
  /\ LinksTypeOK
  /\ \A q \in Job : Distinct(items[q]) /\ SharedChain(q, items[q])

(* A job has a message at most once; an uncounted message is with one job. *)
HandsApart == \A j \in Job : hand[j] # Null => ~In(hand[j], j)
HadIsInUse == \A m \in Message : Places(m) # {} => m \in inuse
CountOK(m) ==
  IF wrapped[m]
  THEN multi[m] /\ IsFiniteSet(Places(m)) /\ refs[m] = Cardinality(Places(m))
  ELSE \A j, k \in Places(m) : j = k
Counts == \A m \in inuse : CountOK(m)

(* A message being cast is allocated until the last member is visited, is the last of
   the FIFOs it is in, and is with none of the members still to visit. *)
LastOf(m, s) == \A i \in 1..(Len(s) - 1) : s[i] # m
CastStands ==
  /\ unvisited # {} => cast # Null /\ cast \in inuse
  /\ cast # Null => drop = Null
  /\ cast # Null /\ cast \in inuse =>
       /\ wrapped[cast]
       /\ Places(cast) = {} => unvisited = group
       /\ unvisited \cap Places(cast) = {}
       /\ \A r \in Job : LastOf(cast, items[r])

Leaks == \A m \in inuse : Places(m) = {} => m \in unread \cup {cast}

Sound == /\ MailTypeOK /\ FifosInOrder /\ HandsApart /\ HadIsInUse /\ Counts
         /\ CastStands /\ Leaks

(* The jobs in the table are jobs, the proxy job too if it is there. *)
TableIsJobs == table \subseteq Job

MailInv == TableIsJobs /\ (spoilt = {} => Sound)

-----------------------------------------------------------------------------
LEMMA SeqFacts ==
  ASSUME NEW S, NEW s \in Seq(S), NEW e \in S
  PROVE  /\ Len(s) \in Nat /\ \A i \in 1..Len(s) : s[i] \in S
         /\ Len(s) = 0 <=> s = <<>>
         /\ Append(s, e) \in Seq(S) /\ Append(s, e) # <<>>
         /\ Len(Append(s, e)) = Len(s) + 1
         /\ \A i \in 1..Len(s) : Append(s, e)[i] = s[i]
         /\ Append(s, e)[Len(s) + 1] = e
OBVIOUS

LEMMA TailFacts ==
  ASSUME NEW S, NEW s \in Seq(S), s # <<>>
  PROVE  /\ Tail(s) \in Seq(S) /\ Len(s) \in Nat /\ Len(s) >= 1
         /\ Len(Tail(s)) = Len(s) - 1
         /\ \A i \in 1..Len(Tail(s)) : Tail(s)[i] = s[i + 1]
         /\ \A i \in 1..Len(s) : s[i] \in S
OBVIOUS

LEMMA EmptyFacts ==
  /\ Len(<<>>) = 0 /\ 1..0 = {} /\ 1..(0 - 1) = {} /\ \A S : <<>> \in Seq(S)
  /\ \A S : \A s \in Seq(S) : Len(s) = 0 => s = <<>>
OBVIOUS

LEMMA InitFifos == LinksInit => FifosInOrder
<1> SUFFICES ASSUME LinksInit PROVE FifosInOrder
  OBVIOUS
<1>1. LinksTypeOK
  BY EmptyFacts DEF LinksInit, LinksTypeOK
<1>2. \A q \in Job : Distinct(<<>>) /\ SharedChain(q, <<>>)
  <2>1. Len(<<>>) - 1 = 0 - 1
    BY EmptyFacts
  <2> QED BY <2>1, EmptyFacts DEF LinksInit, Distinct, SharedChain
<1> QED
  BY <1>1, <1>2 DEF LinksInit, FifosInOrder

(* A message may be pushed that other FIFOs have, if it is their last, and behind a
   message that other FIFOs have, if it is their last or they have the new one there. *)
LEMMA PushFifo ==
  ASSUME FifosInOrder, NEW q \in Job, NEW n \in Message, PushNode(q, n), ~In(n, q),
         ~LosesLink(q, n), \A r \in Job : LastOf(n, items[r])
  PROVE  FifosInOrder'
<1>0. PICK s : s = items[q]
  OBVIOUS
<1>1. /\ counter \in [Job -> Nat] /\ header \in [Job -> Message \cup {Null}]
      /\ tail \in [Job -> Message \cup {Null}] /\ next \in [Message -> Message \cup {Null}]
      /\ items \in [Job -> Seq(Message)] /\ s \in Seq(Message)
  BY <1>0 DEF FifosInOrder, LinksTypeOK
<1>2. /\ Distinct(s) /\ SharedChain(q, s)
      /\ \A r \in Job : Distinct(items[r]) /\ SharedChain(r, items[r])
      /\ \A i \in 1..Len(s) : s[i] # n
  BY <1>0 DEF FifosInOrder, In
<1>3. /\ Len(s) \in Nat /\ \A i \in 1..Len(s) : s[i] \in Message
      /\ Len(s) = 0 <=> s = <<>>
      /\ Append(s, n) \in Seq(Message) /\ Append(s, n) # <<>>
      /\ Len(Append(s, n)) = Len(s) + 1
      /\ \A i \in 1..Len(s) : Append(s, n)[i] = s[i]
      /\ Append(s, n)[Len(s) + 1] = n
  BY <1>1, SeqFacts
<1>4. /\ \A r \in Job : r # q => /\ items'[r] = items[r] /\ counter'[r] = counter[r]
                                 /\ header'[r] = header[r] /\ tail'[r] = tail[r]
      /\ items'[q] = Append(s, n) /\ counter'[q] = counter[q] + 1 /\ tail'[q] = n
      /\ items' = [items EXCEPT ![q] = Append(s, n)]
  BY <1>0, <1>1 DEF PushNode
<1>5. counter[q] = Len(s) /\ (counter[q] = 0 <=> s = <<>>)
  BY <1>2, <1>3 DEF SharedChain
<1>6. s # <<>> => /\ header[q] = s[1] /\ tail[q] = s[Len(s)] /\ Len(s) >= 1
                  /\ tail[q] \in Message /\ tail[q] # n /\ Len(s) \in 1..Len(s)
  <2>1. s # <<>> => Len(s) >= 1 /\ Len(s) \in 1..Len(s)
    BY <1>3
  <2> QED BY <1>2, <1>3, <2>1 DEF SharedChain
<1>7. /\ next' \in [Message -> Message \cup {Null}]
      /\ s # <<>> => next'[tail[q]] = n
      /\ \A m \in Message : m # n /\ (s # <<>> => m # tail[q]) => next'[m] = next[m]
  BY <1>1, <1>5, <1>6 DEF PushNode, LinkLast
<1>8. header'[q] = IF s = <<>> THEN n ELSE header[q]
  BY <1>1, <1>5 DEF PushNode
<1>9. LinksTypeOK'
  <2>1. counter' \in [Job -> Nat] /\ header' \in [Job -> Message \cup {Null}]
    BY <1>1 DEF PushNode
  <2>2. tail' \in [Job -> Message \cup {Null}]
    BY <1>1 DEF PushNode
  <2>3. items' \in [Job -> Seq(Message)]
    BY <1>1, <1>3, <1>4
  <2> QED BY <1>7, <2>1, <2>2, <2>3 DEF LinksTypeOK
<1>10. ASSUME NEW r \in Job, r # q PROVE (Distinct(items[r]) /\ SharedChain(r, items[r]))'
  <2>0. PICK t : t = items[r]
    OBVIOUS
  <2>1. t \in Seq(Message) /\ Distinct(t) /\ SharedChain(r, t)
    BY <1>1, <1>2, <2>0
  <2>2. Len(t) \in Nat /\ \A i \in 1..Len(t) : t[i] \in Message
    BY <2>1
  <2>3. ASSUME NEW i \in 1..(Len(t) - 1) PROVE next'[t[i]] = t[i + 1]
    <3>1. i \in 1..Len(t) /\ t[i] \in Message /\ t[i] # n /\ next[t[i]] = t[i + 1]
      <4>1. i \in 1..Len(t)
        BY <2>2
      <4> QED BY <2>0, <2>1, <2>2, <4>1 DEF SharedChain, LastOf
    <3>2. CASE s # <<>> /\ t[i] = tail[q]
      <4>1. t[i + 1] = n
        BY <1>5, <1>10, <2>0, <3>2 DEF LosesLink
      <4> QED BY <1>7, <3>2, <4>1
    <3>3. CASE ~(s # <<>> /\ t[i] = tail[q])
      BY <1>7, <3>1, <3>3
    <3> QED BY <3>2, <3>3
  <2>4. SharedChain(r, t)'
    BY <1>4, <1>10, <2>1, <2>3 DEF SharedChain
  <2> QED BY <1>4, <1>10, <2>0, <2>1, <2>4 DEF SharedChain, Distinct
<1>11. (Distinct(items[q]) /\ SharedChain(q, items[q]))'
  <2>1. Distinct(Append(s, n))
    <3>1. \A i \in 1..(Len(s) + 1) : i \in 1..Len(s) \/ i = Len(s) + 1
      BY <1>3
    <3>2. Len(s) + 1 \notin 1..Len(s)
      BY <1>3
    <3> QED BY <1>2, <1>3, <3>1, <3>2 DEF Distinct
  <2>2. ASSUME NEW i \in 1..Len(s)
        PROVE  next'[Append(s, n)[i]] = Append(s, n)[i + 1]
    <3>1. CASE i = Len(s)
      <4>1. s # <<>>
        BY <1>3, <3>1
      <4> QED BY <1>3, <1>6, <1>7, <3>1, <4>1
    <3>2. CASE i # Len(s)
      <4>1. i \in 1..(Len(s) - 1) /\ i + 1 \in 1..Len(s) /\ Len(s) \in 1..Len(s) /\ s # <<>>
        BY <1>3, <3>2
      <4>2. s[i] \in Message /\ s[i] # n /\ s[i] # tail[q]
        BY <1>2, <1>3, <1>6, <3>2, <4>1 DEF Distinct
      <4>3. next[s[i]] = s[i + 1]
        BY <1>2, <4>1 DEF SharedChain
      <4> QED BY <1>3, <1>7, <4>1, <4>2, <4>3
    <3> QED BY <3>1, <3>2
  <2>3. header'[q] = Append(s, n)[1]
    <3>1. s # <<>> => 1 \in 1..Len(s)
      BY <1>3
    <3> QED BY <1>3, <1>6, <1>8, <3>1
  <2>4. Len(Append(s, n)) - 1 = Len(s)
    BY <1>3
  <2> QED BY <1>3, <1>4, <1>5, <2>1, <2>2, <2>3, <2>4 DEF SharedChain, Distinct
<1> QED
  BY <1>9, <1>10, <1>11 DEF FifosInOrder

LEMMA PopFifo ==
  ASSUME FifosInOrder, NEW q \in Job, PopNode(q)
  PROVE  FifosInOrder'
<1>0. PICK s : s = items[q]
  OBVIOUS
<1>1. /\ counter \in [Job -> Nat] /\ header \in [Job -> Message \cup {Null}]
      /\ tail \in [Job -> Message \cup {Null}] /\ next \in [Message -> Message \cup {Null}]
      /\ items \in [Job -> Seq(Message)] /\ s \in Seq(Message)
      /\ Distinct(s) /\ SharedChain(q, s)
      /\ \A r \in Job : Distinct(items[r]) /\ SharedChain(r, items[r])
  BY <1>0 DEF FifosInOrder, LinksTypeOK
<1>2. counter[q] = Len(s) /\ s # <<>>
  BY <1>1, EmptyFacts DEF SharedChain, PopNode
<1>u. PICK u : u = Tail(s)
  OBVIOUS
<1>3. /\ u \in Seq(Message) /\ Len(s) \in Nat /\ Len(s) >= 1 /\ Len(u) = Len(s) - 1
      /\ \A i \in 1..Len(u) : u[i] = s[i + 1]
      /\ \A i \in 1..Len(s) : s[i] \in Message
  BY <1>u, <1>1, <1>2, TailFacts
<1>4. /\ \A r \in Job : r # q => /\ items'[r] = items[r] /\ counter'[r] = counter[r]
                                 /\ header'[r] = header[r] /\ tail'[r] = tail[r]
      /\ items'[q] = u /\ counter'[q] = Len(s) - 1 /\ next' = next
      /\ header'[q] = IF Len(s) = 1 THEN Null ELSE next[header[q]]
      /\ tail'[q] = IF Len(s) = 1 THEN Null ELSE tail[q]
      /\ items' = [items EXCEPT ![q] = u]
  BY <1>0, <1>u, <1>1, <1>2 DEF PopNode, ClearTail
<1>5. /\ header[q] = s[1] /\ tail[q] = s[Len(s)]
      /\ \A i \in 1..(Len(s) - 1) : next[s[i]] = s[i + 1]
  BY <1>1, <1>2 DEF SharedChain
<1>6. LinksTypeOK'
  <2>1. header[q] \in Message /\ next[header[q]] \in Message \cup {Null}
    <3>1. 1 \in 1..Len(s)
      BY <1>3
    <3> QED BY <1>1, <1>3, <1>5, <3>1
  <2>2. counter' \in [Job -> Nat]
    <3>1. Len(s) - 1 \in Nat
      BY <1>3
    <3> QED BY <1>1, <1>2, <3>1 DEF PopNode
  <2>3. items' \in [Job -> Seq(Message)]
    BY <1>1, <1>3, <1>4
  <2>4. header' \in [Job -> Message \cup {Null}] /\ tail' \in [Job -> Message \cup {Null}]
    BY <1>1, <2>1 DEF PopNode, ClearTail
  <2> QED BY <1>1, <1>4, <2>2, <2>3, <2>4 DEF LinksTypeOK
<1>7. ASSUME NEW r \in Job, r # q PROVE (Distinct(items[r]) /\ SharedChain(r, items[r]))'
  BY <1>1, <1>4, <1>7 DEF SharedChain, Distinct
<1>8. (Distinct(items[q]) /\ SharedChain(q, items[q]))'
  <2>1. Distinct(u)
    <3> SUFFICES ASSUME NEW i \in 1..Len(u), NEW k \in 1..Len(u), u[i] = u[k]
                 PROVE  i = k
      BY DEF Distinct
    <3>1. i + 1 \in 1..Len(s) /\ k + 1 \in 1..Len(s)
      BY <1>3
    <3>2. i + 1 = k + 1
      BY <1>1, <1>3, <3>1 DEF Distinct
    <3> QED BY <3>2
  <2>2. ASSUME NEW i \in 1..(Len(u) - 1) PROVE next[u[i]] = u[i + 1]
    <3>1. i \in 1..Len(u) /\ i + 1 \in 1..Len(u) /\ i + 1 \in 1..(Len(s) - 1)
      BY <1>3
    <3> QED BY <1>3, <1>5, <3>1
  <2>3. CASE Len(s) = 1
    <3>1. u = <<>> /\ Len(u) = 0
      <4>1. u \in Seq(Message) /\ Len(u) = 0
        BY <1>3, <2>3
      <4> QED BY <4>1, EmptyFacts
    <3> QED BY <1>3, <1>4, <2>1, <2>2, <2>3, <3>1 DEF SharedChain, Distinct
  <2>4. CASE Len(s) # 1
    <3>1. /\ 1 \in 1..(Len(s) - 1) /\ 1 \in 1..Len(u) /\ Len(u) \in 1..Len(u)
          /\ Len(u) + 1 = Len(s) /\ u # <<>>
      BY <1>3, <2>4, EmptyFacts
    <3>2. header'[q] = u[1] /\ tail'[q] = u[Len(u)]
      BY <1>3, <1>4, <1>5, <2>4, <3>1
    <3> QED BY <1>3, <1>4, <2>1, <2>2, <3>1, <3>2 DEF SharedChain, Distinct
  <2> QED BY <2>3, <2>4
<1> QED
  BY <1>6, <1>7, <1>8 DEF FifosInOrder

LEMMA FifosAssert == FifosInOrder => AssertsHold
<1> SUFFICES ASSUME FifosInOrder, NEW q \in Job PROVE PushAsserts(q) /\ PopAsserts(q)
  BY DEF AssertsHold
<1>1. /\ items[q] \in Seq(Message) /\ SharedChain(q, items[q]) /\ Null \notin Message
  BY MultiCastAssumption DEF FifosInOrder, LinksTypeOK, MultiCastAssumption
<1>2. CASE items[q] = <<>>
  BY <1>1, <1>2, EmptyFacts DEF SharedChain, PushAsserts, PopAsserts
<1>3. CASE items[q] # <<>>
  <2>1. /\ Len(items[q]) \in Nat /\ Len(items[q]) >= 1
        /\ \A i \in 1..Len(items[q]) : items[q][i] \in Message
    BY <1>1, <1>3, TailFacts
  <2>2. /\ counter[q] = Len(items[q]) /\ header[q] = items[q][1]
        /\ tail[q] = items[q][Len(items[q])]
        /\ \A i \in 1..(Len(items[q]) - 1) : next[items[q][i]] = items[q][i + 1]
    BY <1>1, <1>3 DEF SharedChain
  <2>3. 1 \in 1..Len(items[q]) /\ Len(items[q]) \in 1..Len(items[q])
    BY <2>1
  <2>4. header[q] # Null /\ tail[q] # Null
    BY <1>1, <2>1, <2>2, <2>3
  <2>5. ASSUME Len(items[q]) > 1 PROVE next[header[q]] # Null
    <3>1. 1 \in 1..(Len(items[q]) - 1) /\ 1 + 1 \in 1..Len(items[q])
      BY <2>1, <2>5
    <3> QED BY <1>1, <2>1, <2>2, <3>1
  <2>6. CASE Len(items[q]) = 1
    BY <2>2, <2>4, <2>6 DEF PushAsserts, PopAsserts
  <2>7. CASE Len(items[q]) > 1
    <3>1. counter[q] # 0 /\ counter[q] # 1
      BY <2>1, <2>2, <2>7
    <3> QED BY <2>4, <2>5, <2>7, <3>1 DEF PushAsserts, PopAsserts
  <2>8. Len(items[q]) = 1 \/ Len(items[q]) > 1
    <3>1. \A k \in Nat : k >= 1 => k = 1 \/ k > 1
      OBVIOUS
    <3> QED BY <2>1, <3>1
  <2> QED BY <2>6, <2>7, <2>8
<1> QED
  BY <1>2, <1>3


(* What a push and a pop do to the FIFO as a set. *)
LEMMA PushIn ==
  ASSUME FifosInOrder, NEW q \in Job, NEW n \in Message, PushNode(q, n)
  PROVE  /\ \A u, r : r \in Job => (In(u, r)' <=> In(u, r) \/ (r = q /\ u = n))
         /\ \A r \in Job : \A u : LastOf(u, items[r]) /\ (r = q => ~In(u, r))
                                    => LastOf(u, items'[r])
<1>1. PICK s \in Seq(Message) : s = items[q] /\ items'[q] = Append(s, n)
  BY DEF FifosInOrder, LinksTypeOK, PushNode
<1>2. \A r \in Job : r # q => items'[r] = items[r]
  BY DEF FifosInOrder, LinksTypeOK, PushNode
<1>3. /\ Len(Append(s, n)) = Len(s) + 1 /\ Len(s) \in Nat
      /\ \A i \in 1..Len(s) : Append(s, n)[i] = s[i]
      /\ Append(s, n)[Len(s) + 1] = n
  OBVIOUS
<1>4. 1..(Len(s) + 1) = (1..Len(s)) \cup {Len(s) + 1} /\ Len(s) + 1 - 1 = Len(s)
  BY <1>3
<1>5. \A u : In(u, q)' <=> In(u, q) \/ u = n
  BY <1>1, <1>3, <1>4 DEF In
<1>6. \A u : \A r \in Job : r # q => (In(u, r)' <=> In(u, r))
  BY <1>2 DEF In
<1>7. \A u : ~In(u, q) => LastOf(u, items'[q])
  BY <1>1, <1>3, <1>4 DEF In, LastOf
<1> QED
  BY <1>2, <1>5, <1>6, <1>7

LEMMA PopIn ==
  ASSUME FifosInOrder, NEW q \in Job, PopNode(q)
  PROVE  /\ header[q] \in Message /\ In(header[q], q)
         /\ \A u, r : r \in Job => (In(u, r)' <=> In(u, r) /\ ~(r = q /\ u = header[q]))
<1>1. PICK s \in Seq(Message) : s = items[q] /\ items'[q] = Tail(s)
  BY DEF FifosInOrder, LinksTypeOK, PopNode
<1>2. \A r \in Job : r # q => items'[r] = items[r]
  BY DEF FifosInOrder, LinksTypeOK, PopNode
<1>3. s # <<>> /\ header[q] = s[1]
  <2>1. SharedChain(q, s) /\ counter[q] # 0
    BY <1>1 DEF FifosInOrder, PopNode
  <2> QED BY <2>1, EmptyFacts DEF SharedChain
<1>4. /\ Len(s) \in Nat /\ Len(s) >= 1 /\ Len(Tail(s)) = Len(s) - 1
      /\ \A i \in 1..Len(Tail(s)) : Tail(s)[i] = s[i + 1]
      /\ s[1] \in Message
  BY <1>3
<1>5. \A i \in 1..Len(Tail(s)) : i + 1 \in 1..Len(s) /\ i + 1 # 1
  BY <1>4
<1>6. \A i, k \in 1..Len(s) : s[i] = s[k] => i = k
  BY <1>1 DEF FifosInOrder, Distinct
<1>7. In(header[q], q)
  BY <1>1, <1>3, <1>4 DEF In
<1>8. \A u : In(u, q)' => In(u, q) /\ u # header[q]
  <2>1. 1 \in 1..Len(s)
    BY <1>4
  <2> QED BY <1>1, <1>3, <1>4, <1>5, <1>6, <2>1 DEF In
<1>9. ASSUME NEW u, In(u, q), u # header[q] PROVE In(u, q)'
  <2>1. PICK i \in 1..Len(s) : s[i] = u
    BY <1>1, <1>9 DEF In
  <2>2. i - 1 \in 1..Len(Tail(s)) /\ (i - 1) + 1 = i
    BY <1>3, <1>4, <1>9, <2>1
  <2>3. Tail(s)[i - 1] = u
    BY <1>4, <2>1, <2>2
  <2> QED BY <1>1, <2>2, <2>3 DEF In
<1>10. \A u : \A r \in Job : r # q => (In(u, r)' <=> In(u, r))
  BY <1>2 DEF In
<1> QED
  BY <1>3, <1>4, <1>7, <1>8, <1>9, <1>10

LEMMA FifosFrame ==
  ASSUME UNCHANGED fifos
  PROVE  /\ FifosInOrder => FifosInOrder'
         /\ \A u, r : In(u, r)' <=> In(u, r)
  BY DEF fifos, FifosInOrder, LinksTypeOK, Distinct, SharedChain, In

-----------------------------------------------------------------------------
(* The jobs that have a message, one more or one less. *)
LEMMA MorePlaces ==
  ASSUME NEW j \in Job, NEW m, j \notin Places(m), Places(m)' = Places(m) \cup {j},
         IsFiniteSet(Places(m))
  PROVE  /\ IsFiniteSet(Places(m)') /\ Cardinality(Places(m)') = Cardinality(Places(m)) + 1
         /\ Cardinality(Places(m)) \in Nat
  BY FS_AddElement, FS_CardinalityType

LEMMA LessPlaces ==
  ASSUME NEW j \in Job, NEW m, j \in Places(m), Places(m)' = Places(m) \ {j},
         IsFiniteSet(Places(m))
  PROVE  /\ IsFiniteSet(Places(m)') /\ Cardinality(Places(m)') = Cardinality(Places(m)) - 1
         /\ Cardinality(Places(m)) \in Nat /\ Cardinality(Places(m)) >= 1
         /\ Cardinality(Places(m)) = 1 <=> Places(m) = {j}
<1>1. /\ IsFiniteSet(Places(m)')
      /\ Cardinality(Places(m)') = Cardinality(Places(m)) - 1
  BY FS_RemoveElement
<1>2. Cardinality(Places(m)) \in Nat /\ Cardinality(Places(m)') \in Nat
  BY <1>1, FS_CardinalityType
<1>3. Cardinality(Places(m)') = 0 <=> Places(m)' = {}
  BY <1>1, FS_EmptySet
<1> QED
  BY <1>1, <1>2, <1>3

LEMMA OneMore ==
  ASSUME NEW f \in [Message -> Nat], NEW m \in Message
  PROVE  [f EXCEPT ![m] = f[m] + 1] \in [Message -> Nat]
OBVIOUS

LEMMA SameCount ==
  ASSUME Counts, NEW u \in inuse, Places(u)' = Places(u), wrapped'[u] = wrapped[u],
         multi'[u] = multi[u], refs'[u] = refs[u]
  PROVE  CountOK(u)'
  BY DEF Counts, CountOK

LEMMA InitMail == CastInit => Sound /\ TableIsJobs
<1> SUFFICES ASSUME CastInit PROVE Sound /\ TableIsJobs
  OBVIOUS
<1> USE MultiCastAssumption DEF MultiCastAssumption, CastInit
<1>1. MailTypeOK
  BY DEF MailTypeOK
<1>2. FifosInOrder
  BY InitFifos
<1>3. \A u, r : r \in Job => ~In(u, r)
  BY EmptyFacts DEF In, LinksInit
<1>4. \A m \in Message : Places(m) = {}
  BY <1>3 DEF Places
<1>5. HandsApart /\ CastStands
  BY DEF HandsApart, CastStands
<1>6. HadIsInUse /\ Counts /\ Leaks
  BY <1>4 DEF HadIsInUse, Counts, Leaks
<1> QED
  BY <1>1, <1>2, <1>5, <1>6 DEF Sound, TableIsJobs

(* Members come and go between casts; a job leaves the table; a closed job's messages
   begin or end to be freed. *)
LEMMA StayStep ==
  ASSUME Sound,
         \/ CreateGroup \/ CloseGroup \/ EndFree
         \/ \E j \in Job : \/ Enter(j) \/ Leave(j) \/ LeaveAll(j) \/ CloseJob(j)
                           \/ BeginFree(j)
  PROVE  Sound'
<1> USE MultiCastAssumption DEF MultiCastAssumption
<1> DEFINE Members == /\ UNCHANGED <<fifos, hand, mail, unread, cast, unvisited>>
                      /\ drop' = drop \/ (cast = Null /\ drop' \in Job \cup {Null})
                      /\ cast # Null => group' = group
                      /\ \/ group' \subseteq group
                         \/ \E j \in Job : group' = group \cup {j}
<1>1. Members
  <2>1. CASE CreateGroup \/ CloseGroup \/ EndFree
    BY <2>1 DEF CreateGroup, CloseGroup, EndFree, groups, history, Sound, CastStands,
                MailTypeOK
  <2>2. ASSUME NEW j \in Job, \/ Enter(j) \/ Leave(j) \/ LeaveAll(j) \/ CloseJob(j)
                               \/ BeginFree(j)
        PROVE  Members
    BY <2>2 DEF Enter, Leave, LeaveAll, CloseJob, BeginFree, groups, history, Unlocked,
                Sound, MailTypeOK
  <2> QED BY <2>1, <2>2
<1>2. FifosInOrder' /\ \A u, r : In(u, r)' <=> In(u, r)
  BY <1>1, FifosFrame DEF Sound
<1>3. \A m : Places(m)' = Places(m)
  BY <1>1, <1>2 DEF Places
<1>4. MailTypeOK'
  BY <1>1 DEF Sound, MailTypeOK, CastStands, mail, kinds
<1>5. HandsApart' /\ HadIsInUse' /\ Counts' /\ Leaks'
  BY <1>1, <1>2, <1>3, SameCount DEF Sound, HandsApart, HadIsInUse, Counts, Leaks, mail, kinds
<1>6. CastStands'
  BY <1>1, <1>3 DEF Sound, CastStands, MailTypeOK, LastOf, mail, kinds, fifos
<1> QED
  BY <1>2, <1>4, <1>5, <1>6 DEF Sound

(* A fresh message is with no job and in no FIFO. *)
LEMMA FreshIsLoose ==
  ASSUME Sound, NEW m \in Message, m \notin inuse
  PROVE  /\ Places(m) = {} /\ \A j \in Job : ~In(m, j) /\ hand[j] # m
         /\ \A j \in Job : LastOf(m, items[j])
<1>1. Places(m) = {}
  BY DEF Sound, HadIsInUse
<1>2. \A j \in Job : ~In(m, j) /\ hand[j] # m
  BY <1>1 DEF Places
<1>3. \A j \in Job : Len(items[j]) \in Nat
  BY DEF Sound, FifosInOrder, LinksTypeOK
<1>4. \A j \in Job : \A i \in 1..(Len(items[j]) - 1) : i \in 1..Len(items[j])
  BY <1>3
<1> QED
  BY <1>1, <1>2, <1>4 DEF LastOf, In

(* LemonRunQSend to one job: the message is not counted. *)
LEMMA SendStep ==
  ASSUME Sound, NEW j \in Job, NEW m \in Message, NEW b \in BOOLEAN,
         Unlocked, Alloc(m, b, FALSE), QueueUp(j, m), spoilt = {}, spoilt' = {},
         UNCHANGED <<jobs, groups, refs, hand, cast, unvisited, drop>>
  PROVE  Sound'
<1> USE DEF Alloc
<1>1. /\ Places(m) = {} /\ \A k \in Job : ~In(m, k) /\ hand[k] # m
      /\ \A k \in Job : LastOf(m, items[k])
  BY FreshIsLoose
<1>2. PushNode(j, m) /\ ~LosesLink(j, m)
  BY DEF QueueUp, Spoilt
<1>3. FifosInOrder' /\ \A u, r : r \in Job => (In(u, r)' <=> In(u, r) \/ (r = j /\ u = m))
  BY <1>1, <1>2, PushFifo, PushIn DEF Sound
<1>4. Places(m)' = {j} /\ \A u : u # m => Places(u)' = Places(u)
  BY <1>1, <1>3 DEF Places
<1>5. MailTypeOK'
  BY DEF Sound, MailTypeOK, groups
<1>6. HandsApart'
  BY <1>1, <1>3 DEF Sound, HandsApart
<1>7. HadIsInUse' /\ Leaks'
  BY <1>4 DEF Sound, HadIsInUse, Leaks
<1>8. Counts'
  <2>1. ASSUME NEW u \in inuse' PROVE CountOK(u)'
    <3>1. CASE u = m
      BY <1>4, <3>1 DEF Sound, MailTypeOK, CountOK
    <3>2. CASE u # m
      BY <1>4, <2>1, <3>2, SameCount DEF Sound, MailTypeOK
    <3> QED BY <3>1, <3>2
  <2> QED BY <2>1 DEF Counts
<1>9. CastStands'
  BY DEF Sound, CastStands, Unlocked, groups
<1> QED
  BY <1>3, <1>5, <1>6, <1>7, <1>8, <1>9 DEF Sound

LEMMA BeginCastStep ==
  ASSUME Sound, NEW m \in Message, BeginCast(m)
  PROVE  Sound'
<1> USE DEF BeginCast, Alloc
<1>1. Places(m) = {} /\ \A j \in Job : LastOf(m, items[j])
  BY FreshIsLoose
<1>2. FifosInOrder' /\ \A u, r : In(u, r)' <=> In(u, r)
  BY FifosFrame DEF Sound
<1>3. \A u : Places(u)' = Places(u)
  BY <1>2 DEF Places
<1>4. MailTypeOK'
  BY DEF Sound, MailTypeOK, groups
<1>5. HandsApart' /\ HadIsInUse'
  BY <1>2, <1>3 DEF Sound, HandsApart, HadIsInUse
<1>6. Counts'
  <2>1. IsFiniteSet(Places(m)') /\ Cardinality(Places(m)') = 0
    BY <1>1, <1>3, FS_EmptySet
  <2>2. ASSUME NEW u \in inuse' PROVE CountOK(u)'
    <3>1. CASE u = m
      BY <2>1, <3>1 DEF Sound, MailTypeOK, CountOK
    <3>2. CASE u # m
      BY <1>3, <2>2, <3>2, SameCount DEF Sound, MailTypeOK
    <3> QED BY <3>1, <3>2
  <2> QED BY <2>2 DEF Counts
<1>7. CastStands'
  BY <1>1, <1>3, MultiCastAssumption
  DEF Sound, MailTypeOK, CastStands, groups, Unlocked, MultiCastAssumption, LastOf, fifos
<1>8. Leaks'
  BY <1>3, MultiCastAssumption
  DEF Sound, Leaks, Unlocked, MailTypeOK, MultiCastAssumption
<1> QED
  BY <1>2, <1>4, <1>5, <1>6, <1>7, <1>8 DEF Sound

LEMMA CastToStep ==
  ASSUME Sound, NEW j \in Job, CastTo(j), spoilt = {}, spoilt' = {}
  PROVE  Sound'
<1> USE DEF CastTo
<1>1. PICK m \in Message : m = cast
  BY DEF Sound, MailTypeOK, CastStands
<1>2. /\ m \in inuse /\ wrapped[m] /\ cast # Null /\ drop = Null
      /\ Places(m) = {} => unvisited = group
      /\ j \in unvisited /\ unvisited' = unvisited \ {j} /\ j \notin Places(m)
      /\ unvisited \cap Places(m) = {} /\ \A r \in Job : LastOf(m, items[r])
      /\ multi[m] /\ IsFiniteSet(Places(m)) /\ refs[m] = Cardinality(Places(m))
      /\ UNCHANGED <<groups, multi, hand, cast, drop, unread>>
  BY <1>1 DEF Sound, CastStands, Counts, CountOK
<1>3. CASE j \in table
  <2>1. /\ PushNode(j, m) /\ ~LosesLink(j, m) /\ refs' = [refs EXCEPT ![m] = @ + 1]
        /\ UNCHANGED <<inuse, wrapped>>
    BY <1>1, <1>3 DEF Counted, QueueUp, Spoilt
  <2>2. ~In(m, j)
    BY <1>2 DEF Places
  <2>3. /\ FifosInOrder'
        /\ \A u, r : r \in Job => (In(u, r)' <=> In(u, r) \/ (r = j /\ u = m))
        /\ \A r \in Job : LastOf(m, items'[r])
    BY <1>2, <2>1, <2>2, PushFifo, PushIn DEF Sound
  <2>4. Places(m)' = Places(m) \cup {j} /\ \A u : u # m => Places(u)' = Places(u)
    BY <1>2, <2>3 DEF Places
  <2>5. MailTypeOK'
    <3>1. refs' \in [Message -> Nat]
      <4>1. m \in Message /\ refs \in [Message -> Nat]
        BY <1>1 DEF Sound, MailTypeOK
      <4>2. [refs EXCEPT ![m] = refs[m] + 1] \in [Message -> Nat]
        BY <4>1, OneMore
      <4> QED BY <2>1, <4>2
    <3>2. group' = group /\ unvisited' \subseteq unvisited
      BY <1>2 DEF groups
    <3>3. UNCHANGED <<inuse, wrapped, multi, hand, cast, drop>>
      BY <1>2, <2>1
    <3> QED BY <3>1, <3>2, <3>3 DEF Sound, MailTypeOK
  <2>6. HandsApart'
    <3>1. hand[j] # m
      BY <1>2 DEF Places
    <3> QED BY <1>2, <2>3, <3>1 DEF Sound, HandsApart
  <2>7. HadIsInUse' /\ Leaks'
    BY <1>1, <1>2, <2>1, <2>4 DEF Sound, HadIsInUse, Leaks
  <2>8. Counts'
    <3>1. IsFiniteSet(Places(m)') /\ Cardinality(Places(m)') = Cardinality(Places(m)) + 1
      BY <1>2, <2>4, MorePlaces
    <3>2. ASSUME NEW u \in inuse' PROVE CountOK(u)'
      <4>1. CASE u = m
        BY <1>2, <2>1, <3>1, <4>1 DEF Sound, MailTypeOK, CountOK
      <4>2. CASE u # m
        <5>1. u \in inuse /\ wrapped'[u] = wrapped[u] /\ multi'[u] = multi[u]
          BY <1>2, <2>1, <3>2
        <5>2. refs'[u] = refs[u] /\ Places(u)' = Places(u)
          BY <2>1, <2>4, <4>2, <5>1 DEF Sound, MailTypeOK
        <5> QED BY <5>1, <5>2, SameCount DEF Sound
      <4> QED BY <4>1, <4>2
    <3> QED BY <3>2 DEF Counts
  <2>9. CastStands'
    BY <1>1, <1>2, <2>1, <2>3, <2>4 DEF CastStands
  <2> QED BY <2>3, <2>5, <2>6, <2>7, <2>8, <2>9 DEF Sound
<1>4. CASE j \notin table
  <2>1. /\ CloseCounted(m, refs[m]) /\ UNCHANGED fifos
        /\ refs[m] = 0 => unvisited = {j}
    BY <1>1, <1>4 DEF Spoilt
  <2>2. FifosInOrder' /\ \A u, r : In(u, r)' <=> In(u, r)
    BY <2>1, FifosFrame DEF Sound
  <2>3. \A u : Places(u)' = Places(u)
    BY <1>2, <2>2 DEF Places
  <2>4. /\ refs' = refs
        /\ inuse' = IF refs[m] = 0 THEN inuse \ {m} ELSE inuse
        /\ \A u \in inuse' : wrapped'[u] = wrapped[u]
        /\ wrapped' \in [Message -> BOOLEAN]
    BY <2>1 DEF CloseCounted, Sound, MailTypeOK
  <2>5. refs[m] = 0 => Places(m) = {} /\ unvisited' = {}
    <3>1. refs[m] = 0 => Places(m) = {}
      BY <1>2, FS_EmptySet
    <3> QED BY <1>2, <2>1, <3>1
  <2>6. MailTypeOK'
    BY <1>2, <2>4 DEF Sound, MailTypeOK, groups
  <2>7. HandsApart' /\ HadIsInUse' /\ Counts'
    BY <1>2, <2>2, <2>3, <2>4, <2>5, SameCount DEF Sound, HandsApart, HadIsInUse, Counts
  <2>8. Leaks'
    BY <1>2, <2>3, <2>4 DEF Sound, Leaks
  <2>9. CastStands'
    <3>1. \A r \in Job : LastOf(m, items'[r])
      BY <1>2, <2>1 DEF fifos
    <3>2. refs[m] # 0 => Places(m) # {}
      BY <1>2, FS_EmptySet
    <3> QED BY <1>1, <1>2, <2>3, <2>4, <2>5, <3>1, <3>2 DEF CastStands
  <2> QED BY <2>2, <2>6, <2>7, <2>8, <2>9 DEF Sound
<1> QED
  BY <1>3, <1>4

LEMMA EndCastStep == ASSUME Sound, EndCast PROVE Sound'
<1> USE DEF EndCast
<1>1. FifosInOrder' /\ \A u, r : In(u, r)' <=> In(u, r)
  BY FifosFrame DEF Sound
<1>2. \A u : Places(u)' = Places(u)
  BY <1>1 DEF Places
<1>3. MailTypeOK' /\ HandsApart' /\ HadIsInUse' /\ Counts'
  BY <1>1, <1>2, SameCount
  DEF Sound, MailTypeOK, HandsApart, HadIsInUse, Counts, groups, mail, kinds
<1>4. CastStands'
  BY DEF CastStands
<1>5. Leaks'
  BY <1>2 DEF Sound, Leaks, CastStands, mail
<1> QED
  BY <1>1, <1>3, <1>4, <1>5 DEF Sound

LEMMA TakeStep == ASSUME Sound, NEW j \in Job, Take(j) PROVE Sound'
<1> USE DEF Take, KeepForRecv
<1>1. PICK m \in Message : m = header[j] /\ In(m, j)
  BY PopIn DEF Sound
<1>2. FifosInOrder' /\ \A u, r : r \in Job => (In(u, r)' <=> In(u, r) /\ ~(r = j /\ u = m))
  BY <1>1, PopFifo, PopIn DEF Sound
<1>3. hand' = [hand EXCEPT ![j] = m] /\ hand[j] = Null /\ m # Null
  BY <1>1, MultiCastAssumption DEF MultiCastAssumption
<1>4. \A u \in Message : Places(u)' = Places(u)
  BY <1>1, <1>2, <1>3, MultiCastAssumption
  DEF Places, Sound, MailTypeOK, MultiCastAssumption
<1>5. MailTypeOK'
  BY <1>3 DEF Sound, MailTypeOK, groups, kinds
<1>6. HandsApart'
  BY <1>2, <1>3 DEF Sound, MailTypeOK, HandsApart
<1>7. HadIsInUse' /\ Leaks'
  BY <1>4 DEF Sound, MailTypeOK, HadIsInUse, Leaks, history
<1>9. Counts'
  BY <1>4, SameCount DEF Sound, MailTypeOK, Counts, kinds
<1>8. CastStands'
  BY DEF Sound, CastStands, Unlocked
<1> QED
  BY <1>2, <1>5, <1>6, <1>7, <1>8, <1>9 DEF Sound

(* One job less has the message; if it was the only one, it is freed. *)
LEMMA GiveBackStep == ASSUME Sound, NEW j \in Job, GiveBack(j) PROVE Sound'
<1> USE DEF GiveBack
<1>1. PICK m \in Message : m = hand[j]
  BY DEF Sound, MailTypeOK
<1>2. FifosInOrder' /\ \A u, r : In(u, r)' <=> In(u, r)
  BY FifosFrame DEF Sound
<1>3. m # Null /\ j \in Places(m) /\ m \in inuse /\ ~In(m, j)
  BY <1>1 DEF Sound, HadIsInUse, HandsApart, Places
<1>4. hand' = [hand EXCEPT ![j] = Null]
  OBVIOUS
<1>5. Places(m)' = Places(m) \ {j} /\ \A u \in Message : u # m => Places(u)' = Places(u)
  BY <1>1, <1>2, <1>3, <1>4, MultiCastAssumption
  DEF Places, Sound, MailTypeOK, MultiCastAssumption
<1>6. HandsApart'
  BY <1>2, <1>4 DEF Sound, MailTypeOK, HandsApart
<1>7. CastStands'
  BY DEF Sound, CastStands, Unlocked
<1>8. CASE wrapped[m]
  <2>1. /\ multi[m] /\ IsFiniteSet(Places(m)) /\ refs[m] = Cardinality(Places(m))
    BY <1>3, <1>8 DEF Sound, Counts, CountOK
  <2>2. /\ IsFiniteSet(Places(m)') /\ Cardinality(Places(m)') = refs[m] - 1
        /\ refs[m] \in Nat /\ refs[m] >= 1 /\ (refs[m] = 1 <=> Places(m) = {j})
    BY <1>3, <1>5, <2>1, LessPlaces
  <2>3. CloseCounted(m, refs[m] - 1)
    BY <1>1, <2>1
  <2>4. /\ refs' = [refs EXCEPT ![m] = refs[m] - 1] /\ refs' \in [Message -> Nat]
        /\ inuse' = IF Places(m) = {j} THEN inuse \ {m} ELSE inuse
        /\ wrapped' \in [Message -> BOOLEAN]
        /\ \A u \in inuse' : wrapped'[u] = wrapped[u]
    <3>1. refs[m] - 1 \in Nat /\ (refs[m] - 1 = 0 <=> Places(m) = {j})
      BY <2>2
    <3> QED BY <2>3, <3>1 DEF CloseCounted, Sound, MailTypeOK
  <2>5. MailTypeOK'
    <3>1. inuse' \subseteq Message /\ hand' \in [Job -> Message \cup {Null}]
      BY <1>4, <2>4 DEF Sound, MailTypeOK
    <3> QED BY <2>4, <3>1 DEF Sound, MailTypeOK, groups
  <2>6. HadIsInUse' /\ Leaks'
    <3>1. Places(m)' = {} <=> Places(m) = {j}
      BY <1>3, <1>5
    <3> QED BY <1>5, <2>4, <3>1 DEF Sound, MailTypeOK, HadIsInUse, Leaks, history
  <2>7. Counts'
    <3>1. ASSUME NEW u \in inuse' PROVE CountOK(u)'
      <4>1. CASE u = m
        BY <1>8, <2>1, <2>2, <2>4, <4>1 DEF Sound, MailTypeOK, CountOK
      <4>2. CASE u # m
        BY <1>5, <2>4, <3>1, <4>2, SameCount DEF Sound, MailTypeOK
      <4> QED BY <4>1, <4>2
    <3> QED BY <3>1 DEF Counts
  <2> QED BY <1>2, <1>6, <1>7, <2>5, <2>6, <2>7 DEF Sound
<1>9. CASE ~wrapped[m]
  <2>1. ~multi[m] /\ inuse' = inuse \ {m} /\ UNCHANGED <<refs, wrapped, multi>>
    BY <1>1, <1>9 DEF CloseAssert
  <2>2. Places(m)' = {}
    BY <1>3, <1>5, <1>9 DEF Sound, Counts, CountOK
  <2>3. MailTypeOK'
    BY <1>4, <2>1 DEF Sound, MailTypeOK, groups
  <2>4. HadIsInUse' /\ Leaks'
    BY <1>5, <2>1, <2>2 DEF Sound, MailTypeOK, HadIsInUse, Leaks, history
  <2>5. Counts'
    BY <1>5, <2>1, SameCount DEF Sound, MailTypeOK, Counts
  <2> QED BY <1>2, <1>6, <1>7, <2>3, <2>4, <2>5 DEF Sound
<1> QED
  BY <1>8, <1>9

LEMMA DropStep == ASSUME Sound, DropMessage, spoilt = {}, spoilt' = {} PROVE Sound'
<1> USE DEF DropMessage
<1>1. drop \in Job /\ cast = Null /\ unvisited = {}
  BY DEF Sound, MailTypeOK, CastStands
<1>2. PICK m \in Message : m = header[drop] /\ In(m, drop)
  BY <1>1, PopIn DEF Sound
<1>3. /\ FifosInOrder'
      /\ \A u, r : r \in Job => (In(u, r)' <=> In(u, r) /\ ~(r = drop /\ u = m))
  BY <1>1, <1>2, PopFifo, PopIn DEF Sound
<1>4. Places(m) = {drop} /\ inuse' = inuse \ {m}
  BY <1>2 DEF Spoilt
<1>5. hand[drop] # m
  BY <1>1, <1>2, MultiCastAssumption DEF Sound, HandsApart, MultiCastAssumption
<1>6. Places(m)' = {} /\ \A u \in Message : u # m => Places(u)' = Places(u)
  BY <1>3, <1>4, <1>5 DEF Places
<1>7. MailTypeOK'
  BY <1>4 DEF Sound, MailTypeOK, groups, kinds
<1>8. HandsApart'
  BY <1>3 DEF Sound, HandsApart
<1>9. HadIsInUse' /\ Leaks'
  BY <1>4, <1>6 DEF Sound, MailTypeOK, HadIsInUse, Leaks
<1>11. Counts'
  BY <1>4, <1>6, SameCount DEF Sound, MailTypeOK, Counts, kinds
<1>10. CastStands'
  BY <1>1 DEF CastStands
<1> QED
  BY <1>3, <1>7, <1>8, <1>9, <1>10, <1>11 DEF Sound

LEMMA MailStep ==
  ASSUME MailInv, [CastNext]_mvars
  PROVE  MailInv'
<1>1. TableIsJobs'
  <2>1. table' \subseteq table
    BY DEF CastNext, mvars, jobs, CreateGroup, CloseGroup, EndCast, DropMessage, EndFree,
           BeginCast, RemoteGroupCast, Enter, Leave, LeaveAll, CloseJob, CastTo, Take,
           GiveBack, BeginFree, Unicast
  <2> QED BY <2>1 DEF MailInv, TableIsJobs
<1>2. spoilt' = {} => spoilt = {}
  BY DEF CastNext, mvars, history, CreateGroup, CloseGroup, EndCast, DropMessage, EndFree,
         BeginCast, RemoteGroupCast, Enter, Leave, LeaveAll, CloseJob, CastTo, Take,
         GiveBack, BeginFree, Unicast, QueueUp, Spoilt
<1>3. SUFFICES ASSUME Sound, spoilt = {}, spoilt' = {} PROVE Sound'
  BY <1>1, <1>2 DEF MailInv
<1>4. ASSUME NEW j \in Job, NEW m \in Message, Unicast(j, m) PROVE Sound'
  BY <1>3, <1>4, SendStep DEF Unicast
<1>5. ASSUME NEW m \in Message, RemoteGroupCast(m) PROVE Sound'
  <2>1. Proxy \in Job
    BY <1>5 DEF MailInv, TableIsJobs, RemoteGroupCast
  <2> QED BY <1>3, <1>5, <2>1, SendStep DEF RemoteGroupCast
<1>6. CASE UNCHANGED mvars
  <2>1. FifosInOrder' /\ \A u, r : In(u, r)' <=> In(u, r)
    BY <1>3, <1>6, FifosFrame DEF mvars, Sound
  <2>2. \A u : Places(u)' = Places(u)
    BY <1>6, <2>1 DEF Places, mvars
  <2> QED
    BY <1>3, <1>6, <2>1, <2>2, SameCount
    DEF mvars, kinds, groups, fifos, Sound, MailTypeOK, HandsApart, HadIsInUse, Counts,
        CastStands, LastOf, Leaks
<1> QED
  BY <1>3, <1>4, <1>5, <1>6, StayStep, BeginCastStep, CastToStep, EndCastStep, TakeStep,
     GiveBackStep, DropStep DEF CastNext

LEMMA MailFollows == CastSpec => []MailInv
<1>1. CastInit => MailInv
  BY InitMail DEF MailInv
<1>2. MailInv /\ [CastNext]_mvars => MailInv'
  BY MailStep
<1> QED
  BY <1>1, <1>2, PTL DEF CastSpec

(* messageQ.cpp: whatever is sent, cast, received and closed, with any number of members,
   no assertion of the messages' FIFOs fails before a link is overwritten behind a shared
   message or a message is freed that others have to read. *)
THEOREM QueuesSound == CastSpec => []QueueAsserts
<1>1. MailInv => QueueAsserts
  BY FifosAssert DEF MailInv, Sound, QueueAsserts
<1> QED
  BY <1>1, MailFollows, PTL

(* multicast.cpp, job.cpp: until then a message is allocated as long as some member has
   it to read, and its count is the number of those, so that it is freed by its last
   reader, once; only one cast to an empty group is never freed. *)
THEOREM MessagesRight == CastSpec => []MessagesCounted
<1>1. MailInv => MessagesCounted
  <2> SUFFICES ASSUME Sound PROVE MailAllocated /\ RefsCount /\ OnlyUnreadLeaks
    BY DEF MailInv, MessagesCounted
  <2>1. MailAllocated
    BY DEF Sound, MailAllocated, HadIsInUse, CastStands
  <2>2. RefsCount
    BY DEF Sound, RefsCount, Counts, CountOK
  <2>3. OnlyUnreadLeaks
    BY DEF Sound, OnlyUnreadLeaks, Leaks
  <2> QED BY <2>1, <2>2, <2>3
<1> QED
  BY <1>1, MailFollows, PTL
=============================================================================
