------------------------------- MODULE LuaProofs ------------------------------
(* Theorems about parts of Lua, for every value of their constants: calls, errors
   and coroutines. *)
EXTENDS LuaDo, FiniteSetTheorems, WellFoundedInduction, TLAPS

-----------------------------------------------------------------------------
(* What the invariant says, of any lists C of functions, C stack S, statuses st,
   values N of nny, and set sp of spoiled threads. *)
FrameType == [fn : {"lua", "c", "pcall", "xpcall", "yield"}, fresh : BOOLEAN,
              ypcall : BOOLEAN, olderr : Nat]
CallType == [c : {"call"}, th : LuaThreads, allowyield : BOOLEAN]
RunType  == [c : {"run"}, th : LuaThreads, what : {"pcall", "resume", "unroll"},
             from : LuaThreads, calls : Int, ci : Nat, nny : Int, errfunc : Nat]
EntryType == CallType \cup RunType
Lists == [LuaThreads -> Seq(FrameType)]
Statuses == [LuaThreads -> {"ok", "yield", "error"}]
Counters == [LuaThreads -> Int]

DoTypeOK ==
  /\ ci \in Lists /\ cstack \in Seq(EntryType) /\ status \in Statuses
  /\ nny \in Counters /\ nCcalls \in Counters /\ errfunc \in [LuaThreads -> Nat]

(* The functions of a thread: C functions call fresh Lua functions, which are
   called by nothing else; the function yield is on top of those that wait. *)
IsC(f) == f.fn \in {"c", "pcall", "xpcall"}
FrameRight(s, j) ==
  /\ j = 1 => s[j].fn = "lua" /\ s[j].fresh
  /\ IsC(s[j]) => /\ 1 < j /\ s[j - 1].fn = "lua"
                  /\ j < Len(s) /\ s[j + 1].fn = "lua" /\ s[j + 1].fresh
  /\ s[j].fn = "yield" => 1 < j /\ j = Len(s) /\ s[j - 1].fn = "lua"
  /\ s[j].fn = "lua" /\ 1 < j => IF s[j].fresh THEN IsC(s[j - 1]) ELSE s[j - 1].fn = "lua"
  /\ s[j].ypcall => Protected(s[j])

ListRight(s) == \A j \in DOMAIN s : FrameRight(s, j)
Waits(s) == s # <<>> /\ s[Len(s)].fn = "yield"

FramesRight(C, st) ==
  \A th \in LuaThreads :
    /\ ListRight(C[th])
    /\ st[th] = "yield" <=> Waits(C[th])
    /\ st[th] = "ok" => Len(C[th]) <= MaxFrames + 1
    /\ st[th] = "yield" => Len(C[th]) <= MaxFrames + 2

IsCall(e)   == e.c = "call"
IsPcall(e)  == e.c = "run" /\ e.what = "pcall"
IsResume(e) == e.c = "run" /\ e.what # "pcall"

(* The C stack is one piece for each thread that has been resumed and not left,
   which a resume begins. *)
PieceAt(S, i) ==
  /\ 1 < i /\ ~IsResume(S[i]) => S[i - 1].th = S[i].th
  /\ IsResume(S[i]) => S[i].th # MainThread /\ \A k \in 1 .. i - 1 : S[k].th # S[i].th
  /\ IsPcall(S[i]) => i < Len(S) /\ IsCall(S[i + 1]) /\ S[i + 1].th = S[i].th

Convex(S) ==
  \A i, k, l \in DOMAIN S : i < k /\ k < l /\ S[i].th = S[l].th => S[k].th = S[i].th

Pieces(S) ==
  /\ 1 \in DOMAIN S /\ S[1] = CallEntry(MainThread, FALSE)
  /\ \A i \in DOMAIN S : PieceAt(S, i)
  /\ Convex(S)

Alive(C, S, st) == \A i \in DOMAIN S : st[S[i].th] = "ok" /\ C[S[i].th] # <<>>

(* f: the place in its list of the Lua function an entry of the C stack has called. *)
Above(S, i, k) == i < k /\ S[k].th = S[i].th

CallPlaced(s, S, f, i) ==
  /\ f[i] \in DOMAIN s /\ s[f[i]].fn = "lua" /\ s[f[i]].fresh
  /\ i = 1 => f[i] = 1
  /\ 1 < i => /\ 1 < f[i] /\ S[i].allowyield = s[f[i] - 1].ypcall
              /\ IsPcall(S[i - 1]) <=> Protected(s[f[i] - 1]) /\ ~s[f[i] - 1].ypcall
              /\ IsPcall(S[i - 1]) => S[i - 1].ci = f[i] - 1

Matched(s, S, f, i) ==
  \A j \in DOMAIN s : IsC(s[j]) /\ f[i] < j =>
    \E k \in DOMAIN S : Above(S, i, k) /\ IsCall(S[k]) /\ f[k] = j + 1

PlacedAt(C, S, f, i) ==
  /\ IsResume(S[i]) => f[i] = 0
  /\ IsPcall(S[i]) => 1 < i /\ f[i] = f[i - 1]
  /\ IsCall(S[i]) => CallPlaced(C[S[i].th], S, f, i) /\ Matched(C[S[i].th], S, f, i)
  /\ \A k \in DOMAIN S : Above(S, i, k) => f[i] <= f[k] /\ (IsCall(S[k]) => f[i] + 2 <= f[k])

Placed(C, S, f) == \A i \in DOMAIN S : PlacedAt(C, S, f, i)

(* h: what nny is while an entry is the last of its thread. *)
Level(S, f, h, i) ==
  /\ h[i] <= f[i] + 1
  /\ IsResume(S[i]) => h[i] = 0
  /\ IsPcall(S[i]) => 1 < i /\ h[i] = h[i - 1]
  /\ IsCall(S[i]) /\ i = 1 => h[i] = 2
  /\ IsCall(S[i]) /\ 1 < i => h[i] = IF S[i].allowyield THEN h[i - 1] ELSE h[i - 1] + 1
  /\ \A k \in DOMAIN S : Above(S, i, k) => h[i] <= h[k]

Trusted(S, N, h, i) ==
  /\ IsPcall(S[i]) => S[i].nny = h[i]
  /\ IsCall(S[i]) /\ S[i].allowyield => h[i] = 0
  /\ (\A k \in DOMAIN S : ~Above(S, i, k)) => N[S[i].th] = h[i]

Counts(S, N, sp, f, h) ==
  \A i \in DOMAIN S : Level(S, f, h, i) /\ (S[i].th \notin sp => Trusted(S, N, h, i))

(* A C function that noted no continuation is on the C stack, so that none has been
   left in a thread that has yielded. *)
Returned(C, S, st, sp, f) ==
  \A th \in LuaThreads \ sp : \A j \in DOMAIN C[th] :
    IsC(C[th][j]) /\ ~C[th][j].ypcall /\ st[th] # "error" =>
      \E i \in DOMAIN S : S[i].th = th /\ IsCall(S[i]) /\ f[i] = j + 1

StackRight(C, S, st, N, sp) ==
  /\ Pieces(S) /\ Alive(C, S, st)
  /\ \E f, h \in [DOMAIN S -> Nat] :
       Placed(C, S, f) /\ Counts(S, N, sp, f, h) /\ Returned(C, S, st, sp, f)

(* What errfunc is to become is noted with each protected call. *)
HandlerAt(s, n) ==
  LET S == {i \in 1 .. n : Protected(s[i])}
  IN  IF S # {} /\ s[Last(S)].fn = "xpcall" THEN Last(S) ELSE 0

ListHandled(s, err) ==
  /\ err = HandlerAt(s, Len(s))
  /\ \A j \in DOMAIN s : s[j].ypcall => s[j].olderr = HandlerAt(s, j - 1)

Handled(C, S, st, E, lost) ==
  /\ \A th \in LuaThreads \ lost : st[th] # "error" => ListHandled(C[th], E[th])
  /\ \A i \in DOMAIN S : IsPcall(S[i]) /\ S[i].th \notin lost =>
       S[i].ci \in 1 .. Len(C[S[i].th]) /\ S[i].errfunc = HandlerAt(C[S[i].th], S[i].ci - 1)

DoInv ==
  /\ DoTypeOK /\ FramesRight(ci, status) /\ StackRight(ci, cstack, status, nny, spoiled)
  /\ Handled(ci, cstack, status, errfunc, stale \cup spoiled) /\ escaped \subseteq spoiled

-----------------------------------------------------------------------------
(* Sequences. *)
LEMMA AppendIs ==
  ASSUME NEW T, NEW s \in Seq(T), NEW e \in T
  PROVE  /\ Append(s, e) \in Seq(T) /\ Len(Append(s, e)) = Len(s) + 1
         /\ DOMAIN Append(s, e) = 1 .. Len(s) + 1
         /\ \A i \in 1 .. Len(s) : Append(s, e)[i] = s[i]
         /\ Append(s, e)[Len(s) + 1] = e
OBVIOUS

LEMMA PairIs ==
  ASSUME NEW T, NEW s \in Seq(T), NEW d \in T, NEW e \in T
  PROVE  /\ s \o <<d, e>> \in Seq(T) /\ Len(s \o <<d, e>>) = Len(s) + 2
         /\ DOMAIN (s \o <<d, e>>) = 1 .. Len(s) + 2
         /\ \A i \in 1 .. Len(s) : (s \o <<d, e>>)[i] = s[i]
         /\ (s \o <<d, e>>)[Len(s) + 1] = d /\ (s \o <<d, e>>)[Len(s) + 2] = e
<1>1. <<d, e>> \in Seq(T) /\ Len(<<d, e>>) = 2 /\ <<d, e>>[1] = d /\ <<d, e>>[2] = e
  OBVIOUS
<1> DEFINE p == <<d, e>>
<1> HIDE DEF p
<1>2. s \o p \in Seq(T) /\ Len(s \o p) = Len(s) + 2
  BY <1>1 DEF p
<1>3. \A i \in 1 .. Len(s) + 2 : (s \o p)[i] = IF i <= Len(s) THEN s[i] ELSE p[i - Len(s)]
  BY <1>1 DEF p
<1> QED
  BY <1>1, <1>2, <1>3 DEF p

LEMMA CutIs ==
  ASSUME NEW T, NEW s \in Seq(T), NEW n \in 0 .. Len(s)
  PROVE  /\ SubSeq(s, 1, n) \in Seq(T) /\ Len(SubSeq(s, 1, n)) = n
         /\ DOMAIN SubSeq(s, 1, n) = 1 .. n
         /\ \A i \in 1 .. n : SubSeq(s, 1, n)[i] = s[i]
OBVIOUS

-----------------------------------------------------------------------------
(* The C stack is cut to n entries, all those above which are of one thread, th. *)
Prefix(S2, S, n) ==
  /\ n \in 1 .. Len(S) /\ DOMAIN S = 1 .. Len(S) /\ Len(S) \in Nat
  /\ DOMAIN S2 = 1 .. n /\ Len(S2) = n /\ \A i \in 1 .. n : S2[i] = S[i]

LEMMA PrefixIs ==
  ASSUME NEW T, NEW S \in Seq(T), NEW n \in 1 .. Len(S)
  PROVE  Prefix(SubSeq(S, 1, n), S, n) /\ SubSeq(S, 1, n) \in Seq(T)
BY CutIs DEF Prefix

LEMMA PrefixAbove ==
  ASSUME NEW S, NEW S2, NEW n, Prefix(S2, S, n), NEW i \in 1 .. n, NEW k \in 1 .. n
  PROVE  Above(S2, i, k) <=> Above(S, i, k)
BY DEF Prefix, Above

LEMMA CutPieces ==
  ASSUME NEW S, NEW S2, NEW n, Prefix(S2, S, n), Pieces(S), ~IsPcall(S[n])
  PROVE  Pieces(S2)
<1>1. 1 \in DOMAIN S2 /\ S2[1] = CallEntry(MainThread, FALSE)
  <2>1. 1 \in 1 .. n
    BY DEF Prefix
  <2>2. S2[1] = S[1] /\ DOMAIN S2 = 1 .. n
    BY <2>1 DEF Prefix
  <2> QED
    BY <2>1, <2>2 DEF Pieces
<1>2. ASSUME NEW i \in DOMAIN S2 PROVE PieceAt(S2, i)
  <2>1. PieceAt(S, i) /\ i \in 1 .. n /\ n \in Nat /\ Len(S2) = n
    BY DEF Prefix, Pieces
  <2>2. /\ S2[i] = S[i] /\ \A k \in 1 .. i - 1 : S2[k] = S[k]
        /\ 1 < i => S2[i - 1] = S[i - 1]
        /\ i < n => S2[i + 1] = S[i + 1]
        /\ i = n => ~IsPcall(S[i])
    BY <2>1 DEF Prefix
  <2> QED
    BY <2>1, <2>2 DEF PieceAt
<1>3. Convex(S2)
  <2> SUFFICES ASSUME NEW i \in DOMAIN S2, NEW k \in DOMAIN S2, NEW l \in DOMAIN S2,
                      i < k, k < l, S2[i].th = S2[l].th
               PROVE  S2[k].th = S2[i].th
    BY DEF Convex
  <2>1. i \in DOMAIN S /\ k \in DOMAIN S /\ l \in DOMAIN S
    BY DEF Prefix
  <2>2. S2[i] = S[i] /\ S2[k] = S[k] /\ S2[l] = S[l]
    BY DEF Prefix
  <2> QED
    BY <2>1, <2>2 DEF Pieces, Convex
<1> QED
  BY <1>1, <1>2, <1>3 DEF Pieces

LEMMA TopOfThread ==
  ASSUME NEW S, NEW n, NEW th, Convex(S), DOMAIN S = 1 .. Len(S), Len(S) \in Nat,
         n \in 1 .. Len(S), S[Len(S)].th = th, S[n].th # th
  PROVE  \A i \in 1 .. n : S[i].th # th
<1> SUFFICES ASSUME NEW i \in 1 .. n, S[i].th = th PROVE FALSE
  OBVIOUS
<1>1. i < n /\ n < Len(S)
  OBVIOUS
<1> QED
  BY <1>1 DEF Convex

(* Of the list of th the first m functions stay, above them is no C function. *)
Trimmed(s, s2, m) ==
  /\ DOMAIN s = 1 .. Len(s) /\ Len(s) \in Nat /\ DOMAIN s2 = 1 .. Len(s2) /\ Len(s2) \in Nat
  /\ m \in 0 .. Len(s) /\ m <= Len(s2)
  /\ \A j \in 1 .. m : s2[j] = s[j]
  /\ \A j \in DOMAIN s2 : m < j => ~IsC(s2[j])

Split(S, f, th, n, m) ==
  \A k \in DOMAIN S : S[k].th = th /\ IsCall(S[k]) => IF k <= n THEN f[k] <= m ELSE m + 2 <= f[k]

(* All there is to know about a cut: before it the invariant holds with f and h; after
   it, th still has a piece of the C stack, or its C functions need none. *)
CutBy(S, S2, n, th, m, C, C2, N, N2, st, st2, sp, f, h, f2, h2) ==
  /\ Prefix(S2, S, n) /\ Pieces(S) /\ Alive(C, S, st) /\ ~IsPcall(S[n])
  /\ \A i \in DOMAIN S : S[i].th \in LuaThreads
  /\ th \in LuaThreads /\ S[Len(S)].th = th /\ \A k \in n + 1 .. Len(S) : S[k].th = th
  /\ f \in [DOMAIN S -> Nat] /\ h \in [DOMAIN S -> Nat]
  /\ Placed(C, S, f) /\ Counts(S, N, sp, f, h) /\ Returned(C, S, st, sp, f)
  /\ f2 = [k \in 1 .. n |-> f[k]] /\ h2 = [k \in 1 .. n |-> h[k]]
  /\ \A t \in LuaThreads : t # th => C2[t] = C[t] /\ st2[t] = st[t] /\ N2[t] = N[t]
  /\ Trimmed(C[th], C2[th], m) /\ Split(S, f, th, n, m)
  /\ S[n].th = th => st2[th] = "ok" /\ C2[th] # <<>> /\ (th \notin sp => N2[th] = h[n])
  /\ S[n].th # th /\ th \notin sp /\ st2[th] # "error" =>
       \A j \in 1 .. m : IsC(C[th][j]) => C[th][j].ypcall

CallCut(s, s2, m, S, S2, n, f, f2, i) ==
  /\ Trimmed(s, s2, m) /\ Prefix(S2, S, n) /\ Split(S, f, S[i].th, n, m)
  /\ f \in [DOMAIN S -> Nat] /\ \A k \in 1 .. n : f2[k] = f[k]
  /\ i \in 1 .. n /\ f[i] <= m /\ CallPlaced(s, S, f, i) /\ Matched(s, S, f, i)

LEMMA CutCall ==
  ASSUME NEW s, NEW s2, NEW m, NEW S, NEW S2, NEW n, NEW f, NEW f2, NEW i,
         CallCut(s, s2, m, S, S2, n, f, f2, i)
  PROVE  CallPlaced(s2, S2, f2, i) /\ Matched(s2, S2, f2, i)
<1>1. /\ Trimmed(s, s2, m) /\ Prefix(S2, S, n) /\ Split(S, f, S[i].th, n, m)
      /\ f \in [DOMAIN S -> Nat] /\ \A k \in 1 .. n : f2[k] = f[k]
      /\ i \in 1 .. n /\ f[i] <= m /\ CallPlaced(s, S, f, i) /\ Matched(s, S, f, i)
  BY DEF CallCut
<1>2. /\ f[i] \in DOMAIN s /\ f[i] \in DOMAIN s2 /\ s2[f[i]] = s[f[i]]
      /\ 1 < f[i] => s2[f[i] - 1] = s[f[i] - 1]
  BY <1>1 DEF CallPlaced, Trimmed
<1>3. S2[i] = S[i] /\ (1 < i => S2[i - 1] = S[i - 1]) /\ (1 < i => i - 1 \in 1 .. n)
  BY <1>1 DEF Prefix
<1>4. CallPlaced(s2, S2, f2, i)
  BY <1>1, <1>2, <1>3 DEF CallPlaced
<1>5. Matched(s2, S2, f2, i)
  <2> SUFFICES ASSUME NEW j \in DOMAIN s2, IsC(s2[j]), f2[i] < j
               PROVE  \E k \in DOMAIN S2 : Above(S2, i, k) /\ IsCall(S2[k]) /\ f2[k] = j + 1
    BY DEF Matched
  <2>1. j \in DOMAIN s /\ IsC(s[j]) /\ f[i] < j /\ j <= m /\ j \in Nat /\ m \in Nat
    BY <1>1 DEF Trimmed
  <2>2. PICK k \in DOMAIN S : Above(S, i, k) /\ IsCall(S[k]) /\ f[k] = j + 1
    BY <1>1, <2>1 DEF Matched
  <2>3. k <= n
    BY <1>1, <2>1, <2>2 DEF Above, Split
  <2>4. k \in 1 .. n /\ S2[k] = S[k]
    BY <1>1, <2>2, <2>3 DEF Prefix
  <2> QED
    BY <1>1, <2>2, <2>4, PrefixAbove DEF Prefix
<1> QED
  BY <1>4, <1>5

LEMMA CutOther ==
  ASSUME NEW s, NEW S, NEW S2, NEW n, Prefix(S2, S, n),
         NEW f \in [DOMAIN S -> Nat], NEW f2, \A k \in 1 .. n : f2[k] = f[k], NEW i \in 1 .. n,
         \A k \in n + 1 .. Len(S) : S[k].th # S[i].th,
         CallPlaced(s, S, f, i), Matched(s, S, f, i)
  PROVE  CallPlaced(s, S2, f2, i) /\ Matched(s, S2, f2, i)
<1>3. S2[i] = S[i] /\ (1 < i => S2[i - 1] = S[i - 1])
  BY DEF Prefix
<1>4. CallPlaced(s, S2, f2, i)
  BY <1>3 DEF CallPlaced
<1>5. Matched(s, S2, f2, i)
  <2> SUFFICES ASSUME NEW j \in DOMAIN s, IsC(s[j]), f2[i] < j
               PROVE  \E k \in DOMAIN S2 : Above(S2, i, k) /\ IsCall(S2[k]) /\ f2[k] = j + 1
    BY DEF Matched
  <2>2. PICK k \in DOMAIN S : Above(S, i, k) /\ IsCall(S[k]) /\ f[k] = j + 1
    BY DEF Matched
  <2>3. k \in 1 .. n /\ S2[k] = S[k]
    BY <2>2 DEF Above, Prefix
  <2> QED
    BY <2>2, <2>3, PrefixAbove DEF Prefix
<1> QED
  BY <1>4, <1>5

LEMMA CutPlaced ==
  ASSUME NEW S, NEW S2, NEW n, NEW th, NEW m, NEW C, NEW C2, NEW N, NEW N2,
         NEW st, NEW st2, NEW sp, NEW f, NEW h, NEW f2, NEW h2,
         CutBy(S, S2, n, th, m, C, C2, N, N2, st, st2, sp, f, h, f2, h2)
  PROVE  Placed(C2, S2, f2)
<1> SUFFICES ASSUME Prefix(S2, S, n), f \in [DOMAIN S -> Nat],
                    \A k \in 1 .. n : f2[k] = f[k], DOMAIN f2 = 1 .. n, Placed(C, S, f),
                    Split(S, f, th, n, m), Trimmed(C[th], C2[th], m),
                    \A i \in DOMAIN S : S[i].th # th => C2[S[i].th] = C[S[i].th],
                    \A k \in n + 1 .. Len(S) : S[k].th = th
             PROVE  Placed(C2, S2, f2)
  BY DEF CutBy
<1> SUFFICES ASSUME NEW i \in 1 .. n PROVE PlacedAt(C2, S2, f2, i)
  BY DEF Placed, Prefix
<1>2. /\ PlacedAt(C, S, f, i) /\ i \in DOMAIN S /\ S2[i] = S[i] /\ f2[i] = f[i]
      /\ 1 < i => f2[i - 1] = f[i - 1]
  BY DEF Placed, Prefix
<1>3. IsResume(S2[i]) => f2[i] = 0
  BY <1>2 DEF PlacedAt
<1>4. IsPcall(S2[i]) => 1 < i /\ f2[i] = f2[i - 1]
  BY <1>2 DEF PlacedAt
<1>5. ASSUME NEW k \in DOMAIN S2, Above(S2, i, k)
      PROVE  f2[i] <= f2[k] /\ (IsCall(S2[k]) => f2[i] + 2 <= f2[k])
  <2>1. k \in 1 .. n /\ k \in DOMAIN S /\ S2[k] = S[k] /\ f2[k] = f[k]
    BY DEF Prefix
  <2>2. Above(S, i, k)
    BY <1>5, <2>1, PrefixAbove
  <2> QED
    BY <1>2, <2>1, <2>2 DEF PlacedAt
<1>6. ASSUME IsCall(S2[i])
      PROVE  CallPlaced(C2[S2[i].th], S2, f2, i) /\ Matched(C2[S2[i].th], S2, f2, i)
  <2>1. CallPlaced(C[S[i].th], S, f, i) /\ Matched(C[S[i].th], S, f, i) /\ IsCall(S[i])
    BY <1>2, <1>6 DEF PlacedAt
  <2>2. CASE S[i].th # th
    <3>1. \A k \in n + 1 .. Len(S) : S[k].th # S[i].th
      BY <2>2
    <3>2. C2[S[i].th] = C[S[i].th]
      BY <1>2, <2>2
    <3>3. CallPlaced(C[S[i].th], S2, f2, i) /\ Matched(C[S[i].th], S2, f2, i)
      BY <2>1, <3>1, CutOther
    <3> QED
      BY <1>2, <3>2, <3>3
  <2>3. CASE S[i].th = th
    <3>1. f[i] <= m
      BY <1>2, <2>1, <2>3 DEF Split
    <3>2. CallPlaced(C[th], S, f, i) /\ Matched(C[th], S, f, i)
      BY <2>1, <2>3
    <3>3. CallCut(C[th], C2[th], m, S, S2, n, f, f2, i)
      BY <2>3, <3>1, <3>2 DEF CallCut
    <3>4. CallPlaced(C2[th], S2, f2, i) /\ Matched(C2[th], S2, f2, i)
      BY <3>3, CutCall
    <3> QED
      BY <1>2, <2>3, <3>4
  <2> QED
    BY <2>2, <2>3
<1> QED
  BY <1>3, <1>4, <1>5, <1>6 DEF PlacedAt

LEMMA CutCounts ==
  ASSUME NEW S, NEW S2, NEW n, NEW th, NEW m, NEW C, NEW C2, NEW N, NEW N2,
         NEW st, NEW st2, NEW sp, NEW f, NEW h, NEW f2, NEW h2,
         CutBy(S, S2, n, th, m, C, C2, N, N2, st, st2, sp, f, h, f2, h2)
  PROVE  Counts(S2, N2, sp, f2, h2)
<1> SUFFICES ASSUME Prefix(S2, S, n), Convex(S),
                    f \in [DOMAIN S -> Nat], h \in [DOMAIN S -> Nat],
                    \A k \in 1 .. n : f2[k] = f[k] /\ h2[k] = h[k], Counts(S, N, sp, f, h),
                    \A k \in n + 1 .. Len(S) : S[k].th = th, S[Len(S)].th = th,
                    S[n].th = th /\ th \notin sp => N2[th] = h[n],
                    \A i \in DOMAIN S : S[i].th # th => N2[S[i].th] = N[S[i].th]
             PROVE  Counts(S2, N2, sp, f2, h2)
  BY DEF CutBy, Pieces
<1> SUFFICES ASSUME NEW i \in 1 .. n
             PROVE  Level(S2, f2, h2, i) /\ (S2[i].th \notin sp => Trusted(S2, N2, h2, i))
  BY DEF Counts, Prefix
<1>2. /\ Level(S, f, h, i) /\ i \in DOMAIN S /\ S2[i] = S[i] /\ f2[i] = f[i] /\ h2[i] = h[i]
      /\ 1 < i => h2[i - 1] = h[i - 1]
      /\ S[i].th \notin sp => Trusted(S, N, h, i)
  BY DEF Counts, Prefix
<1>3. ASSUME NEW k \in DOMAIN S2, Above(S2, i, k) PROVE h2[i] <= h2[k]
  <2>1. k \in 1 .. n /\ k \in DOMAIN S /\ h2[k] = h[k]
    BY DEF Prefix
  <2>2. Above(S, i, k)
    BY <1>3, <2>1, PrefixAbove
  <2> QED
    BY <1>2, <2>1, <2>2 DEF Level
<1>4. Level(S2, f2, h2, i)
  BY <1>2, <1>3 DEF Level
<1>5. ASSUME S[i].th \notin sp, \A k \in DOMAIN S2 : ~Above(S2, i, k)
      PROVE  N2[S[i].th] = h[i]
  <2>1. CASE S[i].th = th
    <3>1. S[n].th = th
      <4>1. n \in 1 .. Len(S) /\ DOMAIN S = 1 .. Len(S) /\ Len(S) \in Nat
        BY DEF Prefix
      <4>2. S[n].th # th => \A k \in 1 .. n : S[k].th # th
        BY <4>1, TopOfThread
      <4> QED
        BY <2>1, <4>2
    <3>2. i = n
      BY <1>2, <1>5, <2>1, <3>1 DEF Above, Prefix
    <3> QED
      BY <1>5, <2>1, <3>1, <3>2
  <2>2. CASE S[i].th # th
    <3>1. ASSUME NEW k \in DOMAIN S, Above(S, i, k) PROVE FALSE
      <4>1. k \in 1 .. n /\ k \in DOMAIN S2
        BY <2>2, <3>1 DEF Above, Prefix
      <4> QED
        BY <1>5, <3>1, <4>1, PrefixAbove
    <3>2. N[S[i].th] = h[i]
      BY <1>2, <1>5, <3>1 DEF Trusted
    <3> QED
      BY <1>2, <2>2, <3>2
  <2> QED
    BY <2>1, <2>2
<1> QED
  BY <1>2, <1>4, <1>5 DEF Trusted

LEMMA CutReturned ==
  ASSUME NEW S, NEW S2, NEW n, NEW th, NEW m, NEW C, NEW C2, NEW N, NEW N2,
         NEW st, NEW st2, NEW sp, NEW f, NEW h, NEW f2, NEW h2,
         CutBy(S, S2, n, th, m, C, C2, N, N2, st, st2, sp, f, h, f2, h2)
  PROVE  Returned(C2, S2, st2, sp, f2)
<1> SUFFICES ASSUME Prefix(S2, S, n), f \in [DOMAIN S -> Nat],
                    \A k \in 1 .. n : f2[k] = f[k], Returned(C, S, st, sp, f),
                    Trimmed(C[th], C2[th], m), Split(S, f, th, n, m),
                    \A k \in n + 1 .. Len(S) : S[k].th = th, st[th] # "error",
                    \A t \in LuaThreads : t # th => C2[t] = C[t] /\ st2[t] = st[t],
                    S[n].th # th /\ th \notin sp /\ st2[th] # "error" =>
                      \A j \in 1 .. m : IsC(C[th][j]) => C[th][j].ypcall
             PROVE  Returned(C2, S2, st2, sp, f2)
  <2>1. Len(S) \in DOMAIN S
    BY DEF CutBy, Prefix
  <2>2. st[th] # "error"
    BY <2>1 DEF CutBy, Alive
  <2> QED
    BY <2>2 DEF CutBy
<1> SUFFICES ASSUME NEW t \in LuaThreads \ sp, NEW j \in DOMAIN C2[t],
                    IsC(C2[t][j]), ~C2[t][j].ypcall, st2[t] # "error"
             PROVE  \E i \in DOMAIN S2 : S2[i].th = t /\ IsCall(S2[i]) /\ f2[i] = j + 1
  BY DEF Returned
<1>2. CASE t # th
  <2>1. C2[t] = C[t] /\ st2[t] = st[t]
    BY <1>2
  <2>2. PICK i \in DOMAIN S : S[i].th = t /\ IsCall(S[i]) /\ f[i] = j + 1
    BY <2>1 DEF Returned
  <2>3. i \in 1 .. n /\ S2[i] = S[i] /\ i \in DOMAIN S2
    BY <1>2, <2>2 DEF Prefix
  <2> QED
    BY <2>2, <2>3
<1>3. CASE t = th
  <2>1. j \in 1 .. m /\ C2[th][j] = C[th][j] /\ j \in DOMAIN C[th]
    BY <1>3 DEF Trimmed
  <2>2. S[n].th = th
    BY <1>3, <2>1
  <2>3. PICK i \in DOMAIN S : S[i].th = th /\ IsCall(S[i]) /\ f[i] = j + 1
    BY <1>3, <2>1 DEF Returned
  <2>4. i <= n
    BY <2>1, <2>3 DEF Split, Trimmed
  <2>5. i \in 1 .. n /\ S2[i] = S[i] /\ i \in DOMAIN S2
    BY <2>3, <2>4 DEF Prefix
  <2> QED
    BY <1>3, <2>3, <2>5
<1> QED
  BY <1>2, <1>3

LEMMA CutStack ==
  ASSUME NEW S, NEW S2, NEW n, NEW th, NEW m, NEW C, NEW C2, NEW N, NEW N2,
         NEW st, NEW st2, NEW sp, NEW f, NEW h, NEW f2, NEW h2,
         CutBy(S, S2, n, th, m, C, C2, N, N2, st, st2, sp, f, h, f2, h2)
  PROVE  StackRight(C2, S2, st2, N2, sp)
<1>1. f2 \in [DOMAIN S2 -> Nat] /\ h2 \in [DOMAIN S2 -> Nat]
  <2>1. DOMAIN S2 = 1 .. n /\ \A k \in 1 .. n : k \in DOMAIN S
    BY DEF CutBy, Prefix
  <2>2. \A k \in 1 .. n : f[k] \in Nat /\ h[k] \in Nat
    BY <2>1 DEF CutBy
  <2> QED
    BY <2>1, <2>2 DEF CutBy
<1>2. Pieces(S2)
  BY CutPieces DEF CutBy
<1>3. Alive(C2, S2, st2)
  <2> SUFFICES ASSUME NEW i \in 1 .. n PROVE st2[S2[i].th] = "ok" /\ C2[S2[i].th] # <<>>
    BY DEF Alive, Prefix, CutBy
  <2>1. i \in DOMAIN S /\ S2[i] = S[i]
    BY DEF Prefix, CutBy
  <2>2. CASE S[i].th # th
    BY <2>1, <2>2 DEF Alive, CutBy
  <2>3. CASE S[i].th = th
    <3>1. /\ n \in 1 .. Len(S) /\ DOMAIN S = 1 .. Len(S) /\ Len(S) \in Nat /\ Convex(S)
          /\ S[Len(S)].th = th
      BY DEF Prefix, Pieces, CutBy
    <3>2. S[n].th = th
      BY <2>3, <3>1, TopOfThread
    <3> QED
      BY <2>1, <2>3, <3>2 DEF CutBy
  <2> QED
    BY <2>2, <2>3
<1>5. Placed(C2, S2, f2)
  BY CutPlaced
<1>6. Counts(S2, N2, sp, f2, h2)
  BY CutCounts
<1>7. Returned(C2, S2, st2, sp, f2)
  BY CutReturned
<1> QED
  BY <1>1, <1>2, <1>3, <1>5, <1>6, <1>7 DEF StackRight

-----------------------------------------------------------------------------
(* A C function calls a Lua function: two functions more in the list of th, and on the
   C stack the call, with a setjmp below it where p is n + 1. *)
Longer(s, s2) ==
  /\ DOMAIN s = 1 .. Len(s) /\ Len(s) \in Nat /\ DOMAIN s2 = 1 .. Len(s) + 2
  /\ \A j \in 1 .. Len(s) : s2[j] = s[j]
  /\ IsC(s2[Len(s) + 1]) /\ s2[Len(s) + 2].fn = "lua" /\ s2[Len(s) + 2].fresh

CalledBy(S, S2, n, p, th, C, C2, N, N2, sp, f, h, f2, h2) ==
  /\ Prefix(S, S2, n) /\ p \in {n, n + 1} /\ Len(S2) = p + 1 /\ Pieces(S)
  /\ th \in LuaThreads /\ \A k \in n .. p + 1 : S2[k].th = th
  /\ IsCall(S2[p + 1]) /\ S2[p + 1].allowyield = C2[th][Len(C[th]) + 1].ypcall
  /\ p = n + 1 => /\ IsPcall(S2[p]) /\ S2[p].ci = Len(C[th]) + 1
                  /\ th \notin sp => S2[p].nny = N[th]
  /\ p = n + 1 <=> Protected(C2[th][Len(C[th]) + 1]) /\ ~C2[th][Len(C[th]) + 1].ypcall
  /\ f \in [1 .. n -> Nat] /\ h \in [1 .. n -> Nat]
  /\ f2 \in [1 .. p + 1 -> Nat] /\ h2 \in [1 .. p + 1 -> Nat]
  /\ \A k \in 1 .. n : f2[k] = f[k] /\ h2[k] = h[k]
  /\ p = n + 1 => f2[p] = f[n] /\ h2[p] = h[n]
  /\ f2[p + 1] = Len(C[th]) + 2
  /\ h2[p + 1] = IF S2[p + 1].allowyield THEN h[n] ELSE h[n] + 1
  /\ Longer(C[th], C2[th])
  /\ \A t \in LuaThreads : t # th => C2[t] = C[t] /\ N2[t] = N[t]
  /\ th \notin sp => N2[th] = IF S2[p + 1].allowyield THEN N[th] ELSE N[th] + 1
  /\ th \notin sp /\ S2[p + 1].allowyield => N[th] = 0
  /\ S \in Seq(EntryType) /\ Placed(C, S, f) /\ Counts(S, N, sp, f, h)

LEMMA CallPieces ==
  ASSUME NEW S, NEW S2, NEW n, NEW p, NEW th, NEW C, NEW C2, NEW N, NEW N2, NEW sp,
         NEW f, NEW h, NEW f2, NEW h2,
         CalledBy(S, S2, n, p, th, C, C2, N, N2, sp, f, h, f2, h2)
  PROVE  Pieces(S2)
<1>1. /\ Prefix(S, S2, n) /\ p \in {n, n + 1} /\ Len(S2) = p + 1 /\ n \in Nat /\ 1 <= n
      /\ \A k \in n .. p + 1 : S2[k].th = th
      /\ IsCall(S2[p + 1]) /\ (p = n + 1 => IsPcall(S2[p])) /\ Pieces(S)
      /\ DOMAIN S = 1 .. n /\ DOMAIN S2 = 1 .. p + 1 /\ \A k \in 1 .. n : S[k] = S2[k]
  BY DEF CalledBy, Prefix
<1>2. 1 \in DOMAIN S2 /\ S2[1] = CallEntry(MainThread, FALSE)
  <2>1. 1 \in 1 .. n /\ 1 \in 1 .. p + 1 /\ S2[1] = S[1]
    BY <1>1
  <2>2. S[1] = CallEntry(MainThread, FALSE)
    BY <1>1 DEF Pieces
  <2> QED
    BY <1>1, <2>1, <2>2
<1>3. ASSUME NEW i \in 1 .. p + 1 PROVE PieceAt(S2, i)
  <2>1. CASE i <= n
    <3>1. /\ PieceAt(S, i) /\ S2[i] = S[i] /\ \A k \in 1 .. i - 1 : S2[k] = S[k]
          /\ 1 < i => S2[i - 1] = S[i - 1]
          /\ i < n => S2[i + 1] = S[i + 1]
          /\ IsPcall(S[i]) => i < n
      BY <1>1, <2>1 DEF Pieces, PieceAt, Prefix
    <3> QED
      BY <1>1, <2>1, <3>1 DEF PieceAt
  <2>2. CASE n < i
    <3>1. ~IsResume(S2[i]) /\ S2[i].th = th /\ S2[i - 1].th = th
      BY <1>1, <2>2 DEF IsResume, IsCall, IsPcall
    <3>2. IsPcall(S2[i]) => i = p /\ p < p + 1
      BY <1>1, <2>2 DEF IsCall, IsPcall
    <3> QED
      BY <1>1, <2>2, <3>1, <3>2 DEF PieceAt
  <2> QED
    BY <1>1, <2>1, <2>2
<1>4. Convex(S2)
  <2> SUFFICES ASSUME NEW i \in 1 .. p + 1, NEW k \in 1 .. p + 1, NEW l \in 1 .. p + 1,
                      i < k, k < l, S2[i].th = S2[l].th
               PROVE  S2[k].th = S2[i].th
    BY <1>1 DEF Convex
  <2>1. CASE l <= n
    BY <1>1, <2>1 DEF Pieces, Convex
  <2>2. CASE n <= k
    BY <1>1, <2>2
  <2>3. CASE k < n /\ n < l
    <3>1. S[i].th = S[n].th /\ i \in 1 .. n /\ k \in 1 .. n /\ n \in 1 .. n
      BY <1>1, <2>3
    <3>2. S[k].th = S[i].th
      BY <1>1, <2>3, <3>1 DEF Pieces, Convex
    <3> QED
      BY <1>1, <3>1, <3>2
  <2> QED
    BY <1>1, <2>1, <2>2, <2>3
<1> QED
  BY <1>1, <1>2, <1>3, <1>4 DEF Pieces

(* The Lua function called last is in its list, and no call below it of a later one. *)
LEMMA LastPlaced ==
  ASSUME NEW S, NEW n \in Nat, DOMAIN S = 1 .. n, n \in DOMAIN S, Pieces(S),
         Len(S) = n, S[n] \in EntryType, NEW th, S[n].th = th, NEW C, Len(C[th]) \in Nat, DOMAIN C[th] = 1 .. Len(C[th]),
         NEW f \in [1 .. n -> Nat], Placed(C, S, f)
  PROVE  /\ f[n] <= Len(C[th]) /\ ~IsPcall(S[n])
         /\ \A i \in 1 .. n : S[i].th = th => f[i] <= f[n]
<1>1. ~IsPcall(S[n]) /\ PlacedAt(C, S, f, n)
  BY DEF Pieces, PieceAt, Placed
<1>2. f[n] <= Len(C[th])
  <2>1. IsCall(S[n]) \/ IsResume(S[n])
    BY <1>1 DEF EntryType, CallType, RunType, IsCall, IsResume, IsPcall
  <2>2. CASE IsCall(S[n])
    BY <1>1, <2>2 DEF PlacedAt, CallPlaced
  <2>3. CASE IsResume(S[n])
    BY <1>1, <2>3 DEF PlacedAt
  <2> QED
    BY <2>1, <2>2, <2>3
<1>3. ASSUME NEW i \in 1 .. n, S[i].th = th PROVE f[i] <= f[n]
  <2>1. CASE i = n
    BY <2>1
  <2>2. CASE i < n
    <3>1. PlacedAt(C, S, f, i) /\ Above(S, i, n)
      BY <1>3, <2>2 DEF Placed, Above
    <3> QED
      BY <3>1 DEF PlacedAt
  <2> QED
    BY <2>1, <2>2
<1> QED
  BY <1>1, <1>2, <1>3

LEMMA CalledFacts ==
  ASSUME NEW S, NEW S2, NEW n, NEW p, NEW th, NEW C, NEW C2, NEW N, NEW N2, NEW sp,
         NEW f, NEW h, NEW f2, NEW h2,
         CalledBy(S, S2, n, p, th, C, C2, N, N2, sp, f, h, f2, h2)
  PROVE  /\ Len(S) = n /\ DOMAIN S = 1 .. n /\ DOMAIN S2 = 1 .. p + 1 /\ Prefix(S, S2, n)
         /\ n \in 1 .. n /\ n \in Nat /\ \A k \in 1 .. n : S[k] = S2[k] /\ S[k] \in EntryType
         /\ f[n] <= Len(C[th]) /\ ~IsPcall(S[n]) /\ S[n].th = th
         /\ \A i \in 1 .. n : S[i].th = th => f[i] <= f[n]
         /\ Longer(C[th], C2[th])
<1>1. /\ Prefix(S, S2, n) /\ p \in {n, n + 1} /\ Len(S2) = p + 1 /\ n \in Nat /\ 1 <= n
      /\ \A k \in n .. p + 1 : S2[k].th = th
      /\ Pieces(S) /\ f \in [1 .. n -> Nat] /\ S \in Seq(EntryType) /\ Placed(C, S, f)
      /\ DOMAIN S = 1 .. n /\ Len(S) = n /\ DOMAIN S2 = 1 .. p + 1 /\ \A k \in 1 .. n : S[k] = S2[k]
      /\ Longer(C[th], C2[th])
  BY DEF CalledBy, Prefix
<1>2. /\ n \in DOMAIN S /\ S[n] \in EntryType /\ S[n].th = th /\ \A k \in 1 .. n : S[k] \in EntryType
      /\ Len(C[th]) \in Nat /\ DOMAIN C[th] = 1 .. Len(C[th])
  BY <1>1 DEF Longer
<1>3. /\ f[n] <= Len(C[th]) /\ ~IsPcall(S[n])
      /\ \A i \in 1 .. n : S[i].th = th => f[i] <= f[n]
  BY <1>1, <1>2, LastPlaced
<1> QED
  BY <1>1, <1>2, <1>3

(* What was called before remains where it is: the list is longer, or it is another's. *)
LEMMA CalledOld ==
  ASSUME NEW S, NEW S2, NEW n, NEW p, NEW th, NEW C, NEW C2, NEW N, NEW N2, NEW sp,
         NEW f, NEW h, NEW f2, NEW h2,
         CalledBy(S, S2, n, p, th, C, C2, N, N2, sp, f, h, f2, h2),
         NEW i \in 1 .. n, IsCall(S[i]), S[i].th \in LuaThreads
  PROVE  CallPlaced(C2[S2[i].th], S2, f2, i) /\ Matched(C2[S2[i].th], S2, f2, i)
<1>1. /\ Len(S) = n /\ DOMAIN S = 1 .. n /\ DOMAIN S2 = 1 .. p + 1 /\ Prefix(S, S2, n)
      /\ n \in Nat /\ \A k \in 1 .. n : S[k] = S2[k]
      /\ f[n] <= Len(C[th]) /\ \A k \in 1 .. n : S[k].th = th => f[k] <= f[n]
      /\ Longer(C[th], C2[th])
  BY CalledFacts
<1>2. /\ \A k \in 1 .. n : f2[k] = f[k]
      /\ f2[p + 1] = Len(C[th]) + 2 /\ IsCall(S2[p + 1]) /\ p \in {n, n + 1}
      /\ S2[p + 1].th = th /\ f \in [1 .. n -> Nat]
  <2>1. p + 1 \in n .. p + 1
    BY <1>1 DEF CalledBy
  <2> QED
    BY <1>1, <2>1 DEF CalledBy
<1>3. CallPlaced(C[S[i].th], S, f, i) /\ Matched(C[S[i].th], S, f, i)
  BY <1>1 DEF CalledBy, Placed, PlacedAt
<1>4. S2[i] = S[i] /\ f2[i] = f[i] /\ (1 < i => S2[i - 1] = S[i - 1] /\ f2[i - 1] = f[i - 1])
  BY <1>1, <1>2
<1>5. ASSUME NEW j, NEW k \in DOMAIN S, Above(S, i, k), IsCall(S[k]), f[k] = j + 1
      PROVE  \E l \in DOMAIN S2 : Above(S2, i, l) /\ IsCall(S2[l]) /\ f2[l] = j + 1
  <2>1. k \in DOMAIN S2 /\ S2[k] = S[k] /\ f2[k] = f[k]
    BY <1>1, <1>2
  <2> QED
    BY <1>4, <1>5, <2>1 DEF Above
<1>6. CASE S[i].th # th
  <2>1. C2[S[i].th] = C[S[i].th]
    BY <1>6 DEF CalledBy
  <2>2. CallPlaced(C[S[i].th], S2, f2, i)
    BY <1>3, <1>4 DEF CallPlaced
  <2>3. Matched(C[S[i].th], S2, f2, i)
    BY <1>3, <1>4, <1>5 DEF Matched
  <2> QED
    BY <1>4, <2>1, <2>2, <2>3
<1>7. CASE S[i].th = th
  <2> DEFINE s == C[th]
             s2 == C2[th]
  <2>1. /\ DOMAIN s = 1 .. Len(s) /\ Len(s) \in Nat /\ DOMAIN s2 = 1 .. Len(s) + 2
        /\ \A j \in 1 .. Len(s) : s2[j] = s[j]
        /\ s2[Len(s) + 2].fn = "lua"
        /\ CallPlaced(s, S, f, i) /\ Matched(s, S, f, i) /\ f2[p + 1] = Len(s) + 2
    BY <1>1, <1>2, <1>3, <1>7 DEF Longer
  <2> HIDE DEF s, s2
  <2>2. f[i] \in 1 .. Len(s) /\ s2[f[i]] = s[f[i]] /\ (1 < f[i] => s2[f[i] - 1] = s[f[i] - 1])
    BY <2>1 DEF CallPlaced
  <2>3. CallPlaced(s2, S2, f2, i)
    BY <1>4, <2>1, <2>2 DEF CallPlaced
  <2>4. ASSUME NEW j \in DOMAIN s2, IsC(s2[j]), f2[i] < j
        PROVE  \E k \in DOMAIN S2 : Above(S2, i, k) /\ IsCall(S2[k]) /\ f2[k] = j + 1
    <3>1. j <= Len(s) + 1
      BY <2>1, <2>4 DEF IsC
    <3>2. CASE j <= Len(s)
      <4>1. j \in DOMAIN s /\ IsC(s[j]) /\ f[i] < j
        BY <1>4, <2>1, <2>4, <3>2
      <4>2. PICK k \in DOMAIN S : Above(S, i, k) /\ IsCall(S[k]) /\ f[k] = j + 1
        BY <2>1, <4>1 DEF Matched
      <4> QED
        BY <1>5, <4>2
    <3>3. CASE j = Len(s) + 1
      <4>1. p + 1 \in DOMAIN S2 /\ Above(S2, i, p + 1) /\ IsCall(S2[p + 1]) /\ f2[p + 1] = j + 1
        BY <1>1, <1>2, <1>4, <1>7, <2>1, <3>3 DEF Above
      <4> QED
        BY <4>1
    <3> QED
      BY <2>1, <3>1, <3>2, <3>3
  <2>5. Matched(s2, S2, f2, i)
    BY <2>4 DEF Matched
  <2> QED
    BY <1>4, <1>7, <2>3, <2>5 DEF s2
<1> QED
  BY <1>6, <1>7

LEMMA CalledPlaced ==
  ASSUME NEW S, NEW S2, NEW n, NEW p, NEW th, NEW C, NEW C2, NEW N, NEW N2, NEW sp,
         NEW f, NEW h, NEW f2, NEW h2,
         CalledBy(S, S2, n, p, th, C, C2, N, N2, sp, f, h, f2, h2),
         \A i \in DOMAIN S : S[i].th \in LuaThreads
  PROVE  Placed(C2, S2, f2)
<1>1. /\ Len(S) = n /\ DOMAIN S = 1 .. n /\ DOMAIN S2 = 1 .. p + 1 /\ Prefix(S, S2, n)
      /\ n \in 1 .. n /\ n \in Nat /\ \A k \in 1 .. n : S[k] = S2[k]
      /\ f[n] <= Len(C[th]) /\ ~IsPcall(S[n]) /\ S[n].th = th
      /\ \A i \in 1 .. n : S[i].th = th => f[i] <= f[n]
      /\ Longer(C[th], C2[th])
  BY CalledFacts
<1>2. /\ p \in {n, n + 1} /\ \A k \in 1 .. n : f2[k] = f[k]
      /\ p = n + 1 => IsPcall(S2[p]) /\ f2[p] = f[n] /\ S2[p].ci = Len(C[th]) + 1
      /\ f2[p + 1] = Len(C[th]) + 2 /\ IsCall(S2[p + 1]) /\ Len(C[th]) \in Nat
      /\ f \in [1 .. n -> Nat] /\ f2 \in [1 .. p + 1 -> Nat]
  BY DEF CalledBy, Longer
<1>3. \A k \in n .. p + 1 : S2[k].th = th
  BY DEF CalledBy
<1>0. \A i \in 1 .. n : PlacedAt(C, S, f, i)
  BY <1>1 DEF CalledBy, Placed
<1>4. ASSUME NEW i \in 1 .. p + 1, NEW k \in 1 .. p + 1, Above(S2, i, k)
      PROVE  f2[i] <= f2[k] /\ (IsCall(S2[k]) => f2[i] + 2 <= f2[k])
  <2>1. CASE k <= n
    <3>1. i \in 1 .. n /\ k \in 1 .. n /\ S2[i] = S[i] /\ S2[k] = S[k]
      BY <1>1, <1>4, <2>1 DEF Above
    <3>2. Above(S, i, k) /\ PlacedAt(C, S, f, i) /\ k \in DOMAIN S
      BY <1>0, <1>1, <1>4, <3>1 DEF Above
    <3> QED
      BY <1>1, <1>2, <2>1, <3>1, <3>2 DEF PlacedAt
  <2>2. CASE n < k
    <3>1. S2[i].th = th
      BY <1>1, <1>2, <1>3, <1>4, <2>2 DEF Above
    <3>2. i <= n => f2[i] <= f[n]
      BY <1>1, <1>2, <3>1
    <3>3. f2[i] <= f[n] /\ i < k
      BY <1>1, <1>2, <1>4, <2>2, <3>2 DEF Above
    <3>4. k = p + 1 \/ (k = p /\ p = n + 1)
      BY <1>1, <1>2, <2>2
    <3>5. f2[i] \in Nat /\ f[n] \in Nat
      BY <1>1, <1>2
    <3> QED
      BY <1>1, <1>2, <3>3, <3>4, <3>5 DEF IsCall, IsPcall
  <2> QED
    BY <1>1, <1>2, <2>1, <2>2
<1>5. ASSUME NEW i \in 1 .. n PROVE PlacedAt(C2, S2, f2, i)
  <2>1. /\ PlacedAt(C, S, f, i) /\ S2[i] = S[i] /\ f2[i] = f[i]
        /\ 1 < i => f2[i - 1] = f[i - 1]
    <3>1. 1 < i => i - 1 \in 1 .. n
      BY <1>1
    <3> QED
      BY <1>0, <1>1, <1>2, <3>1
  <2>2. IsCall(S2[i]) => CallPlaced(C2[S2[i].th], S2, f2, i) /\ Matched(C2[S2[i].th], S2, f2, i)
    BY <1>1, <2>1, CalledOld
  <2> QED
    BY <1>1, <1>2, <1>4, <2>1, <2>2 DEF PlacedAt
<1>6. ASSUME p = n + 1 PROVE PlacedAt(C2, S2, f2, p)
  <2>1. IsPcall(S2[p]) /\ ~IsCall(S2[p]) /\ ~IsResume(S2[p]) /\ f2[p] = f2[p - 1] /\ 1 < p
    BY <1>1, <1>2, <1>6 DEF IsCall, IsPcall, IsResume
  <2> QED
    BY <1>1, <1>2, <1>4, <1>6, <2>1 DEF PlacedAt
<1>7. PlacedAt(C2, S2, f2, p + 1)
  <2> DEFINE s == C[th]
             s2 == C2[th]
  <2>1. /\ DOMAIN s = 1 .. Len(s) /\ Len(s) \in Nat /\ DOMAIN s2 = 1 .. Len(s) + 2
        /\ IsC(s2[Len(s) + 1]) /\ s2[Len(s) + 2].fn = "lua" /\ s2[Len(s) + 2].fresh
        /\ f2[p + 1] = Len(s) + 2 /\ S2[p + 1].allowyield = s2[Len(s) + 1].ypcall
        /\ p = n + 1 <=> Protected(s2[Len(s) + 1]) /\ ~s2[Len(s) + 1].ypcall
        /\ p = n + 1 => IsPcall(S2[p]) /\ S2[p].ci = Len(s) + 1
    BY <1>1, <1>2 DEF Longer, CalledBy
  <2>2. p = n => ~IsPcall(S2[p])
    BY <1>1
  <2>3. S2[p + 1].th = th /\ IsCall(S2[p + 1]) /\ ~IsPcall(S2[p + 1]) /\ ~IsResume(S2[p + 1])
    BY <1>1, <1>2, <1>3 DEF IsCall, IsPcall, IsResume
  <2> HIDE DEF s, s2
  <2>4. CallPlaced(s2, S2, f2, p + 1)
    <3>1. p \in Nat /\ 1 <= p /\ (IsPcall(S2[p]) <=> p = n + 1)
      BY <1>1, <1>2, <2>2
    <3>2. (p + 1) - 1 = p /\ p + 1 # 1 /\ f2[p + 1] - 1 = Len(s) + 1 /\ 1 < f2[p + 1]
      BY <2>1, <3>1
    <3>3. f2[p + 1] \in DOMAIN s2
      BY <2>1
    <3> QED
      BY <2>1, <3>1, <3>2, <3>3 DEF CallPlaced
  <2>5. Matched(s2, S2, f2, p + 1)
    BY <2>1 DEF Matched
  <2> QED
    BY <1>1, <1>2, <1>4, <2>3, <2>4, <2>5 DEF PlacedAt, s2
<1>8. \A i \in 1 .. p + 1 : i \in 1 .. n \/ i = p + 1 \/ (p = n + 1 /\ i = p)
  BY <1>1, <1>2
<1> QED
  BY <1>1, <1>5, <1>6, <1>7, <1>8 DEF Placed

LEMMA CalledCounts ==
  ASSUME NEW S, NEW S2, NEW n, NEW p, NEW th, NEW C, NEW C2, NEW N, NEW N2, NEW sp,
         NEW f, NEW h, NEW f2, NEW h2,
         CalledBy(S, S2, n, p, th, C, C2, N, N2, sp, f, h, f2, h2),
         \A i \in DOMAIN S : S[i].th \in LuaThreads
  PROVE  Counts(S2, N2, sp, f2, h2)
<1>1. /\ Len(S) = n /\ DOMAIN S = 1 .. n /\ DOMAIN S2 = 1 .. p + 1 /\ Prefix(S, S2, n)
      /\ n \in 1 .. n /\ n \in Nat /\ \A k \in 1 .. n : S[k] = S2[k]
      /\ f[n] <= Len(C[th]) /\ ~IsPcall(S[n]) /\ S[n].th = th
  BY CalledFacts
<1>2. /\ p \in {n, n + 1} /\ \A k \in 1 .. n : f2[k] = f[k] /\ h2[k] = h[k]
      /\ p = n + 1 => IsPcall(S2[p]) /\ f2[p] = f[n] /\ h2[p] = h[n]
      /\ f2[p + 1] = Len(C[th]) + 2 /\ IsCall(S2[p + 1]) /\ Len(C[th]) \in Nat
      /\ h2[p + 1] = (IF S2[p + 1].allowyield THEN h[n] ELSE h[n] + 1)
      /\ f \in [1 .. n -> Nat] /\ f2 \in [1 .. p + 1 -> Nat]
      /\ h \in [1 .. n -> Nat] /\ h2 \in [1 .. p + 1 -> Nat]
  BY DEF CalledBy, Longer
<1>3. \A k \in n .. p + 1 : S2[k].th = th
  BY DEF CalledBy
<1>4. \A i \in 1 .. n : Level(S, f, h, i) /\ (S[i].th \notin sp => Trusted(S, N, h, i))
  BY <1>1 DEF CalledBy, Counts
<1>5. f[n] \in Nat /\ h[n] \in Nat /\ h[n] <= f[n] + 1
  BY <1>1, <1>2, <1>4 DEF Level
<1>6. \A i \in 1 .. n : S[i].th = th => h[i] <= h[n]
  <2> SUFFICES ASSUME NEW i \in 1 .. n, S[i].th = th PROVE h[i] <= h[n]
    OBVIOUS
  <2>1. CASE i = n
    BY <1>5, <2>1
  <2>2. CASE i < n
    BY <1>1, <1>4, <2>2 DEF Level, Above
  <2> QED
    BY <1>1, <2>1, <2>2
<1>7. ASSUME NEW i \in 1 .. p + 1, NEW k \in 1 .. p + 1, Above(S2, i, k)
      PROVE  h2[i] <= h2[k]
  <2>1. CASE k <= n
    <3>1. i \in 1 .. n /\ Above(S, i, k) /\ Level(S, f, h, i) /\ k \in DOMAIN S
      BY <1>1, <1>4, <1>7, <2>1 DEF Above
    <3>2. h[i] <= h[k]
      BY <3>1 DEF Level
    <3>3. k \in 1 .. n
      BY <1>1, <2>1
    <3> QED
      BY <1>2, <3>1, <3>2, <3>3
  <2>2. CASE n < k
    <3>1. S2[i].th = th
      BY <1>1, <1>2, <1>3, <1>7, <2>2 DEF Above
    <3>2. i <= n => h2[i] <= h[n]
      BY <1>1, <1>2, <1>6, <3>1
    <3>0. i < k
      BY <1>7 DEF Above
    <3>3. h2[i] <= h[n]
      <4>1. CASE i <= n
        BY <3>2, <4>1
      <4>2. CASE n < i
        <5>1. i = n + 1 /\ p = n + 1
          BY <1>1, <1>2, <2>2, <3>0, <4>2
        <5> QED
          BY <1>2, <1>5, <5>1
      <4> QED
        BY <1>1, <4>1, <4>2
    <3>4. k = p + 1 \/ (k = p /\ p = n + 1)
      BY <1>1, <1>2, <2>2
    <3>5. h2[i] \in Nat
      BY <1>1, <1>2
    <3>6. h[n] <= h2[k]
      BY <1>2, <1>5, <3>4
    <3> QED
      BY <1>2, <1>5, <3>3, <3>5, <3>6
  <2> QED
    BY <1>1, <1>2, <2>1, <2>2
<1>8. ASSUME NEW i \in 1 .. n PROVE Level(S2, f2, h2, i)
  <2>1. S2[i] = S[i] /\ f2[i] = f[i] /\ h2[i] = h[i] /\ (1 < i => h2[i - 1] = h[i - 1])
    <3>1. 1 < i => i - 1 \in 1 .. n
      BY <1>1
    <3> QED
      BY <1>1, <1>2, <3>1
  <2>2. Level(S, f, h, i) /\ i \in 1 .. p + 1
    BY <1>1, <1>2, <1>4
  <2> QED
    BY <1>1, <1>7, <2>1, <2>2 DEF Level
<1>9. ASSUME p = n + 1 PROVE Level(S2, f2, h2, p)
  <2>1. /\ IsPcall(S2[p]) /\ ~IsCall(S2[p]) /\ ~IsResume(S2[p]) /\ 1 < p /\ p \in 1 .. p + 1
        /\ h2[p] = h2[p - 1] /\ h2[p] <= f2[p] + 1
    BY <1>1, <1>2, <1>5, <1>9 DEF IsCall, IsPcall, IsResume
  <2> QED
    BY <1>1, <1>7, <2>1 DEF Level
<1>10. Level(S2, f2, h2, p + 1)
  <2>1. ~IsPcall(S2[p + 1]) /\ ~IsResume(S2[p + 1]) /\ h2[p] = h[n] /\ 1 < p + 1
    BY <1>1, <1>2 DEF IsCall, IsPcall, IsResume
  <2>2. h2[p + 1] <= f2[p + 1] + 1
    BY <1>1, <1>2, <1>5
  <2>3. p + 1 \in 1 .. p + 1 /\ (p + 1) - 1 = p /\ p + 1 # 1
    BY <1>1, <1>2
  <2> QED
    BY <1>1, <1>2, <1>7, <2>1, <2>2, <2>3 DEF Level
<1>11. ASSUME NEW i \in 1 .. p + 1, S2[i].th \notin sp PROVE Trusted(S2, N2, h2, i)
  <2>1. th \notin sp => N[th] = h[n]
    <3>1. \A k \in DOMAIN S : ~Above(S, n, k)
      BY <1>1 DEF Above
    <3> QED
      BY <1>1, <1>4, <3>1 DEF Trusted
  <2>2. CASE i \in 1 .. n
    <3>1. S2[i] = S[i] /\ h2[i] = h[i] /\ Trusted(S, N, h, i) /\ S[i].th \in LuaThreads
      BY <1>1, <1>2, <1>4, <1>11, <2>2
    <3>2. CASE S[i].th = th
      <4>1. Above(S2, i, p + 1) /\ p + 1 \in DOMAIN S2
        BY <1>1, <1>2, <1>3, <2>2, <3>1, <3>2 DEF Above
      <4> QED
        BY <3>1, <4>1 DEF Trusted
    <3>3. CASE S[i].th # th
      <4>1. N2[S[i].th] = N[S[i].th]
        BY <3>1, <3>3 DEF CalledBy
      <4>2. ASSUME \A k \in DOMAIN S2 : ~Above(S2, i, k) PROVE \A k \in DOMAIN S : ~Above(S, i, k)
        BY <1>1, <1>2, <3>1, <4>2 DEF Above
      <4> QED
        BY <3>1, <4>1, <4>2 DEF Trusted
    <3> QED
      BY <3>2, <3>3
  <2>3. CASE p = n + 1 /\ i = p
    <3>1. S2[i].th = th /\ S2[i].nny = N[th] /\ h2[i] = h[n] /\ ~IsCall(S2[i])
      BY <1>1, <1>2, <1>3, <1>11, <2>3 DEF CalledBy, IsCall, IsPcall
    <3>2. Above(S2, i, p + 1) /\ p + 1 \in DOMAIN S2
      BY <1>1, <1>2, <1>3, <2>3 DEF Above
    <3> QED
      BY <1>11, <2>1, <3>1, <3>2 DEF Trusted
  <2>4. CASE i = p + 1
    <3>1. S2[i].th = th /\ ~IsPcall(S2[i]) /\ th \notin sp
      BY <1>1, <1>2, <1>3, <1>11, <2>4 DEF IsCall, IsPcall
    <3>2. N2[th] = h2[i] /\ (S2[i].allowyield => h2[i] = 0)
      BY <1>2, <2>1, <2>4, <3>1 DEF CalledBy
    <3> QED
      BY <3>1, <3>2 DEF Trusted
  <2> QED
    BY <1>1, <1>2, <2>2, <2>3, <2>4
<1>12. \A i \in 1 .. p + 1 : i \in 1 .. n \/ i = p + 1 \/ (p = n + 1 /\ i = p)
  BY <1>1, <1>2
<1> QED
  BY <1>1, <1>8, <1>9, <1>10, <1>11, <1>12 DEF Counts

LEMMA CallStack ==
  ASSUME NEW S, NEW S2, NEW n, NEW p, NEW th, NEW C, NEW C2, NEW N, NEW N2, NEW sp,
         NEW f, NEW h, NEW f2, NEW h2,
         CalledBy(S, S2, n, p, th, C, C2, N, N2, sp, f, h, f2, h2),
         \A i \in DOMAIN S : S[i].th \in LuaThreads,
         NEW st, Alive(C, S, st), Returned(C, S, st, sp, f)
  PROVE  StackRight(C2, S2, st, N2, sp)
<1>1. /\ Len(S) = n /\ DOMAIN S = 1 .. n /\ DOMAIN S2 = 1 .. p + 1
      /\ n \in 1 .. n /\ n \in Nat /\ \A k \in 1 .. n : S[k] = S2[k] /\ S[n].th = th
      /\ Longer(C[th], C2[th])
  BY CalledFacts
<1>2. /\ p \in {n, n + 1} /\ \A k \in 1 .. n : f2[k] = f[k]
      /\ f2[p + 1] = Len(C[th]) + 2 /\ IsCall(S2[p + 1]) /\ Len(C[th]) \in Nat
      /\ \A k \in n .. p + 1 : S2[k].th = th
      /\ f2 \in [DOMAIN S2 -> Nat] /\ h2 \in [DOMAIN S2 -> Nat]
      /\ th \in LuaThreads /\ \A t \in LuaThreads : t # th => C2[t] = C[t]
  BY <1>1 DEF CalledBy, Longer
<1>3. Alive(C2, S2, st)
  <2> SUFFICES ASSUME NEW i \in 1 .. p + 1 PROVE st[S2[i].th] = "ok" /\ C2[S2[i].th] # <<>>
    BY <1>1 DEF Alive
  <2>1. \A k \in 1 .. n : st[S[k].th] = "ok" /\ C[S[k].th] # <<>>
    BY <1>1 DEF Alive
  <2>2. C2[th] # <<>>
    <3>1. DOMAIN C2[th] = 1 .. Len(C[th]) + 2 /\ Len(C[th]) \in Nat
      BY <1>1 DEF Longer
    <3>2. 1 \in DOMAIN C2[th]
      BY <3>1
    <3> QED
      BY <3>2
  <2>3. st[th] = "ok"
    BY <1>1, <2>1
  <2>4. CASE i \in 1 .. n
    <3>1. S2[i] = S[i] /\ S[i].th \in LuaThreads /\ st[S[i].th] = "ok" /\ C[S[i].th] # <<>>
      BY <1>1, <2>1, <2>4
    <3> QED
      BY <1>2, <2>2, <2>3, <3>1
  <2>5. CASE i \in n .. p + 1
    BY <1>2, <2>2, <2>3, <2>5
  <2> QED
    BY <1>1, <1>2, <2>4, <2>5
<1>4. Returned(C2, S2, st, sp, f2)
  <2> SUFFICES ASSUME NEW t \in LuaThreads \ sp, NEW j \in DOMAIN C2[t],
                      IsC(C2[t][j]), ~C2[t][j].ypcall, st[t] # "error"
               PROVE  \E i \in DOMAIN S2 : S2[i].th = t /\ IsCall(S2[i]) /\ f2[i] = j + 1
    BY DEF Returned
  <2>1. CASE j \in DOMAIN C[t] /\ C2[t][j] = C[t][j]
    <3>1. PICK i \in DOMAIN S : S[i].th = t /\ IsCall(S[i]) /\ f[i] = j + 1
      BY <2>1 DEF Returned
    <3>2. i \in DOMAIN S2 /\ S2[i] = S[i] /\ f2[i] = f[i]
      BY <1>1, <1>2
    <3> QED
      BY <3>1, <3>2
  <2>2. CASE t = th /\ ~(j \in DOMAIN C[t] /\ C2[t][j] = C[t][j])
    <3>1. j = Len(C[th]) + 1
      <4> DEFINE s == C[th]
                 s2 == C2[th]
      <4>1. /\ DOMAIN s = 1 .. Len(s) /\ Len(s) \in Nat /\ DOMAIN s2 = 1 .. Len(s) + 2
            /\ \A k \in 1 .. Len(s) : s2[k] = s[k]
            /\ s2[Len(s) + 2].fn = "lua"
            /\ j \in DOMAIN s2 /\ ~(j \in DOMAIN s /\ s2[j] = s[j]) /\ IsC(s2[j])
        BY <1>1, <2>2 DEF Longer
      <4> HIDE DEF s, s2
      <4>2. j # Len(s) + 2 /\ ~(j \in 1 .. Len(s))
        BY <4>1 DEF IsC
      <4>3. j = Len(s) + 1
        BY <4>1, <4>2
      <4> QED
        BY <4>3 DEF s
    <3>2. p + 1 \in DOMAIN S2 /\ p + 1 \in n .. p + 1
      BY <1>1, <1>2
    <3> QED
      BY <1>2, <2>2, <3>1, <3>2
  <2> QED
    BY <1>2, <2>1, <2>2
<1>5. Pieces(S2)
  BY CallPieces
<1>6. Placed(C2, S2, f2)
  BY CalledPlaced
<1>7. Counts(S2, N2, sp, f2, h2)
  BY CalledCounts
<1> QED
  BY <1>2, <1>3, <1>4, <1>5, <1>6, <1>7 DEF StackRight

-----------------------------------------------------------------------------
(* A resume of co, of which the C stack S has nothing. *)
ResumedBy(S, S2, n, co, C, C2, N, N2, st, st2, sp) ==
  /\ Prefix(S, S2, n) /\ Len(S2) = n + 1 /\ IsResume(S2[n + 1]) /\ S2[n + 1].th = co
  /\ co \in LuaThreads \ {MainThread} /\ \A k \in 1 .. n : S[k].th # co
  /\ \A i \in DOMAIN S : S[i].th \in LuaThreads
  /\ \A t \in LuaThreads : t # co => C2[t] = C[t] /\ N2[t] = N[t] /\ st2[t] = st[t]
  /\ C2[co] # <<>> /\ st2[co] = "ok"
  /\ co \notin sp => /\ N2[co] = 0
                     /\ \A j \in DOMAIN C2[co] : IsC(C2[co][j]) => C2[co][j].ypcall

LEMMA ResumeStack ==
  ASSUME NEW S, NEW S2, NEW n, NEW co, NEW C, NEW C2, NEW N, NEW N2, NEW st, NEW st2, NEW sp,
         ResumedBy(S, S2, n, co, C, C2, N, N2, st, st2, sp), StackRight(C, S, st, N, sp)
  PROVE  StackRight(C2, S2, st2, N2, sp)
<1>1. /\ n \in Nat /\ 1 <= n /\ n \in DOMAIN S /\ DOMAIN S = 1 .. n /\ DOMAIN S2 = 1 .. n + 1
      /\ Len(S) = n /\ Len(S2) = n + 1 /\ \A k \in 1 .. n : S2[k] = S[k]
      /\ IsResume(S2[n + 1]) /\ S2[n + 1].th = co /\ \A k \in 1 .. n : S[k].th # co
      /\ co \in LuaThreads /\ co # MainThread /\ Pieces(S) /\ Alive(C, S, st)
      /\ \A k \in 1 .. n : S[k].th \in LuaThreads
      /\ \A t \in LuaThreads : t # co => C2[t] = C[t] /\ N2[t] = N[t] /\ st2[t] = st[t]
  <2>1. Pieces(S) /\ Alive(C, S, st)
    BY DEF StackRight
  <2>2. Prefix(S, S2, n) /\ Len(S2) = n + 1
    BY DEF ResumedBy
  <2>3. /\ n \in Nat /\ 1 <= n /\ n \in DOMAIN S /\ DOMAIN S = 1 .. n /\ DOMAIN S2 = 1 .. n + 1
        /\ Len(S) = n /\ \A k \in 1 .. n : S2[k] = S[k]
    BY <2>2 DEF Prefix
  <2> QED
    BY <2>1, <2>2, <2>3 DEF ResumedBy
<1>2. PICK f, h \in [DOMAIN S -> Nat] :
        Placed(C, S, f) /\ Counts(S, N, sp, f, h) /\ Returned(C, S, st, sp, f)
  BY DEF StackRight
<1> DEFINE f2 == [k \in 1 .. n + 1 |-> IF k <= n THEN f[k] ELSE 0]
           h2 == [k \in 1 .. n + 1 |-> IF k <= n THEN h[k] ELSE 0]
<1>3. /\ f2 \in [DOMAIN S2 -> Nat] /\ h2 \in [DOMAIN S2 -> Nat]
      /\ \A k \in 1 .. n : f2[k] = f[k] /\ h2[k] = h[k]
      /\ f2[n + 1] = 0 /\ h2[n + 1] = 0
  BY <1>1
<1> HIDE DEF f2, h2
<1>4. \A i, k \in 1 .. n + 1 : Above(S2, i, k) <=> i \in 1 .. n /\ k \in 1 .. n /\ Above(S, i, k)
  BY <1>1 DEF Above
<1>5. \A i \in 1 .. n : 1 < i => i - 1 \in 1 .. n
  BY <1>1
<1>6. Pieces(S2)
  <2>1. 1 \in DOMAIN S2 /\ S2[1] = CallEntry(MainThread, FALSE)
    <3>1. 1 \in 1 .. n /\ 1 \in 1 .. n + 1 /\ S2[1] = S[1]
      BY <1>1
    <3>2. S[1] = CallEntry(MainThread, FALSE)
      BY <1>1 DEF Pieces
    <3> QED
      BY <1>1, <3>1, <3>2
  <2>2. ASSUME NEW i \in 1 .. n + 1 PROVE PieceAt(S2, i)
    <3>1. CASE i <= n
      <4>0. PieceAt(S, i) /\ i \in 1 .. n
        BY <1>1, <3>1 DEF Pieces
      <4>2. IsPcall(S[i]) => i < n
        BY <1>1, <4>0 DEF PieceAt
      <4>1. /\ PieceAt(S, i) /\ S2[i] = S[i] /\ \A k \in 1 .. i - 1 : S2[k] = S[k]
            /\ 1 < i => S2[i - 1] = S[i - 1]
            /\ i < n => S2[i + 1] = S[i + 1]
            /\ IsPcall(S[i]) => i < n
        BY <1>1, <4>0, <4>2
      <4> QED
        BY <1>1, <3>1, <4>1 DEF PieceAt
    <3>2. CASE i = n + 1
      <4>1. ~IsPcall(S2[i]) /\ \A k \in 1 .. i - 1 : S2[k].th # S2[i].th
        BY <1>1, <3>2 DEF IsPcall, IsResume
      <4> QED
        BY <1>1, <3>2, <4>1 DEF PieceAt
    <3> QED
      BY <1>1, <3>1, <3>2
  <2>3. Convex(S2)
    <3> SUFFICES ASSUME NEW i \in 1 .. n + 1, NEW k \in 1 .. n + 1, NEW l \in 1 .. n + 1,
                        i < k, k < l, S2[i].th = S2[l].th
                 PROVE  S2[k].th = S2[i].th
      BY <1>1 DEF Convex
    <3>1. i \in 1 .. n /\ k \in 1 .. n /\ (l <= n \/ l = n + 1)
      BY <1>1
    <3>2. S2[i] = S[i] /\ S2[k] = S[k] /\ S[i].th # co
      BY <1>1, <3>1
    <3>3. l # n + 1
      BY <1>1, <3>2
    <3>4. l \in 1 .. n /\ S2[l] = S[l]
      BY <1>1, <3>1, <3>3
    <3>5. Convex(S)
      BY <1>1 DEF Pieces
    <3>6. i \in DOMAIN S /\ k \in DOMAIN S /\ l \in DOMAIN S /\ S[i].th = S[l].th
      BY <1>1, <3>1, <3>2, <3>4
    <3>7. S[k].th = S[i].th
      BY <3>5, <3>6 DEF Convex
    <3> QED
      BY <3>2, <3>7
  <2> QED
    BY <1>1, <2>1, <2>2, <2>3 DEF Pieces
<1>7. Alive(C2, S2, st2)
  <2> SUFFICES ASSUME NEW i \in 1 .. n + 1 PROVE st2[S2[i].th] = "ok" /\ C2[S2[i].th] # <<>>
    BY <1>1 DEF Alive
  <2>1. CASE i \in 1 .. n
    <3>1. S2[i] = S[i] /\ S[i].th # co /\ S[i].th \in LuaThreads
      BY <1>1, <2>1
    <3>2. st[S[i].th] = "ok" /\ C[S[i].th] # <<>>
      BY <1>1, <2>1 DEF Alive
    <3> QED
      BY <1>1, <3>1, <3>2
  <2>2. CASE i = n + 1
    BY <1>1, <2>2 DEF ResumedBy
  <2> QED
    BY <1>1, <2>1, <2>2
<1>8. ASSUME NEW i \in 1 .. n PROVE PlacedAt(C2, S2, f2, i)
  <2>1. /\ PlacedAt(C, S, f, i) /\ S2[i] = S[i] /\ f2[i] = f[i] /\ C2[S[i].th] = C[S[i].th]
        /\ 1 < i => S2[i - 1] = S[i - 1] /\ f2[i - 1] = f[i - 1]
    BY <1>1, <1>2, <1>3, <1>5 DEF Placed
  <2>2. ASSUME IsCall(S[i])
        PROVE  CallPlaced(C2[S2[i].th], S2, f2, i) /\ Matched(C2[S2[i].th], S2, f2, i)
    <3> DEFINE s == C[S[i].th]
    <3>1. CallPlaced(s, S, f, i) /\ Matched(s, S, f, i)
      BY <2>1, <2>2 DEF PlacedAt
    <3> HIDE DEF s
    <3>2. CallPlaced(s, S2, f2, i)
      BY <2>1, <3>1 DEF CallPlaced
    <3>3. Matched(s, S2, f2, i)
      <4> SUFFICES ASSUME NEW j \in DOMAIN s, IsC(s[j]), f2[i] < j
                   PROVE  \E k \in DOMAIN S2 : Above(S2, i, k) /\ IsCall(S2[k]) /\ f2[k] = j + 1
        BY DEF Matched
      <4>1. PICK k \in DOMAIN S : Above(S, i, k) /\ IsCall(S[k]) /\ f[k] = j + 1
        BY <2>1, <3>1 DEF Matched
      <4>2. k \in DOMAIN S2 /\ S2[k] = S[k] /\ f2[k] = f[k] /\ Above(S2, i, k)
        BY <1>1, <1>3, <4>1, <2>1 DEF Above
      <4> QED
        BY <4>1, <4>2
    <3> QED
      BY <2>1, <3>2, <3>3 DEF s
  <2> QED
    BY <1>1, <1>3, <1>4, <2>1, <2>2 DEF PlacedAt
<1>9. PlacedAt(C2, S2, f2, n + 1)
  BY <1>1, <1>3, <1>4 DEF PlacedAt, IsResume, IsCall, IsPcall
<1>10. ASSUME NEW i \in 1 .. n
       PROVE  Level(S2, f2, h2, i) /\ (S2[i].th \notin sp => Trusted(S2, N2, h2, i))
  <2>1. /\ Level(S, f, h, i) /\ (S[i].th \notin sp => Trusted(S, N, h, i))
        /\ S2[i] = S[i] /\ f2[i] = f[i] /\ h2[i] = h[i] /\ N2[S[i].th] = N[S[i].th]
        /\ 1 < i => h2[i - 1] = h[i - 1]
    BY <1>1, <1>2, <1>3, <1>5 DEF Counts
  <2>2. Level(S2, f2, h2, i)
    BY <1>1, <1>3, <1>4, <2>1 DEF Level
  <2>3. ASSUME \A k \in DOMAIN S2 : ~Above(S2, i, k) PROVE \A k \in DOMAIN S : ~Above(S, i, k)
    BY <1>1, <1>4, <2>3
  <2> QED
    BY <2>1, <2>2, <2>3 DEF Trusted
<1>11. Level(S2, f2, h2, n + 1) /\ (S2[n + 1].th \notin sp => Trusted(S2, N2, h2, n + 1))
  <2>1. ~IsPcall(S2[n + 1]) /\ ~IsCall(S2[n + 1])
    BY <1>1 DEF IsResume, IsCall, IsPcall
  <2>2. co \notin sp => N2[co] = 0
    BY DEF ResumedBy
  <2>3. Level(S2, f2, h2, n + 1)
    BY <1>1, <1>3, <1>4, <2>1 DEF Level
  <2> QED
    BY <1>1, <1>3, <2>1, <2>2, <2>3 DEF Trusted
<1>12. Returned(C2, S2, st2, sp, f2)
  <2> SUFFICES ASSUME NEW t \in LuaThreads \ sp, NEW j \in DOMAIN C2[t],
                      IsC(C2[t][j]), ~C2[t][j].ypcall, st2[t] # "error"
               PROVE  \E i \in DOMAIN S2 : S2[i].th = t /\ IsCall(S2[i]) /\ f2[i] = j + 1
    BY DEF Returned
  <2>1. t # co
    BY DEF ResumedBy
  <2>2. C2[t] = C[t] /\ st2[t] = st[t]
    BY <1>1, <2>1
  <2>3. PICK i \in DOMAIN S : S[i].th = t /\ IsCall(S[i]) /\ f[i] = j + 1
    BY <1>2, <2>2 DEF Returned
  <2>4. i \in DOMAIN S2 /\ S2[i] = S[i] /\ f2[i] = f[i]
    BY <1>1, <1>3
  <2> QED
    BY <2>3, <2>4
<1>13. \A i \in 1 .. n + 1 : i \in 1 .. n \/ i = n + 1
  BY <1>1
<1>14. Placed(C2, S2, f2) /\ Counts(S2, N2, sp, f2, h2)
  BY <1>1, <1>8, <1>9, <1>10, <1>11, <1>13 DEF Placed, Counts
<1> QED
  BY <1>3, <1>6, <1>7, <1>12, <1>14 DEF StackRight

-----------------------------------------------------------------------------
(* The C stack stays as it is; a thread that has no part in it changes. *)
OffBy(C, C2, S, st, st2, N, N2, sp, sp2, th) ==
  /\ sp \subseteq sp2 /\ \A i \in DOMAIN S : S[i].th # th /\ S[i].th \in LuaThreads
  /\ \A t \in LuaThreads : t # th => C2[t] = C[t] /\ st2[t] = st[t] /\ N2[t] = N[t]
  /\ th \notin sp2 /\ st2[th] # "error" =>
       \A j \in DOMAIN C2[th] : IsC(C2[th][j]) => C2[th][j].ypcall

LEMMA OffStack ==
  ASSUME NEW C, NEW C2, NEW S, NEW st, NEW st2, NEW N, NEW N2, NEW sp, NEW sp2, NEW th,
         StackRight(C, S, st, N, sp), OffBy(C, C2, S, st, st2, N, N2, sp, sp2, th)
  PROVE  StackRight(C2, S, st2, N2, sp2)
<1>0. /\ sp \subseteq sp2 /\ \A i \in DOMAIN S : S[i].th # th /\ S[i].th \in LuaThreads
      /\ \A t \in LuaThreads : t # th => C2[t] = C[t] /\ st2[t] = st[t] /\ N2[t] = N[t]
      /\ th \notin sp2 /\ st2[th] # "error" =>
           \A j \in DOMAIN C2[th] : IsC(C2[th][j]) => C2[th][j].ypcall
  BY DEF OffBy
<1>1. Pieces(S) /\ Alive(C, S, st)
  BY DEF StackRight
<1>2. PICK f, h \in [DOMAIN S -> Nat] :
        Placed(C, S, f) /\ Counts(S, N, sp, f, h) /\ Returned(C, S, st, sp, f)
  BY DEF StackRight
<1>3. \A i \in DOMAIN S : /\ S[i].th \in LuaThreads /\ C2[S[i].th] = C[S[i].th]
                          /\ st2[S[i].th] = st[S[i].th] /\ N2[S[i].th] = N[S[i].th]
  BY <1>0
<1>4. Alive(C2, S, st2)
  BY <1>1, <1>3 DEF Alive
<1>5. Placed(C2, S, f)
  <2> SUFFICES ASSUME NEW i \in DOMAIN S PROVE PlacedAt(C2, S, f, i)
    BY DEF Placed
  <2>1. PlacedAt(C, S, f, i) /\ C2[S[i].th] = C[S[i].th]
    BY <1>2, <1>3 DEF Placed
  <2> QED
    BY <2>1 DEF PlacedAt
<1>6. Counts(S, N2, sp2, f, h)
  <2> SUFFICES ASSUME NEW i \in DOMAIN S
               PROVE  Level(S, f, h, i) /\ (S[i].th \notin sp2 => Trusted(S, N2, h, i))
    BY DEF Counts
  <2>1. /\ Level(S, f, h, i) /\ (S[i].th \notin sp => Trusted(S, N, h, i))
        /\ N2[S[i].th] = N[S[i].th]
    BY <1>2, <1>3 DEF Counts
  <2>2. S[i].th \notin sp2 => S[i].th \notin sp
    BY <1>0
  <2> QED
    BY <2>1, <2>2 DEF Trusted
<1>7. Returned(C2, S, st2, sp2, f)
  <2> SUFFICES ASSUME NEW t \in LuaThreads \ sp2, NEW j \in DOMAIN C2[t],
                      IsC(C2[t][j]), ~C2[t][j].ypcall, st2[t] # "error"
               PROVE  \E i \in DOMAIN S : S[i].th = t /\ IsCall(S[i]) /\ f[i] = j + 1
    BY DEF Returned
  <2>1. t # th
    BY <1>0
  <2>2. C2[t] = C[t] /\ st2[t] = st[t] /\ t \in LuaThreads \ sp
    BY <1>0, <2>1
  <2> QED
    BY <1>2, <2>2 DEF Returned
<1> QED
  BY <1>1, <1>2, <1>4, <1>5, <1>6, <1>7 DEF StackRight

(* A thread has become spoiled: its counter no longer matters. *)
LEMMA SpoiledStack ==
  ASSUME NEW C, NEW S, NEW st, NEW N, NEW N2, NEW sp, NEW sp2,
         StackRight(C, S, st, N, sp), sp \subseteq sp2,
         \A i \in DOMAIN S : S[i].th \notin sp2 => N2[S[i].th] = N[S[i].th]
  PROVE  StackRight(C, S, st, N2, sp2)
<1>1. Pieces(S) /\ Alive(C, S, st)
  BY DEF StackRight
<1>2. PICK f, h \in [DOMAIN S -> Nat] :
        Placed(C, S, f) /\ Counts(S, N, sp, f, h) /\ Returned(C, S, st, sp, f)
  BY DEF StackRight
<1>3. Counts(S, N2, sp2, f, h)
  <2> SUFFICES ASSUME NEW i \in DOMAIN S
               PROVE  Level(S, f, h, i) /\ (S[i].th \notin sp2 => Trusted(S, N2, h, i))
    BY DEF Counts
  <2>1. Level(S, f, h, i) /\ (S[i].th \notin sp => Trusted(S, N, h, i))
    BY <1>2 DEF Counts
  <2> QED
    BY <2>1 DEF Trusted
<1>4. Returned(C, S, st, sp2, f)
  BY <1>2 DEF Returned
<1> QED
  BY <1>1, <1>2, <1>3, <1>4 DEF StackRight

-----------------------------------------------------------------------------
(* The greatest of some indices. *)
LEMMA GreatestIs ==
  ASSUME NEW n \in Nat, NEW X, X \subseteq 1 .. n, X # {}
  PROVE  Last(X) \in X /\ \A j \in X : j <= Last(X)
<1> DEFINE R == {ss \in Nat \X Nat : ss[1] < ss[2]}
           T == {n - x : x \in X}
<1>1. IsWellFoundedOn(R, Nat)
  BY NatLessThanWellFounded DEF OpToRel
<1>2. \A x, y \in Nat : x < y => <<x, y>> \in R
  OBVIOUS
<1>3. T \subseteq Nat /\ T # {}
  <2>1. \A x \in X : x \in 1 .. n
    OBVIOUS
  <2>2. \A x \in X : n - x \in Nat
    BY <2>1
  <2>3. PICK x \in X : TRUE
    OBVIOUS
  <2>4. n - x \in T
    OBVIOUS
  <2> QED
    BY <2>2, <2>4
<1> HIDE DEF R
<1>4. PICK m \in T : \A y \in T : ~(<<y, m>> \in R)
  <2> HIDE DEF T
  <2> QED
    BY <1>1, <1>3, WFMin
<1>5. PICK i \in X : m = n - i
  OBVIOUS
<1>6. ASSUME NEW j \in X PROVE j <= i
  <2>1. n - j \in T /\ n - j \in Nat /\ m \in Nat /\ i \in Nat /\ j \in Nat
    BY <1>3, <1>4
  <2>2. ~(n - j < m)
    BY <1>2, <1>4, <2>1
  <2> QED
    BY <1>5, <2>1, <2>2
<1>7. \E k \in X : \A j \in X : j <= k
  BY <1>6
<1> QED
  BY <1>7 DEF Last

(* The last setjmp of the thread that runs, and what is above and below it. *)
RunFacts(S, r, th) ==
  /\ r \in 2 .. Len(S) /\ S[r].c = "run" /\ S[r].th = th /\ \A k \in r .. Len(S) : S[k].th = th
  /\ \A k \in r + 1 .. Len(S) : IsCall(S[k])
  /\ IsPcall(S[r]) => S[r - 1].th = th /\ r < Len(S)
  /\ IsResume(S[r]) => th # MainThread /\ \A k \in 1 .. r - 1 : S[k].th # th
  /\ ~IsPcall(S[r - 1])

LEMMA LastRunIs ==
  ASSUME cstack \in Seq(EntryType), Pieces(cstack), NEW th, th = running, HasRun(th)
  PROVE  RunFacts(cstack, LastRun(th), th)
<1> DEFINE n == Len(cstack)
           X == {i \in 1 .. n : cstack[i].c = "run" /\ cstack[i].th = th}
<1>1. n \in Nat /\ DOMAIN cstack = 1 .. n /\ \A i \in 1 .. n : cstack[i] \in EntryType
  OBVIOUS
<1>2. Last(X) \in X /\ \A j \in X : j <= Last(X)
  <2>1. X # {} /\ X \subseteq 1 .. n
    BY <1>1 DEF HasRun
  <2> HIDE DEF X
  <2> QED
    BY <1>1, <2>1, GreatestIs
<1>3. \E i \in DOMAIN cstack :
        /\ cstack[i].c = "run" /\ cstack[i].th = th
        /\ \A j \in i + 1 .. Len(cstack) : ~(cstack[j].c = "run" /\ cstack[j].th = th)
  <2>1. Last(X) \in DOMAIN cstack /\ cstack[Last(X)].c = "run" /\ cstack[Last(X)].th = th
    BY <1>1, <1>2
  <2>2. ASSUME NEW j \in Last(X) + 1 .. n, cstack[j].c = "run" /\ cstack[j].th = th PROVE FALSE
    <3>1. j \in X
      BY <1>1, <2>1, <2>2
    <3> QED
      BY <1>1, <1>2, <2>1, <3>1
  <2> HIDE DEF X
  <2> QED
    BY <2>1, <2>2
<1> DEFINE r == LastRun(th)
<1>4. /\ r \in DOMAIN cstack /\ cstack[r].c = "run" /\ cstack[r].th = th
      /\ \A j \in r + 1 .. n : ~(cstack[j].c = "run" /\ cstack[j].th = th)
  BY <1>3 DEF LastRun
<1> HIDE DEF X, n, r
<1>5. n \in 1 .. n /\ cstack[n].th = th
  BY <1>1, <1>4 DEF running, TopOf, n
<1>6. 1 < r
  BY <1>1, <1>4 DEF Pieces, CallEntry
<1>7. \A k \in r .. n : cstack[k].th = th
  <2> SUFFICES ASSUME NEW k \in r .. n, r < k, k < n PROVE cstack[k].th = th
    BY <1>1, <1>4, <1>5
  <2>1. k \in DOMAIN cstack /\ n \in DOMAIN cstack
    BY <1>1, <1>4, <1>5
  <2> QED
    BY <1>4, <1>5, <2>1 DEF Pieces, Convex
<1>8. \A k \in r + 1 .. n : IsCall(cstack[k])
  <2> SUFFICES ASSUME NEW k \in r + 1 .. n PROVE IsCall(cstack[k])
    OBVIOUS
  <2>1. cstack[k] \in EntryType /\ cstack[k].th = th
    BY <1>1, <1>4, <1>7
  <2> QED
    BY <1>4, <2>1 DEF EntryType, CallType, RunType, IsCall
<1>9. PieceAt(cstack, r) /\ PieceAt(cstack, r - 1) /\ r - 1 \in 1 .. n
  BY <1>1, <1>4, <1>6 DEF Pieces
<1>10. IsPcall(cstack[r]) => cstack[r - 1].th = th /\ r < n
  BY <1>4, <1>6, <1>9 DEF PieceAt, IsPcall, IsResume, n
<1>11. IsResume(cstack[r]) => th # MainThread /\ \A k \in 1 .. r - 1 : cstack[k].th # th
  BY <1>4, <1>9 DEF PieceAt
<1>12. ~IsPcall(cstack[r - 1])
  BY <1>1, <1>4, <1>9 DEF PieceAt, IsCall
<1> QED
  BY <1>1, <1>4, <1>6, <1>7, <1>8, <1>10, <1>11, <1>12 DEF RunFacts, n, r

-----------------------------------------------------------------------------
(* Lists of functions: what the actions do to them keeps them right. *)
TopLua(s) == s # <<>> /\ s[Len(s)].fn = "lua"

Joined(T, s, s2, e) ==
  /\ s \in Seq(T) /\ Len(s) \in Nat /\ DOMAIN s = 1 .. Len(s)
  /\ s2 \in Seq(T) /\ Len(s2) = Len(s) + 1 /\ DOMAIN s2 = 1 .. Len(s) + 1
  /\ \A i \in 1 .. Len(s) : s2[i] = s[i]
  /\ s2[Len(s) + 1] = e

JoinedTwo(T, s, s2, d, e) ==
  /\ s \in Seq(T) /\ Len(s) \in Nat /\ DOMAIN s = 1 .. Len(s)
  /\ s2 \in Seq(T) /\ Len(s2) = Len(s) + 2 /\ DOMAIN s2 = 1 .. Len(s) + 2
  /\ \A i \in 1 .. Len(s) : s2[i] = s[i]
  /\ s2[Len(s) + 1] = d /\ s2[Len(s) + 2] = e

CutTo(T, s, s2, m) ==
  /\ s \in Seq(T) /\ Len(s) \in Nat /\ DOMAIN s = 1 .. Len(s) /\ m \in 0 .. Len(s)
  /\ s2 \in Seq(T) /\ Len(s2) = m /\ DOMAIN s2 = 1 .. m
  /\ \A i \in 1 .. m : s2[i] = s[i]

LEMMA JoinedIs ==
  ASSUME NEW T, NEW s \in Seq(T), NEW e \in T
  PROVE  Joined(T, s, Append(s, e), e)
BY AppendIs DEF Joined

LEMMA JoinedTwoIs ==
  ASSUME NEW T, NEW s \in Seq(T), NEW d \in T, NEW e \in T
  PROVE  JoinedTwo(T, s, s \o <<d, e>>, d, e)
BY PairIs DEF JoinedTwo

LEMMA CutToIs ==
  ASSUME NEW T, NEW s \in Seq(T), NEW m \in 0 .. Len(s)
  PROVE  CutTo(T, s, SubSeq(s, 1, m), m)
BY CutIs DEF CutTo

LEMMA NotEmpty ==
  ASSUME NEW T, NEW s \in Seq(T), s # <<>>
  PROVE  Len(s) \in 1 .. Len(s) /\ Len(s) \in DOMAIN s /\ 1 \in DOMAIN s
OBVIOUS

(* A function stays where it is, and unless a Lua function so do those beside it. *)
KeptAt(s, s2, j) ==
  /\ j \in Nat /\ Len(s) \in Nat /\ Len(s2) \in Nat /\ j <= Len(s) /\ j <= Len(s2)
  /\ s2[j] = s[j] /\ (1 < j => s2[j - 1] = s[j - 1])
  /\ s[j].fn # "lua" => j < Len(s) /\ j < Len(s2) /\ s2[j + 1] = s[j + 1]

LEMMA KeptRight ==
  ASSUME NEW s, NEW s2, NEW j, FrameRight(s, j), KeptAt(s, s2, j)
  PROVE  FrameRight(s2, j)
BY DEF KeptAt, FrameRight, IsC

LEMMA RightLua ==
  ASSUME NEW s, NEW s2, Joined(FrameType, s, s2, Frame("lua", FALSE)), ListRight(s), TopLua(s)
  PROVE  s2 \in Seq(FrameType) /\ ListRight(s2) /\ TopLua(s2) /\ ~Waits(s2)
<1>1. s2 \in Seq(FrameType)
  BY DEF Joined
<1>2. /\ Len(s2) = Len(s) + 1 /\ DOMAIN s2 = 1 .. Len(s) + 1
      /\ \A i \in 1 .. Len(s) : s2[i] = s[i]
      /\ s2[Len(s) + 1] = Frame("lua", FALSE)
      /\ Len(s) \in 1 .. Len(s) /\ DOMAIN s = 1 .. Len(s) /\ Len(s) \in Nat
  BY NotEmpty DEF Joined, TopLua
<1>3. ASSUME NEW j \in 1 .. Len(s) PROVE FrameRight(s2, j)
  <2>1. FrameRight(s, j)
    BY <1>2 DEF ListRight
  <2>2. KeptAt(s, s2, j)
    BY <1>2 DEF KeptAt, TopLua
  <2> QED
    BY <2>1, <2>2, KeptRight
<1>4. FrameRight(s2, Len(s) + 1)
  BY <1>2 DEF FrameRight, Frame, IsC, TopLua, Protected
<1> QED
  BY <1>1, <1>2, <1>3, <1>4 DEF ListRight, TopLua, Frame, Waits

LEMMA RightCall ==
  ASSUME NEW s, NEW s2, NEW d, JoinedTwo(FrameType, s, s2, d, Frame("lua", TRUE)),
         ListRight(s), TopLua(s), IsC(d), d.ypcall => Protected(d)
  PROVE  /\ s2 \in Seq(FrameType) /\ ListRight(s2) /\ TopLua(s2) /\ ~Waits(s2)
         /\ Len(s2) = Len(s) + 2 /\ Longer(s, s2) /\ s2[Len(s) + 1] = d
<1>1. s2 \in Seq(FrameType)
  BY DEF JoinedTwo
<1>2. /\ Len(s2) = Len(s) + 2 /\ DOMAIN s2 = 1 .. Len(s) + 2
      /\ \A i \in 1 .. Len(s) : s2[i] = s[i]
      /\ s2[Len(s) + 1] = d /\ s2[Len(s) + 2] = Frame("lua", TRUE)
      /\ Len(s) \in 1 .. Len(s) /\ DOMAIN s = 1 .. Len(s) /\ Len(s) \in Nat
  BY NotEmpty DEF JoinedTwo, TopLua
<1>3. ASSUME NEW j \in 1 .. Len(s) PROVE FrameRight(s2, j)
  <2>1. FrameRight(s, j)
    BY <1>2 DEF ListRight
  <2>2. KeptAt(s, s2, j)
    BY <1>2 DEF KeptAt, TopLua
  <2> QED
    BY <2>1, <2>2, KeptRight
<1>4. FrameRight(s2, Len(s) + 1)
  BY <1>2 DEF FrameRight, Frame, IsC, TopLua, Protected
<1>5. FrameRight(s2, Len(s) + 2)
  BY <1>2 DEF FrameRight, Frame, IsC, TopLua, Protected
<1>6. \A j \in 1 .. Len(s) + 2 : j \in 1 .. Len(s) \/ j = Len(s) + 1 \/ j = Len(s) + 2
  BY <1>2
<1> QED
  <2>1. ListRight(s2)
    BY <1>2, <1>3, <1>4, <1>5, <1>6 DEF ListRight
  <2>2. TopLua(s2) /\ ~Waits(s2)
    BY <1>2 DEF TopLua, Frame, Waits
  <2>3. Longer(s, s2)
    BY <1>2 DEF Longer, Frame
  <2> QED
    BY <1>1, <1>2, <2>1, <2>2, <2>3

LEMMA RightCut ==
  ASSUME NEW s, NEW s2, NEW m, CutTo(FrameType, s, s2, m), ListRight(s),
         0 < m => s[m].fn = "lua"
  PROVE  /\ s2 \in Seq(FrameType) /\ ListRight(s2) /\ Len(s2) = m /\ ~Waits(s2)
         /\ \A j \in 1 .. m : s2[j] = s[j]
<1>0. s2 \in Seq(FrameType)
  BY DEF CutTo
<1>1. /\ Len(s2) = m /\ DOMAIN s2 = 1 .. m
      /\ \A i \in 1 .. m : s2[i] = s[i]
      /\ DOMAIN s = 1 .. Len(s) /\ Len(s) \in Nat /\ m \in Nat /\ m <= Len(s)
  BY DEF CutTo
<1>2. ASSUME NEW j \in 1 .. m PROVE FrameRight(s2, j)
  <2>1. FrameRight(s, j)
    BY <1>1 DEF ListRight
  <2>2. KeptAt(s, s2, j)
    BY <1>1 DEF KeptAt
  <2> QED
    BY <2>1, <2>2, KeptRight
<1> QED
  BY <1>0, <1>1, <1>2 DEF ListRight, Waits

LEMMA RightYield ==
  ASSUME NEW s, NEW s2, Joined(FrameType, s, s2, Frame("yield", TRUE)), ListRight(s), TopLua(s)
  PROVE  /\ s2 \in Seq(FrameType) /\ ListRight(s2) /\ Waits(s2) /\ Len(s2) = Len(s) + 1
         /\ \A j \in 1 .. Len(s) : s2[j] = s[j]
         /\ s2[Len(s) + 1] = Frame("yield", TRUE)
<1>1. s2 \in Seq(FrameType)
  BY DEF Joined
<1>2. /\ Len(s2) = Len(s) + 1 /\ DOMAIN s2 = 1 .. Len(s) + 1
      /\ \A i \in 1 .. Len(s) : s2[i] = s[i]
      /\ s2[Len(s) + 1] = Frame("yield", TRUE)
      /\ Len(s) \in 1 .. Len(s) /\ DOMAIN s = 1 .. Len(s) /\ Len(s) \in Nat
  BY NotEmpty DEF Joined, TopLua
<1>3. ASSUME NEW j \in 1 .. Len(s) PROVE FrameRight(s2, j)
  <2>1. FrameRight(s, j)
    BY <1>2 DEF ListRight
  <2>2. KeptAt(s, s2, j)
    BY <1>2 DEF KeptAt, TopLua
  <2> QED
    BY <2>1, <2>2, KeptRight
<1>4. FrameRight(s2, Len(s) + 1)
  BY <1>2 DEF FrameRight, Frame, IsC, TopLua, Protected
<1> QED
  BY <1>1, <1>2, <1>3, <1>4 DEF ListRight, Frame, Waits

LEMMA RightFirst ==
  LET s == <<Frame("lua", TRUE)>>
  IN  s \in Seq(FrameType) /\ ListRight(s) /\ ~Waits(s) /\ Len(s) = 1 /\ s[1] = Frame("lua", TRUE)
<1>1. Frame("lua", TRUE) \in FrameType
  BY DEF Frame, FrameType
<1> QED
  BY <1>1 DEF ListRight, FrameRight, Frame, Waits, IsC, Protected

(* The limit on functions bounds every list of a thread that is alive. *)
LEMMA RoomIs ==
  ASSUME DoTypeOK, NEW th \in LuaThreads, status[th] # "error", NEW k \in {1, 2}, RoomFor(th, k)
  PROVE  Len(ci[th]) + k <= MaxFrames /\ TopLua(ci[th]) /\ MaxFrames \in Nat
<1>1. /\ MaxFrames \in Nat /\ IsFiniteSet(LuaThreads)
      /\ ci[th] \in Seq(FrameType) /\ Len(ci[th]) \in Nat
  BY LuaDoAssumption, FS_AddElement DEF LuaThreads, DoTypeOK, Lists
<1>2. TopLua(ci[th]) /\ Cardinality(Frames) + k <= MaxFrames
  BY DEF RoomFor, InLua, TopOf, TopLua
<1> DEFINE q == IF Len(ci[th]) <= MaxFrames THEN Len(ci[th]) ELSE MaxFrames
           A == {th} \X (1 .. q)
<1>3. q \in Nat
  BY <1>1
<1>4. IsFiniteSet(Frames) /\ Frames \subseteq LuaThreads \X (1 .. MaxFrames)
  <2>1. IsFiniteSet(LuaThreads \X (1 .. MaxFrames))
    <3>1. IsFiniteSet(1 .. MaxFrames)
      BY <1>1, FS_Interval
    <3> QED
      BY <1>1, <3>1, FS_Product
  <2> QED
    BY <2>1, FS_Subset DEF Frames
<1>5. A \subseteq Frames
  BY <1>1 DEF Frames
<1>6. Cardinality(A) = q
  <2>1. IsFiniteSet({th}) /\ Cardinality({th}) = 1
    BY FS_Singleton
  <2>2. IsFiniteSet(1 .. q) /\ Cardinality(1 .. q) = q
    <3> HIDE DEF q
    <3>1. q - 1 + 1 = q /\ 1 \in Int /\ q \in Int
      BY <1>3
    <3> QED
      BY <1>3, <3>1, FS_Interval
  <2>3. Cardinality(A) = Cardinality({th}) * Cardinality(1 .. q)
    BY <2>1, <2>2, FS_Product
  <2> QED
    BY <1>3, <2>1, <2>2, <2>3
<1>7. Cardinality(A) <= Cardinality(Frames) /\ Cardinality(Frames) \in Nat
  BY <1>4, <1>5, FS_Subset, FS_CardinalityType
<1>8. q + k <= MaxFrames
  <2> HIDE DEF A
  <2> QED
    BY <1>1, <1>2, <1>3, <1>6, <1>7
<1> QED
  BY <1>1, <1>2, <1>8

-----------------------------------------------------------------------------
(* The handler of the protected call furthest in, of the first n functions. *)
LEMMA HandlerKept ==
  ASSUME NEW s, NEW s2, NEW n \in Nat, \A i \in 1 .. n : s2[i] = s[i]
  PROVE  HandlerAt(s2, n) = HandlerAt(s, n)
<1> DEFINE A == {i \in 1 .. n : Protected(s[i])}
<1>1. {i \in 1 .. n : Protected(s2[i])} = A
  OBVIOUS
<1>2. A # {} => Last(A) \in 1 .. n
  <2>1. A \subseteq 1 .. n
    OBVIOUS
  <2> HIDE DEF A
  <2> QED
    BY <2>1, GreatestIs
<1>3. A # {} => s2[Last(A)] = s[Last(A)]
  BY <1>2
<1> HIDE DEF A
<1>4. HandlerAt(s, n) = IF A # {} /\ s[Last(A)].fn = "xpcall" THEN Last(A) ELSE 0
  BY DEF HandlerAt, A
<1>5. HandlerAt(s2, n) = IF A # {} /\ s2[Last(A)].fn = "xpcall" THEN Last(A) ELSE 0
  BY <1>1 DEF HandlerAt
<1> QED
  BY <1>3, <1>4, <1>5

LEMMA HandlerIn ==
  ASSUME NEW s, NEW n \in Nat
  PROVE  HandlerAt(s, n) \in Nat
<1> DEFINE A == {i \in 1 .. n : Protected(s[i])}
<1>1. A # {} => Last(A) \in 1 .. n
  <2>1. A \subseteq 1 .. n
    OBVIOUS
  <2> HIDE DEF A
  <2> QED
    BY <2>1, GreatestIs
<1> HIDE DEF A
<1>2. HandlerAt(s, n) = IF A # {} /\ s[Last(A)].fn = "xpcall" THEN Last(A) ELSE 0
  BY DEF HandlerAt, A
<1> QED
  BY <1>1, <1>2

LEMMA HandlerNext ==
  ASSUME NEW s, NEW n \in Nat
  PROVE  /\ ~Protected(s[n + 1]) => HandlerAt(s, n + 1) = HandlerAt(s, n)
         /\ s[n + 1].fn = "xpcall" => HandlerAt(s, n + 1) = n + 1
         /\ s[n + 1].fn = "pcall" => HandlerAt(s, n + 1) = 0
<1> DEFINE A == {i \in 1 .. n : Protected(s[i])}
           B == {i \in 1 .. n + 1 : Protected(s[i])}
<1>1. ~Protected(s[n + 1]) => B = A
  OBVIOUS
<1>2. HandlerAt(s, n) = IF A # {} /\ s[Last(A)].fn = "xpcall" THEN Last(A) ELSE 0
  BY DEF HandlerAt
<1>3. HandlerAt(s, n + 1) = IF B # {} /\ s[Last(B)].fn = "xpcall" THEN Last(B) ELSE 0
  BY DEF HandlerAt
<1>4. Protected(s[n + 1]) => B # {} /\ Last(B) = n + 1
  <2>1. n + 1 \in Nat /\ B \subseteq 1 .. n + 1 /\ (Protected(s[n + 1]) => n + 1 \in B)
    OBVIOUS
  <2> HIDE DEF B
  <2>2. B # {} => Last(B) \in B /\ \A j \in B : j <= Last(B)
    BY <2>1, GreatestIs
  <2> SUFFICES ASSUME Protected(s[n + 1]) PROVE B # {} /\ Last(B) = n + 1
    OBVIOUS
  <2>3. n + 1 \in B /\ B # {}
    BY <2>1
  <2>4. Last(B) \in 1 .. n + 1 /\ n + 1 <= Last(B)
    BY <2>1, <2>2, <2>3
  <2> QED
    BY <2>3, <2>4
<1> HIDE DEF A, B
<1>5. s[n + 1].fn \in {"xpcall", "pcall"} => Protected(s[n + 1])
  BY DEF Protected
<1> QED
  BY <1>1, <1>2, <1>3, <1>4, <1>5

LEMMA HandlerNone ==
  ASSUME NEW s
  PROVE  HandlerAt(s, 0) = 0
<1> DEFINE A == {i \in 1 .. 0 : Protected(s[i])}
<1>1. A = {}
  OBVIOUS
<1> QED
  BY <1>1 DEF HandlerAt

(* The first m functions of a list that is noted for are noted for. *)
LEMMA HandledCut ==
  ASSUME NEW s, NEW s2, NEW e, NEW e2, ListHandled(s, e), NEW m \in Nat,
         DOMAIN s = 1 .. Len(s), DOMAIN s2 = 1 .. Len(s2), Len(s) \in Nat, Len(s2) \in Nat,
         m <= Len(s), m <= Len(s2), \A j \in 1 .. m : s2[j] = s[j],
         \A j \in 1 .. Len(s2) : m < j => ~s2[j].ypcall, e2 = HandlerAt(s2, Len(s2))
  PROVE  ListHandled(s2, e2)
<1> SUFFICES ASSUME NEW j \in 1 .. Len(s2), s2[j].ypcall
             PROVE  s2[j].olderr = HandlerAt(s2, j - 1)
  BY DEF ListHandled
<1>1. j \in 1 .. m /\ j \in DOMAIN s /\ s2[j] = s[j] /\ j - 1 \in Nat
  OBVIOUS
<1>2. s[j].olderr = HandlerAt(s, j - 1)
  BY <1>1 DEF ListHandled
<1>3. HandlerAt(s2, j - 1) = HandlerAt(s, j - 1)
  <2>1. \A i \in 1 .. j - 1 : s2[i] = s[i]
    BY <1>1
  <2> QED
    BY <1>1, <2>1, HandlerKept
<1> QED
  BY <1>1, <1>2, <1>3

-----------------------------------------------------------------------------
(* The invariant implies what the runs check. *)
LEMMA UnwindsFromInv ==
  ASSUME DoInv
  PROVE  UnwindsSafely
<1>1. ASSUME NEW co \in Suspended \ spoiled PROVE MayGoOn(co)
  <2>1. co \in LuaThreads /\ status[co] = "yield" /\ co \notin spoiled
    BY <1>1 DEF Suspended
  <2>2. StackRight(ci, cstack, status, nny, spoiled) /\ FramesRight(ci, status) /\ DoTypeOK
    BY DEF DoInv
  <2>3. PICK f, h \in [DOMAIN cstack -> Nat] :
          /\ Placed(ci, cstack, f) /\ Counts(cstack, nny, spoiled, f, h)
          /\ Returned(ci, cstack, status, spoiled, f)
    BY <2>2 DEF StackRight
  <2>4. \A i \in DOMAIN cstack : cstack[i].th # co
    BY <2>1, <2>2 DEF StackRight, Alive
  <2> DEFINE s == ci[co]
  <2>5. ListRight(s) /\ Waits(s) /\ s \in Seq(FrameType)
    BY <2>1, <2>2 DEF FramesRight, DoTypeOK, Lists
  <2>6. ASSUME NEW i \in 1 .. Len(s) - 1 PROVE s[i].fn = "lua" \/ s[i].ypcall
    <3>1. i \in DOMAIN s /\ s[i] \in FrameType /\ i # Len(s)
      BY <2>5
    <3>2. FrameRight(s, i)
      BY <2>5, <3>1 DEF ListRight
    <3>3. s[i].fn # "lua" => IsC(s[i])
      BY <3>1, <3>2 DEF FrameRight, FrameType, IsC
    <3>4. IsC(s[i]) => s[i].ypcall
      BY <2>1, <2>3, <2>4, <3>1 DEF Returned
    <3> QED
      BY <3>3, <3>4
  <2> QED
    BY <2>4, <2>5, <2>6 DEF MayGoOn, Waits, TopOf
<1>2. ASSUME NEW th \in LuaThreads \ (stale \cup spoiled), status[th] # "error"
      PROVE  errfunc[th] = HandlerOf(th)
  <2>1. ListHandled(ci[th], errfunc[th]) /\ ci[th] \in Seq(FrameType)
    BY <1>2 DEF DoInv, Handled, DoTypeOK, Lists
  <2>2. Shields(th) = {i \in 1 .. Len(ci[th]) : Protected(ci[th][i])}
    BY <2>1 DEF Shields
  <2>3. HandlerOf(th) = HandlerAt(ci[th], Len(ci[th]))
    BY <2>2 DEF HandlerOf, HandlerAt
  <2> QED
    BY <2>1, <2>3 DEF ListHandled
<1>3. YieldsSafely
  BY <1>1 DEF YieldsSafely
<1>4. ErrorsCaught
  BY <1>2 DEF ErrorsCaught, DoInv
<1> QED
  BY <1>3, <1>4 DEF UnwindsSafely

-----------------------------------------------------------------------------
(* The thread that runs, as every step finds it. *)
RunningFacts(th) ==
  /\ th \in LuaThreads /\ status[th] = "ok" /\ ci[th] \in Seq(FrameType) /\ ci[th] # <<>>
  /\ ListRight(ci[th]) /\ Len(ci[th]) <= MaxFrames + 1
  /\ cstack \in Seq(EntryType) /\ Len(cstack) \in 1 .. Len(cstack) /\ Len(cstack) \in DOMAIN cstack
  /\ \A i \in DOMAIN cstack : cstack[i].th \in LuaThreads /\ cstack[i] \in EntryType
  /\ cstack[Len(cstack)].th = th /\ ~IsPcall(cstack[Len(cstack)])
  /\ Len(cstack) \in Nat /\ DOMAIN cstack = 1 .. Len(cstack)
  /\ Len(ci[th]) \in 1 .. Len(ci[th]) /\ DOMAIN ci[th] = 1 .. Len(ci[th]) /\ Len(ci[th]) \in Nat

LEMMA RunningIs ==
  ASSUME DoInv, NEW th, th = running
  PROVE  RunningFacts(th)
<1>1. /\ cstack \in Seq(EntryType) /\ Pieces(cstack) /\ Alive(ci, cstack, status)
      /\ ci \in Lists /\ FramesRight(ci, status)
  BY DEF DoInv, DoTypeOK, StackRight
<1>2. 1 \in DOMAIN cstack /\ \A i \in DOMAIN cstack : PieceAt(cstack, i)
  BY <1>1 DEF Pieces
<1>3. Len(cstack) \in 1 .. Len(cstack) /\ DOMAIN cstack = 1 .. Len(cstack) /\ Len(cstack) \in Nat
  BY <1>1, <1>2
<1>4. ~IsPcall(cstack[Len(cstack)])
  BY <1>2, <1>3 DEF PieceAt
<1>5. \A i \in DOMAIN cstack : cstack[i].th \in LuaThreads /\ cstack[i] \in EntryType
  <2> SUFFICES ASSUME NEW i \in DOMAIN cstack
               PROVE  cstack[i].th \in LuaThreads /\ cstack[i] \in EntryType
    OBVIOUS
  <2>1. cstack[i] \in EntryType
    BY <1>1
  <2> QED
    BY <2>1 DEF EntryType, CallType, RunType
<1>6. th = cstack[Len(cstack)].th /\ th \in LuaThreads
  BY <1>3, <1>5 DEF running, TopOf
<1>7. status[th] = "ok" /\ ci[th] # <<>>
  BY <1>1, <1>3, <1>6 DEF Alive
<1>8. ci[th] \in Seq(FrameType)
  BY <1>1, <1>6 DEF Lists
<1>9. ListRight(ci[th]) /\ Len(ci[th]) <= MaxFrames + 1
  BY <1>1, <1>6, <1>7 DEF FramesRight
<1>10. Len(ci[th]) \in 1 .. Len(ci[th]) /\ DOMAIN ci[th] = 1 .. Len(ci[th]) /\ Len(ci[th]) \in Nat
  BY <1>7, <1>8, NotEmpty
<1> QED
  BY <1>1, <1>3, <1>4, <1>5, <1>6, <1>7, <1>8, <1>9, <1>10 DEF RunningFacts

(* The list of the thread on top changes, above the functions the C stack has called. *)
TopChange(S, th, m, C, C2, N, N2, st, sp) ==
  /\ DOMAIN S = 1 .. Len(S) /\ Len(S) \in DOMAIN S /\ Len(S) \in Nat
  /\ \A i \in DOMAIN S : S[i].th \in LuaThreads
  /\ S[Len(S)].th = th /\ ~IsPcall(S[Len(S)])
  /\ \A t \in LuaThreads : t # th => C2[t] = C[t] /\ N2[t] = N[t]
  /\ th \notin sp => N2[th] = N[th]
  /\ C2[th] # <<>> /\ Trimmed(C[th], C2[th], m)
  /\ \/ \A k \in DOMAIN S : S[k].th = th => ~IsCall(S[k])
     \/ \A j \in DOMAIN C[th] : m < j => ~C[th][j].fresh

LEMMA TopStack ==
  ASSUME NEW S, NEW th, NEW m, NEW C, NEW C2, NEW N, NEW N2, NEW st, NEW sp,
         TopChange(S, th, m, C, C2, N, N2, st, sp), StackRight(C, S, st, N, sp)
  PROVE  StackRight(C2, S, st, N2, sp)
<1> DEFINE n == Len(S)
<1>1. Pieces(S) /\ Alive(C, S, st) /\ th \in LuaThreads /\ st[th] = "ok"
  BY DEF StackRight, TopChange, Alive
<1>2. PICK f, h \in [DOMAIN S -> Nat] :
        Placed(C, S, f) /\ Counts(S, N, sp, f, h) /\ Returned(C, S, st, sp, f)
  BY DEF StackRight
<1>3. Prefix(S, S, n)
  BY DEF Prefix, TopChange
<1>4. Split(S, f, th, n, m)
  <2> SUFFICES ASSUME NEW k \in DOMAIN S, S[k].th = th, IsCall(S[k]) PROVE k <= n /\ f[k] <= m
    BY DEF Split
  <2>1. CallPlaced(C[th], S, f, k)
    BY <1>2 DEF Placed, PlacedAt
  <2>2. f[k] \in DOMAIN C[th] /\ C[th][f[k]].fresh
    BY <2>1 DEF CallPlaced
  <2>3. ~(m < f[k])
    BY <2>2 DEF TopChange
  <2>4. f[k] \in Nat /\ m \in Nat
    BY <1>2 DEF TopChange, Trimmed
  <2>5. k <= n
    BY DEF TopChange
  <2> QED
    BY <2>3, <2>4, <2>5
<1>5. th \notin sp => N[th] = h[n]
  <2>1. n \in DOMAIN S /\ S[n].th = th /\ \A k \in DOMAIN S : ~Above(S, n, k)
    BY DEF TopChange, Above
  <2> QED
    BY <1>2, <2>1 DEF Counts, Trusted
<1> DEFINE f2 == [k \in 1 .. n |-> f[k]]
           h2 == [k \in 1 .. n |-> h[k]]
<1>6. /\ S[n].th = th /\ \A k \in n + 1 .. Len(S) : S[k].th = th
      /\ \A t \in LuaThreads : t # th => C2[t] = C[t] /\ st[t] = st[t] /\ N2[t] = N[t]
      /\ C2[th] # <<>> /\ Trimmed(C[th], C2[th], m) /\ (th \notin sp => N2[th] = h[n])
      /\ ~IsPcall(S[n]) /\ \A i \in DOMAIN S : S[i].th \in LuaThreads
  <2>1. n \in Nat
    BY DEF TopChange
  <2>2. \A k \in n + 1 .. Len(S) : FALSE
    BY <2>1
  <2> QED
    BY <1>5, <2>2 DEF TopChange
<1>7. f2 = [k \in 1 .. n |-> f[k]] /\ h2 = [k \in 1 .. n |-> h[k]]
  OBVIOUS
<1> HIDE DEF f2, h2, n
<1>8. CutBy(S, S, n, th, m, C, C2, N, N2, st, st, sp, f, h, f2, h2)
  BY <1>1, <1>2, <1>3, <1>4, <1>6, <1>7 DEF CutBy, n
<1> QED
  BY <1>8, CutStack

(* What is noted for a thread: its list agrees with the one before up to m. *)
HandledBy(th, m, C, C2, S, S2, st, st2, E, E2, lost, lost2) ==
  /\ lost \subseteq lost2 /\ S \in Seq(EntryType)
  /\ \A i \in DOMAIN S2 : S2[i].th \in LuaThreads
  /\ \A t \in LuaThreads : t # th => C2[t] = C[t] /\ st2[t] = st[t] /\ E2[t] = E[t]
  /\ th \notin lost2 /\ st2[th] # "error" => ListHandled(C2[th], E2[th])
  /\ m \in Nat /\ Len(C2[th]) \in Nat /\ m <= Len(C2[th]) /\ \A j \in 1 .. m : C2[th][j] = C[th][j]
  /\ \A i \in DOMAIN S2 : IsPcall(S2[i]) =>
       \/ i \in DOMAIN S /\ S2[i] = S[i] /\ (S[i].th = th => S[i].ci <= m)
       \/ S2[i].th = th /\ (th \notin lost2 =>
            S2[i].ci \in 1 .. Len(C2[th]) /\ S2[i].errfunc = HandlerAt(C2[th], S2[i].ci - 1))

LEMMA HandledStep ==
  ASSUME NEW th, NEW m, NEW C, NEW C2, NEW S, NEW S2, NEW st, NEW st2, NEW E, NEW E2,
         NEW lost, NEW lost2, HandledBy(th, m, C, C2, S, S2, st, st2, E, E2, lost, lost2),
         Handled(C, S, st, E, lost)
  PROVE  Handled(C2, S2, st2, E2, lost2)
<1>1. ASSUME NEW t \in LuaThreads \ lost2, st2[t] # "error" PROVE ListHandled(C2[t], E2[t])
  <2>1. CASE t = th
    BY <1>1, <2>1 DEF HandledBy
  <2>2. CASE t # th
    <3>1. C2[t] = C[t] /\ st2[t] = st[t] /\ E2[t] = E[t] /\ t \in LuaThreads \ lost
      BY <2>2 DEF HandledBy
    <3> QED
      BY <1>1, <3>1 DEF Handled
  <2> QED
    BY <2>1, <2>2
<1>2. ASSUME NEW i \in DOMAIN S2, IsPcall(S2[i]), S2[i].th \notin lost2
      PROVE  /\ S2[i].ci \in 1 .. Len(C2[S2[i].th])
             /\ S2[i].errfunc = HandlerAt(C2[S2[i].th], S2[i].ci - 1)
  <2>1. CASE S2[i].th = th /\ (th \notin lost2 =>
            S2[i].ci \in 1 .. Len(C2[th]) /\ S2[i].errfunc = HandlerAt(C2[th], S2[i].ci - 1))
    BY <1>2, <2>1
  <2>2. CASE i \in DOMAIN S /\ S2[i] = S[i] /\ (S[i].th = th => S[i].ci <= m)
    <3>1. S[i].th \notin lost /\ S[i].th \in LuaThreads /\ IsPcall(S[i])
      BY <1>2, <2>2 DEF HandledBy
    <3>2. /\ S[i].ci \in 1 .. Len(C[S[i].th])
          /\ S[i].errfunc = HandlerAt(C[S[i].th], S[i].ci - 1)
      BY <2>2, <3>1 DEF Handled
    <3>3. CASE S[i].th # th
      <4>1. C2[S[i].th] = C[S[i].th]
        BY <3>1, <3>3 DEF HandledBy
      <4> QED
        BY <2>2, <3>2, <4>1
    <3>4. CASE S[i].th = th
      <4>1. /\ S[i].ci <= m /\ m \in Nat /\ Len(C2[th]) \in Nat /\ m <= Len(C2[th])
            /\ \A j \in 1 .. m : C2[th][j] = C[th][j]
        BY <2>2, <3>4 DEF HandledBy
      <4>2. S[i].ci \in Nat /\ 1 <= S[i].ci
        <5>1. S[i] \in EntryType
          BY <2>2 DEF HandledBy
        <5>2. S[i] \in RunType
          BY <3>1, <5>1 DEF EntryType, CallType, RunType, IsPcall
        <5>3. S[i].ci \in Nat
          BY <5>2 DEF RunType
        <5> QED
          BY <3>2, <5>3
      <4>3. S[i].ci - 1 \in Nat /\ \A j \in 1 .. S[i].ci - 1 : C2[th][j] = C[th][j]
        BY <4>1, <4>2
      <4>4. HandlerAt(C2[th], S[i].ci - 1) = HandlerAt(C[th], S[i].ci - 1)
        BY <4>3, HandlerKept
      <4> QED
        BY <2>2, <3>2, <3>4, <4>1, <4>2, <4>4
    <3> QED
      BY <3>3, <3>4
  <2> QED
    BY <1>2, <2>1, <2>2 DEF HandledBy
<1> QED
  BY <1>1, <1>2 DEF Handled

(* A setjmp of luaD_pcall is for the protected function below the one it has called. *)
PcallAt(C, S, f, i) ==
  /\ i \in DOMAIN S /\ IsPcall(S[i]) /\ S \in Seq(EntryType) /\ Pieces(S) /\ Placed(C, S, f)

LEMMA PcallIs ==
  ASSUME NEW C, NEW S, NEW f, NEW i, PcallAt(C, S, f, i)
  PROVE  /\ i + 1 \in DOMAIN S /\ IsCall(S[i + 1]) /\ S[i + 1].th = S[i].th
         /\ f[i + 1] \in DOMAIN C[S[i].th] /\ S[i].ci = f[i + 1] - 1
         /\ Protected(C[S[i].th][f[i + 1] - 1]) /\ ~C[S[i].th][f[i + 1] - 1].ypcall
         /\ 1 < f[i + 1]
<1>1. PieceAt(S, i) /\ DOMAIN S = 1 .. Len(S) /\ Len(S) \in Nat /\ i \in DOMAIN S /\ IsPcall(S[i])
  BY DEF PcallAt, Pieces
<1>2. i + 1 \in DOMAIN S /\ IsCall(S[i + 1]) /\ S[i + 1].th = S[i].th /\ (i + 1) - 1 = i /\ 1 < i + 1
  BY <1>1 DEF PieceAt
<1>3. CallPlaced(C[S[i].th], S, f, i + 1)
  BY <1>2 DEF PcallAt, Placed, PlacedAt
<1> QED
  BY <1>1, <1>2, <1>3 DEF CallPlaced

(* The lists of the threads, of which that of th changes. *)
FramesBy(th, C, C2, st, st2) ==
  /\ \A t \in LuaThreads : t # th => C2[t] = C[t] /\ st2[t] = st[t]
  /\ ListRight(C2[th]) /\ (st2[th] = "yield" <=> Waits(C2[th]))
  /\ st2[th] = "ok" => Len(C2[th]) <= MaxFrames + 1
  /\ st2[th] = "yield" => Len(C2[th]) <= MaxFrames + 2

LEMMA FramesStep ==
  ASSUME NEW th, NEW C, NEW C2, NEW st, NEW st2, FramesRight(C, st), FramesBy(th, C, C2, st, st2)
  PROVE  FramesRight(C2, st2)
<1> SUFFICES ASSUME NEW t \in LuaThreads
             PROVE  /\ ListRight(C2[t])
                    /\ st2[t] = "yield" <=> Waits(C2[t])
                    /\ st2[t] = "ok" => Len(C2[t]) <= MaxFrames + 1
                    /\ st2[t] = "yield" => Len(C2[t]) <= MaxFrames + 2
  BY DEF FramesRight
<1>1. CASE t = th
  BY <1>1 DEF FramesBy
<1>2. CASE t # th
  <2>1. C2[t] = C[t] /\ st2[t] = st[t]
    BY <1>2 DEF FramesBy
  <2> QED
    BY <2>1 DEF FramesRight
<1> QED
  BY <1>1, <1>2

LEMMA PcallsIn ==
  ASSUME DoInv, NEW th, RunningFacts(th), NEW i \in DOMAIN cstack, IsPcall(cstack[i]), cstack[i].th = th
  PROVE  cstack[i].ci < Len(ci[th]) /\ cstack[i].ci \in 1 .. Len(ci[th])
<1>1. StackRight(ci, cstack, status, nny, spoiled) /\ cstack \in Seq(EntryType)
  BY DEF DoInv, DoTypeOK
<1>2. PICK f \in [DOMAIN cstack -> Nat] : Placed(ci, cstack, f)
  BY <1>1 DEF StackRight
<1>3. PcallAt(ci, cstack, f, i)
  BY <1>1, <1>2 DEF PcallAt, StackRight
<1>4. /\ f[i + 1] \in DOMAIN ci[cstack[i].th] /\ cstack[i].ci = f[i + 1] - 1 /\ 1 < f[i + 1]
  BY <1>3, PcallIs
<1>5. DOMAIN ci[th] = 1 .. Len(ci[th]) /\ Len(ci[th]) \in Nat
  BY DEF RunningFacts
<1> QED
  BY <1>4, <1>5

(* nny of a thread that is not spoiled is small. *)
LEMMA TopLevel ==
  ASSUME DoInv, NEW th, RunningFacts(th), NEW f \in [DOMAIN cstack -> Nat],
         NEW h \in [DOMAIN cstack -> Nat], Placed(ci, cstack, f), Counts(cstack, nny, spoiled, f, h)
  PROVE  /\ h[Len(cstack)] \in Nat /\ h[Len(cstack)] <= Len(ci[th]) + 1
         /\ th \notin spoiled => nny[th] = h[Len(cstack)]
<1> DEFINE n == Len(cstack)
<1>1. /\ n \in Nat /\ n \in DOMAIN cstack /\ DOMAIN cstack = 1 .. n /\ cstack[n].th = th
      /\ cstack[n] \in EntryType /\ Len(ci[th]) \in Nat /\ DOMAIN ci[th] = 1 .. Len(ci[th])
      /\ Pieces(cstack)
  BY DEF RunningFacts, DoInv, StackRight
<1>2. Level(cstack, f, h, n) /\ (th \notin spoiled => Trusted(cstack, nny, h, n))
  BY <1>1 DEF Counts
<1>3. f[n] <= Len(ci[th]) /\ f[n] \in Nat
  BY <1>1, LastPlaced
<1>4. \A k \in DOMAIN cstack : ~Above(cstack, n, k)
  BY <1>1 DEF Above
<1> QED
  BY <1>1, <1>2, <1>3, <1>4 DEF Level, Trusted

-----------------------------------------------------------------------------
(* The steps.  A Lua function calls another. *)
(* nny, an unsigned short, can count the calls of a thread. *)
FewFrames == MaxFrames + 2 < 65536

LEMMA UshortIs ==
  ASSUME NEW x \in Int
  PROVE  ushort(x) \in Int /\ (0 <= x /\ x < 65536 => ushort(x) = x)
BY SMT DEF ushort

LEMMA CallLuaStep ==
  ASSUME DoInv, NEW th, th = running, CallLua(th)
  PROVE  DoInv'
<1> DEFINE s == ci[th]
           s2 == Append(s, Frame("lua", FALSE))
<1>1. RunningFacts(th)
  BY RunningIs
<1>2. /\ ci' = [ci EXCEPT ![th] = s2] /\ RoomFor(th, 1)
      /\ UNCHANGED <<cstack, status, has, nny, nCcalls, errfunc, spoiled, stale, escaped>>
  BY DEF CallLua, Push
<1>3. s \in Seq(FrameType) /\ ListRight(s) /\ th \in LuaThreads /\ status[th] = "ok"
  BY <1>1 DEF RunningFacts
<1>4. Joined(FrameType, s, s2, Frame("lua", FALSE))
  <2>1. Frame("lua", FALSE) \in FrameType
    BY DEF Frame, FrameType
  <2> QED
    BY <1>3, <2>1, JoinedIs
<1>5. Len(s) + 1 <= MaxFrames /\ TopLua(s) /\ MaxFrames \in Nat
  BY <1>2, <1>3, RoomIs DEF DoInv
<1>6. s2 \in Seq(FrameType) /\ ListRight(s2) /\ TopLua(s2) /\ ~Waits(s2)
  BY <1>3, <1>4, <1>5, RightLua
<1>7. ci' \in Lists /\ ci'[th] = s2 /\ \A t \in LuaThreads : t # th => ci'[t] = ci[t]
  BY <1>2, <1>3, <1>6 DEF DoInv, DoTypeOK, Lists
<1>8. /\ Len(s2) = Len(s) + 1 /\ Len(s) \in Nat /\ \A j \in 1 .. Len(s) : s2[j] = s[j]
      /\ s2[Len(s) + 1] = Frame("lua", FALSE) /\ DOMAIN s = 1 .. Len(s) /\ DOMAIN s2 = 1 .. Len(s) + 1
  BY <1>4 DEF Joined
<1> HIDE DEF s2
<1>9. FramesRight(ci', status')
  <2>1. FramesRight(ci, status)
    BY DEF DoInv
  <2>2. Len(s2) <= MaxFrames + 1
    BY <1>5, <1>8
  <2>3. FramesBy(th, ci, ci', status, status)
    BY <1>3, <1>6, <1>7, <2>2 DEF FramesBy
  <2> QED
    BY <1>2, <2>1, <2>3, FramesStep
<1>10. StackRight(ci', cstack', status', nny', spoiled')
  <2>1. s2 # <<>>
    BY <1>6 DEF TopLua
  <2>2. Trimmed(s, s2, Len(s))
    <3>1. ~IsC(s2[Len(s) + 1])
      BY <1>8 DEF IsC, Frame
    <3>2. \A j \in DOMAIN s2 : Len(s) < j => j = Len(s) + 1
      BY <1>8
    <3>3. \A j \in DOMAIN s2 : Len(s) < j => ~IsC(s2[j])
      BY <3>1, <3>2
    <3> QED
      BY <1>8, <3>3 DEF Trimmed
  <2>3. \A j \in DOMAIN s : ~(Len(s) < j)
    BY <1>8
  <2>4. TopChange(cstack, th, Len(s), ci, ci', nny, nny, status, spoiled)
    BY <1>1, <1>7, <2>1, <2>2, <2>3 DEF TopChange, RunningFacts
  <2>5. StackRight(ci, cstack, status, nny, spoiled)
    BY DEF DoInv
  <2> QED
    BY <1>2, <2>4, <2>5, TopStack
<1>11. Handled(ci', cstack', status', errfunc', (stale \cup spoiled)')
  <2> DEFINE lost == stale \cup spoiled
  <2>1. Handled(ci, cstack, status, errfunc, lost)
    BY DEF DoInv
  <2>2. th \notin lost => ListHandled(s2, errfunc[th])
    <3>1. th \notin lost => ListHandled(s, errfunc[th])
      BY <1>3, <2>1 DEF Handled
    <3>2. HandlerAt(s2, Len(s) + 1) = HandlerAt(s2, Len(s))
      BY <1>8, HandlerNext DEF Protected, Frame
    <3>3. HandlerAt(s2, Len(s)) = HandlerAt(s, Len(s))
      BY <1>8, HandlerKept
    <3>4. \A j \in 1 .. Len(s2) : Len(s) < j => ~s2[j].ypcall
      BY <1>8 DEF Frame
    <3>5. th \notin lost => errfunc[th] = HandlerAt(s2, Len(s2))
      BY <1>8, <3>1, <3>2, <3>3 DEF ListHandled
    <3>6. th \notin lost => ListHandled(s2, errfunc[th])
      BY <1>8, <3>1, <3>4, <3>5, HandledCut
    <3> QED
      BY <3>6
  <2>3. \A i \in DOMAIN cstack : IsPcall(cstack[i]) => (cstack[i].th = th => cstack[i].ci <= Len(s))
    BY <1>1, <1>8, PcallsIn
  <2>4. HandledBy(th, Len(s), ci, ci', cstack, cstack, status, status, errfunc, errfunc, lost, lost)
    BY <1>1, <1>3, <1>7, <1>8, <2>2, <2>3 DEF HandledBy, RunningFacts
  <2>5. (stale \cup spoiled)' = lost
    BY <1>2
  <2> QED
    BY <1>2, <2>1, <2>4, <2>5, HandledStep
<1> QED
  BY <1>2, <1>7, <1>9, <1>10, <1>11 DEF DoInv, DoTypeOK

(* A C function d that calls a Lua function: as lua_call and lua_pcallk do. *)
Calls(th, d, run, err) ==
  /\ RoomFor(th, 2) /\ d \in FrameType /\ IsC(d) /\ run \in EntryType /\ err \in Nat
  /\ d.ypcall => Protected(d) /\ nny[th] = 0 /\ d.olderr = errfunc[th]
  /\ IsPcall(run) /\ run.th = th /\ run.ci = Len(ci[th]) + 1 /\ run.nny = nny[th]
  /\ run.errfunc = errfunc[th]
  /\ d.fn = "c" => err = errfunc[th]
  /\ d.fn = "pcall" => err = 0
  /\ d.fn = "xpcall" => err = Len(ci[th]) + 1
  /\ ci' = [ci EXCEPT ![th] = @ \o <<d, Frame("lua", TRUE)>>]
  /\ cstack' = Append(IF Protected(d) /\ ~d.ypcall THEN Append(cstack, run) ELSE cstack,
                      CallEntry(th, d.ypcall))
  /\ nny' = [nny EXCEPT ![th] = IF d.ypcall THEN @ ELSE ushort(@ + 1)]
  /\ nCcalls' \in Counters /\ errfunc' = [errfunc EXCEPT ![th] = err]
  /\ UNCHANGED <<status, has, spoiled, stale, escaped>>

(* What a call leaves of lists and C stack: n entries, a setjmp if p is n + 1, the call. *)
CallsTo(th, d, run, s, s2, S2, n, p) ==
  /\ JoinedTwo(FrameType, s, s2, d, Frame("lua", TRUE)) /\ ListRight(s) /\ TopLua(s)
  /\ Longer(s, s2) /\ ListRight(s2) /\ ~Waits(s2) /\ Len(s) + 2 <= MaxFrames /\ MaxFrames \in Nat
  /\ n = Len(cstack) /\ n \in Nat /\ 1 <= n /\ p \in {n, n + 1}
  /\ p = n + 1 <=> Protected(d) /\ ~d.ypcall
  /\ S2 \in Seq(EntryType) /\ Len(S2) = p + 1 /\ DOMAIN S2 = 1 .. p + 1
  /\ Prefix(cstack, S2, n) /\ S2[p + 1] = CallEntry(th, d.ypcall)
  /\ p = n + 1 => S2[p] = run

LEMMA CallsToIs ==
  ASSUME DoInv, NEW th, RunningFacts(th), NEW d, NEW run, NEW err, Calls(th, d, run, err)
  PROVE  /\ CallsTo(th, d, run, ci[th], ci'[th], cstack', Len(cstack), Len(cstack'  ) - 1)
         /\ ci' \in Lists /\ \A t \in LuaThreads : t # th => ci'[t] = ci[t]
<1> DEFINE s == ci[th]
           s2 == s \o <<d, Frame("lua", TRUE)>>
           n == Len(cstack)
           S1 == IF Protected(d) /\ ~d.ypcall THEN Append(cstack, run) ELSE cstack
           p == Len(S1)
           S2 == Append(S1, CallEntry(th, d.ypcall))
<1>1. /\ s \in Seq(FrameType) /\ ListRight(s) /\ th \in LuaThreads /\ status[th] = "ok"
      /\ cstack \in Seq(EntryType) /\ n \in Nat /\ 1 <= n /\ DOMAIN cstack = 1 .. n
  BY DEF RunningFacts
<1>2. /\ ci' = [ci EXCEPT ![th] = s2] /\ RoomFor(th, 2) /\ cstack' = S2
      /\ d \in FrameType /\ IsC(d) /\ run \in EntryType /\ (d.ypcall => Protected(d))
  BY DEF Calls
<1>3. JoinedTwo(FrameType, s, s2, d, Frame("lua", TRUE))
  <2>1. Frame("lua", TRUE) \in FrameType
    BY DEF Frame, FrameType
  <2> QED
    BY <1>1, <1>2, <2>1, JoinedTwoIs
<1>4. Len(s) + 2 <= MaxFrames /\ TopLua(s) /\ MaxFrames \in Nat
  BY <1>1, <1>2, RoomIs DEF DoInv
<1>5. s2 \in Seq(FrameType) /\ ListRight(s2) /\ ~Waits(s2) /\ Longer(s, s2)
  BY <1>1, <1>2, <1>3, <1>4, RightCall
<1>6. ci' \in Lists /\ ci'[th] = s2 /\ \A t \in LuaThreads : t # th => ci'[t] = ci[t]
  BY <1>1, <1>2, <1>5 DEF DoInv, DoTypeOK, Lists
<1>7. CallEntry(th, d.ypcall) \in EntryType
  BY <1>1, <1>2 DEF CallEntry, EntryType, CallType, FrameType
<1>8. /\ S1 \in Seq(EntryType) /\ p \in {n, n + 1} /\ (p = n + 1 <=> Protected(d) /\ ~d.ypcall)
      /\ DOMAIN S1 = 1 .. p /\ \A i \in 1 .. n : S1[i] = cstack[i]
      /\ p = n + 1 => S1[p] = run
  <2>1. CASE Protected(d) /\ ~d.ypcall
    <3>1. Joined(EntryType, cstack, Append(cstack, run), run)
      BY <1>1, <1>2, JoinedIs
    <3> QED
      BY <1>1, <2>1, <3>1 DEF Joined
  <2>2. CASE ~(Protected(d) /\ ~d.ypcall)
    BY <1>1, <2>2
  <2> QED
    BY <2>1, <2>2
<1> HIDE DEF s2, S1, p, n
<1>9. Joined(EntryType, S1, S2, CallEntry(th, d.ypcall))
  BY <1>7, <1>8, JoinedIs
<1> HIDE DEF S2
<1>10. /\ S2 \in Seq(EntryType) /\ Len(S2) = p + 1 /\ DOMAIN S2 = 1 .. p + 1
       /\ \A i \in 1 .. p : S2[i] = S1[i]
       /\ S2[p + 1] = CallEntry(th, d.ypcall) /\ p \in Nat
  <2>1. Len(S1) = p
    BY DEF p
  <2>2. p \in Nat
    BY <1>1, <1>8
  <2> QED
    BY <1>9, <2>1, <2>2 DEF Joined
<1>11. Prefix(cstack, S2, n)
  <2>1. \A i \in 1 .. n : S2[i] = cstack[i]
    BY <1>1, <1>8, <1>10
  <2>3. n <= p /\ n \in 1 .. p + 1 /\ Len(cstack) = n
    BY <1>1, <1>8 DEF n
  <2>2. n \in 1 .. Len(S2) /\ DOMAIN cstack = 1 .. n /\ Len(cstack) = n
    BY <1>1, <1>10, <2>3
  <2> QED
    BY <1>10, <2>1, <2>2 DEF Prefix
<1>12. S2[p + 1] = CallEntry(th, d.ypcall) /\ (p = n + 1 => S2[p] = run)
  <2>1. p \in 1 .. p
    BY <1>1, <1>8
  <2> QED
    BY <1>8, <1>10, <2>1
<1>13. CallsTo(th, d, run, s, s2, S2, n, p)
  BY <1>1, <1>3, <1>4, <1>5, <1>8, <1>10, <1>11, <1>12 DEF CallsTo, n
<1>14. Len(cstack') - 1 = p
  BY <1>2, <1>10
<1> QED
  BY <1>2, <1>6, <1>13, <1>14 DEF n

LEMMA CallsStack ==
  ASSUME DoInv, FewFrames,
         NEW th, RunningFacts(th), NEW d, NEW run, NEW err, Calls(th, d, run, err)
  PROVE  StackRight(ci', cstack', status', nny', spoiled')
<1> DEFINE n == Len(cstack)
           p == Len(cstack') - 1
           s == ci[th]
           s2 == ci'[th]
           S2 == cstack'
<1>1. /\ CallsTo(th, d, run, s, s2, S2, n, p) /\ ci' \in Lists
      /\ \A t \in LuaThreads : t # th => ci'[t] = ci[t]
  BY CallsToIs
<1>2. /\ n \in Nat /\ 1 <= n /\ DOMAIN cstack = 1 .. n /\ n \in DOMAIN cstack /\ Len(cstack) = n
      /\ th \in LuaThreads /\ cstack[n].th = th /\ \A i \in DOMAIN cstack : cstack[i].th \in LuaThreads
      /\ cstack \in Seq(EntryType)
  BY DEF RunningFacts
<1>3. /\ StackRight(ci, cstack, status, nny, spoiled) /\ nny \in Counters
      /\ Pieces(cstack) /\ Alive(ci, cstack, status)
  BY DEF DoInv, DoTypeOK, StackRight
<1>4. PICK f, h \in [DOMAIN cstack -> Nat] :
        /\ Placed(ci, cstack, f) /\ Counts(cstack, nny, spoiled, f, h)
        /\ Returned(ci, cstack, status, spoiled, f)
  BY <1>3 DEF StackRight
<1>5. h[n] \in Nat /\ h[n] <= Len(s) + 1 /\ (th \notin spoiled => nny[th] = h[n])
  BY <1>4, TopLevel
<1> HIDE DEF n, p, s, s2, S2
<1>6. /\ p \in {n, n + 1} /\ (p = n + 1 <=> Protected(d) /\ ~d.ypcall)
      /\ Len(S2) = p + 1 /\ DOMAIN S2 = 1 .. p + 1 /\ Prefix(cstack, S2, n)
      /\ S2[p + 1] = CallEntry(th, d.ypcall) /\ (p = n + 1 => S2[p] = run)
      /\ Len(s) + 2 <= MaxFrames /\ Longer(s, s2) /\ s2[Len(s) + 1] = d /\ Len(s) \in Nat
      /\ MaxFrames \in Nat
  BY <1>1 DEF CallsTo, JoinedTwo
<1>7. /\ IsPcall(run) /\ run.th = th /\ run.ci = Len(s) + 1 /\ run.nny = nny[th]
      /\ d.ypcall => nny[th] = 0
      /\ nny' = [nny EXCEPT ![th] = IF d.ypcall THEN @ ELSE ushort(@ + 1)]
      /\ status' = status /\ spoiled' = spoiled /\ d.ypcall \in BOOLEAN
  BY DEF Calls, s, FrameType
<1> DEFINE f2 == [k \in 1 .. p + 1 |-> IF k <= n THEN f[k] ELSE IF k = p THEN f[n] ELSE Len(s) + 2]
           h2 == [k \in 1 .. p + 1 |-> IF k <= n THEN h[k] ELSE IF k = p \/ d.ypcall THEN h[n]
                                       ELSE h[n] + 1]
<1>8. /\ f \in [1 .. n -> Nat] /\ h \in [1 .. n -> Nat]
      /\ f2 \in [1 .. p + 1 -> Nat] /\ h2 \in [1 .. p + 1 -> Nat]
      /\ \A k \in 1 .. n : f2[k] = f[k] /\ h2[k] = h[k]
      /\ p = n + 1 => f2[p] = f[n] /\ h2[p] = h[n]
      /\ f2[p + 1] = Len(s) + 2
      /\ h2[p + 1] = IF d.ypcall THEN h[n] ELSE h[n] + 1
  BY <1>2, <1>4, <1>5, <1>6
<1> HIDE DEF f2, h2
<1>9. \A k \in n .. p + 1 : S2[k].th = th
  <2>1. S2[n] = cstack[n]
    BY <1>2, <1>6 DEF Prefix
  <2>2. S2[p + 1].th = th
    BY <1>6 DEF CallEntry
  <2>3. \A k \in n .. p + 1 : k = n \/ k = p + 1 \/ (p = n + 1 /\ k = p)
    BY <1>2, <1>6
  <2> QED
    BY <1>2, <1>6, <1>7, <2>1, <2>2, <2>3
<1>10. IsCall(S2[p + 1]) /\ S2[p + 1].allowyield = d.ypcall
  BY <1>6 DEF CallEntry, IsCall
<1>11. \A t \in LuaThreads : t # th => ci'[t] = ci[t] /\ nny'[t] = nny[t]
  BY <1>1, <1>3, <1>7 DEF Counters
<1>12. th \notin spoiled => nny'[th] = IF d.ypcall THEN nny[th] ELSE nny[th] + 1
  <2>1. nny'[th] = IF d.ypcall THEN nny[th] ELSE ushort(nny[th] + 1)
    BY <1>2, <1>3, <1>7 DEF Counters
  <2> SUFFICES ASSUME th \notin spoiled
               PROVE  nny'[th] = IF d.ypcall THEN nny[th] ELSE nny[th] + 1
    OBVIOUS
  <2>2. nny[th] \in Nat /\ nny[th] <= Len(s) + 1
    BY <1>5
  <2> DEFINE x == nny[th] + 1
  <2>3. x \in Int /\ 0 <= x /\ x < 65536
    BY <1>6, <2>2, SMT DEF FewFrames
  <2> HIDE DEF x
  <2>6. ushort(x) = x
    BY <2>3, UshortIs
  <2>4. ushort(nny[th] + 1) = nny[th] + 1
    BY <2>6 DEF x
  <2> QED
    BY <2>1, <2>4
<1>13. CalledBy(cstack, S2, n, p, th, ci, ci', nny, nny', spoiled, f, h, f2, h2)
  BY <1>2, <1>3, <1>4, <1>6, <1>7, <1>8, <1>9, <1>10, <1>11, <1>12 DEF CalledBy, s, s2
<1>14. StackRight(ci', S2, status, nny', spoiled)
  BY <1>2, <1>3, <1>4, <1>13, CallStack
<1> QED
  BY <1>7, <1>14 DEF S2

LEMMA CallsHandled ==
  ASSUME DoInv, NEW th, RunningFacts(th), NEW d, NEW run, NEW err, Calls(th, d, run, err)
  PROVE  Handled(ci', cstack', status', errfunc', (stale \cup spoiled)')
<1> DEFINE n == Len(cstack)
           p == Len(cstack') - 1
           s == ci[th]
           s2 == ci'[th]
           S2 == cstack'
           lost == stale \cup spoiled
<1>1. /\ CallsTo(th, d, run, s, s2, S2, n, p) /\ ci' \in Lists
      /\ \A t \in LuaThreads : t # th => ci'[t] = ci[t]
  BY CallsToIs
<1>2. /\ n \in Nat /\ 1 <= n /\ DOMAIN cstack = 1 .. n /\ Len(cstack) = n /\ cstack \in Seq(EntryType)
      /\ th \in LuaThreads /\ \A i \in DOMAIN cstack : cstack[i].th \in LuaThreads
      /\ Handled(ci, cstack, status, errfunc, lost) /\ status[th] = "ok"
      /\ errfunc \in [LuaThreads -> Nat]
  BY DEF RunningFacts, DoInv, DoTypeOK
<1>3. \A i \in DOMAIN cstack : IsPcall(cstack[i]) /\ cstack[i].th = th => cstack[i].ci <= Len(s)
  <2>1. Len(s) \in Nat
    BY DEF RunningFacts
  <2> QED
    BY <2>1, PcallsIn
<1> HIDE DEF n, p, s, s2, S2, lost
<1>4. /\ p \in {n, n + 1} /\ (p = n + 1 <=> Protected(d) /\ ~d.ypcall)
      /\ Len(S2) = p + 1 /\ DOMAIN S2 = 1 .. p + 1 /\ \A i \in 1 .. n : S2[i] = cstack[i]
      /\ S2[p + 1] = CallEntry(th, d.ypcall) /\ (p = n + 1 => S2[p] = run)
      /\ s2[Len(s) + 1] = d /\ s2[Len(s) + 2] = Frame("lua", TRUE) /\ Len(s) \in Nat
      /\ Len(s2) = Len(s) + 2 /\ DOMAIN s2 = 1 .. Len(s2) /\ DOMAIN s = 1 .. Len(s)
      /\ \A j \in 1 .. Len(s) : s2[j] = s[j] /\ Len(s2) \in Nat
  BY <1>1, <1>2 DEF CallsTo, JoinedTwo, Prefix
<1>5. /\ IsC(d) /\ run.th = th /\ run.ci = Len(s) + 1 /\ run.errfunc = errfunc[th]
      /\ d.ypcall => d.olderr = errfunc[th]
      /\ d.fn = "c" => err = errfunc[th]
      /\ d.fn = "pcall" => err = 0
      /\ d.fn = "xpcall" => err = Len(s) + 1
      /\ errfunc' = [errfunc EXCEPT ![th] = err] /\ status' = status
      /\ stale' = stale /\ spoiled' = spoiled
  <2>1. s = ci[th]
    BY DEF s
  <2>2. /\ IsC(d) /\ run.th = th /\ run.ci = Len(ci[th]) + 1 /\ run.errfunc = errfunc[th]
        /\ d.ypcall => d.olderr = errfunc[th]
        /\ d.fn = "c" => err = errfunc[th]
        /\ d.fn = "pcall" => err = 0
        /\ d.fn = "xpcall" => err = Len(ci[th]) + 1
        /\ errfunc' = [errfunc EXCEPT ![th] = err] /\ status' = status
        /\ stale' = stale /\ spoiled' = spoiled
    BY DEF Calls
  <2> QED
    BY <2>1, <2>2
<1>6. errfunc'[th] = err /\ \A t \in LuaThreads : t # th => errfunc'[t] = errfunc[t]
  BY <1>2, <1>5
<1>7. HandlerAt(s2, Len(s)) = HandlerAt(s, Len(s))
  BY <1>4, HandlerKept
<1>8. th \notin lost => ListHandled(s, errfunc[th])
  BY <1>2 DEF Handled, s
<1>9. th \notin lost => HandlerAt(s, Len(s)) = errfunc[th]
  BY <1>8 DEF ListHandled
<1>10. th \notin lost => ListHandled(s2, err)
  <2> SUFFICES ASSUME th \notin lost PROVE ListHandled(s2, err)
    OBVIOUS
  <2>1. HandlerAt(s2, Len(s) + 1) = err
    <3>1. /\ ~Protected(d) => HandlerAt(s2, Len(s) + 1) = HandlerAt(s2, Len(s))
          /\ d.fn = "xpcall" => HandlerAt(s2, Len(s) + 1) = Len(s) + 1
          /\ d.fn = "pcall" => HandlerAt(s2, Len(s) + 1) = 0
      BY <1>4, HandlerNext
    <3>2. d.fn \in {"c", "xpcall", "pcall"} /\ (Protected(d) <=> d.fn # "c")
      BY <1>5 DEF IsC, Protected
    <3> QED
      BY <1>5, <1>7, <1>9, <3>1, <3>2
  <2>2. HandlerAt(s2, Len(s2)) = err
    <3>1. ~Protected(s2[Len(s) + 1 + 1]) /\ Len(s) + 1 \in Nat /\ Len(s2) = Len(s) + 1 + 1
      BY <1>4 DEF Frame, Protected
    <3>2. HandlerAt(s2, Len(s) + 1 + 1) = HandlerAt(s2, Len(s) + 1)
      BY <3>1, HandlerNext
    <3> QED
      BY <2>1, <3>1, <3>2
  <2>3. ASSUME NEW j \in 1 .. Len(s2), s2[j].ypcall PROVE s2[j].olderr = HandlerAt(s2, j - 1)
    <3>1. j # Len(s) + 2
      BY <1>4, <2>3 DEF Frame
    <3>2. CASE j = Len(s) + 1
      <4>1. j - 1 = Len(s)
        BY <1>4, <3>2
      <4> QED
        BY <1>4, <1>5, <1>7, <1>9, <2>3, <3>2, <4>1
    <3>3. CASE j <= Len(s)
      <4>1. j \in DOMAIN s /\ s2[j] = s[j] /\ j - 1 \in Nat /\ \A i \in 1 .. j - 1 : s2[i] = s[i]
        BY <1>4, <3>3
      <4>2. HandlerAt(s2, j - 1) = HandlerAt(s, j - 1)
        BY <4>1, HandlerKept
      <4>3. s[j].olderr = HandlerAt(s, j - 1)
        BY <1>8, <2>3, <4>1 DEF ListHandled
      <4> QED
        BY <4>1, <4>2, <4>3
    <3> QED
      BY <1>4, <3>1, <3>2, <3>3
  <2> QED
    BY <1>4, <2>2, <2>3 DEF ListHandled
<1>11. ASSUME NEW i \in DOMAIN S2, IsPcall(S2[i])
       PROVE  \/ i \in DOMAIN cstack /\ S2[i] = cstack[i] /\ (cstack[i].th = th => cstack[i].ci <= Len(s))
              \/ S2[i].th = th /\ (th \notin lost =>
                   S2[i].ci \in 1 .. Len(s2) /\ S2[i].errfunc = HandlerAt(s2, S2[i].ci - 1))
  <2>1. i # p + 1
    BY <1>4, <1>11 DEF CallEntry, IsPcall
  <2>2. CASE i \in 1 .. n
    BY <1>2, <1>3, <1>4, <1>11, <2>2
  <2>3. CASE p = n + 1 /\ i = p
    <3>1. S2[i] = run /\ run.ci - 1 = Len(s) /\ run.ci \in 1 .. Len(s2)
      BY <1>4, <1>5, <2>3
    <3> QED
      BY <1>5, <1>7, <1>9, <3>1
  <2> QED
    BY <1>2, <1>4, <2>1, <2>2, <2>3
<1>12. \A i \in DOMAIN S2 : S2[i].th \in LuaThreads
  <2> SUFFICES ASSUME NEW i \in 1 .. p + 1 PROVE S2[i].th \in LuaThreads
    BY <1>4
  <2>1. i \in 1 .. n \/ i = p + 1 \/ (p = n + 1 /\ i = p)
    BY <1>2, <1>4
  <2>2. CallEntry(th, d.ypcall).th = th
    BY DEF CallEntry
  <2>3. \A k \in 1 .. n : S2[k].th = cstack[k].th /\ cstack[k].th \in LuaThreads
    BY <1>2, <1>4
  <2> QED
    BY <1>2, <1>4, <1>5, <2>1, <2>2, <2>3
<1>13. HandledBy(th, Len(s), ci, ci', cstack, S2, status, status, errfunc, errfunc', lost, lost)
  BY <1>1, <1>2, <1>4, <1>6, <1>10, <1>11, <1>12 DEF HandledBy, s, s2
<1>14. Handled(ci', S2, status, errfunc', lost)
  BY <1>2, <1>13, HandledStep
<1> QED
  BY <1>5, <1>14 DEF S2, lost

(* The notes of lua_pcallk: in the CallInfo, or with its setjmp. *)
Noted(th, fn) == [Frame(fn, TRUE) EXCEPT !.ypcall = (nny[th] = 0), !.olderr = errfunc[th]]
PcallRun(th) == [RunEntry(th, "pcall", th) EXCEPT !.ci = Len(ci[th]) + 1]

LEMMA NotedIs ==
  ASSUME NEW th, NEW fn \in {"pcall", "xpcall"}, errfunc[th] \in Nat
  PROVE  LET d == Noted(th, fn)
         IN  /\ d \in FrameType /\ d.fn = fn /\ d.olderr = errfunc[th] /\ (d.ypcall <=> nny[th] = 0)
             /\ IsC(d) /\ Protected(d)
<1> DEFINE d == Noted(th, fn)
<1>1. d \in FrameType /\ d.fn = fn /\ d.olderr = errfunc[th] /\ (d.ypcall <=> nny[th] = 0)
  BY DEF Noted, Frame, FrameType
<1> HIDE DEF d
<1>2. IsC(d) /\ Protected(d)
  BY <1>1 DEF IsC, Protected
<1> QED
  BY <1>1, <1>2 DEF d

LEMMA RunIs ==
  ASSUME NEW th \in LuaThreads, Len(ci[th]) \in Nat,
         nny[th] \in Int, nCcalls[th] \in Int, errfunc[th] \in Nat
  PROVE  LET run == PcallRun(th)
         IN  /\ run \in EntryType /\ IsPcall(run) /\ run.th = th /\ run.ci = Len(ci[th]) + 1
             /\ run.nny = nny[th] /\ run.errfunc = errfunc[th]
<1> DEFINE run == PcallRun(th)
<1>1. /\ run \in RunType /\ run.c = "run" /\ run.what = "pcall" /\ run.th = th
      /\ run.ci = Len(ci[th]) + 1 /\ run.nny = nny[th] /\ run.errfunc = errfunc[th]
  BY DEF PcallRun, RunEntry, RunType
<1> HIDE DEF run
<1>2. run \in EntryType /\ IsPcall(run)
  BY <1>1 DEF EntryType, IsPcall
<1> QED
  BY <1>1, <1>2 DEF run

LEMMA CallsStep ==
  ASSUME DoInv, FewFrames,
         NEW th, RunningFacts(th), NEW d, NEW run, NEW err, Calls(th, d, run, err)
  PROVE  DoInv'
<1> DEFINE s == ci[th]
           s2 == ci'[th]
           S2 == cstack'
           n == Len(cstack)
           p == Len(cstack') - 1
<1>1. /\ CallsTo(th, d, run, s, s2, S2, n, p)
      /\ ci' \in Lists /\ \A t \in LuaThreads : t # th => ci'[t] = ci[t]
  BY CallsToIs
<1>0. s = ci[th] /\ s2 = ci'[th] /\ S2 = cstack'
  OBVIOUS
<1> HIDE DEF s, s2, S2, n, p
<1>2. /\ UNCHANGED <<status, has, spoiled, stale, escaped>> /\ err \in Nat
      /\ nny' = [nny EXCEPT ![th] = IF d.ypcall THEN @ ELSE ushort(@ + 1)]
      /\ nCcalls' \in Counters /\ errfunc' = [errfunc EXCEPT ![th] = err]
  BY DEF Calls
<1>3. /\ status \in Statuses /\ nny \in Counters /\ errfunc \in [LuaThreads -> Nat]
      /\ FramesRight(ci, status) /\ escaped \subseteq spoiled /\ th \in LuaThreads /\ status[th] = "ok"
  BY DEF DoInv, DoTypeOK, RunningFacts
<1>4. FramesRight(ci', status')
  <2>1. /\ ListRight(s2) /\ ~Waits(s2) /\ Len(s2) <= MaxFrames + 1
    <3>1. /\ Len(s2) = Len(s) + 2 /\ Len(s) + 2 <= MaxFrames /\ MaxFrames \in Nat
          /\ Len(s) \in Nat
      BY <1>1 DEF CallsTo, JoinedTwo
    <3> QED
      BY <1>1, <3>1 DEF CallsTo
  <2>2. FramesBy(th, ci, ci', status, status)
    BY <1>0, <1>1, <1>3, <2>1 DEF FramesBy
  <2> QED
    BY <1>2, <1>3, <2>2, FramesStep
<1>5. StackRight(ci', cstack', status', nny', spoiled')
  BY CallsStack
<1>6. Handled(ci', cstack', status', errfunc', (stale \cup spoiled)')
  BY CallsHandled
<1>7. nny' \in Counters
  <2>1. nny[th] \in Int /\ nny[th] + 1 \in Int
    BY <1>3 DEF Counters
  <2>2. ushort(nny[th] + 1) \in Int
    BY <2>1, UshortIs
  <2> QED
    BY <1>2, <1>3, <2>1, <2>2 DEF Counters
<1>8. cstack' \in Seq(EntryType)
  BY <1>0, <1>1 DEF CallsTo
<1>9. DoTypeOK'
  BY <1>1, <1>2, <1>3, <1>7, <1>8 DEF DoTypeOK
<1> QED
  BY <1>2, <1>3, <1>4, <1>5, <1>6, <1>9 DEF DoInv

LEMMA CallStep ==
  ASSUME DoInv, FewFrames, NEW th, th = running, lua_call(th)
  PROVE  DoInv'
<1> DEFINE d == Frame("c", TRUE)
           run == PcallRun(th)
<1>1. RunningFacts(th)
  BY RunningIs
<1>3. /\ th \in LuaThreads /\ Len(ci[th]) \in Nat /\ nny[th] \in Int /\ nCcalls[th] \in Int
      /\ nCcalls \in Counters /\ errfunc \in [LuaThreads -> Nat] /\ errfunc[th] \in Nat
  BY <1>1 DEF RunningFacts, DoInv, DoTypeOK, Counters
<1>2. /\ RoomFor(th, 2)
      /\ nCcalls' = [nCcalls EXCEPT ![th] = ushort(@ + 1)]
      /\ nny' = [nny EXCEPT ![th] = ushort(@ + 1)]
      /\ errfunc' = errfunc
      /\ UNCHANGED <<status, has, spoiled, stale, escaped>>
  BY DEF lua_call, luaD_call, NoYield
<1>4. /\ cstack' = Append(cstack, CallEntry(th, FALSE))
      /\ ci' = [ci EXCEPT ![th] = @ \o <<d, Frame("lua", TRUE)>>]
  BY DEF lua_call, luaD_call, Push, NoYield
<1>5. nCcalls' \in Counters
  <2>1. ushort(nCcalls[th] + 1) \in Int
    BY <1>3, UshortIs
  <2> QED
    BY <1>2, <1>3, <2>1 DEF Counters
<1>6. /\ d \in FrameType /\ IsC(d) /\ ~d.ypcall /\ d.ypcall = FALSE /\ d.fn = "c" /\ ~Protected(d)
  BY DEF Frame, FrameType, IsC, Protected
<1>7. errfunc' = [errfunc EXCEPT ![th] = errfunc[th]]
  BY <1>2, <1>3
<1>8. /\ run \in EntryType /\ IsPcall(run) /\ run.th = th /\ run.ci = Len(ci[th]) + 1
      /\ run.nny = nny[th] /\ run.errfunc = errfunc[th]
  BY <1>3, RunIs
<1> HIDE DEF d, run
<1>9. /\ cstack' = Append(IF Protected(d) /\ ~d.ypcall THEN Append(cstack, run) ELSE cstack,
                          CallEntry(th, d.ypcall))
      /\ nny' = [nny EXCEPT ![th] = IF d.ypcall THEN @ ELSE ushort(@ + 1)]
  BY <1>2, <1>4, <1>6
<1>10. Calls(th, d, run, errfunc[th])
  BY <1>2, <1>3, <1>4, <1>5, <1>6, <1>7, <1>8, <1>9 DEF Calls
<1> QED
  BY <1>1, <1>10, CallsStep

LEMMA PcallStep ==
  ASSUME DoInv, FewFrames, NEW th, th = running,
         NEW fn \in {"pcall", "xpcall"}, lua_pcallk(th, fn)
  PROVE  DoInv'
<1> DEFINE handler == IF fn = "xpcall" THEN Len(ci[th]) + 1 ELSE 0
           d == Noted(th, fn)
           run == PcallRun(th)
<1>1. RunningFacts(th)
  BY RunningIs
<1>2. /\ RoomFor(th, 2) /\ ci' = [ci EXCEPT ![th] = @ \o <<d, Frame("lua", TRUE)>>]
      /\ errfunc' = [errfunc EXCEPT ![th] = handler]
      /\ IF nny[th] = 0 THEN luaD_call(th, cstack, TRUE)
         ELSE luaD_call(th, Append(cstack, run), FALSE)
      /\ UNCHANGED <<status, has, spoiled, stale, escaped>>
  BY Zenon DEF lua_pcallk, Push, Noted, PcallRun
<1>3. /\ th \in LuaThreads /\ Len(ci[th]) \in Nat /\ nny[th] \in Int /\ nCcalls[th] \in Int
      /\ nCcalls \in Counters /\ errfunc \in [LuaThreads -> Nat] /\ errfunc[th] \in Nat
  BY <1>1 DEF RunningFacts, DoInv, DoTypeOK, Counters
<1>5. /\ run \in EntryType /\ IsPcall(run) /\ run.th = th /\ run.ci = Len(ci[th]) + 1
      /\ run.nny = nny[th] /\ run.errfunc = errfunc[th]
  BY <1>3, RunIs
<1>6. /\ d \in FrameType /\ d.fn = fn /\ d.olderr = errfunc[th] /\ (d.ypcall <=> nny[th] = 0)
      /\ IsC(d) /\ Protected(d)
  BY <1>3, NotedIs
<1>8. handler \in Nat /\ (fn = "pcall" => handler = 0) /\ (fn = "xpcall" => handler = Len(ci[th]) + 1)
  BY <1>3
<1> HIDE DEF d, run, handler
<1>7. d.ypcall \in BOOLEAN
  BY <1>6 DEF FrameType
<1>9. /\ cstack' = Append(IF Protected(d) /\ ~d.ypcall THEN Append(cstack, run) ELSE cstack,
                          CallEntry(th, d.ypcall))
      /\ nny' = [nny EXCEPT ![th] = IF d.ypcall THEN @ ELSE ushort(@ + 1)]
      /\ nCcalls' = [nCcalls EXCEPT ![th] = ushort(@ + 1)]
  <2>0. IF nny[th] = 0 THEN luaD_call(th, cstack, TRUE) ELSE luaD_call(th, Append(cstack, run), FALSE)
    BY <1>2
  <2>1. CASE nny[th] = 0
    <3>1. d.ypcall = TRUE
      BY <1>6, <1>7, <2>1
    <3>2. /\ cstack' = Append(cstack, CallEntry(th, TRUE)) /\ nny' = [nny EXCEPT ![th] = @]
          /\ nCcalls' = [nCcalls EXCEPT ![th] = ushort(@ + 1)]
      BY <2>0, <2>1 DEF luaD_call, Push
    <3> QED
      BY <3>1, <3>2
  <2>2. CASE nny[th] # 0
    <3>1. d.ypcall = FALSE
      BY <1>6, <1>7, <2>2
    <3>2. /\ cstack' = Append(Append(cstack, run), CallEntry(th, FALSE))
          /\ nny' = [nny EXCEPT ![th] = ushort(@ + 1)]
          /\ nCcalls' = [nCcalls EXCEPT ![th] = ushort(@ + 1)]
      BY <2>0, <2>2 DEF luaD_call, Push
    <3> QED
      BY <1>6, <3>1, <3>2
  <2> QED
    BY <2>1, <2>2
<1>10. nCcalls' \in Counters
  <2>1. ushort(nCcalls[th] + 1) \in Int
    BY <1>3, UshortIs
  <2> QED
    BY <1>3, <1>9, <2>1 DEF Counters
<1>11. Calls(th, d, run, handler)
  BY <1>2, <1>5, <1>6, <1>8, <1>9, <1>10 DEF Calls
<1> QED
  BY <1>1, <1>11, CallsStep

-----------------------------------------------------------------------------
(* Where a step of th leads to that unwinds: of its list the first m functions stay. *)
LEMMA BelowIs ==
  ASSUME NEW T, NEW s \in Seq(T), s # <<>>
  PROVE  CutTo(T, s, Below(s), Len(s) - 1)
<1>1. Len(s) - 1 \in 0 .. Len(s)
  OBVIOUS
<1> QED
  BY <1>1, CutToIs DEF Below

LEMMA BelowTwo ==
  ASSUME NEW T, NEW s \in Seq(T), 2 <= Len(s)
  PROVE  CutTo(T, s, Below(Below(s)), Len(s) - 2) /\ TopOf(Below(s)) = s[Len(s) - 1]
         /\ Below(s) # <<>>
<1>1. s # <<>> /\ Len(s) \in Nat
  OBVIOUS
<1> DEFINE d == Below(s)
<1>2. CutTo(T, s, d, Len(s) - 1)
  BY <1>1, BelowIs
<1> HIDE DEF d
<1>3. /\ d \in Seq(T) /\ Len(d) = Len(s) - 1 /\ DOMAIN d = 1 .. Len(s) - 1
      /\ \A i \in 1 .. Len(s) - 1 : d[i] = s[i]
      /\ DOMAIN s = 1 .. Len(s)
  BY <1>2 DEF CutTo
<1>4. d # <<>> /\ Len(s) - 1 \in 1 .. Len(s) - 1
  BY <1>1, <1>3
<1>5. CutTo(T, d, Below(d), Len(d) - 1)
  BY <1>3, <1>4, BelowIs
<1>6. /\ Below(d) \in Seq(T) /\ Len(Below(d)) = Len(s) - 2 /\ DOMAIN Below(d) = 1 .. Len(s) - 2
      /\ \A i \in 1 .. Len(s) - 2 : Below(d)[i] = d[i]
  BY <1>1, <1>3, <1>5 DEF CutTo
<1>7. \A i \in 1 .. Len(s) - 2 : Below(d)[i] = s[i]
  BY <1>1, <1>3, <1>6
<1>8. CutTo(T, s, Below(d), Len(s) - 2)
  BY <1>1, <1>3, <1>6, <1>7 DEF CutTo
<1>9. TopOf(d) = s[Len(s) - 1]
  BY <1>3, <1>4 DEF TopOf
<1> QED
  BY <1>4, <1>8, <1>9 DEF d

PutRight(r) ==
  r.ci \in Seq(FrameType) /\ r.cstack \in Seq(EntryType) /\ r.nny \in Int /\ r.calls \in Int /\ r.err \in Nat

LEMMA PutIs ==
  ASSUME DoTypeOK, NEW th \in LuaThreads, NEW r, Put(th, r), PutRight(r)
  PROVE  /\ ci' \in Lists /\ cstack' \in Seq(EntryType) /\ nny' \in Counters /\ nCcalls' \in Counters
         /\ errfunc' \in [LuaThreads -> Nat]
         /\ ci'[th] = r.ci /\ cstack' = r.cstack /\ nny'[th] = ushort(r.nny) /\ errfunc'[th] = r.err
         /\ stale' = r.stale
         /\ \A t \in LuaThreads : t # th => ci'[t] = ci[t] /\ nny'[t] = nny[t] /\ errfunc'[t] = errfunc[t]
<1>0. r.nny \in Int /\ r.calls \in Int
  BY DEF PutRight
<1>1. ushort(r.nny) \in Int /\ ushort(r.calls) \in Int
  BY <1>0, UshortIs
<1>2. ci \in Lists /\ nny \in Counters /\ nCcalls \in Counters /\ errfunc \in [LuaThreads -> Nat]
  BY DEF DoTypeOK
<1>3. /\ ci' = [ci EXCEPT ![th] = r.ci] /\ cstack' = r.cstack
      /\ nny' = [nny EXCEPT ![th] = ushort(r.nny)] /\ nCcalls' = [nCcalls EXCEPT ![th] = ushort(r.calls)]
      /\ errfunc' = [errfunc EXCEPT ![th] = r.err] /\ stale' = r.stale
  BY DEF Put
<1>4. ci' \in Lists /\ ci'[th] = r.ci /\ \A t \in LuaThreads : t # th => ci'[t] = ci[t]
  BY <1>2, <1>3 DEF PutRight, Lists
<1>5. nny' \in Counters /\ nny'[th] = ushort(r.nny) /\ \A t \in LuaThreads : t # th => nny'[t] = nny[t]
  BY <1>1, <1>2, <1>3 DEF Counters
<1>6. nCcalls' \in Counters
  BY <1>1, <1>2, <1>3 DEF Counters
<1>7. /\ errfunc' \in [LuaThreads -> Nat] /\ errfunc'[th] = r.err
      /\ \A t \in LuaThreads : t # th => errfunc'[t] = errfunc[t]
  BY <1>2, <1>3 DEF PutRight
<1> QED
  BY <1>3, <1>4, <1>5, <1>6, <1>7 DEF PutRight

Arrived(th, m) ==
  /\ DoTypeOK'
  /\ \A t \in LuaThreads : t # th => ci'[t] = ci[t] /\ errfunc'[t] = errfunc[t] /\ status'[t] = status[t]
  /\ ListRight(ci'[th]) /\ (status'[th] = "yield" <=> Waits(ci'[th]))
  /\ status'[th] = "ok" => Len(ci'[th]) <= MaxFrames + 1
  /\ status'[th] = "yield" => Len(ci'[th]) <= MaxFrames + 2
  /\ stale \subseteq stale' /\ spoiled' = spoiled /\ escaped' \subseteq spoiled
  /\ m \in Nat /\ m <= Len(ci'[th]) /\ \A j \in 1 .. m : ci'[th][j] = ci[th][j]
  /\ th \notin stale' \cup spoiled /\ status'[th] # "error" => ListHandled(ci'[th], errfunc'[th])
  /\ \A i \in DOMAIN cstack' : IsPcall(cstack'[i]) =>
       i \in DOMAIN cstack /\ cstack'[i] = cstack[i] /\ (cstack[i].th = th => cstack[i].ci <= m)

LEMMA ArrivedStep ==
  ASSUME DoInv, NEW th, RunningFacts(th), NEW m, Arrived(th, m),
         StackRight(ci', cstack', status', nny', spoiled')
  PROVE  DoInv'
<1>1. /\ th \in LuaThreads /\ cstack \in Seq(EntryType)
      /\ FramesRight(ci, status) /\ Handled(ci, cstack, status, errfunc, stale \cup spoiled)
  BY DEF RunningFacts, DoInv
<1>2. FramesRight(ci', status')
  <2>1. FramesBy(th, ci, ci', status, status')
    BY DEF Arrived, FramesBy
  <2> QED
    BY <1>1, <2>1, FramesStep
<1>3. Handled(ci', cstack', status', errfunc', stale' \cup spoiled')
  <2>1. \A i \in DOMAIN cstack' : cstack'[i].th \in LuaThreads
    <3>1. cstack' \in Seq(EntryType)
      BY DEF Arrived, DoTypeOK
    <3> SUFFICES ASSUME NEW i \in DOMAIN cstack' PROVE cstack'[i].th \in LuaThreads
      OBVIOUS
    <3>2. cstack'[i] \in EntryType
      BY <3>1
    <3> QED
      BY <3>2 DEF EntryType, CallType, RunType
  <2>2. Len(ci'[th]) \in Nat
    <3>1. ci'[th] \in Seq(FrameType)
      BY <1>1 DEF Arrived, DoTypeOK, Lists
    <3> QED
      BY <3>1
  <2>3. HandledBy(th, m, ci, ci', cstack, cstack', status, status', errfunc, errfunc',
                  stale \cup spoiled, stale' \cup spoiled')
    BY <1>1, <2>1, <2>2 DEF Arrived, HandledBy
  <2> QED
    BY <1>1, <2>3, HandledStep
<1> QED
  BY <1>2, <1>3 DEF Arrived, DoInv

CutDone(th, r, m) ==
  /\ Put(th, r) /\ PutRight(r) /\ CutTo(FrameType, ci[th], r.ci, m)
  /\ 0 < m => ci[th][m].fn = "lua"
  /\ status' \in Statuses /\ status'[th] \in {"ok", "error"}
  /\ \A t \in LuaThreads : t # th => status'[t] = status[t]
  /\ spoiled' = spoiled /\ escaped' \subseteq spoiled /\ stale \subseteq r.stale
  /\ th \notin r.stale \cup spoiled /\ status'[th] # "error" => r.err = HandlerAt(ci[th], m)
  /\ \A i \in DOMAIN r.cstack : IsPcall(r.cstack[i]) =>
       i \in DOMAIN cstack /\ r.cstack[i] = cstack[i] /\ (cstack[i].th = th => cstack[i].ci <= m)

LEMMA CutArrived ==
  ASSUME DoInv, NEW th, RunningFacts(th), NEW r, NEW m, CutDone(th, r, m)
  PROVE  Arrived(th, m)
<1>1. /\ th \in LuaThreads /\ ListRight(ci[th]) /\ Len(ci[th]) <= MaxFrames + 1 /\ DoTypeOK
      /\ status[th] = "ok" /\ Len(ci[th]) \in Nat /\ DOMAIN ci[th] = 1 .. Len(ci[th]) /\ MaxFrames \in Nat
  BY LuaDoAssumption DEF RunningFacts, DoInv
<1>2. /\ Put(th, r) /\ PutRight(r) /\ CutTo(FrameType, ci[th], r.ci, m)
      /\ 0 < m => ci[th][m].fn = "lua"
  BY DEF CutDone
<1>3. /\ ci' \in Lists /\ cstack' \in Seq(EntryType) /\ nny' \in Counters /\ nCcalls' \in Counters
      /\ errfunc' \in [LuaThreads -> Nat]
      /\ ci'[th] = r.ci /\ cstack' = r.cstack /\ errfunc'[th] = r.err /\ stale' = r.stale
      /\ \A t \in LuaThreads : t # th => ci'[t] = ci[t] /\ errfunc'[t] = errfunc[t]
  BY <1>1, <1>2, PutIs
<1>4. /\ ListRight(r.ci) /\ ~Waits(r.ci) /\ Len(r.ci) = m /\ \A j \in 1 .. m : r.ci[j] = ci[th][j]
  BY <1>1, <1>2, RightCut
<1>5. /\ m \in Nat /\ m <= Len(ci[th]) /\ DOMAIN r.ci = 1 .. m
  BY <1>2 DEF CutTo
<1>6. th \notin r.stale \cup spoiled /\ status'[th] # "error" => ListHandled(r.ci, r.err)
  <2> SUFFICES ASSUME th \notin r.stale \cup spoiled, status'[th] # "error"
               PROVE  ListHandled(r.ci, r.err)
    OBVIOUS
  <2>1. th \in LuaThreads \ (stale \cup spoiled)
    BY <1>1 DEF CutDone
  <2>2. ListHandled(ci[th], errfunc[th])
    BY <1>1, <2>1 DEF DoInv, Handled
  <2>3. r.err = HandlerAt(r.ci, Len(r.ci))
    BY <1>4, <1>5, HandlerKept DEF CutDone
  <2>4. \A j \in 1 .. Len(r.ci) : m < j => ~r.ci[j].ypcall
    BY <1>4, <1>5
  <2> QED
    BY <1>1, <1>4, <1>5, <2>2, <2>3, <2>4, HandledCut
<1>7. DoTypeOK'
  BY <1>3 DEF DoTypeOK, CutDone
<1>8. /\ \A t \in LuaThreads : t # th => status'[t] = status[t]
      /\ spoiled' = spoiled /\ escaped' \subseteq spoiled /\ stale \subseteq r.stale
      /\ status'[th] \in {"ok", "error"}
      /\ \A i \in DOMAIN r.cstack : IsPcall(r.cstack[i]) =>
           i \in DOMAIN cstack /\ r.cstack[i] = cstack[i] /\ (cstack[i].th = th => cstack[i].ci <= m)
  BY DEF CutDone
<1>9. Len(r.ci) <= MaxFrames + 1
  BY <1>1, <1>4, <1>5
<1> QED
  BY <1>3, <1>4, <1>5, <1>6, <1>7, <1>8, <1>9 DEF Arrived

-----------------------------------------------------------------------------
(* Returns. *)
LEMMA NnySmall ==
  ASSUME DoInv, FewFrames, NEW th, RunningFacts(th), NEW x \in Nat, x <= Len(ci[th]) + 1
  PROVE  ushort(x) = x
<1>1. Len(ci[th]) <= MaxFrames + 1 /\ Len(ci[th]) \in Nat /\ MaxFrames \in Nat
  BY LuaDoAssumption DEF RunningFacts
<1>2. x \in Int /\ 0 <= x /\ x < 65536
  BY <1>1, SMT DEF FewFrames
<1> QED
  BY <1>2, UshortIs

LEMMA ReturnTop ==
  ASSUME NEW th, RunningFacts(th), InLua(th)
  PROVE  LET s == ci[th]
             n == Len(s)
         IN  /\ s[n].fn = "lua" /\ TopOf(s) = s[n]
             /\ ~s[n].fresh => 1 < n /\ s[n - 1].fn = "lua"
             /\ s[n].fresh /\ 1 < n => IsC(s[n - 1]) /\ 2 < n /\ s[n - 2].fn = "lua"
<1> DEFINE s == ci[th]
           n == Len(s)
<1>1. s[n].fn = "lua" /\ TopOf(s) = s[n]
  BY DEF InLua, TopOf
<1>2. n \in 1 .. n /\ DOMAIN s = 1 .. n /\ n \in Nat /\ ListRight(s)
  BY DEF RunningFacts
<1> HIDE DEF s, n
<1>3. FrameRight(s, n) /\ (1 < n => FrameRight(s, n - 1))
  <2>1. 1 < n => n - 1 \in 1 .. n
    BY <1>2
  <2> QED
    BY <1>2, <2>1 DEF ListRight
<1>4. ~s[n].fresh => 1 < n /\ s[n - 1].fn = "lua"
  BY <1>1, <1>2, <1>3 DEF FrameRight
<1>5. s[n].fresh /\ 1 < n => IsC(s[n - 1])
  BY <1>1, <1>2, <1>3 DEF FrameRight
<1>6. s[n].fresh /\ 1 < n => 2 < n /\ s[n - 2].fn = "lua"
  <2> SUFFICES ASSUME s[n].fresh, 1 < n PROVE 2 < n /\ s[n - 2].fn = "lua"
    OBVIOUS
  <2>1. IsC(s[n - 1]) /\ FrameRight(s, n - 1)
    BY <1>3, <1>5
  <2>2. 1 < n - 1 /\ s[(n - 1) - 1].fn = "lua"
    BY <2>1 DEF FrameRight
  <2>3. (n - 1) - 1 = n - 2
    BY <1>2
  <2> QED
    BY <1>2, <2>2, <2>3
<1> QED
  BY <1>1, <1>4, <1>5, <1>6 DEF s, n

LEMMA PoppedIs ==
  ASSUME NEW th
  PROVE  LET r == Popped(Now(th))
         IN  /\ r.ci = Below(ci[th]) /\ r.cstack = cstack /\ r.nny = nny[th]
             /\ r.calls = nCcalls[th] /\ r.err = errfunc[th] /\ r.stale = stale
BY DEF Popped, Now, Below

LEMMA PlainReturn ==
  ASSUME DoInv, FewFrames, NEW th, th = running, InLua(th), ~TopOf(ci[th]).fresh,
         Put(th, Popped(Now(th))), UNCHANGED <<status, has, spoiled, escaped>>
  PROVE  DoInv'
<1> DEFINE s == ci[th]
           n == Len(s)
           r == Popped(Now(th))
<1>1. RunningFacts(th)
  BY RunningIs
<1>2. /\ th \in LuaThreads /\ s \in Seq(FrameType) /\ s # <<>> /\ n \in Nat /\ DOMAIN s = 1 .. n
      /\ n \in 1 .. n /\ cstack \in Seq(EntryType) /\ status[th] = "ok"
  BY <1>1 DEF RunningFacts
<1>3. DoTypeOK /\ StackRight(ci, cstack, status, nny, spoiled) /\ escaped \subseteq spoiled
  BY DEF DoInv
<1>4. nny[th] \in Int /\ nCcalls[th] \in Int /\ errfunc[th] \in Nat /\ status \in Statuses
  BY <1>2, <1>3 DEF DoTypeOK, Counters
<1>5. /\ s[n].fn = "lua" /\ ~s[n].fresh /\ 1 < n /\ s[n - 1].fn = "lua"
  BY <1>1, ReturnTop
<1>6. /\ r.ci = Below(s) /\ r.cstack = cstack /\ r.nny = nny[th]
      /\ r.calls = nCcalls[th] /\ r.err = errfunc[th] /\ r.stale = stale
  BY PoppedIs
<1>7. Put(th, r) /\ status' = status /\ spoiled' = spoiled /\ escaped' = escaped
  OBVIOUS
<1>8. \A i \in DOMAIN cstack : IsPcall(cstack[i]) /\ cstack[i].th = th => cstack[i].ci <= n - 1
  <2> SUFFICES ASSUME NEW i \in DOMAIN cstack, IsPcall(cstack[i]), cstack[i].th = th
               PROVE  cstack[i].ci <= n - 1
    OBVIOUS
  <2>1. cstack[i].ci < n /\ cstack[i].ci \in 1 .. n
    BY <1>1, PcallsIn
  <2> QED
    BY <1>2, <2>1
<1>0. Handled(ci, cstack, status, errfunc, stale \cup spoiled)
  BY DEF DoInv
<1>9. th \notin stale \cup spoiled => errfunc[th] = HandlerAt(s, n - 1)
  <2> SUFFICES ASSUME th \notin stale \cup spoiled PROVE errfunc[th] = HandlerAt(s, n - 1)
    OBVIOUS
  <2>1. errfunc[th] = HandlerAt(s, n)
    BY <1>0, <1>2 DEF Handled, ListHandled
  <2>2. n - 1 \in Nat /\ (n - 1) + 1 = n /\ ~Protected(s[n])
    BY <1>2, <1>5 DEF Protected
  <2>3. HandlerAt(s, n) = HandlerAt(s, n - 1)
    BY <2>2, HandlerNext
  <2> QED
    BY <2>1, <2>3
<1> HIDE DEF r
<1>10. CutTo(FrameType, s, r.ci, n - 1)
  BY <1>2, <1>6, BelowIs
<1>11. PutRight(r)
  BY <1>2, <1>4, <1>6, <1>10 DEF PutRight, CutTo
<1>12. CutDone(th, r, n - 1)
  BY <1>2, <1>3, <1>4, <1>5, <1>6, <1>7, <1>8, <1>9, <1>10, <1>11 DEF CutDone
<1>13. Arrived(th, n - 1)
  BY <1>1, <1>12, CutArrived
<1>14. /\ ci'[th] = r.ci /\ cstack' = cstack /\ nny'[th] = ushort(nny[th])
       /\ \A t \in LuaThreads : t # th => ci'[t] = ci[t] /\ nny'[t] = nny[t]
  BY <1>2, <1>3, <1>6, <1>7, <1>11, PutIs
<1>15. th \notin spoiled => nny'[th] = nny[th]
  <2>1. PICK f, h \in [DOMAIN cstack -> Nat] :
          /\ Placed(ci, cstack, f) /\ Counts(cstack, nny, spoiled, f, h)
          /\ Returned(ci, cstack, status, spoiled, f)
    BY <1>3 DEF StackRight
  <2> SUFFICES ASSUME th \notin spoiled PROVE nny'[th] = nny[th]
    OBVIOUS
  <2>2. nny[th] \in Nat /\ nny[th] <= Len(ci[th]) + 1
    BY <1>1, <2>1, TopLevel
  <2> QED
    BY <1>1, <1>14, <2>2, NnySmall
<1>16. Trimmed(s, ci'[th], n - 1) /\ ci'[th] # <<>>
  <2>1. /\ Len(r.ci) = n - 1 /\ DOMAIN r.ci = 1 .. n - 1 /\ \A i \in 1 .. n - 1 : r.ci[i] = s[i]
    BY <1>10 DEF CutTo
  <2>2. n - 1 \in 0 .. n /\ n - 1 \in Nat /\ \A j \in 1 .. n - 1 : ~(n - 1 < j)
    BY <1>2
  <2>3. r.ci # <<>>
    BY <1>5, <1>2, <2>1
  <2> QED
    BY <1>2, <1>14, <2>1, <2>2, <2>3 DEF Trimmed
<1>17. \A j \in DOMAIN s : n - 1 < j => ~s[j].fresh
  <2> SUFFICES ASSUME NEW j \in 1 .. n, n - 1 < j PROVE ~s[j].fresh
    BY <1>2
  <2>1. j = n
    BY <1>2
  <2> QED
    BY <1>5, <2>1
<1>18. TopChange(cstack, th, n - 1, ci, ci', nny, nny', status, spoiled)
  BY <1>1, <1>14, <1>15, <1>16, <1>17 DEF TopChange, RunningFacts
<1>19. StackRight(ci', cstack', status', nny', spoiled')
  BY <1>3, <1>7, <1>14, <1>18, TopStack
<1> QED
  BY <1>1, <1>13, <1>19, ArrivedStep

(* The top function has been called by C, or begins a coroutine. *)
ReturnsToC(th) == InLua(th) /\ TopOf(ci[th]).fresh /\ Below(ci[th]) # <<>>
ReturnsLast(th) == InLua(th) /\ TopOf(ci[th]).fresh /\ Below(ci[th]) = <<>>

LEMMA ReturnsIs ==
  ASSUME NEW th, RunningFacts(th)
  PROVE  LET s == ci[th]
             n == Len(s)
         IN  /\ ReturnsToC(th) => /\ s[n].fn = "lua" /\ s[n].fresh /\ IsC(s[n - 1])
                                  /\ 2 < n /\ s[n - 2].fn = "lua"
             /\ ReturnsLast(th) => s[1].fn = "lua" /\ n = 1
<1> DEFINE s == ci[th]
           n == Len(s)
           d == Below(s)
<1>1. /\ s \in Seq(FrameType) /\ s # <<>> /\ n \in Nat /\ 1 <= n
  BY DEF RunningFacts
<1>2. CutTo(FrameType, s, d, n - 1)
  BY <1>1, BelowIs
<1>3. d \in Seq(FrameType) /\ Len(d) = n - 1
  BY <1>2 DEF CutTo
<1>4. InLua(th) /\ TopOf(ci[th]).fresh =>
        /\ s[n].fn = "lua" /\ s[n].fresh
        /\ 1 < n => IsC(s[n - 1]) /\ 2 < n /\ s[n - 2].fn = "lua"
  BY ReturnTop
<1>5. /\ ReturnsToC(th) => InLua(th) /\ TopOf(ci[th]).fresh /\ d # <<>>
      /\ ReturnsLast(th) => InLua(th) /\ TopOf(ci[th]).fresh /\ d = <<>>
  BY DEF ReturnsToC, ReturnsLast
<1> HIDE DEF s, n, d
<1>6. d # <<>> <=> 1 < n
  BY <1>1, <1>3
<1>7. ReturnsToC(th) => /\ s[n].fn = "lua" /\ s[n].fresh /\ IsC(s[n - 1])
                       /\ 2 < n /\ s[n - 2].fn = "lua"
  BY <1>4, <1>5, <1>6
<1>8. ReturnsLast(th) => s[1].fn = "lua" /\ n = 1
  <2>1. ~(1 < n) => n = 1
    BY <1>1
  <2> QED
    BY <1>4, <1>5, <1>6, <2>1
<1> QED
  BY <1>7, <1>8 DEF s, n

(* A C function is finished after a yield. *)
LEMMA FinishedIs ==
  ASSUME NEW th
  PROVE  LET r == finishCcall(th, Popped(Now(th)))
         IN  /\ r.ci = Below(Below(ci[th])) /\ r.cstack = cstack /\ r.nny = nny[th]
             /\ r.calls = nCcalls[th] - 1 /\ r.err = errfunc[th]
             /\ r.stale = IF errfunc[th] = TopOf(Below(ci[th])).olderr THEN stale ELSE stale \cup {th}
BY DEF finishCcall, Popped, Now, Below

LEMMA FinishReturn ==
  ASSUME DoInv, FewFrames, NEW th, th = running, ReturnsToC(th), TopOf(cstack).c # "call",
         Put(th, finishCcall(th, Popped(Now(th)))), UNCHANGED <<status, has, spoiled, escaped>>
  PROVE  DoInv'
<1> DEFINE s == ci[th]
           n == Len(s)
           m == Len(cstack)
           r == finishCcall(th, Popped(Now(th)))
<1>1. RunningFacts(th)
  BY RunningIs
<1>2. /\ th \in LuaThreads /\ s \in Seq(FrameType) /\ s # <<>> /\ n \in Nat /\ DOMAIN s = 1 .. n
      /\ n \in 1 .. n /\ cstack \in Seq(EntryType) /\ status[th] = "ok"
      /\ m \in Nat /\ m \in DOMAIN cstack /\ DOMAIN cstack = 1 .. m /\ cstack[m].th = th
      /\ cstack[m] \in EntryType /\ ~IsPcall(cstack[m])
  BY <1>1 DEF RunningFacts
<1>3. DoTypeOK /\ StackRight(ci, cstack, status, nny, spoiled) /\ escaped \subseteq spoiled
  BY DEF DoInv
<1>4. nny[th] \in Int /\ nCcalls[th] \in Int /\ errfunc[th] \in Nat /\ status \in Statuses
  BY <1>2, <1>3 DEF DoTypeOK, Counters
<1>5. /\ s[n].fn = "lua" /\ s[n].fresh /\ IsC(s[n - 1]) /\ 2 < n /\ s[n - 2].fn = "lua"
  BY <1>1, ReturnsIs
<1>6. /\ r.ci = Below(Below(s)) /\ r.cstack = cstack /\ r.nny = nny[th]
      /\ r.calls = nCcalls[th] - 1 /\ r.err = errfunc[th]
      /\ r.stale = IF errfunc[th] = TopOf(Below(s)).olderr THEN stale ELSE stale \cup {th}
  BY FinishedIs
<1>7. Put(th, r) /\ status' = status /\ spoiled' = spoiled /\ escaped' = escaped
  OBVIOUS
<1>8. IsResume(cstack[m]) /\ \A k \in DOMAIN cstack : cstack[k].th = th => k = m
  <2>1. IsResume(cstack[m])
    <3>1. cstack[m].c # "call"
      BY DEF TopOf
    <3> QED
      BY <1>2, <3>1 DEF EntryType, CallType, RunType, IsPcall, IsResume
  <2>2. PieceAt(cstack, m)
    BY <1>2, <1>3 DEF StackRight, Pieces
  <2>3. \A k \in 1 .. m - 1 : cstack[k].th # th
    BY <1>2, <2>1, <2>2 DEF PieceAt
  <2> QED
    BY <1>2, <2>1, <2>3
<1>9. \A k \in DOMAIN cstack : cstack[k].th = th => ~IsCall(cstack[k]) /\ ~IsPcall(cstack[k])
  BY <1>8 DEF IsResume, IsCall, IsPcall
<1>0. Handled(ci, cstack, status, errfunc, stale \cup spoiled)
  BY DEF DoInv
<1> HIDE DEF m
<1>10. th \notin r.stale \cup spoiled => r.err = HandlerAt(s, n - 2)
  <2> SUFFICES ASSUME th \notin r.stale \cup spoiled PROVE r.err = HandlerAt(s, n - 2)
    OBVIOUS
  <2>1. errfunc[th] = TopOf(Below(s)).olderr /\ th \notin stale /\ th \notin spoiled
    BY <1>6
  <2>2. TopOf(Below(s)) = s[n - 1]
    BY <1>2, <1>5, BelowTwo
  <2>3. s[n - 1].ypcall
    <3>1. PICK f, h \in [DOMAIN cstack -> Nat] :
            /\ Placed(ci, cstack, f) /\ Counts(cstack, nny, spoiled, f, h)
            /\ Returned(ci, cstack, status, spoiled, f)
      BY <1>3 DEF StackRight
    <3>2. n - 1 \in DOMAIN ci[th] /\ IsC(ci[th][n - 1]) /\ th \in LuaThreads \ spoiled
      BY <1>2, <1>5, <2>1
    <3>3. status[th] # "error"
      BY <1>2
    <3> QED
      BY <1>9, <3>1, <3>2, <3>3 DEF Returned
  <2>4. s[n - 1].olderr = HandlerAt(s, (n - 1) - 1)
    <3>1. ListHandled(s, errfunc[th])
      BY <1>0, <1>2, <2>1 DEF Handled
    <3>2. n - 1 \in DOMAIN s
      BY <1>2, <1>5
    <3> QED
      BY <2>3, <3>1, <3>2 DEF ListHandled
  <2>5. (n - 1) - 1 = n - 2
    BY <1>2
  <2> QED
    BY <1>6, <2>1, <2>2, <2>4, <2>5
<1>11. stale \subseteq r.stale
  BY <1>6
<1> HIDE DEF r
<1>12. CutTo(FrameType, s, r.ci, n - 2)
  BY <1>2, <1>5, <1>6, BelowTwo
<1>13. PutRight(r)
  <2>1. nCcalls[th] - 1 \in Int
    BY <1>4
  <2> QED
    BY <1>2, <1>4, <1>6, <1>12, <2>1 DEF PutRight, CutTo
<1>14. CutDone(th, r, n - 2)
  <2>1. status'[th] = "ok" /\ \A i \in DOMAIN r.cstack : IsPcall(r.cstack[i]) =>
          i \in DOMAIN cstack /\ r.cstack[i] = cstack[i] /\ (cstack[i].th = th => cstack[i].ci <= n - 2)
    BY <1>2, <1>6, <1>7, <1>9
  <2> QED
    BY <1>3, <1>4, <1>5, <1>7, <1>10, <1>11, <1>12, <1>13, <2>1 DEF CutDone
<1>15. Arrived(th, n - 2)
  BY <1>1, <1>14, CutArrived
<1>16. /\ ci'[th] = r.ci /\ cstack' = cstack /\ nny'[th] = ushort(nny[th])
       /\ \A t \in LuaThreads : t # th => ci'[t] = ci[t] /\ nny'[t] = nny[t]
  BY <1>2, <1>3, <1>6, <1>7, <1>13, PutIs
<1>17. th \notin spoiled => nny'[th] = nny[th]
  <2>1. PICK f, h \in [DOMAIN cstack -> Nat] :
          /\ Placed(ci, cstack, f) /\ Counts(cstack, nny, spoiled, f, h)
          /\ Returned(ci, cstack, status, spoiled, f)
    BY <1>3 DEF StackRight
  <2> SUFFICES ASSUME th \notin spoiled PROVE nny'[th] = nny[th]
    OBVIOUS
  <2>2. nny[th] \in Nat /\ nny[th] <= Len(ci[th]) + 1
    BY <1>1, <2>1, TopLevel
  <2> QED
    BY <1>1, <1>16, <2>2, NnySmall
<1>18. Trimmed(s, ci'[th], n - 2) /\ ci'[th] # <<>>
  <2>1. /\ Len(r.ci) = n - 2 /\ DOMAIN r.ci = 1 .. n - 2 /\ \A i \in 1 .. n - 2 : r.ci[i] = s[i]
    BY <1>12 DEF CutTo
  <2>2. n - 2 \in 0 .. n /\ n - 2 \in Nat /\ \A j \in 1 .. n - 2 : ~(n - 2 < j)
    BY <1>2, <1>5
  <2>3. r.ci # <<>>
    BY <1>5, <1>2, <2>1
  <2> QED
    BY <1>2, <1>16, <2>1, <2>2, <2>3 DEF Trimmed
<1>19. TopChange(cstack, th, n - 2, ci, ci', nny, nny', status, spoiled)
  BY <1>1, <1>9, <1>16, <1>17, <1>18 DEF TopChange, RunningFacts
<1>20. StackRight(ci', cstack', status', nny', spoiled')
  BY <1>3, <1>7, <1>16, <1>19, TopStack
<1> QED
  BY <1>1, <1>15, <1>20, ArrivedStep

(* A return or an error that cuts the C stack to n entries and the list to m. *)
CutRight(th, r, m) ==
  /\ Put(th, r) /\ PutRight(r) /\ CutTo(FrameType, ci[th], r.ci, m)
  /\ 0 < m => ci[th][m].fn = "lua"
  /\ status' \in Statuses /\ status'[th] \in {"ok", "error"}
  /\ \A t \in LuaThreads : t # th => status'[t] = status[t]
  /\ spoiled' = spoiled /\ escaped' \subseteq spoiled /\ stale \subseteq r.stale
  /\ th \notin r.stale \cup spoiled /\ status'[th] # "error" => r.err = HandlerAt(ci[th], m)

Known(f, h) ==
  /\ f \in [DOMAIN cstack -> Nat] /\ h \in [DOMAIN cstack -> Nat] /\ Placed(ci, cstack, f)
  /\ Counts(cstack, nny, spoiled, f, h) /\ Returned(ci, cstack, status, spoiled, f)

Unwound(th, r, n, m, f, h) ==
  /\ Prefix(r.cstack, cstack, n) /\ ~IsPcall(cstack[n])
  /\ \A k \in n + 1 .. Len(cstack) : cstack[k].th = th
  /\ Split(cstack, f, th, n, m)
  /\ cstack[n].th = th => status'[th] = "ok" /\ 0 < m /\ (th \notin spoiled => ushort(r.nny) = h[n])
  /\ cstack[n].th # th /\ th \notin spoiled /\ status'[th] # "error" =>
       \A j \in 1 .. m : IsC(ci[th][j]) => ci[th][j].ypcall

LEMMA UnwoundStep ==
  ASSUME DoInv, NEW th, RunningFacts(th), NEW f, NEW h, Known(f, h),
         NEW r, NEW n, NEW m, CutRight(th, r, m), Unwound(th, r, n, m, f, h)
  PROVE  DoInv'
<1>1. /\ th \in LuaThreads /\ cstack[Len(cstack)].th = th /\ DOMAIN cstack = 1 .. Len(cstack)
      /\ \A i \in DOMAIN cstack : cstack[i].th \in LuaThreads
      /\ cstack \in Seq(EntryType) /\ Len(cstack) \in Nat
      /\ DOMAIN ci[th] = 1 .. Len(ci[th]) /\ Len(ci[th]) \in Nat
  BY DEF RunningFacts
<1>2. /\ DoTypeOK /\ Pieces(cstack) /\ Alive(ci, cstack, status)
  BY DEF DoInv, StackRight
<1>3. Put(th, r) /\ PutRight(r) /\ CutTo(FrameType, ci[th], r.ci, m) /\ spoiled' = spoiled
      /\ \A t \in LuaThreads : t # th => status'[t] = status[t]
  BY DEF CutRight
<1>4. /\ Prefix(r.cstack, cstack, n) /\ ~IsPcall(cstack[n]) /\ Split(cstack, f, th, n, m)
  BY DEF Unwound
<1>5. /\ ci'[th] = r.ci /\ cstack' = r.cstack /\ nny'[th] = ushort(r.nny)
      /\ \A t \in LuaThreads : t # th => ci'[t] = ci[t] /\ nny'[t] = nny[t]
  BY <1>1, <1>2, <1>3, PutIs
<1>6. m \in Nat /\ m \in 0 .. Len(ci[th]) /\ Len(r.ci) = m /\ DOMAIN r.ci = 1 .. m
      /\ \A i \in 1 .. m : r.ci[i] = ci[th][i]
  BY <1>1, <1>3 DEF CutTo
<1>7. /\ n \in 1 .. Len(cstack) /\ DOMAIN r.cstack = 1 .. n
      /\ \A i \in 1 .. n : r.cstack[i] = cstack[i]
  BY <1>4 DEF Prefix
<1>8. ASSUME NEW i \in DOMAIN r.cstack, IsPcall(r.cstack[i])
      PROVE  i \in DOMAIN cstack /\ r.cstack[i] = cstack[i] /\ (cstack[i].th = th => cstack[i].ci <= m)
  <2>1. i \in DOMAIN cstack /\ r.cstack[i] = cstack[i] /\ IsPcall(cstack[i]) /\ i # n /\ i \in 1 .. n
    BY <1>1, <1>4, <1>7, <1>8
  <2>2. PcallAt(ci, cstack, f, i)
    BY <1>1, <1>2, <2>1 DEF PcallAt, Known
  <2>3. /\ i + 1 \in DOMAIN cstack /\ IsCall(cstack[i + 1]) /\ cstack[i + 1].th = cstack[i].th
        /\ cstack[i].ci = f[i + 1] - 1
    BY <2>2, PcallIs
  <2>4. i + 1 <= n
    BY <1>1, <1>7, <2>1
  <2>5. cstack[i].th = th => f[i + 1] <= m
    BY <1>4, <2>3, <2>4 DEF Split
  <2>6. f[i + 1] \in Nat
    BY <2>3 DEF Known
  <2> QED
    BY <1>6, <2>1, <2>3, <2>5, <2>6
<1>9. CutDone(th, r, m)
  BY <1>8 DEF CutDone, CutRight
<1>10. Arrived(th, m)
  BY <1>9, CutArrived
<1>11. Trimmed(ci[th], ci'[th], m)
  BY <1>1, <1>5, <1>6 DEF Trimmed
<1> DEFINE f2 == [k \in 1 .. n |-> f[k]]
           h2 == [k \in 1 .. n |-> h[k]]
<1>12. f2 = [k \in 1 .. n |-> f[k]] /\ h2 = [k \in 1 .. n |-> h[k]]
  OBVIOUS
<1> HIDE DEF f2, h2
<1>13. cstack[n].th = th =>
         status'[th] = "ok" /\ ci'[th] # <<>> /\ (th \notin spoiled => nny'[th] = h[n])
  <2>1. 0 < m => ci'[th] # <<>>
    BY <1>5, <1>6
  <2> QED
    BY <1>5, <2>1 DEF Unwound
<1>14. cstack[n].th # th /\ th \notin spoiled /\ status'[th] # "error" =>
         \A j \in 1 .. m : IsC(ci[th][j]) => ci[th][j].ypcall
  BY DEF Unwound
<1>15. \A k \in n + 1 .. Len(cstack) : cstack[k].th = th
  BY DEF Unwound
<1>16. Prefix(cstack', cstack, n)
  BY <1>4, <1>5
<1>17. CutBy(cstack, cstack', n, th, m, ci, ci', nny, nny', status, status', spoiled, f, h, f2, h2)
  BY <1>1, <1>2, <1>3, <1>4, <1>5, <1>11, <1>12, <1>13, <1>14, <1>15, <1>16 DEF CutBy, Known
<1>18. StackRight(ci', cstack', status', nny', spoiled')
  BY <1>3, <1>17, CutStack
<1> QED
  BY <1>10, <1>18, ArrivedStep

(* The last call of the C stack is of the function on top of the list. *)
LEMMA TopCalled ==
  ASSUME DoInv, NEW th, RunningFacts(th), NEW f, NEW h, Known(f, h),
         ReturnsToC(th), IsCall(cstack[Len(cstack)])
  PROVE  LET n == Len(cstack)
             L == Len(ci[th])
         IN  /\ f[n] = L /\ 1 < n /\ cstack[n - 1].th = th
             /\ cstack[n].allowyield = ci[th][L - 1].ypcall
             /\ IsPcall(cstack[n - 1]) <=> Protected(ci[th][L - 1]) /\ ~ci[th][L - 1].ypcall
             /\ IsPcall(cstack[n - 1]) => cstack[n - 1].ci = L - 1
<1> DEFINE n == Len(cstack)
           s == ci[th]
           L == Len(s)
<1>1. /\ n \in Nat /\ n \in DOMAIN cstack /\ DOMAIN cstack = 1 .. n /\ cstack[n].th = th
      /\ L \in Nat /\ DOMAIN s = 1 .. L
  BY DEF RunningFacts
<1>2. s[L].fn = "lua" /\ IsC(s[L - 1]) /\ 2 < L
  BY ReturnsIs
<1>3. CallPlaced(s, cstack, f, n) /\ Matched(s, cstack, f, n)
  <2>1. PlacedAt(ci, cstack, f, n)
    BY <1>1 DEF Known, Placed
  <2> QED
    BY <1>1, <2>1 DEF PlacedAt
<1>4. PieceAt(cstack, n)
  BY <1>1 DEF DoInv, StackRight, Pieces
<1> HIDE DEF L, s, n
<1>5. f[n] \in 1 .. L /\ s[f[n]].fn = "lua" /\ (n = 1 => f[n] = 1)
  BY <1>1, <1>3 DEF CallPlaced
<1>6. ~(f[n] < L - 1)
  <2> SUFFICES ASSUME f[n] < L - 1 PROVE FALSE
    OBVIOUS
  <2>1. L - 1 \in DOMAIN s
    BY <1>1, <1>2
  <2>2. PICK k \in DOMAIN cstack : Above(cstack, n, k)
    BY <1>2, <1>3, <2>1 DEF Matched
  <2> QED
    BY <1>1, <2>2 DEF Above
<1>7. f[n] # L - 1
  <2>1. s[L - 1].fn # "lua"
    BY <1>2 DEF IsC
  <2> QED
    BY <1>5, <2>1
<1>8. f[n] = L
  BY <1>1, <1>5, <1>6, <1>7
<1>9. 1 < n
  BY <1>1, <1>2, <1>5, <1>8
<1>10. cstack[n - 1].th = th
  <2>1. IsCall(cstack[n])
    BY DEF n
  <2> QED
    BY <1>1, <1>4, <1>9, <2>1 DEF PieceAt, IsCall, IsResume
<1>11. /\ cstack[n].allowyield = s[L - 1].ypcall
       /\ IsPcall(cstack[n - 1]) <=> Protected(s[L - 1]) /\ ~s[L - 1].ypcall
       /\ IsPcall(cstack[n - 1]) => cstack[n - 1].ci = L - 1
  BY <1>3, <1>8, <1>9 DEF CallPlaced
<1> QED
  BY <1>8, <1>9, <1>10, <1>11 DEF L, s, n

LEMMA EndedIs ==
  ASSUME NEW th
  PROVE  LET r == EndOfCall(Popped(Now(th)))
             d == TopOf(Below(ci[th]))
             run == TopOf(Below(cstack))
         IN  /\ r.ci = Below(Below(ci[th])) /\ r.stale = stale
             /\ r.nny = IF TopOf(cstack).allowyield THEN nny[th] ELSE nny[th] - 1
             /\ ~Protected(d) => /\ r.cstack = Below(cstack) /\ r.err = errfunc[th]
                                 /\ r.calls = nCcalls[th] - 1
             /\ Protected(d) /\ d.ypcall => /\ r.cstack = Below(cstack) /\ r.err = d.olderr
                                            /\ r.calls = nCcalls[th] - 1
             /\ Protected(d) /\ ~d.ypcall => /\ r.cstack = Below(Below(cstack))
                                             /\ r.err = run.errfunc /\ r.calls = run.calls
BY DEF EndOfCall, Popped, Now

(* Where the C stack is cut to by the end of a call. *)
EndsAt(th) ==
  LET d == ci[th][Len(ci[th]) - 1]
  IN  IF Protected(d) /\ ~d.ypcall THEN Len(cstack) - 2 ELSE Len(cstack) - 1

LEMMA EndCuts ==
  ASSUME DoInv, NEW th, RunningFacts(th), NEW f, NEW h, Known(f, h),
         ReturnsToC(th), IsCall(cstack[Len(cstack)])
  PROVE  LET q == EndsAt(th)
             n == Len(cstack)
         IN  /\ q \in 1 .. n /\ q < n /\ cstack[q].th = th /\ ~IsPcall(cstack[q])
             /\ \A k \in q + 1 .. n : cstack[k].th = th
             /\ Split(cstack, f, th, q, Len(ci[th]) - 2)
             /\ h[q] = IF cstack[n].allowyield THEN h[n] ELSE h[n] - 1
             /\ h[q] \in Nat /\ h[q] <= h[n]
<1> DEFINE q == EndsAt(th)
           n == Len(cstack)
           L == Len(ci[th])
           d == ci[th][L - 1]
<1>1. /\ n \in Nat /\ n \in DOMAIN cstack /\ DOMAIN cstack = 1 .. n /\ cstack[n].th = th
      /\ cstack[n] \in EntryType /\ L \in Nat
  BY DEF RunningFacts
<1>2. /\ f[n] = L /\ 1 < n /\ cstack[n - 1].th = th /\ cstack[n].allowyield = d.ypcall
      /\ IsPcall(cstack[n - 1]) <=> Protected(d) /\ ~d.ypcall
  BY TopCalled
<1>3. q = IF Protected(d) /\ ~d.ypcall THEN n - 2 ELSE n - 1
  BY DEF EndsAt
<1>4. /\ \A i \in DOMAIN cstack : PieceAt(cstack, i) /\ PlacedAt(ci, cstack, f, i) /\ Level(cstack, f, h, i)
      /\ \A i \in DOMAIN cstack : f[i] \in Nat /\ h[i] \in Nat
  BY DEF DoInv, StackRight, Pieces, Known, Placed, Counts
<1>0. IsCall(cstack[n])
  OBVIOUS
<1> HIDE DEF q, n, L, d
<1>5. n - 1 \in DOMAIN cstack
  BY <1>1, <1>2
<1>6. IsPcall(cstack[n - 1]) => /\ 1 < n - 1 /\ cstack[n - 2].th = th /\ ~IsPcall(cstack[n - 2])
                                /\ h[n - 1] = h[n - 2]
  <2> SUFFICES ASSUME IsPcall(cstack[n - 1])
               PROVE  /\ 1 < n - 1 /\ cstack[n - 2].th = th /\ ~IsPcall(cstack[n - 2])
                      /\ h[n - 1] = h[n - 2]
    OBVIOUS
  <2>1. PieceAt(cstack, n - 1) /\ PlacedAt(ci, cstack, f, n - 1) /\ Level(cstack, f, h, n - 1)
    BY <1>4, <1>5
  <2>2. (n - 1) - 1 = n - 2
    BY <1>1
  <2>3. 1 < n - 1 /\ h[n - 1] = h[(n - 1) - 1]
    BY <2>1 DEF Level
  <2>4. ~IsResume(cstack[n - 1]) /\ ~IsCall(cstack[n - 1])
    BY DEF IsPcall, IsResume, IsCall
  <2>5. cstack[(n - 1) - 1].th = cstack[n - 1].th
    BY <2>1, <2>3, <2>4 DEF PieceAt
  <2>6. n - 2 \in DOMAIN cstack /\ (n - 2) + 1 = n - 1
    BY <1>1, <2>3
  <2>7. ~IsPcall(cstack[n - 2])
    BY <1>4, <2>4, <2>6 DEF PieceAt
  <2> QED
    BY <1>2, <2>2, <2>3, <2>5, <2>7
<1>7. q \in 1 .. n /\ q < n /\ cstack[q].th = th /\ ~IsPcall(cstack[q])
  BY <1>1, <1>2, <1>3, <1>5, <1>6
<1>8. \A k \in q + 1 .. n : k = n \/ (k = n - 1 /\ IsPcall(cstack[n - 1]))
  BY <1>1, <1>2, <1>3
<1>9. \A k \in q + 1 .. n : cstack[k].th = th
  BY <1>1, <1>2, <1>8
<1>10. Split(cstack, f, th, q, L - 2)
  <2> SUFFICES ASSUME NEW k \in DOMAIN cstack, cstack[k].th = th, IsCall(cstack[k])
               PROVE  IF k <= q THEN f[k] <= L - 2 ELSE (L - 2) + 2 <= f[k]
    BY DEF Split
  <2>1. CASE k <= q
    <3>1. Above(cstack, k, n)
      BY <1>1, <1>7, <2>1 DEF Above
    <3>2. f[k] + 2 <= f[n]
      BY <1>0, <1>1, <1>4, <3>1 DEF PlacedAt
    <3> QED
      BY <1>1, <1>2, <1>4, <2>1, <3>2
  <2>2. CASE ~(k <= q)
    <3>1. k \in q + 1 .. n
      BY <1>1, <1>7, <2>2
    <3>2. k = n
      BY <1>8, <3>1 DEF IsCall, IsPcall
    <3> QED
      BY <1>1, <1>2, <2>2, <3>2
  <2> QED
    BY <2>1, <2>2
<1>11. h[n] = IF cstack[n].allowyield THEN h[n - 1] ELSE h[n - 1] + 1
  BY <1>0, <1>1, <1>2, <1>4 DEF Level
<1>12. h[q] = h[n - 1] /\ h[n - 1] \in Nat
  <2>1. q = n - 1 \/ (q = n - 2 /\ IsPcall(cstack[n - 1]))
    BY <1>2, <1>3
  <2> QED
    BY <1>4, <1>5, <1>6, <2>1
<1>13. /\ h[q] = IF cstack[n].allowyield THEN h[n] ELSE h[n] - 1
       /\ h[q] \in Nat /\ h[q] <= h[n]
  BY <1>11, <1>12
<1> QED
  BY <1>7, <1>9, <1>10, <1>13 DEF q, n, L

(* What errfunc has been before the call that ends. *)
LEMMA EndHandler ==
  ASSUME DoInv, NEW th, RunningFacts(th), NEW f, NEW h, Known(f, h),
         ReturnsToC(th), IsCall(cstack[Len(cstack)]), th \notin stale \cup spoiled
  PROVE  LET s == ci[th]
             L == Len(s)
             d == s[L - 1]
         IN  /\ ~Protected(d) => errfunc[th] = HandlerAt(s, L - 2)
             /\ d.ypcall => d.olderr = HandlerAt(s, L - 2)
             /\ Protected(d) /\ ~d.ypcall => cstack[Len(cstack) - 1].errfunc = HandlerAt(s, L - 2)
<1> DEFINE s == ci[th]
           L == Len(s)
           d == s[L - 1]
           n == Len(cstack)
<1>1. /\ L \in Nat /\ DOMAIN s = 1 .. L /\ th \in LuaThreads /\ status[th] = "ok"
      /\ n \in Nat /\ DOMAIN cstack = 1 .. n
  BY DEF RunningFacts
<1>2. s[L].fn = "lua" /\ 2 < L
  BY ReturnsIs
<1>3. Handled(ci, cstack, status, errfunc, stale \cup spoiled)
  BY DEF DoInv
<1>4. ListHandled(s, errfunc[th])
  BY <1>1, <1>3 DEF Handled
<1>5. /\ 1 < n /\ cstack[n - 1].th = th
      /\ IsPcall(cstack[n - 1]) <=> Protected(d) /\ ~d.ypcall
      /\ IsPcall(cstack[n - 1]) => cstack[n - 1].ci = L - 1
  BY TopCalled
<1>6. n - 1 \in DOMAIN cstack
  BY <1>1, <1>5
<1>7. IsPcall(cstack[n - 1]) => cstack[n - 1].errfunc = HandlerAt(s, cstack[n - 1].ci - 1)
  BY <1>3, <1>5, <1>6 DEF Handled
<1> HIDE DEF n, L, s
<1>8. (L - 1) - 1 = L - 2 /\ L - 1 \in Nat /\ (L - 1) + 1 = L /\ L - 2 \in Nat /\ (L - 2) + 1 = L - 1
      /\ L - 1 \in DOMAIN s
  BY <1>1, <1>2
<1>9. errfunc[th] = HandlerAt(s, L) /\ (d.ypcall => d.olderr = HandlerAt(s, (L - 1) - 1))
  BY <1>4, <1>8 DEF ListHandled, L
<1>10. HandlerAt(s, L) = HandlerAt(s, L - 1)
  <2>1. ~Protected(s[L])
    BY <1>2 DEF Protected
  <2> QED
    BY <1>8, <2>1, HandlerNext
<1>11. ~Protected(d) => HandlerAt(s, L - 1) = HandlerAt(s, L - 2)
  BY <1>8, HandlerNext
<1> HIDE DEF d
<1>12. /\ ~Protected(d) => errfunc[th] = HandlerAt(s, L - 2)
       /\ d.ypcall => d.olderr = HandlerAt(s, L - 2)
       /\ Protected(d) /\ ~d.ypcall => cstack[n - 1].errfunc = HandlerAt(s, L - 2)
  BY <1>5, <1>7, <1>8, <1>9, <1>10, <1>11
<1> QED
  BY <1>12 DEF d, L, s, n

LEMMA CutPrefix ==
  ASSUME NEW T, NEW S \in Seq(T), NEW S2, NEW n \in 1 .. Len(S), CutTo(T, S, S2, n)
  PROVE  Prefix(S2, S, n) /\ S2 \in Seq(T)
BY DEF CutTo, Prefix

LEMMA EndReturn ==
  ASSUME DoInv, FewFrames, NEW th, th = running, ReturnsToC(th), TopOf(cstack).c = "call",
         Put(th, EndOfCall(Popped(Now(th)))), UNCHANGED <<status, has, spoiled, escaped>>
  PROVE  DoInv'
<1> DEFINE s == ci[th]
           L == Len(s)
           d == s[L - 1]
           n == Len(cstack)
           q == EndsAt(th)
           r == EndOfCall(Popped(Now(th)))
<1>1. RunningFacts(th)
  BY RunningIs
<1>2. /\ th \in LuaThreads /\ s \in Seq(FrameType) /\ s # <<>> /\ L \in Nat /\ DOMAIN s = 1 .. L
      /\ cstack \in Seq(EntryType) /\ cstack # <<>> /\ status[th] = "ok" /\ cstack[n] \in EntryType
      /\ n \in Nat /\ n \in DOMAIN cstack /\ DOMAIN cstack = 1 .. n /\ cstack[n].th = th
  BY <1>1 DEF RunningFacts
<1>3. DoTypeOK /\ StackRight(ci, cstack, status, nny, spoiled) /\ escaped \subseteq spoiled
  BY DEF DoInv
<1>4. nny[th] \in Int /\ nCcalls[th] \in Int /\ errfunc[th] \in Nat /\ status \in Statuses
  BY <1>2, <1>3 DEF DoTypeOK, Counters
<1>5. /\ s[L].fn = "lua" /\ s[L].fresh /\ IsC(d) /\ 2 < L /\ s[L - 2].fn = "lua"
  BY <1>1, ReturnsIs
<1>6. PICK f, h \in [DOMAIN cstack -> Nat] :
        /\ Placed(ci, cstack, f) /\ Counts(cstack, nny, spoiled, f, h)
        /\ Returned(ci, cstack, status, spoiled, f)
  BY <1>3 DEF StackRight
<1>7. Known(f, h)
  BY <1>6 DEF Known
<1>8. IsCall(cstack[n])
  BY DEF IsCall, TopOf
<1>9. /\ q \in 1 .. n /\ q < n /\ cstack[q].th = th /\ ~IsPcall(cstack[q])
      /\ \A k \in q + 1 .. n : cstack[k].th = th
      /\ Split(cstack, f, th, q, L - 2)
      /\ h[q] = IF cstack[n].allowyield THEN h[n] ELSE h[n] - 1
      /\ h[q] \in Nat /\ h[q] <= h[n]
  BY <1>1, <1>7, <1>8, EndCuts
<1>10. /\ 1 < n
       /\ IsPcall(cstack[n - 1]) <=> Protected(d) /\ ~d.ypcall
  BY <1>1, <1>7, <1>8, TopCalled
<1>11. th \notin stale \cup spoiled =>
         /\ ~Protected(d) => errfunc[th] = HandlerAt(s, L - 2)
         /\ d.ypcall => d.olderr = HandlerAt(s, L - 2)
         /\ Protected(d) /\ ~d.ypcall => cstack[n - 1].errfunc = HandlerAt(s, L - 2)
  BY <1>1, <1>7, <1>8, EndHandler
<1>12. h[n] \in Nat /\ h[n] <= L + 1 /\ (th \notin spoiled => nny[th] = h[n])
  BY <1>1, <1>6, TopLevel
<1>13. /\ CutTo(FrameType, s, Below(Below(s)), L - 2) /\ TopOf(Below(s)) = d
  BY <1>2, <1>5, BelowTwo
<1>14. CutTo(EntryType, cstack, Below(cstack), n - 1)
  BY <1>2, BelowIs
<1>15. CutTo(EntryType, cstack, Below(Below(cstack)), n - 2) /\ TopOf(Below(cstack)) = cstack[n - 1]
  BY <1>2, <1>10, BelowTwo
<1>16. /\ r.ci = Below(Below(s)) /\ r.stale = stale
       /\ r.nny = IF cstack[n].allowyield THEN nny[th] ELSE nny[th] - 1
       /\ ~Protected(d) => /\ r.cstack = Below(cstack) /\ r.err = errfunc[th]
                           /\ r.calls = nCcalls[th] - 1
       /\ Protected(d) /\ d.ypcall => /\ r.cstack = Below(cstack) /\ r.err = d.olderr
                                      /\ r.calls = nCcalls[th] - 1
       /\ Protected(d) /\ ~d.ypcall => /\ r.cstack = Below(Below(cstack))
                                       /\ r.err = cstack[n - 1].errfunc /\ r.calls = cstack[n - 1].calls
  <2>1. TopOf(cstack) = cstack[n]
    BY DEF TopOf
  <2> QED
    BY <1>13, <1>15, <2>1, EndedIs
<1>17. Put(th, r) /\ status' = status /\ spoiled' = spoiled /\ escaped' = escaped
  OBVIOUS
<1>18. q = IF Protected(d) /\ ~d.ypcall THEN n - 2 ELSE n - 1
  BY DEF EndsAt
<1>19. d \in FrameType /\ cstack[n - 1] \in EntryType
  <2>1. L - 1 \in DOMAIN s /\ n - 1 \in DOMAIN cstack
    BY <1>2, <1>5, <1>10
  <2> QED
    BY <1>2, <2>1
<1>20. d.olderr \in Nat
  BY <1>19 DEF FrameType
<1>21. IsPcall(cstack[n - 1]) => cstack[n - 1].errfunc \in Nat /\ cstack[n - 1].calls \in Int
  BY <1>19 DEF EntryType, CallType, RunType, IsPcall
<1> HIDE DEF r, q, d, n, L, s
<1>22. CutTo(EntryType, cstack, r.cstack, q)
  BY <1>14, <1>15, <1>16, <1>18
<1>23. r.err \in Nat /\ r.calls \in Int
  BY <1>4, <1>10, <1>16, <1>20, <1>21
<1>24. CutTo(FrameType, s, r.ci, L - 2)
  BY <1>13, <1>16
<1>25. Prefix(r.cstack, cstack, q) /\ r.cstack \in Seq(EntryType)
  BY <1>2, <1>9, <1>22, CutPrefix DEF n
<1>26. PutRight(r)
  BY <1>4, <1>16, <1>23, <1>24, <1>25 DEF PutRight, CutTo
<1>27. th \notin r.stale \cup spoiled => r.err = HandlerAt(s, L - 2)
  BY <1>11, <1>16
<1>28. CutRight(th, r, L - 2)
  <2>1. status'[th] = "ok" /\ (0 < L - 2 => s[L - 2].fn = "lua")
    BY <1>2, <1>5, <1>17
  <2> QED
    BY <1>3, <1>4, <1>16, <1>17, <1>24, <1>26, <1>27, <2>1 DEF CutRight, s
<1>29. th \notin spoiled => ushort(r.nny) = h[q]
  <2> SUFFICES ASSUME th \notin spoiled PROVE ushort(r.nny) = h[q]
    OBVIOUS
  <2>1. r.nny = h[q]
    BY <1>9, <1>12, <1>16
  <2>2. h[q] <= Len(ci[th]) + 1
    BY <1>2, <1>9, <1>12 DEF L, s
  <2> QED
    BY <1>1, <1>9, <2>1, <2>2, NnySmall
<1>30. Unwound(th, r, q, L - 2, f, h)
  <2>1. status'[th] = "ok" /\ 0 < L - 2
    BY <1>2, <1>5, <1>17
  <2> QED
    BY <1>9, <1>25, <1>29, <2>1 DEF Unwound, n
<1> QED
  BY <1>1, <1>7, <1>28, <1>30, UnwoundStep DEF s, L

(* A coroutine is begun by a resume, below which the C stack is of other threads. *)
LEMMA ResumedTop ==
  ASSUME DoInv, NEW th, RunningFacts(th), TopOf(cstack).c # "call"
  PROVE  LET n == Len(cstack)
         IN  /\ IsResume(cstack[n]) /\ 1 < n /\ n - 1 \in 1 .. n /\ cstack[n] \in RunType
             /\ cstack[n - 1].th # th /\ ~IsPcall(cstack[n - 1])
             /\ \A k \in DOMAIN cstack : cstack[k].th = th => k = n
<1> DEFINE n == Len(cstack)
<1>1. /\ n \in Nat /\ n \in DOMAIN cstack /\ DOMAIN cstack = 1 .. n /\ cstack[n].th = th
      /\ cstack[n] \in EntryType /\ ~IsPcall(cstack[n]) /\ TopOf(cstack) = cstack[n]
  BY DEF RunningFacts, TopOf
<1>2. /\ cstack[1] = CallEntry(MainThread, FALSE)
      /\ \A i \in DOMAIN cstack : PieceAt(cstack, i)
  BY DEF DoInv, StackRight, Pieces
<1>3. cstack[n].c # "call"
  BY <1>1
<1> HIDE DEF n
<1>4. cstack[n] \in RunType /\ IsResume(cstack[n])
  BY <1>1, <1>3 DEF EntryType, CallType, RunType, IsPcall, IsResume
<1>5. n # 1
  BY <1>2, <1>3 DEF CallEntry
<1>6. 1 < n /\ n - 1 \in 1 .. n /\ n - 1 \in 1 .. n - 1 /\ (n - 1) + 1 = n
  BY <1>1, <1>5
<1>7. \A k \in 1 .. n - 1 : cstack[k].th # th
  BY <1>1, <1>2, <1>4 DEF PieceAt
<1>8. ~IsPcall(cstack[n - 1])
  <2>1. PieceAt(cstack, n - 1)
    BY <1>1, <1>2, <1>6
  <2>2. ~IsCall(cstack[n])
    BY <1>3 DEF IsCall
  <2> QED
    BY <1>6, <2>1, <2>2 DEF PieceAt
<1>9. \A k \in DOMAIN cstack : cstack[k].th = th => k = n
  BY <1>1, <1>7
<1> QED
  BY <1>4, <1>6, <1>7, <1>8, <1>9 DEF n

LastRecord(th) ==
  [Popped(Now(th)) EXCEPT !.cstack = Below(@), !.nny = 1, !.calls = TopOf(cstack).calls - 1]

LEMMA LastRecordIs ==
  ASSUME NEW th
  PROVE  LET r == LastRecord(th)
         IN  /\ r.ci = Below(ci[th]) /\ r.cstack = Below(cstack) /\ r.nny = 1
             /\ r.calls = TopOf(cstack).calls - 1 /\ r.err = errfunc[th] /\ r.stale = stale
BY DEF LastRecord, Popped, Now

LEMMA LastReturn ==
  ASSUME DoInv, FewFrames, NEW th, th = running, ReturnsLast(th), TopOf(cstack).c # "call",
         Put(th, LastRecord(th)), UNCHANGED <<status, spoiled, escaped>>
  PROVE  DoInv'
<1> DEFINE s == ci[th]
           n == Len(cstack)
           r == LastRecord(th)
<1>1. RunningFacts(th)
  BY RunningIs
<1>2. /\ th \in LuaThreads /\ s \in Seq(FrameType) /\ s # <<>> /\ DOMAIN s = 1 .. Len(s)
      /\ cstack \in Seq(EntryType) /\ cstack # <<>> /\ status[th] = "ok" /\ cstack[n] \in EntryType
      /\ n \in Nat /\ n \in DOMAIN cstack /\ DOMAIN cstack = 1 .. n /\ cstack[n].th = th
  BY <1>1 DEF RunningFacts
<1>3. DoTypeOK /\ StackRight(ci, cstack, status, nny, spoiled) /\ escaped \subseteq spoiled
  BY DEF DoInv
<1>4. errfunc[th] \in Nat /\ status \in Statuses
  BY <1>2, <1>3 DEF DoTypeOK
<1>5. Len(s) = 1 /\ s[1].fn = "lua"
  BY <1>1, ReturnsIs
<1>6. PICK f, h \in [DOMAIN cstack -> Nat] :
        /\ Placed(ci, cstack, f) /\ Counts(cstack, nny, spoiled, f, h)
        /\ Returned(ci, cstack, status, spoiled, f)
  BY <1>3 DEF StackRight
<1>7. Known(f, h)
  BY <1>6 DEF Known
<1>8. /\ IsResume(cstack[n]) /\ 1 < n /\ n - 1 \in 1 .. n /\ cstack[n] \in RunType
      /\ cstack[n - 1].th # th /\ ~IsPcall(cstack[n - 1])
      /\ \A k \in DOMAIN cstack : cstack[k].th = th => k = n
  BY <1>1, ResumedTop
<1>9. /\ r.ci = Below(s) /\ r.cstack = Below(cstack) /\ r.nny = 1
      /\ r.calls = cstack[n].calls - 1 /\ r.err = errfunc[th] /\ r.stale = stale
  BY LastRecordIs DEF TopOf
<1>10. Put(th, r) /\ status' = status /\ spoiled' = spoiled /\ escaped' = escaped
  OBVIOUS
<1>11. CutTo(FrameType, s, Below(s), 0)
  <2>1. CutTo(FrameType, s, Below(s), Len(s) - 1)
    BY <1>2, BelowIs
  <2>2. Len(s) - 1 = 0
    BY <1>5
  <2> QED
    BY <2>1, <2>2
<1>12. CutTo(EntryType, cstack, Below(cstack), n - 1)
  BY <1>2, BelowIs
<1>13. th \notin stale \cup spoiled => errfunc[th] = HandlerAt(s, 0)
  <2> SUFFICES ASSUME th \notin stale \cup spoiled PROVE errfunc[th] = HandlerAt(s, 0)
    OBVIOUS
  <2>1. Handled(ci, cstack, status, errfunc, stale \cup spoiled)
    BY DEF DoInv
  <2>2. errfunc[th] = HandlerAt(s, 1)
    BY <1>2, <1>5, <2>1 DEF Handled, ListHandled
  <2>3. ~Protected(s[0 + 1]) /\ 0 + 1 = 1 /\ 0 \in Nat
    BY <1>5 DEF Protected
  <2>4. HandlerAt(s, 0 + 1) = HandlerAt(s, 0)
    BY <2>3, HandlerNext
  <2> QED
    BY <2>2, <2>3, <2>4
<1>14. cstack[n].calls - 1 \in Int
  <2>1. cstack[n].calls \in Int
    BY <1>8 DEF RunType
  <2> QED
    BY <2>1
<1> HIDE DEF r, n, s
<1>15. CutTo(FrameType, s, r.ci, 0)
  BY <1>9, <1>11
<1>16. Prefix(r.cstack, cstack, n - 1) /\ r.cstack \in Seq(EntryType)
  BY <1>2, <1>8, <1>9, <1>12, CutPrefix DEF n
<1>17. PutRight(r)
  BY <1>4, <1>9, <1>14, <1>15, <1>16 DEF PutRight, CutTo
<1>18. CutRight(th, r, 0)
  <2>1. status'[th] = "ok"
    BY <1>2, <1>10
  <2> QED
    BY <1>3, <1>4, <1>9, <1>10, <1>13, <1>15, <1>17, <2>1 DEF CutRight, s
<1>19. Unwound(th, r, n - 1, 0, f, h)
  <2>1. \A k \in DOMAIN cstack : cstack[k].th = th => ~IsCall(cstack[k])
    BY <1>8 DEF IsCall, IsResume
  <2>2. Split(cstack, f, th, n - 1, 0)
    BY <2>1 DEF Split
  <2>3. \A k \in (n - 1) + 1 .. n : cstack[k].th = th
    BY <1>2
  <2> QED
    BY <1>8, <1>16, <2>2, <2>3 DEF Unwound, n
<1> QED
  BY <1>1, <1>7, <1>18, <1>19, UnwoundStep DEF s

LEMMA ReturnStep ==
  ASSUME DoInv, FewFrames, NEW th, th = running, Return(th)
  PROVE  DoInv'
<1> DEFINE r == Popped(Now(th))
<1>1. InLua(th) /\ UNCHANGED <<spoiled, escaped>>
  BY DEF Return
<1>2. \/ ~TopOf(ci[th]).fresh /\ Put(th, r) /\ UNCHANGED <<status, has>>
      \/ /\ TopOf(ci[th]).fresh /\ TopOf(cstack).c = "call" /\ r.ci # <<>>
         /\ Put(th, EndOfCall(r)) /\ UNCHANGED <<status, has>>
      \/ /\ TopOf(ci[th]).fresh /\ TopOf(cstack).c # "call" /\ r.ci # <<>>
         /\ Put(th, finishCcall(th, r)) /\ UNCHANGED <<status, has>>
      \/ /\ TopOf(ci[th]).fresh /\ TopOf(cstack).c # "call" /\ r.ci = <<>>
         /\ Put(th, LastRecord(th)) /\ UNCHANGED status
  BY DEF Return, LastRecord
<1>3. r.ci = Below(ci[th])
  BY PoppedIs
<1>4. UNCHANGED <<status, has>> => UNCHANGED <<status, has, spoiled, escaped>>
  BY <1>1
<1>5. UNCHANGED status => UNCHANGED <<status, spoiled, escaped>>
  BY <1>1
<1>6. CASE ~TopOf(ci[th]).fresh /\ Put(th, r) /\ UNCHANGED <<status, has>>
  BY <1>1, <1>4, <1>6, PlainReturn
<1>7. CASE /\ TopOf(ci[th]).fresh /\ TopOf(cstack).c = "call" /\ r.ci # <<>>
           /\ Put(th, EndOfCall(r)) /\ UNCHANGED <<status, has>>
  <2>1. ReturnsToC(th)
    BY <1>1, <1>3, <1>7 DEF ReturnsToC
  <2> QED
    BY <1>4, <1>7, <2>1, EndReturn
<1>8. CASE /\ TopOf(ci[th]).fresh /\ TopOf(cstack).c # "call" /\ r.ci # <<>>
           /\ Put(th, finishCcall(th, r)) /\ UNCHANGED <<status, has>>
  <2>1. ReturnsToC(th)
    BY <1>1, <1>3, <1>8 DEF ReturnsToC
  <2> QED
    BY <1>4, <1>8, <2>1, FinishReturn
<1>9. CASE /\ TopOf(ci[th]).fresh /\ TopOf(cstack).c # "call" /\ r.ci = <<>>
           /\ Put(th, LastRecord(th)) /\ UNCHANGED status
  <2>1. ReturnsLast(th)
    BY <1>1, <1>3, <1>9 DEF ReturnsLast
  <2> QED
    BY <1>5, <1>9, <2>1, LastReturn
<1> QED
  BY <1>2, <1>6, <1>7, <1>8, <1>9

-----------------------------------------------------------------------------
(* Errors and yields cut the C stack at the last setjmp of the thread. *)
LEMMA CallLevel ==
  ASSUME DoInv, NEW th, RunningFacts(th), NEW f, NEW h, Known(f, h),
         NEW k \in DOMAIN cstack, 1 < k, cstack[k].th = th, IsCall(cstack[k])
  PROVE  LET s == ci[th]
             d == s[f[k] - 1]
         IN  /\ f[k] \in DOMAIN s /\ 1 < f[k] /\ s[f[k]].fn = "lua" /\ h[k] \in Nat
             /\ ~d.ypcall => 1 <= h[k]
             /\ d.ypcall /\ th \notin spoiled => h[k] = 0
             /\ IsPcall(cstack[k - 1]) => ~d.ypcall /\ cstack[k - 1].ci = f[k] - 1
             /\ Protected(d) /\ ~d.ypcall => IsPcall(cstack[k - 1])
<1> DEFINE s == ci[th]
           d == s[f[k] - 1]
<1>1. /\ PlacedAt(ci, cstack, f, k) /\ Level(cstack, f, h, k)
      /\ th \notin spoiled => Trusted(cstack, nny, h, k)
      /\ h[k] \in Nat
  BY DEF Known, Placed, Counts
<1>2. CallPlaced(s, cstack, f, k)
  BY <1>1 DEF PlacedAt
<1>3. h[k - 1] \in Nat
  <2>1. k - 1 \in DOMAIN cstack
    BY DEF RunningFacts
  <2> QED
    BY <2>1 DEF Known
<1> HIDE DEF s
<1>4. /\ f[k] \in DOMAIN s /\ 1 < f[k] /\ s[f[k]].fn = "lua" /\ cstack[k].allowyield = d.ypcall
      /\ IsPcall(cstack[k - 1]) <=> Protected(d) /\ ~d.ypcall
      /\ IsPcall(cstack[k - 1]) => cstack[k - 1].ci = f[k] - 1
  BY <1>2 DEF CallPlaced
<1> HIDE DEF d
<1>5. h[k] = IF d.ypcall THEN h[k - 1] ELSE h[k - 1] + 1
  BY <1>1, <1>4 DEF Level
<1>6. d.ypcall /\ th \notin spoiled => h[k] = 0
  BY <1>1, <1>4 DEF Trusted
<1>7. ~d.ypcall => 1 <= h[k]
  BY <1>3, <1>5
<1> QED
  BY <1>1, <1>4, <1>6, <1>7 DEF s, d

(* A protected call below one that allows yields does so as well. *)
LEMMA LevelsRise ==
  ASSUME DoInv, NEW th, RunningFacts(th), th \notin spoiled, NEW f, NEW h, Known(f, h),
         NEW k \in DOMAIN cstack, 1 < k, cstack[k].th = th, IsCall(cstack[k]),
         NEW j \in DOMAIN ci[th], IsC(ci[th][j]), ci[th][j].ypcall, f[k] < j
  PROVE  ci[th][f[k] - 1].ypcall
<1>1. Matched(ci[th], cstack, f, k)
  BY DEF Known, Placed, PlacedAt
<1>2. PICK l \in DOMAIN cstack : Above(cstack, k, l) /\ IsCall(cstack[l]) /\ f[l] = j + 1
  BY <1>1 DEF Matched
<1>3. 1 < l /\ cstack[l].th = th /\ j \in Nat
  BY <1>2 DEF Above, RunningFacts
<1>4. ci[th][f[l] - 1].ypcall
  <2>1. f[l] - 1 = j
    BY <1>2, <1>3
  <2> QED
    BY <2>1
<1>5. h[l] = 0
  BY <1>2, <1>3, <1>4, CallLevel
<1>6. h[k] <= h[l] /\ h[k] \in Nat
  <2>1. Level(cstack, f, h, k)
    BY DEF Known, Counts
  <2> QED
    BY <1>2, <2>1 DEF Level, Known
<1>7. ~(1 <= h[k])
  BY <1>5, <1>6
<1> QED
  BY <1>7, CallLevel

(* A C function that noted no continuation has its call on the C stack. *)
LEMMA CallOf ==
  ASSUME DoInv, NEW th, RunningFacts(th), th \notin spoiled, NEW f, NEW h, Known(f, h),
         NEW r, RunFacts(cstack, r, th), IsResume(cstack[r]),
         NEW j \in DOMAIN ci[th], IsC(ci[th][j]), ~ci[th][j].ypcall
  PROVE  \E k \in r + 1 .. Len(cstack) :
           /\ k \in DOMAIN cstack /\ 1 < k /\ cstack[k].th = th /\ IsCall(cstack[k])
           /\ f[k] = j + 1 /\ f[k] - 1 = j /\ ~IsPcall(cstack[k - 1])
<1>1. th \in LuaThreads \ spoiled /\ status[th] # "error"
  BY DEF RunningFacts
<1>2. PICK k \in DOMAIN cstack : cstack[k].th = th /\ IsCall(cstack[k]) /\ f[k] = j + 1
  BY <1>1 DEF Known, Returned
<1>3. /\ r \in 2 .. Len(cstack) /\ cstack[r].c = "run"
      /\ \A l \in r + 1 .. Len(cstack) : IsCall(cstack[l])
      /\ \A l \in 1 .. r - 1 : cstack[l].th # th
  BY DEF RunFacts
<1>4. DOMAIN cstack = 1 .. Len(cstack) /\ Len(cstack) \in Nat
      /\ DOMAIN ci[th] = 1 .. Len(ci[th]) /\ Len(ci[th]) \in Nat
  BY DEF RunningFacts
<1>5. k # r
  BY <1>2, <1>3 DEF IsCall
<1>6. k \in r + 1 .. Len(cstack) /\ 1 < k
  BY <1>2, <1>3, <1>4, <1>5
<1>7. f[k] - 1 = j
  BY <1>2, <1>4
<1>8. ~IsPcall(cstack[k - 1])
  <2>1. k - 1 = r \/ k - 1 \in r + 1 .. Len(cstack)
    BY <1>3, <1>4, <1>6
  <2> QED
    BY <1>3, <2>1 DEF IsPcall, IsResume, IsCall
<1> QED
  BY <1>2, <1>6, <1>7, <1>8

LEMMA ResumeShields ==
  ASSUME DoInv, NEW th, RunningFacts(th), th \notin spoiled, NEW f, NEW h, Known(f, h),
         NEW r, RunFacts(cstack, r, th), IsResume(cstack[r]),
         NEW j \in DOMAIN ci[th], Protected(ci[th][j])
  PROVE  ci[th][j].ypcall
<1> SUFFICES ASSUME ~ci[th][j].ypcall PROVE FALSE
  OBVIOUS
<1>1. IsC(ci[th][j])
  BY DEF IsC, Protected
<1>2. PICK k \in DOMAIN cstack :
        /\ 1 < k /\ cstack[k].th = th /\ IsCall(cstack[k])
        /\ f[k] - 1 = j /\ ~IsPcall(cstack[k - 1])
  BY <1>1, CallOf
<1> QED
  BY <1>2, CallLevel

LEMMA EmptyStack ==
  ASSUME DoInv, NEW th, RunningFacts(th), NEW r, RunFacts(cstack, r, th), IsResume(cstack[r]),
         NEW S2, CutTo(EntryType, cstack, S2, r - 1),
         NEW C2, C2[th] = <<>>, \A t \in LuaThreads : t # th => C2[t] = ci[t]
  PROVE  /\ StackRight(C2, S2, status, nny, spoiled) /\ Prefix(S2, cstack, r - 1)
         /\ \A k \in DOMAIN S2 : S2[k].th # th /\ S2[k].th \in LuaThreads
<1> DEFINE n == r - 1
<1>1. /\ th \in LuaThreads /\ cstack[Len(cstack)].th = th /\ DOMAIN cstack = 1 .. Len(cstack)
      /\ \A i \in DOMAIN cstack : cstack[i].th \in LuaThreads
      /\ cstack \in Seq(EntryType) /\ Len(cstack) \in Nat
      /\ DOMAIN ci[th] = 1 .. Len(ci[th]) /\ Len(ci[th]) \in Nat
  BY DEF RunningFacts
<1>2. /\ r \in 2 .. Len(cstack) /\ \A k \in r .. Len(cstack) : cstack[k].th = th
      /\ \A k \in 1 .. r - 1 : cstack[k].th # th
      /\ ~IsPcall(cstack[r - 1])
  BY DEF RunFacts
<1>3. n \in 1 .. Len(cstack) /\ n + 1 = r /\ n \in Nat
  BY <1>1, <1>2
<1>4. Prefix(S2, cstack, n)
  BY <1>1, <1>3, CutPrefix
<1>5. DOMAIN S2 = 1 .. n /\ \A i \in 1 .. n : S2[i] = cstack[i]
  BY <1>4 DEF Prefix
<1>6. PICK f, h \in [DOMAIN cstack -> Nat] :
        /\ Placed(ci, cstack, f) /\ Counts(cstack, nny, spoiled, f, h)
        /\ Returned(ci, cstack, status, spoiled, f)
  BY DEF DoInv, StackRight
<1> DEFINE f2 == [k \in 1 .. n |-> f[k]]
           h2 == [k \in 1 .. n |-> h[k]]
<1>7. f2 = [k \in 1 .. n |-> f[k]] /\ h2 = [k \in 1 .. n |-> h[k]]
  OBVIOUS
<1> HIDE DEF f2, h2
<1>8. Pieces(cstack) /\ Alive(ci, cstack, status)
  BY DEF DoInv, StackRight
<1>9. Split(cstack, f, th, n, 0)
  <2> SUFFICES ASSUME NEW k \in DOMAIN cstack, cstack[k].th = th, IsCall(cstack[k])
               PROVE  n < k /\ 0 + 2 <= f[k]
    BY <1>1, <1>3 DEF Split
  <2>1. k \in Nat /\ 1 <= k /\ ~(k \in 1 .. n)
    BY <1>1, <1>2, <1>3
  <2>2. n < k /\ 1 < k
    BY <1>3, <2>1
  <2>3. CallPlaced(ci[th], cstack, f, k)
    BY <1>6 DEF Placed, PlacedAt
  <2>4. 1 < f[k] /\ f[k] \in Nat
    BY <1>6, <2>2, <2>3 DEF CallPlaced
  <2> QED
    BY <2>2, <2>4
<1>10. Trimmed(ci[th], C2[th], 0)
  <2>1. DOMAIN C2[th] = 1 .. Len(C2[th]) /\ Len(C2[th]) = 0
    OBVIOUS
  <2>2. \A j \in 1 .. 0 : FALSE
    OBVIOUS
  <2>3. 0 \in 0 .. Len(ci[th]) /\ 0 <= Len(C2[th]) /\ Len(C2[th]) \in Nat
    BY <1>1, <2>1
  <2>4. \A j \in DOMAIN C2[th] : FALSE
    BY <2>1
  <2> QED
    BY <1>1, <2>1, <2>2, <2>3, <2>4 DEF Trimmed
<1>11. cstack[n].th # th
  BY <1>2, <1>3
<1>12. \A j \in 1 .. 0 : IsC(ci[th][j]) => ci[th][j].ypcall
  OBVIOUS
<1> HIDE DEF n
<1>13. \A k \in n + 1 .. Len(cstack) : cstack[k].th = th
  BY <1>2, <1>3
<1>14. ~IsPcall(cstack[n])
  BY <1>2 DEF n
<1>15. CutBy(cstack, S2, n, th, 0, ci, C2, nny, nny, status, status, spoiled, f, h, f2, h2)
  BY <1>1, <1>4, <1>6, <1>7, <1>8, <1>9, <1>10, <1>11, <1>12, <1>13, <1>14 DEF CutBy
<1>16. StackRight(C2, S2, status, nny, spoiled)
  BY <1>15, CutStack
<1>17. \A k \in DOMAIN S2 : S2[k].th # th /\ S2[k].th \in LuaThreads
  BY <1>1, <1>2, <1>3, <1>5 DEF n
<1> QED
  BY <1>4, <1>16, <1>17 DEF n

(* What an error makes of the thread: of the three ends that ErrorIn has, the first. *)
CutHere(th) == SubSeq(cstack, 1, LastRun(th) - 1)

ThrownTo(th) == [Now(th) EXCEPT !.cstack = CutHere(th), !.calls = cstack[LastRun(th)].calls]

CaughtRecord(th) ==
  LET run == cstack[LastRun(th)]
  IN  [ThrownTo(th) EXCEPT !.ci = SubSeq(@, 1, run.ci - 1), !.nny = run.nny, !.err = run.errfunc]

EscapedIs(th, caught) ==
  escaped' = IF caught = (IF Shields(th) = {} THEN {} ELSE {Last(Shields(th))})
             THEN escaped ELSE escaped \cup {th}

LEMMA CaughtRecordIs ==
  ASSUME NEW th
  PROVE  LET r == CaughtRecord(th)
             run == cstack[LastRun(th)]
         IN  /\ r.ci = SubSeq(ci[th], 1, run.ci - 1) /\ r.cstack = CutHere(th) /\ r.nny = run.nny
             /\ r.calls = run.calls /\ r.err = run.errfunc /\ r.stale = stale
BY DEF CaughtRecord, ThrownTo, Now

LEMMA ErrorRun ==
  ASSUME DoInv, NEW th, th = running, HasRun(th)
  PROVE  /\ RunFacts(cstack, LastRun(th), th) /\ cstack[LastRun(th)] \in RunType
         /\ CutTo(EntryType, cstack, CutHere(th), LastRun(th) - 1)
         /\ LastRun(th) - 1 \in 1 .. Len(cstack) /\ LastRun(th) \in DOMAIN cstack
         /\ LastRun(th) \in Nat
<1> DEFINE r == LastRun(th)
<1>1. RunFacts(cstack, r, th) /\ cstack \in Seq(EntryType)
  BY LastRunIs DEF DoInv, StackRight, DoTypeOK
<1> HIDE DEF r
<1>2. r \in 2 .. Len(cstack) /\ cstack[r].c = "run"
  BY <1>1 DEF RunFacts
<1>3. DOMAIN cstack = 1 .. Len(cstack) /\ Len(cstack) \in Nat
  BY <1>1
<1>4. /\ r - 1 \in 1 .. Len(cstack) /\ r \in DOMAIN cstack /\ r - 1 \in 0 .. Len(cstack)
      /\ r \in Nat
  BY <1>2, <1>3
<1>5. cstack[r] \in RunType
  <2>1. cstack[r] \in EntryType
    BY <1>1, <1>4
  <2> QED
    BY <1>2, <2>1 DEF EntryType, CallType, RunType
<1>6. CutTo(EntryType, cstack, SubSeq(cstack, 1, r - 1), r - 1)
  BY <1>1, <1>4, CutToIs
<1> QED
  BY <1>1, <1>4, <1>5, <1>6 DEF r, CutHere

(* The protected call of a setjmp is the one furthest in. *)
LEMMA PcallFurthest ==
  ASSUME DoInv, NEW th, RunningFacts(th), NEW f, NEW h, Known(f, h),
         NEW r, RunFacts(cstack, r, th), IsPcall(cstack[r])
  PROVE  LET p == cstack[r].ci
             s == ci[th]
         IN  /\ p \in DOMAIN s /\ f[r + 1] = p + 1 /\ Protected(s[p]) /\ ~s[p].ypcall
             /\ 1 < p /\ s[p - 1].fn = "lua"
             /\ th \notin spoiled => \A j \in DOMAIN s : Protected(s[j]) => j <= p
<1> DEFINE p == cstack[r].ci
           s == ci[th]
<1>1. /\ DOMAIN cstack = 1 .. Len(cstack) /\ Len(cstack) \in Nat /\ cstack \in Seq(EntryType)
      /\ DOMAIN s = 1 .. Len(s) /\ Len(s) \in Nat /\ ListRight(s)
  BY DEF RunningFacts
<1>2. /\ r \in 2 .. Len(cstack) /\ r < Len(cstack) /\ cstack[r].th = th
      /\ \A l \in r .. Len(cstack) : cstack[l].th = th
      /\ \A l \in r + 1 .. Len(cstack) : IsCall(cstack[l])
  BY DEF RunFacts
<1>3. PcallAt(ci, cstack, f, r)
  <2>1. r \in DOMAIN cstack /\ Pieces(cstack)
    BY <1>1, <1>2 DEF DoInv, StackRight
  <2> QED
    BY <1>1, <2>1 DEF PcallAt, Known
<1>4. /\ r + 1 \in DOMAIN cstack /\ IsCall(cstack[r + 1]) /\ cstack[r + 1].th = th
      /\ f[r + 1] \in DOMAIN s /\ p = f[r + 1] - 1
      /\ Protected(s[f[r + 1] - 1]) /\ ~s[f[r + 1] - 1].ypcall /\ 1 < f[r + 1]
  BY <1>2, <1>3, PcallIs
<1>5. 1 < r + 1 /\ r \in Nat
  BY <1>1, <1>2
<1>6. s[f[r + 1]].fn = "lua" /\ h[r + 1] \in Nat /\ 1 <= h[r + 1]
  BY <1>4, <1>5, CallLevel
<1> HIDE DEF p, s
<1>7. p \in DOMAIN s /\ f[r + 1] = p + 1 /\ Protected(s[p]) /\ ~s[p].ypcall
  BY <1>1, <1>4
<1>8. 1 < p /\ s[p - 1].fn = "lua"
  <2>1. FrameRight(s, p) /\ IsC(s[p])
    BY <1>1, <1>7 DEF ListRight, IsC, Protected
  <2> QED
    BY <2>1 DEF FrameRight
<1>9. ASSUME th \notin spoiled, NEW j \in DOMAIN s, Protected(s[j]), p < j PROVE FALSE
  <2>1. IsC(s[j]) /\ s[j].fn # "lua"
    BY <1>9 DEF IsC, Protected
  <2>2. f[r + 1] < j
    <3>1. j # f[r + 1]
      BY <1>6, <2>1
    <3> QED
      BY <1>1, <1>7, <1>9, <3>1
  <2>3. Matched(s, cstack, f, r + 1)
    BY <1>4 DEF Known, Placed, PlacedAt, s
  <2>4. PICK k \in DOMAIN cstack : Above(cstack, r + 1, k) /\ IsCall(cstack[k]) /\ f[k] = j + 1
    BY <1>9, <2>1, <2>2, <2>3 DEF Matched
  <2>5. r + 1 < k /\ cstack[k].th = th /\ 1 < k /\ k - 1 \in r + 1 .. Len(cstack)
    BY <1>1, <1>4, <1>5, <2>4 DEF Above
  <2>6. ~IsPcall(cstack[k - 1])
    BY <1>2, <2>5 DEF IsCall, IsPcall
  <2>7. f[k] - 1 = j
    BY <1>1, <1>9, <2>4
  <2>8. h[k] = 0
    <3>1. Protected(ci[th][f[k] - 1])
      BY <1>9, <2>7 DEF s
    <3> QED
      BY <1>9, <2>4, <2>5, <2>6, <3>1, CallLevel
  <2>9. h[r + 1] <= h[k]
    <3>1. Level(cstack, f, h, r + 1)
      BY <1>4 DEF Known, Counts
    <3> QED
      BY <2>4, <3>1 DEF Level
  <2> QED
    BY <1>6, <2>8, <2>9
<1>10. th \notin spoiled => \A j \in DOMAIN s : Protected(s[j]) => j <= p
  <2> SUFFICES ASSUME th \notin spoiled, NEW j \in DOMAIN s, Protected(s[j]) PROVE j <= p
    OBVIOUS
  <2>1. ~(p < j) /\ p \in Nat /\ j \in Nat
    BY <1>1, <1>7, <1>9
  <2> QED
    BY <2>1
<1> QED
  BY <1>7, <1>8, <1>10 DEF p, s

(* caught is furthest in: escaped stays as it was, unless of a spoiled thread. *)
LEMMA EscapedKept ==
  ASSUME DoInv, NEW th, RunningFacts(th), NEW p \in DOMAIN ci[th], Protected(ci[th][p]),
         th \notin spoiled => \A j \in DOMAIN ci[th] : Protected(ci[th][j]) => j <= p,
         EscapedIs(th, {p})
  PROVE  escaped' \subseteq spoiled
<1>1. escaped \subseteq spoiled /\ escaped' \subseteq escaped \cup {th}
  BY DEF DoInv, EscapedIs
<1>2. ASSUME th \notin spoiled PROVE escaped' = escaped
  <2> DEFINE X == Shields(th)
  <2>1. p \in X /\ \A j \in X : j <= p
    BY <1>2 DEF Shields
  <2>2. X \subseteq 1 .. Len(ci[th]) /\ Len(ci[th]) \in Nat
    BY DEF Shields, RunningFacts
  <2>3. escaped' = IF {p} = (IF X = {} THEN {} ELSE {Last(X)}) THEN escaped ELSE escaped \cup {th}
    BY DEF EscapedIs
  <2> HIDE DEF X
  <2>4. Last(X) \in X /\ \A j \in X : j <= Last(X)
    BY <2>1, <2>2, GreatestIs
  <2>5. Last(X) = p
    <3>1. Last(X) \in Nat /\ p \in Nat /\ Last(X) <= p /\ p <= Last(X)
      BY <2>1, <2>2, <2>4
    <3> QED
      BY <3>1
  <2>6. X # {}
    BY <2>1
  <2> QED
    BY <2>3, <2>5, <2>6
<1> QED
  BY <1>1, <1>2

(* An error that luaD_pcall catches. *)
LEMMA CaughtStep ==
  ASSUME DoInv, FewFrames, NEW th, th = running, HasRun(th), IsPcall(cstack[LastRun(th)]),
         Put(th, CaughtRecord(th)), UNCHANGED <<status, spoiled>>,
         EscapedIs(th, {cstack[LastRun(th)].ci})
  PROVE  DoInv'
<1> DEFINE s == ci[th]
           b == LastRun(th)
           run == cstack[b]
           p == run.ci
           n == Len(cstack)
           r == CaughtRecord(th)
<1>1. RunningFacts(th)
  BY RunningIs
<1>2. /\ th \in LuaThreads /\ s \in Seq(FrameType) /\ DOMAIN s = 1 .. Len(s) /\ Len(s) \in Nat
      /\ cstack \in Seq(EntryType) /\ status[th] = "ok"
      /\ n \in Nat /\ n \in DOMAIN cstack /\ DOMAIN cstack = 1 .. n /\ cstack[n].th = th
  BY <1>1 DEF RunningFacts
<1>3. DoTypeOK /\ StackRight(ci, cstack, status, nny, spoiled) /\ status \in Statuses
  BY DEF DoInv, DoTypeOK
<1>4. PICK f, h \in [DOMAIN cstack -> Nat] :
        /\ Placed(ci, cstack, f) /\ Counts(cstack, nny, spoiled, f, h)
        /\ Returned(ci, cstack, status, spoiled, f)
  BY <1>3 DEF StackRight
<1>5. Known(f, h)
  BY <1>4 DEF Known
<1>6. /\ RunFacts(cstack, b, th) /\ run \in RunType /\ CutTo(EntryType, cstack, CutHere(th), b - 1)
      /\ b - 1 \in 1 .. n /\ b \in DOMAIN cstack /\ b \in Nat
  BY ErrorRun
<1>7. /\ b \in 2 .. n /\ \A k \in b .. n : cstack[k].th = th
      /\ run.c = "run" /\ cstack[b - 1].th = th /\ b < n /\ ~IsPcall(cstack[b - 1])
  BY <1>6 DEF RunFacts
<1>8. /\ p \in DOMAIN s /\ f[b + 1] = p + 1 /\ Protected(s[p]) /\ ~s[p].ypcall
      /\ 1 < p /\ s[p - 1].fn = "lua"
      /\ th \notin spoiled => \A j \in DOMAIN s : Protected(s[j]) => j <= p
  BY <1>1, <1>5, <1>6, PcallFurthest
<1>9. /\ r.ci = SubSeq(s, 1, p - 1) /\ r.cstack = CutHere(th) /\ r.nny = run.nny
      /\ r.calls = run.calls /\ r.err = run.errfunc /\ r.stale = stale
  BY CaughtRecordIs
<1>10. Put(th, r) /\ status' = status /\ spoiled' = spoiled
  OBVIOUS
<1>11. escaped' \subseteq spoiled
  BY <1>1, <1>8, EscapedKept
<1>12. run.nny \in Int /\ run.calls \in Int /\ run.errfunc \in Nat
  BY <1>6 DEF RunType
<1>13. th \notin stale \cup spoiled => run.errfunc = HandlerAt(s, p - 1)
  <2>1. Handled(ci, cstack, status, errfunc, stale \cup spoiled)
    BY DEF DoInv
  <2>2. run.th = th
    BY <1>6 DEF RunFacts
  <2> QED
    BY <1>6, <2>1, <2>2 DEF Handled
<1>0. IsPcall(run)
  OBVIOUS
<1> HIDE DEF r, p, n, run, s, b
<1>14. CutTo(FrameType, s, r.ci, p - 1)
  <2>1. p - 1 \in 0 .. Len(s)
    BY <1>2, <1>8
  <2> QED
    BY <1>2, <1>9, <2>1, CutToIs
<1>15. Prefix(r.cstack, cstack, b - 1) /\ r.cstack \in Seq(EntryType)
  BY <1>2, <1>6, <1>9, CutPrefix DEF n
<1>16. PutRight(r)
  BY <1>9, <1>12, <1>14, <1>15 DEF PutRight, CutTo
<1>17. CutRight(th, r, p - 1)
  <2>1. status'[th] = "ok"
    BY <1>2, <1>10
  <2> QED
    BY <1>3, <1>8, <1>9, <1>10, <1>11, <1>13, <1>14, <1>16, <2>1 DEF CutRight, s
<1>18. (b - 1) + 1 = b
  BY <1>6
<1>19. Split(cstack, f, th, b - 1, p - 1)
  <2> SUFFICES ASSUME NEW k \in DOMAIN cstack, cstack[k].th = th, IsCall(cstack[k])
               PROVE  IF k <= b - 1 THEN f[k] <= p - 1 ELSE (p - 1) + 2 <= f[k]
    BY DEF Split
  <2>0. /\ f[k] \in Nat /\ k \in 1 .. n /\ p \in Nat /\ b + 1 \in DOMAIN cstack
        /\ cstack[b + 1].th = th /\ IsCall(cstack[b + 1])
    <3>1. b + 1 \in b + 1 .. n /\ b + 1 \in b .. n
      BY <1>2, <1>7
    <3>2. IsCall(cstack[b + 1])
      BY <1>6, <3>1 DEF RunFacts, n
    <3> QED
      BY <1>2, <1>7, <1>8, <3>1, <3>2
  <2>1. CASE k <= b - 1
    <3>1. Above(cstack, k, b + 1)
      BY <1>6, <2>0, <2>1 DEF Above
    <3>2. f[k] + 2 <= f[b + 1]
      BY <1>4, <2>0, <3>1 DEF Placed, PlacedAt
    <3> QED
      BY <1>8, <2>0, <2>1, <3>2
  <2>2. CASE ~(k <= b - 1)
    <3>1. k # b
      BY <1>0 DEF IsCall, IsPcall, run
    <3>2. k = b + 1 \/ b + 1 < k
      BY <1>6, <2>0, <2>2, <3>1
    <3>3. b + 1 < k => f[b + 1] <= f[k]
      <4>1. b + 1 < k => Above(cstack, b + 1, k)
        BY <2>0 DEF Above
      <4> QED
        BY <1>4, <2>0, <4>1 DEF Placed, PlacedAt
    <3> QED
      BY <1>8, <2>0, <2>2, <3>2, <3>3
  <2> QED
    BY <2>1, <2>2
<1>20. th \notin spoiled => ushort(r.nny) = h[b - 1]
  <2> SUFFICES ASSUME th \notin spoiled PROVE ushort(r.nny) = h[b - 1]
    OBVIOUS
  <2>1. Level(cstack, f, h, b) /\ Trusted(cstack, nny, h, b)
    <3>1. run.th = th
      BY <1>6 DEF RunFacts, run
    <3> QED
      BY <1>4, <1>6, <3>1 DEF Counts, run
  <2>2. run.nny = h[b] /\ h[b] = h[b - 1]
    BY <1>0, <2>1 DEF Level, Trusted, run
  <2>3. h[b] <= h[n] /\ h[b] \in Nat
    <3>1. Above(cstack, b, n)
      BY <1>2, <1>6, <1>7 DEF Above, RunFacts
    <3> QED
      BY <1>2, <1>4, <1>6, <2>1, <3>1 DEF Level
  <2>4. h[n] \in Nat /\ h[n] <= Len(ci[th]) + 1
    BY <1>1, <1>4, TopLevel DEF n
  <2>5. Len(ci[th]) \in Nat
    BY <1>2 DEF s
  <2>6. h[b] <= Len(ci[th]) + 1
    BY <2>3, <2>4, <2>5
  <2>7. ushort(h[b]) = h[b]
    BY <1>1, <2>3, <2>6, NnySmall
  <2> QED
    BY <1>9, <2>2, <2>7
<1>21. Unwound(th, r, b - 1, p - 1, f, h)
  <2>1. status'[th] = "ok" /\ 0 < p - 1
    BY <1>2, <1>8, <1>10
  <2>2. \A k \in (b - 1) + 1 .. Len(cstack) : cstack[k].th = th
    BY <1>7, <1>18 DEF n
  <2> QED
    BY <1>7, <1>15, <1>19, <1>20, <2>1, <2>2 DEF Unwound
<1> QED
  BY <1>1, <1>5, <1>17, <1>21, UnwoundStep

(* An error that nothing catches: the coroutine is dead. *)
DeadRecord(th) == [ThrownTo(th) EXCEPT !.nny = 1, !.calls = @ - 1]

LEMMA DeadRecordIs ==
  ASSUME NEW th
  PROVE  LET r == DeadRecord(th)
         IN  /\ r.ci = ci[th] /\ r.cstack = CutHere(th) /\ r.nny = 1
             /\ r.calls = cstack[LastRun(th)].calls - 1 /\ r.err = errfunc[th] /\ r.stale = stale
BY DEF DeadRecord, ThrownTo, Now

(* The C stack without the piece of the coroutine that is thrown from. *)
LEMMA ThrownIs ==
  ASSUME DoInv, NEW th, th = running, HasRun(th), IsResume(cstack[LastRun(th)])
  PROVE  LET n == LastRun(th) - 1
             C == [ci EXCEPT ![th] = <<>>]
         IN  /\ StackRight(C, CutHere(th), status, nny, spoiled) /\ Prefix(CutHere(th), cstack, n)
             /\ CutHere(th) \in Seq(EntryType)
             /\ \A k \in 1 .. n : CutHere(th)[k].th # th /\ CutHere(th)[k].th \in LuaThreads
             /\ \A t \in LuaThreads : t # th => C[t] = ci[t]
             /\ th # MainThread /\ cstack[LastRun(th)] \in RunType
<1> DEFINE b == LastRun(th)
           C == [ci EXCEPT ![th] = <<>>]
<1>1. RunningFacts(th)
  BY RunningIs
<1>2. /\ RunFacts(cstack, b, th) /\ cstack[b] \in RunType /\ CutTo(EntryType, cstack, CutHere(th), b - 1)
  BY ErrorRun
<1>3. C[th] = <<>> /\ \A t \in LuaThreads : t # th => C[t] = ci[t]
  BY <1>1 DEF RunningFacts, DoInv, DoTypeOK, Lists
<1> HIDE DEF b, C
<1>4. /\ StackRight(C, CutHere(th), status, nny, spoiled) /\ Prefix(CutHere(th), cstack, b - 1)
      /\ \A k \in DOMAIN CutHere(th) : CutHere(th)[k].th # th /\ CutHere(th)[k].th \in LuaThreads
  BY <1>1, <1>2, <1>3, EmptyStack DEF b
<1>5. DOMAIN CutHere(th) = 1 .. b - 1
  BY <1>4 DEF Prefix
<1>6. th # MainThread
  BY <1>2 DEF RunFacts, b
<1>7. CutHere(th) \in Seq(EntryType)
  BY <1>2 DEF CutTo
<1> QED
  BY <1>2, <1>3, <1>4, <1>5, <1>6, <1>7 DEF b, C

LEMMA DeadStep ==
  ASSUME DoInv, NEW th, th = running, InLua(th), HasRun(th), IsResume(cstack[LastRun(th)]),
         findpcall(th) = {}, Put(th, DeadRecord(th)), status' = [status EXCEPT ![th] = "error"],
         UNCHANGED spoiled, EscapedIs(th, {})
  PROVE  DoInv'
<1> DEFINE s == ci[th]
           m == Len(s)
           b == LastRun(th)
           n == b - 1
           C == [ci EXCEPT ![th] = <<>>]
           r == DeadRecord(th)
<1>1. RunningFacts(th)
  BY RunningIs
<1>2. /\ th \in LuaThreads /\ s \in Seq(FrameType) /\ DOMAIN s = 1 .. m /\ m \in Nat
  BY <1>1 DEF RunningFacts
<1>3. DoTypeOK /\ StackRight(ci, cstack, status, nny, spoiled) /\ escaped \subseteq spoiled
  BY DEF DoInv
<1>4. /\ StackRight(C, CutHere(th), status, nny, spoiled) /\ Prefix(CutHere(th), cstack, n)
      /\ CutHere(th) \in Seq(EntryType)
      /\ \A k \in 1 .. n : CutHere(th)[k].th # th /\ CutHere(th)[k].th \in LuaThreads
      /\ \A t \in LuaThreads : t # th => C[t] = ci[t]
      /\ cstack[b] \in RunType
  BY ThrownIs
<1>5. /\ r.ci = s /\ r.cstack = CutHere(th) /\ r.nny = 1
      /\ r.calls = cstack[b].calls - 1 /\ r.err = errfunc[th] /\ r.stale = stale
  BY DeadRecordIs
<1>6. Put(th, r) /\ spoiled' = spoiled
  OBVIOUS
<1>7. status' \in Statuses /\ status'[th] = "error" /\ \A t \in LuaThreads : t # th => status'[t] = status[t]
  BY <1>2, <1>3 DEF DoTypeOK, Statuses
<1>8. s[m].fn = "lua"
  BY DEF InLua, TopOf
<1>9. escaped' \subseteq spoiled
  <2>1. escaped' \subseteq escaped \cup {th}
    BY DEF EscapedIs
  <2>2. ASSUME th \notin spoiled PROVE Shields(th) = {}
    <3>1. PICK f, h \in [DOMAIN cstack -> Nat] :
            /\ Placed(ci, cstack, f) /\ Counts(cstack, nny, spoiled, f, h)
            /\ Returned(ci, cstack, status, spoiled, f)
      BY <1>3 DEF StackRight
    <3>2. Known(f, h)
      BY <3>1 DEF Known
    <3>3. RunFacts(cstack, b, th)
      BY ErrorRun
    <3>4. ASSUME NEW j \in DOMAIN ci[th], Protected(ci[th][j]) PROVE FALSE
      <4>1. ci[th][j].ypcall
        BY <1>1, <2>2, <3>2, <3>3, <3>4, ResumeShields
      <4>2. j \in findpcall(th)
        BY <4>1 DEF findpcall
      <4> QED
        BY <4>2
    <3> QED
      BY <3>4 DEF Shields
  <2>3. th \notin spoiled => escaped' = escaped
    BY <2>2 DEF EscapedIs
  <2> QED
    BY <1>3, <2>1, <2>3
<1> HIDE DEF r, C, n, m, s
<1>10. CutTo(FrameType, s, r.ci, m)
  <2>1. m \in 0 .. Len(s) /\ Len(s) = m
    BY <1>2 DEF m
  <2> QED
    BY <1>2, <1>5, <2>1 DEF CutTo
<1>11. DOMAIN CutHere(th) = 1 .. n
  BY <1>4 DEF Prefix
<1>12. PutRight(r)
  <2>1. errfunc[th] \in Nat
    BY <1>2, <1>3 DEF DoTypeOK
  <2>2. cstack[b].calls \in Int
    BY <1>4 DEF RunType
  <2>3. cstack[b].calls - 1 \in Int
    BY <2>2
  <2> QED
    BY <1>2, <1>4, <1>5, <2>1, <2>3 DEF PutRight
<1>13. CutDone(th, r, m)
  <2>1. \A i \in 1 .. n :
           i \in DOMAIN cstack /\ r.cstack[i] = cstack[i] /\ (cstack[i].th = th => cstack[i].ci <= m)
    <3>1. Prefix(r.cstack, cstack, n) /\ \A k \in 1 .. n : r.cstack[k].th # th
      BY <1>4, <1>5
    <3>2. \A i \in 1 .. n : i \in DOMAIN cstack /\ r.cstack[i] = cstack[i]
      BY <3>1 DEF Prefix
    <3> QED
      BY <3>1, <3>2
  <2> QED
    BY <1>5, <1>6, <1>7, <1>8, <1>9, <1>10, <1>11, <1>12, <2>1 DEF CutDone, s
<1>14. Arrived(th, m)
  BY <1>1, <1>13, CutArrived
<1>15. /\ cstack' = CutHere(th)
       /\ \A t \in LuaThreads : t # th => ci'[t] = ci[t] /\ nny'[t] = nny[t]
  BY <1>2, <1>3, <1>5, <1>6, <1>12, PutIs
<1>16. StackRight(ci', cstack', status', nny', spoiled')
  <2>1. \A t \in LuaThreads : t # th => ci'[t] = C[t] /\ status'[t] = status[t] /\ nny'[t] = nny[t]
    BY <1>4, <1>7, <1>15
  <2>2. \A i \in DOMAIN CutHere(th) : CutHere(th)[i].th # th /\ CutHere(th)[i].th \in LuaThreads
    BY <1>4, <1>11
  <2>3. /\ spoiled \subseteq spoiled
        /\ th \notin spoiled /\ status'[th] # "error" =>
             \A j \in DOMAIN ci'[th] : IsC(ci'[th][j]) => ci'[th][j].ypcall
    BY <1>7
  <2>4. OffBy(C, ci', CutHere(th), status, status', nny, nny', spoiled, spoiled, th)
    BY <2>1, <2>2, <2>3 DEF OffBy
  <2>5. StackRight(ci', CutHere(th), status', nny', spoiled)
    BY <1>4, <2>4, OffStack
  <2> QED
    BY <1>6, <1>15, <2>5
<1> QED
  BY <1>1, <1>14, <1>16, ArrivedStep

(* An error that recover takes to the last noted protected call. *)
RecoverRecord(th) ==
  LET i == NearestPcall(findpcall(th))
      entry == [cstack[LastRun(th)] EXCEPT !.what = "unroll"]
  IN  [ThrownTo(th) EXCEPT !.ci = SubSeq(@, 1, i - 1), !.nny = 0,
                           !.cstack = Push(CutHere(th), entry),
                           !.err = ci[th][i].olderr, !.calls = @ - 1]

LEMMA RecoverRecordIs ==
  ASSUME NEW th
  PROVE  LET i == Last(findpcall(th))
             r == RecoverRecord(th)
         IN  /\ r.ci = SubSeq(ci[th], 1, i - 1)
             /\ r.cstack = Append(CutHere(th), [cstack[LastRun(th)] EXCEPT !.what = "unroll"])
             /\ r.nny = 0 /\ r.calls = cstack[LastRun(th)].calls - 1
             /\ r.err = ci[th][i].olderr /\ r.stale = stale
BY DEF RecoverRecord, ThrownTo, Now, NearestPcall, Push

LEMMA UnrollIs ==
  ASSUME NEW run \in RunType, NEW e, e = [run EXCEPT !.what = "unroll"]
  PROVE  e \in EntryType /\ IsResume(e) /\ ~IsPcall(e) /\ e.th = run.th
<1>1. e \in RunType /\ e.what = "unroll" /\ e.th = run.th
  BY DEF RunType
<1>2. e.c = "run"
  BY <1>1 DEF RunType
<1> HIDE DEF RunType
<1> QED
  BY <1>1, <1>2 DEF EntryType, IsResume, IsPcall

(* Below the last noted protected call every C function noted a continuation. *)
LEMMA RecoverKeeps ==
  ASSUME DoInv, NEW th, RunningFacts(th), th \notin spoiled, NEW f, NEW h, Known(f, h),
         NEW r, RunFacts(cstack, r, th), IsResume(cstack[r]),
         NEW i \in DOMAIN ci[th], IsC(ci[th][i]), ci[th][i].ypcall,
         NEW j \in DOMAIN ci[th], j < i, IsC(ci[th][j])
  PROVE  ci[th][j].ypcall
<1> SUFFICES ASSUME ~ci[th][j].ypcall PROVE FALSE
  OBVIOUS
<1>1. PICK k \in r + 1 .. Len(cstack) :
        /\ k \in DOMAIN cstack /\ 1 < k /\ cstack[k].th = th /\ IsCall(cstack[k])
        /\ f[k] = j + 1 /\ f[k] - 1 = j
  BY CallOf
<1>2. ci[th][f[k]].fn = "lua"
  BY <1>1, CallLevel
<1>3. f[k] # i
  BY <1>2 DEF IsC
<1>4. f[k] < i
  BY <1>1, <1>3 DEF RunningFacts
<1>5. ci[th][f[k] - 1].ypcall
  BY <1>1, <1>4, LevelsRise
<1> QED
  BY <1>1, <1>5

(* The protected call that recover finds, of a thread that is not spoiled: the last. *)
LEMMA RecoverFinds ==
  ASSUME DoInv, NEW th, th = running, HasRun(th), IsResume(cstack[LastRun(th)]), findpcall(th) # {}
  PROVE  LET i == Last(findpcall(th))
             s == ci[th]
         IN  /\ i \in DOMAIN s /\ i \in Nat /\ s[i].ypcall /\ Protected(s[i])
             /\ 1 < i /\ s[i - 1].fn = "lua"
             /\ th \notin spoiled => /\ \A j \in DOMAIN s : Protected(s[j]) => j <= i
                                     /\ \A j \in 1 .. i - 1 : IsC(s[j]) => s[j].ypcall
             /\ th \notin stale \cup spoiled => s[i].olderr = HandlerAt(s, i - 1)
<1> DEFINE X == findpcall(th)
           i == Last(X)
           s == ci[th]
<1>1. RunningFacts(th)
  BY RunningIs
<1>2. /\ DOMAIN s = 1 .. Len(s) /\ Len(s) \in Nat /\ ListRight(s) /\ th \in LuaThreads /\ status[th] = "ok"
  BY <1>1 DEF RunningFacts
<1>3. X \subseteq 1 .. Len(s)
  BY <1>2 DEF findpcall
<1>4. i \in X /\ \A j \in X : j <= i
  <2>1. X # {} /\ Len(s) \in Nat
    BY <1>2
  <2> HIDE DEF X, s
  <2> QED
    BY <1>3, <2>1, GreatestIs
<1>5. \A j \in DOMAIN s : j \in X <=> s[j].ypcall
  BY DEF findpcall
<1>6. RunFacts(cstack, LastRun(th), th)
  BY ErrorRun
<1>7. PICK f, h \in [DOMAIN cstack -> Nat] :
        /\ Placed(ci, cstack, f) /\ Counts(cstack, nny, spoiled, f, h)
        /\ Returned(ci, cstack, status, spoiled, f)
  BY DEF DoInv, StackRight
<1>8. Known(f, h)
  BY <1>7 DEF Known
<1> HIDE DEF X, i, s
<1>9. i \in DOMAIN s /\ s[i].ypcall /\ i \in Nat
  BY <1>2, <1>3, <1>4, <1>5
<1>10. FrameRight(s, i)
  BY <1>2, <1>9 DEF ListRight
<1>11. Protected(s[i]) /\ IsC(s[i])
  BY <1>9, <1>10 DEF FrameRight, Protected, IsC
<1>12. 1 < i /\ s[i - 1].fn = "lua"
  BY <1>10, <1>11 DEF FrameRight
<1>13. ASSUME th \notin spoiled
       PROVE  /\ \A j \in DOMAIN s : Protected(s[j]) => j <= i
              /\ \A j \in 1 .. i - 1 : IsC(s[j]) => s[j].ypcall
  <2>1. ASSUME NEW j \in DOMAIN s, Protected(s[j]) PROVE j <= i
    <3>1. s[j].ypcall
      BY <1>1, <1>6, <1>8, <1>13, <2>1, ResumeShields DEF s
    <3> QED
      BY <1>4, <1>5, <3>1
  <2>2. ASSUME NEW j \in 1 .. i - 1, IsC(s[j]) PROVE s[j].ypcall
    <3>1. j \in DOMAIN s /\ j < i
      BY <1>2, <1>9
    <3> QED
      BY <1>1, <1>6, <1>8, <1>9, <1>11, <1>13, <2>2, <3>1, RecoverKeeps DEF s
  <2> QED
    BY <2>1, <2>2
<1>14. th \notin stale \cup spoiled => s[i].olderr = HandlerAt(s, i - 1)
  <2>1. Handled(ci, cstack, status, errfunc, stale \cup spoiled)
    BY DEF DoInv
  <2>2. th \notin stale \cup spoiled => ListHandled(s, errfunc[th])
    BY <1>2, <2>1 DEF Handled, s
  <2> QED
    BY <1>9, <2>2 DEF ListHandled
<1> QED
  BY <1>9, <1>11, <1>12, <1>13, <1>14 DEF X, i, s

LEMMA RecoverStep ==
  ASSUME DoInv, FewFrames, NEW th, th = running, HasRun(th), IsResume(cstack[LastRun(th)]),
         findpcall(th) # {}, Put(th, RecoverRecord(th)), UNCHANGED <<status, spoiled>>,
         EscapedIs(th, {Last(findpcall(th))})
  PROVE  DoInv'
<1> DEFINE s == ci[th]
           i == Last(findpcall(th))
           m == i - 1
           b == LastRun(th)
           n == b - 1
           C == [ci EXCEPT ![th] = <<>>]
           e == [cstack[b] EXCEPT !.what = "unroll"]
           r == RecoverRecord(th)
<1>1. RunningFacts(th)
  BY RunningIs
<1>2. /\ th \in LuaThreads /\ s \in Seq(FrameType) /\ DOMAIN s = 1 .. Len(s) /\ Len(s) \in Nat
      /\ status[th] = "ok"
  BY <1>1 DEF RunningFacts
<1>3. DoTypeOK /\ StackRight(ci, cstack, status, nny, spoiled)
  BY DEF DoInv
<1>4. /\ StackRight(C, CutHere(th), status, nny, spoiled) /\ Prefix(CutHere(th), cstack, n)
      /\ CutHere(th) \in Seq(EntryType)
      /\ \A k \in 1 .. n : CutHere(th)[k].th # th /\ CutHere(th)[k].th \in LuaThreads
      /\ \A t \in LuaThreads : t # th => C[t] = ci[t]
      /\ th # MainThread /\ cstack[b] \in RunType
  BY ThrownIs
<1>5. /\ r.ci = SubSeq(s, 1, i - 1) /\ r.cstack = Append(CutHere(th), e) /\ r.nny = 0
      /\ r.calls = cstack[b].calls - 1 /\ r.err = s[i].olderr /\ r.stale = stale
  BY RecoverRecordIs
<1>6. Put(th, r) /\ status' = status /\ spoiled' = spoiled
  OBVIOUS
<1>7. e \in EntryType /\ IsResume(e) /\ ~IsPcall(e) /\ e.th = th
  <2>1. cstack[b].th = th
    BY ErrorRun DEF RunFacts
  <2> QED
    BY <1>4, <2>1, UnrollIs
<1>8. /\ i \in DOMAIN s /\ i \in Nat /\ s[i].ypcall /\ Protected(s[i])
      /\ 1 < i /\ s[i - 1].fn = "lua"
      /\ th \notin spoiled => /\ \A j \in DOMAIN s : Protected(s[j]) => j <= i
                              /\ \A j \in 1 .. i - 1 : IsC(s[j]) => s[j].ypcall
      /\ th \notin stale \cup spoiled => s[i].olderr = HandlerAt(s, i - 1)
  BY RecoverFinds
<1>9. escaped' \subseteq spoiled
  BY <1>1, <1>8, EscapedKept
<1> HIDE DEF r, e, C, n, m, i, s
<1>10. /\ m \in Nat /\ m \in 0 .. Len(s) /\ 0 < m /\ m = i - 1 /\ s[m].fn = "lua"
  BY <1>2, <1>8 DEF m
<1>11. CutTo(FrameType, s, r.ci, m)
  BY <1>2, <1>5, <1>10, CutToIs
<1>12. DOMAIN CutHere(th) = 1 .. n /\ Len(CutHere(th)) = n /\ n \in Nat /\ 1 <= n
  BY <1>4 DEF Prefix
<1>13. Joined(EntryType, CutHere(th), r.cstack, e)
  BY <1>4, <1>5, <1>7, JoinedIs
<1>14. /\ r.cstack \in Seq(EntryType) /\ Len(r.cstack) = n + 1 /\ DOMAIN r.cstack = 1 .. n + 1
       /\ \A k \in 1 .. n : r.cstack[k] = CutHere(th)[k]
       /\ r.cstack[n + 1] = e
  BY <1>12, <1>13 DEF Joined
<1>15. PutRight(r)
  <2>1. cstack[b].calls \in Int
    BY <1>4 DEF RunType
  <2>2. cstack[b].calls - 1 \in Int
    BY <2>1
  <2>3. s[i].olderr \in Nat
    <3>1. s[i] \in FrameType
      BY <1>2, <1>8
    <3> QED
      BY <3>1 DEF FrameType
  <2> QED
    BY <1>5, <1>11, <1>14, <2>2, <2>3 DEF PutRight, CutTo
<1>16. \A k \in DOMAIN r.cstack : IsPcall(r.cstack[k]) =>
         k \in DOMAIN cstack /\ r.cstack[k] = cstack[k] /\ (cstack[k].th = th => cstack[k].ci <= m)
  <2> SUFFICES ASSUME NEW k \in 1 .. n + 1, IsPcall(r.cstack[k])
               PROVE  k \in DOMAIN cstack /\ r.cstack[k] = cstack[k] /\ (cstack[k].th = th => cstack[k].ci <= m)
    BY <1>14
  <2>1. k \in 1 .. n
    <3>1. k # n + 1
      BY <1>7, <1>14
    <3> QED
      BY <1>12, <3>1
  <2>2. \A l \in 1 .. n : l \in DOMAIN cstack /\ CutHere(th)[l] = cstack[l] /\ (cstack[l].th = th => cstack[l].ci <= m)
    <3>1. \A l \in 1 .. n : l \in DOMAIN cstack /\ CutHere(th)[l] = cstack[l]
      BY <1>4 DEF Prefix
    <3> QED
      BY <1>4, <3>1
  <2> QED
    BY <1>14, <2>1, <2>2
<1>17. CutDone(th, r, m)
  <2>1. status' \in Statuses /\ status'[th] = "ok"
    BY <1>2, <1>3, <1>6 DEF DoTypeOK
  <2>2. th \notin stale \cup spoiled => r.err = HandlerAt(s, m)
    BY <1>5, <1>8, <1>10
  <2> QED
    BY <1>5, <1>6, <1>9, <1>10, <1>11, <1>15, <1>16, <2>1, <2>2 DEF CutDone, s
<1>18. Arrived(th, m)
  BY <1>1, <1>17, CutArrived
<1>19. /\ cstack' = r.cstack /\ ci'[th] = r.ci /\ nny'[th] = ushort(0)
       /\ \A t \in LuaThreads : t # th => ci'[t] = ci[t] /\ nny'[t] = nny[t]
  BY <1>2, <1>3, <1>5, <1>6, <1>15, PutIs
<1>20. nny'[th] = 0
  <2>1. ushort(0) = 0
    BY <1>1, NnySmall, <1>2 DEF s
  <2> QED
    BY <1>19, <2>1
<1>21. ResumedBy(CutHere(th), cstack', n, th, C, ci', nny, nny', status, status', spoiled)
  <2>1. Prefix(CutHere(th), cstack', n)
    <3>1. n \in 1 .. n + 1
      BY <1>12
    <3> QED
      BY <1>12, <1>14, <1>19, <3>1 DEF Prefix
  <2>2. Len(cstack') = n + 1 /\ IsResume(cstack'[n + 1]) /\ cstack'[n + 1].th = th
    BY <1>7, <1>14, <1>19
  <2>3. \A k \in DOMAIN CutHere(th) : CutHere(th)[k].th \in LuaThreads
    BY <1>4, <1>12
  <2>4. \A t \in LuaThreads : t # th => ci'[t] = C[t] /\ nny'[t] = nny[t] /\ status'[t] = status[t]
    BY <1>4, <1>6, <1>19
  <2>5. /\ DOMAIN ci'[th] = 1 .. m /\ \A j \in 1 .. m : ci'[th][j] = s[j]
    BY <1>11, <1>19 DEF CutTo
  <2>6. ci'[th] # <<>> /\ status'[th] = "ok"
    BY <1>2, <1>6, <1>10, <2>5
  <2>7. th \notin spoiled => \A j \in DOMAIN ci'[th] : IsC(ci'[th][j]) => ci'[th][j].ypcall
    BY <1>8, <1>10, <2>5
  <2>8. th \in LuaThreads \ {MainThread} /\ \A k \in 1 .. n : CutHere(th)[k].th # th
    BY <1>2, <1>4
  <2> QED
    BY <1>20, <2>1, <2>2, <2>3, <2>4, <2>6, <2>7, <2>8 DEF ResumedBy
<1>22. StackRight(ci', cstack', status', nny', spoiled')
  BY <1>4, <1>6, <1>21, ResumeStack
<1> QED
  BY <1>1, <1>18, <1>22, ArrivedStep

LEMMA ErrorStep ==
  ASSUME DoInv, FewFrames, NEW th, th = running, Error(th)
  PROVE  DoInv'
<1> DEFINE run == cstack[LastRun(th)]
           i == NearestPcall(findpcall(th))
<1>1. InLua(th) /\ HasRun(th) /\ UNCHANGED spoiled
  BY DEF Error, ErrorIn
<1>2. \/ /\ run.what = "pcall" /\ Put(th, CaughtRecord(th)) /\ UNCHANGED <<status, spoiled>>
         /\ EscapedIs(th, {run.ci})
      \/ /\ run.what # "pcall" /\ findpcall(th) # {} /\ Put(th, RecoverRecord(th))
         /\ UNCHANGED <<status, spoiled>> /\ EscapedIs(th, {i})
      \/ /\ run.what # "pcall" /\ findpcall(th) = {} /\ Put(th, DeadRecord(th))
         /\ status' = [status EXCEPT ![th] = "error"] /\ EscapedIs(th, {})
  BY Zenon DEF Error, ErrorIn, CaughtRecord, RecoverRecord, DeadRecord, ThrownTo, CutHere, EscapedIs
<1>3. run.c = "run"
  BY <1>1, ErrorRun DEF RunFacts
<1>4. /\ run.what = "pcall" => IsPcall(run)
      /\ run.what # "pcall" => IsResume(run)
  BY <1>3 DEF IsPcall, IsResume
<1>5. i = Last(findpcall(th))
  BY DEF NearestPcall
<1>6. CASE /\ run.what = "pcall" /\ Put(th, CaughtRecord(th)) /\ UNCHANGED <<status, spoiled>>
           /\ EscapedIs(th, {run.ci})
  BY <1>1, <1>4, <1>6, CaughtStep
<1>7. CASE /\ run.what # "pcall" /\ findpcall(th) # {} /\ Put(th, RecoverRecord(th))
           /\ UNCHANGED <<status, spoiled>> /\ EscapedIs(th, {i})
  BY <1>1, <1>4, <1>5, <1>7, RecoverStep
<1>8. CASE /\ run.what # "pcall" /\ findpcall(th) = {} /\ Put(th, DeadRecord(th))
           /\ status' = [status EXCEPT ![th] = "error"] /\ EscapedIs(th, {})
  BY <1>1, <1>4, <1>8, DeadStep
<1> QED
  BY <1>2, <1>6, <1>7, <1>8

-----------------------------------------------------------------------------
(* Coroutines.  A yield leaves the piece of the C stack that its resume began. *)
YieldRecord(th) ==
  [Now(th) EXCEPT !.ci = Push(@, Frame("yield", TRUE)), !.nny = 1,
                  !.cstack = SubSeq(@, 1, LastRun(th) - 1), !.calls = cstack[LastRun(th)].calls - 1]

LEMMA YieldRecordIs ==
  ASSUME NEW th
  PROVE  LET r == YieldRecord(th)
         IN  /\ r.ci = Append(ci[th], Frame("yield", TRUE)) /\ r.cstack = CutHere(th) /\ r.nny = 1
             /\ r.calls = cstack[LastRun(th)].calls - 1 /\ r.err = errfunc[th] /\ r.stale = stale
BY DEF YieldRecord, Now, Push, CutHere

(* Where nny is 0 no call of C is in the way. *)
LEMMA YieldKeeps ==
  ASSUME DoInv, NEW th, th = running, nny[th] = 0, HasRun(th), IsResume(cstack[LastRun(th)]),
         th \notin spoiled, NEW j \in DOMAIN ci[th], IsC(ci[th][j])
  PROVE  ci[th][j].ypcall
<1> SUFFICES ASSUME ~ci[th][j].ypcall PROVE FALSE
  OBVIOUS
<1>1. RunningFacts(th) /\ RunFacts(cstack, LastRun(th), th)
  BY RunningIs, ErrorRun
<1>2. PICK f, h \in [DOMAIN cstack -> Nat] :
        /\ Placed(ci, cstack, f) /\ Counts(cstack, nny, spoiled, f, h)
        /\ Returned(ci, cstack, status, spoiled, f)
  BY DEF DoInv, StackRight
<1>3. Known(f, h)
  BY <1>2 DEF Known
<1>4. PICK k \in DOMAIN cstack :
        1 < k /\ cstack[k].th = th /\ IsCall(cstack[k]) /\ f[k] - 1 = j
  BY <1>1, <1>3, CallOf
<1>5. 1 <= h[k]
  BY <1>1, <1>3, <1>4, CallLevel
<1>6. h[Len(cstack)] = 0
  BY <1>1, <1>2, TopLevel
<1>7. h[k] <= h[Len(cstack)] /\ h[k] \in Nat
  <2>1. /\ Len(cstack) \in DOMAIN cstack /\ cstack[Len(cstack)].th = th
        /\ DOMAIN cstack = 1 .. Len(cstack) /\ Len(cstack) \in Nat
    BY <1>1 DEF RunningFacts
  <2>2. k = Len(cstack) \/ Above(cstack, k, Len(cstack))
    BY <1>4, <2>1 DEF Above
  <2>3. Level(cstack, f, h, k) /\ h[k] \in Nat
    BY <1>2 DEF Counts
  <2> QED
    BY <2>1, <2>2, <2>3 DEF Level
<1> QED
  BY <1>5, <1>6, <1>7

LEMMA YieldPuts ==
  ASSUME NEW th, lua_yield(th)
  PROVE  Put(th, YieldRecord(th))
BY DEF lua_yield, YieldRecord

LEMMA YieldStep ==
  ASSUME DoInv, NEW th, th = running, lua_yield(th)
  PROVE  DoInv'
<1> DEFINE s == ci[th]
           m == Len(s)
           b == LastRun(th)
           n == b - 1
           C == [ci EXCEPT ![th] = <<>>]
           r == YieldRecord(th)
<1>1. RunningFacts(th)
  BY RunningIs
<1>2. /\ th \in LuaThreads /\ s \in Seq(FrameType) /\ DOMAIN s = 1 .. m /\ m \in Nat
      /\ ListRight(s) /\ m <= MaxFrames + 1 /\ status[th] = "ok" /\ s # <<>>
  BY <1>1 DEF RunningFacts
<1>3. DoTypeOK /\ StackRight(ci, cstack, status, nny, spoiled) /\ escaped \subseteq spoiled
      /\ Handled(ci, cstack, status, errfunc, stale \cup spoiled)
  BY DEF DoInv
<1>4. /\ InLua(th) /\ nny[th] = 0 /\ HasRun(th) /\ cstack[b].what # "pcall"
      /\ status' = [status EXCEPT ![th] = "yield"] /\ spoiled' = spoiled /\ escaped' = escaped
  BY DEF lua_yield
<1>5. Put(th, r)
  BY YieldPuts
<1>6. IsResume(cstack[b])
  BY <1>4, ErrorRun DEF RunFacts, IsResume
<1>7. /\ StackRight(C, CutHere(th), status, nny, spoiled) /\ Prefix(CutHere(th), cstack, n)
      /\ CutHere(th) \in Seq(EntryType)
      /\ \A k \in 1 .. n : CutHere(th)[k].th # th /\ CutHere(th)[k].th \in LuaThreads
      /\ \A t \in LuaThreads : t # th => C[t] = ci[t]
      /\ cstack[b] \in RunType
  BY <1>4, <1>6, ThrownIs
<1>8. /\ r.ci = Append(s, Frame("yield", TRUE)) /\ r.cstack = CutHere(th) /\ r.nny = 1
      /\ r.calls = cstack[b].calls - 1 /\ r.err = errfunc[th] /\ r.stale = stale
  BY YieldRecordIs
<1>9. status' \in Statuses /\ status'[th] = "yield" /\ \A t \in LuaThreads : t # th => status'[t] = status[t]
  BY <1>2, <1>3, <1>4 DEF DoTypeOK, Statuses
<1>10. TopLua(s)
  BY <1>2, <1>4 DEF InLua, TopOf, TopLua
<1>11. th \notin spoiled => \A j \in 1 .. m : IsC(s[j]) => s[j].ypcall
  BY <1>2, <1>4, <1>6, YieldKeeps
<1>12. Frame("yield", TRUE) \in FrameType
  BY DEF Frame, FrameType
<1> HIDE DEF r, C, n, m, s, b
<1>13. Joined(FrameType, s, r.ci, Frame("yield", TRUE))
  BY <1>2, <1>8, <1>12, JoinedIs
<1>14. /\ r.ci \in Seq(FrameType) /\ ListRight(r.ci) /\ Waits(r.ci) /\ Len(r.ci) = m + 1
       /\ \A j \in 1 .. m : r.ci[j] = s[j]
       /\ r.ci[m + 1] = Frame("yield", TRUE)
  BY <1>2, <1>10, <1>13, RightYield DEF m
<1>15. DOMAIN CutHere(th) = 1 .. n
  BY <1>7 DEF Prefix
<1>16. PutRight(r)
  <2>1. errfunc[th] \in Nat
    BY <1>2, <1>3 DEF DoTypeOK
  <2>2. cstack[b].calls \in Int
    BY <1>7 DEF RunType
  <2>3. cstack[b].calls - 1 \in Int
    BY <2>2
  <2>4. /\ r.cstack \in Seq(EntryType) /\ r.nny \in Int /\ r.calls \in Int /\ r.err \in Nat
    BY <1>7, <1>8, <2>1, <2>3
  <2> QED
    BY <1>14, <2>4 DEF PutRight
<1>17. /\ ci' \in Lists /\ cstack' \in Seq(EntryType) /\ nny' \in Counters /\ nCcalls' \in Counters
       /\ errfunc' \in [LuaThreads -> Nat]
       /\ ci'[th] = r.ci /\ cstack' = CutHere(th) /\ errfunc'[th] = errfunc[th] /\ stale' = stale
       /\ \A t \in LuaThreads : t # th => ci'[t] = ci[t] /\ nny'[t] = nny[t] /\ errfunc'[t] = errfunc[t]
  BY <1>2, <1>3, <1>5, <1>8, <1>16, PutIs
<1>18. DOMAIN r.ci = 1 .. m + 1
  BY <1>13 DEF Joined, m
<1>19. th \notin stale \cup spoiled => ListHandled(r.ci, errfunc[th])
  <2> SUFFICES ASSUME th \notin stale \cup spoiled PROVE ListHandled(r.ci, errfunc[th])
    OBVIOUS
  <2>1. ListHandled(s, errfunc[th])
    BY <1>2, <1>3 DEF Handled, s
  <2>2. HandlerAt(r.ci, m + 1) = HandlerAt(r.ci, m)
    <3>1. ~Protected(r.ci[m + 1])
      BY <1>14 DEF Frame, Protected
    <3> QED
      BY <1>2, <3>1, HandlerNext
  <2>3. HandlerAt(r.ci, m) = HandlerAt(s, m)
    BY <1>2, <1>14, HandlerKept
  <2>4. errfunc[th] = HandlerAt(r.ci, Len(r.ci))
    BY <1>14, <2>1, <2>2, <2>3 DEF ListHandled, m
  <2>5. \A j \in 1 .. Len(r.ci) : m < j => ~r.ci[j].ypcall
    <3>1. \A j \in 1 .. Len(r.ci) : m < j => j = m + 1
      BY <1>2, <1>14
    <3>2. ~Frame("yield", TRUE).ypcall
      BY DEF Frame
    <3> QED
      BY <1>14, <3>1, <3>2
  <2>6. DOMAIN s = 1 .. Len(s) /\ Len(s) = m /\ Len(r.ci) \in Nat /\ m <= Len(r.ci) /\ m <= Len(s)
        /\ DOMAIN r.ci = 1 .. Len(r.ci)
    BY <1>2, <1>14, <1>18 DEF m
  <2> QED
    BY <1>2, <1>14, <2>1, <2>4, <2>5, <2>6, HandledCut
<1>20. Arrived(th, m)
  <2>1. \A i \in 1 .. n :
           i \in DOMAIN cstack /\ CutHere(th)[i] = cstack[i] /\ (cstack[i].th = th => cstack[i].ci <= m)
    <3>1. \A i \in 1 .. n : i \in DOMAIN cstack /\ CutHere(th)[i] = cstack[i]
      BY <1>7 DEF Prefix
    <3> QED
      BY <1>7, <3>1
  <2>2. \A i \in DOMAIN cstack' : IsPcall(cstack'[i]) =>
       i \in DOMAIN cstack /\ cstack'[i] = cstack[i] /\ (cstack[i].th = th => cstack[i].ci <= m)
    BY <1>15, <1>17, <2>1
  <2>3. m <= Len(r.ci) /\ Len(r.ci) <= MaxFrames + 2
    <3>1. MaxFrames \in Nat
      BY LuaDoAssumption
    <3> QED
      BY <1>2, <1>14, <3>1
  <2>4. DoTypeOK'
    BY <1>9, <1>17 DEF DoTypeOK
  <2> QED
    BY <1>2, <1>3, <1>4, <1>9, <1>14, <1>17, <1>19, <2>2, <2>3, <2>4 DEF Arrived, s
<1>21. StackRight(ci', cstack', status', nny', spoiled')
  <2>1. \A t \in LuaThreads : t # th => ci'[t] = C[t] /\ status'[t] = status[t] /\ nny'[t] = nny[t]
    BY <1>7, <1>9, <1>17
  <2>2. \A i \in DOMAIN CutHere(th) : CutHere(th)[i].th # th /\ CutHere(th)[i].th \in LuaThreads
    BY <1>7, <1>15
  <2>3. th \notin spoiled => \A j \in DOMAIN ci'[th] : IsC(ci'[th][j]) => ci'[th][j].ypcall
    <3>1. ~IsC(r.ci[m + 1])
      BY <1>14 DEF IsC, Frame
    <3>2. \A j \in 1 .. m + 1 : j \in 1 .. m \/ j = m + 1
      BY <1>2
    <3> QED
      BY <1>11, <1>14, <1>17, <1>18, <3>1, <3>2
  <2>4. OffBy(C, ci', CutHere(th), status, status', nny, nny', spoiled, spoiled, th)
    BY <2>1, <2>2, <2>3 DEF OffBy
  <2>5. StackRight(ci', CutHere(th), status', nny', spoiled)
    BY <1>7, <2>4, OffStack
  <2> QED
    BY <1>4, <1>17, <2>5
<1> QED
  BY <1>1, <1>20, <1>21, ArrivedStep

ResumeEntry(th, co) == [RunEntry(co, "resume", th) EXCEPT !.calls = ushort(nCcalls[th] + 1)]

LEMMA ResumeEntryIs ==
  ASSUME DoTypeOK, NEW th \in LuaThreads, NEW co \in LuaThreads, ushort(nCcalls[th] + 1) \in Int
  PROVE  LET e == ResumeEntry(th, co)
         IN  e \in EntryType /\ IsResume(e) /\ ~IsPcall(e) /\ e.th = co
<1> DEFINE e == ResumeEntry(th, co)
<1>1. Len(ci[co]) \in Nat /\ nny[co] \in Int /\ errfunc[co] \in Nat
  <2>1. ci[co] \in Seq(FrameType)
    BY DEF DoTypeOK, Lists
  <2> QED
    BY <2>1 DEF DoTypeOK, Counters
<1>2. e \in RunType /\ e.c = "run" /\ e.what = "resume" /\ e.th = co
  BY <1>1 DEF ResumeEntry, RunEntry, RunType
<1> HIDE DEF e
<1>3. e \in EntryType /\ IsResume(e) /\ ~IsPcall(e)
  BY <1>2 DEF EntryType, IsResume, IsPcall
<1> QED
  BY <1>2, <1>3 DEF e

(* The list a coroutine goes on with: of its first m functions, the others begin it. *)
GoesOn(co, s2, m) ==
  /\ s2 \in Seq(FrameType) /\ ListRight(s2) /\ ~Waits(s2) /\ s2 # <<>> /\ Len(s2) <= MaxFrames + 1
  /\ m \in Nat /\ m <= Len(s2) /\ \A j \in 1 .. m : s2[j] = ci[co][j]
  /\ co \notin spoiled => \A j \in DOMAIN s2 : IsC(s2[j]) => s2[j].ypcall
  /\ co \notin stale \cup spoiled => ListHandled(s2, errfunc[co])

LEMMA Begins ==
  ASSUME DoInv, NEW co \in LuaThreads, status[co] = "ok", ci[co] = <<>>
  PROVE  GoesOn(co, <<Frame("lua", TRUE)>>, 0)
<1> DEFINE s2 == <<Frame("lua", TRUE)>>
<1>1. /\ s2 \in Seq(FrameType) /\ ListRight(s2) /\ ~Waits(s2) /\ Len(s2) = 1
      /\ s2[1] = Frame("lua", TRUE)
  BY RightFirst
<1>2. MaxFrames \in Nat
  BY LuaDoAssumption
<1>3. s2 # <<>> /\ DOMAIN s2 = 1 .. 1
  OBVIOUS
<1>4. Frame("lua", TRUE).fn = "lua" /\ ~Frame("lua", TRUE).ypcall
  BY DEF Frame
<1> HIDE DEF s2
<1>5. \A j \in DOMAIN s2 : ~IsC(s2[j]) /\ ~s2[j].ypcall
  <2>1. \A j \in 1 .. 1 : j = 1
    OBVIOUS
  <2> QED
    BY <1>1, <1>3, <1>4, <2>1 DEF IsC
<1>6. co \notin stale \cup spoiled => ListHandled(s2, errfunc[co])
  <2> SUFFICES ASSUME co \notin stale \cup spoiled PROVE ListHandled(s2, errfunc[co])
    OBVIOUS
  <2>1. Handled(ci, cstack, status, errfunc, stale \cup spoiled)
    BY DEF DoInv
  <2>2. ListHandled(ci[co], errfunc[co])
    BY <2>1 DEF Handled
  <2>3. Len(ci[co]) = 0
    OBVIOUS
  <2>4. errfunc[co] = 0
    BY <2>2, <2>3, HandlerNone DEF ListHandled
  <2>5. HandlerAt(s2, 1) = 0
    <3>0. ~Protected(s2[1])
      BY <1>1, <1>4 DEF Protected
    <3>1. ~Protected(s2[0 + 1]) /\ 0 + 1 = 1 /\ 0 \in Nat
      BY <3>0
    <3>2. HandlerAt(s2, 0 + 1) = HandlerAt(s2, 0)
      BY <3>1, HandlerNext
    <3>3. HandlerAt(s2, 0) = 0
      BY HandlerNone
    <3> QED
      BY <3>1, <3>2, <3>3
  <2> QED
    BY <1>1, <1>5, <2>4, <2>5 DEF ListHandled
<1>7. \A j \in 1 .. 0 : s2[j] = ci[co][j]
  OBVIOUS
<1>8. Len(s2) <= MaxFrames + 1 /\ 0 \in Nat /\ 0 <= Len(s2)
  BY <1>1, <1>2
<1> QED
  BY <1>1, <1>3, <1>5, <1>6, <1>7, <1>8 DEF GoesOn, s2

LEMMA Continues ==
  ASSUME DoInv, NEW co \in LuaThreads, status[co] = "yield"
  PROVE  GoesOn(co, Below(ci[co]), Len(ci[co]) - 1)
<1> DEFINE s == ci[co]
           L == Len(s)
           s2 == Below(s)
           m == L - 1
<1>1. /\ DoTypeOK /\ FramesRight(ci, status) /\ StackRight(ci, cstack, status, nny, spoiled)
      /\ Handled(ci, cstack, status, errfunc, stale \cup spoiled)
  BY DEF DoInv
<1>2. s \in Seq(FrameType) /\ ListRight(s) /\ Waits(s) /\ L <= MaxFrames + 2 /\ MaxFrames \in Nat
  BY <1>1, LuaDoAssumption DEF DoTypeOK, Lists, FramesRight
<1>3. s # <<>> /\ s[L].fn = "yield"
  BY <1>2 DEF Waits
<1>4. L \in 1 .. L /\ DOMAIN s = 1 .. L /\ L \in Nat
  BY <1>2, <1>3, NotEmpty
<1>5. FrameRight(s, L)
  BY <1>2, <1>4 DEF ListRight
<1>6. 1 < L /\ s[L - 1].fn = "lua"
  BY <1>3, <1>5 DEF FrameRight
<1>7. CutTo(FrameType, s, s2, m)
  BY <1>2, <1>3, BelowIs
<1> HIDE DEF s2, m, L, s
<1>8. m = L - 1 /\ m \in Nat /\ 0 < m /\ m + 1 = L /\ s[m].fn = "lua" /\ L = Len(s)
  BY <1>4, <1>6 DEF m, L
<1>9. /\ s2 \in Seq(FrameType) /\ ListRight(s2) /\ Len(s2) = m /\ ~Waits(s2)
      /\ \A j \in 1 .. m : s2[j] = s[j]
  BY <1>2, <1>7, <1>8, RightCut
<1>10. DOMAIN s2 = 1 .. m /\ s2 # <<>>
  <2>1. DOMAIN s2 = 1 .. m
    BY <1>7 DEF CutTo
  <2> QED
    BY <1>8, <1>9, <2>1
<1>11. Len(s2) <= MaxFrames + 1
  BY <1>2, <1>8, <1>9
<1>12. ASSUME co \notin spoiled, NEW j \in 1 .. m, IsC(s2[j]) PROVE s2[j].ypcall
  <2>1. PICK f, h \in [DOMAIN cstack -> Nat] :
          /\ Placed(ci, cstack, f) /\ Counts(cstack, nny, spoiled, f, h)
          /\ Returned(ci, cstack, status, spoiled, f)
    BY <1>1 DEF StackRight
  <2>2. \A i \in DOMAIN cstack : cstack[i].th # co
    BY <1>1 DEF StackRight, Alive
  <2>3. j \in DOMAIN ci[co] /\ s2[j] = ci[co][j] /\ co \in LuaThreads \ spoiled
    BY <1>4, <1>8, <1>9, <1>12 DEF s
  <2>4. status[co] # "error"
    OBVIOUS
  <2> QED
    BY <1>12, <2>1, <2>2, <2>3, <2>4 DEF Returned
<1>13. co \notin stale \cup spoiled => ListHandled(s2, errfunc[co])
  <2> SUFFICES ASSUME co \notin stale \cup spoiled PROVE ListHandled(s2, errfunc[co])
    OBVIOUS
  <2>1. ListHandled(s, errfunc[co])
    BY <1>1 DEF Handled, s
  <2>2. HandlerAt(s, m + 1) = HandlerAt(s, m)
    <3>1. ~Protected(s[m + 1])
      BY <1>3, <1>8 DEF Protected
    <3> QED
      BY <1>8, <3>1, HandlerNext
  <2>3. HandlerAt(s2, m) = HandlerAt(s, m)
    BY <1>8, <1>9, HandlerKept
  <2>4. errfunc[co] = HandlerAt(s2, Len(s2))
    BY <1>8, <1>9, <2>1, <2>2, <2>3 DEF ListHandled
  <2>5. /\ \A j \in 1 .. Len(s2) : m < j => ~s2[j].ypcall
        /\ DOMAIN s = 1 .. Len(s) /\ DOMAIN s2 = 1 .. Len(s2) /\ Len(s) \in Nat /\ Len(s2) \in Nat
        /\ m <= Len(s) /\ m <= Len(s2)
    BY <1>4, <1>8, <1>9, <1>10
  <2> QED
    BY <1>8, <1>9, <2>1, <2>4, <2>5, HandledCut
<1>14. GoesOn(co, s2, m)
  BY <1>8, <1>9, <1>10, <1>11, <1>12, <1>13 DEF GoesOn, s
<1> QED
  BY <1>14 DEF s2, m, L, s

LEMMA ResumeStep ==
  ASSUME DoInv, NEW th, th = running, NEW co \in LuaThreads, lua_resume(th, co)
  PROVE  DoInv'
<1> DEFINE n == Len(cstack)
           e == ResumeEntry(th, co)
           before == ushort(nCcalls[th] + 1)
<1>1. RunningFacts(th)
  BY RunningIs
<1>2. /\ th \in LuaThreads /\ cstack \in Seq(EntryType) /\ n \in Nat /\ DOMAIN cstack = 1 .. n
      /\ n \in 1 .. n /\ \A i \in DOMAIN cstack : cstack[i].th \in LuaThreads
  BY <1>1 DEF RunningFacts
<1>3. /\ DoTypeOK /\ FramesRight(ci, status) /\ StackRight(ci, cstack, status, nny, spoiled)
      /\ Handled(ci, cstack, status, errfunc, stale \cup spoiled) /\ escaped \subseteq spoiled
  BY DEF DoInv
<1>4. before \in Int /\ ushort(before - 1) \in Int
  <2>1. nCcalls[th] \in Int /\ nCcalls[th] + 1 \in Int
    BY <1>2, <1>3 DEF DoTypeOK, Counters
  <2>2. before \in Int
    BY <2>1, UshortIs
  <2> HIDE DEF before
  <2>3. before - 1 \in Int
    BY <2>2
  <2> QED
    BY <2>2, <2>3, UshortIs
<1>5. /\ co # MainThread /\ Resumable(co) /\ status' = [status EXCEPT ![co] = "ok"]
      /\ nny' = [nny EXCEPT ![co] = 0]
      /\ UNCHANGED <<has, errfunc, spoiled, stale, escaped>>
  BY DEF lua_resume
<1>6. cstack' = Append(cstack, e)
  BY DEF lua_resume, ResumeEntry, Push
<1>7. \/ /\ status[co] = "ok" /\ ci[co] = <<>> /\ ci' = [ci EXCEPT ![co] = <<Frame("lua", TRUE)>>]
         /\ nCcalls' = [nCcalls EXCEPT ![co] = before]
      \/ /\ status[co] = "yield" /\ ci' = [ci EXCEPT ![co] = Below(ci[co])]
         /\ nCcalls' = [nCcalls EXCEPT ![co] = ushort(before - 1)]
  BY DEF lua_resume, Resumable
<1>8. e \in EntryType /\ IsResume(e) /\ ~IsPcall(e) /\ e.th = co
  BY <1>2, <1>3, <1>4, ResumeEntryIs
<1> HIDE DEF e, before, n
<1>9. \E s2, m : GoesOn(co, s2, m) /\ ci' = [ci EXCEPT ![co] = s2]
  BY <1>7, Begins, Continues
<1>10. PICK s2, m : GoesOn(co, s2, m) /\ ci' = [ci EXCEPT ![co] = s2]
  BY <1>9
<1>11. nCcalls' \in Counters
  BY <1>3, <1>4, <1>7 DEF DoTypeOK, Counters
<1>12. ci' \in Lists /\ ci'[co] = s2 /\ \A t \in LuaThreads : t # co => ci'[t] = ci[t]
  BY <1>3, <1>10 DEF DoTypeOK, Lists, GoesOn
<1>13. nny' \in Counters /\ nny'[co] = 0 /\ \A t \in LuaThreads : t # co => nny'[t] = nny[t]
  BY <1>3, <1>5 DEF DoTypeOK, Counters
<1>14. status' \in Statuses /\ status'[co] = "ok" /\ \A t \in LuaThreads : t # co => status'[t] = status[t]
  BY <1>3, <1>5 DEF DoTypeOK, Statuses
<1>15. Joined(EntryType, cstack, cstack', e)
  BY <1>2, <1>6, <1>8, JoinedIs
<1>16. /\ cstack' \in Seq(EntryType) /\ Len(cstack') = n + 1 /\ DOMAIN cstack' = 1 .. n + 1
       /\ \A i \in 1 .. n : cstack'[i] = cstack[i]
       /\ cstack'[n + 1] = e
  BY <1>15 DEF Joined, n
<1>17. \A i \in 1 .. n : cstack[i].th # co
  <2>1. Alive(ci, cstack, status)
    BY <1>3 DEF StackRight
  <2>2. status[co] # "ok" \/ ci[co] = <<>>
    BY <1>7
  <2> QED
    BY <1>2, <2>1, <2>2 DEF Alive
<1>18. ResumedBy(cstack, cstack', n, co, ci, ci', nny, nny', status, status', spoiled)
  <2>1. Prefix(cstack, cstack', n)
    <3>1. n \in 1 .. n + 1
      BY <1>2
    <3> QED
      BY <1>2, <1>16, <3>1 DEF Prefix, n
  <2>2. IsResume(cstack'[n + 1]) /\ cstack'[n + 1].th = co
    BY <1>8, <1>16
  <2>3. ci'[co] # <<>> /\ (co \notin spoiled => \A j \in DOMAIN ci'[co] : IsC(ci'[co][j]) => ci'[co][j].ypcall)
    BY <1>10, <1>12 DEF GoesOn
  <2>4. co \in LuaThreads \ {MainThread}
    BY <1>5
  <2> QED
    BY <1>2, <1>12, <1>13, <1>14, <1>16, <1>17, <2>1, <2>2, <2>3, <2>4 DEF ResumedBy
<1>19. StackRight(ci', cstack', status', nny', spoiled')
  BY <1>3, <1>5, <1>18, ResumeStack
<1>20. FramesRight(ci', status')
  <2>1. FramesBy(co, ci, ci', status, status')
    BY <1>10, <1>12, <1>14 DEF FramesBy, GoesOn
  <2> QED
    BY <1>3, <2>1, FramesStep
<1>21. Handled(ci', cstack', status', errfunc', (stale \cup spoiled)')
  <2> DEFINE lost == stale \cup spoiled
  <2>1. Handled(ci, cstack, status, errfunc, lost) /\ (stale \cup spoiled)' = lost
    BY <1>3, <1>5
  <2> HIDE DEF lost
  <2>2. \A i \in DOMAIN cstack' : cstack'[i].th \in LuaThreads
    <3>1. \A i \in 1 .. n + 1 : i \in 1 .. n \/ i = n + 1
      BY <1>2
    <3> QED
      BY <1>2, <1>8, <1>16, <3>1
  <2>3. co \notin lost => ListHandled(ci'[co], errfunc[co])
    BY <1>10, <1>12 DEF GoesOn, lost
  <2>4. m \in Nat /\ Len(ci'[co]) \in Nat /\ m <= Len(ci'[co]) /\ \A j \in 1 .. m : ci'[co][j] = ci[co][j]
    BY <1>10, <1>12 DEF GoesOn
  <2>5. ASSUME NEW i \in DOMAIN cstack', IsPcall(cstack'[i])
        PROVE  i \in DOMAIN cstack /\ cstack'[i] = cstack[i] /\ cstack[i].th # co
    <3>1. i # n + 1
      BY <1>8, <1>16, <2>5
    <3>2. i \in 1 .. n
      BY <1>2, <1>16, <3>1
    <3> QED
      BY <1>2, <1>16, <1>17, <3>2
  <2>6. HandledBy(co, m, ci, ci', cstack, cstack', status, status', errfunc, errfunc, lost, lost)
    BY <1>2, <1>12, <1>14, <2>2, <2>3, <2>4, <2>5 DEF HandledBy
  <2>7. Handled(ci', cstack', status', errfunc, lost)
    BY <2>1, <2>6, HandledStep
  <2> QED
    BY <1>5, <2>1, <2>7
<1>22. DoTypeOK'
  BY <1>3, <1>5, <1>11, <1>12, <1>13, <1>14, <1>16 DEF DoTypeOK
<1> QED
  BY <1>3, <1>5, <1>19, <1>20, <1>21, <1>22 DEF DoInv

(* A resume that fails has touched counters, which count for other threads only. *)
LEMMA ResumeErrorStep ==
  ASSUME DoInv, NEW th, th = running, NEW co \in LuaThreads, lua_resume_error(th, co)
  PROVE  DoInv'
<1>1. th \in LuaThreads /\ \A i \in DOMAIN cstack : cstack[i].th \in LuaThreads
  BY RunningIs DEF RunningFacts
<1>2. /\ DoTypeOK /\ FramesRight(ci, status) /\ StackRight(ci, cstack, status, nny, spoiled)
      /\ Handled(ci, cstack, status, errfunc, stale \cup spoiled) /\ escaped \subseteq spoiled
  BY DEF DoInv
<1>3. /\ nny' = [nny EXCEPT ![co] = 1] /\ nCcalls' = [nCcalls EXCEPT ![co] = nCcalls[th]]
      /\ spoiled' = IF status[co] = "ok" /\ <<nny[co], nCcalls[co]>> # <<1, nCcalls[th]>>
                    THEN spoiled \cup {co} ELSE spoiled
      /\ UNCHANGED <<ci, cstack, status, has, errfunc, stale, escaped>>
  BY DEF lua_resume_error
<1>4. spoiled \subseteq spoiled' /\ (status[co] = "ok" /\ co \notin spoiled' => nny[co] = 1)
  BY <1>3
<1>5. nny' \in Counters /\ nny'[co] = 1 /\ \A t \in LuaThreads : t # co => nny'[t] = nny[t]
  BY <1>2, <1>3 DEF DoTypeOK, Counters
<1>6. nCcalls' \in Counters
  <2>1. nCcalls[th] \in Int
    BY <1>1, <1>2 DEF DoTypeOK, Counters
  <2> QED
    BY <1>2, <1>3, <2>1 DEF DoTypeOK, Counters
<1>7. DoTypeOK'
  BY <1>2, <1>3, <1>5, <1>6 DEF DoTypeOK
<1>8. StackRight(ci, cstack, status, nny', spoiled')
  <2>1. ASSUME NEW i \in DOMAIN cstack, cstack[i].th \notin spoiled'
        PROVE  nny'[cstack[i].th] = nny[cstack[i].th]
    <3>1. status[cstack[i].th] = "ok"
      BY <1>2 DEF StackRight, Alive
    <3>2. CASE cstack[i].th = co
      BY <1>4, <1>5, <2>1, <3>1, <3>2
    <3>3. CASE cstack[i].th # co
      BY <1>1, <1>5, <3>3
    <3> QED
      BY <3>2, <3>3
  <2> QED
    BY <1>2, <1>4, <2>1, SpoiledStack
<1>9. Handled(ci, cstack, status, errfunc, stale \cup spoiled')
  <2>1. ASSUME NEW t \in LuaThreads \ (stale \cup spoiled'), status[t] # "error"
        PROVE  ListHandled(ci[t], errfunc[t])
    BY <1>2, <1>4, <2>1 DEF Handled
  <2>2. ASSUME NEW i \in DOMAIN cstack, IsPcall(cstack[i]), cstack[i].th \notin stale \cup spoiled'
        PROVE  /\ cstack[i].ci \in 1 .. Len(ci[cstack[i].th])
               /\ cstack[i].errfunc = HandlerAt(ci[cstack[i].th], cstack[i].ci - 1)
    BY <1>2, <1>4, <2>2 DEF Handled
  <2> QED
    BY <2>1, <2>2 DEF Handled
<1> QED
  BY <1>2, <1>3, <1>4, <1>7, <1>8, <1>9 DEF DoInv

-----------------------------------------------------------------------------
(* At first the main thread is in one Lua function, which the C stack has called. *)
LEMMA FirstStack ==
  ASSUME DoInit
  PROVE  StackRight(ci, cstack, status, nny, spoiled)
<1> DEFINE e == CallEntry(MainThread, FALSE)
           s == <<Frame("lua", TRUE)>>
           f == [i \in 1 .. 1 |-> 1]
           h == [i \in 1 .. 1 |-> 2]
<1>1. /\ e.c = "call" /\ e.th = MainThread /\ ~e.allowyield
      /\ Frame("lua", TRUE).fn = "lua" /\ Frame("lua", TRUE).fresh
  BY DEF CallEntry, Frame
<1>2. /\ Len(cstack) = 1 /\ DOMAIN cstack = 1 .. 1 /\ cstack[1] = e /\ 1 \in DOMAIN cstack
      /\ \A i \in DOMAIN cstack : i = 1
  BY DEF DoInit
<1>3. IsCall(cstack[1]) /\ ~IsPcall(cstack[1]) /\ ~IsResume(cstack[1]) /\ cstack[1].th = MainThread
  BY <1>1, <1>2 DEF IsCall, IsPcall, IsResume
<1>4. /\ MainThread \in LuaThreads /\ ci[MainThread] = s /\ nny[MainThread] = 2
      /\ \A th \in LuaThreads : status[th] = "ok" /\ (th # MainThread => ci[th] = <<>>)
  BY DEF DoInit, LuaThreads
<1>5. /\ DOMAIN s = 1 .. 1 /\ s # <<>> /\ s[1].fn = "lua" /\ s[1].fresh /\ ~IsC(s[1])
      /\ \A j \in DOMAIN s : j = 1
  <2>1. Len(s) = 1 /\ s[1] = Frame("lua", TRUE) /\ DOMAIN s = 1 .. 1
    BY RightFirst
  <2> HIDE DEF s
  <2>2. s # <<>> /\ \A j \in 1 .. 1 : j = 1
    BY <2>1
  <2> QED
    BY <1>1, <2>1, <2>2 DEF IsC
<1>6. f \in [DOMAIN cstack -> Nat] /\ h \in [DOMAIN cstack -> Nat] /\ f[1] = 1 /\ h[1] = 2
  BY <1>2
<1> HIDE DEF e, s, f, h
<1>7. \A i, k \in DOMAIN cstack : ~Above(cstack, i, k)
  BY <1>2 DEF Above
<1>8. Pieces(cstack)
  <2>1. \A i \in DOMAIN cstack : PieceAt(cstack, i)
    BY <1>2, <1>3 DEF PieceAt
  <2>2. Convex(cstack)
    BY <1>2 DEF Convex
  <2> QED
    BY <1>2, <2>1, <2>2 DEF Pieces, e
<1>9. Alive(ci, cstack, status)
  BY <1>2, <1>3, <1>4, <1>5 DEF Alive
<1>10. Placed(ci, cstack, f)
  <2>1. CallPlaced(s, cstack, f, 1)
    BY <1>2, <1>5, <1>6 DEF CallPlaced
  <2>2. Matched(s, cstack, f, 1)
    BY <1>5 DEF Matched
  <2>3. PlacedAt(ci, cstack, f, 1)
    BY <1>2, <1>3, <1>4, <1>7, <2>1, <2>2 DEF PlacedAt
  <2> QED
    BY <1>2, <2>3 DEF Placed
<1>11. Counts(cstack, nny, spoiled, f, h)
  <2>1. Level(cstack, f, h, 1)
    BY <1>2, <1>3, <1>6, <1>7 DEF Level
  <2>2. Trusted(cstack, nny, h, 1)
    BY <1>1, <1>2, <1>3, <1>4, <1>6 DEF Trusted
  <2> QED
    BY <1>2, <2>1, <2>2 DEF Counts
<1>12. Returned(ci, cstack, status, spoiled, f)
  <2> SUFFICES ASSUME NEW th \in LuaThreads, NEW j \in DOMAIN ci[th] PROVE ~IsC(ci[th][j])
    BY DEF Returned
  <2>1. th = MainThread
    BY <1>4
  <2> QED
    BY <1>4, <1>5, <2>1
<1> QED
  BY <1>6, <1>8, <1>9, <1>10, <1>11, <1>12 DEF StackRight

LEMMA InitInv ==
  ASSUME DoInit
  PROVE  DoInv
<1> DEFINE s == <<Frame("lua", TRUE)>>
<1>1. s \in Seq(FrameType) /\ ListRight(s) /\ ~Waits(s) /\ Len(s) = 1 /\ s[1] = Frame("lua", TRUE)
  BY RightFirst
<1>2. DOMAIN s = 1 .. 1 /\ Frame("lua", TRUE).fn = "lua" /\ ~Frame("lua", TRUE).ypcall
  BY DEF Frame
<1> HIDE DEF s
<1>3. /\ ci = [th \in LuaThreads |-> IF th = MainThread THEN s ELSE <<>>]
      /\ cstack = <<CallEntry(MainThread, FALSE)>> /\ status = [th \in LuaThreads |-> "ok"]
      /\ nny = [th \in LuaThreads |-> IF th = MainThread THEN 2 ELSE 1]
      /\ nCcalls = [th \in LuaThreads |-> IF th = MainThread THEN 1 ELSE 0]
      /\ errfunc = [th \in LuaThreads |-> 0] /\ spoiled = {} /\ stale = {} /\ escaped = {}
  BY DEF DoInit, s
<1>4. MaxFrames \in Nat /\ MainThread \in LuaThreads
  BY LuaDoAssumption DEF LuaThreads
<1>5. /\ CallEntry(MainThread, FALSE) \in EntryType
      /\ CallEntry(MainThread, FALSE).c = "call"
  BY <1>4 DEF CallEntry, EntryType, CallType
<1>6. <<>> \in Seq(FrameType) /\ Len(<<>>) = 0 /\ DOMAIN <<>> = {}
  OBVIOUS
<1>7. DoTypeOK
  <2>1. ci \in Lists
    BY <1>1, <1>3, <1>6 DEF Lists
  <2>2. cstack \in Seq(EntryType)
    <3>1. \A e \in EntryType : <<e>> \in Seq(EntryType)
      OBVIOUS
    <3> QED
      BY <1>3, <1>5, <3>1
  <2>3. status \in Statuses /\ nny \in Counters /\ nCcalls \in Counters
    BY <1>3 DEF Statuses, Counters
  <2>4. errfunc \in [LuaThreads -> Nat]
    BY <1>3
  <2> QED
    BY <2>1, <2>2, <2>3, <2>4 DEF DoTypeOK
<1>8. FramesRight(ci, status)
  <2> SUFFICES ASSUME NEW th \in LuaThreads
               PROVE  /\ ListRight(ci[th]) /\ ~Waits(ci[th]) /\ status[th] = "ok"
                      /\ Len(ci[th]) <= MaxFrames + 1
    BY DEF FramesRight
  <2>1. ci[th] = s \/ ci[th] = <<>>
    BY <1>3
  <2>2. ListRight(<<>>) /\ ~Waits(<<>>)
    BY <1>6 DEF ListRight, Waits
  <2>3. Len(ci[th]) = 1 \/ Len(ci[th]) = 0
    BY <1>1, <1>6, <2>1
  <2>4. 1 <= MaxFrames + 1 /\ 0 <= MaxFrames + 1
    BY <1>4
  <2>5. Len(ci[th]) <= MaxFrames + 1
    BY <2>3, <2>4
  <2> QED
    BY <1>1, <1>3, <2>1, <2>2, <2>5
<1>9. Handled(ci, cstack, status, errfunc, stale \cup spoiled)
  <2>1. HandlerAt(s, 1) = 0
    <3>0. ~Protected(s[1])
      BY <1>1, <1>2 DEF Protected
    <3>1. ~Protected(s[0 + 1]) /\ 0 + 1 = 1 /\ 0 \in Nat
      BY <3>0
    <3>2. HandlerAt(s, 0 + 1) = HandlerAt(s, 0)
      BY <3>1, HandlerNext
    <3> QED
      BY <3>1, <3>2, HandlerNone
  <2>2. \A j \in DOMAIN s : ~s[j].ypcall
    <3>1. \A j \in 1 .. 1 : j = 1
      OBVIOUS
    <3> QED
      BY <1>1, <1>2, <3>1
  <2>3. ListHandled(s, 0)
    BY <1>1, <2>1, <2>2 DEF ListHandled
  <2>4. ListHandled(<<>>, 0)
    BY <1>6, HandlerNone DEF ListHandled
  <2>5. \A i \in DOMAIN cstack : ~IsPcall(cstack[i])
    <3>0. \A e : \A i \in DOMAIN <<e>> : <<e>>[i] = e
      OBVIOUS
    <3>1. \A i \in DOMAIN cstack : cstack[i] = CallEntry(MainThread, FALSE)
      BY <1>3, <3>0
    <3> QED
      BY <1>5, <3>1 DEF IsPcall
  <2>6. \A th \in LuaThreads : ListHandled(ci[th], errfunc[th])
    BY <1>3, <2>3, <2>4
  <2> QED
    BY <2>5, <2>6 DEF Handled
<1>10. escaped \subseteq spoiled
  BY <1>3
<1> QED
  BY <1>7, <1>8, <1>9, <1>10, FirstStack DEF DoInv

LEMMA NextInv ==
  ASSUME FewFrames, DoInv, [DoNext]_doVars
  PROVE  DoInv'
<1>1. CASE UNCHANGED doVars
  BY <1>1 DEF doVars, DoInv, DoTypeOK
<1>2. CASE DoNext
  <2> DEFINE th == running
  <2>1. CASE CallLua(th)
    BY <2>1, CallLuaStep
  <2>2. CASE lua_call(th)
    BY <2>2, CallStep
  <2>3. ASSUME NEW fn \in {"pcall", "xpcall"}, lua_pcallk(th, fn) PROVE DoInv'
    BY <2>3, PcallStep
  <2>4. CASE Return(th)
    BY <2>4, ReturnStep
  <2>5. CASE Error(th)
    BY <2>5, ErrorStep
  <2>6. CASE lua_yield(th)
    BY <2>6, YieldStep
  <2>7. ASSUME NEW co \in LuaThreads, lua_resume(th, co) PROVE DoInv'
    BY <2>7, ResumeStep
  <2>8. ASSUME NEW co \in LuaThreads, lua_resume_error(th, co) PROVE DoInv'
    BY <2>8, ResumeErrorStep
  <2> QED
    BY <1>2, <2>1, <2>2, <2>3, <2>4, <2>5, <2>6, <2>7, <2>8 DEF DoNext
<1> QED
  BY <1>1, <1>2

(* A yield unwinds no C function that must be returned to, and an error is caught by
   the protected call furthest in and handled by what that call asked for, whatever
   the threads call, however deep they nest and whichever resume one another, as long
   as nny, an unsigned short, can count the calls of a thread (FewFrames): ldo.c. *)
THEOREM LuaUnwindsSafely ==
  ASSUME FewFrames
  PROVE  DoSpec => []UnwindsSafely
<1>1. DoInit => DoInv
  BY InitInv
<1>2. DoInv /\ [DoNext]_doVars => DoInv'
  BY NextInv
<1>3. DoInv => UnwindsSafely
  BY UnwindsFromInv
<1> QED
  BY <1>1, <1>2, <1>3, PTL DEF DoSpec
=============================================================================
