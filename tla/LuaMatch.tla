------------------------------ MODULE LuaMatch ------------------------------
(***************************************************************************)
(* Pattern matching (lstrlib.c): match() backtracks over one array of      *)
(* captures that it changes in place and has to restore whenever it fails. *)
(* A pattern is a sequence of items, the pieces match() reads at a time;   *)
(* an item is a tuple, a character class is a tuple too.  Positions count  *)
(* from 1, as the library reports them.                                    *)
(***************************************************************************)
EXTENDS Integers, Sequences, TLC
LOCAL INSTANCE SequencesExt
LOCAL INSTANCE FiniteSetsExt

CONSTANTS PatternItems,   \* the items a pattern is made of
          MaxItems,       \* bound on its length
          LongPatterns,   \* longer patterns
          Subjects,       \* strings, sequences of characters
          LUA_MAXCAPTURES

VARIABLE pattern

(* ------------------------------- classes ------------------------------- *)

(* A bracket class is the set of the characters it lists, ranges and       *)
(* classes among them, and whether it is complemented.                     *)
matchbracketclass(c, class) == (c \in class[2]) # class[3]

singlematch(c, class) ==
  CASE class[1] = "any" -> TRUE
    [] class[1] = "char" -> c = class[2]
    [] class[1] = "set" -> matchbracketclass(c, class)

(* ------------------------------- matching ------------------------------ *)

(* MatchState and what match() returns: at is the position after the match *)
(* or NoMatch.  Captures above the level keep what they last held.         *)
NoMatch == 0
CAP_UNFINISHED == -1
CAP_POSITION == -2

State(s, pat) ==
  [src |-> s, pat |-> pat, level |-> 0, at |-> NoMatch, error |-> FALSE,
   capture |-> [l \in 1 .. LUA_MAXCAPTURES |-> [init |-> 1, len |-> 0]]]

SrcEnd(ms) == Len(ms.src) + 1
MatchedAt(ms, s) == [ms EXCEPT !.at = s]
Failed(ms) == MatchedAt(ms, NoMatch)
LuaError(ms) == [Failed(ms) EXCEPT !.error = TRUE]
TryNext(ms) == ms.at = NoMatch /\ ~ms.error

check_capture(ms, l) == l \in 1 .. ms.level /\ ms.capture[l].len # CAP_UNFINISHED

(* The innermost open capture, 0 if there is none.                         *)
capture_to_close(ms) ==
  Max({0} \cup {l \in 1 .. ms.level : ms.capture[l].len = CAP_UNFINISHED})

(* The length of a position capture is negative and compared without its   *)
(* sign: nothing is that long.                                             *)
match_capture(ms, s, l) ==
  LET c == ms.capture[l]
  IN IF c.len >= 0 /\ SrcEnd(ms) - s >= c.len
          /\ SubSeq(ms.src, c.init, c.init + c.len - 1) = SubSeq(ms.src, s, s + c.len - 1)
     THEN s + c.len ELSE NoMatch

RECURSIVE Balance(_, _, _, _, _)
Balance(ms, s, b, e, cont) ==
  IF s = SrcEnd(ms) THEN NoMatch
  ELSE IF ms.src[s] = e
       THEN IF cont = 1 THEN s + 1 ELSE Balance(ms, s + 1, b, e, cont - 1)
       ELSE Balance(ms, s + 1, b, e, IF ms.src[s] = b THEN cont + 1 ELSE cont)

(* The byte past the end of the subject is a zero, which no b is.          *)
matchbalance(ms, s, b, e) ==
  IF s = SrcEnd(ms) \/ ms.src[s] # b THEN NoMatch ELSE Balance(ms, s + 1, b, e, 1)

Zero == "zero"
At(ms, s) == IF s \in 1 .. Len(ms.src) THEN ms.src[s] ELSE Zero
frontier(ms, s, class) ==
  ~matchbracketclass(At(ms, s - 1), class) /\ matchbracketclass(At(ms, s), class)

RECURSIVE match(_, _, _)

UndoLevel(ms) == [ms EXCEPT !.level = @ - 1]

start_capture(ms, s, p, what) ==
  IF ms.level >= LUA_MAXCAPTURES THEN LuaError(ms)
  ELSE LET l == ms.level + 1
           r == match([ms EXCEPT !.capture[l] = [init |-> s, len |-> what], !.level = l], s, p)
       IN IF TryNext(r) THEN UndoLevel(r) ELSE r

KeepClosed(ms, l) == ms
Reopen(ms, l) == [ms EXCEPT !.capture[l].len = CAP_UNFINISHED]

end_capture(ms, s, p) ==
  LET l == capture_to_close(ms)
      r == match([ms EXCEPT !.capture[l].len = s - ms.capture[l].init], s, p)
  IN IF l = 0 THEN LuaError(ms) ELSE IF TryNext(r) THEN Reopen(r, l) ELSE r

(* From i repetitions down to none.                                        *)
RECURSIVE Shrink(_, _, _, _)
Shrink(ms, s, ep, i) ==
  IF i < 0 THEN Failed(ms)
  ELSE LET r == match(ms, s + i, ep) IN IF TryNext(r) THEN Shrink(r, s, ep, i - 1) ELSE r

max_expand(ms, s, class, ep) ==
  Shrink(ms, s, ep, Max({i \in 0 .. SrcEnd(ms) - s :
                           \A k \in s .. s + i - 1 : singlematch(ms.src[k], class)}))

RECURSIVE min_expand(_, _, _, _)
min_expand(ms, s, class, ep) ==
  LET r == match(ms, s, ep)
  IN IF ~TryNext(r) THEN r
     ELSE IF s < SrcEnd(ms) /\ singlematch(ms.src[s], class)
          THEN min_expand(r, s + 1, class, ep) ELSE r

(* A class with its suffix.                                                *)
MatchDefault(ms, s, class, rep, ep) ==
  LET m == s < SrcEnd(ms) /\ singlematch(ms.src[s], class)
      r == match(ms, s + 1, ep)
  IN CASE rep = "?" -> IF ~m THEN match(ms, s, ep)
                       ELSE IF TryNext(r) THEN match(r, s, ep) ELSE r
       [] rep = "*" -> max_expand(ms, s, class, ep)
       [] rep = "+" -> IF m THEN max_expand(ms, s + 1, class, ep) ELSE Failed(ms)
       [] rep = "-" -> min_expand(ms, s, class, ep)
       [] OTHER     -> IF m THEN r ELSE Failed(ms)

(* Where an item that uses no repetition continues.                        *)
Onward(ms, s, p) == IF s = NoMatch THEN Failed(ms) ELSE match(ms, s, p)

match(ms, s, p) ==
  IF p > Len(ms.pat) THEN MatchedAt(ms, s)
  ELSE LET item == ms.pat[p]
       IN CASE item[1] = "position" -> start_capture(ms, s, p + 1, CAP_POSITION)
            [] item[1] = "open" -> start_capture(ms, s, p + 1, CAP_UNFINISHED)
            [] item[1] = "close" -> end_capture(ms, s, p + 1)
            [] item[1] = "dollar" ->
                 IF p # Len(ms.pat) THEN MatchDefault(ms, s, <<"char", "$">>, "", p + 1)
                 ELSE IF s = SrcEnd(ms) THEN MatchedAt(ms, s) ELSE Failed(ms)
            [] item[1] = "balance" -> Onward(ms, matchbalance(ms, s, item[2], item[3]), p + 1)
            [] item[1] = "frontier" ->
                 Onward(ms, IF frontier(ms, s, item[2]) THEN s ELSE NoMatch, p + 1)
            [] item[1] = "back" ->
                 IF check_capture(ms, item[2])
                 THEN Onward(ms, match_capture(ms, s, item[2]), p + 1) ELSE LuaError(ms)
            [] item[1] = "class" -> MatchDefault(ms, s, item[2], item[3], p + 1)

(* -------------------------- find, gmatch, gsub ------------------------- *)

(* What is pushed for capture i; the whole match stands for the first one  *)
(* of a pattern without any.  A capture that is still open is an error.    *)
push_onecapture(ms, i, s) ==
  IF i > ms.level THEN IF i = 1 THEN <<SubSeq(ms.src, s, ms.at - 1)>> ELSE <<>>
  ELSE LET c == ms.capture[i]
       IN CASE c.len = CAP_UNFINISHED -> <<>>
            [] c.len = CAP_POSITION   -> << <<ToString(c.init)>> >>
            [] OTHER                  -> <<SubSeq(ms.src, c.init, c.init + c.len - 1)>>

push_captures(ms, nlevels, s) ==
  LET captures == [i \in 1 .. nlevels |-> push_onecapture(ms, i, s)]
  IN [error |-> \E i \in DOMAIN captures : captures[i] = <<>>, captures |-> FlattenSeq(captures)]

Nothing == [from |-> 0, to |-> 0, captures |-> <<>>, error |-> FALSE]
Raised == [Nothing EXCEPT !.error = TRUE]
Match(ms, s, nlevels) ==
  LET p == push_captures(ms, nlevels, s)
  IN IF p.error THEN Raised
     ELSE [from |-> s, to |-> ms.at - 1, captures |-> p.captures, error |-> FALSE]

RECURSIVE SearchFrom(_, _, _, _)
SearchFrom(ms, s1, anchor, find) ==
  LET r == match([ms EXCEPT !.level = 0], s1, 1)
  IN IF r.error THEN Raised
     ELSE IF r.at # NoMatch
          THEN Match(r, s1, IF r.level = 0 /\ ~find THEN 1 ELSE r.level)
     ELSE IF s1 < SrcEnd(ms) /\ ~anchor THEN SearchFrom(r, s1 + 1, anchor, find)
     ELSE Nothing

(* Whether a pattern may be searched for as it stands, and the search.     *)
nospecials(pat) ==
  \A p \in DOMAIN pat : pat[p][1] = "class" /\ pat[p][2][1] = "char" /\ pat[p][3] = ""

RECURSIVE lmemfind(_, _, _)
lmemfind(s, s1, text) ==
  LET room  == Len(s) - s1 + 1
      firsts == {i \in s1 .. s1 + room - Len(text) : s[i] = text[1]}
  IN IF text = <<>> THEN s1
     ELSE IF Len(text) > room \/ firsts = {} THEN NoMatch
     ELSE LET i == Min(firsts)
          IN IF SubSeq(s, i + 1, i + Len(text) - 1) = Tail(text) THEN i
             ELSE lmemfind(s, i + 1, text)

str_find_aux(s, pat, init, anchor, find) ==
  IF init > Len(s) + 1 THEN Nothing
  ELSE IF find /\ nospecials(pat) /\ ~anchor
       THEN LET text == [p \in DOMAIN pat |-> pat[p][2][2]]
                s2   == lmemfind(s, init, text)
            IN IF s2 = NoMatch THEN Nothing
               ELSE [Nothing EXCEPT !.from = s2, !.to = s2 + Len(text) - 1]
       ELSE SearchFrom(State(s, pat), init, anchor, find)

(* All that an iterator of gmatch returns, one call after another.         *)
RECURSIVE gmatch_aux(_, _)
gmatch_aux(ms, src) ==
  LET r == match([ms EXCEPT !.level = 0], src, 1)
      m == Match(r, src, IF r.level = 0 THEN 1 ELSE r.level)
  IN IF src > SrcEnd(ms) THEN <<>>
     ELSE IF r.error THEN <<Raised>>
     ELSE IF r.at = NoMatch THEN gmatch_aux(r, src + 1)
     ELSE IF m.error THEN <<m>>
     ELSE <<m>> \o gmatch_aux(r, IF r.at = src THEN src + 1 ELSE r.at)

gmatch(s, pat) == gmatch_aux(State(s, pat), 1)

(* add_s with the replacement "<%i>": a capture in brackets.               *)
add_s(ms, i, s) ==
  LET c == IF i = 0 THEN <<SubSeq(ms.src, s, ms.at - 1)>> ELSE push_onecapture(ms, i, s)
  IN IF c = <<>> THEN <<>> ELSE << <<"<">> \o c[1] \o <<">">> >>

SkipMatch(e, src) == e > src

RECURSIVE Substitute(_, _, _, _, _, _)
Substitute(ms, src, b, n, i, anchor) ==
  LET r     == match([ms EXCEPT !.level = 0], src, 1)
      value == add_s(r, i, src)
      b1    == IF r.at = NoMatch THEN b ELSE b \o value[1]
      made  == IF r.at = NoMatch THEN n ELSE n + 1
      more  == src < SrcEnd(ms)
      src1  == IF r.at # NoMatch /\ SkipMatch(r.at, src) THEN r.at
               ELSE IF more THEN src + 1 ELSE src
      b2    == IF (r.at = NoMatch \/ ~SkipMatch(r.at, src)) /\ more
               THEN Append(b1, ms.src[src]) ELSE b1
  IN IF r.error \/ (r.at # NoMatch /\ value = <<>>)
     THEN [text |-> <<>>, n |-> 0, error |-> TRUE]
     ELSE IF src1 = src \/ anchor
     THEN [text |-> b2 \o SubSeq(ms.src, src1, Len(ms.src)), n |-> made, error |-> FALSE]
     ELSE Substitute(r, src1, b2, made, i, anchor)

str_gsub(s, pat, i, anchor) == Substitute(State(s, pat), 1, <<>>, 0, i, anchor)

(* ------------------------------- patterns ------------------------------ *)

matchVars == pattern

MatchInit == pattern = <<>>

AddItem(item) == Len(pattern) < MaxItems /\ pattern' = Append(pattern, item)
TakeLong(p) == pattern = <<>> /\ pattern' = p

MatchNext == \/ \E item \in PatternItems : AddItem(item)
             \/ \E p \in LongPatterns : TakeLong(p)

(* ------------------------------ properties ----------------------------- *)

(* How an item with a suffix may repeat, in the order it is tried.         *)
Counts(rep, most) ==
  LET up(n)   == [i \in 1 .. most - n + 1 |-> n + i - 1]
  IN CASE rep = "" -> IF most >= 1 THEN <<1>> ELSE <<>>
       [] rep = "?" -> IF most >= 1 THEN <<1, 0>> ELSE <<0>>
       [] rep = "*" -> Reverse(up(0))
       [] rep = "+" -> Reverse(up(1))
       [] rep = "-" -> up(0)

Wrong == [at |-> NoMatch, caps |-> <<>>]

(* All the ways the pattern matches from s on, in the order of preference, *)
(* each with its own captures; Wrong where the pattern makes no sense.     *)
RECURSIVE Ways(_, _, _, _, _)
Ways(str, pat, s, p, caps) ==
  LET item == pat[p]
      GoOn(S, c) == FlattenSeq([i \in DOMAIN S |-> Ways(str, pat, S[i], p + 1, c)])
      open == {l \in DOMAIN caps : caps[l].len = CAP_UNFINISHED}
      Repeats(class, rep) ==
        LET most == Max({n \in 0 .. Len(str) - s + 1 :
                           \A k \in s .. s + n - 1 : singlematch(str[k], class)})
        IN [i \in DOMAIN Counts(rep, most) |-> s + Counts(rep, most)[i]]
      Ends(S) == SetToSortSeq(S, LAMBDA a, b : a < b)
      Count(c, t) == Cardinality({k \in s .. t : str[k] = c})
  IN IF p > Len(pat) THEN <<[at |-> s, caps |-> caps]>>
     ELSE CASE item[1] = "class" -> GoOn(Repeats(item[2], item[3]), caps)
            [] item[1] = "dollar" ->
                 IF p = Len(pat) THEN GoOn(IF s = Len(str) + 1 THEN <<s>> ELSE <<>>, caps)
                 ELSE GoOn(Repeats(<<"char", "$">>, ""), caps)
            [] item[1] \in {"open", "position"} ->
                 IF Len(caps) = LUA_MAXCAPTURES THEN <<Wrong>>
                 ELSE GoOn(<<s>>, Append(caps, [init |-> s, len |-> IF item[1] = "open"
                                              THEN CAP_UNFINISHED ELSE CAP_POSITION]))
            [] item[1] = "close" ->
                 IF open = {} THEN <<Wrong>>
                 ELSE GoOn(<<s>>, [caps EXCEPT ![Max(open)].len = s - caps[Max(open)].init])
            [] item[1] = "back" ->
                 IF item[2] \notin (DOMAIN caps) \ open THEN <<Wrong>>
                 ELSE LET c == caps[item[2]]
                      IN GoOn(IF c.len < 0 THEN <<>> ELSE
                              Ends({t \in {s + c.len} :
                                      IsPrefix(SubSeq(str, c.init, c.init + c.len - 1),
                                               SubSeq(str, s, Len(str)))}), caps)
            [] item[1] = "frontier" ->
                 GoOn(IF ~matchbracketclass(At([src |-> str], s - 1), item[2])
                         /\ matchbracketclass(At([src |-> str], s), item[2])
                      THEN <<s>> ELSE <<>>, caps)
            [] item[1] = "balance" ->     \* the shortest stretch that balances
                 LET Balanced(t) == /\ str[s] = item[2] /\ str[t] = item[3] /\ t > s
                                    /\ item[2] = item[3] \/ Count(item[2], t) = Count(item[3], t)
                     ends == {t \in s .. Len(str) : Balanced(t)}
                 IN GoOn(IF ends = {} THEN <<>> ELSE <<Min(ends) + 1>>, caps)

(* match() finds, from any position, the first way the pattern matches if  *)
(* the choices are tried in the order of the manual and every choice has   *)
(* captures of its own: backtracking restores what it has changed.  It     *)
(* raises an error exactly when the first way does.                        *)
MatchesFirst(str) ==
  \A s \in 1 .. Len(str) + 1 :
    LET r == match(State(str, pattern), s, 1)
        ways == Ways(str, pattern, s, 1, <<>>)
    IN IF ways = <<>> THEN TryNext(r) /\ r.level = 0
       ELSE IF Head(ways) = Wrong THEN r.error
       ELSE /\ ~r.error /\ r.at = Head(ways).at
            /\ SubSeq(r.capture, 1, r.level) = Head(ways).caps

(* What gsub makes of a subject, from what gmatch finds in it.             *)
Rewritten(str, i) ==
  LET ms == gmatch(str, pattern)
      Before(k) == SubSeq(str, IF k = 1 THEN 1 ELSE ms[k - 1].to + 1, ms[k].from - 1)
      Text(m) == IF i = 0 THEN SubSeq(str, m.from, m.to) ELSE m.captures[i]
      Rest == IF ms = <<>> THEN str ELSE SubSeq(str, Last(ms).to + 1, Len(str))
  IN FlattenSeq([k \in DOMAIN ms |-> Before(k) \o <<"<">> \o Text(ms[k]) \o <<">">>]) \o Rest

(* The searches agree with match() and with one another: find reports the  *)
(* leftmost position with a match, the plain search of a text finds what   *)
(* its pattern matches, and gsub replaces what gmatch goes through, with   *)
(* everything between left as it was.                                      *)
SearchesAgree(str) ==
  LET starts == {s \in 1 .. Len(str) + 1 : Ways(str, pattern, s, 1, <<>>) # <<>>}
      m      == str_find_aux(str, pattern, 1, FALSE, FALSE)
      f      == str_find_aux(str, pattern, 1, FALSE, TRUE)
      all    == gmatch(str, pattern)
      bad    == \E k \in DOMAIN all : all[k].error
  IN /\ ~m.error => m.from = Min(starts \cup {IF starts = {} THEN 0 ELSE Len(str) + 1})
     /\ f.error = m.error /\ f.from = m.from /\ f.to = m.to
     /\ ~bad => \A i \in {0} \cup (IF all = <<>> THEN {} ELSE DOMAIN all[1].captures) :
                  LET g == str_gsub(str, pattern, i, FALSE)
                  IN ~g.error /\ g.n = Len(all) /\ g.text = Rewritten(str, i)
     /\ LET g == str_gsub(str, pattern, 0, TRUE)
            a == str_find_aux(str, pattern, 1, TRUE, FALSE)
        IN ~a.error => g.n = IF a.from = 1 THEN 1 ELSE 0

PatternsMatch ==
  pattern # <<>> => \A str \in Subjects : MatchesFirst(str) /\ SearchesAgree(str)
=============================================================================
