------------------------------- MODULE LuaAux -------------------------------
(***************************************************************************)
(* What C code builds on the stack of a function (lapi.c) and the helpers  *)
(* of lauxlib.c: string buffers, whose growing memory is a userdata on     *)
(* that stack, and references, integer keys of a table with a list of free *)
(* ones inside of it.                                                      *)
(***************************************************************************)
EXTENDS Integers, Sequences
LOCAL INSTANCE SequencesExt
LOCAL INSTANCE FiniteSetsExt

CONSTANTS Fragments,        \* strings to add to a buffer
          LUAL_BUFFERSIZE,  \* size of a buffer's own memory
          SIZE_MAX,         \* of a size_t narrow enough to reach its end
          MaxBoxes,         \* bound on the userdata made for a buffer
          Referents,        \* objects to refer to
          MaxRef            \* bound on the references

VARIABLES stack,     \* the frame of the C function
          buf,       \* luaL_Buffer: its memory, the bytes used, its size
          memory,    \* what the memories hold
          added,     \* history: what was added
          reftable,  \* the table of the references
          references \* history: the references handed out, with their objects

auxVars == <<stack, buf, memory, added, reftable, references>>

NilValue == <<"nil">>
InitB == 0    \* the buffer's own memory, B->initb; userdata count from 1
Str(s) == <<"string", s>>
Userdata(b) == <<"userdata", b>>

(* -------------------------------- lapi.c ------------------------------- *)

(* index2addr and lua_absindex, of stack indices.                          *)
lua_absindex(s, idx) == IF idx > 0 THEN idx ELSE Len(s) + 1 + idx

lua_settop(s, idx) ==
  IF idx >= 0 THEN [n \in 1 .. idx |-> IF n <= Len(s) THEN s[n] ELSE NilValue]
  ELSE SubSeq(s, 1, Len(s) + idx + 1)

(* Slots are copied one after the other.                                   *)
lua_remove(s, idx) ==
  LET p == lua_absindex(s, idx)
      Copy(t, n) == [t EXCEPT ![p + n - 1] = t[p + n]]
  IN Front(FoldLeft(Copy, s, [n \in 1 .. Len(s) - p |-> n]))

lua_insert(s, idx) ==
  LET p == lua_absindex(s, idx)
      Copy(t, n) == [t EXCEPT ![Len(s) + 2 - n] = t[Len(s) + 1 - n]]
      moved == FoldLeft(Copy, Append(s, NilValue), [n \in 1 .. Len(s) + 1 - p |-> n])
  IN Front([moved EXCEPT ![p] = moved[Len(s) + 1]])

lua_replace(s, idx) == Front([s EXCEPT ![lua_absindex(s, idx)] = Last(s)])

lua_pushvalue(s, idx) == Append(s, s[lua_absindex(s, idx)])

(* ------------------------------- buffers ------------------------------- *)

SizeT(n) == n % (SIZE_MAX + 1)

(* L and B, as the functions of lauxlib.c change them.                     *)
Now == [stack |-> stack, buf |-> buf, memory |-> memory, error |-> FALSE]

buffonstack(x) == x.buf.b # InitB

(* The new memory is made while the old one is on the stack; creating a    *)
(* userdata may collect whatever is not.                                   *)
luaL_prepbuffsize(x, sz) ==
  LET B == x.buf
      double == SizeT(2 * B.size)
      newsize == IF SizeT(double - B.n) < sz THEN SizeT(B.n + sz) ELSE double
      box == Len(x.memory)
      pushed == Append(x.stack, Userdata(box))
  IN IF SizeT(B.size - B.n) >= sz THEN x
     ELSE IF newsize < B.n \/ SizeT(newsize - B.n) < sz THEN [x EXCEPT !.error = TRUE]
     ELSE [x EXCEPT !.memory = Append(@, x.memory[B.b + 1]),
                    !.stack = IF buffonstack(x) THEN lua_remove(pushed, -2) ELSE pushed,
                    !.buf = [b |-> box, n |-> B.n, size |-> newsize]]

luaL_addlstring(x, s) ==
  LET y == luaL_prepbuffsize(x, Len(s))
  IN IF y.error THEN y ELSE [y EXCEPT !.memory[y.buf.b + 1] = SubSeq(@, 1, y.buf.n) \o s,
                                      !.buf.n = @ + Len(s)]

OnTop(x) == x
BelowBox(x) == IF buffonstack(x) THEN [x EXCEPT !.stack = lua_insert(@, -2)] ELSE x

(* The string on the top of the stack.                                     *)
luaL_addvalue(x) ==
  LET y == luaL_addlstring(BelowBox(x), Last(x.stack)[2])
  IN IF y.error THEN y
     ELSE [y EXCEPT !.stack = lua_remove(@, IF buffonstack(y) THEN -2 ELSE -1)]

luaL_pushresult(x) ==
  LET y == Append(x.stack, Str(SubSeq(x.memory[x.buf.b + 1], 1, x.buf.n)))
  IN IF buffonstack(x) THEN lua_remove(y, -2) ELSE y

(* ------------------------------ references ----------------------------- *)

freelist == 0

(* lua_rawlen: some border of the table.                                   *)
Borders(t) == {n \in 0 .. MaxRef : (n > 0 => t[n] # NilValue) /\ t[n + 1] = NilValue}

KeepHead(t, ref) == t
TakeHead(t, ref) == [t EXCEPT ![freelist] = t[ref]]

luaL_ref(o) ==
  LET free == reftable[freelist]
      fresh == IF free = NilValue THEN {n + 1 : n \in Borders(reftable)} \ {MaxRef + 1}
               ELSE {free[2]}
      rest == IF free = NilValue THEN reftable ELSE TakeHead(reftable, free[2])
  IN \E ref \in fresh : /\ reftable' = [rest EXCEPT ![ref] = <<"object", o>>]
                        /\ references' = references \cup {<<ref, o>>}

luaL_unref(ref) ==
  reftable' = [reftable EXCEPT ![ref] = reftable[freelist], ![freelist] = <<"free", ref>>]

(* ------------------------------- actions ------------------------------- *)

AuxInit ==
  /\ stack = <<Str(<<"x">>), Str(<<"y">>)>>
  /\ buf = [b |-> InitB, n |-> 0, size |-> LUAL_BUFFERSIZE]
  /\ memory = << <<>> >> /\ added = <<>>
  /\ reftable = [n \in 0 .. MaxRef + 1 |-> NilValue] /\ references = {}

Becomes(x, s) ==
  /\ Len(memory) <= MaxBoxes /\ ~x.error
  /\ stack' = x.stack /\ buf' = x.buf /\ memory' = x.memory /\ added' = added \o s
  /\ UNCHANGED <<reftable, references>>

AddString(s) == Becomes(luaL_addlstring(Now, s), s)
AddValue(s) == Becomes(luaL_addvalue([Now EXCEPT !.stack = Append(@, Str(s))]), s)

Ref(o) == luaL_ref(o) /\ UNCHANGED <<stack, buf, memory, added>>
Unref(r) == /\ r \in references /\ references' = references \ {r}
            /\ luaL_unref(r[1]) /\ UNCHANGED <<stack, buf, memory, added>>

AuxNext == \/ \E s \in Fragments : AddString(s) \/ AddValue(s)
           \/ \E o \in Referents : Ref(o)
           \/ \E r \in references : Unref(r)

(* ------------------------------ properties ----------------------------- *)

(* A buffer holds what was added to it, within its size, in memory that    *)
(* the collector cannot take: its userdata, if it has one, is on the top   *)
(* of the stack, and below it the frame is as the function left it; the    *)
(* result takes its place.                                                 *)
BufferHolds ==
  LET frame == <<Str(<<"x">>), Str(<<"y">>)>>
  IN /\ SubSeq(memory[buf.b + 1], 1, buf.n) = added /\ buf.n <= buf.size
     /\ stack = IF buf.b = InitB THEN frame ELSE Append(frame, Userdata(buf.b))
     /\ luaL_pushresult(Now) = Append(frame, Str(added))

(* A reference stands for its object until it is released, whatever others *)
(* are released and made between, and although the free ones are kept in   *)
(* the same table and leave holes in it.                                   *)
RefsHold ==
  \A r \in references : /\ reftable[r[1]] = <<"object", r[2]>>
                        /\ \A q \in references : q[1] = r[1] => q = r

(* The functions that move values on the stack leave the others in order.  *)
StackMoves ==
  \A idx \in 1 .. Len(stack) :
    LET below == Front(stack) IN
    /\ \A k \in {idx, idx - Len(stack) - 1} :
         /\ lua_insert(stack, k) = InsertAt(below, idx, Last(stack))
         /\ lua_remove(stack, k) = RemoveAt(stack, idx)
         /\ lua_settop(lua_pushvalue(stack, k), -2) = stack
         /\ lua_replace(lua_pushvalue(stack, k), k - (IF k < 0 THEN 1 ELSE 0)) = stack
    /\ lua_settop(lua_settop(stack, Len(stack) + 2), Len(stack)) = stack

HasStarted == added # <<>> \/ references # {}

AuxLibrary == HasStarted => BufferHolds /\ RefsHold /\ StackMoves
=============================================================================
