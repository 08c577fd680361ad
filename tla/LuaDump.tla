------------------------------- MODULE LuaDump -------------------------------
(***************************************************************************)
(* Precompiled chunks: luaU_dump writes a prototype (ldump.c), luaU_undump *)
(* reads it back (lundump.c).  A file is the sequence of the blocks the    *)
(* writer was given, each with its type for its size; a reader that asks   *)
(* for another block than the next one gets garbage.  Of the debug         *)
(* information only the names of upvalues are there: lines and local       *)
(* variables are written and read like them.                               *)
(***************************************************************************)
EXTENDS Integers, Sequences
LOCAL INSTANCE SequencesExt

LUA_SIGNATURE == <<"header", "Lua 5.2, this machine">>

(* ------------------------------- ldump.c ------------------------------- *)

DumpChar(x) == <<<<"char", x>>>>
DumpInt(x) == <<<<"int", x>>>>
DumpNumber(x) == <<<<"number", x>>>>
NoString == ""
DumpString(s) ==
  IF s = NoString THEN <<<<"size", 0>>>> ELSE <<<<"size", 1>>, <<"chars", s>>>>
DumpEach(s, Dump(_)) == DumpInt(Len(s)) \o FlattenSeq([i \in DOMAIN s |-> Dump(s[i])])

(* DumpVector of the code: nothing is written for no instructions.         *)
DumpCode(code) == DumpInt(Len(code)) \o (IF code = <<>> THEN <<>> ELSE <<<<"code", code>>>>)

DumpConstant(o) ==
  DumpChar(o[1]) \o
  CASE o[1] = "nil" -> <<>>
    [] o[1] = "boolean" -> DumpChar(o[2])
    [] o[1] = "number" -> DumpNumber(o[2])
    [] o[1] = "string" -> DumpString(o[2])

DumpUpvalue(u) == DumpChar(u.instack) \o DumpChar(u.idx)
DumpName(u) == DumpString(u.name)

RECURSIVE DumpFunction(_, _)
DumpFunction(f, strip) ==
  DumpChar(f.numparams) \o DumpChar(f.maxstack) \o DumpCode(f.code)
    \o DumpEach(f.k, DumpConstant) \o DumpEach(f.p, LAMBDA p : DumpFunction(p, strip))
    \o DumpEach(f.up, DumpUpvalue) \o DumpEach(IF strip THEN <<>> ELSE f.up, DumpName)

luaU_dump(f, strip) == <<LUA_SIGNATURE>> \o DumpFunction(f, strip)

(* ------------------------------ lundump.c ------------------------------ *)

(* A reader: what is left of the file, the value read last, whether error  *)
(* has been raised.                                                        *)
LoadBlock(r, size) ==
  IF r.error \/ r.z = <<>> THEN [r EXCEPT !.error = TRUE]
  ELSE [z |-> Tail(r.z), error |-> FALSE,
        v |-> IF Head(r.z)[1] = size THEN Head(r.z)[2] ELSE "garbage"]

LoadString(r) ==
  LET size == LoadBlock(r, "size")
  IN IF size.error THEN size
     ELSE IF size.v = 0 THEN [size EXCEPT !.v = NoString] ELSE LoadBlock(size, "chars")

(* n times Load, its values in a sequence, from the count that is next.    *)
LoadEach(r, Load(_)) ==
  LET n == LoadBlock(r, "int")
      Next(x, i) == LET y == Load(x) IN [y EXCEPT !.v = Append(x.v, y.v)]
  IN IF n.error \/ n.v \notin Nat THEN [n EXCEPT !.error = TRUE]
     ELSE FoldLeft(LAMBDA x, i : IF x.error THEN x ELSE Next(x, i), [n EXCEPT !.v = <<>>],
                   [i \in 1 .. n.v |-> i])

LoadCode(r) ==
  LET n == LoadBlock(r, "int")
  IN IF n.error \/ n.v = 0 THEN [n EXCEPT !.v = <<>>] ELSE LoadBlock(n, "code")

LoadConstant(r) ==
  LET t == LoadBlock(r, "char")
      o == CASE t.v = "boolean" -> LoadBlock(t, "char")
             [] t.v = "number" -> LoadBlock(t, "number")
             [] t.v = "string" -> LoadString(t)
             [] OTHER -> t
  IN IF t.error THEN t ELSE [o EXCEPT !.v = IF t.v = "nil" THEN <<"nil">> ELSE <<t.v, o.v>>]

LoadUpvalue(r) ==
  LET a == LoadBlock(r, "char")
      b == LoadBlock(a, "char")
  IN [b EXCEPT !.v = [name |-> NoString, instack |-> a.v, idx |-> b.v]]

(* LoadDebug: the names that are there.                                    *)
Named(up, names) ==
  [i \in DOMAIN up |-> IF i \in DOMAIN names THEN [up[i] EXCEPT !.name = names[i]] ELSE up[i]]

RECURSIVE LoadFunction(_)
LoadFunction(r) ==
  LET params == LoadBlock(r, "char")
      stack  == LoadBlock(params, "char")
      code   == LoadCode(stack)
      k      == LoadEach(code, LoadConstant)
      p      == LoadEach(k, LAMBDA x : LoadFunction(x))
      up     == LoadEach(p, LoadUpvalue)
      names  == LoadEach(up, LoadString)
  IN IF names.error THEN names
     ELSE [names EXCEPT !.v = [code |-> code.v, k |-> k.v, p |-> p.v, up |-> Named(up.v, names.v),
                               numparams |-> params.v, maxstack |-> stack.v]]

LoadHeader(z) ==
  LET h == LoadBlock([z |-> z, error |-> FALSE, v |-> NoString], "header")
  IN [h EXCEPT !.error = @ \/ h.v # LUA_SIGNATURE[2]]

luaU_undump(z) == LoadFunction(LoadHeader(z))

(* ------------------------------ a property ----------------------------- *)

RECURSIVE Stripped(_)
Stripped(f) ==
  [f EXCEPT !.up = [i \in DOMAIN @ |-> [@[i] EXCEPT !.name = NoString]],
            !.p = [i \in DOMAIN @ |-> Stripped(@[i])]]

(* A function that is dumped reads back as it was, without its debug       *)
(* information if that was stripped, and to the last block; and a file cut *)
(* short anywhere is refused.                                              *)
DumpReadsBack(f) ==
  \A strip \in BOOLEAN :
    LET file == luaU_dump(f, strip)
    IN /\ luaU_undump(file) = [z |-> <<>>, error |-> FALSE,
                               v |-> IF strip THEN Stripped(f) ELSE f]
       /\ \A n \in 0 .. Len(file) - 1 : luaU_undump(SubSeq(file, 1, n)).error
=============================================================================
