---------------------------- MODULE MCLibraries ----------------------------
(* The libraries that keep their state to themselves, side by side for TLC: every
   behaviour is one of one library, chosen in the initial state, while the others
   stay as they were initialised. *)
EXTENDS RingBuffer, Memory, HashMap, CondVar, Coroutine, ThreadGroup, Resource,
        IntrusiveQ, IrpTable, Iocp, LuaMatch, LuaLex, LuaSort, LuaFiles, LuaAux
LOCAL INSTANCE SequencesExt

CONSTANTS k1, k2, k3,       \* keys of the hash map
          h1, h2, h3,       \* files of the IRP table
          g1, g2, stdin, stdout,   \* handles of Lua files
          o1, o2, f1        \* operations, a file

(* Two keys fall into one bucket before the map has grown and part then; so do two
   files. *)
HashOf == (k1 :> 0) @@ (k2 :> 2) @@ (k3 :> 1)
HashOfFile == (h1 :> 0) @@ (h2 :> 2) @@ (h3 :> 1)

(* The last two share their first five bytes. *)
LocaleOrder == <<"en", "zh-Ha", "zh-Hans">>
FiveBytes   == ("en" :> "en") @@ ("zh-Ha" :> "zh-Ha") @@ ("zh-Hans" :> "zh-Ha")

(* "1.20.*", "7.65535.1.1" (refused at the second part), "1.x.1.*". *)
VersionStrings == { << <<1>>, <<2, 0>>, <<Star>> >>,
                    << <<7>>, <<6, 5, 5, 3, 5>>, <<1>>, <<1>> >>,
                    << <<1>>, <<11>>, <<1>>, <<Star>> >> }

OneFile == (o1 :> f1) @@ (o2 :> f1)

(* Patterns over a and b: "a", "a*", "a-", ".?", ".+", "[^a]*", captures, "$", "%1",
   "%bab", "%f[b]"; and, longer, captures between repetitions before "%1", "$" or "b". *)
Char(c) == <<"char", c>>
InClass(class, reps) == {<<"class", class, rep>> : rep \in reps}
ShortItems ==
  InClass(Char("a"), {"", "*", "-"}) \cup InClass(<<"any">>, {"?", "+"})
    \cup InClass(<<"set", {"a"}, TRUE>>, {"*"})
    \cup {<<"open">>, <<"close">>, <<"position">>, <<"dollar">>, <<"back", 1>>,
          <<"balance", "a", "b">>, <<"frontier", <<"set", {"b"}, FALSE>> >>}
Repeated == InClass(Char("a"), {"*", "-", "?"}) \cup InClass(<<"any">>, {"+"})
LongItems ==
  { <<x, <<"open">>, y, <<"close">>, z, last>> :
      x \in Repeated, y \in Repeated, z \in Repeated \cup {<<"open">>},
      last \in {<<"back", 1>>, <<"dollar">>, <<"class", Char("b"), "">>} }
ShortSubjects == BoundedSeq({"a", "b"}, 3)

(* Tokens as they are written and what they are; strings with every kind of escape. *)
Piece(text, type, value, breaks) == [text |-> text, token |-> <<type, value>>, breaks |-> breaks]
Sign(text, type) == Piece(text, type, <<>>, 0)
TokenPieces ==
  { Sign(<<"-">>, "-"), Sign(<<"~", "=">>, "~="), Sign(<<"=">>, "="), Sign(<<":", ":">>, "::"),
    Sign(<<"[">>, "["), Sign(<<".">>, "."), Sign(<<".", ".">>, ".."), Sign(<<".", ".", ".">>, "..."),
    Sign(<<"#">>, "#"), Piece(<<"a", "1">>, "NAME", <<"a", "1">>, 0),
    Piece(<<"1", ".", "e", "+", "2">>, "NUMBER", <<"1", ".", "e", "+", "2">>, 0),
    Piece(<<".", "5">>, "NUMBER", <<".", "5">>, 0),
    Piece(<<"'", "\"", "\\", "1", "3", "2", "\\", "z", " ", "\n", "a", "\\", "\r", "\n", "\\", "n", "'">>,
          "STRING", <<"\"", "132", "a", "\n", "\n">>, 2),
    Piece(<<"[", "=", "[", "]", "]", "\n", "]", "=", "]">>, "STRING", <<"]", "]", "\n">>, 1) }
Gap(text, breaks) == [text |-> text, breaks |-> breaks]
TokenGaps ==
  { Gap(<<" ">>, 0), Gap(<<"\n", "\n">>, 2), Gap(<<"\r", "\n">>, 1),
    Gap(<<" ", "-", "-", "[", "a", "\n">>, 1),
    Gap(<<" ", "-", "-", "[", "=", "[", "]", "]", "\n", "\r", "]", "=", "]">>, 1) }
Start(text, tokens, breaks) == [text |-> text, tokens |-> tokens, breaks |-> breaks]
Starts ==
  { Start(<<>>, <<>>, 0), Start(BOM, <<>>, 0), Start(<<"#", "a", "\n">>, <<>>, 1),
    Start(BOM \o <<"#", "\n">>, <<>>, 1), Start(<<"EF">>, << << <<"EF", <<>> >>, 1 >> >>, 0) }
EachKind == {NUL, "\n", "\r", "\"", "\\", "0", "]", "="}

(* Lists with equal elements, and one that is partitioned twice. *)
ShortLists == UNION {[1 .. n -> 1 .. 3] : n \in 0 .. 4}
                \cup {<<5, 1, 4, 2, 3>>, <<1, 2, 2, 1, 2>>, <<3, 1, 4, 2, 6, 5>>}

Fragments3 == {<<>>, <<"a">>, <<"b", "a">>, <<"a", "b", "a">>}

VARIABLE part

MCInit ==
  /\ RingInit /\ AllocInit /\ PoolInit /\ MapInit /\ CvInit /\ CoInit /\ ThInit
  /\ ResourceInit /\ LinksInit /\ IrpTableInit /\ IocpInit
  /\ MatchInit /\ LexInit /\ FilesInit /\ AuxInit
  /\ part \in {"ring", "alloc", "pool", "map", "condvar", "coroutine", "thread",
               "resource", "links", "irps", "iocp", "match", "lex", "sort", "files", "aux"}
  /\ IF part = "sort" THEN SortInit ELSE SortIdle

libraries == <<ringVars, allocVars, poolVars, mapVars, cvVars, coVars, thVars, packVars,
               links, irpTableVars, iocpVars, matchVars, lexVars, sortVars, fileVars,
               auxVars, part>>

\* only the library p takes a step
Only(p) ==
  /\ part = p /\ UNCHANGED part
  /\ p # "ring" => UNCHANGED ringVars
  /\ p # "alloc" => UNCHANGED allocVars
  /\ p # "pool" => UNCHANGED poolVars
  /\ p # "map" => UNCHANGED mapVars
  /\ p # "condvar" => UNCHANGED cvVars
  /\ p # "coroutine" => UNCHANGED coVars
  /\ p # "thread" => UNCHANGED thVars
  /\ p # "resource" => UNCHANGED packVars
  /\ p # "links" => UNCHANGED links
  /\ p # "irps" => UNCHANGED irpTableVars
  /\ p # "iocp" => UNCHANGED iocpVars
  /\ p # "match" => UNCHANGED matchVars
  /\ p # "lex" => UNCHANGED lexVars
  /\ p # "sort" => UNCHANGED sortVars
  /\ p # "files" => UNCHANGED fileVars
  /\ p # "aux" => UNCHANGED auxVars

Ring          == Only("ring") /\ RingNext
Alloc         == Only("alloc") /\ AllocNext
PoolPart      == Only("pool") /\ PoolNext
MapPart       == Only("map") /\ MapNext
CondVarPart   == Only("condvar") /\ CvNext
CoroutinePart == Only("coroutine") /\ CoNext
ThreadPart    == Only("thread") /\ ThNext
ResourcePart  == Only("resource") /\ ResourceNext
LinksPart     == Only("links") /\ LinksNext
IrpsPart      == Only("irps") /\ IrpTableNext
IocpPart      == Only("iocp") /\ IocpNext
MatchPart     == Only("match") /\ MatchNext
LexPart       == Only("lex") /\ LexNext
SortPart      == Only("sort") /\ SortNext
FilesPart     == Only("files") /\ FilesNext
AuxPart       == Only("aux") /\ AuxNext

MCNext == \/ Ring \/ Alloc \/ PoolPart \/ MapPart \/ CondVarPart \/ CoroutinePart
          \/ ThreadPart \/ ResourcePart \/ LinksPart \/ IrpsPart \/ IocpPart
          \/ MatchPart \/ LexPart \/ SortPart \/ FilesPart \/ AuxPart

MCSpec == MCInit /\ [][MCNext]_libraries

\* the completion ports alone
IocpAlone == MCInit /\ part = "iocp" /\ [][IocpPart]_libraries
=============================================================================
