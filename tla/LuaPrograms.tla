----------------------------- MODULE LuaPrograms ------------------------------
(* Families of small programs for LuaVM: each holds every way to put together a few
   pieces around one part of the compiler. *)
EXTENDS Integers, Sequences

Var(n) == <<"var", n>>
Number(n) == <<"num", n>>
NilExp == <<"nil">>
vx == Var("x")
vt == Var("t")
vg == Var("g")
Bin(o, a, b) == <<"bin", o, a, b>>
SetTo(v, e) == <<"assign", <<v>>, <<e>>>>
LocalIs(n, e) == <<"local", <<n>>, <<e>>>>
CallOf(n) == <<"call", Var(n), <<>>>>
When(c, b) == <<"if", <<<<c, b>>>>, <<>>>>
Func(ps, b) == <<"function", ps, b>>
Count == SetTo(vg, Bin("ADD", vg, Number(1)))
Seqs(S, lengths) == UNION {[1..k -> S] : k \in lengths}

(* Conditions of and, or, not and comparisons two deep, as a value, in a local that
   they read, and in front of each kind of jump. *)
Atoms == {vx, Var("y"), <<"true">>}
Simple == Atoms \cup {<<"not", vx>>, Bin("LT", Var("y"), Number(1)), Bin("GE", Var("y"), Number(1))}
            \cup {Bin(o, a, b) : o \in {"and", "or"}, a \in Atoms, b \in Atoms}
            \cup {Bin(o, vx, b) : o \in {"EQ", "NE"}, b \in Atoms}
Conditions == {Bin(o, a, b) : o \in {"and", "or"}, a \in Simple, b \in Simple}
                \cup {<<"not", a>> : a \in Simple}
Uses(e) ==
  {SetTo(vg, e), SetTo(vx, e),
   <<"if", <<<<e, <<SetTo(vg, Number(1))>>>>>>, <<<<SetTo(vg, Number(2))>>>>>>,
   <<"while", e, <<SetTo(vg, Number(1)), <<"break">>>>>>,
   <<"repeat", <<Count>>, Bin("or", e, Bin("EQ", vg, Number(2)))>>}
Expressions ==
  {<<SetTo(vg, Number(0)), <<"local", <<"x", "y">>, <<NilExp, Number(1)>>>>, u,
     SetTo(Var("r"), vx)>> : u \in UNION {Uses(e) : e \in Conditions}}

(* Assignments of lists to lists, where one target is the table or the key of another,
   of locals and of upvalues. *)
TwoResults ==
  <<"localfunction", "f", Func(<<>>, <<<<"return", <<Number(7), Number(8)>>>>>>)>>
AssignTo == {vx, vt, <<"index", vt, vx>>, vg}
Sources == {vx, Number(5), CallOf("f")}
Assignments ==
  LET Before == <<TwoResults, <<"local", <<"x", "t">>, <<Number(1), <<"table", <<>>>>>>>>,
                  SetTo(Var("old"), vt)>>
      After == <<SetTo(Var("r"), vx), SetTo(Var("s"), vt)>>
      Inside(b) == <<<<"localfunction", "h", Func(<<>>, b)>>, CallOf("h")>>
      All == {<<<<"assign", vs, es>>>> : vs \in Seqs(AssignTo, 1..3), es \in Seqs(Sources, 1..2)}
  IN {Before \o a \o After : a \in All} \cup {Before \o Inside(a) \o After : a \in All}

(* Declarations with fewer and more values than names, after registers have been used
   or set to nil before. *)
Declarations ==
  LET Names == {<<"a">>, <<"a", "b">>, <<"a", "b", "c">>}
      Unset == <<"local", <<"p">>, <<>>>>
      Before == {<<>>, <<<<"do", <<<<"local", <<"p", "q">>, <<Number(2), Number(3)>>>>>>>>>>,
                 <<Unset>>, <<When(vx, <<Unset>>)>>, <<<<"do", <<Unset>>>>, Unset>>}
      Seen == <<"table", <<<<Bin("EQ", Var("a"), NilExp)>>, <<Var("b")>>,
                           <<Bin("EQ", Var("c"), NilExp)>>, <<CallOf("f")>>>>>>
  IN {<<TwoResults, LocalIs("x", NilExp)>> \o b \o <<<<"local", ns, es>>, SetTo(vg, Seen)>> :
        b \in Before, ns \in Names, es \in Seqs(Sources, 0..3)}

(* Jumps forwards and backwards, out of blocks, over declarations and to labels that
   are not there. *)
JumpTo(l) == When(Bin("LT", vg, Number(2)), <<Count, <<"goto", l>>>>)
Here == <<"label", "l">>
Pieces ==
  {Here, JumpTo("l"), LocalIs("z", vg), <<"do", <<JumpTo("l")>>>>,
   <<"do", <<Here, LocalIs("z", vg), JumpTo("l")>>>>}
MorePieces ==
  Pieces \cup
  {<<"do", <<LocalIs("z", vg), JumpTo("l")>>>>,
   <<"repeat", <<JumpTo("l"), LocalIs("z", vg), Here>>, <<"true">>>>,
   <<"repeat", <<Count, When(Bin("EQ", vg, Number(2)), <<<<"break">>>>), JumpTo("l")>>,
     Bin("GT", vg, Number(1))>>,
   <<"if", <<<<Bin("EQ", vg, Number(1)), <<<<"goto", "l">>>>>>>>, <<<<Count>>>>>>,
   <<"break">>, SetTo(Var("r"), Var("z"))}
Gotos == {<<SetTo(vg, Number(0))>> \o b : b \in Seqs(MorePieces, 1..3) \cup Seqs(Pieces, {4})}

(* A loop whose body gives away a closure over its local and is then left in every way. *)
Capture ==
  <<LocalIs("z", vg),
    <<"localfunction", "h", Func(<<>>, <<SetTo(Var("z"), Bin("ADD", Var("z"), Number(1))),
                                         <<"return", <<Var("z")>>>>>>)>>,
    <<"assign", <<Var("h2"), Var("h1")>>, <<Var("h1"), Var("h")>>>>>>
AtTwo(b) == When(Bin("EQ", vg, Number(2)), b)
Leave ==
  {<<>>, <<<<"break">>>>, <<AtTwo(<<<<"break">>>>)>>, <<<<"goto", "out">>>>,
   <<AtTwo(<<<<"goto", "next">>>>), SetTo(Var("z"), Number(5)), <<"label", "next">>>>,
   <<AtTwo(<<CallOf("h"), <<"goto", "out">>>>)>>,
   <<<<"return", <<CallOf("h")>>>>>>, <<<<"return", <<CallOf("h"), Var("z")>>>>>>,
   <<<<"do", <<<<"local", <<"w">>, <<>>>>, SetTo(Var("w"), Var("z"))>>>>>>,
   <<When(Bin("LE", vg, Number(2)), <<<<"goto", "again">>>>)>>}
Loops(b) ==
  {<<<<"while", Bin("LT", vg, Number(3)), b>>>>, <<<<"repeat", b, Bin("LT", Number(2), vg)>>>>,
   <<<<"repeat", b, Bin("LT", Number(2), Var("z"))>>>>,
   <<<<"for", "i", Number(1), Number(3), b>>>>, <<<<"do", b>>>>, b}
Wrapped(b) ==
  {b, <<<<"localfunction", "k", Func(<<"a">>, b)>>,
        <<"assign", <<Var("r"), Var("s")>>, <<<<"call", Var("k"), <<Number(4)>>>>>>>>>>}
Closures ==
  LET Called == <<SetTo(Var("r1"), CallOf("h1")), SetTo(Var("r2"), CallOf("h2")),
                  SetTo(Var("r3"), CallOf("h1"))>>
      Bodies == UNION {Loops(<<Count>> \o Capture \o l) : l \in Leave}
  IN {<<SetTo(vg, Number(0)), <<"label", "again">>>> \o w \o <<<<"label", "out">>>> \o Called :
        w \in UNION {Wrapped(b) : b \in Bodies}}

AllPrograms == {Expressions, Assignments, Declarations, Gotos, Closures}

(* local x ::l:: local y; y becomes true; once more from l while x is less than 3. *)
LabelBetweenLocals ==
  {{<<<<"local", <<"x">>, <<>>>>, Here, <<"local", <<"y">>, <<>>>>,
     When(Bin("EQ", Var("y"), NilExp),
          <<SetTo(Var("y"), Number(1)),
            SetTo(vx, Bin("ADD", Bin("or", vx, Number(0)), Number(1))),
            When(Bin("LT", vx, Number(3)), <<<<"goto", "l">>>>)>>),
     SetTo(vg, vx)>>}}
==============================================================================
