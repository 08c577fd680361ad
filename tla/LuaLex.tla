------------------------------- MODULE LuaLex -------------------------------
(***************************************************************************)
(* The lexer (llex.c), the quoting of strings by string.format("%q")       *)
(* (lstrlib.c) and the start of a file that is loaded (lauxlib.c).  A text *)
(* is a sequence of characters.  Numerals are decimal; reserved words are  *)
(* names, and of the escapes \x and the one-letter ones \n stands for all. *)
(***************************************************************************)
EXTENDS Integers, Sequences, TLC
LOCAL INSTANCE SequencesExt
LOCAL INSTANCE FiniteSetsExt

CONSTANTS StringChars,  \* characters of strings that are quoted, or put in brackets
          MaxString,    \* bound on their length
          Pieces,       \* tokens as they may be written, with what they are
          Gaps,         \* what may stand between two tokens
          MaxPieces,    \* bound on the tokens of a text
          FileStarts    \* what a file may begin with

VARIABLES string,   \* a string
          pieces    \* a text: tokens, and what stands before each

EOZ == "EOZ"
Digits == {"0", "1", "2", "3", "4", "5", "6", "7", "8", "9"}
Letters == {"a", "e", "n", "r", "x", "z", "_"}
NUL == "zero"
Newlines == {"\n", "\r"}
Spaces == Newlines \cup {" ", "\t", "\f"}
Controls == {NUL, "\r", "\t", "\f", "\n"}

(* LexState is a record, see luaX_setinput: what is left of the input, the *)
(* line, the token buffer, the decimal point in use, whether an error was  *)
(* raised, the token read last and its text.                               *)
current(ls) == IF ls.z = <<>> THEN EOZ ELSE Head(ls.z)
nextchar(ls) == [ls EXCEPT !.z = IF @ = <<>> THEN @ ELSE Tail(@)]
save(ls, c) == [ls EXCEPT !.buff = Append(@, c)]
save_and_next(ls) == nextchar(save(ls, current(ls)))
lexerror(ls) == [ls EXCEPT !.error = TRUE]
resetbuffer(ls) == [ls EXCEPT !.buff = <<>>]
Token(ls, t, text) == [ls EXCEPT !.token = t, !.text = text]

RECURSIVE SaveWhile(_, _)
SaveWhile(ls, S) == IF current(ls) \in S THEN SaveWhile(save_and_next(ls), S) ELSE ls

PairedWith(ls, old) == current(ls) \in Newlines /\ current(ls) # old
SkipPaired(ls, old) == IF PairedWith(ls, old) THEN nextchar(ls) ELSE ls
inclinenumber(ls) == [SkipPaired(nextchar(ls), current(ls)) EXCEPT !.line = @ + 1]

(* ------------------------------- numerals ------------------------------ *)

check_next(ls, set) == IF current(ls) \in set THEN save_and_next(ls) ELSE ls

buffreplace(ls, from, to) ==
  [ls EXCEPT !.buff = [i \in DOMAIN @ |-> IF @[i] = from THEN to ELSE @[i]]]

(* luaO_str2d: strtod, which knows the decimal point of the locale.        *)
AllDigits(s) == \A i \in DOMAIN s : s[i] \in Digits
Mantissa(s, point) ==
  \/ s # <<>> /\ AllDigits(s)
  \/ \E k \in DOMAIN s : /\ s[k] = point /\ Len(s) > 1
                         /\ AllDigits(SubSeq(s, 1, k - 1)) /\ AllDigits(SubSeq(s, k + 1, Len(s)))
Exponent(s) ==
  LET t == IF s # <<>> /\ Head(s) \in {"+", "-"} THEN Tail(s) ELSE s
  IN t # <<>> /\ AllDigits(t)
luaO_str2d(s, point) ==
  \/ Mantissa(s, point)
  \/ \E k \in DOMAIN s : /\ s[k] = "e" /\ Mantissa(SubSeq(s, 1, k - 1), point)
                         /\ Exponent(SubSeq(s, k + 1, Len(s)))

trydecpoint(ls, locale) ==
  LET t == [buffreplace(ls, ls.decpoint, locale) EXCEPT !.decpoint = locale]
  IN IF luaO_str2d(t.buff, locale) THEN t ELSE lexerror(t)

RECURSIVE ReadDigits(_)
ReadDigits(ls) ==
  LET a == save_and_next(ls)
      b == IF current(a) = "e" THEN check_next(save_and_next(a), {"+", "-"}) ELSE a
  IN IF current(b) \in Digits \cup Letters \cup {"."} THEN ReadDigits(b) ELSE b

Converted(t, locale) == IF luaO_str2d(t.buff, locale) THEN t ELSE trydecpoint(t, locale)
Numeral(t, locale) == Token(t, "NUMBER", buffreplace(t, locale, ".").buff)
read_numeral(ls, locale) ==
  LET r == ReadDigits(ls)
  IN Numeral(Converted(buffreplace(r, ".", r.decpoint), locale), locale)

(* -------------------------------- strings ------------------------------ *)

(* [=*[ or ]=*]: the number of '='s, negative if the second bracket is not *)
(* there; that one is not read.                                            *)
Separator(r, n, bracket) == [ls |-> r, sep |-> IF current(r) = bracket THEN n ELSE -n - 1]
SeparatorFrom(r, ls) == Separator(r, Len(r.buff) - Len(ls.buff) - 1, current(ls))
skip_sep(ls) == SeparatorFrom(SaveWhile(save_and_next(ls), {"="}), ls)

RECURSIVE LongBody(_, _, _), Bracketed(_, _, _)
Bracketed(end, sep, comment) ==
  IF end.sep = sep THEN save_and_next(end.ls) ELSE LongBody(end.ls, sep, comment)
LongBody(ls, sep, comment) ==
  LET c == current(ls)
  IN CASE c = EOZ -> lexerror(ls)
       [] c = "]" -> Bracketed(skip_sep(ls), sep, comment)
       [] c \in Newlines ->
            LongBody(inclinenumber(IF comment THEN resetbuffer(ls) ELSE save(ls, "\n")),
                     sep, comment)
       [] OTHER -> LongBody(IF comment THEN nextchar(ls) ELSE save_and_next(ls), sep, comment)

(* The text is the buffer without the brackets.                            *)
LongString(b, sep) ==
  IF b.error THEN b ELSE Token(b, "STRING", SubSeq(b.buff, 3 + sep, Len(b.buff) - (2 + sep)))
SkipNewline(ls) == IF current(ls) \in Newlines THEN inclinenumber(ls) ELSE ls
read_long_string(ls, sep, comment) == LongBody(SkipNewline(save_and_next(ls)), sep, comment)

Value(c) == CHOOSE n \in 0 .. 9 : ToString(n) = c
ByteOf == [c \in Controls |-> CASE c = NUL -> 0 [] c = "\t" -> 9 [] c = "\n" -> 10
                                [] c = "\f" -> 12 [] c = "\r" -> 13]
Byte(n) == IF \E c \in Controls : ByteOf[c] = n
           THEN CHOOSE c \in Controls : ByteOf[c] = n ELSE ToString(n)

(* Up to three digits, and the input behind them.                          *)
readdecesc(ls) ==
  LET k == Max({i \in 0 .. 3 : i <= Len(ls.z) /\ AllDigits(SubSeq(ls.z, 1, i))})
      n == FoldLeft(LAMBDA r, c : 10 * r + Value(c), 0, SubSeq(ls.z, 1, k))
      rest == [ls EXCEPT !.z = SubSeq(@, k + 1, Len(@))]
  IN IF n > 255 THEN lexerror(rest) ELSE save(rest, Byte(n))

RECURSIVE ZapSpaces(_)
ZapSpaces(ls) ==
  IF current(ls) \notin Spaces THEN ls
  ELSE ZapSpaces(IF current(ls) \in Newlines THEN inclinenumber(ls) ELSE nextchar(ls))

(* A backslash has been read.                                              *)
ReadEscape(ls) ==
  LET c == current(ls)
  IN CASE c = "n" -> save(nextchar(ls), "\n")
       [] c \in Newlines -> save(inclinenumber(ls), "\n")
       [] c \in {"\\", "\"", "'"} -> save(nextchar(ls), c)
       [] c = EOZ -> ls
       [] c = "z" -> ZapSpaces(nextchar(ls))
       [] c \in Digits -> readdecesc(ls)
       [] OTHER -> lexerror(ls)

RECURSIVE StringBody(_, _)
StringBody(ls, del) ==
  LET c == current(ls)
  IN CASE c = EOZ \/ c \in Newlines \/ ls.error -> lexerror(ls)
       [] c = del -> save_and_next(ls)
       [] c = "\\" -> StringBody(ReadEscape(nextchar(ls)), del)
       [] OTHER -> StringBody(save_and_next(ls), del)

read_string(ls, del) ==
  LET r == StringBody(save_and_next(ls), del)
  IN IF r.error THEN r ELSE Token(r, "STRING", SubSeq(r.buff, 2, Len(r.buff) - 1))

(* -------------------------------- tokens ------------------------------- *)

RECURSIVE SkipLine(_)
SkipLine(ls) == IF current(ls) \in Newlines \cup {EOZ} THEN ls ELSE SkipLine(nextchar(ls))

(* After "--".                                                             *)
CommentFrom(sep) ==
  IF sep.sep >= 0 THEN resetbuffer(read_long_string(resetbuffer(sep.ls), sep.sep, TRUE))
  ELSE SkipLine(resetbuffer(sep.ls))
ReadComment(ls) == IF current(ls) = "[" THEN CommentFrom(skip_sep(ls)) ELSE SkipLine(ls)

(* One character, or two if the second one is nextchar.                        *)
OneOrTwo(ls, second) ==
  LET c == current(ls)
      n == nextchar(ls)
  IN IF current(n) = second THEN Token(nextchar(n), c \o second, <<>>) ELSE Token(n, c, <<>>)

ReadDots(ls, locale) ==
  LET one == save_and_next(ls)
      two == check_next(one, {"."})
      three == check_next(two, {"."})
  IN IF two # one THEN IF three # two THEN Token(three, "...", <<>>) ELSE Token(two, "..", <<>>)
     ELSE IF current(one) \in Digits THEN read_numeral(one, locale) ELSE Token(one, ".", <<>>)

BracketFrom(sep) ==
  CASE sep.sep >= 0 -> LongString(read_long_string(sep.ls, sep.sep, FALSE), sep.sep)
    [] sep.sep = -1 -> Token(sep.ls, "[", <<>>)
    [] OTHER -> lexerror(sep.ls)
ReadBracket(ls) == BracketFrom(skip_sep(ls))

ReadName(ls) == LET r == SaveWhile(ls, Letters \cup Digits) IN Token(r, "NAME", r.buff)

RECURSIVE llex(_, _)
llex(ls, locale) ==
  LET c == current(ls)
  IN CASE ls.error -> ls
       [] c \in Newlines -> llex(inclinenumber(ls), locale)
       [] c \in Spaces \ Newlines -> llex(nextchar(ls), locale)
       [] c = "-" -> IF current(nextchar(ls)) # "-" THEN Token(nextchar(ls), "-", <<>>)
                     ELSE llex(ReadComment(nextchar(nextchar(ls))), locale)
       [] c = "[" -> ReadBracket(ls)
       [] c \in {"=", "<", ">", "~"} -> OneOrTwo(ls, "=")
       [] c = ":" -> OneOrTwo(ls, ":")
       [] c \in {"\"", "'"} -> read_string(ls, c)
       [] c = "." -> ReadDots(ls, locale)
       [] c \in Digits -> read_numeral(ls, locale)
       [] c = EOZ -> Token(ls, EOZ, <<>>)
       [] c \in Letters -> ReadName(ls)
       [] OTHER -> Token(nextchar(ls), c, <<>>)

(* luaX_next and luaX_lookahead: t is the token the parser is at, ahead the *)
(* one it has asked for behind it, if any.                                 *)
OrError(r) == IF r.error THEN [r EXCEPT !.token = "error", !.text = <<>>] ELSE r
ReadToken(ls, locale) == OrError(llex(resetbuffer(ls), locale))

AsToken(r) == <<r.token, r.text>>
Current(r, line) == [r EXCEPT !.t = AsToken(r), !.lastline = line]
Ahead(r) == [r EXCEPT !.ahead = AsToken(r)]

luaX_next(ls, locale) ==
  IF ls.ahead # <<>> THEN [ls EXCEPT !.t = ls.ahead, !.ahead = <<>>, !.lastline = ls.line]
  ELSE Current(ReadToken(ls, locale), ls.line)

luaX_lookahead(ls, locale) == Ahead(ReadToken(ls, locale))

luaX_setinput(z) ==
  [z |-> z, line |-> 1, lastline |-> 1, buff |-> <<>>, decpoint |-> ".", error |-> FALSE,
   token |-> EOZ, text |-> <<>>, t |-> <<>>, ahead |-> <<>>]

(* The tokens of a text with the line each ends on, to the end or to an    *)
(* error, of a parser that looks ahead at the tokens in K; r has just read *)
(* the one with the number i.                                              *)
RECURSIVE Tokens(_, _, _, _), TokensFrom(_, _, _, _)
TokensFrom(r, locale, i, K) ==
  CASE r.t[1] = EOZ -> <<>>
    [] r.t[1] = "error" -> << <<r.t, 0>> >>
    [] OTHER -> << <<r.t, r.line>> >>
                \o Tokens(IF i \in K THEN luaX_lookahead(r, locale) ELSE r, locale, i + 1, K)
Tokens(ls, locale, i, K) == TokensFrom(luaX_next(ls, locale), locale, i, K)

(* ------------------------------ addquoted ------------------------------ *)

Decimal(n, three) ==
  LET d == IF n > 9 THEN <<"1", ToString(n - 10)>> ELSE <<ToString(n)>>
  IN IF three THEN [i \in 1 .. 3 - Len(d) |-> "0"] \o d ELSE d

Never(c) == FALSE
IsDigit(c) == c \in Digits
addquoted(s) ==
  LET following(i) == IF i = Len(s) THEN NUL ELSE s[i + 1]
      quoted(i) == CASE s[i] \in {"\"", "\\", "\n"} -> <<"\\", s[i]>>
                     [] s[i] \in Controls \ {"\n"} ->
                          <<"\\">> \o Decimal(ByteOf[s[i]], IsDigit(following(i)))
                     [] OTHER -> <<s[i]>>
  IN <<"\"">> \o FlattenSeq([i \in DOMAIN s |-> quoted(i)]) \o <<"\"">>

(* ---------------------------- luaL_loadfilex --------------------------- *)

BOM == <<"EF", "BB", "BF">>
ESC == "ESC"

First(rest) == IF rest = <<>> THEN EOZ ELSE Head(rest)

(* What is kept for the parser and what is still in the file.              *)
skipBOM(f) ==
  LET k == Max({i \in 0 .. 3 : IsPrefix(SubSeq(BOM, 1, i), f)})
  IN [buff |-> IF k = 3 THEN <<>> ELSE SubSeq(BOM, 1, k), rest |-> SubSeq(f, k + 1, Len(f))]

(* The first line, up to and with its end.                                 *)
AfterLine(s) ==
  LET ends == {i \in DOMAIN s : s[i] = "\n"}
  IN IF ends = {} THEN <<>> ELSE SubSeq(s, Min(ends) + 1, Len(s))

skipcomment(f) ==
  LET b == skipBOM(f)
  IN IF First(b.rest) # "#" THEN b ELSE [buff |-> Append(b.buff, "\n"), rest |-> AfterLine(b.rest)]

(* A binary file is read again and keeps no newline for the comment.       *)
luaL_loadfilex(f) ==
  LET t == skipcomment(f)
  IN (IF First(t.rest) = ESC THEN skipBOM(f).buff ELSE t.buff) \o t.rest

(* --------------------------------- texts ------------------------------- *)

lexVars == <<string, pieces>>

LexInit == string = <<>> /\ pieces = <<>>

AddChar(c) == /\ pieces = <<>> /\ Len(string) < MaxString
              /\ string' = Append(string, c) /\ UNCHANGED pieces

AddPiece(gap, piece) ==
  /\ string = <<>> /\ Len(pieces) < MaxPieces
  /\ pieces' = Append(pieces, [gap |-> gap, piece |-> piece]) /\ UNCHANGED string

LexNext == \/ \E c \in StringChars : AddChar(c)
           \/ \E gap \in Gaps, piece \in Pieces : AddPiece(gap, piece)

(* ------------------------------ properties ----------------------------- *)

SourceText == FlattenSeq([i \in DOMAIN pieces |-> pieces[i].gap.text \o pieces[i].piece.text])

(* Each token with the line on which it ends, if the text begins on line.  *)
AsMeant(line) ==
  [i \in DOMAIN pieces |->
     <<pieces[i].piece.token,
       FoldLeft(LAMBDA n, p : n + p.gap.breaks + p.piece.breaks, line, SubSeq(pieces, 1, i))>>]

(* A file reads as the tokens it was written from, each on its line,       *)
(* whatever stands between them, whether it begins with a byte order mark  *)
(* or a first line for the shell, whichever decimal point the locale has,  *)
(* and wherever the parser looks one token ahead.                          *)
Types(tokens) == [i \in DOMAIN tokens |-> tokens[i][1]]
SameAhead(plain, ls, locale) ==
  \A K \in SUBSET (1 .. Len(plain)) : Types(Tokens(ls, locale, 1, K)) = Types(plain)
ReadsAsWritten ==
  \A start \in FileStarts, locale \in {".", ","} :
    LET ls    == luaX_setinput(luaL_loadfilex(start.text \o SourceText))
        meant == start.tokens \o AsMeant(1 + start.breaks)
    IN Tokens(ls, locale, 1, {}) = meant /\ SameAhead(meant, ls, locale)

(* What %q writes for a string reads back as that string, and nothing      *)
(* behind it is taken for a part of it.                                    *)
ReadsAs(r, text, rest) == ~r.error /\ r.token = "STRING" /\ r.text = text /\ r.z = rest
QuotedReadsBack ==
  ReadsAs(llex(luaX_setinput(addquoted(string) \o <<"0">>), "."), string, <<"0">>)

(* A long string ends at the first closing bracket of its own level; its   *)
(* line breaks, of one character or two, are each one newline, and one     *)
(* right behind the opening bracket is dropped.                            *)
LongStringsEnd ==
  \A sep \in 0 .. 1 :
    LET equals == [i \in 1 .. sep |-> "="]
        close  == <<"]">> \o equals \o <<"]">>
        body   == string \o close
        end    == Min({i \in 1 .. Len(string) + 1 : SubSeq(body, i, i + sep + 1) = close})
        breaks == {i \in 1 .. end - 1 : body[i] \in Newlines}
        \* the second characters of line breaks
        seconds[i \in 0 .. end - 1] ==
          /\ i > 1 /\ i \in breaks /\ i - 1 \in breaks /\ body[i] # body[i - 1]
          /\ ~seconds[i - 1]
        from   == IF 1 \notin breaks THEN 1 ELSE IF end > 2 /\ seconds[2] THEN 3 ELSE 2
        kept   == {i \in from .. end - 1 : ~seconds[i]}
        text   == [i \in 1 .. Cardinality(kept) |->
                     LET at == CHOOSE k \in kept : Cardinality({m \in kept : m <= k}) = i
                     IN IF at \in breaks THEN "\n" ELSE body[at]]
        As(r)  == /\ ReadsAs(r, text, SubSeq(body, end + sep + 2, Len(body)))
                  /\ r.line = 1 + Cardinality({i \in breaks : ~seconds[i]})
    IN As(llex(luaX_setinput(<<"[">> \o equals \o <<"[">> \o body), "."))

TextsReadBack == /\ pieces # <<>> => ReadsAsWritten
                 /\ string # <<>> => QuotedReadsBack /\ LongStringsEnd
=============================================================================
