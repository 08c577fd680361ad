------------------------------ MODULE Resource ------------------------------
(* Resource packages (src/resource/package.cpp, stringtable.cpp): per locale a
   table of error messages, trace catalogs, trace messages and texts, whose
   strings are pushed onto one string table and kept as numbers, and the file a
   package is written to and read back from.
   Written and read are one action, Reload: the package that LemonReadResource
   builds from the file takes the place of the one that was written.  A string
   table is the sequence of its strings; strings are numbers in alphabetical
   order.  Left out: version strings of more than four parts or with a trailing
   dot (undefined behaviour, package.cpp:280) and tables of 2^16 records.      *)
EXTENDS Integers, FiniteSets, Lists

CONSTANTS Locales,      \* the locales in use, in the order of std::map
          Cut,          \* what is left of a locale in five bytes
          Codes,        \* numbers of errors, catalogs and messages
          Strings,      \* names, descriptions, messages and text keys
          Versions,     \* version strings, each a sequence of words of characters
          TableLimit,   \* 2^8: the number of tables is written in one byte
          MaxCalls,     \* bound on the calls that add items or set the version
          NoText,       \* a NULL string; it also stands for "not known"
          Crash         \* the answer of a function that dereferences NULL

LocaleSet == {Locales[k] : k \in DOMAIN Locales}

ASSUME ResourceAssumption ==
  /\ Locales \in Seq(LocaleSet)
  /\ \A j, k \in DOMAIN Locales : Locales[j] = Locales[k] => j = k
  /\ Cut \in [LocaleSet -> LocaleSet]
  /\ \A l \in LocaleSet : Cut[Cut[l]] = Cut[l]
  /\ Strings \subseteq Nat /\ NoText \notin Strings /\ Codes \subseteq Nat
  /\ Versions \subseteq Seq(Seq(Nat)) /\ TableLimit \in Nat \ {0}

VARIABLES pack,         \* _resourceTables
          version,      \* _version: Major, Minor, Build, Reversion
          want,         \* history: the fields each item of each locale was given
          mixed,        \* history: locales read into one table, or cut off by the count
          asked,        \* history: the version asked for, NoText when it was refused
          calls         \* the number of those calls

packVars == <<pack, version, want, mixed, asked, calls>>

NullId == -1            \* (uint32_t)-1

EmptyTable == [ids |-> <<>>, strings |-> <<>>]

Items == ({"error", "catalog", "message"} \X Codes) \cup ({"text"} \X Strings)

Maybe == Strings \cup {NoText}

(* The strings a New call may be given for an item. *)
FieldsOf(item) == CASE item[1] = "message" -> {<<m>> : m \in Maybe}
                    [] item[1] = "text"    -> {<<item[2], m>> : m \in Maybe}
                    [] OTHER               -> Maybe \X Maybe

(* StringTable::Push of the fields in turn, NULL not at all: the table after each. *)
StringsAfter(strings, fields) ==
  LET f[n \in 0 .. Len(fields)] ==
        IF n = 0 THEN strings
        ELSE IF fields[n] = NoText THEN f[n - 1] ELSE Append(f[n - 1], fields[n])
  IN f

(* The number each of them gets. *)
Restarted(strings, fields) ==  \* a mutant of the next definition: numbered from 0
  [k \in 1 .. Len(fields) |-> IF fields[k] = NoText THEN NullId
                              ELSE Len(StringsAfter(<<>>, fields)[k - 1])]
PushedIds(strings, fields) ==
  [k \in 1 .. Len(fields) |-> IF fields[k] = NoText THEN NullId
                              ELSE Len(StringsAfter(strings, fields)[k - 1])]

(* StringTable::Get, which counts from 0. *)
StringOf(table, id) == IF id = NullId THEN NoText ELSE table.strings[id + 1]

(* The std::map after an insertion. *)
With(map, key, value) ==
  [k \in {key} \cup DOMAIN map |-> IF k = key THEN value ELSE map[k]]

TableFor(l) == IF l \in DOMAIN pack THEN pack[l] ELSE EmptyTable

(* NewErrorMessage, NewTraceCatalog, NewTraceMessage, NewText: an item the table
   already has is an error and changes nothing. *)
NewItem(l, item, fields) ==
  LET t == TableFor(l) IN
  /\ calls < MaxCalls /\ calls' = calls + 1
  /\ item \notin DOMAIN t.ids
  /\ pack' = With(pack, l, [ids     |-> With(t.ids, item, PushedIds(t.strings, fields)),
                            strings |-> StringsAfter(t.strings, fields)[Len(fields)]])
  /\ want' = [want EXCEPT ![l] = With(@, item, fields)]
  /\ UNCHANGED <<version, mixed, asked>>

(* ResourceTable::Read into a table that may hold another locale's records: the
   records replace those of the same number, the strings go behind those that
   are there, and a text is filed under the string its key number now denotes. *)
Filed(table, ids, item) ==
  IF item[1] = "text" THEN <<"text", StringOf(table, ids[item][1])>> ELSE item

MergedTable(old, file) ==
  LET strings == old.strings \o file.strings
      named   == [ids |-> <<>>, strings |-> strings]
      filed   == {Filed(named, file.ids, i) : i \in DOMAIN file.ids}
      last(i) == LET same == {j \in DOMAIN file.ids : Filed(named, file.ids, j) = i}
                 IN CHOOSE j \in same : \A k \in same : j[2] >= k[2]
  IN [ids     |-> [i \in filed \cup DOMAIN old.ids |->
                    IF i \in filed THEN file.ids[last(i)] ELSE old.ids[i]],
      strings |-> strings]

(* Package::Write: the tables in the order of their locales, as many as fit the
   count.  Package::Read: each goes to the table of its shortened locale. *)
Written == LET all == Kept(Locales, DOMAIN pack)
           IN SubSeq(all, 1, Len(all) % TableLimit)

ReadTable(tables, l) ==
  LET to == Cut[l]
      old == IF to \in DOMAIN tables THEN tables[to] ELSE EmptyTable
  IN With(tables, to, MergedTable(old, pack[l]))

PackageRead ==
  LET tables[n \in 0 .. Len(Written)] ==
        IF n = 0 THEN <<>> ELSE ReadTable(tables[n - 1], Written[n])
  IN tables[Len(Written)]

Sharing(l) == {k \in DOMAIN pack : Cut[k] = l}

Reload ==
  /\ pack' = PackageRead
  /\ mixed' = {l \in LocaleSet : \/ Cardinality(DOMAIN pack) >= TableLimit
                                 \/ Cardinality(Sharing(l)) > 1
                                 \/ Sharing(l) \cap mixed # {}}
  /\ want' = [l \in LocaleSet |-> IF Cardinality(Sharing(l)) = 1
                                  THEN want[CHOOSE k \in Sharing(l) : TRUE] ELSE <<>>]
  /\ UNCHANGED <<version, asked, calls>>

(* __atoi: characters 0..9 are digits, Star and any other one counts as 11. *)
Star == 12
Number(word) ==
  LET value[n \in 0 .. Len(word)] ==
        IF n = 0 THEN 0
        ELSE (value[n - 1] * 10 + (IF word[n] > 9 THEN 11 ELSE word[n])) % 65536
  IN value[Len(word)]

Refused == 65535

Wildcard(word) == word = <<Star>>

(* How many of the parts are numbers that are stored before the call succeeds or
   meets a part it refuses, that one included. *)
NumericParts(parts) ==
  CASE Len(parts) = 3 -> 2
    [] Len(parts) = 4 -> IF Wildcard(parts[4]) THEN 3 ELSE 4
    [] OTHER -> 0

Bad(parts) == {k \in 1 .. NumericParts(parts) : Number(parts[k]) = Refused}

Stored(parts) == IF Bad(parts) = {} THEN NumericParts(parts)
                 ELSE CHOOSE k \in Bad(parts) : \A j \in Bad(parts) : k <= j

Accepted(parts) == /\ Len(parts) \in {3, 4} /\ Bad(parts) = {}
                   /\ Len(parts) = 3 => Wildcard(parts[3])

(* What the text means, where it is a proper one. *)
DecimalOf(word) ==
  LET value[n \in 0 .. Len(word)] == IF n = 0 THEN 0 ELSE value[n - 1] * 10 + word[n]
  IN value[Len(word)]

Proper(word) == /\ word # <<>> /\ \A k \in DOMAIN word : word[k] \in 0 .. 9
                /\ DecimalOf(word) < Refused

Meant(parts, clock) ==
  [k \in 1 .. 4 |-> IF k <= NumericParts(parts)
                    THEN DecimalOf(parts[k])
                    ELSE clock[k]]

(* Package::Version: the numbers are stored one by one as they are parsed, so a
   refused string leaves the parts before the bad one changed. *)
SetVersion(parts, clock) ==
  /\ calls < MaxCalls /\ calls' = calls + 1
  /\ version' = [k \in 1 .. 4 |-> IF k <= Stored(parts) THEN Number(parts[k])
                                  ELSE IF Accepted(parts) THEN clock[k] ELSE version[k]]
  /\ asked' = IF /\ Accepted(parts)
                 /\ \A k \in 1 .. NumericParts(parts) : Proper(parts[k])
              THEN Meant(parts, clock) ELSE NoText
  /\ UNCHANGED <<pack, want, mixed>>

ResourceInit ==
  /\ pack = <<>> /\ want = [l \in LocaleSet |-> <<>>] /\ mixed = {}
  /\ version = <<0, 0, 0, 0>> /\ asked = NoText /\ calls = 0

ResourceNext ==
  \/ \E l \in LocaleSet, i \in Items : \E f \in FieldsOf(i) : NewItem(l, i, f)
  \/ Reload
  \/ \E v \in Versions, tick \in {0, 43199} : SetVersion(v, <<0, 0, 365, tick>>)

ResourceSpec == ResourceInit /\ [][ResourceNext]_packVars

-----------------------------------------------------------------------------
(* GetErrorMessage, GetTraceMessage and GetText test what they found;
   GetTraceCatalog does not. *)
Unknown(item) == IF item[1] = "catalog" THEN Crash ELSE NoText

StringsOf(table, item) ==
  [k \in DOMAIN table.ids[item] |-> StringOf(table, table.ids[item][k])]

(* LemonResourceErrorInfo, LemonResourceTraceMessage, LemonResourceText ... *)
AnswerOf(l, item) ==
  CASE l \notin DOMAIN pack -> NoText
    [] l \in DOMAIN pack /\ item \notin DOMAIN pack[l].ids -> Unknown(item)
    [] OTHER -> StringsOf(pack[l], item)

(* What the calls since the package was made entitle to.                    *)
Wanted(l, item) ==
  CASE DOMAIN want[l] = {} -> NoText
    [] DOMAIN want[l] # {} /\ item \notin DOMAIN want[l] -> Unknown(item)
    [] OTHER -> want[l][item]

(* Every item of a package, and its version, is found again as it was given,
   however often the package is written, read and added to: string numbers stay
   right when strings are pushed behind those of a file.  An item that was never
   given is answered NULL, except that asking for a trace catalog crashes as soon as
   the locale has any other item.  Nothing is promised of a locale whose first five
   bytes it shares with another one of the package, whose items Read mixes, nor of a
   package of 256 locales or more (its count is one byte). *)
ReadsBack ==
  Cardinality(DOMAIN pack) < TableLimit =>
     /\ \A l \in LocaleSet \ mixed, i \in Items : AnswerOf(l, i) = Wanted(l, i)
     /\ asked # NoText => version = asked
=============================================================================
