------------------------------ MODULE LuaFiles ------------------------------
(***************************************************************************)
(* Files of the io library (liolib.c).  A handle is a userdata with a FILE *)
(* and the function that closes it; its being open is that function not    *)
(* being NULL.  The program holds handles and iterators of lines, the      *)
(* registry the default input and output, and the collector finalizes what *)
(* nobody holds.  A FILE that is closed may be given out again.            *)
(***************************************************************************)
EXTENDS Integers, FiniteSets

CONSTANTS Handle,        \* userdata
          Stdin, Stdout, \* handles of the standard files
          Stream,        \* FILEs of the C library, besides those two
          NullFile,
          MaxIterators   \* bound on the iterators the program holds at a time

VARIABLES closef,        \* how a handle is closed: "NULL", "none" if it does not exist
          file,          \* its FILE
          opened,        \* by what a FILE was opened, "free"
          holds,          \* handles the program holds
          input, output, \* the default files
          iterators      \* iterators it holds: a handle, and whether to close it at the end

fileVars == <<closef, file, opened, holds, input, output, iterators>>

Standard == {Stdin, Stdout}
FilesOf == Stream \cup Standard   \* a standard handle's FILE is named like it

ASSUME FilesAssumption ==
  Standard \subseteq Handle /\ Stream \cap Standard = {} /\ NullFile \notin FilesOf

FilesInit ==
  /\ closef = [h \in Handle |-> IF h \in Standard THEN "io_noclose" ELSE "none"]
  /\ file = [h \in Handle |-> IF h \in Standard THEN h ELSE NullFile]
  /\ opened = [s \in FilesOf |-> IF s \in Standard THEN "std" ELSE "free"]
  /\ holds = Standard /\ input = Stdin /\ output = Stdout /\ iterators = {}

isclosed(h) == closef[h] = "NULL"
Reached == holds \cup {input, output} \cup {it.h : it \in iterators}

(* fopen and tmpfile, or popen: a FILE or NULL.                            *)
Opens(by) == {NullFile} \cup {s \in Stream : opened[s] = "free"}
GivenOut(s, by) == opened' = IF s = NullFile THEN opened ELSE [opened EXCEPT ![s] = by]

(* newfile and newprefile with the opening of their FILE.                  *)
NewHandle(h, s, by, close) ==
  /\ closef[h] = "none"
  /\ closef' = [closef EXCEPT ![h] = close]
  /\ file' = [file EXCEPT ![h] = s]
  /\ GivenOut(s, by)

newfile(h, s) == NewHandle(h, s, "fopen", "io_fclose")

(* What a function that opens returns: the handle, or nil and a message;   *)
(* then nobody holds the handle.                                           *)
Returned(h, s) == holds' = IF s = NullFile THEN holds ELSE holds \cup {h}

io_open(h, s) == newfile(h, s) /\ Returned(h, s) /\ UNCHANGED <<input, output, iterators>>

(* io_open with a bad mode: the error is raised before fopen.              *)
OpenBadMode(h) == newfile(h, NullFile) /\ UNCHANGED <<holds, input, output, iterators>>

io_popen(h, s) == /\ NewHandle(h, s, "popen", "io_pclose") /\ Returned(h, s)
                  /\ UNCHANGED <<input, output, iterators>>

(* newprefile's handle counts as closed; where there is no popen, the      *)
(* error is raised before that changes.                                    *)
PopenUnsupported(h) ==
  /\ closef[h] = "none" /\ closef' = [closef EXCEPT ![h] = "NULL"]
  /\ UNCHANGED <<file, opened, holds, input, output, iterators>>

(* ------------------------------- closing ------------------------------- *)

(* io_fclose, io_pclose and io_noclose.                                    *)
CloseStream(h, marked) ==
  IF closef[h] = "io_noclose"
  THEN closef' = [closef EXCEPT ![h] = "io_noclose"] /\ UNCHANGED opened
  ELSE closef' = marked /\ opened' = [opened EXCEPT ![file[h]] = "free"]

Unmarked(h) == closef
Marked(h) == [closef EXCEPT ![h] = "NULL"]
aux_close(h) == CloseStream(h, Marked(h)) /\ UNCHANGED file

(* The program closes a handle; io.close() closes the default output.      *)
io_close(h) ==
  /\ h \in holds \cup {output} /\ ~isclosed(h)
  /\ aux_close(h) /\ UNCHANGED <<holds, input, output, iterators>>

(* The collector finalizes a handle nobody holds, and frees it.            *)
EvenClosed(h) == file[h] # NullFile
MustClose(h) == ~isclosed(h) /\ file[h] # NullFile
f_gc(h) ==
  /\ closef[h] # "none" /\ h \notin Reached
  /\ IF MustClose(h) /\ closef[h] # "io_noclose"
     THEN opened' = [opened EXCEPT ![file[h]] = "free"] ELSE UNCHANGED opened
  /\ closef' = [closef EXCEPT ![h] = "none"] /\ file' = [file EXCEPT ![h] = NullFile]
  /\ UNCHANGED <<holds, input, output, iterators>>

Forget(h) == /\ h \in holds /\ holds' = holds \ {h}
             /\ UNCHANGED <<closef, file, opened, input, output, iterators>>

(* ---------------------------- default files ---------------------------- *)

SetDefault(which, h) ==
  CASE which = "input"  -> input' = h /\ UNCHANGED output
    [] which = "output" -> output' = h /\ UNCHANGED input

(* g_iofile with a name, and opencheck: if the file cannot be opened an    *)
(* error is raised and the default stays.  The program gets the handle.    *)
DefaultByName(which, h, s) ==
  /\ newfile(h, s) /\ Returned(h, s)
  /\ IF s = NullFile THEN UNCHANGED <<input, output>> ELSE SetDefault(which, h)
  /\ UNCHANGED iterators

(* g_iofile with a handle.                                                 *)
DefaultByHandle(which, h) ==
  /\ h \in holds /\ ~isclosed(h)
  /\ SetDefault(which, h) /\ UNCHANGED <<closef, file, opened, holds, iterators>>

(* -------------------------------- lines -------------------------------- *)

aux_lines(h, toclose) ==
  /\ Cardinality(iterators) < MaxIterators
  /\ iterators' = iterators \cup {[h |-> h, toclose |-> toclose]}

f_lines(h) == /\ h \in holds \cup {input} /\ ~isclosed(h)
              /\ aux_lines(h, FALSE)
              /\ UNCHANGED <<closef, file, opened, holds, input, output>>

(* io_lines with a name; the program does not see the handle.              *)
LinesByName(h, s) ==
  /\ newfile(h, s)
  /\ IF s = NullFile THEN UNCHANGED iterators ELSE aux_lines(h, TRUE)
  /\ UNCHANGED <<holds, input, output>>

(* io_readline at the end of the file.                                     *)
EndOfLines(it) ==
  /\ it \in iterators /\ ~isclosed(it.h) /\ it.toclose
  /\ aux_close(it.h) /\ UNCHANGED <<holds, input, output, iterators>>

ForgetLines(it) == /\ it \in iterators /\ iterators' = iterators \ {it}
                   /\ UNCHANGED <<closef, file, opened, holds, input, output>>

FilesNext ==
  \/ \E h \in Handle, s \in Opens("fopen") :
       \/ io_open(h, s) \/ io_popen(h, s) \/ LinesByName(h, s)
       \/ \E which \in {"input", "output"} : DefaultByName(which, h, s)
  \/ \E h \in Handle : \/ OpenBadMode(h) \/ PopenUnsupported(h) \/ io_close(h)
                       \/ f_gc(h) \/ Forget(h) \/ f_lines(h)
  \/ \E h \in Handle, which \in {"input", "output"} : DefaultByHandle(which, h)
  \/ \E it \in iterators : EndOfLines(it) \/ ForgetLines(it)

FilesSpec == FilesInit /\ [][FilesNext]_fileVars

(* ------------------------------- property ------------------------------ *)

Kind == [close \in {"io_fclose", "io_pclose", "io_noclose"} |->
           CASE close = "io_fclose" -> "fopen"
             [] close = "io_pclose" -> "popen"
             [] close = "io_noclose" -> "std"]

(* A FILE that was opened has exactly one open handle, whose closing       *)
(* function is the one for how the file was opened: none is closed twice,  *)
(* by another's function, or lost, whichever of the program, an iterator   *)
(* at its end and the collector comes first.  What the program can reach   *)
(* is closed or has a FILE, an open one: no call passes NULL or a FILE     *)
(* that was closed to the C library.  Standard files stay open.            *)
FilesOwned ==
  LET Open(h) == closef[h] \in DOMAIN Kind
  IN /\ \A s \in Stream : opened[s] # "free" =>
          \E h \in Handle : {g \in Handle : Open(g) /\ file[g] = s} = {h}
     /\ \A h \in Handle : Open(h) /\ file[h] # NullFile => opened[file[h]] = Kind[closef[h]]
     /\ \A h \in Reached : closef[h] # "none" /\ (Open(h) => file[h] # NullFile)
     /\ \A s \in Standard : opened[s] = "std"
=============================================================================
