--------------------------------- MODULE Script ---------------------------------
(***************************************************************************)
(* The loop of the command line tool over the lines it is given: main,     *)
(* slurp_input_file and dbrelay_readline of src/src/main.c, with what      *)
(* db_cmd does to the request.                                             *)
(*                                                                         *)
(* Lines are collected in mybuf until "go" runs them.  A line is its kind, *)
(* which says what the buffer means when it begins with it, and its length *)
(* without the newline.  The request is one for the whole session.         *)
(***************************************************************************)
EXTENDS Naturals, Sequences, SequencesExt, FiniteSetsExt

CONSTANTS
    Lengths,      \* of lines and of the pieces of files
    FirstSize,    \* 4096, the size mybuf starts with
    MaxLines      \* bound on the lines of a session

ScriptAssumption ==
    /\ Lengths \subseteq Nat /\ FirstSize \in Nat \ {0} /\ MaxLines \in Nat

VARIABLES
    mybuf, buflen, bufsz,   \* the buffer: lines and newlines, bytes, capacity
    sql, cmd, param0,       \* request->sql, cmd and params[0]
    from,         \* length of mybuf that is from the present go or reset
    count,        \* lines read
    ran,          \* what the last go did
    pc            \* "read" or "exit"

request == <<sql, cmd, param0>>
buffer == <<mybuf, buflen, bufsz>>
vars == <<buffer, request, from, count, ran, pc>>

\* What a line is at the beginning of the buffer.
Kinds == {"status", "kill", "list tables", "list columns", "list keys", "text"}
TextLines == {line \in [kind : Kinds, len : Lengths] : line.len = 0 => line.kind = "text"}
Newline == [kind |-> "newline", len |-> 1]
Bytes(text) == LET sum[n \in 0..Len(text)] == IF n = 0 THEN 0 ELSE sum[n - 1] + text[n].len
               IN  sum[Len(text)]

NoRun == [what |-> "nothing", text |-> <<>>, param |-> "null"]

Init ==
    /\ mybuf = <<>> /\ buflen = 0 /\ bufsz = FirstSize
    /\ sql = "null" /\ cmd = "" /\ param0 = "null"
    /\ from = <<>> /\ count = 0
    /\ ran = NoRun /\ pc = "read"

\* The loop reads a line.
Read == pc = "read" /\ count < MaxLines /\ count' = count + 1

--------------------------------------------------------------------------------
\* The sizes that mybuf can have after at most most doublings.
Doubled(most) == LET size[n \in 0..most] == IF n = 0 THEN bufsz ELSE 2 * size[n - 1]
                 IN  {size[n] : n \in 0..most}

\* Mutant: no room for the newline.
Room_short(len) == LET need == buflen + len + 1
                   IN  Min({size \in Doubled(need) : need =< size})

\* The size is doubled until the line, a newline and the NUL fit.
Room(len) == LET need == buflen + len + 2
             IN  Min({size \in Doubled(need) : need =< size})

\* A line that is no command of the tool is kept, with its newline.
Text(line) ==
    /\ Read
    /\ bufsz' = Room(line.len)
    /\ mybuf' = mybuf \o <<line, Newline>>
    /\ buflen' = buflen + line.len + 1
    /\ from' = from \o <<line, Newline>>
    /\ UNCHANGED <<request, ran, pc>>

\* "load": the pieces that fgets reads of a file, the last one with or without
\* a newline; one that cannot be opened leaves the buffer as it is.
Load(piece) ==
    /\ Read
    /\ bufsz' = Room(Bytes(piece))
    /\ mybuf' = mybuf \o piece
    /\ buflen' = buflen + Bytes(piece)
    /\ from' = from \o piece
    /\ UNCHANGED <<request, ran, pc>>

LoadFails == Read /\ UNCHANGED <<buffer, request, from, ran, pc>>

\* "reset"
Reset ==
    /\ Read
    /\ mybuf' = <<>> /\ buflen' = 0
    /\ from' = <<>>
    /\ UNCHANGED <<bufsz, request, ran, pc>>

\* What the buffer begins with.
First == IF mybuf = <<>> THEN "text" ELSE mybuf[1].kind
Words == {"kill", "list columns", "list keys"}   \* commands with a parameter

CmdOf(kind) == CASE kind = "kill" -> "kill" [] kind = "list tables" -> "tables"
                 [] kind = "list columns" -> "columns" [] kind = "list keys" -> "pkey"
                 [] OTHER -> cmd

\* Mutant: the buffer is not emptied.
GoKeepsBuffer ==
    /\ Read
    /\ ran' = [what |-> IF First \in Kinds \ {"text"} THEN First ELSE "query",
               text |-> mybuf, param |-> param0]
    /\ from' = <<>>
    /\ UNCHANGED <<buffer, request, pc>>

\* "go": a status request, a command, or the buffer as a query.  The word of a
\* command is in a copy of the buffer that is freed behind it, and params[0]
\* goes on pointing there; a catalog query stays in request->sql.
Go ==
    /\ Read
    /\ cmd' = CmdOf(First)
    /\ \E word \in IF First \in Words THEN {"null", "word"} ELSE {param0} :
        /\ ran' = [what |-> IF First \in Kinds \ {"text"} THEN First ELSE "query",
                   text |-> mybuf, param |-> word]
        /\ param0' = IF word = "word" THEN "freed" ELSE word
        /\ sql' = CASE First = "text" -> "mybuf"
                    [] First = "list tables" -> "catalog"
                    [] First \in {"list columns", "list keys"} /\ word # "null" -> "catalog"
                    [] OTHER -> sql
    /\ mybuf' = <<>> /\ buflen' = 0
    /\ from' = <<>>
    /\ UNCHANGED <<bufsz, pc>>

\* "exit", "quit", "bye" or the end of the input; what was not run is lost.
Exit ==
    /\ pc = "read" /\ pc' = "exit"
    /\ sql' = "null"
    /\ UNCHANGED <<buffer, cmd, param0, from, count, ran>>

Pieces == {<<line>> : line \in TextLines} \cup {<<line, Newline>> : line \in TextLines}

Next ==
    \/ \E line \in TextLines : Text(line)
    \/ \E piece \in Pieces : Load(piece)
    \/ LoadFails \/ Reset \/ Go \/ Exit

Spec == Init /\ [][Next]_vars

--------------------------------------------------------------------------------
\* The states the variables range over.
TypeOK ==
    /\ Range(mybuf) \subseteq TextLines \cup {Newline}
    /\ buflen = Bytes(mybuf)
    /\ bufsz \in Nat /\ FirstSize =< bufsz
    /\ sql \in {"null", "mybuf", "catalog"} /\ param0 \in {"null", "freed"}
    /\ cmd \in {"", "kill", "tables", "columns", "pkey"}
    /\ count \in 0..MaxLines /\ pc \in {"read", "exit"}

\* The text and the NUL behind it are inside the buffer, whatever was loaded,
\* kept or run before (main.c 243-256).
TextFits == buflen + 1 =< bufsz

\* A go runs the lines that came since the go or reset before it, all of them
\* and in their order (main.c 180-257).
RunsSinceGo ==
    [][Go => ran'.text = from]_vars
================================================================================
