--------------------------------- MODULE Options ---------------------------------
(***************************************************************************)
(* The options of the command line tool: populate_request of src/src/      *)
(* main.c, one call of getopt per step, for command lines that are written *)
(* as the usage line of main says.                                         *)
(*                                                                         *)
(* The value of an option is written as <<"value", o>>.                    *)
(***************************************************************************)
EXTENDS Naturals, Sequences, SequencesExt, FiniteSetsExt

CONSTANTS
    Given,        \* the optional options that are used, of Optional
    MaxGiven      \* how many of them on one line

\* The usage line: "-u <user> -h <host> [-c <connection name>] [-d <database>]
\* [-f <input file>] [-l <log level>] [-p <port>] [-t <tag>] [-v]
\* [-w <password>]".
Required == {"u", "h"}
Optional == {"c", "d", "f", "l", "p", "t", "v", "w"}

OptionsAssumption == Given \subseteq Optional /\ MaxGiven \in Nat

VARIABLES
    argv,         \* the words of the command line
    optind,       \* how many of them getopt has gone through
    field,        \* what each option stored: the options set, and to what
    required,     \* how many of the required options were seen
    pc            \* "getopt", then "usage" or "run"

vars == <<argv, optind, field, required, pc>>

Unset == <<"unset", "unset">>
Option(o) == <<"option", o>>
Value(o) == <<"value", o>>

\* An option of the usage line; all but -v come with a value.
Written(o) == IF o = "v" THEN <<Option(o)>> ELSE <<Option(o), Value(o)>>
Lines == UNION {{FlattenSeq([n \in DOMAIN order |-> Written(order[n])]) : order \in SetToSeqs(used)} :
                used \in {Required \cup g : g \in {h \in SUBSET Given : Cardinality(h) =< MaxGiven}}
                             \cup {{"u"}, {"h"}, {}}}

Init ==
    /\ argv \in Lines
    /\ optind = 0 /\ required = 0 /\ pc = "getopt"
    /\ field = [o \in Required \cup Optional |-> Unset]

--------------------------------------------------------------------------------
\* Mutant: -t and -p without their colon.
takes_value_few == {"h", "u", "w", "c", "d", "v", "f", "F", "T", "S", "C", "E"}

\* "h:p:u:w:c:t:d:v:f:F:T:S:C:E:"
takes_value == {"h", "p", "u", "w", "c", "t", "d", "v", "f", "F", "T", "S", "C", "E"}

Word == argv[optind + 1]

\* An option and the word behind it, whatever that is.
Known ==
    /\ pc = "getopt" /\ optind + 1 < Len(argv)
    /\ Word[1] = "option" /\ Word[2] \in takes_value
    /\ field' = IF Word[2] = "v" THEN field ELSE [field EXCEPT ![Word[2]] = argv[optind + 2]]
    /\ required' = IF Word[2] \in Required THEN required + 1 ELSE required
    /\ optind' = optind + 2
    /\ UNCHANGED <<argv, pc>>

\* An option that getopt does not know or that has no word behind it ('?'), or
\* a word that is no option: getopt complains or passes over it.
Skipped ==
    /\ pc = "getopt" /\ optind < Len(argv)
    /\ Word[1] = "option" => Word[2] \notin takes_value \/ optind + 1 = Len(argv)
    /\ optind' = optind + 1
    /\ UNCHANGED <<argv, field, required, pc>>

GetoptEnds ==
    /\ pc = "getopt" /\ optind = Len(argv)
    /\ pc' = IF required < 2 THEN "usage" ELSE "run"
    /\ UNCHANGED <<argv, optind, field, required>>

Next == Known \/ Skipped \/ GetoptEnds

Spec == Init /\ [][Next]_vars /\ WF_vars(Next)

--------------------------------------------------------------------------------
\* The states the variables range over.
TypeOK ==
    /\ optind \in 0..Len(argv)
    /\ required \in 0..Cardinality(Required)
    /\ \A o \in DOMAIN field : field[o] \in {Unset} \cup Range(argv)
    /\ pc \in {"getopt", "usage", "run"}
    /\ pc = "run" => \A o \in Required : field[o] # Unset

UsedOptions == {o \in Required \cup Optional : Option(o) \in Range(argv)}

\* A command line that the usage line allows is taken, and each option gets
\* its own value, in whatever order they come; without user and host the tool
\* says how it is used.  Of the options -l and -v that is not true.
UsageHolds ==
    UsedOptions \cap {"l", "v"} = {} =>
        /\ pc = "run" => Required \subseteq UsedOptions
        /\ pc = "usage" => ~ (Required \subseteq UsedOptions)
        /\ pc = "run" => \A o \in UsedOptions : field[o] = Value(o)
================================================================================
