------------------------------- MODULE MCInput -------------------------------
(***************************************************************************)
(* The parts of the program that read something, for TLC: the lines of a    *)
(* socket (RecvString), the headers and the body of a request (Http), its   *)
(* fields (QueryString), the placeholders of a query (Params), a command    *)
(* line (Options) and a script (Script).  They share nothing, so a          *)
(* behaviour is one of one part, on any input within the bounds below, and   *)
(* what belongs to the other parts stays at rest.                           *)
(***************************************************************************)
EXTENDS RecvString, Sequences, FiniteSets

CONSTANTS
    HeaderKeys, HeaderWords, MaxHeaders, MaxItems,                         \* Http
    QueryKeys, Tokens, MaxPairs, MaxValue, ValueSize, FieldLen,           \* QueryString
    MaxQueryParams,                                                        \*
    MaxText, MaxParams, Values, Magic,                                     \* Params
    Given, MaxGiven,                                                       \* Options
    Lengths, FirstSize, MaxLines                                           \* Script

VARIABLES
    part,
    method, uri, parts, origins, http_pc, status, content_type, runs,
    way, pairs, input, s, key, target, value, v, fields, at,
    sql, params, nomagic, named, i, pos, sb, params_pc, to_driver,
    argv, optind, field, required, options_pc,
    mybuf, buflen, bufsz, request_sql, cmd, param0, from, count, ran, script_pc

http == <<method, uri, parts, origins, http_pc, status, content_type, runs>>
query == <<way, pairs, input, s, key, target, value, v, fields, at>>
text == <<sql, params, nomagic, named, i, pos, sb, params_pc, to_driver>>
options == <<argv, optind, field, required, options_pc>>
script == <<mybuf, buflen, bufsz, request_sql, cmd, param0, from, count, ran, script_pc>>
all == <<part, vars, http, query, text, options, script>>

H == INSTANCE Http WITH pc <- http_pc, Keys <- HeaderKeys, Words <- HeaderWords
Q == INSTANCE QueryString WITH Keys <- QueryKeys, MaxParams <- MaxQueryParams
P == INSTANCE Params WITH pc <- params_pc, sent <- to_driver
O == INSTANCE Options WITH pc <- options_pc
S == INSTANCE Script WITH pc <- script_pc, sql <- request_sql

ASSUME PartsAssumption ==
    /\ H!HttpAssumption /\ Q!QueryAssumption /\ P!ParamsAssumption
    /\ O!OptionsAssumption /\ S!ScriptAssumption

------------------------------------------------------------------------------
(* The parts at rest. *)

SocketAtRest == newline = {}
HttpAtRest ==
    /\ method = "GET" /\ uri = "ok" /\ parts = <<<<>>>> /\ origins = <<>>
    /\ http_pc = "handler" /\ status = "none" /\ content_type = "none" /\ runs = 0
QueryAtRest ==
    /\ way = "get" /\ pairs = <<[key |-> "sql", bare |-> TRUE, val |-> <<>>]>>
    /\ input = <<"sql">> /\ s = 1 /\ key = <<>> /\ target = "key"
    /\ value = [c \in Q!Cells |-> "stale"] /\ v = 0
    /\ fields = [f \in Q!Fields |-> <<"unset">>] /\ at = "read"
TextAtRest ==
    /\ sql = <<"x">> /\ params = <<>> /\ nomagic = FALSE /\ named = FALSE
    /\ i = 0 /\ pos = 0 /\ sb = <<"magic">> /\ params_pc = "loop" /\ to_driver = <<>>
OptionsAtRest ==
    /\ argv = <<>> /\ optind = 0 /\ required = 0 /\ options_pc = "getopt"
    /\ field = [o \in O!Required \cup O!Optional |-> O!Unset]

\* Of the requests to a front end that are refused for their method or address
\* one is enough: that comes before the headers are looked at.
HttpInput == (method = "GET" /\ uri = "ok") \/ (parts = <<<<>>>> /\ origins = <<>>)

MCInit ==
    /\ part \in {"socket", "http", "query", "params", "options", "script"}
    /\ part # "socket" => SocketAtRest
    /\ Init
    /\ IF part = "http" THEN H!Init /\ HttpInput ELSE HttpAtRest
    /\ IF part = "query" THEN Q!Init ELSE QueryAtRest
    /\ IF part = "params" THEN P!Init ELSE TextAtRest
    /\ IF part = "options" THEN O!Init ELSE OptionsAtRest
    /\ S!Init

MCNext ==
    \/ part = "socket" /\ Next /\ UNCHANGED <<part, http, query, text, options, script>>
    \/ part = "http" /\ H!Next /\ UNCHANGED <<part, vars, query, text, options, script>>
    \/ part = "query" /\ Q!Next /\ UNCHANGED <<part, vars, http, text, options, script>>
    \/ part = "params" /\ P!Next /\ UNCHANGED <<part, vars, http, query, options, script>>
    \/ part = "options" /\ O!Next /\ UNCHANGED <<part, vars, http, query, text, script>>
    \/ part = "script" /\ S!Next /\ UNCHANGED <<part, vars, http, query, text, options>>

\* The fairness of the socket's reader; the other parts need none here.
MCFairness == WF_vars(part = "socket" /\ Reader)

MCSpec == MCInit /\ [][MCNext]_all /\ MCFairness

------------------------------------------------------------------------------
(* The properties of the parts; those of the socket are RecvString's own. *)

\* The states of the parts, and that the text of a script and its NUL stay inside
\* the buffer at every doubling (Script; main.c 243-256).
TypesOK ==
    TypeOK /\ H!TypeOK /\ Q!TypeOK /\ P!TypeOK /\ O!TypeOK /\ S!TypeOK /\ S!TextFits

\* A header is found in whatever part of the list it is, unless one with a
\* shorter name that begins it comes first, and application/json goes only to
\* clients that list it, or that sent such a shorter one (Http;
\* ngx_http_dbrelay_module.c 185-242).
HeadersHeeded == H!FindsHeader /\ H!JsonOnlyIfListed

\* A field that was last sent with a value has that value, unescaped once, and no
\* field has anything that lay in the buffers (QueryString; ngx 689-833).
\* Options whose letter, switch and usage line agree, all but -l and -v, are
\* taken as the usage line has them (Options; main.c 53-111 and 157-160).
FieldsAsSent == Q!FieldsAsSent /\ Q!NothingStale /\ O!UsageHolds

\* A posted value never leaves its buffer, and a get only for what is too long or
\* for an empty value at the end (QueryString; ngx 689-833).
OverrunOnlyIf == Q!OverrunOnlyIf

\* Each parameter takes the place of its own question mark, and the driver gets
\* that text when the request names no connection (Params; db.c 589-622, 782-816).
ParamsResolved == P!ResolvesPlaceholders /\ P!DriverGetsResolved

\* A go runs what came since the one before it (Script; main.c 180-257).
RunsSinceGo == S!RunsSinceGo
==============================================================================
