------------------------------- MODULE MCAnswer -------------------------------
(***************************************************************************)
(* What a request gets for an answer, for TLC.  A behaviour is one of three *)
(* parts: "session", the requests that a connector runs over one login after *)
(* the other (Session, with the constants of the configuration); "response", *)
(* the JSON of any command or query (Response, likewise); "types", a result  *)
(* set of one column of any type that one of the drivers knows (Response     *)
(* again).  What belongs to the other parts stays at rest.                  *)
(***************************************************************************)
EXTENDS Session

CONSTANTS MaxResults, MaxRows, MaxCols, Types, CsvTexts, ErrorHandlers, MaxSlots

VARIABLES part, asked, at, j, d, failed, cols, col, maxcolname, fields, row, results, rows

response == <<asked, at, j, d, failed, cols, col, maxcolname, fields, row, results, rows>>
all == <<part, vars, response>>

R == INSTANCE Response WITH request <- asked
T == INSTANCE Response WITH request <- asked,
        MaxResults <- 1, MaxRows <- 1, MaxCols <- 1, MaxSlots <- 1,
        Types <- {n[1] : n \in R!Names}, CsvTexts <- {"plain"}, ErrorHandlers <- {FALSE}

ASSUME ResponseConstants == R!ResponseAssumption /\ T!ResponseAssumption

------------------------------------------------------------------------------
PlainQuery ==
    [cmd |-> "", param |-> FALSE, status |-> FALSE, sql |-> TRUE, login |-> TRUE,
     named |-> FALSE, callback |-> FALSE, onerror |-> FALSE, csv |-> FALSE]

MCInit ==
    /\ part \in {"session", "response", "types"}
    /\ part # "response" => asked = PlainQuery
    /\ R!Init
    /\ part # "session" => driver = "mssql"
    /\ Init

MCNext ==
    \/ part = "session" /\ Next /\ UNCHANGED <<part, response>>
    \/ part = "response" /\ R!Next /\ UNCHANGED <<part, vars>>
    \/ part = "types" /\ T!Next /\ UNCHANGED <<part, vars>>

MCSpec ==
    /\ MCInit /\ [][MCNext]_all
    /\ WF_vars(part = "session" /\ Step)

------------------------------------------------------------------------------
(* The properties of Response, and those that two of the parts share; the      *)
(* others of Session are its own.                                           *)

\* The states of the three parts.
TypesOK == TypeOK /\ R!TypeOK /\ (part # "response" => T!TypeOK)

\* Every response is one JSON value, with data in the callback that was asked for
\* (Response; db.c:526 and 647).  Left out are the Unopened, texts in which raw
\* data got lost, and the callback of kill and of the status page.
ResponseWellFormed == R!ResponseWellFormed

\* The error of a query goes to the error handler, or for want of one to the
\* callback, and data never go to the error handler (Response; db.c:496).  The
\* errors of other commands use neither.
ErrorToHandler == R!ErrorToHandler

\* What "fields" announces is true of the rows: their keys, however unnamed
\* columns are numbered, and, for all types, that columns of one sql_type are in
\* quotes all or none (Response; db.c:718, mssql.c:144, odbc.c:119, mysql.c:95).
FieldsDescribeRows ==
    R!RowKeysMatchFields /\ (part = "types" => T!SqlTypeTellsQuotes)
==============================================================================
