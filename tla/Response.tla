------------------------------ MODULE Response ------------------------------
(***************************************************************************)
(* What a request gets back: the dispatch of a request to the commands, the *)
(* status page or a query (src/src/ngx_http_dbrelay_module.c, admin.c), and *)
(* the JSON that each of them writes (src/src/db.c), an API call of the      *)
(* database at a time.  The table, the connector and the login are choices   *)
(* here; ConnPool and Connector are about them.                             *)
(***************************************************************************)
EXTENDS Integers, Sequences, TLC, Json, Columns

CONSTANTS
    MaxResults, MaxRows, MaxCols,   \* bounds on what a query returns
    Types,                          \* of the columns (see Columns)
    CsvTexts,                       \* of values: "plain", "comma", "raw"
    ErrorHandlers,                  \* whether requests may have a js_error
    MaxSlots                        \* DBRELAY_MAX_CONN

ResponseAssumption ==
    /\ {MaxResults, MaxRows, MaxCols, MaxSlots} \subseteq Nat
    /\ CsvTexts \subseteq {"plain", "comma", "raw"} /\ ErrorHandlers \subseteq BOOLEAN

Commands == {"", "kill", "tables", "columns", "other"}     \* pkey is as columns
ColumnNames == {"", "2", "x", "quoted"}    \* none, a number, a word, one with a quote

VARIABLES
    request,    \* the fields that decide what is done
    at,         \* where the request is
    j,          \* the writer of the response
    d,          \* the writer of exec_query
    failed,     \* an error was reported
    cols, col,  \* the columns of the result, and those written
    maxcolname, \* the last number given to a column without a name
    fields, row,\* the keys written to "fields" and to the current row
    results, rows   \* counters: bounds only

answer == <<cols, col, maxcolname, fields, row, results, rows>>
vars == <<request, at, j, d, failed, answer>>

RequestKinds ==
    [cmd : Commands, param : BOOLEAN, status : BOOLEAN, sql : BOOLEAN, login : BOOLEAN,
     named : BOOLEAN, callback : BOOLEAN, onerror : ErrorHandlers, csv : BOOLEAN]

Init ==
    /\ request \in RequestKinds
    /\ at = "dispatch" /\ j = New /\ d = New /\ failed = FALSE
    /\ cols = <<>> /\ col = 0 /\ maxcolname = 0 /\ fields = <<>> /\ row = <<>>
    /\ results = 0 /\ rows = 0

-----------------------------------------------------------------------------
(* Parts of a response. *)

BeginWith(callback) == NewObject(AddJson(New, callback))

AppendRequest(w) == EndObject(AddMembers(KeyedObject(w), 3))

\* The log ends the response.
AppendLog(w, n) == EndObject(EndObject(AddMembers(KeyedObject(w), n)))

\* With an error handler the response starts anew, in its callback.
Restart(w) == IF request.onerror THEN AppendRequest(BeginWith(<<"js_error">>)) ELSE w

EndCallback(w) == IF request.callback \/ request.onerror THEN AddJson(w, <<")">>) ELSE w

Done(text) ==
    /\ at' = "done" /\ j' = text
    /\ UNCHANGED <<request, d, answer>>

-----------------------------------------------------------------------------
(* Commands and the status page. *)

\* dbrelay_json_error; neither callback is used.
JsonError == EndObject(EndObject(AddMembers(KeyedObject(BeginWith(<<>>)), 1)))

NeedsParam == request.cmd \in {"kill", "columns"} /\ ~ request.param

BadCommand ==
    /\ at = "dispatch"
    /\ request.cmd = "other" \/ NeedsParam
    /\ failed' = TRUE
    /\ Done(JsonError)

\* The result is a text, whether the connector was found or not.
Kill ==
    /\ at = "dispatch" /\ request.cmd = "kill" /\ request.param
    /\ failed' = FALSE
    /\ Done(EndObject(EndObject(AddMembers(KeyedObject(BeginWith(<<>>)), 1))))

\* The metadata commands run a statement of the driver, which may have none.
Catalog ==
    /\ at = "dispatch" /\ request.cmd \in {"tables", "columns"} /\ ~ NeedsParam
    /\ \E sql \in BOOLEAN : request' = [request EXCEPT !.sql = sql]
    /\ at' = "query"
    /\ UNCHANGED <<j, d, failed, answer>>

Status ==
    /\ at = "dispatch" /\ request.cmd = "" /\ request.status
    /\ at' = "slots"
    /\ j' = KeyedArray(EndObject(AddMembers(KeyedObject(KeyedObject(BeginWith(<<>>))), 2)))
    /\ UNCHANGED <<request, d, failed, answer>>

StatusSlot ==
    /\ at = "slots" /\ rows < MaxSlots
    /\ rows' = rows + 1
    /\ \E used \in BOOLEAN : j' = IF used THEN EndObject(AddMembers(NewObject(j), 13)) ELSE j
    /\ UNCHANGED <<request, at, d, failed, cols, col, maxcolname, fields, row, results>>

StatusEnd ==
    /\ at = "slots" /\ rows = MaxSlots
    /\ Done(EndObject(EndObject(EndArray(j))))
    /\ UNCHANGED failed

-----------------------------------------------------------------------------
(* A query. *)

Query ==
    /\ at = "dispatch" /\ request.cmd = "" /\ ~ request.status
    /\ at' = "query"
    /\ UNCHANGED <<request, j, d, failed, answer>>

RunQuery ==
    /\ at = "query"
    /\ at' = "check"
    /\ j' = AppendRequest(BeginWith(IF request.callback THEN <<"js_callback">> ELSE <<>>))
    /\ UNCHANGED <<request, d, failed, answer>>

\* The early returns: write_json_log, and the response is complete.
Refuse ==
    /\ failed' = TRUE
    /\ Done(EndCallback(AppendLog(Restart(j), IF request.sql THEN 2 ELSE 1)))

CheckRequest == request.sql /\ request.login

CheckFails == at = "check" /\ ~ CheckRequest /\ Refuse
NoConnection == at = "check" /\ CheckRequest /\ Refuse
HeloFails == at = "check" /\ CheckRequest /\ request.named /\ Refuse

\* An error of the connector, of the login or of the statement.
ErrorNoRestart ==                                                       \* mutant
    /\ at = "check" /\ CheckRequest
    /\ failed' = TRUE
    /\ at' = "log"
    /\ UNCHANGED <<request, j, d, answer>>
Error ==
    /\ at = "check" /\ CheckRequest
    /\ failed' = TRUE
    /\ j' = Restart(j)
    /\ at' = "log"
    /\ UNCHANGED <<request, d, answer>>

\* The connector sends nothing back.
NoInformation ==
    /\ at = "check" /\ CheckRequest /\ request.named
    /\ at' = "log"
    /\ UNCHANGED <<request, j, d, failed, answer>>

\* The end of run_query: the log, with what is to be echoed and the error.
Log ==
    /\ at = "log"
    /\ \E n \in 0 .. 2 : /\ failed => n > 0
                         /\ Done(EndCallback(AppendLog(j, n)))
    /\ UNCHANGED failed

-----------------------------------------------------------------------------
(* exec_query and fill_data, in this process or in the connector. *)

ExecQuery ==
    /\ at = "check" /\ CheckRequest
    /\ at' = "results"
    /\ d' = KeyedArray([New EXCEPT !.text = Members])
    /\ UNCHANGED <<request, j, failed, answer>>

HasResults ==
    /\ at = "results" /\ results < MaxResults
    /\ at' = "fields"
    /\ results' = results + 1
    /\ \E n \in 0 .. MaxCols : cols' \in [1 .. n -> [name : ColumnNames, type : Types]]
    /\ col' = 0 /\ maxcolname' = 0 /\ fields' = <<>> /\ row' = <<>> /\ rows' = 0
    /\ d' = KeyedArray(NewObject(d))
    /\ UNCHANGED <<request, j, failed>>

\* Columns without a name are numbered, on from the highest number seen.
Number(name) == IF name = "2" THEN 2 ELSE 0     \* atoi
ColumnKey(name) == IF name = "" THEN ToString(maxcolname + 1) ELSE name
NextMax(name) ==
    IF name = "" THEN maxcolname + 1
    ELSE IF Number(name) > maxcolname THEN Number(name) ELSE maxcolname

ColumnLeftOpen ==                                                       \* mutant
    /\ at = "fields" /\ col < Len(cols)
    /\ col' = col + 1
    /\ fields' = Append(fields, ColumnKey(cols[col + 1].name))
    /\ maxcolname' = NextMax(cols[col + 1].name)
    /\ d' = AddMembers(NewObject(d), 2)
    /\ UNCHANGED <<request, at, j, failed, cols, row, results, rows>>

\* write_json_colinfo: length, precision and scale only if they are not 0.
Column ==
    /\ at = "fields" /\ col < Len(cols)
    /\ col' = col + 1
    /\ fields' = Append(fields, ColumnKey(cols[col + 1].name))
    /\ maxcolname' = NextMax(cols[col + 1].name)
    /\ \E n \in {2, 5} : d' = EndObject(AddMembers(NewObject(d), n))
    /\ UNCHANGED <<request, at, j, failed, cols, row, results, rows>>

FieldsEnd ==
    /\ at = "fields" /\ col = Len(cols)
    /\ at' = "rows"
    /\ d' = IF request.csv THEN AddJson(AddKey(EndArray(d)), <<"quote">>)
            ELSE KeyedArray(EndArray(d))
    /\ UNCHANGED <<request, j, failed, answer>>

FetchRowKeepsNumber ==                                                  \* mutant
    /\ at = "rows" /\ rows < MaxRows
    /\ at' = "row" /\ rows' = rows + 1 /\ col' = 0 /\ row' = <<>>
    /\ d' = IF request.csv THEN d ELSE NewObject(d)
    /\ UNCHANGED <<request, j, failed, cols, maxcolname, fields, results>>
FetchRow ==
    /\ at = "rows" /\ rows < MaxRows
    /\ at' = "row"
    /\ rows' = rows + 1 /\ col' = 0 /\ row' = <<>> /\ maxcolname' = 0
    /\ d' = IF request.csv THEN d ELSE NewObject(d)
    /\ UNCHANGED <<request, j, failed, cols, fields, results>>

\* write_json_column_csv: quotes around a value with a comma, nothing for NULL.
\* A quote, a backslash, a newline or a control character goes in as it is.
CsvValue(v) ==
    CASE v = "null" -> <<>>
      [] v = "plain" -> <<"text">>
      [] v = "comma" -> <<"escape", "text", ",", "text", "escape">>
      [] v = "raw" -> <<"raw">>

\* write_json_column_std: the key is the column's name, not escaped; a value of a
\* type that is not quoted is written as the driver gives it, unless it is null.
KeyToken(name) == IF name = "quoted" THEN "raw" ELSE "key"
ValueTokens(type) == {"value"} \cup IF IsText(type) /\ ~ IsQuoted(type) THEN {"raw"} ELSE {}

AddCell(w, column) ==
    \E value \in ValueTokens(column.type) :
        d' = AddMemberAs(w, KeyToken(ColumnKey(column.name)), value)

Cell ==
    /\ at = "row" /\ col < Len(cols)
    /\ col' = col + 1
    /\ row' = Append(row, ColumnKey(cols[col + 1].name))
    /\ maxcolname' = NextMax(cols[col + 1].name)
    /\ IF request.csv
       THEN \E v \in CsvTexts \cup {"null"} :
               d' = AddJson(d, CsvValue(v) \o IF col + 1 # Len(cols) THEN <<",">> ELSE <<>>)
       ELSE AddCell(d, cols[col + 1])
    /\ UNCHANGED <<request, at, j, failed, cols, fields, results, rows>>

RowEnd ==
    /\ at = "row" /\ col = Len(cols)
    /\ at' = "rows"
    /\ d' = IF request.csv THEN AddJson(d, <<"escape">>) ELSE EndObject(d)
    /\ UNCHANGED <<request, j, failed, answer>>

\* The comma after the CSV string is db.c's own: the key of "rows" still waits
\* for a value, so the key of "count" brings none.
ResultEndNoComma ==                                                     \* mutant
    /\ at = "rows"
    /\ at' = "results"
    /\ d' = EndObject(AddMember(IF request.csv THEN AddJson(d, <<"quote">>) ELSE EndArray(d)))
    /\ UNCHANGED <<request, j, failed, answer>>
ResultEnd ==
    /\ at = "rows"
    /\ at' = "results"
    /\ d' = EndObject(AddMember(IF request.csv THEN AddJson(d, <<"quote", ",">>) ELSE EndArray(d)))
    /\ UNCHANGED <<request, j, failed, answer>>

\* The data go into the response as text, with a comma before them.
NoMoreResults ==
    /\ at = "results"
    /\ at' = "log"
    /\ j' = AddText(AddJson(j, <<",">>), EndArray(d).text)
    /\ d' = New
    /\ UNCHANGED <<request, failed, answer>>

Next ==
    \/ BadCommand \/ Kill \/ Catalog \/ Status \/ StatusSlot \/ StatusEnd
    \/ Query \/ RunQuery \/ CheckFails \/ NoConnection \/ HeloFails \/ Error
    \/ NoInformation \/ Log
    \/ ExecQuery \/ HasResults \/ Column \/ FieldsEnd \/ FetchRow \/ Cell \/ RowEnd
    \/ ResultEnd \/ NoMoreResults

Spec == Init /\ [][Next]_vars

-----------------------------------------------------------------------------
\* The states of a response: neither writer ever has more than four levels open
\* (a response with data pasted into it is deeper than its writer knows), and
\* there are never more keys than columns.
TypeOK ==
    /\ request \in RequestKinds
    /\ at \in {"dispatch", "slots", "query", "check", "results", "fields", "rows", "row", "log", "done"}
    /\ DOMAIN j = DOMAIN New /\ Len(j.stack) <= 4
    /\ DOMAIN d = DOMAIN New /\ Len(d.stack) <= 4
    /\ failed \in BOOLEAN
    /\ col \in 0 .. Len(cols) /\ maxcolname \in Nat
    /\ Len(fields) \in 0 .. Len(cols) /\ Len(row) \in 0 .. Len(cols)

\* kill, the status page and the errors that dbrelay_json_error writes ignore
\* both callbacks (admin.c).
NoCallback ==
    \/ request.cmd \in {"kill", "other"} \/ NeedsParam
    \/ request.cmd = "" /\ request.status

\* The callback for data, and that for an error.
DataCallback == IF request.callback THEN "js_callback" ELSE "none"
ErrorCallback == IF request.onerror THEN "js_error" ELSE DataCallback

\* An error handler and no callback: the end of a successful response closes a
\* parenthesis that nobody opened (db.c:647).
Unopened == request.onerror /\ ~ request.callback /\ ~ failed

\* Whichever of its paths a request took, its response is one JSON value (the
\* texts of exec_query, of CSV rows and of restarts are pasted together by
\* hand), and data are in js_callback if it was asked for.  Three things are
\* left out, and known not to hold: the Unopened; texts in which raw data got
\* lost (names of columns with a quote, CSV values with one, binary data and
\* dates of types that a driver does not list as quoted); and the callback of
\* kill and of the status page.
ResponseWellFormed ==
    at = "done" /\ ~ Unopened /\ j.text.next # "lost" =>
        /\ j.text.next = "end"
        /\ ~ failed /\ ~ NoCallback => j.text.call = DataCallback

\* The error of a query, or of a catalogue command that got as far as its query,
\* is told in js_error, in js_callback if there is no error handler, in neither
\* if there is neither; and data never go to the error handler.  (The errors of
\* the other commands, and of a command without its parameter, go to neither
\* callback.)
ErrorToHandler ==
    at = "done" /\ ~ NoCallback =>
        IF failed THEN j.text.call = ErrorCallback ELSE j.text.call # "js_error"

\* The keys of a row are those that "fields" announced, in their order: the
\* numbering of unnamed columns restarts with each row (db.c:718).
RowKeysMatchFields == at \in {"row", "rows"} => row = SubSeq(fields, 1, Len(row))

\* A client can go by the sql_type that "fields" announces: the columns of one
\* name have their values in quotes, all or none.  The two lists are kept by
\* hand in each driver (mssql.c:144 and 158, odbc.c:119 and 151, mysql.c:95
\* and 111).
SqlTypeTellsQuotes ==
    at = "rows" =>
        \A c \in DOMAIN cols : \A t \in Types :
            LET type == cols[c].type IN
            SameDriver(t, type) /\ TypeName(t) = TypeName(type)
                => (IsQuoted(t) <=> IsQuoted(type))
=============================================================================
