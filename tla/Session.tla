-------------------------------- MODULE Session --------------------------------
(***************************************************************************)
(* The login a connector keeps and the requests it runs over it, one after *)
(* the other: the RUN branch of main in src/src/connector.c, exec_query    *)
(* and fill_data in db.c, and the calls they make into one of the three    *)
(* drivers, mssql.c (DB-Library), odbc.c and mysql.c.                      *)
(*                                                                         *)
(* A batch is what its statements come to: "ok" changes something, "rows"  *)
(* returns a result set, "fail" is refused by the server.  The server runs *)
(* the statements behind a failed one.  Results that nobody read make the  *)
(* client library refuse the next command, as DB-Library and ODBC do; the  *)
(* MySQL library is not asked for batches of more than one statement.      *)
(***************************************************************************)
EXTENDS Naturals, Sequences, SequencesExt

CONSTANTS
    Requests,     \* the requests served, each once
    NoRequest,
    Drivers,      \* of {"mssql", "odbc", "mysql"}
    MaxBatch      \* the longest batch

ASSUME SessionAssumption ==
    /\ NoRequest \notin Requests
    /\ Drivers \subseteq {"mssql", "odbc", "mysql"}
    /\ MaxBatch \in Nat \ {0}

VARIABLES
    driver,       \* the api this connector was built with
    connected,    \* the flag of main
    db,           \* conn.db: "none", "up", "lost" (the library has not seen
                  \* yet that the server is gone) or "dead"
    left,         \* logins the server still holds and conn.db forgot
    tran, work,   \* transaction open in the session, and whose changes it holds
    pending,      \* results that the client library has not read
    querying,     \* odbc->querying
    pc, req, batch,         \* where exec_query is, and the request it runs
    xact,         \* requests that came with the flag of that name
    msg,          \* whose messages api->error would return
    durable,      \* requests whose changes are committed
    answer,       \* what each request was told
    spoiled,      \* history: a batch failed before a result set of its own
    died,         \* history: requests during which the server went away
    did           \* history: requests with a statement that took effect

handle == <<connected, db, left>>
server == <<tran, work, pending, durable>>
request == <<req, xact, batch>>
history == <<spoiled, died, did>>
vars == <<driver, handle, server, querying, pc, request, msg, answer, history>>

Batches == BoundedSeq({"ok", "rows", "fail"}, MaxBatch) \ {<<>>}

Init ==
    /\ driver \in Drivers
    /\ connected = FALSE /\ db = "none" /\ left = 0
    /\ tran = FALSE /\ work = {} /\ pending = <<>> /\ durable = {}
    /\ querying = FALSE
    /\ pc = "idle" /\ req = NoRequest /\ xact = {} /\ batch = <<>>
    /\ msg = {} /\ answer = [r \in Requests |-> "none"]
    /\ spoiled = FALSE /\ died = {} /\ did = {}

--------------------------------------------------------------------------------
\* RUN: the login that is there is used, or a new one is made.
Run(r, f, b) ==
    /\ pc = "idle" /\ answer[r] = "none"
    /\ driver = "mysql" => Len(b) = 1
    /\ req' = r /\ xact' = (IF f THEN xact \cup {r} ELSE xact) /\ batch' = b
    /\ msg' = {}
    /\ pc' = IF connected THEN "begin" ELSE "login"
    /\ UNCHANGED <<driver, handle, server, querying, answer, history>>

\* The handle that was there before is overwritten, not closed.
LoginDone ==
    /\ pc = "login"
    /\ left' = IF db = "up" THEN left + 1 ELSE left
    /\ connected' = TRUE /\ db' = "up"
    /\ tran' = FALSE /\ work' = {} /\ pending' = <<>>
    /\ spoiled' = FALSE
    /\ pc' = "begin"
    /\ UNCHANGED <<driver, durable, querying, request, msg, answer, died, did>>

\* api->error(NULL) has a message in mssql.c only; the others take it for a
\* handle.  main returns in any case.
LoginFailed ==
    /\ pc = "login"
    /\ connected' = TRUE /\ db' = "none"
    /\ left' = IF db = "up" THEN left + 1 ELSE left
    /\ pc' = "gone"
    /\ answer' = IF driver = "mssql" THEN [answer EXCEPT ![req] = "error"] ELSE answer
    /\ UNCHANGED <<driver, server, querying, request, msg, history>>

--------------------------------------------------------------------------------
\* A call over the handle shows the library that the server is gone.
Seen == IF db = "lost" THEN "dead" ELSE db
Refused == db # "up" \/ "rows" \in Range(pending)

\* catalogsql has the words for a transaction that the server knows: "BEGIN
\* TRAN" is no MySQL, and odbc.c has none at all.
CatalogKnown == driver = "mssql"
Xact == req \in xact

\* Mutant: the message handler drops what it is given, as the error handler does.
MsgDropped(whose) == IF driver = "mssql" THEN msg ELSE {whose}

\* What api->error returns after a command failed: mssql.c collects what the
\* server said, the client library's own errors are dropped; the others return
\* the last error of the library.
MsgAfter(whose) ==
    IF driver = "mssql" THEN IF Refused THEN msg ELSE msg \cup {whose}
    ELSE {whose}

\* Mutant: exec_query does not look at the flag.
BeginForgotten ==
    /\ pc = "begin" /\ pc' = "exec"
    /\ db' = Seen
    /\ UNCHANGED <<driver, connected, left, server, querying, request, msg, answer, history>>

\* exec_query up to its exec of BEGIN, the result of which it does not look at.
Begin ==
    /\ pc = "begin" /\ pc' = "exec"
    /\ db' = Seen
    /\ IF Xact /\ CatalogKnown /\ ~ Refused
       THEN tran' = TRUE /\ pending' = <<>> /\ UNCHANGED msg
       ELSE /\ msg' = IF Xact THEN MsgAfter("xact") ELSE msg
            /\ UNCHANGED <<tran, pending>>
    /\ UNCHANGED <<driver, connected, left, work, durable, querying, request, answer, history>>

\* Mutant: the session is not in autocommit mode.
ExecuteManual ==
    LET doing == IF "ok" \in Range(batch) THEN {req} ELSE {}
    IN  work' = work \cup doing /\ did' = did \cup doing /\ UNCHANGED durable

\* The server's part of a batch: each statement takes effect or fails.
Execute ==
    LET doing == IF "ok" \in Range(batch) THEN {req} ELSE {}
    IN  /\ work' = IF tran THEN work \cup doing ELSE work
        /\ durable' = IF tran THEN durable ELSE durable \cup doing
        /\ did' = did \cup doing

\* api->exec looks at the first statement only.
ExecDone ==
    /\ pc = "exec" /\ ~ Refused /\ Head(batch) # "fail"
    /\ Execute
    /\ pending' = IF driver = "odbc" THEN Tail(batch) ELSE batch
    /\ querying' = (driver = "odbc")
    /\ pc' = "results"
    /\ UNCHANGED <<driver, handle, tran, request, msg, answer, spoiled, died>>

ExecFailed ==
    /\ pc = "exec" /\ (Refused \/ Head(batch) = "fail")
    /\ db' = Seen
    /\ msg' = MsgAfter("query")
    /\ querying' = (driver = "odbc")
    /\ IF Refused
       THEN UNCHANGED <<work, durable, pending, spoiled, did>>
       ELSE /\ Execute
            /\ pending' = Tail(batch)
            /\ spoiled' = (spoiled \/ "rows" \in Range(pending'))
    /\ pc' = "rollback"
    /\ UNCHANGED <<driver, connected, left, tran, request, answer, died>>

--------------------------------------------------------------------------------
\* has_results, one disjunct per driver and outcome; "more" is the body of the
\* loop of fill_data, "end" is its exit.
MssqlResults(out) ==
    /\ driver = "mssql"
    /\ out = IF db = "up" /\ pending = <<>> THEN "end" ELSE "more"
    /\ pending' = IF db = "up" /\ pending # <<>> THEN Tail(pending) ELSE pending
    /\ msg' = IF db = "up" /\ pending # <<>> /\ Head(pending) = "fail"
              THEN msg \cup {"query"} ELSE msg
    /\ UNCHANGED querying

\* Mutant: querying is not reset.
OdbcResultsAgain(out) ==
    /\ driver = "odbc"
    /\ out = IF querying \/ db # "up" \/ pending # <<>> THEN "more" ELSE "end"
    /\ pending' = IF querying \/ pending = <<>> THEN pending ELSE Tail(pending)
    /\ UNCHANGED <<msg, querying>>

OdbcResults(out) ==
    /\ driver = "odbc"
    /\ querying' = FALSE
    /\ \/ querying /\ out = "more" /\ UNCHANGED pending
       \/ ~ querying /\ db # "up" /\ out = "more" /\ UNCHANGED pending
       \/ ~ querying /\ db = "up" /\ pending # <<>> /\ out = "more"
          /\ pending' = Tail(pending)
       \/ ~ querying /\ db = "up" /\ pending = <<>> /\ out = "end" /\ UNCHANGED pending
    /\ UNCHANGED msg

MysqlResults(out) ==
    /\ driver = "mysql"
    /\ out = IF db = "up" /\ pending = <<"rows">> THEN "more" ELSE "end"
    /\ pending' = <<>>
    /\ UNCHANGED <<msg, querying>>

HasResults(out) == MssqlResults(out) \/ OdbcResults(out) \/ MysqlResults(out)

FillData ==
    /\ pc = "results"
    /\ HasResults("more")
    /\ db' = Seen
    /\ UNCHANGED <<driver, connected, left, tran, work, durable, pc, request, answer, history>>

FillDataEnd ==
    /\ pc = "results"
    /\ HasResults("end")
    /\ db' = Seen
    /\ pc' = "commit"
    /\ UNCHANGED <<driver, connected, left, tran, work, durable, request, answer, history>>

\* Mutant: no COMMIT after the results.
CommitForgotten ==
    /\ pc = "commit" /\ pc' = "next"
    /\ answer' = [answer EXCEPT ![req] = "success"]
    /\ UNCHANGED <<driver, handle, server, querying, request, msg, history>>

\* The result of COMMIT is not looked at either.
Commit ==
    /\ pc = "commit" /\ pc' = "next"
    /\ answer' = [answer EXCEPT ![req] = "success"]
    /\ db' = IF Xact THEN Seen ELSE db
    /\ IF Xact /\ CatalogKnown /\ ~ Refused
       THEN tran' = FALSE /\ work' = {} /\ durable' = durable \cup work
       ELSE UNCHANGED <<tran, work, durable>>
    /\ UNCHANGED <<driver, connected, left, pending, querying, request, msg, history>>

\* Mutant: no ROLLBACK after an error.
RollbackForgotten ==
    /\ pc = "rollback" /\ pc' = "next"
    /\ answer' = [answer EXCEPT ![req] = "error"]
    /\ UNCHANGED <<driver, handle, server, querying, request, msg, history>>

\* The caller asks for the message after the ROLLBACK.
Rollback ==
    /\ pc = "rollback" /\ pc' = "next"
    /\ answer' = [answer EXCEPT ![req] = "error"]
    /\ db' = IF Xact THEN Seen ELSE db
    /\ IF Xact /\ CatalogKnown /\ ~ Refused
       THEN tran' = FALSE /\ work' = {} /\ pending' = <<>> /\ UNCHANGED msg
       ELSE /\ msg' = IF Xact THEN MsgAfter("xact") ELSE msg
            /\ UNCHANGED <<tran, work, pending>>
    /\ UNCHANGED <<driver, connected, left, durable, querying, request, history>>

\* Mutants: mssql.c copies the stub of odbc.c, or the ping of mysql.c.
IsAliveStub == driver # "mysql" \/ db # "up"
IsAliveInverted == driver = "odbc" \/ (driver = "mssql" /\ db = "dead") \/ (driver = "mysql" /\ db # "up")

\* api->isalive: DBDEAD, a stub, and mysql_ping, which is 0 for a live server.
IsAlive ==
    \/ driver = "mssql" /\ db # "dead"
    \/ driver = "odbc"
    \/ driver = "mysql" /\ db # "up"

\* The client has gone.
NextClient ==
    /\ pc = "next" /\ pc' = "idle"
    /\ connected' = (connected /\ IsAlive)
    /\ db' = IF driver = "mysql" THEN Seen ELSE db
    /\ req' = NoRequest
    /\ UNCHANGED <<driver, left, server, querying, batch, xact, msg, answer, history>>

\* The server drops the session, and what it had not committed.
ServerDies ==
    /\ db = "up" /\ pc # "gone"
    /\ db' = "lost"
    /\ tran' = FALSE /\ work' = {}
    /\ died' = died \cup ({req} \ {NoRequest})
    /\ UNCHANGED <<driver, connected, left, pending, durable, querying, pc, request, msg,
                   answer, spoiled, did>>

Step ==
    LoginDone \/ LoginFailed \/ Begin \/ ExecDone \/ ExecFailed \/ FillData \/ FillDataEnd
    \/ Commit \/ Rollback \/ NextClient

Next ==
    \/ \E r \in Requests, f \in BOOLEAN, b \in Batches : Run(r, f, b)
    \/ Step
    \/ ServerDies

Spec == Init /\ [][Next]_vars /\ WF_vars(Step)

--------------------------------------------------------------------------------
\* The states the variables range over; uncommitted changes live in a
\* transaction, and a request under way has a batch.
TypeOK ==
    /\ driver \in Drivers
    /\ connected \in BOOLEAN /\ db \in {"none", "up", "lost", "dead"} /\ left \in Nat
    /\ tran \in BOOLEAN /\ work \subseteq Requests /\ (work # {} => tran) /\ durable \subseteq Requests
    /\ pending \in BoundedSeq({"ok", "rows", "fail"}, MaxBatch)
    /\ querying \in BOOLEAN
    /\ pc \in {"idle", "login", "begin", "exec", "results", "commit", "rollback", "next", "gone"}
    /\ req \in Requests \cup {NoRequest} /\ (req = NoRequest => pc = "idle")
    /\ xact \subseteq Requests
    /\ batch \in Batches \cup {<<>>} /\ (pc # "idle" => batch \in Batches)
    /\ msg \subseteq {"xact", "query"}
    /\ answer \in [Requests -> {"none", "success", "error"}]
    /\ spoiled \in BOOLEAN /\ died \subseteq Requests /\ did \subseteq Requests

\* A request finds no transaction and no results of an earlier one in the
\* session.  The one way to get there: a statement fails with result sets of
\* the same batch behind it, which exec_query leaves unread, and over which
\* the ROLLBACK is refused as well (db.c 667-692).
CleanStart ==
    pc = "begin" /\ ~ spoiled => ~ tran /\ work = {} /\ "rows" \notin Range(pending)

\* What a request that was answered with success did is committed, unless the
\* server went away meanwhile: the COMMIT comes after the last result and
\* nobody looks at how it went (db.c 683).
SuccessIsDurable ==
    \A r \in did : answer[r] = "success" => r \in durable \cup died

\* With xact on SQL Server a request that was answered with an error has
\* changed nothing (db.c 685).
ErrorChangedNothing ==
    driver = "mssql" => \A r \in durable \cap xact : answer[r] # "error"

\* What the answer says is true of the data (db.c 680-691).
OutcomeTold == SuccessIsDurable /\ ErrorChangedNothing

\* The message of an error is the one of the statement that failed: on SQL
\* Server always when there is one, with the others only without xact, because
\* the ROLLBACK fails there and its error is asked for (connector.c 217-223).
ErrorIsTheQuerys ==
    pc = "next" /\ answer[req] = "error" =>
        \/ "query" \in msg
        \/ driver # "mssql" /\ Xact
        \/ driver = "mssql" /\ (db = "dead" \/ spoiled)

\* No login is left behind on the server: main forgets conn.db only when
\* isalive has found it dead (connector.c 258-260).  mysql.c answers the
\* opposite and leaves one behind for each client.
NoLoginLeft == driver # "mysql" => left = 0

\* A session that is known to be dead is not used again: the next request logs
\* in anew (mssql.c 529-534).  The stub in odbc.c and the ping in mysql.c keep it.
DeadIsReplaced == driver = "mssql" /\ pc = "begin" => db # "dead"

\* A login is forgotten when the server has ended it, and only then.
LoginFollowsServer == NoLoginLeft /\ DeadIsReplaced

\* A query comes to an end, unless the server goes away while its results are
\* read: dbresults and SQLMoreResults fail then, and both drivers take that for
\* one more result (mssql.c 306, odbc.c 285-287).
QueryEnds ==
    [](pc = "exec" => <>(pc \in {"idle", "gone"} \/ (pc = "results" /\ db # "up")))
================================================================================
