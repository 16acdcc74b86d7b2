------------------------------ MODULE Connector ------------------------------
(***************************************************************************)
(* One connector process (src/src/connector.c) and the requests that talk  *)
(* to it (src/src/client.c, called from run_query and admin_kill in        *)
(* db.c and admin.c).  The connector accepts one client after the other,   *)
(* answers its lines, and leaves when its alarm goes off, when it is told  *)
(* to, or when somebody kills it.  The client sends a line and waits for   *)
(* the answer, without looking at most of them.                            *)
(*                                                                         *)
(* A line is a step on either side.  A line that was sent stays in the     *)
(* socket when its sender is gone, and a line to a process that is gone    *)
(* is an error to the sender (MSG_NOSIGNAL).  A signal that the process of *)
(* a client handles interrupts its select, which fails the wait at once    *)
(* (socket.c:204 and :181); the connector's own handler ends it.           *)
(***************************************************************************)
EXTENDS Integers, Sequences

CONSTANTS
    Clients,       \* the requests, one per worker at a time
    Operators,     \* those of them that come to kill the connector
    Mortal,        \* those whose process may die at any moment
    Signalled,     \* those whose process may get a signal that it handles
    MaxInterrupts, \* bound: the waits of one client that are interrupted
    NoClient,
    Timeouts,      \* connection timeouts that requests ask for, 0 = none
    FirstTimer,    \* the alarm set at start, 60 s
    HardTimeout,   \* the alarm set while a query runs
    MaxQuery,      \* the longest login or query, in ticks
    Killable       \* TRUE: others may send the connector SIGTERM or SIGKILL

ASSUME ConnectorAssumption ==
    /\ Operators \subseteq Clients /\ Mortal \subseteq Clients
    /\ Signalled \subseteq Clients /\ MaxInterrupts \in Nat
    /\ NoClient \notin Clients
    /\ Timeouts \subseteq Nat
    /\ FirstTimer \in Nat \ {0} /\ HardTimeout \in Nat /\ MaxQuery \in Nat
    /\ MaxQuery < HardTimeout
    /\ Killable \in BOOLEAN

VARIABLES
    srv,          \* where the connector is in main
    s2,           \* the client it has accepted
    receive_sql,  \* TRUE between SQL BEGIN and SQL END
    sb_sql,       \* the text received since SQL BEGIN, by whose it is
    sql,          \* request.sql
    timeout,      \* request.connection_timeout
    connected,    \* "never", "yes" or "no": the login kept in conn.db
    out,          \* lines of the answer to RUN, still to be sent
    alarm,        \* ticks until SIGALRM
    busy,         \* ticks the present login or query has taken
    queue,        \* backlog of the listening socket
    up, down,     \* lines on their way to and from the connector, per client
    cpc,          \* where each client is
    results,      \* inside RESULTS BEGIN ... END or ERROR BEGIN ... END
    err,          \* *error of send_request: an ERROR line came
    answer,       \* what the last request of each client got
    interrupts    \* the interrupted waits of each client so far (history)

server == <<srv, s2, receive_sql, sb_sql, sql, timeout, connected, out, busy>>
client == <<cpc, results, err, answer, interrupts>>
vars == <<server, alarm, queue, up, down, client>>

Commands == {"HELO", "SET", "SQL BEGIN", "TEXT", "SQL END", "RUN", "QUIT", "DIE",
             "PID", "OK", "BYE", "RESULTS BEGIN", "RESULTS END",
             "ERROR BEGIN", "ERROR END"}
Lines == [cmd : Commands, timeout : Nat, text : SUBSET Clients]
Line(cmd) == [cmd |-> cmd, timeout |-> 0, text |-> {}]
SetTimeout(t) == [Line("SET") EXCEPT !.timeout = t]
Text(x) == [Line("TEXT") EXCEPT !.text = x]

NoAnswer == [kind |-> "none", text |-> {}, ok |-> FALSE]
Answers == [kind : {"none", "noinit", "internal", "error", "success"},
            text : SUBSET Clients, ok : BOOLEAN]

Init ==
    /\ srv = "accept" /\ s2 = NoClient
    /\ receive_sql = FALSE /\ sb_sql = {} /\ sql = {}
    /\ timeout = 0 /\ connected = "never" /\ out = <<>>
    /\ alarm = FirstTimer /\ busy = 0
    /\ queue = <<>>
    /\ up = [c \in Clients |-> <<>>] /\ down = [c \in Clients |-> <<>>]
    /\ cpc = [c \in Clients |-> "idle"]
    /\ results = [c \in Clients |-> FALSE] /\ err = [c \in Clients |-> FALSE]
    /\ answer = [c \in Clients |-> NoAnswer]
    /\ interrupts = [c \in Clients |-> 0]

Alive == srv # "gone"
Interrupted(c) == interrupts[c] # 0
Closed(c) == cpc[c] \in {"closed", "dead"}
Over(c) == cpc[c] \in {"idle", "leaked", "closed", "dead"}

-----------------------------------------------------------------------------
(* The connector. *)

\* The process ends, and its memory, its alarm and its listening socket with it.
Gone ==
    /\ srv' = "gone" /\ s2' = NoClient /\ receive_sql' = FALSE
    /\ sb_sql' = {} /\ sql' = {} /\ timeout' = 0 /\ connected' = "never"
    /\ out' = <<>> /\ busy' = 0 /\ alarm' = FirstTimer /\ queue' = <<>>

Accept ==
    /\ srv = "accept" /\ queue # <<>>
    /\ s2' = Head(queue) /\ queue' = Tail(queue)
    /\ srv' = "serve"
    /\ UNCHANGED <<receive_sql, sb_sql, sql, timeout, connected, out, busy, alarm,
                   up, down, client>>

\* The next line of the client; in SQL mode all but SQL END is text.
NextLine == Head(up[s2])
Receive(cmd) ==
    /\ srv = "serve" /\ up[s2] # <<>>
    /\ NextLine.cmd = cmd
    /\ receive_sql => cmd = "SQL END"
    /\ up' = [up EXCEPT ![s2] = Tail(@)]

ReplyWith(cmd) ==
    down' = IF Closed(s2) THEN down ELSE [down EXCEPT ![s2] = Append(@, Line(cmd))]

\* if (request.connection_timeout) set_timer(secs)
Rearm(secs, t) == alarm' = IF t # 0 THEN secs ELSE alarm

Helo ==
    /\ Receive("HELO")
    /\ ReplyWith("PID")
    /\ UNCHANGED <<server, alarm, queue, client>>

SetOption ==
    /\ Receive("SET")
    /\ ReplyWith("OK")
    /\ timeout' = NextLine.timeout
    /\ Rearm(NextLine.timeout, NextLine.timeout)
    /\ UNCHANGED <<srv, s2, receive_sql, sb_sql, sql, connected, out, busy, queue, client>>

SqlBeginKeepsText ==                                           \* mutant
    /\ Receive("SQL BEGIN")
    /\ receive_sql' = TRUE /\ sql' = {}
    /\ UNCHANGED <<srv, s2, sb_sql, timeout, connected, out, busy, alarm, queue, down, client>>
SqlBeginAnswers ==                                             \* mutant
    /\ Receive("SQL BEGIN")
    /\ ReplyWith("OK")
    /\ receive_sql' = TRUE /\ sql' = {} /\ sb_sql' = {}
    /\ UNCHANGED <<srv, s2, timeout, connected, out, busy, alarm, queue, client>>
SqlBegin ==
    /\ Receive("SQL BEGIN")
    /\ receive_sql' = TRUE /\ sql' = {} /\ sb_sql' = {}
    /\ UNCHANGED <<srv, s2, timeout, connected, out, busy, alarm, queue, down, client>>

SqlText ==
    /\ srv = "serve" /\ up[s2] # <<>>
    /\ receive_sql /\ NextLine.cmd # "SQL END"
    /\ up' = [up EXCEPT ![s2] = Tail(@)]
    /\ sb_sql' = sb_sql \cup NextLine.text
    /\ UNCHANGED <<srv, s2, receive_sql, sql, timeout, connected, out, busy, alarm,
                   queue, down, client>>

SqlEnd ==
    /\ Receive("SQL END")
    /\ ReplyWith("OK")
    /\ receive_sql' = FALSE /\ sql' = sb_sql
    /\ Rearm(timeout, timeout)
    /\ UNCHANGED <<srv, s2, sb_sql, timeout, connected, out, busy, queue, client>>

\* A login is made once and kept.
Run ==
    /\ Receive("RUN")
    /\ srv' = IF connected = "yes" THEN "start" ELSE "login"
    /\ busy' = 0
    /\ UNCHANGED <<s2, receive_sql, sb_sql, sql, timeout, connected, out, alarm,
                   queue, down, client>>

\* connected is set before the handle is tested; without one the connector
\* answers and returns from main
Login ==
    /\ srv = "login"
    /\ connected' = "yes"
    /\ \/ srv' = "start" /\ UNCHANGED out
       \/ /\ srv' = "leave"
          /\ out' = <<Line("ERROR BEGIN"), Text({}), Line("ERROR END"), Line("OK")>>
    /\ UNCHANGED <<s2, receive_sql, sb_sql, sql, timeout, busy, alarm, queue, up, down, client>>

\* "don't timeout during query run"
StartQueryNoTimer ==                                           \* mutant
    /\ srv = "start"
    /\ srv' = "query" /\ busy' = 0
    /\ UNCHANGED <<s2, receive_sql, sb_sql, sql, timeout, connected, out, alarm, queue,
                   up, down, client>>
StartQueryTimerOff ==                                          \* mutant
    /\ srv = "start"
    /\ srv' = "query" /\ busy' = 0
    /\ alarm' = -1
    /\ UNCHANGED <<s2, receive_sql, sb_sql, sql, timeout, connected, out, queue,
                   up, down, client>>
StartQuery ==
    /\ srv = "start"
    /\ srv' = "query" /\ busy' = 0
    /\ Rearm(HardTimeout, timeout)
    /\ UNCHANGED <<s2, receive_sql, sb_sql, sql, timeout, connected, out, queue,
                   up, down, client>>

EndQuery ==
    /\ srv = "query"
    /\ srv' = "send"
    /\ out' \in {<<Line("RESULTS BEGIN"), Text(sql), Line("RESULTS END"), Line("OK")>>,
                 <<Line("ERROR BEGIN"), Text({}), Line("ERROR END"), Line("OK")>>}
    /\ UNCHANGED <<s2, receive_sql, sb_sql, sql, timeout, connected, busy, alarm,
                   queue, up, down, client>>

SendLine ==
    /\ srv \in {"send", "leave"} /\ out # <<>>
    /\ down' = IF Closed(s2) THEN down ELSE [down EXCEPT ![s2] = Append(@, Head(out))]
    /\ out' = Tail(out)
    /\ UNCHANGED <<srv, s2, receive_sql, sb_sql, sql, timeout, connected, busy, alarm,
                   queue, up, client>>

Sent ==
    /\ out = <<>>
    /\ \/ /\ srv = "send" /\ srv' = "serve" /\ Rearm(timeout, timeout)
          /\ UNCHANGED <<s2, receive_sql, sb_sql, sql, timeout, connected, out, busy, queue>>
       \/ srv = "leave" /\ Gone
    /\ UNCHANGED <<up, down, client>>

\* After the last line of a client: isalive tells whether the login is still
\* good; before the first login conn.db is not initialized and the driver
\* follows it wherever it points.
Forget ==
    \/ /\ srv' = "accept" /\ s2' = NoClient /\ receive_sql' = FALSE
       /\ \/ connected # "never" /\ connected' \in {connected, "no"}
          \/ connected = "never" /\ UNCHANGED connected
       /\ UNCHANGED <<sb_sql, sql, timeout, out, busy, alarm, queue>>
    \/ connected = "never" /\ Gone

Quit ==
    /\ Receive("QUIT")
    /\ ReplyWith("BYE")
    /\ Forget
    /\ UNCHANGED client

\* recv returns 0 or -1: the client is gone and every line it sent was read.
\* (The 30 s of recv_string pass into a blocking recv.)
BrokenKeepsMode ==                                             \* mutant
    /\ srv = "serve" /\ up[s2] = <<>> /\ Closed(s2)
    /\ s2' = NoClient /\ srv' = "accept"
    /\ UNCHANGED <<receive_sql, connected, sb_sql, sql, timeout, out, busy, alarm, queue,
                   up, down, client>>
Broken ==
    /\ srv = "serve" /\ up[s2] = <<>> /\ Closed(s2)
    /\ Forget
    /\ UNCHANGED <<up, down, client>>

Die ==
    /\ Receive("DIE")
    /\ ReplyWith("BYE")
    /\ Gone
    /\ UNCHANGED client

\* SIGALRM: exit(0), wherever the connector is.  (The test of last_accessed
\* after accept can only agree: the alarm was set at the same moment.)
Alarm ==
    /\ Alive /\ alarm = 0
    /\ Gone
    /\ UNCHANGED <<up, down, client>>

\* A worker or the master sends a signal to the pid in the table.
Killed ==
    /\ Killable /\ Alive
    /\ Gone
    /\ UNCHANGED <<up, down, client>>

Tick ==
    /\ Alive /\ alarm > 0
    /\ srv \in {"login", "query"} => busy < MaxQuery
    /\ alarm' = alarm - 1
    /\ busy' = IF srv \in {"login", "query"} THEN busy + 1 ELSE 0
    /\ UNCHANGED <<srv, s2, receive_sql, sb_sql, sql, timeout, connected, out, queue,
                   up, down, client>>

-----------------------------------------------------------------------------
(* A client. *)

Goto(c, l) == cpc' = [cpc EXCEPT ![c] = l]
At(c, l) == cpc[c] = l

\* Lines to a connector that is gone are errors.
SendLines(c, lines) == Alive /\ up' = [up EXCEPT ![c] = @ \o lines]

\* The next answer, whatever it says; or the end of the stream.  (A wait that a
\* signal ends is Interrupt.)
GetLine(c) ==
    \/ down[c] # <<>> /\ down' = [down EXCEPT ![c] = Tail(@)]
    \/ down[c] = <<>> /\ ~ Alive /\ UNCHANGED down

\* With an in_buf of its own: what recv took behind that line is thrown away.
GetReply(c) ==
    /\ down[c] # <<>> \/ ~ Alive
    /\ down' = [down EXCEPT ![c] = <<>>]

\* The end of the stream comes as an error (recv returns -1, ECONNRESET) when
\* connector left lines of this client unread.
Reset(c) == up[c] # <<>>

\* The socket is closed and the worker free.  The connector may still be busy
\* with what an interrupted request left: its client stays, and the next request
\* of that worker is one of another client.
Leave(c) == Goto(c, IF Interrupted(c) THEN "closed" ELSE "idle")

\* close(s): the worker is back in run_query with what it got
Finish(c, kind) ==
    /\ answer' = [answer EXCEPT ![c].kind = kind]
    /\ Leave(c)
Internal(c) == ~ Alive /\ Finish(c, "internal") /\ UNCHANGED up

\* A new request, after a successful connect; an operator sends DIE and waits.
Connect(c) ==
    /\ At(c, "idle") /\ Alive
    /\ queue' = Append(queue, c)
    /\ up' = [up EXCEPT ![c] = <<Line(IF c \in Operators THEN "DIE" ELSE "HELO")>>]
    /\ down' = [down EXCEPT ![c] = <<>>]
    /\ answer' = [answer EXCEPT ![c] = NoAnswer]
    /\ results' = [results EXCEPT ![c] = FALSE] /\ err' = [err EXCEPT ![c] = FALSE]
    /\ Goto(c, IF c \in Operators THEN "quit" ELSE "helo")
    /\ UNCHANGED <<server, alarm, interrupts>>

\* conn_initialize; without a pid the request ends with "Couldn't initialize
\* connector".  When nothing was received out_buf is not initialized: it may
\* hold the :PID of an earlier request.
Initialize(c) ==
    /\ At(c, "helo")
    /\ GetReply(c)
    /\ \/ Goto(c, "options") /\ UNCHANGED answer
       \/ down[c] = <<>> /\ Finish(c, "noinit")
    /\ UNCHANGED <<server, alarm, queue, up, results, err, interrupts>>

\* send_request: the options, of which the timeout stands for all
SendOptions(c) ==
    /\ At(c, "options")
    /\ \/ /\ \E t \in Timeouts : SendLines(c, <<SetTimeout(t)>>)
          /\ Goto(c, "set") /\ UNCHANGED answer
       \/ Internal(c)
    /\ UNCHANGED <<server, alarm, queue, down, results, err, interrupts>>

\* the reply to SET is not looked at, nor its absence
OptionsSet(c) ==
    /\ At(c, "set")
    /\ GetReply(c)
    /\ Goto(c, "begin")
    /\ UNCHANGED <<server, alarm, queue, up, results, err, answer, interrupts>>

SendSql(c) ==
    /\ At(c, "begin")
    /\ \/ /\ SendLines(c, <<Line("SQL BEGIN"), Text({c})>>)
          /\ Goto(c, "end") /\ UNCHANGED answer
       \/ Internal(c)
    /\ UNCHANGED <<server, alarm, queue, down, results, err, interrupts>>

SendSqlEnd(c) ==
    /\ At(c, "end")
    /\ \/ SendLines(c, <<Line("SQL END")>>) /\ Goto(c, "sql") /\ UNCHANGED answer
       \/ Internal(c)
    /\ UNCHANGED <<server, alarm, queue, down, results, err, interrupts>>

SqlSent(c) ==
    /\ At(c, "sql")
    /\ GetLine(c)
    /\ Goto(c, "run")
    /\ UNCHANGED <<server, alarm, queue, up, results, err, answer, interrupts>>

\* *error is 0 already: when RUN cannot be sent the text of the error is
\* returned as if it were results
SendRun(c) ==
    /\ At(c, "run")
    /\ \/ SendLines(c, <<Line("RUN")>>) /\ Goto(c, "receive") /\ UNCHANGED answer
       \/ ~ Alive /\ Finish(c, "success") /\ UNCHANGED up
    /\ UNCHANGED <<server, alarm, queue, down, results, err, interrupts>>

\* A line before the last: results and errors are collected.
ReceiveLine(c) ==
    LET l == Head(down[c])
    IN /\ At(c, "receive") /\ down[c] # <<>>
       /\ l.cmd \notin {"BYE", "OK"}
       /\ down' = [down EXCEPT ![c] = Tail(@)]
       /\ results' = [results EXCEPT ![c] =
                         CASE l.cmd \in {"RESULTS BEGIN", "ERROR BEGIN"} -> TRUE
                           [] l.cmd \in {"RESULTS END", "ERROR END"} -> FALSE
                           [] OTHER -> @]
       /\ err' = [err EXCEPT ![c] = @ \/ l.cmd = "ERROR BEGIN"]
       /\ answer' = [answer EXCEPT ![c].text = IF results[c] THEN @ \cup l.text ELSE @]
       /\ UNCHANGED <<server, alarm, queue, up, cpc, interrupts>>

\* OK ends the loop: QUIT, and wait for BYE; what in_buf holds behind it is lost
ReceiveLast(c) ==
    /\ At(c, "receive") /\ down[c] # <<>>
    /\ Head(down[c]).cmd \in {"BYE", "OK"}
    /\ \E rest \in {Tail(down[c]), <<>>} : down' = [down EXCEPT ![c] = rest]
    /\ answer' = [answer EXCEPT ![c].kind = IF err[c] THEN "error" ELSE "success",
                                ![c].ok = TRUE]
    /\ \/ SendLines(c, <<Line("QUIT")>>) /\ Goto(c, "quit")
       \/ ~ Alive /\ Leave(c) /\ UNCHANGED up
    /\ UNCHANGED <<server, alarm, queue, results, err, interrupts>>

\* recv returned -1: socket error; recv returned 0: the loop ends as if OK
\* had come
ReceiveEndError(c) ==                                          \* mutant
    /\ At(c, "receive") /\ down[c] = <<>> /\ ~ Alive
    /\ Reset(c) /\ Finish(c, "internal")
    /\ UNCHANGED <<server, alarm, queue, up, down, results, err, interrupts>>
ReceiveEnd(c) ==
    /\ At(c, "receive") /\ down[c] = <<>> /\ ~ Alive
    /\ Finish(c, IF Reset(c) THEN "internal" ELSE IF err[c] THEN "error" ELSE "success")
    /\ UNCHANGED <<server, alarm, queue, up, down, results, err, interrupts>>

Bye(c) ==
    /\ At(c, "quit")
    /\ GetReply(c)
    /\ Leave(c)
    /\ UNCHANGED <<server, alarm, queue, up, results, err, answer, interrupts>>

\* The process of the client dies: its socket closes.
ClientDies(c) ==
    /\ c \in Mortal /\ ~ At(c, "idle") /\ ~ Closed(c)
    /\ Goto(c, "dead")
    /\ down' = [down EXCEPT ![c] = <<>>]
    /\ UNCHANGED <<server, alarm, queue, up, results, err, answer, interrupts>>

\* A signal ends select while the client waits for a line: recv_string returns
\* -1.  A reply is missed and comes later; the receive loop takes it for a broken
\* socket, and run_query sends DIE; without a pid it returns and leaves the
\* socket open.
ReadInterrupted(c) ==
    /\ down[c] = <<>>
    /\ \/ At(c, "helo") /\ Goto(c, "options") /\ UNCHANGED <<up, answer>>
       \/ /\ At(c, "helo") /\ Goto(c, "leaked") /\ UNCHANGED up
          /\ answer' = [answer EXCEPT ![c].kind = "noinit"]
       \/ At(c, "set") /\ Goto(c, "begin") /\ UNCHANGED <<up, answer>>
       \/ At(c, "sql") /\ Goto(c, "run") /\ UNCHANGED <<up, answer>>
       \/ /\ At(c, "receive") /\ Goto(c, "quit") /\ SendLines(c, <<Line("DIE")>>)
          /\ answer' = [answer EXCEPT ![c].kind = "internal"]
       \/ At(c, "quit") /\ Goto(c, "closed") /\ UNCHANGED <<up, answer>>

\* The same while it waits to write, the socket being full of what it sent before
\* or of the statement itself; run_query sends DIE, which is text to a connector
\* that is in SQL mode.  When it is RUN that fails *error is 0.
WriteInterrupted(c) ==
    \/ /\ (At(c, "options") \/ At(c, "end")) /\ up[c] # <<>>
       /\ SendLines(c, <<Line("DIE")>>)
       /\ answer' = [answer EXCEPT ![c].kind = "internal"] /\ Goto(c, "quit")
    \/ /\ At(c, "begin")
       /\ \E sent \in {<<>>, <<Line("SQL BEGIN")>>, <<Line("SQL BEGIN"), Text({c})>>} :
             SendLines(c, sent \o <<Line("DIE")>>)
       /\ answer' = [answer EXCEPT ![c].kind = "internal"] /\ Goto(c, "quit")
    \/ /\ At(c, "run") /\ up[c] # <<>>
       /\ SendLines(c, <<Line("QUIT")>>)
       /\ answer' = [answer EXCEPT ![c].kind = "success"] /\ Goto(c, "quit")

Interrupt(c) ==
    /\ c \in Signalled /\ Alive /\ interrupts[c] < MaxInterrupts
    /\ ReadInterrupted(c) \/ WriteInterrupted(c)
    /\ interrupts' = [interrupts EXCEPT ![c] = @ + 1]
    /\ UNCHANGED <<server, alarm, queue, down, results, err>>

ServerStep ==
    \/ Accept \/ Helo \/ SetOption \/ SqlBegin \/ SqlText \/ SqlEnd \/ Run
    \/ Login \/ StartQuery \/ EndQuery \/ SendLine \/ Sent
    \/ Quit \/ Broken \/ Die \/ Alarm

ClientStep(c) ==
    \/ Initialize(c) \/ SendOptions(c) \/ OptionsSet(c) \/ SendSql(c)
    \/ SendSqlEnd(c) \/ SqlSent(c) \/ SendRun(c)
    \/ ReceiveLine(c) \/ ReceiveLast(c) \/ ReceiveEnd(c) \/ Bye(c)

Next ==
    \/ ServerStep \/ Killed \/ Tick
    \/ \E c \in Clients : ClientStep(c) \/ Connect(c) \/ ClientDies(c) \/ Interrupt(c)

Spec == Init /\ [][Next]_vars

\* Both programs go on, logins and queries end, time passes.
Fairness ==
    /\ WF_vars(ServerStep) /\ WF_vars(Tick)
    /\ \A c \in Clients : WF_vars(ClientStep(c))

FairSpec == Spec /\ Fairness

-----------------------------------------------------------------------------
\* The states of the connector, of its clients and of the lines under way.
Typed ==
    /\ srv \in {"accept", "serve", "login", "start", "query", "send", "leave", "gone"}
    /\ s2 \in Clients \cup {NoClient}
    /\ receive_sql \in BOOLEAN /\ sb_sql \subseteq Clients /\ sql \subseteq Clients
    /\ timeout \in Nat /\ connected \in {"never", "yes", "no"}
    /\ out \in Seq(Lines) /\ alarm \in Nat /\ busy \in 0 .. MaxQuery
    /\ queue \in Seq(Clients)
    /\ up \in [Clients -> Seq(Lines)] /\ down \in [Clients -> Seq(Lines)]
    /\ cpc \in [Clients -> {"idle", "helo", "options", "set", "begin", "end", "sql", "run",
                            "receive", "quit", "leaked", "closed", "dead"}]
    /\ results \in [Clients -> BOOLEAN] /\ err \in [Clients -> BOOLEAN]
    /\ answer \in [Clients -> Answers]
    /\ interrupts \in [Clients -> Nat]

\* A connector that is past accept has a client, whose lines it reads.
HasClient == srv \notin {"accept", "gone"} => s2 \in Clients

\* A client that was interrupted is never free for another request, and only such
\* a one leaves its connection before the connector does.
Freed ==
    \A c \in Clients : /\ cpc[c] = "idle" => ~ Interrupted(c)
                       /\ cpc[c] \in {"leaked", "closed"} => Interrupted(c)

TypeOK == Typed /\ HasClient /\ Freed

\* Results come from the statement of the client that gets them, whoever was
\* served before and wherever that client broke off or was interrupted
\* (receive_sql, sb_sql and request.sql outlive a client).
OwnAnswer == \A c \in Clients : answer[c].text \subseteq {c}

\* Questions and answers stay in step: as long as the connector runs, nobody is
\* told of success before the results of the statement are there, unless a wait
\* of its own was interrupted.  (The client reads most replies without looking
\* at them, and takes the first OK after RUN for the end of the results.  One
\* that misses a reply takes that reply's OK for the end.)
CompleteWhileAlive ==
    \A c \in Clients :
        Alive /\ ~ Interrupted(c) /\ answer[c].kind = "success" => answer[c].text = {c}

\* The connector never waits for a line of a client that waits for a line of
\* it, unless a wait of that client was interrupted; only the alarm could part
\* them.  (A client that is interrupted while it writes its statement sends DIE,
\* which the connector keeps as text.)
NeverBothWaiting ==
    srv = "serve" /\ ~ Interrupted(s2) /\ up[s2] = <<>>
    /\ cpc[s2] \in {"helo", "set", "sql", "receive", "quit"}
        => down[s2] # <<>>

\* The alarm does not end a query, whenever an earlier alarm was set, as long as
\* the timeout is not 0 (connector.c:213 "don't timeout during query run"; with
\* 0 nothing is armed there, and the alarm of before goes off).
AlarmSparesQuery == [][Alarm /\ srv = "query" => timeout = 0]_vars

\* client.c:174 "broken socket": a connector that goes away before it says OK is
\* an error to the client, never a success.
SuccessIsComplete == \A c \in Clients : answer[c].kind = "success" => answer[c].ok

\* Every request comes to an end, whoever dies, is killed, breaks off or is
\* interrupted: also one that waits for a connector that waits for it.
EveryClientAnswered == \A c \in Clients : ~ At(c, "idle") ~> Over(c)

\* A connector that nobody uses leaves, left with the open socket of a request
\* that is over too: it has always an alarm ahead.
UnusedConnectorLeaves == []<>(~ Alive \/ \E c \in Clients : ~ Over(c))
=============================================================================
