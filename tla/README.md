# A TLA+ development of DB Relay

DB Relay (`src/`) is an HTTP module for the NGiNX web server, and a command
line tool, that run SQL against a database server and answer with JSON. This
directory holds TLA+ models of its concurrent core and of the sequential code
around it, the TLC configurations that check them, and proofs checked by TLAPS.

All line numbers refer to files in `src/src/`.

## 1. Inventory

### Parts of the system

| part | files | state | operations | talks to |
|---|---|---|---|---|
| connection pool | `db.c` | table of 1000 `dbrelay_connection_t` in shared memory; per request: slot index, private copy of the slot, socket | find, alloc, populate, sweep, copy, connect and clean up, write helper pid, run, free | segment and semaphore, connector client, drivers |
| shared segment and semaphore | `shmem.c` | System V segment, one semaphore with SEM_UNDO | create, lock, attach, detach, unlock, destroy | every process |
| connector process | `connector.c` | request parameters, SQL buffer, `receive_sql`, database login, alarm, `last_accessed` | accept, one command per line: HELO, SET, SQL BEGIN/END, RUN, QUIT, DIE; alarm | its clients over a socket; a driver |
| connector client | `client.c` | socket, receive buffers | launch, HELO, SET/SQL/RUN conversation, QUIT, DIE | connector |
| socket layer | `socket.c` | receive buffer and position | create, accept, connect, send_string, recv_string, wait | kernel |
| administrative commands | `admin.c` | none of its own | list tables, columns, keys; kill a connector | pool, connector |
| query execution, results | `db.c` (`exec_query`, `fill_data`, ...), `emit.c`, `status.c` (the last two are not compiled) | driver cursor | transaction wrapper, rows to JSON or CSV, parameter substitution | driver, JSON |
| HTTP front end | `ngx_http_dbrelay_module.c` | request context | parse the query string or body, dispatch, send; master exit | pool, admin, segment |
| command line tool | `main.c` | script buffer | create the segment when it is missing, run a script statement by statement | pool, segment |
| JSON and string builders | `json.c`, `stringbuf.c` | stack of containers, pending comma, callback | append | nothing |
| drivers | `mssql.c`, `mysql.c`, `odbc.c` | vendor handles | the `api` table | vendor libraries |
| logging | `log.c` | nothing shared | | |

### Interaction

A worker of the web server (or a command line tool) serves one request at a
time. A request **without** a connection name opens a database handle of its
own, parks it in a free slot while the query runs and closes it at the end. A
request **with** a name looks for a slot with the same parameters, or fills a
free one and launches a connector process listening on a fresh socket path; it
then connects, asks for the pid, has the query run there, and counts `in_use`
down. The connector and its database login outlive the request. After every
find or alloc a worker sweeps the whole table: slots of dead workers, slots not
in use for longer than their timeout, and any slot not accessed for eight hours.

The table is reached only between `get_shmem` and `release_shmem`, which take a
semaphore; but one request takes the lock five times or more, and between two
sections it keeps only an index and a copy.

### What is hard, and what makes each part correct

* **Pool.** Every decision is taken in one section and used in a later one. What
  must hold: the index a request was given keeps denoting its slot; use counts
  are exact whatever order sections come in; a database handle, which is a
  pointer into one process, is never used or closed by another and never leaks;
  a query runs under its own login; the gap between find and alloc does not let
  duplicates grow without bound; the unbounded retry loop ends.
* **Segment.** A process may die at any system call, with the lock; a tool may
  create while another creates or a worker enters; the master removes everything
  while others wait. What must hold: exclusion, a unit that is neither lost nor
  doubled beyond what interrupted waits do to it, nobody blocked for ever.
* **Connector and client.** Two programs in lockstep over a socket, an alarm
  that may fire at any instruction, either side dying between two lines. What
  must hold: a client gets the results of its own statement or an error; the
  alarm spares a running query; the connector is ready again for the next client.
* **Socket layer.** A line longer than the buffer, a buffer filled to the last
  byte, a line split over two reads. What must hold: bytes are handed out in order,
  in whole lines or full buffers, and none is lost between two calls.
* **Master exit.** The master talks to connectors with the lock held, while they may
  serve tools that wait for that lock. What must hold: it ends; it signals only
  who it asked to leave.
* **Session.** One login serves one request after the other, each perhaps in a
  transaction, over a driver that may refuse a command and a server that may go.
  What must hold: the answer tells what became of the data; nothing of one request
  is left in the session for the next; a login is forgotten when it is dead, and
  only then; reading results ends.
* **Answers.** The JSON is written by a dozen functions with five ways out, some of
  which paste text by hand. What must hold: one JSON value, in the callback that
  fits, and rows as they were announced.
* **What comes in.** Headers in a list of parts, fields through one reused buffer,
  placeholders by offset, a script in a buffer that grows. What must hold: what is taken is
  what was sent.

`PROJECT.json` lists every hazard with its line and the properties that cover it.

## 2. Modules

| module | what it is |
|---|---|
| `ConnPool` | the pool: table, connectors, requests of several workers, operator's kill, failures |
| `MCConnPool` | `ConnPool` for TLC (symmetry sets) |
| `ConnPoolProofs` | theorems about `ConnPool`: with any failures, and while connectors live |
| `Connector` | one connector process and the requests that talk to it, line by line |
| `MCConnector` | `Connector` for TLC |
| `ConnectorProofs` | theorems about `Connector` |
| `Mutex` | what the lock promises: an abstract lock whose holder may leave or die |
| `ShmemLock` | `shmem.c` one system call at a time, with start-up and master exit |
| `ExitMaster` | the end of the master: its two loops over the table, connectors, tools under way |
| `MCLifecycle` | `ShmemLock` and `ExitMaster` for TLC |
| `LifecycleProofs` | theorems about `ShmemLock`, the refinement of `Mutex` among them, and about `ExitMaster` |
| `Framing` | what reading a socket by lines promises: a stream cut into lines and full buffers |
| `RecvString` | `send_string` and `recv_string` a branch of the loop at a time |
| `RecvStringProofs` | theorems about `RecvString`, the refinement of `Framing` among them |
| `Http` | admission of a request, its headers, the callback when the body is there |
| `QueryString` | the fields of a query string or a body, a character at a time |
| `QueryStringProofs` | theorems about `QueryString` |
| `Params` | parameters in the place of question marks |
| `Options` | the options of the command line tool |
| `Script` | the loop of the command line tool over the lines of a script |
| `MCInput` | `RecvString`, `Http`, `QueryString`, `Params`, `Options`, `Script` for TLC |
| `InputProofs` | theorems about the parts of `MCInput` |
| `Json` | the JSON writer, as operators |
| `Columns` | the column types of the three drivers |
| `Response` | dispatch, commands, status page and query: the JSON each writes |
| `ResponseProofs` | theorems about `Response` |
| `Session` | the requests a connector runs over its login: transaction, results, liveness of the login |
| `MCAnswer` | `Session` and two instances of `Response` (whole responses; one column of every type) for TLC |
| `AnswerProofs` | theorems about `Session` and about what `MCAnswer` says of a response |

`ConnPool` takes a whole shared memory section as one step. `ShmemLock` is what
justifies that: it shows that sections exclude each other, so a section with all
its reads and writes may be treated as atomic, as long as no signal interrupts a
worker that waits for the lock. One that does lets two sections run into each other
(shmem.c:100), which `ConnPool` does not model. In the same way `Connector` takes a
line as sent or received whole, which `RecvString` justifies; `Connector` leaves open
how a login and a query go, which is `Session`; and `ConnPool`, `Connector` and
`Session` leave open what text the client gets, which is `Response`.

`MCInput`, `MCAnswer` and `MCLifecycle` check several modules that share no
variable in one run: a variable `part`, chosen in the initial state, says which of
them moves, the others stay in one resting state. The states of the run are the
union of those of the parts, not their product.

### ConnPool and the code

* `slots` is the table; a record has the fields that steer control: `pid` (0 is
  `NoPid`), `name`, `timeout`, `accessed`, `inUse` (unsigned, modulo `InUseMod`),
  `sock`, `helper`, `db`. A name stands for the connection name together with
  server, port, database, user and password: `db_match` compares them all.
* `pc` follows `dbrelay_db_run_query`; each value is the point before one section
  or one exchange with a connector: `open` (db.c:171), `find` (218), `alloc`
  (175), `sweep` (272), `copy` (461), `connect` (470), `clear` (477), `helo`
  (569), `writepid` (583), `exec` (589 or 622), `finish` (655), and for the
  operator's kill `killing`, `killfind`, `killclose` (admin.c:132, 141, 161).
* `copy` is the malloc'ed copy of the slot: the request connects to the copy's
  path and queries the copy's handle even when the slot has moved on.
* `seen` exists because `close_connections` reads the clock before it waits for
  the lock (db.c:272): the sweep compares with any time from `seen` to `now`.
* `conns` is the connector behind a path: bound and running (`up`), running with
  its path unlinked by `cleanup_connector` (`hidden`), or gone; the login it
  keeps; the client it has accepted. A path stands for the process that listens
  on it, so it also serves as helper pid.
* `wild` is a history variable: workers that gave the driver a handle they do not
  own or have closed, which in the program is undefined behaviour.
* A worker that dies (`Crash`) leaves its locals and its slot as they were; its
  handle and its sockets are gone.

A path is reused only when nothing refers to it (`Fresh`), as `tmpnam` has it.
A connector that a slot, a copy or a kill still names leaves only as a fault
(`exit`): with timers that is the race of its alarm with a new client, or a kill.

The failures, each but the last counted in `faults` up to `MaxFaults`: `exit` (a connector
that is referred to leaves), `busy` (the backlog of a live connector is full and
`connect` fails), `launch` (nobody listens after the launch), `crash` (a worker
dies), `kill` (an operator kills a connector), `garbage` (the reply buffer of
HELO, never written, happens to hold a pid line).

### Connector and the code

`ConnPool` sees a connector from outside: a path that is bound, a login that
sticks, one client at a time. `Connector` opens it: `connector.c` on one side,
`client.c` on the other, `up[c]` and `down[c]` the lines between them.

* `srv` follows `main`: `accept` (connector.c:162), `serve` (179), `login` (197),
  `start` (214), `query` (215), `send` (217 to 239), `leave` (200 to 207: no
  handle, answer and return), `gone`. One line sent or received is one step, so the
  alarm, a signal and the death of a client fall between any two of them.
* `receive_sql`, `sb_sql`, `sql` and `timeout` are the globals of the connector that
  outlive a client. A text is the set of clients whose statements it is made of:
  that is all `OwnAnswer` needs. SQL that contains a line `:SQL END` is left out.
* `alarm` counts ticks down to SIGALRM, whose handler exits at once (83). The test
  of `last_accessed` after accept (169) can only confirm it, since both are set at
  the same moment. `busy` bounds a login or query to `MaxQuery` ticks.
* `connected` has a third value, `never`: before the first login `conn.db` is not
  initialised, and `isalive` (259) follows it. `Forget` then allows the two outcomes
  a build can have, the connector goes on or is gone. `isalive` itself may
  say yes or no (mysql.c:330 says no of a good login).
* `cpc` follows a client: `helo` (client.c:85), `options` (110), `set` (217), `begin`
  (131), `end` (137), `sql` (141), `run` (143), `receive` (148), `quit` (62 or 73).
  The seven options are one SET line here, that of the timeout, the only one that steers
  the connector.
* `GetReply` is `recv_string` with the result ignored and an `in_buf` of its own, as in
  `set_option` (what came behind the reply goes with it); `GetLine` the same on the `in_buf`
  that the receive loop goes on with (line 141). In that loop the result counts: -1 is an
  error, 0 ends the loop as OK would. A socket whose peer closed it gives 0, except that
  the kernel gives -1 (ECONNRESET) when the peer left lines unread; `Reset` tells the two apart.
* `Interrupt` is a signal that the process of a client handles while it waits:
  `select` fails with EINTR, `wait` gives -1 and `recv_string` returns it at once
  (socket.c:204; only EINTR of `recv` itself is repeated), as does `send_string` (177 to 181). Nobody
  looks at that for a reply (`ReadInterrupted`): it comes later and is taken for the next
  one. In the receive loop it is an internal error, and run_query sends DIE to a connector
  that is in good health (db.c:594). A client interrupted in HELO leaves its socket open (db.c:569,
  place `leaked`). One that is interrupted as it writes (`WriteInterrupted`) sends DIE
  too, which a connector in SQL mode keeps as text: both then wait for the other until the alarm.
  A signal to the connector itself ends it: of those it gets it handles only SIGALRM (connector.c:102), by exiting.
* `interrupts` is a history variable. The connector may still be busy with an interrupted client
  when that is over, so its place is then `closed` instead of `idle` (`Leave`): the worker's
  next request is one of another client of the model. Interruptions of the sending of QUIT and DIE themselves
  are left out; once the connector is gone there is nothing to wait for, so `Interrupt` needs it alive.
* An operator (`Operators`) sends DIE and waits (`dbrelay_conn_kill`).
  `Killed` is the SIGTERM of `cleanup_connector` and of the master's exit.
* After an internal error run_query sends DIE to the dead socket and closes it twice
  (db.c:594, 609): neither has an effect on a connector that is gone.

Left out: errors of `accept` (162 to 167), and the 30 seconds of `recv_string` in the
connector, which do not end the wait: `wait` returns 0 and a blocking `recv` follows.
The descriptor of a broken client is never closed (257); a client that is dead does
not see it.

### ShmemLock and the code

Each system call is a step: `semget` (`Lookup`), `semop` (`Lock`; `LockFails` when the
semaphore was removed, `LockInterrupted` when a signal ended the wait, both of which the
code takes for success, since it compares the result with 1, shmem.c:100), `shmget` and `shmat` (`Attach`, `AttachFails`), `shmdt` (`Detach`), `semop`
(`Unlock`), then the calls of `create_shmem` and `destroy_shmem`. `adj` is the
kernel's undo adjustment of each process; `Undo` applies it when a process ends,
never letting the value fall below zero, and SETVAL and IPC_RMID clear it, as
System V has it: a process that was interrupted in `semop` gives back a unit that it
never took, and its death takes one away again. `Signalled` are the processes a signal
may reach, `MaxInterrupts` bounds how often one does; `Mutex` has the same count and
admits one more for each. A process that gets NULL either creates the segment (a tool that
starts, main.c:162), returns (the master) or follows the pointer and dies (every
other caller). `Mortal` names the processes that may die at any step.

### ExitMaster and the code

* `at` follows `exit_master` (ngx_http_dbrelay_module.c:124): `start`, `connect` and
  `wait` in the first loop (136 to 146: socket, DIE and its answer, signal), `kill` in the
  second (149 to 153), `end` after release and destroy. `pid` is the master's variable of
  that name, which the second loop reads and never writes.
* The workers have gone when the master gets here. `Tools` are requests of command line
  tools, anywhere in the middle: they are served by a connector (`client`), write the
  helper pid in a section of their own (`WriteHelperPid`, for which they need the lock
  that the master holds), have their query run (`running`).
* A connector of slot `s` has the pid `s`; what matters is that pids differ. `termed` and
  `killed` are who was sent SIGTERM and SIGKILL; 0 in `killed` would be the master's whole
  process group, since `kill(0, ...)` is what C makes of an unset pid.

### RecvString, Framing and the code

* A byte is named by its position in the stream. `in_buf`, `in_ptr`, `len` are the
  caller's buffer, `out_buf` and `out_ptr` the string under construction; `pc` is the
  point in the loop (`read` before `recv`, socket.c:203; `scan` at 226).
* `Recv` takes any part of what was sent, up to the room in the buffer; `RecvEnd` and
  `RecvError` are its 0 and -1. An interrupted call is repeated and leaves no trace.
  A send that goes out in part (169 to 190) is `Send` several times.
* `Fits`, `Advance`, `TakePart`, `TakeLine`, `TakeFull` are the branches of lines 226 to 258.
* Each function of `client.c` has a fresh `in_buf`; since the two programs go in
  lockstep (`Connector`), nothing is in it when the function returns.
* `Framing` counts bytes delivered only. A piece ends with the first newline or has
  `MaxPiece` bytes, one less than the buffer.

### Http, QueryString, Params, Options, Script and the code

* `Http.pc` follows a request through `handler` (393 to 461), the body (`body`, nginx's), the
  callback with `send_response` up to the buffer (`buffer`), and `end`; `dropped` is a
  request whose answer found no memory: the status goes to a callback that returns
  nothing (270). A header value is its items; `alone` says that an item has neither a blank
  before it nor a weight behind it, which is all `accepts_application_json` can tell
  apart.
* `get_header_value` compares as far as the header's own name goes, so that a header `Acc` is
  found for `Accept` (`Begins`, `Shorter`). `NotAllowed` refuses every method but GET, HEAD
  and POST; a HEAD request is run like a GET.
* `QueryString` has one character per step (`parse_get_query_string`, `parse_post_*`):
  a key and an escape sequence are one token. `value` is the buffer that is reused,
  full of old bytes at the start; `Stored` is `write_value`.
* Nobody compares a place with the size of a buffer. `Room` is the size of that for values:
  `value[4000]` on the stack for an address (ngx_http_dbrelay_module.c:800), the size of the whole
  body for a post (715, 766). `key[100]` is a key `long` that does not fit. The loop that cuts off newlines at the end
  of an address goes on to `value[-1]` when there is nothing else (825, `BeforeValue`). Each of
  these is `Overrun`, an end of the parser; what the program does after it is
  undefined and not modelled.
* `Params.Values` are the parameters in some order, all different. `pos` is the C offset, and `Resolve` one turn of the loop, in which -1 is added
  to `pos` before it is compared with -1. `Send` gives the driver `newsql`, and a
  connector `request->sql`.
* `Options` has one call of getopt per step. `takes_value` is the option string of
  main.c:59, `Written` the usage line of main.c:158.
* `Script` has one line of input per step. `mybuf` is a sequence of lines and newlines,
  `buflen` and `bufsz` their bytes and the capacity, the first of the sizes `Doubled` that
  has `Room`.

### Response, Json, Columns and the code

* `Json` abstracts a text to the state of a reader that has read it (`open`, `next`,
  `call`), so a writer's state stays small; a writer keeps, as json.c does, whether each
  container already has items and whether a key waits for its value.
* A token `raw` is data that would have to be escaped or quoted and are not: the reader is `Lost`
  from there on. Raw are a column's name with a quote (`KeyToken`; `json_add_key` writes keys as
  they are, json.c:152), a value of a type that is no number and not in its driver's list of quoted ones
  (`ValueTokens`), and a CSV value with a quote, a backslash, a newline or a control character
  (`CsvValue`; db.c:921).
* `Response` has one step per call of `run_query` that writes: `j` is the writer of the
  response, `d` that of `exec_query` whose text is pasted into it (`NoMoreResults`). Where
  the table, the connector or the login decide, the outcomes are all allowed.
* `Columns` has the lists of the three drivers as they stand in the source; `IsText` is
  what the servers' types are, from their libraries: dates with ODBC 3 codes, binary data, which
  odbc.c fetches as hexadecimal digits (odbc.c:138), the bytes of a MySQL BIT.
* `NoCallback` are the responses in which neither `js_callback` nor `js_error` has a part: kill, the status
  page, and what `dbrelay_json_error` writes. `DataCallback` and `ErrorCallback` are
  those of the others.

### Session and the code

* `pc` follows RUN in `main` (connector.c:191 to 233) and `exec_query` (db.c:667 to 692):
  `login`, `begin`, `exec`, `results` (fill_data), `commit` or `rollback`, `next` (isalive).
* `db` says what the handle stands for: `lost` is a dead session that the client library
  has not noticed, `dead` one that it has. `left` counts logins that were forgotten
  while the server held them.
* `driver` is chosen at the start; `MssqlResults`, `OdbcResults`, `MysqlResults`,
  `MsgAfter`, `IsAlive` and `CatalogKnown` have the differences between the three.
* A batch is what its statements do (`ok`, `rows`, `fail`). Transactions that the SQL of
  a request opens by itself are left out, and each request is run once.
* External: which statements take effect (`Execute`), when a library sees that the server
  is gone (`Seen`), and that it refuses a command over a dead session or over unread
  results (`Refused`).

## 3. Runs

| run | instance | shows |
|---|---|---|
| `pool_quiet` | 2 workers, 2 slots, 4 paths, names a and b and requests without a name, idle timeout 1, clock to 2, one crash anywhere | exact use counts, slots kept, handles private and closed, no foreign login |
| `pool_faults` | 2 workers, 3 slots, 4 paths, one name, any one failure of the six kinds, both timeouts 0 so that every tick expires | duplicates bounded, one slot per creator |
| `pool_liveness` | 2 workers, 1 slot, 3 paths, any one of exit, busy, launch, kill | every request is answered |
| `shmem_cold` | 2 tools create at the same time, a third process, mortal and interrupted once, comes in, the master removes everything at any moment | the unit is not lost, nobody left blocked |
| `lifecycle` | `table`: 3 mortal processes use the segment while a master removes it, signals end up to 2 waits of two of them; `exit`: 2 slots in every state a table can be in, 2 tools | exclusion to the end and exactly one unit, but for one more for each interrupted wait, refinement of `Mutex`, nobody left blocked; the master's exit ends, kills only who was asked and never its whole group |
| `connector` | 3 clients, one mortal and interrupted once at any of its waits, one an operator; timeouts 0 and 1; SIGTERM at any step | answers belong to their statements, interrupted or not; those of clients that were not interrupted are complete while the connector runs, and neither side waits for the other; the alarm spares the queries of requests with a timeout, every request ends, a connector nobody uses leaves |
| `input` | `socket`: buffer of 4, 6 bytes, newlines anywhere, every cut into sends and receives; `http`: up to 2 headers of up to 2 items in one or two parts; `query`: up to 2 fields with values of up to 3 characters, a buffer of 2 for an address, keys that are too long; `params`: texts of up to 5 characters, up to 3 parameters; `options`: up to 2 optional ones in every order; `script`: 3 lines | lines in order and all delivered (refinement of `Framing`); headers, fields, options, parameters and scripts taken as they were sent; when the parser of fields leaves its buffers |
| `answer` | `response`: every request, up to 2 result sets of 2 rows and 2 columns, names and CSV values raw or not; `types`: every column type; `session`: 2 requests, batches of up to 3 statements, each driver, the server gone at any step | one JSON value unless raw data got into it, data and errors of a query in the callback asked for, rows as announced; the answer tells what became of the data, the next request finds a clean session, dead logins are replaced and live ones kept, reading results ends |
| `pool_remove` | one connector leaves | a slot is removed whose connector did not refuse: contradicts db.c:471 |
| `conn_eof` | 2 clients, SIGTERM at any step | a connector that ends is reported as success: contradicts client.c:174 and 192 |
| `exit_kill` | 2 slots, 2 tools | a slow connector is not killed: contradicts ngx_http_dbrelay_module.c:147 |
| `params_missing` | texts of up to 3 characters, 2 parameters | a parameter without a placeholder changes the text: contradicts db.c:798 |

**Bounds.** Two workers suffice for every race the code has between two
sections of one request and the sections of another; each hazard listed is a
race of two. Two slots let a request be handed a slot other than the first, and
are both taken by two unnamed requests, after which a third allocation meets a
full table; one slot (`pool_liveness`) makes that the common case. Three slots in
`pool_faults` leave room for one more duplicate than the bound allows. Four
paths are two per worker, the one a worker is losing and the one it launches.
The clock of `pool_quiet` passes the idle timeout but never the hard one.
`InUseMod` 8 stands for 2^32 and is far above the two workers: only an underflow
could reach it.

In the runs of `Connector` two clients are what a leak from one client to the next
takes, and both orders of the two occur because requests repeat; a third, the
operator, makes the backlog longer than one. The timers are small but keep the order
that matters: a query (`MaxQuery` 1) ends before the hard timeout (2) and may outlast
the idle alarm (1). One interruption, at any wait of one client, is what it takes to be out of step
once; the theorems admit any number. The clients' lines are bounded by the conversation itself, and
the clock by the alarm, so these runs need no further bound.

In `lifecycle` two interruptions of two processes let all three be inside at once and the
value go to three; the theorems have no such bound. `MaxIds` (`shmem_cold`) is more than the tools can create: two each, and the first. Two slots
are what the second loop of the master's exit needs to signal the pid of another slot. A buffer of 4
bytes takes 3 and the NUL: six bytes make a line that fits, one that fills it to the
last byte, one that is longer, a newline that is the first byte of the next read,
and what is left over for two more calls. Two fields suffice for what the first
leaves in the buffers of the second; with a `ValueSize` of 2 a value of one character fits with its
NUL, one of two has no room for the NUL, and one of three none for its last character; three parameters for one that is missing before,
between and behind others. Two requests on one login are what the second needs to find what the
first left; three statements let a batch fail with a result set before and one behind.
Two columns, rows and result sets make every comma and every carry-over occur; `types` has
one column, since each type is judged against all the others.

**Runs that disagree with the code's words.** `pool_remove`: a worker whose connect failed
clears its slot by index, without a look at what is there by now. `conn_eof`: the loop
of client.c:148 tells -1 from 0 but takes 0, the usual way a dead peer shows, for the end
of the results; and line 143 returns the error text after line 139 has cleared
`*error`. What does hold is `CompleteWhileAlive`: a false success needs a connector
that is gone. `exit_kill`: the second loop signals `pid`, which is what the first loop
left in it. `params_missing`: -1 is tested for after `pos` was added, so a
placeholder that is missing is noticed only while `pos` is 0; `ParamsResolved`
therefore speaks of texts with a placeholder for each parameter, or with none.

**What is known not to hold.** The passing properties carry conditions where the code has
a behaviour that they would trip over and no run of its own is kept for it:

* `find_connection` returns the first slot that matches, in use or not (db.c:229; the
  comment at 317 says idle); `ConnPool` has it so, and the second request waits in the
  backlog.
* `AlarmSparesQuery` speaks of requests with a timeout. A request that asks for
  `connection_timeout` 0 (the default of 60, db.c:754, is overwritten by
  ngx_http_dbrelay_module.c:645) makes line 214 arm nothing, and the alarm of the start or of
  an earlier client goes off in its query.
* `MutualExclusion` and `OneUnit` allow one more process inside, and one more unit, for each wait
  that a signal ended: the result of `semop` is compared with 1 (shmem.c:100), so the
  failure is not seen, the process goes on without the lock and gives back what it never took.
* `CompleteWhileAlive` and `NeverBothWaiting` leave out a client one of whose own waits
  was interrupted (socket.c:204). What goes wrong there, all within `Interrupt`: the OK to SQL END
  comes late and is taken for the end of the results; a wait for results becomes an internal error
  and a DIE for a healthy connector; the DIE of a client that was interrupted as it wrote its statement is
  text to the connector; the socket of one interrupted in HELO stays open. `OwnAnswer` holds of it too.
* `HeloFails` (db.c:569) does not count `in_use` down, so that only the hard timeout or a failed
  connect takes the slot back. `KillFind` and `KillClose` are two sections (admin.c:141, 161): the slot
  that is closed may be another request's by then. No property says otherwise.
* `ResponseWellFormed` leaves out a request with `js_error` and no `js_callback` that succeeds
  (`Unopened`: the end of the response closes a callback that only an error opens, db.c:647), and
  texts in which raw data got lost: the name of a column with a quote (json.c:152), a CSV value
  with a quote, a backslash, a newline or a control character (db.c:921), a value of a type that is text and
  not in its driver's list of quoted ones (dates and binary data with ODBC, odbc.c:119 to 149; TIMESTAMP, BIT and GEOMETRY,
  mysql.c:95; SYBIMAGE, mssql.c:144).
* kill, the status page and every error that `dbrelay_json_error` writes (an unknown command, a missing
  parameter) use neither `js_callback` nor `js_error` (admin.c): `ResponseWellFormed` says nothing of
  their callback and `ErrorToHandler` leaves them out (`NoCallback`).
* `HeadersHeeded` leaves out requests in which a header with a shorter name that begins the one looked for
  comes before it: that one is taken (ngx_http_dbrelay_module.c:231). It says
  who gets `application/json`, not who ought to: an item with a weight or a blank before it is
  passed over (202), though lines 193 and 194 say "regardless of ordering or weight".
* `FieldsAsSent` leaves out fields last sent without `=`, which take what the field before left in
  the buffer, unescaped once more, and speaks of requests that were read to their end. `OverrunOnlyIf`
  says which are not: a key of 100 characters or more, in an address a value of 4000 or more, and
  an address whose last value is empty, when an earlier value left a newline at the start of the buffer or
  the stack has one there (ngx_http_dbrelay_module.c:799, 800, 825).
* `ParamsResolved` says what the driver of an unnamed request gets. Over a named
  connection the text goes out as it came (client.c:133): without the text put before each
  query and without its parameters.
* `FieldsAsSent` leaves `-l` and `-v` out of what must be stored: the option string has no `l`
  and gives `v` a value (main.c:59), though the usage line has both.
* That an admitted request is always answered is false and no property: without memory for the
  answer it is never finalized (`dropped`; ngx_http_dbrelay_module.c:529, 270).
* `QueryEnds` ends where the server goes away while results are read: DB-Library and ODBC
  then report one more result for ever (mssql.c:306, odbc.c:286).
* `OutcomeTold` leaves out a request whose session died (`died`): the results of BEGIN and COMMIT are
  not looked at (db.c:678), so it may be told of success. `CleanStart` leaves out a batch that failed with result sets behind the
  error (`spoiled`): the client library refuses the ROLLBACK and the transaction stays open (db.c:685).
* `ErrorIsTheQuerys` leaves out the errors that mysql and odbc replace by that of a ROLLBACK they have no text for, and
  those that err_handler (mssql.c:404) drops. `LoginFollowsServer` asks of mysql and odbc the half that their
  `isalive` keeps (mysql.c:330 is the wrong way round, odbc.c:389 a stub), and both of mssql only.

**Assumptions of `pool_quiet`.** No connector leaves while it is referred to, and
no slot is idle for eight hours. These are needed: with one `exit` fault TLC finds
that a late `ClearSlot` (db.c:478) takes a slot away from its new tenant, and from
there that a request runs on a connector logged in for another name, that
a foreign database handle is closed, that a handle leaks and that counts go
wrong; `pool_remove` shows the first step of each. With `HardTimeout` below the
clock, a sweep closes a handle of a query that still runs. `HeloFails` (db.c:569)
returns without giving the slot back, which needs an `exit` too.

**Deadlock.** The pool never stops: some worker can always begin a request
(`MaxFaults` 1 leaves one worker alive). In the runs of `ShmemLock` every process
may have ended, and in those of `Connector` the connector is gone and its clients idle
or dead in the end; the master's exit, a response, a parsed input, a session that has
served its requests are over when they are over. Deadlock is not checked there.

**What the cold start does not give.** Mutual exclusion is false in `shmem_cold`:
between the `shmget` and the SETVAL of a creator another process finds the
segment without a semaphore and enters without the lock, and a second SETVAL puts
a unit back while the first is held. If a creator dies between `semget` and
SETVAL, later processes block for ever, for nobody creates again; the creators of this run are
not mortal. A tool that starts while the master removes the segment may end with a
semaphore and no segment, or the other way round. No document or comment claims otherwise,
so no run is written for them.

**Fairness.** `ConnPool`: a worker that has a step takes it (weak fairness of
`WorkerStep`): the code never waits between sections except for a socket. A
client in the backlog of a connector is accepted in the end (strong fairness of
`Helo` and `KillConnector`): the backlog is served in order and a query on
a connector ends. A connector nobody refers to leaves in the end (its alarm).
No fairness is assumed of requests, of failures or of the clock. `ShmemLock`: a
process in a section goes on, and System V wakes those blocked in `semop`
in turn (strong fairness of `Lock`). `EveryRequestAnswered` holds because each
retry consumes a failure or finds the connector the other worker launched. It
rests on a new connector living until somebody refers to it no longer: if
new connectors were allowed to leave at once for ever, two workers could
keep removing each other's slot.

`Connector`: the connector goes on whenever it can (weak fairness of `ServerStep`, of
which at most one step is possible at a time but for the alarm), so does each client
(`ClientStep`), and time passes (`Tick`). That a login or query ends is in `Tick`, which stops at
`MaxQuery` until it does. Nothing is assumed of new requests, of deaths or of signals.
`EveryClientAnswered` needs no fairness among clients: the backlog is a queue.

`ExitMaster`: the master goes on, the semaphore serves it in turn (strong fairness of
`GetShmem`), queries end, signals arrive and alarms go off. The last is what `NobodyWaits`
needs: a connector that serves a tool which waits for the master's lock leaves by its alarm
at the latest (a mutant whose alarm waits for the client shows it). `RecvString`: a reader that
can go on does; nothing is assumed of the sender, so a line that never ends is waited
for. `Session`: each call of a driver returns. Nowhere is a signal assumed to come that would
interrupt a wait.

**Mutants.** Beside the definitions stand mutated forms, marked `mutant`: the
count not incremented, the idle test dropped, the dead worker test dropped, the
handle not closed on a full table, the sweep closing without a slot to close, the parameters not compared, the pid not
cleared, SEM_UNDO missing on one side, IPC_NOWAIT, segment and semaphore removed
in the wrong order, a retry on a removed semaphore, SETVAL 0; an SQL buffer that is
not cleared, an answer to SQL BEGIN, text mode that outlives its client, no alarm or
no hard timeout for a query, an end of stream that is no end; a pause of the master
without the lock; a string without room for its NUL, the rest behind a full buffer
dropped; an index not put back, a value not terminated, the place in the value kept at `=`, quotes not minded, an option
without its colon, no room for a newline; a column left open, a comma left out, an error
without a restart, numbers carried over; BEGIN, COMMIT or ROLLBACK left out, a message
dropped, isalive the wrong way round, a flag not reset. Each makes its property fail in its run.
A property that says several things of one matter has a mutant for each.

## 4. Proofs

Each theorem holds for every value of the constants that its module's assumption
admits; where it needs more, the hypothesis is named and explained here.

### ConnPoolProofs

From `ConnPoolAssumption` only, that is for any finite set of workers, any number of
slots and any failures:

* `TypeCorrect`: `Spec => []TypeOK`. Beside the types `TypeOK` says that a worker at a section that
  indexes the table has a slot to index it with (`HasSlot`), without which the types of the table
  would not be inductive: the -1 of a full table never gets that far.
* `OneSlotPerCreatorHolds`: a worker allocates only after its find missed
  (`AllocMissed`: while it is at `alloc`, no slot of its own making has the name),
  and only it writes its pid into the table. The sections of others may remove a
  slot in between but never add one in its name. Requests without a name never
  get into the way because their slots have none (`OpenUnnamed`).
* `DuplicatesBoundedHolds`: the slots of one name inject into the workers, by
  `pid`; the cardinality bound follows by `FS_Injection`.

With `Quiet`, the pool while connectors live: `InUseExactHolds`, `SlotKeptHolds`,
`HandlesPrivateHolds`, `HandlesClosedHolds`, `SameLoginHolds`. `Quiet` says what
`pool_quiet` is an instance of: the failures are deaths of workers and the garbage in the
buffer of HELO; the clock stays within the hard timeout; the workers are fewer
than an unsigned int counts. What goes wrong without them stands under
"Assumptions of `pool_quiet`" in section 3.
The five properties are about different fields, but no one of them can be kept
without the others, so there is one invariant, `PoolInv`, of nine parts:

* `Flow`: which requests have a slot where, and that no step of the failing path is reached.
* `SlotsReady`: a slot in use without a name has a use count of one; one with a name has a
  connector that listens and has logged in for that name or not at all.
* `OwnPath`: no two slots share a path, freed ones included. `Fresh` gives it.
* `Counted`: the count is the cardinality of `Users`, the requests that
  were given the slot, those whose worker died among them. Since a slot with a user
  has a count above 0, neither the sweep nor alloc can take it.
* `Kept`: the slot of a request is in use and has its name, or its pid.
* `OpenHeld`, `CopyTrue`, `ClientServed`: an open handle is on its worker's stack or in
  its slot; what was copied out of the table still stands there; a connector serves nobody
  but who said HELO to it.

### LifecycleProofs: the lock

* `TypeCorrect` holds in every instance. Interruptions are not bounded in any of the theorems
  (`MaxInterrupts` is any number).
* `MutualExclusionHolds`, `OneUnitHolds`, `LockRefinesMutex` assume `Warm`: segment
  and semaphore exist from the start, and there is not both a tool that starts and a
  master that removes them (such a tool may create again what was removed). The
  master's exit is thus part of the theorems. What they say is: no more than one inside, and one
  for each wait that a signal ended; at least one unit, in the semaphore or with a process past
  `semop`, and at most as many more. The invariant `LockInv` has three parts: `Stable`
  (the semaphore goes after the segment, nobody creates, and a waiting process waits for the
  semaphore that is there or for one that was), the upper bounds (`Accounted`), and the balance of the
  next theorem, which gives the lower one. The adjustments make it inductive: without them nothing
  could be said of the step in which a process dies.
* `LockNotLostHolds` is about the cold start, with any finite set of processes and any number of
  tools that create at once, provided that these live until they have set the value
  (`Starters \cap Mortal = {}`; see "What the cold start does not give"). Exclusion
  is false there, so a sum takes the place of "one process has the unit":
  `Balance`, the value and the adjustments that would raise it (`Ups`) less the units that
  others would take away (`Downs`, pairs of a process and a number, for a process that was interrupted
  often owes more than one), is 1 or more for every semaphore that nobody is about to set (`UnitKept`).
  `AdjustOne` says what one process adds to it.
* `LockOfLifecycle`: the first three hold in `MCLifecycle` too, the specification of the run.

### ConnectorProofs

From `ConnectorAssumption` only: any clients, mortal or not, interrupted any number of times or
not, any operators and timers.

* `TypeCorrect`: `TypeOK` has beside the types that a connector past accept has a client (`HasClient`),
  and that only an interrupted client is over before its connector knows (`Freed`).
* `OwnAnswerHolds`: nobody gets text from another's statement. What is to be shown is
  that at RUN the globals hold the text of the client being served, though they outlive
  clients and a client may break off anywhere. `Own(c)` says that they do. It
  becomes true when SQL BEGIN of `c` is read and stays so until the client is
  forgotten. `RunInv` says that a RUN under way has a SQL BEGIN before it or `Own`
  holds, and the same of a client about to send RUN; `QuitInv` that QUIT is the last
  line of a client, so that forgetting it leaves no RUN behind;
  `TextInv` that text mode is only ever that of the present client; `WireInv` that lines
  under way are their client's. The proof does not need the two sides to be in
  step, so it holds of clients that read no reply at all. The invariant is `OwnInv`;
  lemmas about the first line of a sequence and about concatenation carry
  it through the queues.
* `CompleteWhileAliveHolds`, `NeverBothWaitingHolds`: these do need the lockstep, which is
  `LockInv`. As long as the connector runs, `Served(c)` lists for the client that is being served, if
  it lives and was never interrupted (`Tracked`),
  every combination of its place, the connector's place and mode, and the lines between
  them (`Uploading` for the statement on its way up, `Results` and `Error` for what
  is left of the answer); `Apart(c)` says the same of all others. One lemma per step of
  either side takes one entry of the list to the next. Completeness is
  that the last OK is read with the whole text before it; that nobody waits for a line of the
  other is read off the list.
* `AlarmSparesQueryHolds`: while a query with a timeout runs, `alarm + busy = HardTimeout`
  (`AlarmInv`), whatever earlier clients armed; a query ends within `MaxQuery`, which is
  less.

### RecvStringProofs

From `RecvAssumption` only: any buffer of two bytes or more, any stream.

* `TypeCorrect`: no index leaves its buffer.
* `ReturnsNextPieceHolds`, `RestIsInBufferHolds`: the invariant says which byte of the stream
  each cell of the two buffers holds: those of `out_buf` begin where the last string
  ended, those of `in_buf` from `in_ptr` on follow them, and what was read is exactly
  both. Each branch of the loop moves bytes from the one to the other or empties one.
* `RecvRefinesFraming`: a call that returns a string is a `Deliver` of `Framing`, one that
  returns 0 or -1 an `End` or nothing, every other step a stutter.

### LifecycleProofs: the master's exit

From `ExitAssumption`: any table, any tools. Both are theorems of `MCSpec`.

* `ExitTypeCorrect`: the master's index and its variable `pid` stay in range.
* `AskedFirstHolds`: the second loop signals what the first left in `pid`, so what is to be
  shown is that this is neither 0 nor somebody who was not asked. The invariant says
  that a pid in a slot the first loop has passed has been in the variable (`Passed`),
  that what is in the variable was sent SIGTERM or had gone, and that the lock is held,
  which is why no tool writes a pid behind the loop's back.

### ResponseProofs

From `ResponseAssumption` only (any numbers of results, rows, columns and slots):

* `ErrorToHandlerHolds`: of a query, and of a catalogue command that gets as far as its query, the error
  is in the callback named for errors, else in that for data. Commands that use neither are left out.
* `RowKeysMatchFieldsHolds`: the keys of each row are those that
  `fields` announced, the first half of `FieldsDescribeRows`. Columns without a name
  are numbered by a counter that is reset in two places (db.c:703 and 719); `KeysInv` says
  that there is one function `m`, the counter after each column, that `fields` and every row
  follow, so that both resets are needed.
* `ResponseWellFormedHolds`: every response into which no raw data got is one JSON value, in the callback for
  data if it tells of data; the `Unopened` are left out. `ResponseInv` says for each place in `run_query` and
  `exec_query` which containers are open, by names that say what they are (`InData`, `InList`, `InItem`,
  ...), or that the writer has strayed: its reader met raw data and is `Lost`, whatever
  is written after that (`Strayed`; `StrayedJson`, `StrayedMember`, `StrayedBrackets`, ... keep
  it so, and `DataGoIn` hands it on to the response the data are pasted into). The other
  lemmas take the reader's state from one to the next.

The reader and the writer of `Json` are recursive functions over a text of any length. Induction
rules that take a predicate are out of reach, but that every set of numbers that is not empty has a least
one (`WFMin` of the library, as `LeastNumber`) is a statement about sets: the
least place at which a claim fails is not the first one, and the place before it
leads to a contradiction. `ReadStays`, `AddsText` and the like are proved so.

`ResponseTypeCorrect`: neither of the two writers ever has more than four containers open on its own
stack (the text of a response with rows pasted in is deeper), and a row has no more keys than there are columns. `DepthInv` gives the depth at each place, by the
place alone (`OuterDepth`, `DataDepth`), whatever the reader made of the text so far.

### AnswerProofs

Of a session, from `SessionAssumption` only: any batches, any number of requests, each driver, the server
gone at any step.

* `SessionTypeCorrect` (with a batch for each request that runs), `CleanStartHolds`, `OutcomeToldHolds`, `ErrorIsTheQuerysHolds`,
  `LoginFollowsServerHolds`, all from `SessionInv`. `LoginInv` relates what `main` believes
  of the login (`connected`) to what the handle is. `TranInv` says whose an open
  transaction is: that of the request that runs, or one left behind a batch with unread
  results, over which the library refuses every further command. `AnswerInv` says that a
  request about to be told of an error has a message of its statement, or the session
  is of no use any more. `DataInv` says of what each request did that it is committed,
  lost with the server, or about to be told of.

Of the composed specification `MCAnswer`, for any constants of `Response`:

* `SessionOfAnswer`: the four properties of a session, whatever part moves.
* `AnswerErrorToHandler`, `AnswerWellFormed`, `AnswerFields`, `AnswerTypesCorrect`. The invariant is `PartsInv`: the session's, and the
  three invariants of `ResponseProofs` for the instance that moves, which is that of whole responses or
  that of one column of every type. Since the two instances give the
  same meaning to the same names, what is shown of one is carried over definition by definition.
* `AnswerFields` has both halves of `FieldsDescribeRows`. The second one, that the
  `sql_type` of a column tells whether its values are quoted, is about the lists of the three
  drivers: `MssqlTold`, `OdbcTold` and `MysqlTold` are the names that quoted types are told
  by, and no type outside the quoted ones has one of them.

### QueryStringProofs

From `QueryAssumption` only: any number of fields, values of any length, any size of the value
buffer, any room of a field.

* `QueryTypeCorrect`: the place in the input stays inside what was sent, and that in the value is at most
  what was read of it. It does not say that the value stays in its buffer, which is false.
* `OverrunOnlyIfHolds` says when it does not: never for a post; for an address when a value does not fit,
  or when the last one is empty; and for a key, when it is itself too long. That an earlier field cannot
  be the reason is that `=` sets the place back, and that a value that came to its end had room for its NUL (`Fitting`).
* `FieldsAsSentHolds`: at the end, if the parser came there inside its buffers, a field that is stored has the last value sent for it,
  unescaped once and cut to its room; `NothingStaleHolds`: no field has a
  character of before the request. The buffer is never cleared, so the invariant
  (`QueryInv`) has to say which of its cells count. `Sent` gives the place in the
  input where each field starts; `Here(n)` says that the parser is in field `n`, at
  its start, in its key, in its value with the first `v` cells copied, or past it (`PastKey`,
  `PastValue` for the newline that may follow a body); `Recorded(n)` says that the
  fields before `n` are as sent. That `input` is what the fields add up to is again an
  induction by `LeastNumber`.

### InputProofs

From the parts' own assumptions (`PartsAssumption`): texts, requests, headers, command lines and
scripts of any length, and any number of parameters, of `MCSpec`, whatever part moves. Each part that
rests is in one state, so each invariant says what it is when it moves and when it does not.

* `RunsSinceGoHolds`: the buffer is what came since the last go (`BufferInv`).
* `ParamsResolvedHolds`. The loop looks for the next question mark from an offset, beginning
  outside quotes at each; the meaning (`Replaced`) judges each by all the quotes before it. That
  the two agree is that a placeholder has an even number of quotes before it, so that
  what counts behind it counts in the whole (`Even`, `Marks`, `Behind`; the
  function of `find_placeholder` finds the first of `Hits`). `TextInv` says that what was written so far is
  what the text up to `pos` comes to (`Prefixes`), and that the placeholder at `pos` has
  the number `i`, where each parameter has a placeholder or none has. Where some have not, the code
  does what `params_missing` shows, and the invariant claims nothing.
* `HeadersHeededHolds`: the loop over the parts of the list, which goes to the next part at the end
  of one, finds the first header that matches in the order of the list (`FirstOf`; `Later` are
  the places behind a given one), in whatever part. That is the first of the very name, unless one
  with a shorter name stands before it (`Named`, `Shorter`; `MatchingNames` says that there is no third kind).
* `FieldsAsSentOfInput`, `OverrunOnlyIfOfInput`: the fields of a request by the invariant of `QueryStringProofs`; the
  options (all but `-l` and `-v`) by `OptionsInv`, which says of how many pairs of words the line consists (`Line`) and
  that `field` is what the first `k` of them set (`Parsed`). That a line of the usage has that form, whatever
  options and whatever order, is shown of the flattening of its pieces (`LineWritten`).
* `InputTypesCorrect`: no place leaves the input it is a place in, no list has what was not sent, and the
  text of a script with its NUL is inside `mybuf`. The parts' invariants are `HttpTypes`,
  `PlacesInv`, `KindsInv`, `WordsInv` and `ScriptTypes`. In the last, `BufferIs` says that
  `buflen` is the sum of what the lines have; that doubling finds a size that is
  large enough, for a buffer of one byte or more and lines of any length, is `RoomFits`.
* `SocketOfInput`: what `RecvStringProofs` shows, the refinement included, holds here.

The recursive functions (`find_placeholder`, the two searches of `Http`, `Bytes`, `Doubled`, and `FlattenSeq` of
the community modules) are handled as in `ResponseProofs`: there is a function with the equation of the
definition, the CHOOSE of the definition therefore has one too, and what it is at each
place follows by `LeastNumber` (`ScanStops`, `GrownExists`, `StrungExists`, `SumFound` and the like).

### Model-checked only

* Liveness (`EveryRequestAnswered`, `EverySectionEntered`, `NobodyWaits`,
  `EveryClientAnswered`, `UnusedConnectorLeaves`, `EveryLineDelivered`, `QueryEnds`),
  which is out of the prover's reach.
* The four runs that disagree with the code's words, each of which is one behaviour.
* What the hypotheses exclude: `ConnPool` when a connector leaves under a request (outside `Quiet`), where the five
  properties are false; the cold start, but for `LockNotLost`.

Every other property of a run, that is every safety invariant, action property and
refinement, is a theorem, for every value of the constants that the hypotheses named above admit.

## 5. Not modelled, and why

* The `sock_path` parameter of a query, which lets a client name the socket.
* `kill(pid, 0)` failing for a live process of another user, which makes the sweep
  take the slot of a command line tool for a dead worker's.
* The descriptor of a client that breaks off, which the connector never closes
  (connector.c:257), statement handles and results that drivers never free (odbc.c:254):
  descriptors and memory are not counted.
* A tool that dies between `semget` and SETVAL (see the cold start above).
* A waiting worker of `ConnPool` that a signal interrupts, and so two of its sections at a time (see
  `ShmemLock`); the sending of QUIT and DIE that a signal interrupts (`Connector`).
* A `change_db` that fails (db.c:676): nobody looks at its result, and the query runs in whatever
  database the login is in. The `querying` flag that odbc.c sets for BEGIN, COMMIT and ROLLBACK too
  (257) has no effect there: the batch sets it again before results are read.
* What the program does after it left a buffer (`overrun` in `QueryString`).
* Contents: escaping and layout of JSON, values and names of columns, the SQL of the
  catalog, lengths of types (mssql.c:169), bytes above 127 (json.c:179).
* Out of bounds access that the models do not show: a parameter without a colon
  (db.c:772), a hundredth parameter (db.c:436), parameters used after they were freed (main.c:204,
  which `Script` marks and no property forbids).
* Vendor libraries, the kernel and nginx: by what the code relies on, marked external.
* Logging; terminal editing and history of the command line tool; the build system.
* Code that is not compiled: `emit.c` and `status.c` (earlier copies of parts of `db.c`),
  the upstream variant of the handler and the older `recv_string` under `#if 0`.

## 6. What could follow

1. Composition: the connector of `ConnPool` (`conns`) implemented by `Connector`, by
   a refinement mapping from `srv`, `s2`, `queue` and `connected`; and the step `query` of
   `Connector` by `Session`.
2. Proofs: that composition, once it is modelled; the pool with connectors that leave, for the
   properties that survive it.
