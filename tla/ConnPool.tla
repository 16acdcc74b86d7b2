------------------------------- MODULE ConnPool -------------------------------
(***************************************************************************)
(* The connection pool of dbrelay (src/src/db.c): a table of connection    *)
(* slots in shared memory, used by the worker processes of the web server  *)
(* and by the command line tool.  A request without a connection name      *)
(* opens a private database handle and parks it in a slot for the time of  *)
(* its query; a named request shares a slot that holds the path of a       *)
(* connector process, which it talks to over a socket.                     *)
(*                                                                         *)
(* Every shared memory section of the code (get_shmem ... release_shmem)   *)
(* is one step: the semaphore that makes it so is the subject of module    *)
(* ShmemLock.  Between two sections everything interleaves.                *)
(***************************************************************************)
EXTENDS Integers, FiniteSets

CONSTANTS
    Workers,         \* the processes that serve requests; one is its own pid
    NoPid,           \* pid 0, and the NULL database handle
    NumSlots,        \* DBRELAY_MAX_CONN
    Names,           \* connection names, each with its server, user, ...
    NoName,          \* the empty connection name
    Asked,           \* the names, NoName among them or not, clients use here
    Socks,           \* socket paths; a path stands for its connector process
    NoSock,          \* the empty path, and helper pid 0
    Timeouts,        \* connection timeouts a request may ask for, 0 = none
    DefaultTimeout,  \* what 0 is replaced with, 60 s
    HardTimeout,     \* DBRELAY_HARD_TIMEOUT
    MaxTime,         \* bound of the clock
    InUseMod,        \* in_use is an unsigned int: 2^32
    Faults,          \* the kinds of failure this instance allows
    MaxFaults        \* bound on their number

FaultKinds == {"exit", "busy", "launch", "crash", "kill", "garbage"}
Slots == 0 .. NumSlots - 1
NoSlot == -1        \* what find and alloc return when they have no slot

ASSUME ConnPoolAssumption ==
    /\ NoPid \notin Workers /\ NoName \notin Names /\ NoSock \notin Socks
    /\ NumSlots \in Nat /\ MaxTime \in Nat /\ MaxFaults \in Nat
    /\ Timeouts \subseteq Nat /\ DefaultTimeout \in Nat /\ HardTimeout \in Nat
    /\ InUseMod \in Nat \ {0, 1}
    /\ IsFiniteSet(Workers)
    /\ Faults \subseteq FaultKinds
    /\ Asked \subseteq Names \cup {NoName}

VARIABLES
    slots,     \* the shared table of dbrelay_connection_t
    conns,     \* the connector behind each socket path
    open,      \* workers whose private database handle is open
    pc,        \* where each worker is in dbrelay_db_run_query
    req,       \* the request each worker serves
    slot,      \* each worker's local index into the table
    copy,      \* each worker's private copy of its slot
    seen,      \* earliest value of the clock close_connections may have read
    hpid,      \* the helper pid HELO returned
    now,       \* time(NULL)
    wild,      \* workers that passed a handle that is not theirs to the driver
    faults     \* failures so far

locals == <<req, slot, copy, seen, hpid>>
vars == <<slots, conns, open, pc, locals, now, wild, faults>>

Pids == Workers \cup {NoPid}
Paths == Socks \cup {NoSock}
PcValues == {"idle", "open", "find", "alloc", "sweep", "copy", "connect",
             "clear", "helo", "writepid", "exec", "finish",
             "killing", "killfind", "killclose", "dead"}

Connection == [pid : Pids, name : Names \cup {NoName}, timeout : Nat,
               accessed : Nat, inUse : 0 .. InUseMod - 1, sock : Paths,
               helper : Paths, db : Pids]

EmptyConnection == [pid |-> NoPid, name |-> NoName, timeout |-> 0, accessed |-> 0,
                    inUse |-> 0, sock |-> NoSock, helper |-> NoSock, db |-> NoPid]

Requests == [name : Names \cup {NoName}, timeout : Timeouts \cup {0}, target : Paths]
NoRequest == [name |-> NoName, timeout |-> 0, target |-> NoSock]

\* A connector: whether it runs and its path is bound ("up"), runs with its
\* path unlinked ("hidden") or does not run ("dead"); the name whose
\* parameters it logged in with; the client it has accepted.
Connector == [state : {"up", "hidden", "dead"}, login : Names \cup {NoName},
              client : Pids]
NoConnector == [state |-> "dead", login |-> NoName, client |-> NoPid]
NewConnector == [state |-> "up", login |-> NoName, client |-> NoPid]

Running(c) == c \in Socks /\ conns[c].state # "dead"
Dead(p) == p \in Workers /\ pc[p] = "dead"
InUse(s) == slots[s].pid # NoPid
First(S) == {x \in S : \A y \in S : x <= y}
Last(S) == {x \in S : \A y \in S : y <= x}

Init ==
    /\ slots = [s \in Slots |-> EmptyConnection]
    /\ conns = [c \in Socks |-> NoConnector]
    /\ open = {}
    /\ pc = [w \in Workers |-> "idle"]
    /\ req = [w \in Workers |-> NoRequest]
    /\ slot = [w \in Workers |-> NoSlot]
    /\ copy = [w \in Workers |-> EmptyConnection]
    /\ seen = [w \in Workers |-> 0]
    /\ hpid = [w \in Workers |-> NoSock]
    /\ now = 0 /\ wild = {} /\ faults = 0

Goto(w, l) == pc' = [pc EXCEPT ![w] = l]

\* The worker forgets its request: everything it keeps is on its stack.
Reply(w) ==
    /\ Goto(w, "idle")
    /\ req' = [req EXCEPT ![w] = NoRequest]
    /\ slot' = [slot EXCEPT ![w] = NoSlot]
    /\ copy' = [copy EXCEPT ![w] = EmptyConnection]
    /\ seen' = [seen EXCEPT ![w] = 0]
    /\ hpid' = [hpid EXCEPT ![w] = NoSock]

Fail(kind) == kind \in Faults /\ faults < MaxFaults /\ faults' = faults + 1

-----------------------------------------------------------------------------
(* What the sections do to one slot. *)

EffectiveTimeout(t) == IF t = 0 THEN DefaultTimeout ELSE t

\* zero_connection leaves db, sock_path and helper_pid behind
ZeroThenDecrement(r) == [r EXCEPT !.pid = NoPid, !.name = NoName, !.inUse = -1]  \* mutant
ZeroConnection(r) == [r EXCEPT !.pid = NoPid, !.name = NoName, !.inUse = 0]

\* db_match compares every parameter and the connection name
MatchIdle(r, n) == r.pid # NoPid /\ r.inUse = 0 /\ r.name = n    \* mutant
MatchAny(r, n) == r.pid # NoPid                                \* mutant
Match(r, n) == r.pid # NoPid /\ r.name = n

\* What find_connection and the end of run_query do to the use count
AcquireUncounted(r) == [r EXCEPT !.accessed = now]             \* mutant
Acquire(r) == [r EXCEPT !.accessed = now, !.inUse = (@ + 1) % InUseMod]
Release(r) == [r EXCEPT !.accessed = now, !.inUse = (@ + InUseMod - 1) % InUseMod]

PopulateConnection(w, db, sock) ==
    [pid |-> w, name |-> req[w].name, timeout |-> EffectiveTimeout(req[w].timeout),
     accessed |-> now, inUse |-> 1, sock |-> sock, helper |-> NoSock, db |-> db]

\* The slot of a worker that died in a request without a name
OrphanedAlive(r) == r.pid # NoPid /\ r.name = NoName           \* mutant
Orphaned(r) == r.pid # NoPid /\ r.name = NoName /\ Dead(r.pid)

\* close_connections closes a slot when the hard timeout passed, or when it is
\* not in use and its own timeout passed
ExpiredInUse(r, t) == r.pid # NoPid /\ r.accessed + r.timeout < t    \* mutant
Expired(r, t) ==
    /\ r.pid # NoPid
    /\ \/ r.accessed + HardTimeout < t
       \/ r.inUse = 0 /\ r.accessed + r.timeout < t

SweepConnection(r, t) ==
    IF Orphaned(r) \/ Expired(r, t) THEN ZeroConnection(r) ELSE r

\* api->close(db): a handle is a pointer into the memory of the process that
\* opened it.  Closing one's own open handle is the only defined use.
CloseHandles(w, dbs) ==
    /\ open' = open \ (dbs \cap {w})
    /\ wild' = IF dbs \ ({w} \cap open) \subseteq {NoPid} THEN wild ELSE wild \cup {w}

-----------------------------------------------------------------------------
(* The steps of a request. *)

\* A request arrives with all its required parameters.
Request(w) ==
    /\ pc[w] = "idle"
    /\ \E n \in Asked, t \in Timeouts :
          /\ req' = [req EXCEPT ![w] = [NoRequest EXCEPT !.name = n, !.timeout = t]]
          /\ Goto(w, IF n = NoName THEN "open" ELSE "find")
    /\ UNCHANGED <<slots, conns, open, slot, copy, seen, hpid, now, wild, faults>>

\* alloc_connection connects to the database before it takes the lock; the
\* driver may return no handle.
OpenConnection(w) ==
    /\ pc[w] = "open"
    /\ open' \in {open, open \cup {w}}
    /\ Goto(w, "alloc")
    /\ UNCHANGED <<slots, conns, locals, now, wild, faults>>

FindConnection(w) ==
    LET match == {s \in Slots : Match(slots[s], req[w].name)}
    IN /\ pc[w] = "find"
       /\ \/ /\ match = {}
             /\ Goto(w, "alloc")
             /\ UNCHANGED <<slots, slot, seen>>
          \/ /\ \E s \in First(match) :
                   /\ slots' = [slots EXCEPT ![s] = Acquire(@)]
                   /\ slot' = [slot EXCEPT ![w] = s]
             /\ seen' = [seen EXCEPT ![w] = now]
             /\ Goto(w, "sweep")
       /\ UNCHANGED <<conns, open, req, copy, hpid, now, wild, faults>>

\* tmpnam, for slot s: a path that no other slot, no request and no running
\* connector uses.  (A process id may come back: helper fields do not count.)
Fresh(s) == {c \in Socks : /\ ~ Running(c)
                           /\ \A t \in Slots \ {s} : c # slots[t].sock
                           /\ \A w \in Workers : c \notin {copy[w].sock, req[w].target}}

FreeSlots == {s \in Slots : ~ InUse(s)}

\* A named request launches its connector under the lock; when the launch fails
\* nobody listens on the path.
AllocIn(w, s) ==
    /\ slot' = [slot EXCEPT ![w] = s]
    /\ \/ /\ req[w].name = NoName
          /\ LET db == IF w \in open THEN w ELSE NoPid
             IN slots' = [slots EXCEPT ![s] = PopulateConnection(w, db, NoSock)]
          /\ UNCHANGED <<conns, faults>>
       \/ /\ req[w].name # NoName
          /\ \E c \in Fresh(s) :
                /\ slots' = [slots EXCEPT ![s] = PopulateConnection(w, NoPid, c)]
                /\ \/ conns' = [conns EXCEPT ![c] = NewConnector] /\ UNCHANGED faults
                   \/ Fail("launch") /\ UNCHANGED conns

\* The first free slot takes the request.
AllocConnection(w) ==
    /\ pc[w] = "alloc"
    /\ \E s \in First(FreeSlots) : AllocIn(w, s)
    /\ seen' = [seen EXCEPT ![w] = now]
    /\ Goto(w, "sweep")
    /\ UNCHANGED <<open, req, copy, hpid, now, wild>>

PoolExhaustedLeak(w) ==                                        \* mutant
    /\ pc[w] = "alloc"
    /\ FreeSlots = {}
    /\ seen' = [seen EXCEPT ![w] = now]
    /\ Goto(w, "sweep")
    /\ UNCHANGED <<slots, conns, open, req, slot, copy, hpid, now, wild, faults>>

\* "No free connections available!"
PoolExhausted(w) ==
    /\ pc[w] = "alloc"
    /\ FreeSlots = {}
    /\ open' = open \ {w}
    /\ seen' = [seen EXCEPT ![w] = now]
    /\ Goto(w, "sweep")
    /\ UNCHANGED <<slots, conns, req, slot, copy, hpid, now, wild, faults>>

CloseConnectionsUntested(w) ==                                 \* mutant
    /\ pc[w] = "sweep"
    /\ Goto(w, "copy")
    /\ seen' = [seen EXCEPT ![w] = 0]
    /\ UNCHANGED <<slots, conns, open, req, slot, copy, hpid, now, wild, faults>>

\* The sweep after every find or alloc.  time(NULL) is read before the lock is
\* taken: by then it may be old.
CloseConnections(w) ==
    /\ pc[w] = "sweep"
    /\ \E t \in seen[w] .. now :
          /\ slots' = [s \in Slots |-> SweepConnection(slots[s], t)]
          /\ CloseHandles(w, {slots[s].db : s \in {x \in Slots :
                                 ~ Orphaned(slots[x]) /\ Expired(slots[x], t)}})
    /\ IF slot[w] = NoSlot
       THEN Reply(w)
       ELSE /\ Goto(w, "copy")
            /\ seen' = [seen EXCEPT ![w] = 0]
            /\ UNCHANGED <<req, slot, copy, hpid>>
    /\ UNCHANGED <<conns, now, faults>>

CopyConnection(w) ==
    /\ pc[w] = "copy"
    /\ copy' = [copy EXCEPT ![w] = slots[slot[w]]]
    /\ Goto(w, IF req[w].name = NoName THEN "exec" ELSE "connect")
    /\ UNCHANGED <<slots, conns, open, req, slot, seen, hpid, now, wild, faults>>

Connect(w) ==
    /\ pc[w] = "connect"
    /\ Running(copy[w].sock) /\ conns[copy[w].sock].state = "up"
    /\ Goto(w, "helo")
    /\ UNCHANGED <<slots, conns, open, locals, now, wild, faults>>

\* The path refuses: nobody listens, or the backlog of a live connector is
\* full.  cleanup_connector terminates the helper the copy names and unlinks
\* the path.
ConnectFails(w) ==
    LET c == copy[w].sock
        h == copy[w].helper
        up == c \in Socks /\ conns[c].state = "up"
    IN /\ pc[w] = "connect"
       /\ IF up THEN Fail("busy") ELSE UNCHANGED faults
       /\ conns' = [x \in Socks |->
                      IF x = h THEN NoConnector
                      ELSE IF x = c /\ up THEN [conns[x] EXCEPT !.state = "hidden"]
                      ELSE conns[x]]
       /\ Goto(w, "clear")
       /\ UNCHANGED <<slots, open, locals, now, wild>>

ClearSlotKeepsPid(w) ==                                        \* mutant
    /\ pc[w] = "clear"
    /\ slot' = [slot EXCEPT ![w] = NoSlot]
    /\ copy' = [copy EXCEPT ![w] = EmptyConnection]
    /\ Goto(w, "find")
    /\ UNCHANGED <<slots, conns, open, req, seen, hpid, now, wild, faults>>

\* "if connect fails, remove connector from list", then try again
ClearSlot(w) ==
    /\ pc[w] = "clear"
    /\ slots' = [slots EXCEPT ![slot[w]].pid = NoPid]
    /\ slot' = [slot EXCEPT ![w] = NoSlot]
    /\ copy' = [copy EXCEPT ![w] = EmptyConnection]
    /\ Goto(w, "find")
    /\ UNCHANGED <<conns, open, req, seen, hpid, now, wild, faults>>

\* The connector accepts one client at a time and answers HELO with its pid.
Helo(w) ==
    LET c == copy[w].sock
    IN /\ pc[w] = "helo"
       /\ Running(c) /\ conns[c].client = NoPid
       /\ conns' = [conns EXCEPT ![c].client = w]
       /\ hpid' = [hpid EXCEPT ![w] = c]
       /\ Goto(w, "writepid")
       /\ UNCHANGED <<slots, open, req, slot, copy, seen, now, wild, faults>>

\* The connector went away: "Couldn't initialize connector".  This return path
\* does not give the slot back.
HeloFails(w) ==
    /\ pc[w] = "helo"
    /\ ~ Running(copy[w].sock)
    /\ Reply(w)
    /\ UNCHANGED <<slots, conns, open, now, wild, faults>>

\* ... unless the buffer that was never written still holds the ":PID" line of
\* an earlier request on the same stack.
HeloGarbage(w) ==
    /\ pc[w] = "helo"
    /\ ~ Running(copy[w].sock)
    /\ "garbage" \in Faults
    /\ \E c \in Socks : hpid' = [hpid EXCEPT ![w] = c]
    /\ Goto(w, "writepid")
    /\ UNCHANGED <<slots, conns, open, req, slot, copy, seen, now, wild, faults>>

WriteHelperPid(w) ==
    /\ pc[w] = "writepid"
    /\ slots' = [slots EXCEPT ![slot[w]].helper = hpid[w]]
    /\ Goto(w, "exec")
    /\ UNCHANGED <<conns, open, locals, now, wild, faults>>

\* A named query: the connector logs in with the parameters of its first
\* client and keeps that login; QUIT ends the session.  When the connector is
\* gone the worker gets an error instead.
RunNamed(w) ==
    LET c == copy[w].sock
    IN /\ pc[w] = "exec" /\ req[w].name # NoName
       /\ conns' = IF Running(c) /\ conns[c].client = w
                   THEN [conns EXCEPT ![c].client = NoPid,
                                      ![c].login = IF @ = NoName THEN req[w].name ELSE @]
                   ELSE conns
       /\ Goto(w, "finish")
       /\ UNCHANGED <<slots, open, locals, now, wild, faults>>

\* A query on the handle in the private copy of the slot.
RunUnnamed(w) ==
    /\ pc[w] = "exec" /\ req[w].name = NoName
    /\ wild' = IF copy[w].db \in {NoPid} \cup ({w} \cap open)
               THEN wild ELSE wild \cup {w}
    /\ Goto(w, "finish")
    /\ UNCHANGED <<slots, conns, open, locals, now, faults>>

\* The last section of run_query: free_connection on the slot with the index
\* the request was given, whoever has the slot now.
FreeConnection(w) ==
    LET r == Release(slots[slot[w]])
    IN /\ pc[w] = "finish"
       /\ slots' = [slots EXCEPT ![slot[w]] = IF r.name = NoName
                                              THEN ZeroConnection(r) ELSE r]
       /\ CloseHandles(w, IF r.name = NoName THEN {r.db} ELSE {})
       /\ Reply(w)
       /\ UNCHANGED <<conns, now, faults>>

-----------------------------------------------------------------------------
(* dbrelay_admin_kill, run by a worker for an operator. *)

KillRequest(w) ==
    /\ pc[w] = "idle"
    /\ Fail("kill")
    /\ \E c \in Socks :
          /\ conns[c].state = "up"
          /\ req' = [req EXCEPT ![w] = [NoRequest EXCEPT !.target = c]]
    /\ Goto(w, "killing")
    /\ UNCHANGED <<slots, conns, open, slot, copy, seen, hpid, now, wild>>

\* conn_kill: DIE is served when the connector has no other client
KillConnector(w) ==
    LET c == req[w].target
    IN /\ pc[w] = "killing"
       /\ conns[c].client = NoPid
       /\ conns' = [conns EXCEPT ![c] = NoConnector]
       /\ Goto(w, "killfind")
       /\ UNCHANGED <<slots, open, locals, now, wild, faults>>

\* the last slot with that path; kill(pid, 0) fails for a process that is
\* gone, so the SIGTERM that follows reaches nobody
KillFind(w) ==
    LET match == {s \in Slots : InUse(s) /\ slots[s].sock = req[w].target}
    IN /\ pc[w] = "killfind"
       /\ \/ match = {} /\ Reply(w)
          \/ /\ \E s \in Last(match) : slot' = [slot EXCEPT ![w] = s]
             /\ Goto(w, "killclose")
             /\ UNCHANGED <<req, copy, seen, hpid>>
       /\ UNCHANGED <<slots, conns, open, now, wild, faults>>

\* a second section closes the slot with the index found in the first
KillClose(w) ==
    /\ pc[w] = "killclose"
    /\ slots' = [slots EXCEPT ![slot[w]] = ZeroConnection(@)]
    /\ CloseHandles(w, {slots[slot[w]].db})
    /\ Reply(w)
    /\ UNCHANGED <<conns, now, faults>>

-----------------------------------------------------------------------------
(* The environment. *)

Tick ==
    /\ now < MaxTime
    /\ now' = now + 1
    /\ UNCHANGED <<slots, conns, open, pc, locals, wild, faults>>

\* A connector that nothing refers to leaves on its idle timer.  Any other may
\* do so too ("exit"), at any moment: HELO does not reset the timer.
Referenced(c) ==
    \/ \E s \in Slots : slots[s].sock = c
    \/ \E w \in Workers : c \in {copy[w].sock, req[w].target}

ConnectorExit(c) ==
    /\ Running(c)
    /\ \/ ~ Referenced(c) /\ UNCHANGED faults
       \/ Fail("exit")
    /\ conns' = [conns EXCEPT ![c] = NoConnector]
    /\ UNCHANGED <<slots, open, pc, locals, now, wild>>

\* A worker dies between two sections; its sockets close, its handle is gone.
Crash(w) ==
    /\ pc[w] # "dead"
    /\ Fail("crash")
    /\ Goto(w, "dead")
    /\ open' = open \ {w}
    /\ conns' = [c \in Socks |-> IF conns[c].client = w
                                 THEN [conns[c] EXCEPT !.client = NoPid] ELSE conns[c]]
    /\ UNCHANGED <<slots, locals, now, wild>>

WorkerStep(w) ==
    \/ OpenConnection(w) \/ FindConnection(w) \/ AllocConnection(w)
    \/ PoolExhausted(w) \/ CloseConnections(w) \/ CopyConnection(w)
    \/ Connect(w) \/ ConnectFails(w) \/ ClearSlot(w)
    \/ Helo(w) \/ HeloFails(w) \/ HeloGarbage(w) \/ WriteHelperPid(w)
    \/ RunNamed(w) \/ RunUnnamed(w) \/ FreeConnection(w)
    \/ KillConnector(w) \/ KillFind(w) \/ KillClose(w)

Next ==
    \/ \E w \in Workers : WorkerStep(w) \/ Request(w) \/ KillRequest(w) \/ Crash(w)
    \/ \E c \in Socks : ConnectorExit(c)
    \/ Tick

Spec == Init /\ [][Next]_vars

\* A worker that has something to do does it; the backlog of a socket is served
\* in order, so a client that waits for a connector is accepted in the end.
Fairness ==
    /\ \A w \in Workers : /\ WF_vars(WorkerStep(w))
                          /\ SF_vars(Helo(w))
                          /\ SF_vars(KillConnector(w))
    /\ \A c \in Socks : WF_vars(ConnectorExit(c))

FairSpec == Spec /\ Fairness

-----------------------------------------------------------------------------
\* What a slot of the table and a worker's locals can hold.
Typed ==
    /\ slots \in [Slots -> Connection]
    /\ conns \in [Socks -> Connector]
    /\ open \subseteq Workers
    /\ pc \in [Workers -> PcValues]
    /\ req \in [Workers -> Requests]
    /\ slot \in [Workers -> Slots \cup {NoSlot}]
    /\ copy \in [Workers -> Connection]
    /\ seen \in [Workers -> Nat]
    /\ hpid \in [Workers -> Paths]
    /\ now \in Nat /\ wild \subseteq Workers /\ faults \in Nat

\* Where the code indexes the table with the slot of the request.
AtSlot == {"copy", "connect", "clear", "helo", "writepid", "exec", "finish", "killclose"}
HasSlot == \A w \in Workers : pc[w] \in AtSlot => slot[w] \in Slots

\* The table and the locals of the workers keep their types, and a worker past
\* alloc has a slot: the -1 of a full table is never used as an index (db.c 164 to
\* 197).
TypeOK == Typed /\ HasSlot

-----------------------------------------------------------------------------
(* Properties. *)

\* Workers between find or alloc and the end of the request: they go on using
\* the index they were given.
Holding(w, s) == slot[w] = s /\ pc[w] # "killclose"

NamedHolders(s) == {w \in Workers : Holding(w, s) /\ req[w].name # NoName}

\* The use count is exact: in_use of a named slot is the number of requests
\* that hold it, those included whose worker died before it could give the
\* slot back (find_connection and populate_connection count up,
\* free_connection down, in sections that are far apart).
InUseExact ==
    \A s \in Slots : InUse(s) /\ slots[s].name # NoName =>
        slots[s].inUse = Cardinality(NamedHolders(s)) % InUseMod

\* From find or alloc to free_connection the index denotes the slot the request
\* was given: no sweep of another worker and no other request takes it away,
\* and a slot without a name stays private to its opener.
SlotKept ==
    \A w \in Workers, s \in Slots : Holding(w, s) /\ ~ Dead(w) =>
        /\ InUse(s) /\ slots[s].name = req[w].name
        /\ req[w].name = NoName => slots[s].pid = w

\* No process hands the driver a database handle that another process opened,
\* or one that is closed already (conn->db lies in shared memory).
HandlesPrivate == wild = {}

\* A handle does not outlive its request: an idle worker has none open.
HandlesClosed == \A w \in Workers : pc[w] = "idle" => w \notin open

\* A query runs on a connector that logged in with the parameters of the
\* request, not with those of another connection name.
SameLogin ==
    \A w \in Workers : \A c \in Socks :
        conns[c].client = w => conns[c].login \in {NoName, req[w].name}

\* find and alloc are two sections, so two workers may both miss and both
\* allocate.  Still, whatever fails, there are never more slots for one
\* connection than there are workers.
DuplicatesBounded ==
    \A n \in Names : Cardinality({s \in Slots : InUse(s) /\ slots[s].name = n})
                       <= Cardinality(Workers)

\* ... because one worker never has two of them.
OneSlotPerCreator ==
    \A s, t \in Slots :
        (/\ InUse(s) /\ slots[s].name # NoName
         /\ slots[t].name = slots[s].name /\ slots[t].pid = slots[s].pid) => s = t

\* Every request is answered, or its worker dies (wait_for_connection retries
\* without a bound).
EveryRequestAnswered ==
    \A w \in Workers : pc[w] # "idle" ~> pc[w] \in {"idle", "dead"}

\* db.c:471 "if connect fails, remove connector from list": the slot that is
\* removed is the one whose connector refused.
RemovesThatConnector ==
    [][\A w \in Workers : ClearSlot(w) => slots[slot[w]].sock = copy[w].sock]_vars
=============================================================================
