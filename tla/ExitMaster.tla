----------------------------- MODULE ExitMaster -----------------------------
(***************************************************************************)
(* The end of the web server's master process                              *)
(* (ngx_http_dbrelay_exit_master, src/src/ngx_http_dbrelay_module.c:124):   *)
(* with the lock of the table held it asks every connector to leave, first *)
(* over its socket and then with a signal, waits, and sends SIGKILL.        *)
(* The workers are gone by then; command line tools may still be in the     *)
(* middle of a request, and they need the lock too (src/src/db.c:581).      *)
(***************************************************************************)
EXTENDS Integers, FiniteSets

CONSTANTS
    NSlots,     \* DBRELAY_MAX_CONN
    Tools,      \* requests of command line tools under way
    NoTool

ExitAssumption == NSlots \in Nat \ {0} /\ NoTool \notin Tools

Slots == 1 .. NSlots
Connectors == 1 .. NSlots    \* the connector of slot s has the pid s

VARIABLES
    sock_path,  \* the slots with a socket path
    helper_pid, \* slot -> pid, 0 for none
    lock,       \* "free", "master", "removed"
    at, i, pid, \* the master: where it is, its loop index and its variable pid
    dieing,     \* the connector whose answer to DIE the master waits for, or 0
    alive,      \* the connectors that run
    termed, killed,     \* those that were sent SIGTERM, SIGKILL
    client,     \* connector -> the tool it serves, or NoTool
    running,    \* the connectors in the middle of a query
    done        \* the tools whose request is over

procs == <<alive, client, running, done>>
table == <<sock_path, helper_pid>>
vars == <<table, procs, lock, at, i, pid, dieing, termed, killed>>

\* A slot in use has a path.  Its helper_pid is set once a first client has
\* said HELO and written it down; a freed slot keeps both.
Init ==
    /\ sock_path \in SUBSET Slots
    /\ alive \in SUBSET sock_path
    /\ helper_pid \in [Slots -> Connectors \cup {0}]
    /\ \A s \in Slots : helper_pid[s] \in {0, s} /\ (helper_pid[s] = s => s \in sock_path)
    /\ lock = "free" /\ at = "start" /\ i = 1 /\ pid = 0 /\ dieing = 0
    /\ termed = {} /\ killed = {}
    /\ client = [c \in Connectors |-> NoTool] /\ running = {} /\ done = {}

-----------------------------------------------------------------------------
(* Tools and connectors. *)

\* connector.c:177 accept.  The tool found the slot before.
Serve(t, c) ==
    /\ t \notin done /\ \A d \in Connectors : client[d] # t
    /\ c \in alive /\ client[c] = NoTool /\ dieing # c
    /\ client' = [client EXCEPT ![c] = t]
    /\ UNCHANGED <<table, lock, at, i, pid, dieing, termed, killed, alive, running, done>>

\* db.c:581 to 587: a section of its own, for which the tool waits.
WriteHelperPid(c) ==
    /\ client[c] # NoTool /\ c \notin running
    /\ lock = "free"
    /\ helper_pid' = [helper_pid EXCEPT ![c] = c]
    /\ running' = running \cup {c}
    /\ UNCHANGED <<sock_path, lock, at, i, pid, dieing, termed, killed, alive, client, done>>

LeaveAlways(c) ==                                                       \* mutant
    /\ c \notin alive
    /\ done' = done \cup {client[c]}
    /\ client' = [client EXCEPT ![c] = NoTool]
    /\ running' = running \ {c}
    /\ UNCHANGED <<table, lock, at, i, pid, dieing, termed, killed, alive>>

\* The tool's request is over: its query has run, or the connector is gone, or
\* the table is and the tool ends at its NULL pointer.
Leave(c) ==
    /\ client[c] # NoTool
    /\ c \in running \/ c \notin alive \/ lock = "removed"
    /\ done' = done \cup {client[c]}
    /\ client' = [client EXCEPT ![c] = NoTool]
    /\ running' = running \ {c}
    /\ UNCHANGED <<table, lock, at, i, pid, dieing, termed, killed, alive>>

\* The idle alarm, which is moved out of the way only while a query runs.
AlarmIfAlone(c) ==                                                      \* mutant
    /\ c \in alive /\ client[c] = NoTool
    /\ alive' = alive \ {c}
    /\ UNCHANGED <<table, lock, at, i, pid, dieing, termed, killed, client, running, done>>
Alarm(c) ==
    /\ c \in alive /\ c \notin running
    /\ alive' = alive \ {c}
    /\ UNCHANGED <<table, lock, at, i, pid, dieing, termed, killed, client, running, done>>

\* A signal takes effect; SIGTERM has its default action in a connector.
DieBySignal(c) ==
    /\ c \in alive /\ c \in termed \cup killed
    /\ alive' = alive \ {c}
    /\ UNCHANGED <<table, lock, at, i, pid, dieing, termed, killed, client, running, done>>

\* connector.c:240 to 246: the answer to DIE, when the client before is done.
Die(c) ==
    /\ c \in alive /\ dieing = c /\ client[c] = NoTool
    /\ alive' = alive \ {c}
    /\ UNCHANGED <<table, lock, at, i, pid, dieing, termed, killed, client, running, done>>

-----------------------------------------------------------------------------
(* The master. *)

GetShmem ==
    /\ at = "start" /\ lock = "free"
    /\ lock' = "master" /\ at' = "connect"
    /\ UNCHANGED <<table, procs, i, pid, dieing, termed, killed>>

\* The connection is made as soon as it is in the backlog of the connector; it
\* fails when the backlog of one that is busy is full or its path was unlinked
\* (db.c:492).
Connect ==
    /\ at = "connect" /\ i \in Slots
    /\ at' = "wait"
    /\ \/ i \in sock_path /\ i \in alive /\ dieing' = i
       \/ (i \in sock_path /\ i \in alive => client[i] # NoTool) /\ dieing' = 0
    /\ UNCHANGED <<table, procs, lock, i, pid, termed, killed>>

\* conn_kill reads a line, without a limit: BYE or the end of the stream.
\* Then kill(pid, 0) and SIGTERM.
Signal ==
    /\ at = "wait" /\ dieing \notin alive
    /\ dieing' = 0
    /\ pid' = IF helper_pid[i] # 0 THEN helper_pid[i] ELSE pid
    /\ termed' = IF helper_pid[i] \in alive THEN termed \cup {helper_pid[i]} ELSE termed
    /\ at' = "connect" /\ i' = i + 1
    /\ UNCHANGED <<table, procs, lock, killed>>

\* usleep(500000): nothing else has to have happened when it is over.
SleepUnlocked ==                                                        \* mutant
    /\ at = "connect" /\ i > NSlots
    /\ at' = "kill" /\ i' = 1 /\ lock' = "free"
    /\ UNCHANGED <<table, procs, pid, dieing, termed, killed>>
Sleep ==
    /\ at = "connect" /\ i > NSlots
    /\ at' = "kill" /\ i' = 1
    /\ UNCHANGED <<table, procs, lock, pid, dieing, termed, killed>>

\* The second loop signals `pid', what the first loop left in it.
Kill ==
    /\ at = "kill" /\ i \in Slots
    /\ killed' = IF helper_pid[i] # 0 /\ pid \in alive \cup {0} THEN killed \cup {pid} ELSE killed
    /\ i' = i + 1
    /\ UNCHANGED <<table, procs, lock, at, pid, dieing, termed>>

\* release_shmem, destroy_shmem (their steps are those of ShmemLock).
Release ==
    /\ at = "kill" /\ i > NSlots
    /\ lock' = "removed" /\ at' = "end"
    /\ UNCHANGED <<table, procs, i, pid, dieing, termed, killed>>

MasterStep == GetShmem \/ Connect \/ Signal \/ Sleep \/ Kill \/ Release

Process(c) == WriteHelperPid(c) \/ Leave(c) \/ DieBySignal(c) \/ Die(c)

Next ==
    \/ MasterStep
    \/ \E c \in Connectors : Process(c) \/ Alarm(c) \/ \E t \in Tools : Serve(t, c)

\* Queries end, signals arrive, alarms go off; a process that waits for the
\* lock over and over gets it (a semaphore serves in order).
Fairness ==
    /\ WF_vars(MasterStep) /\ SF_vars(GetShmem)
    /\ \A c \in Connectors : WF_vars(Process(c)) /\ WF_vars(Alarm(c))

Spec == Init /\ [][Next]_vars /\ Fairness

-----------------------------------------------------------------------------
\* What the table, the processes and the master's locals can hold
\* (ngx_http_dbrelay_module.c 124 to 156; connector.c 240 to 246).
TypeOK ==
    /\ sock_path \subseteq Slots /\ helper_pid \in [Slots -> Connectors \cup {0}]
    /\ lock \in {"free", "master", "removed"}
    /\ at \in {"start", "connect", "wait", "kill", "end"}
    /\ i \in 1 .. NSlots + 1 /\ pid \in Connectors \cup {0} /\ dieing \in Connectors \cup {0}
    /\ alive \subseteq Connectors /\ termed \subseteq Connectors /\ killed \subseteq Connectors \cup {0}
    /\ client \in [Connectors -> Tools \cup {NoTool}] /\ running \subseteq Connectors
    /\ done \subseteq Tools

\* A connector that is killed was asked to leave before, and kill is never
\* called with 0, which would signal every process of the master's group: a slot
\* with a helper in the second loop had it in the first, for nobody else writes to
\* the table between (ngx_http_dbrelay_module.c:136 to 153).
AskedFirst == killed \subseteq termed

\* The master ends although it waits, with the lock, for connectors whose
\* clients wait for that lock (client.c:63 against db.c:581).
ExitEnds == <>(at = "end")

\* ngx_http_dbrelay_module.c:147 "give graceful kills some time to work": who
\* has not left by then, though its pid is in the table, is killed.
SlowOnesKilled ==
    [][\A s \in Slots : Kill /\ i = s /\ helper_pid[s] \in alive
                            => helper_pid[s] \in killed']_vars
=============================================================================
