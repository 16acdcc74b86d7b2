----------------------------- MODULE MCLifecycle -----------------------------
(***************************************************************************)
(* A server that runs and ends, for TLC.  A behaviour is one of two parts:  *)
(* "table", processes that use the segment until the master removes it      *)
(* (ShmemLock, with the constants of the configuration), or "exit", the     *)
(* master that asks the connectors to leave before it does so (ExitMaster). *)
(* What belongs to the other one stays at rest.                             *)
(***************************************************************************)
EXTENDS ShmemLock

CONSTANTS NSlots, Tools, NoTool

VARIABLES
    part, sock_path, helper_pid, alive, client, running, done,
    lock, at, i, pid, dieing, termed, killed

exitvars == <<sock_path, helper_pid, alive, client, running, done,
              lock, at, i, pid, dieing, termed, killed>>
all == <<part, vars, exitvars>>

X == INSTANCE ExitMaster

ASSUME ExitConstants == X!ExitAssumption

AtRest ==
    /\ sock_path = {} /\ alive = {} /\ helper_pid = [s \in X!Slots |-> 0]

MCInit ==
    /\ part \in {"table", "exit"}
    /\ part = "table" => AtRest
    /\ X!Init
    /\ Init

MCNext ==
    \/ part = "table" /\ Next /\ UNCHANGED <<part, exitvars>>
    \/ part = "exit" /\ X!Next /\ UNCHANGED <<part, vars>>

MCSpec ==
    /\ MCInit /\ [][MCNext]_all
    /\ part = "table" => Fairness
    /\ part = "exit" => X!Fairness

------------------------------------------------------------------------------
(* The properties of ExitMaster; those of the table are ShmemLock's own.      *)

\* Who is killed was asked to leave before, and it is never the master's whole
\* group (ExitMaster; ngx_http_dbrelay_module.c 136 to 153).
AskedFirst == X!AskedFirst

\* Nobody waits for ever: whoever asks for a section gets in or ends, though
\* the semaphore goes (ShmemLock; shmem.c:100), and the master's exit ends
\* (ExitMaster; ngx_http_dbrelay_module.c:139).
NobodyWaits ==
    /\ EverySectionEntered
    /\ part = "exit" => X!ExitEnds
==============================================================================
