------------------------------ MODULE ShmemLock ------------------------------
(***************************************************************************)
(* The shared memory segment of the connection table and the System V      *)
(* semaphore that guards it (src/src/shmem.c), with the processes that use *)
(* them: workers of the web server and command line tools, which take      *)
(* sections (get_shmem ... release_shmem); tools that start, which create  *)
(* both when the segment is missing (main.c); the master of the web server *)
(* that removes both when it exits.                                        *)
(*                                                                         *)
(* Each system call is a step.  The semaphore operations carry SEM_UNDO:   *)
(* the kernel keeps an adjustment per process and adds it to the semaphore *)
(* when the process ends, however it ends.                                 *)
(***************************************************************************)
EXTENDS Integers, FiniteSets

CONSTANTS
    Procs,      \* the processes
    Starters,   \* those that begin as a command line tool does
    Master,     \* the master process, if it is to exit in this instance
    Cold,       \* TRUE: nothing has been created yet
    Mortal,     \* the processes that may end at any moment, crashed or not
    Signalled,  \* those that a signal may reach while they wait in semop
    MaxInterrupts,  \* bound on how often one does
    MaxIds      \* bound on the ids the kernel hands out

ASSUME ShmemAssumption ==
    /\ IsFiniteSet(Procs)
    /\ Starters \subseteq Procs /\ Master \notin Starters /\ Mortal \subseteq Procs
    /\ Signalled \subseteq Procs /\ MaxInterrupts \in Nat
    /\ Cold \in BOOLEAN /\ MaxIds \in Nat \ {0}

VARIABLES
    seg,    \* id of the segment under the key, 0 when there is none
    sem,    \* the semaphore under the key: its id (0: none) and value
    ids,    \* ids handed out so far
    adj,    \* the kernel's SEM_UNDO adjustment of each process
    semid,  \* the semaphore id a process looked up
    starting,   \* tools in their first section, which looks for the segment
    interrupts, \* how often a process has gone on without the lock since a signal
                \* ended its wait
    pc      \* where a process is

vars == <<seg, sem, ids, adj, semid, starting, interrupts, pc>>

PcValues == {"out", "semop", "shmget", "in", "unlock", "create", "semget", "setval",
             "rmseg", "rmsem", "gone"}

NoSem == [id |-> 0, val |-> 0]

Init ==
    /\ seg = IF Cold THEN 0 ELSE 1
    /\ sem = IF Cold THEN NoSem ELSE [id |-> 1, val |-> 1]
    /\ ids = 1
    /\ adj = [p \in Procs |-> 0]
    /\ semid = [p \in Procs |-> 0]
    /\ starting = Starters /\ interrupts = 0
    /\ pc = [p \in Procs |-> "out"]

Goto(p, l) == pc' = [pc EXCEPT ![p] = l]
At(p, l) == pc[p] = l

\* The process ends: the kernel applies its adjustment (never below zero).
Undo(p) ==
    /\ LET v == sem.val + adj[p] IN sem' = [sem EXCEPT !.val = IF v < 0 THEN 0 ELSE v]
    /\ adj' = [adj EXCEPT ![p] = 0]

-----------------------------------------------------------------------------
(* get_shmem and release_shmem *)

\* semget; without a semaphore lock_shmem returns, and the section goes on
Lookup(p) ==
    /\ At(p, "out")
    /\ \/ sem.id = 0 /\ Goto(p, "shmget") /\ UNCHANGED semid
       \/ sem.id # 0 /\ Goto(p, "semop") /\ semid' = [semid EXCEPT ![p] = sem.id]
    /\ UNCHANGED <<seg, sem, ids, adj, starting, interrupts>>

\* semop -1 blocks while the value is 0
LockNoUndo(p) ==                                               \* mutant
    /\ At(p, "semop")
    /\ semid[p] = sem.id /\ sem.val > 0
    /\ sem' = [sem EXCEPT !.val = @ - 1]
    /\ Goto(p, "shmget")
    /\ UNCHANGED <<seg, ids, adj, semid, starting, interrupts>>
LockNoWait(p) ==                                               \* mutant
    /\ At(p, "semop")
    /\ semid[p] = sem.id
    /\ sem' = [sem EXCEPT !.val = @ - 1]
    /\ adj' = [adj EXCEPT ![p] = @ + 1]
    /\ Goto(p, "shmget")
    /\ UNCHANGED <<seg, ids, semid, starting, interrupts>>
Lock(p) ==
    /\ At(p, "semop")
    /\ semid[p] = sem.id /\ sem.val > 0
    /\ sem' = [sem EXCEPT !.val = @ - 1]
    /\ adj' = [adj EXCEPT ![p] = @ + 1]
    /\ Goto(p, "shmget")
    /\ UNCHANGED <<seg, ids, semid, starting, interrupts>>

\* ... and fails when the semaphore was removed; the code tests the result
\* against 1, never sees the failure and goes on
LockRetries(p) ==                                              \* mutant
    /\ At(p, "semop")
    /\ semid[p] # sem.id
    /\ UNCHANGED vars
LockFails(p) ==
    /\ At(p, "semop")
    /\ semid[p] # sem.id
    /\ Goto(p, "shmget")
    /\ UNCHANGED <<seg, sem, ids, adj, semid, starting, interrupts>>

\* ... or when a signal reaches the process while it waits (EINTR: semop is never
\* restarted), which is not seen either
LockInterrupted(p) ==
    /\ At(p, "semop")
    /\ p \in Signalled /\ interrupts < MaxInterrupts
    /\ semid[p] = sem.id /\ sem.val = 0
    /\ interrupts' = interrupts + 1
    /\ Goto(p, "shmget")
    /\ UNCHANGED <<seg, sem, ids, adj, semid, starting>>

Attach(p) ==
    /\ At(p, "shmget")
    /\ seg # 0
    /\ Goto(p, "in")
    /\ UNCHANGED <<seg, sem, ids, adj, semid, starting, interrupts>>

\* get_shmem returns NULL and keeps the lock: a starting tool creates the
\* segment, the master returns, any other process uses the pointer and dies
AttachFails(p) ==
    /\ At(p, "shmget")
    /\ seg = 0
    /\ \/ p \in starting /\ Goto(p, "create") /\ UNCHANGED <<sem, adj>>
       \/ p \notin starting /\ Goto(p, "gone") /\ Undo(p)
    /\ UNCHANGED <<seg, ids, semid, starting, interrupts>>

Detach(p) ==
    /\ At(p, "in")
    /\ Goto(p, "unlock")
    /\ UNCHANGED <<seg, sem, ids, adj, semid, starting, interrupts>>

\* unlock_shmem looks the semaphore up again; the master goes on to remove
UnlockNoUndo(p) ==                                             \* mutant
    /\ At(p, "unlock")
    /\ \/ sem.id = 0 /\ UNCHANGED sem
       \/ sem.id # 0 /\ sem' = [sem EXCEPT !.val = @ + 1]
    /\ starting' = starting \ {p}
    /\ Goto(p, IF p = Master THEN "rmseg" ELSE "out")
    /\ UNCHANGED <<seg, ids, adj, semid, interrupts>>
Unlock(p) ==
    /\ At(p, "unlock")
    /\ \/ sem.id = 0 /\ UNCHANGED <<sem, adj>>
       \/ /\ sem.id # 0
          /\ sem' = [sem EXCEPT !.val = @ + 1]
          /\ adj' = [adj EXCEPT ![p] = @ - 1]
    /\ starting' = starting \ {p}
    /\ Goto(p, IF p = Master THEN "rmseg" ELSE "out")
    /\ UNCHANGED <<seg, ids, semid, interrupts>>

-----------------------------------------------------------------------------
(* create_shmem and destroy_shmem *)

\* shmget(IPC_CREAT), memset of the whole table
CreateSegment(p) ==
    /\ At(p, "create")
    /\ \/ seg # 0 /\ UNCHANGED <<seg, ids>>
       \/ seg = 0 /\ ids < MaxIds /\ ids' = ids + 1 /\ seg' = ids'
    /\ Goto(p, "semget")
    /\ UNCHANGED <<sem, adj, semid, starting, interrupts>>

\* semget(IPC_CREAT): a new semaphore has the value 0
CreateSemaphore(p) ==
    /\ At(p, "semget")
    /\ \/ sem.id # 0 /\ UNCHANGED <<sem, ids>>
       \/ sem.id = 0 /\ ids < MaxIds /\ ids' = ids + 1 /\ sem' = [id |-> ids', val |-> 0]
    /\ semid' = [semid EXCEPT ![p] = sem'.id]
    /\ Goto(p, "setval")
    /\ UNCHANGED <<seg, adj, starting, interrupts>>

\* SETVAL 1 also clears the adjustments of every process
SetValueZero(p) ==                                             \* mutant
    /\ At(p, "setval")
    /\ \/ semid[p] # sem.id /\ UNCHANGED <<sem, adj>>
       \/ /\ semid[p] = sem.id
          /\ sem' = [sem EXCEPT !.val = 0]
          /\ adj' = [q \in Procs |-> 0]
    /\ starting' = starting \ {p}
    /\ Goto(p, "out")
    /\ UNCHANGED <<seg, ids, semid, interrupts>>
SetValue(p) ==
    /\ At(p, "setval")
    /\ \/ semid[p] # sem.id /\ UNCHANGED <<sem, adj>>
       \/ /\ semid[p] = sem.id
          /\ sem' = [sem EXCEPT !.val = 1]
          /\ adj' = [q \in Procs |-> 0]
    /\ starting' = starting \ {p}
    /\ Goto(p, "out")
    /\ UNCHANGED <<seg, ids, semid, interrupts>>

RemoveSegmentLast(p) ==                                        \* mutant
    /\ At(p, "rmseg")
    /\ sem' = NoSem
    /\ adj' = [q \in Procs |-> 0]
    /\ Goto(p, "rmsem")
    /\ UNCHANGED <<seg, ids, semid, starting, interrupts>>
RemoveSegment(p) ==
    /\ At(p, "rmseg")
    /\ seg' = 0
    /\ Goto(p, "rmsem")
    /\ UNCHANGED <<sem, ids, adj, semid, starting, interrupts>>

RemoveSemaphore(p) ==
    /\ At(p, "rmsem")
    /\ sem' = NoSem
    /\ adj' = [q \in Procs |-> 0]
    /\ Goto(p, "gone")
    /\ UNCHANGED <<seg, ids, semid, starting, interrupts>>

\* A process may end anywhere, in a section as well as between two.
End(p) ==
    /\ p \in Mortal /\ ~ At(p, "gone")
    /\ Undo(p)
    /\ Goto(p, "gone")
    /\ UNCHANGED <<seg, ids, semid, starting, interrupts>>

Step(p) ==
    \/ Lock(p) \/ LockFails(p) \/ Attach(p) \/ AttachFails(p) \/ Detach(p) \/ Unlock(p)
    \/ CreateSegment(p) \/ CreateSemaphore(p) \/ SetValue(p)
    \/ RemoveSegment(p) \/ RemoveSemaphore(p)

Next == \E p \in Procs : Lookup(p) \/ Step(p) \/ LockInterrupted(p) \/ End(p)

Spec == Init /\ [][Next]_vars

\* A process that has begun a section goes on; those blocked in semop are woken
\* in turn.  No signal needs to come.
Fairness == \A p \in Procs : WF_vars(Step(p)) /\ SF_vars(Lock(p))
FairSpec == Spec /\ Fairness

-----------------------------------------------------------------------------
\* What segment, semaphore and processes can hold: the semaphore's value
\* never goes below zero (shmem.c 86 to 118).
TypeOK ==
    /\ seg \in 0 .. MaxIds
    /\ sem \in [id : 0 .. MaxIds, val : Nat]
    /\ ids \in 1 .. MaxIds
    /\ adj \in [Procs -> Int]
    /\ semid \in [Procs -> 0 .. MaxIds]
    /\ starting \subseteq Procs /\ interrupts \in Nat
    /\ pc \in [Procs -> PcValues]

InSection(p) == At(p, "in")
Holder(p) == pc[p] \in {"shmget", "in", "unlock"}
Inside == {p \in Procs : InSection(p)}
Past == {p \in Procs : Holder(p)}

\* Two processes are never inside the table at once (every caller of get_shmem
\* reads and writes it without looking for others), as long as no signal ended
\* a wait for the semaphore.  Each wait that a signal ended lets in one more at
\* most: the result of semop is compared with 1 (shmem.c:100).
MutualExclusion == Cardinality(Inside) <= 1 + interrupts

\* The lock is neither lost nor doubled until the master removes it, whoever died
\* with it (SEM_UNDO in lock_shmem and unlock_shmem): without interruptions exactly one
\* unit is in the semaphore or with a process past semop.  An interrupted
\* wait may add one, since release_shmem gives back what was not taken; none is
\* taken away.
OneUnit == sem.id # 0 => sem.val + Cardinality(Past) \in 1 .. 1 + interrupts

\* However the creations of several tools overlap, with each other, with the
\* master's removal and with interrupted waits, the unit is not lost once every
\* creation is over: it is in the semaphore or somebody is past semop
\* (create_shmem, shmem.c 61 to 85).
LockNotLost ==
    sem.id # 0 /\ (\A p \in Procs : pc[p] \notin {"create", "semget", "setval"})
        => sem.val > 0 \/ \E p \in Procs : Holder(p)

\* Whoever asks for a section gets it, finds no segment to enter, or ends.
EverySectionEntered == \A p \in Procs : pc[p] = "semop" ~> pc[p] \in {"in", "create", "gone"}

\* Those past a semaphore that is there: the semaphore with its adjustments
\* implements the lock.
Holders == IF sem.id = 0 THEN {} ELSE Past
Lk == INSTANCE Mutex WITH holders <- Holders
ImplementsMutex == Lk!Spec
=============================================================================
