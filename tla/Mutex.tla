-------------------------------- MODULE Mutex --------------------------------
(* What the shared memory semaphore of dbrelay promises its callers: one       *)
(* process is inside at a time, and a process that dies inside leaves.  Each   *)
(* wait that is interrupted, and only that, lets in one more from then on.     *)
EXTENDS Naturals, FiniteSets

CONSTANT Procs
VARIABLES holders, interrupts

vars == <<holders, interrupts>>

Init == holders = {} /\ interrupts = 0

Enter(p) ==
    /\ p \notin holders /\ Cardinality(holders) <= interrupts
    /\ holders' = holders \cup {p} /\ UNCHANGED interrupts

Interrupt(p) ==
    /\ p \notin holders /\ holders' = holders \cup {p}
    /\ interrupts' = interrupts + 1

\* one leaves or dies, or all have to go since the lock is removed
Leave(S) == holders' = holders \ S /\ UNCHANGED interrupts

Next ==
    \/ \E p \in Procs : Enter(p) \/ Interrupt(p) \/ Leave({p})
    \/ Leave(holders)

Spec == Init /\ [][Next]_vars

=============================================================================
