--------------------------- MODULE LifecycleProofs ---------------------------
(***************************************************************************)
(* Proofs about the semaphore of the shared memory segment, for any set of *)
(* processes: type correctness of every instance of ShmemLock; when the    *)
(* segment and the semaphore exist from the start, mutual exclusion and    *)
(* the refinement of Mutex, whichever processes die wherever they are and  *)
(* whenever the master removes both; and from a cold start, that the unit  *)
(* of the lock is not lost, however the creations overlap.  Then about the *)
(* exit of the master, as a part of the whole server (MCLifecycle).        *)
(***************************************************************************)
EXTENDS MCLifecycle, FiniteSetTheorems, TLAPS

\* The processes, the segment and the semaphore always have their types,
\* whatever is created, removed or killed (shmem.c).
THEOREM TypeCorrect == Spec => []TypeOK
<1>1. Init => TypeOK
  BY ShmemAssumption DEF Init, TypeOK, NoSem, PcValues
<1>2. TypeOK /\ [Next]_vars => TypeOK'
  <2> SUFFICES ASSUME TypeOK, [Next]_vars PROVE TypeOK'
    OBVIOUS
  <2> USE ShmemAssumption DEF TypeOK, PcValues, Goto, At
  <2>1. CASE UNCHANGED vars
    BY <2>1 DEF vars
  <2>2. ASSUME NEW p \in Procs, Lookup(p) PROVE TypeOK'
    BY <2>2 DEF Lookup
  <2>3. ASSUME NEW p \in Procs, Lock(p) PROVE TypeOK'
    BY <2>3 DEF Lock
  <2>4. ASSUME NEW p \in Procs, LockFails(p) PROVE TypeOK'
    BY <2>4 DEF LockFails
  <2>5. ASSUME NEW p \in Procs, Attach(p) PROVE TypeOK'
    BY <2>5 DEF Attach
  <2>6. ASSUME NEW p \in Procs, AttachFails(p) PROVE TypeOK'
    BY <2>6 DEF AttachFails, Undo
  <2>7. ASSUME NEW p \in Procs, Detach(p) PROVE TypeOK'
    BY <2>7 DEF Detach
  <2>8. ASSUME NEW p \in Procs, Unlock(p) PROVE TypeOK'
    BY <2>8 DEF Unlock
  <2>9. ASSUME NEW p \in Procs, CreateSegment(p) PROVE TypeOK'
    BY <2>9 DEF CreateSegment
  <2>10. ASSUME NEW p \in Procs, CreateSemaphore(p) PROVE TypeOK'
    BY <2>10 DEF CreateSemaphore
  <2>11. ASSUME NEW p \in Procs, SetValue(p) PROVE TypeOK'
    BY <2>11 DEF SetValue
  <2>12. ASSUME NEW p \in Procs, RemoveSegment(p) PROVE TypeOK'
    BY <2>12 DEF RemoveSegment
  <2>13. ASSUME NEW p \in Procs, RemoveSemaphore(p) PROVE TypeOK'
    BY <2>13 DEF RemoveSemaphore, NoSem
  <2>14. ASSUME NEW p \in Procs, End(p) PROVE TypeOK'
    BY <2>14 DEF End, Undo
  <2>15. ASSUME NEW p \in Procs, LockInterrupted(p) PROVE TypeOK'
    BY <2>15 DEF LockInterrupted
  <2> QED
    BY <2>1, <2>2, <2>3, <2>4, <2>5, <2>6, <2>7, <2>8, <2>9, <2>10, <2>11, <2>12,
       <2>13, <2>14, <2>15 DEF Next, Step
<1> QED
  BY <1>1, <1>2, PTL DEF Spec

-----------------------------------------------------------------------------
(* The unit from a cold start.  SETVAL takes away the adjustments of those   *)
(* who hold the lock, so a process may have given the unit back once more    *)
(* than it took it; its death then takes one away.  What is conserved is the *)
(* value together with all the adjustments.                                  *)

Creating(p) == pc[p] \in {"create", "semget", "setval"}

\* The adjustments that will be added to the semaphore, and the units that will be
\* taken from it.
Ups == {p \in Procs : adj[p] = 1}
Downs == {d \in Procs \X (Nat \ {0}) : d[2] <= -adj[d[1]]}
Balance == sem.val + Cardinality(Ups) - Cardinality(Downs)

\* A process has taken the unit at most once more than it has given it back, and
\* only while it is past semop.
Adjusted ==
    /\ \A p \in Procs : adj[p] <= 1 /\ (adj[p] = 1 => Holder(p) \/ Creating(p))
    /\ IsFiniteSet(Downs)

\* Adjustments go with the semaphore they belong to.
OwnSemaphore ==
    /\ sem.id = 0 => \A p \in Procs : adj[p] = 0
    /\ \A p \in Procs : pc[p] \in {"semop", "setval"} =>
          semid[p] # 0 /\ (semid[p] # sem.id => adj[p] = 0)

StartersCreate ==
    starting \subseteq Starters /\ \A p \in Procs : Creating(p) => p \in Starters

\* A semaphore without a unit has yet to be set by a tool that knows it.
UnitKept ==
    sem.id # 0 => \/ \E p \in Procs : pc[p] = "setval" /\ semid[p] = sem.id
                  \/ Balance >= 1

ColdInv == TypeOK /\ Adjusted /\ OwnSemaphore /\ StartersCreate /\ UnitKept

LEMMA Counts ==
    ASSUME TypeOK, IsFiniteSet(Downs)
    PROVE  /\ IsFiniteSet(Ups) /\ Cardinality(Ups) \in Nat /\ Cardinality(Downs) \in Nat
           /\ sem.val \in Nat /\ Balance \in Int
  <1>1. Ups \in SUBSET Procs
    BY DEF Ups
  <1>2. IsFiniteSet(Ups) /\ Cardinality(Ups) \in Nat /\ Cardinality(Downs) \in Nat
    BY <1>1, FS_Subset, FS_CardinalityType, ShmemAssumption
  <1> QED BY <1>2 DEF Balance, TypeOK

\* What one unit more or less in the adjustment of a process adds to the balance.
LEMMA AdjustOne ==
    ASSUME TypeOK, IsFiniteSet(Downs), NEW p \in Procs, NEW n \in Int, n <= 1, adj[p] <= 1,
           n = adj[p] + 1 \/ n = adj[p] - 1, adj' = [adj EXCEPT ![p] = n], sem'.val \in Nat
    PROVE  /\ Balance' = Balance + (sem'.val - sem.val) + n - adj[p]
           /\ Balance \in Int /\ IsFiniteSet(Downs')
  <1> DEFINE U == Cardinality(Ups)
             D == Cardinality(Downs)
  <1>1. /\ IsFiniteSet(Ups) /\ U \in Nat /\ D \in Nat /\ sem.val \in Nat
        /\ Balance \in Int /\ adj[p] \in Int
    BY Counts DEF TypeOK
  <1>2. /\ adj'[p] = n /\ \A q \in Procs \ {p} : adj'[q] = adj[q]
        /\ \A q \in Procs : adj[q] \in Int /\ adj'[q] \in Int
    BY DEF TypeOK
  <1>3. Ups' = IF n = 1 THEN Ups \cup {p} ELSE Ups \ {p}
    BY <1>2 DEF Ups
  <1>4. Cardinality(Ups') = IF n = 1 THEN (IF p \in Ups THEN U ELSE U + 1)
                                     ELSE (IF p \in Ups THEN U - 1 ELSE U)
    BY <1>1, <1>3, FS_AddElement, FS_RemoveElement
  <1>5. p \in Ups <=> adj[p] = 1
    BY DEF Ups
  <1>6. \A q \in Procs, k \in Nat \ {0} : <<q, k>> \in Downs <=> k <= -adj[q]
    BY DEF Downs
  <1>7. \A q \in Procs, k \in Nat \ {0} : <<q, k>> \in Downs' <=> k <= -adj'[q]
    BY DEF Downs
  <1>8. CASE n = 1 \/ adj[p] = 1
    <2>1. Downs' = Downs
      <3>1. \A q \in Procs, k \in Nat \ {0} : k <= -adj'[q] <=> k <= -adj[q]
        BY <1>1, <1>2, <1>8
      <3> QED BY <3>1 DEF Downs
    <2>2. Cardinality(Ups') = U + n - adj[p]
      BY <1>1, <1>4, <1>5, <1>8
    <2> QED BY <1>1, <2>1, <2>2 DEF Balance
  <1>9. CASE n # 1 /\ adj[p] # 1
    <2>1. n <= 0 /\ adj[p] <= 0
      BY <1>1, <1>9
    <2>2. Cardinality(Ups') = U
      BY <1>4, <1>5, <1>9
    <2>3. CASE n = adj[p] + 1
      <3> DEFINE e == <<p, -adj[p]>>
      <3>1. -adj[p] \in Nat \ {0} /\ e \in Downs
        BY <1>1, <1>6, <2>1, <2>3
      <3>2. \A q \in Procs, k \in Nat \ {0} :
               k <= -adj'[q] <=> k <= -adj[q] /\ ~ (q = p /\ k = -adj[p])
        BY <1>1, <1>2, <2>3
      <3>3. Downs' = Downs \ {e}
        BY <3>1, <3>2 DEF Downs
      <3>4. IsFiniteSet(Downs') /\ Cardinality(Downs') = D - 1
        BY <3>1, <3>3, FS_RemoveElement
      <3> QED BY <1>1, <2>2, <2>3, <3>4 DEF Balance
    <2>4. CASE n = adj[p] - 1
      <3> DEFINE e == <<p, 1 - adj[p]>>
      <3>1. 1 - adj[p] \in Nat \ {0} /\ e \notin Downs /\ e \in Procs \X (Nat \ {0})
        BY <1>1, <1>6, <2>1
      <3>2. \A q \in Procs, k \in Nat \ {0} :
               k <= -adj'[q] <=> k <= -adj[q] \/ (q = p /\ k = 1 - adj[p])
        BY <1>1, <1>2, <2>4
      <3>3. Downs' = Downs \cup {e}
        BY <3>1, <3>2 DEF Downs
      <3>4. IsFiniteSet(Downs') /\ Cardinality(Downs') = D + 1
        BY <3>1, <3>3, FS_AddElement
      <3> QED BY <1>1, <2>2, <2>4, <3>4 DEF Balance
    <2> QED BY <2>3, <2>4
  <1> QED BY <1>8, <1>9

\* An end, like the death of a process without the pointer, adds its adjustment, but
\* takes no more than there is.
LEMMA UndoBalance ==
    ASSUME TypeOK, Adjusted, NEW p \in Procs, Undo(p)
    PROVE  /\ Balance \in Int /\ Balance' \in Int /\ Balance' >= Balance
           /\ adj'[p] = 0 /\ sem'.id = sem.id /\ IsFiniteSet(Downs')
  <1> DEFINE U == Cardinality(Ups)
             D == Cardinality(Downs)
  <1>1. /\ adj[p] \in Int /\ adj[p] <= 1 /\ IsFiniteSet(Downs)
        /\ U \in Nat /\ D \in Nat /\ sem.val \in Nat /\ Balance \in Int
    BY Counts DEF Adjusted, TypeOK
  <1>2. /\ adj' = [adj EXCEPT ![p] = 0] /\ sem'.id = sem.id /\ adj'[p] = 0
        /\ sem'.val = IF sem.val + adj[p] < 0 THEN 0 ELSE sem.val + adj[p]
        /\ \A q \in Procs \ {p} : adj'[q] = adj[q]
    BY DEF Undo, TypeOK
  <1>3. CASE adj[p] = 1
    <2>1. 0 \in Int /\ 0 <= 1 /\ 0 = adj[p] - 1 /\ sem'.val = sem.val + 1 /\ sem'.val \in Nat
      BY <1>1, <1>2, <1>3
    <2>2. /\ Balance' = Balance + (sem'.val - sem.val) + 0 - adj[p]
          /\ Balance \in Int /\ IsFiniteSet(Downs')
      BY <1>1, <1>2, <2>1, AdjustOne
    <2> QED BY <1>1, <1>2, <1>3, <2>1, <2>2
  <1>4. CASE adj[p] = 0
    <2>1. adj' = adj /\ sem'.val = sem.val
      BY <1>1, <1>2, <1>4 DEF TypeOK
    <2>2. Ups' = Ups /\ Downs' = Downs
      BY <2>1 DEF Ups, Downs
    <2> QED BY <1>1, <1>2, <2>1, <2>2 DEF Balance
  <1>5. CASE adj[p] < 0
    <2> DEFINE k == -adj[p]
               own == {p} \X (1 .. k)
    <2>1. k \in Nat \ {0}
      BY <1>1, <1>5
    <2>2. IsFiniteSet(own) /\ Cardinality(own) = k
      <3> HIDE DEF k
      <3>1. IsFiniteSet({p}) /\ Cardinality({p}) = 1
        BY FS_Singleton
      <3>2. IsFiniteSet(1 .. k) /\ Cardinality(1 .. k) = k
        BY <2>1, FS_Interval
      <3>3. ASSUME NEW S, NEW T, IsFiniteSet(S), IsFiniteSet(T)
            PROVE  IsFiniteSet(S \X T) /\ Cardinality(S \X T) = Cardinality(S) * Cardinality(T)
        BY <3>3, FS_Product, Zenon
      <3>4. IsFiniteSet(own) /\ Cardinality(own) = Cardinality({p}) * Cardinality(1 .. k)
        BY <3>1, <3>2, <3>3, Zenon
      <3> QED BY <2>1, <3>1, <3>2, <3>4
    <2>3. own \subseteq Downs
      BY <1>1 DEF Downs
    <2>4. Downs' = Downs \ own
      <3>1. \A q \in Procs, m \in Nat \ {0} :
               m <= -adj'[q] <=> m <= -adj[q] /\ ~ (q = p /\ m \in 1 .. k)
        BY <1>1, <1>2
      <3> QED BY <3>1 DEF Downs
    <2>5. IsFiniteSet(Downs') /\ Cardinality(Downs') = D - k
      <3> HIDE DEF own, D, k
      <3>1. Downs \cap own = own
        BY <2>3
      <3>2. /\ IsFiniteSet(Downs \ own)
            /\ Cardinality(Downs \ own) = Cardinality(Downs) - Cardinality(Downs \cap own)
        BY <1>1, FS_Difference
      <3> QED BY <2>2, <2>4, <3>1, <3>2 DEF D
    <2>6. Ups' = Ups
      BY <1>2, <1>5 DEF Ups, TypeOK
    <2> QED BY <1>1, <1>2, <2>5, <2>6 DEF Balance
  <1> QED BY <1>1, <1>3, <1>4, <1>5

\* The steps of a section.
LEMMA SectionStep ==
    ASSUME ColdInv, NEW p \in Procs,
           \/ Lookup(p) \/ Lock(p) \/ LockFails(p) \/ LockInterrupted(p)
           \/ Attach(p) \/ Detach(p) \/ Unlock(p)
    PROVE  Adjusted' /\ OwnSemaphore' /\ StartersCreate' /\ UnitKept'
  <1> USE DEF Goto, At
  <1>0. TypeOK /\ Adjusted /\ OwnSemaphore /\ StartersCreate /\ UnitKept
    BY DEF ColdInv
  <1>1. /\ sem'.id = sem.id /\ sem'.val \in Nat /\ starting' \subseteq starting
        /\ pc'[p] \in PcValues /\ ~ Creating(p) /\ ~ Creating(p)'
        /\ \A q \in Procs \ {p} : pc'[q] = pc[q] /\ adj'[q] = adj[q] /\ semid'[q] = semid[q]
    BY <1>0 DEF Lookup, Lock, LockFails, LockInterrupted, Attach, Detach, Unlock, TypeOK,
       Creating, PcValues
  <1>2. /\ adj[p] \in Int /\ adj'[p] \in Int /\ adj'[p] <= 1 /\ (adj'[p] = 1 => Holder(p)')
        /\ pc'[p] = "semop" => semid'[p] # 0 /\ (semid'[p] # sem'.id => adj'[p] = 0)
        /\ sem.id = 0 => adj'[p] = 0
    BY <1>0 DEF Lookup, Lock, LockFails, LockInterrupted, Attach, Detach, Unlock, TypeOK, Holder,
       Creating, Adjusted, OwnSemaphore
  <1>4. OwnSemaphore'
    BY <1>0, <1>1, <1>2 DEF OwnSemaphore, Creating
  <1>5. StartersCreate'
    BY <1>0, <1>1 DEF StartersCreate, Creating
  <1>6. Balance' = Balance /\ Balance \in Int /\ IsFiniteSet(Downs')
    <2>1. CASE Lock(p) \/ (Unlock(p) /\ sem.id # 0)
      <3>1. PICK n \in Int : n = adj'[p]
        BY <1>2
      <3>2. /\ n <= 1 /\ adj[p] <= 1 /\ adj' = [adj EXCEPT ![p] = n] /\ sem.val \in Nat
            /\ \/ n = adj[p] + 1 /\ sem'.val = sem.val - 1
               \/ n = adj[p] - 1 /\ sem'.val = sem.val + 1
        BY <1>0, <1>2, <2>1, <3>1 DEF Lock, Unlock, TypeOK, Adjusted
      <3>3. /\ Balance' = Balance + (sem'.val - sem.val) + n - adj[p]
            /\ Balance \in Int /\ IsFiniteSet(Downs')
        BY <1>0, <1>1, <3>2, AdjustOne DEF Adjusted
      <3> QED BY <1>2, <3>2, <3>3
    <2>3. CASE ~ Lock(p) /\ ~ (Unlock(p) /\ sem.id # 0)
      <3>1. UNCHANGED <<sem, adj>>
        BY <2>3 DEF Lookup, LockFails, LockInterrupted, Attach, Detach, Unlock
      <3> QED BY <1>0, <3>1, Counts DEF Balance, Ups, Downs, Adjusted
    <2> QED BY <2>1, <2>3
  <1>3. Adjusted'
    BY <1>0, <1>1, <1>2, <1>6 DEF Adjusted, Holder, Creating
  <1>8. UnitKept'
    BY <1>0, <1>1, <1>6 DEF UnitKept, Creating
  <1> QED BY <1>3, <1>4, <1>5, <1>8

\* Whoever ends, with the lock or without, leaves at least as much behind.
LEMMA EndStep ==
    ASSUME ColdInv, NEW p \in Procs, ~ Creating(p),
           End(p) \/ (AttachFails(p) /\ p \notin starting)
    PROVE  Adjusted' /\ OwnSemaphore' /\ StartersCreate' /\ UnitKept'
  <1> USE DEF Goto, At
  <1>0. TypeOK /\ Adjusted /\ OwnSemaphore /\ StartersCreate /\ UnitKept
    BY DEF ColdInv
  <1>1. Undo(p) /\ pc' = [pc EXCEPT ![p] = "gone"] /\ UNCHANGED <<semid, starting>>
    BY DEF End, AttachFails
  <1>2. ~ Creating(p)
    OBVIOUS
  <1>3. /\ Balance \in Int /\ Balance' \in Int /\ Balance' >= Balance
        /\ adj'[p] = 0 /\ sem'.id = sem.id /\ IsFiniteSet(Downs')
        /\ \A q \in Procs \ {p} : adj'[q] = adj[q] /\ pc'[q] = pc[q]
    BY <1>0, <1>1, UndoBalance DEF TypeOK, Undo
  <1>4. pc'[p] = "gone"
    BY <1>0, <1>1 DEF TypeOK
  <1>5. Adjusted'
    BY <1>0, <1>3, <1>4 DEF Adjusted, Holder, Creating
  <1>6. OwnSemaphore'
    BY <1>0, <1>1, <1>3, <1>4 DEF OwnSemaphore
  <1>7. StartersCreate'
    BY <1>0, <1>1, <1>3, <1>4 DEF StartersCreate, Creating
  <1>8. UnitKept'
    BY <1>0, <1>1, <1>2, <1>3, <1>4 DEF UnitKept, Creating
  <1> QED BY <1>5, <1>6, <1>7, <1>8

\* A tool that creates knows the semaphore under the key until somebody removes it,
\* and SETVAL puts one unit into it.
LEMMA CreateStep ==
    ASSUME ColdInv, NEW p \in Procs,
           \/ AttachFails(p) /\ p \in starting
           \/ CreateSegment(p) \/ CreateSemaphore(p) \/ SetValue(p)
    PROVE  Adjusted' /\ OwnSemaphore' /\ StartersCreate' /\ UnitKept'
  <1> USE DEF Goto, At
  <1>0. TypeOK /\ Adjusted /\ OwnSemaphore /\ StartersCreate /\ UnitKept
    BY DEF ColdInv
  <1>1. CASE AttachFails(p) \/ CreateSegment(p)
    <2>1. /\ UNCHANGED <<sem, adj, semid, starting>>
          /\ pc'[p] \in {"create", "semget"} /\ pc[p] \in {"shmget", "create"}
          /\ \A q \in Procs \ {p} : pc'[q] = pc[q]
          /\ pc[p] = "shmget" => p \in starting
      BY <1>0, <1>1 DEF AttachFails, CreateSegment, TypeOK, CreateSemaphore, SetValue
    <2>2. Adjusted' /\ OwnSemaphore' /\ StartersCreate'
      BY <1>0, <2>1 DEF Adjusted, OwnSemaphore, StartersCreate, Holder, Creating, Downs
    <2>3. UnitKept'
      BY <1>0, <2>1 DEF UnitKept, Balance, Ups, Downs
    <2> QED BY <2>2, <2>3
  <1>2. CASE CreateSemaphore(p)
    <2>1. /\ UNCHANGED <<adj, starting>> /\ sem'.id # 0 /\ pc[p] = "semget"
          /\ pc'[p] = "setval" /\ semid'[p] = sem'.id
          /\ sem.id # 0 => sem'.id = sem.id
          /\ \A q \in Procs \ {p} : pc'[q] = pc[q] /\ semid'[q] = semid[q]
      BY <1>0, <1>2, ShmemAssumption DEF CreateSemaphore, TypeOK
    <2> QED
      BY <1>0, <2>1 DEF Adjusted, OwnSemaphore, StartersCreate, UnitKept, Holder, Creating, Downs
  <1>3. CASE SetValue(p) /\ semid[p] # sem.id
    <2>1. /\ UNCHANGED <<sem, adj, semid>> /\ starting' \subseteq starting
          /\ pc[p] = "setval" /\ pc'[p] = "out" /\ adj[p] = 0
          /\ \A q \in Procs \ {p} : pc'[q] = pc[q]
      BY <1>0, <1>3 DEF SetValue, TypeOK, OwnSemaphore
    <2>2. Adjusted' /\ OwnSemaphore' /\ StartersCreate'
      BY <1>0, <2>1 DEF Adjusted, OwnSemaphore, StartersCreate, Holder, Creating, Downs
    <2>3. UnitKept'
      BY <1>0, <1>3, <2>1 DEF UnitKept, Balance, Ups, Downs
    <2> QED BY <2>2, <2>3
  <1>4. CASE SetValue(p) /\ semid[p] = sem.id
    <2>1. /\ sem'.val = 1 /\ sem'.id = sem.id /\ starting' \subseteq starting /\ UNCHANGED semid
          /\ pc'[p] = "out" /\ \A q \in Procs : adj'[q] = 0
          /\ \A q \in Procs \ {p} : pc'[q] = pc[q]
      BY <1>0, <1>4 DEF SetValue, TypeOK
    <2>3. Ups' = {} /\ Downs' = {}
      BY <2>1 DEF Ups, Downs
    <2>2. Adjusted' /\ OwnSemaphore' /\ StartersCreate'
      BY <1>0, <2>1, <2>3, FS_EmptySet DEF Adjusted, OwnSemaphore, StartersCreate, Holder, Creating
    <2>4. Balance' = 1
      BY <2>1, <2>3, FS_EmptySet DEF Balance
    <2> QED BY <2>2, <2>4 DEF UnitKept
  <1> QED BY <1>1, <1>2, <1>3, <1>4

\* The removal takes all adjustments with it.
LEMMA RemoveStep ==
    ASSUME ColdInv, NEW p \in Procs, RemoveSegment(p) \/ RemoveSemaphore(p)
    PROVE  Adjusted' /\ OwnSemaphore' /\ StartersCreate' /\ UnitKept'
  <1> USE DEF Goto, At
  <1>0. TypeOK /\ Adjusted /\ OwnSemaphore /\ StartersCreate /\ UnitKept
    BY DEF ColdInv
  <1>1. /\ UNCHANGED <<starting, semid>> /\ pc[p] \in {"rmseg", "rmsem"}
        /\ pc'[p] \in {"rmsem", "gone"} /\ \A q \in Procs \ {p} : pc'[q] = pc[q]
        /\ \/ UNCHANGED <<sem, adj>>
           \/ sem'.id = 0 /\ \A q \in Procs : adj'[q] = 0
    BY <1>0 DEF RemoveSegment, RemoveSemaphore, NoSem, TypeOK
  <1>2. OwnSemaphore' /\ StartersCreate'
    BY <1>0, <1>1 DEF OwnSemaphore, StartersCreate, Creating
  <1>4. IsFiniteSet(Downs')
    <2>1. CASE UNCHANGED adj
      BY <1>0, <2>1 DEF Adjusted, Downs
    <2>2. CASE \A q \in Procs : adj'[q] = 0
      <3>1. Downs' = {}
        BY <2>2 DEF Downs
      <3> QED BY <3>1, FS_EmptySet
    <2> QED BY <1>1, <2>1, <2>2
  <1>5. Adjusted'
    BY <1>0, <1>1, <1>4 DEF Adjusted, Holder, Creating
  <1>3. UnitKept'
    BY <1>0, <1>1 DEF UnitKept, Balance, Ups, Downs
  <1> QED BY <1>2, <1>3, <1>5

LEMMA ColdInit == Init => ColdInv
  <1> SUFFICES ASSUME Init PROVE ColdInv
    OBVIOUS
  <1>1. TypeOK
    BY ShmemAssumption DEF Init, TypeOK, NoSem, PcValues
  <1>2. Ups = {} /\ Downs = {}
    BY DEF Init, Ups, Downs
  <1>3. Adjusted /\ OwnSemaphore /\ StartersCreate
    BY <1>2, FS_EmptySet DEF Init, Adjusted, OwnSemaphore, StartersCreate, Holder, Creating
  <1>4. Balance = sem.val
    BY <1>1, <1>2, FS_EmptySet DEF Balance, TypeOK
  <1>5. UnitKept
    BY <1>4 DEF Init, UnitKept, NoSem
  <1> QED BY <1>1, <1>3, <1>5 DEF ColdInv

LEMMA ColdStep ==
    ASSUME ColdInv, TypeOK', [Next]_vars, \A p \in Procs : End(p) => ~ Creating(p)
    PROVE  ColdInv'
  <1>1. CASE UNCHANGED vars
    BY <1>1 DEF vars, ColdInv, Adjusted, OwnSemaphore, StartersCreate, UnitKept, Holder,
       Creating, Balance, Ups, Downs
  <1>2. ASSUME NEW p \in Procs, AttachFails(p) PROVE ~ Creating(p)
    BY <1>2 DEF AttachFails, At, Creating
  <1>3. ASSUME NEW p \in Procs, Lookup(p) \/ Step(p) \/ LockInterrupted(p) \/ End(p)
        PROVE  ColdInv'
    BY <1>2, <1>3, SectionStep, EndStep, CreateStep, RemoveStep DEF Step, ColdInv
  <1> QED BY <1>1, <1>3 DEF Next

\* A unit is in the semaphore or with a process.
LEMMA UnitThere ==
    ASSUME ColdInv, sem.id # 0, \A p \in Procs : ~ Creating(p)
    PROVE  sem.val > 0 \/ \E p \in Procs : Holder(p)
  <1> SUFFICES ASSUME \A p \in Procs : ~ Holder(p)
               PROVE  sem.val > 0
    OBVIOUS
  <1>1. Balance >= 1
    BY DEF ColdInv, UnitKept, Creating
  <1>2. Ups = {}
    BY DEF ColdInv, Adjusted, Ups
  <1>3. Cardinality(Ups) = 0 /\ Cardinality(Downs) \in Nat /\ sem.val \in Nat
    BY <1>2, FS_EmptySet, Counts DEF ColdInv, Adjusted
  <1> QED BY <1>1, <1>3 DEF Balance

\* However many tools create the segment and the semaphore at the same time, and
\* whenever the master removes them, processes in a section die or signals end
\* their waits, the unit of the lock is not lost once the creations are over, as
\* long as the tools that create live so long (create_shmem, shmem.c 61 to 85).
THEOREM LockNotLostHolds ==
    ASSUME Starters \cap Mortal = {}
    PROVE  Spec => []LockNotLost
  <1>1. ColdInv /\ TypeOK' /\ [Next]_vars => ColdInv'
    BY ColdStep DEF End, ColdInv, StartersCreate
  <1>2. ColdInv => LockNotLost
    BY UnitThere DEF LockNotLost, Creating
  <1> QED
    BY ColdInit, <1>1, <1>2, TypeCorrect, PTL DEF Spec

-----------------------------------------------------------------------------
(* The lock once it exists. *)

\* The segment and the semaphore are there, and nobody creates them a second
\* time: no tool is about to start, or no master to remove them.
Warm == ~ Cold /\ (Starters = {} \/ Master \notin Procs)

\* The master removes the segment before the semaphore, a process in semop waits
\* for the semaphore that is there or for one that was, and nobody creates.
Stable ==
    /\ sem.id = 0 => seg = 0
    /\ Master \notin Procs => seg # 0
    /\ starting \subseteq Starters
    /\ \A p \in Procs :
          /\ pc[p] \in {"out", "semop", "shmget", "in", "unlock", "rmseg", "rmsem", "gone"}
          /\ pc[p] \in {"rmseg", "rmsem"} => p = Master
          /\ pc[p] = "rmsem" => seg = 0
          /\ pc[p] = "semop" => semid[p] # 0 /\ (sem.id # 0 => semid[p] = sem.id)

\* There are no more units than the interruptions account for; who is inside when the
\* semaphore goes is the last to be there.
Accounted ==
    /\ sem.id # 0 => sem.val + Cardinality(Past) <= 1 + interrupts
    /\ Cardinality(Inside) <= 1 + interrupts

LockInv == ColdInv /\ Stable /\ Accounted

\* The steps of processes that go on keep the ids in order.
LEMMA StableStep ==
    ASSUME Warm, TypeOK, Stable, [Next]_vars
    PROVE  Stable' /\ (sem'.id = sem.id \/ \E p \in Procs : RemoveSemaphore(p))
  <1> USE ShmemAssumption DEF TypeOK, Goto, At
  <1>1. ASSUME seg = 0 PROVE starting = {}
    BY <1>1 DEF Stable, Warm
  <1>2. CASE UNCHANGED vars
    BY <1>2 DEF vars, Stable
  <1>3. ASSUME NEW p \in Procs,
               \/ Lookup(p) \/ Lock(p) \/ LockFails(p) \/ LockInterrupted(p)
               \/ Attach(p) \/ Detach(p) \/ Unlock(p) \/ End(p)
        PROVE  Stable' /\ sem'.id = sem.id
    BY <1>3 DEF Stable, Lookup, Lock, LockFails, LockInterrupted, Attach, Detach, Unlock, End, Undo
  <1>4. ASSUME NEW p \in Procs, AttachFails(p)
        PROVE  Stable' /\ sem'.id = sem.id
    BY <1>1, <1>4 DEF Stable, AttachFails, Undo
  <1>5. ASSUME NEW p \in Procs, RemoveSegment(p)
        PROVE  Stable' /\ sem'.id = sem.id
    BY <1>5 DEF Stable, RemoveSegment
  <1>6. ASSUME NEW p \in Procs, RemoveSemaphore(p)
        PROVE  Stable'
    BY <1>6 DEF Stable, RemoveSemaphore, NoSem
  <1>7. ASSUME NEW p \in Procs
        PROVE  ~ (CreateSegment(p) \/ CreateSemaphore(p) \/ SetValue(p))
    BY DEF Stable, CreateSegment, CreateSemaphore, SetValue
  <1> QED
    BY <1>2, <1>3, <1>4, <1>5, <1>6, <1>7 DEF Next, Step

LEMMA PastFinite ==
    /\ IsFiniteSet(Past) /\ Cardinality(Past) \in Nat
    /\ IsFiniteSet(Inside) /\ Cardinality(Inside) \in Nat
    /\ Cardinality(Inside) <= Cardinality(Past)
  <1>1. Past \in SUBSET Procs /\ Inside \in SUBSET Past
    BY DEF Past, Inside, InSection, Holder, At
  <1>2. IsFiniteSet(Past)
    BY <1>1, FS_Subset, ShmemAssumption
  <1> QED BY <1>1, <1>2, FS_Subset, FS_CardinalityType

\* Whoever comes past semop takes a unit or is one more that was interrupted; whoever
\* goes gives back one at most.
LEMMA AccountedStep ==
    ASSUME LockInv, TypeOK', Stable', [Next]_vars, sem.id # 0, sem'.id = sem.id
    PROVE  /\ sem'.val + Cardinality(Past') <= 1 + interrupts'
           /\ [Lk!Next]_(Lk!vars)
  <1> USE DEF Goto, At
  <1>0. /\ TypeOK /\ Stable /\ Adjusted
        /\ sem.val + Cardinality(Past) <= 1 + interrupts
        /\ sem.val \in Nat /\ interrupts \in Nat /\ sem'.val \in Nat
        /\ IsFiniteSet(Past) /\ Cardinality(Past) \in Nat
    BY PastFinite DEF LockInv, ColdInv, Accounted, TypeOK
  <1>1. Holders = Past /\ Holders' = Past'
    BY DEF Holders
  <1>2. CASE UNCHANGED vars
    <2>1. UNCHANGED <<Past, sem, interrupts>>
      BY <1>2 DEF vars, Past, Holder
    <2> QED BY <1>0, <1>1, <2>1 DEF Lk!vars
  <1>3. ASSUME NEW p \in Procs,
               Lookup(p) \/ LockFails(p) \/ Attach(p) \/ Detach(p) \/ RemoveSegment(p)
        PROVE  UNCHANGED <<Past, sem, interrupts>>
    <2>1. UNCHANGED <<sem, interrupts>>
      BY <1>3 DEF Lookup, LockFails, Attach, Detach, RemoveSegment
    <2>2. \A q \in Procs : Holder(q)' <=> Holder(q)
      BY <1>0, <1>3 DEF TypeOK, Stable, Lookup, LockFails, Attach, Detach, RemoveSegment, Holder
    <2> QED BY <2>1, <2>2 DEF Past
  <1>4. ASSUME NEW p \in Procs, Lock(p) \/ LockInterrupted(p)
        PROVE  /\ sem'.val + Cardinality(Past') <= 1 + interrupts'
               /\ [Lk!Next]_(Lk!vars)
    <2>1. ~ Holder(p) /\ Holder(p)' /\ \A q \in Procs \ {p} : Holder(q)' <=> Holder(q)
      BY <1>0, <1>4 DEF Lock, LockInterrupted, Holder, TypeOK
    <2>2. p \notin Past /\ Past' = Past \cup {p}
      BY <2>1 DEF Past
    <2>3. Cardinality(Past') = Cardinality(Past) + 1
      BY <1>0, <2>2, FS_AddElement
    <2>4. CASE Lock(p)
      <3>1. sem.val > 0 /\ sem'.val = sem.val - 1 /\ interrupts' = interrupts
        BY <1>0, <2>4 DEF Lock, TypeOK
      <3>2. Cardinality(Past) <= interrupts
        BY <1>0, <3>1
      <3>3. Lk!Enter(p)
        <4>1. p \notin Holders /\ Cardinality(Holders) <= interrupts
          BY <1>1, <2>2, <3>2
        <4>2. Holders' = Holders \cup {p}
          BY <1>1, <2>2
        <4>3. Lk!Cardinality(Holders) = Cardinality(Holders)
          BY DEF Lk!Cardinality, Cardinality
        <4> HIDE DEF Goto, At
        <4> QED BY <3>1, <4>1, <4>2, <4>3 DEF Lk!Enter
      <3>4. sem'.val + Cardinality(Past') <= 1 + interrupts'
        BY <1>0, <2>3, <3>1
      <3> QED BY <3>3, <3>4 DEF Lk!Next
    <2>5. CASE LockInterrupted(p)
      <3>1. sem' = sem /\ interrupts' = interrupts + 1
        BY <2>5 DEF LockInterrupted
      <3> QED BY <1>0, <1>1, <2>2, <2>3, <3>1 DEF Lk!Next, Lk!Interrupt
    <2> QED BY <1>4, <2>4, <2>5
  <1>5. ASSUME NEW p \in Procs, Unlock(p) \/ End(p) \/ AttachFails(p)
        PROVE  /\ sem'.val + Cardinality(Past') <= 1 + interrupts'
               /\ [Lk!Next]_(Lk!vars)
    <2>1. interrupts' = interrupts
      BY <1>5 DEF Unlock, End, AttachFails
    <2>2. ~ Holder(p)' /\ \A q \in Procs \ {p} : Holder(q)' <=> Holder(q)
      BY <1>0, <1>5 DEF Stable, Unlock, End, AttachFails, Holder, TypeOK
    <2>3. Past' = Past \ {p}
      BY <2>2 DEF Past
    <2>4. Cardinality(Past') = IF Holder(p) THEN Cardinality(Past) - 1 ELSE Cardinality(Past)
      BY <1>0, <2>3, FS_RemoveElement DEF Past
    <2>5. sem'.val <= IF Holder(p) THEN sem.val + 1 ELSE sem.val
      <3>1. CASE Unlock(p)
        BY <1>0, <3>1 DEF Unlock, Holder, TypeOK
      <3>2. CASE End(p) \/ AttachFails(p)
        <4>1. Undo(p)
          BY <1>0, <3>2 DEF End, AttachFails, Stable, TypeOK
        <4>2. adj[p] \in Int /\ adj[p] <= 1 /\ (adj[p] = 1 => Holder(p))
          BY <1>0 DEF Adjusted, Stable, Creating, TypeOK
        <4>3. sem'.val = IF sem.val + adj[p] < 0 THEN 0 ELSE sem.val + adj[p]
          BY <1>0, <4>1 DEF Undo, TypeOK
        <4> QED BY <1>0, <4>2, <4>3
      <3> QED BY <1>5, <3>1, <3>2
    <2> QED BY <1>0, <1>1, <2>1, <2>3, <2>4, <2>5 DEF Lk!Next, Lk!Leave
  <1>6. ASSUME NEW p \in Procs
        PROVE  ~ (CreateSegment(p) \/ CreateSemaphore(p) \/ SetValue(p) \/ RemoveSemaphore(p))
    BY <1>0 DEF Stable, CreateSegment, CreateSemaphore, SetValue, RemoveSemaphore, NoSem
  <1>7. ASSUME UNCHANGED <<Past, sem, interrupts>>
        PROVE  /\ sem'.val + Cardinality(Past') <= 1 + interrupts'
               /\ [Lk!Next]_(Lk!vars)
    BY <1>0, <1>1, <1>7 DEF Lk!vars
  <1> QED
    BY <1>2, <1>3, <1>4, <1>5, <1>6, <1>7 DEF Next, Step

\* The removal takes all units with it; without the segment nobody comes into
\* the table any more.
LEMMA RemovedStep ==
    ASSUME LockInv, [Next]_vars, sem'.id = 0, Stable'
    PROVE  Accounted' /\ [Lk!Next]_(Lk!vars)
  <1> USE DEF Goto, At
  <1>0. /\ TypeOK /\ Stable /\ Cardinality(Inside) <= 1 + interrupts /\ interrupts \in Nat
    BY DEF LockInv, ColdInv, Accounted, TypeOK
  <1>1. interrupts' = interrupts /\ Inside' \subseteq Inside
    <2>1. CASE UNCHANGED vars
      BY <2>1 DEF vars, Inside, InSection
    <2>2. ASSUME NEW p \in Procs, Lookup(p) \/ Step(p) \/ LockInterrupted(p) \/ End(p)
          PROVE  interrupts' = interrupts /\ Inside' \subseteq Inside
      <3>1. ~ Attach(p) /\ ~ LockInterrupted(p)
        BY <1>0 DEF Attach, LockInterrupted, Stable
      <3>2. interrupts' = interrupts
        BY <2>2, <3>1 DEF Step, Lookup, Lock, LockFails, AttachFails, Detach, Unlock,
           CreateSegment, CreateSemaphore, SetValue, RemoveSegment, RemoveSemaphore, End
      <3>3. \A q \in Procs : pc'[q] = "in" => pc[q] = "in"
        BY <1>0, <2>2, <3>1 DEF TypeOK, Step, Lookup, Lock, LockFails, AttachFails, Detach, Unlock,
           CreateSegment, CreateSemaphore, SetValue, RemoveSegment, RemoveSemaphore, End
      <3> QED BY <3>2, <3>3 DEF Inside, InSection
    <2> QED BY <2>1, <2>2 DEF Next
  <1>2. IsFiniteSet(Inside) /\ Cardinality(Inside) \in Nat
    BY PastFinite
  <1>3. Cardinality(Inside') <= Cardinality(Inside) /\ Cardinality(Inside') \in Nat
    BY <1>1, <1>2, FS_Subset, FS_CardinalityType
  <1>4. Accounted'
    BY <1>0, <1>1, <1>2, <1>3 DEF Accounted
  <1>5. Holders' = {}
    BY DEF Holders
  <1> QED BY <1>1, <1>4, <1>5 DEF Lk!Next, Lk!Leave

LEMMA LockStep ==
    ASSUME Warm, LockInv, TypeOK', [Next]_vars
    PROVE  LockInv' /\ [Lk!Next]_(Lk!vars)
  <1>1. Stable' /\ (sem'.id = sem.id \/ \E p \in Procs : RemoveSemaphore(p))
    BY StableStep DEF LockInv, ColdInv
  <1>2. ColdInv'
    BY ColdStep DEF LockInv, Stable, Creating
  <1>3. CASE sem'.id = 0
    BY <1>1, <1>2, <1>3, RemovedStep DEF LockInv
  <1>4. CASE sem'.id = sem.id /\ sem.id # 0
    <2>1. /\ sem'.val + Cardinality(Past') <= 1 + interrupts'
          /\ [Lk!Next]_(Lk!vars)
      BY <1>1, <1>4, AccountedStep
    <2>2. /\ Cardinality(Inside') <= Cardinality(Past') /\ Cardinality(Inside') \in Nat
          /\ Cardinality(Past') \in Nat
      <3>1. Past' \in SUBSET Procs /\ Inside' \in SUBSET Past'
        BY DEF Past, Inside, InSection, Holder, At
      <3>2. IsFiniteSet(Past')
        BY <3>1, FS_Subset, ShmemAssumption
      <3> QED BY <3>1, <3>2, FS_Subset, FS_CardinalityType
    <2>3. sem'.val \in Nat /\ interrupts' \in Nat
      BY DEF TypeOK
    <2> QED BY <1>1, <1>2, <1>4, <2>1, <2>2, <2>3 DEF LockInv, Accounted
  <1>5. ASSUME NEW p \in Procs, RemoveSemaphore(p) PROVE sem'.id = 0
    BY <1>5 DEF RemoveSemaphore, NoSem
  <1> QED
    BY <1>1, <1>3, <1>4, <1>5

LEMMA LockInit ==
    ASSUME Warm, Init
    PROVE  LockInv /\ Holders = {}
  <1>1. Past = {} /\ Inside = {}
    BY DEF Init, Past, Inside, InSection, Holder, At
  <1>2. Stable
    BY DEF Warm, Init, Stable
  <1>3. Accounted
    BY <1>1, FS_EmptySet DEF Warm, Init, Accounted
  <1> QED
    BY <1>1, <1>2, <1>3, ColdInit DEF LockInv, Holders

LEMMA LockInvariant ==
    ASSUME Warm
    PROVE  Spec => []LockInv
  <1>1. Init => LockInv
    BY LockInit
  <1>2. LockInv /\ TypeOK' /\ [Next]_vars => LockInv'
    BY LockStep
  <1> QED
    BY <1>1, <1>2, TypeCorrect, PTL DEF Spec

\* Two processes are never inside the table at once, whoever dies with the lock
\* (SEM_UNDO in lock_shmem and unlock_shmem), and although a process goes on when
\* the master has removed the semaphore it waits for; each wait that a signal ends
\* lets in one more at most (shmem.c:100).
THEOREM MutualExclusionHolds ==
    ASSUME Warm
    PROVE  Spec => []MutualExclusion
  <1>1. LockInv => MutualExclusion
    BY DEF LockInv, Accounted, MutualExclusion
  <1> QED
    BY <1>1, LockInvariant, PTL

\* Until the semaphore is removed a unit is always there, whoever dies and whatever
\* is interrupted, and never more than the interrupted waits have added
\* (lock_shmem, unlock_shmem, destroy_shmem).
THEOREM OneUnitHolds ==
    ASSUME Warm
    PROVE  Spec => []OneUnit
  <1>1. LockInv => OneUnit
    <2> SUFFICES ASSUME LockInv, sem.id # 0
                 PROVE  sem.val + Cardinality(Past) \in 1 .. 1 + interrupts
      BY DEF OneUnit
    <2>1. sem.val > 0 \/ Past # {}
      BY UnitThere DEF LockInv, Stable, Creating, Past
    <2>2. /\ Cardinality(Past) \in Nat /\ (Past # {} => Cardinality(Past) # 0)
          /\ sem.val \in Nat /\ interrupts \in Nat
          /\ sem.val + Cardinality(Past) <= 1 + interrupts
      BY PastFinite, FS_EmptySet DEF LockInv, ColdInv, TypeOK, Accounted
    <2> QED BY <2>1, <2>2
  <1> QED
    BY <1>1, LockInvariant, PTL

\* The semaphore with its adjustments implements the abstract lock: every
\* semop that succeeds enters, one that is interrupted is the interruption; a
\* release, a death in a section and the removal leave.
THEOREM LockRefinesMutex ==
    ASSUME Warm
    PROVE  Spec => ImplementsMutex
  <1>1. Init => Lk!Init
    BY LockInit DEF Lk!Init, Init
  <1>2. LockInv /\ TypeOK' /\ [Next]_vars => [Lk!Next]_(Lk!vars)
    BY LockStep
  <1> QED
    BY <1>1, <1>2, LockInvariant, TypeCorrect, PTL DEF Spec, ImplementsMutex, Lk!Spec

-----------------------------------------------------------------------------
(***************************************************************************)
(* The exit of the master (ExitMaster), for every size of the table, all    *)
(* tools, and every order in which signals, alarms and clients come.        *)
(***************************************************************************)

\* The lock stays with the master from its first loop to the end of its second;
\* before, it has signalled nobody.
HeldInv ==
    /\ at \in {"connect", "wait", "kill"} => lock = "master"
    /\ at = "wait" => i \in X!Slots
    /\ at = "start" => i = 1 /\ pid = 0

\* The slots the first loop has behind it.
Passed == {s \in X!Slots : at = "kill" \/ (at \in {"connect", "wait"} /\ s < i)}

\* A pid in one of them has been in the variable pid, and what is in that
\* variable was sent SIGTERM, unless it had gone.
PidInv ==
    /\ \A s \in Passed : helper_pid[s] # 0 => pid # 0
    /\ pid # 0 /\ pid \in alive => pid \in termed

ExitInv == X!TypeOK /\ HeldInv /\ PidInv /\ X!AskedFirst

\* The master has done nothing at first.
LEMMA InitExit ==
  ASSUME X!ExitAssumption
  PROVE  X!Init => ExitInv
  <1> SUFFICES ASSUME X!Init PROVE ExitInv
    OBVIOUS
  <1>1. X!TypeOK
    <2>1. /\ sock_path \subseteq X!Slots /\ alive \subseteq X!Connectors
          /\ helper_pid \in [X!Slots -> X!Connectors \cup {0}]
      BY DEF X!Init, X!Slots, X!Connectors
    <2>2. /\ lock = "free" /\ at = "start" /\ i = 1 /\ pid = 0 /\ dieing = 0
          /\ termed = {} /\ killed = {} /\ running = {} /\ done = {}
          /\ client \in [X!Connectors -> Tools \cup {NoTool}]
      BY DEF X!Init
    <2>3. i \in 1 .. NSlots + 1
      BY <2>2 DEF X!ExitAssumption
    <2> QED BY <2>1, <2>2, <2>3 DEF X!TypeOK
  <1>2. HeldInv /\ PidInv /\ X!AskedFirst
    BY DEF X!Init, HeldInv, PidInv, Passed, X!AskedFirst
  <1> QED BY <1>1, <1>2 DEF ExitInv

\* What tools and connectors do leaves the master where it is; they write to the
\* table only while the master does not hold the lock, and no connector comes back.
LEMMA OthersKeep ==
  ASSUME ExitInv, NEW c \in X!Connectors,
         X!Process(c) \/ X!Alarm(c) \/ \E t \in Tools : X!Serve(t, c)
  PROVE  ExitInv'
  <1>1. /\ UNCHANGED <<sock_path, lock, at, i, pid, dieing, termed, killed>>
        /\ alive' \subseteq alive
        /\ helper_pid' = helper_pid \/ (lock = "free" /\ helper_pid' = [helper_pid EXCEPT ![c] = c])
    BY DEF X!Process, X!WriteHelperPid, X!Leave, X!DieBySignal, X!Die, X!Alarm, X!Serve, X!table
  <1>2. /\ client' \in [X!Connectors -> Tools \cup {NoTool}]
        /\ running' \subseteq X!Connectors /\ done' \subseteq Tools
    <2> USE DEF ExitInv, X!TypeOK
    <2>1. CASE X!WriteHelperPid(c)
      BY <2>1 DEF X!WriteHelperPid
    <2>2. CASE X!Leave(c)
      BY <2>2 DEF X!Leave
    <2>3. CASE X!DieBySignal(c) \/ X!Die(c) \/ X!Alarm(c)
      BY <2>3 DEF X!DieBySignal, X!Die, X!Alarm
    <2>4. CASE \E t \in Tools : X!Serve(t, c)
      BY <2>4 DEF X!Serve
    <2> QED BY <2>1, <2>2, <2>3, <2>4 DEF X!Process
  <1>3. X!TypeOK'
    <2>1. helper_pid' \in [X!Slots -> X!Connectors \cup {0}]
      BY <1>1 DEF ExitInv, X!TypeOK
    <2> QED BY <1>1, <1>2, <2>1 DEF ExitInv, X!TypeOK
  <1>4. HeldInv'
    BY <1>1 DEF ExitInv, HeldInv
  <1>5. PidInv'
    <2>1. Passed' = Passed
      BY <1>1 DEF Passed
    <2>2. CASE helper_pid' = helper_pid
      BY <1>1, <2>1, <2>2 DEF ExitInv, PidInv
    <2>3. CASE lock = "free"
      <3>1. Passed = {}
        BY <2>3 DEF Passed, ExitInv, HeldInv
      <3> QED BY <1>1, <2>1, <3>1 DEF ExitInv, PidInv
    <2> QED BY <1>1, <2>2, <2>3
  <1>6. X!AskedFirst'
    BY <1>1 DEF ExitInv, X!AskedFirst
  <1> QED BY <1>3, <1>4, <1>5, <1>6 DEF ExitInv

\* A step of the first loop passes one slot and leaves its pid in the variable; a
\* step of the second signals that variable and nothing else.
LEMMA MasterKeeps ==
  ASSUME X!ExitAssumption, ExitInv, X!MasterStep
  PROVE  ExitInv'
  <1>0. /\ X!TypeOK /\ HeldInv /\ PidInv /\ X!AskedFirst
        /\ NSlots \in Nat \ {0} /\ i \in 1 .. NSlots + 1
    BY DEF ExitInv, X!TypeOK, X!ExitAssumption
  <1>1. CASE X!GetShmem
    <2>1. /\ at = "start" /\ at' = "connect" /\ lock' = "master"
          /\ UNCHANGED <<X!table, X!procs, i, pid, dieing, termed, killed>>
      BY <1>1 DEF X!GetShmem
    <2>2. X!TypeOK'
      BY <1>0, <2>1 DEF X!table, X!procs, X!TypeOK
    <2>3. Passed' = {}
      BY <1>0, <2>1 DEF HeldInv, Passed, X!Slots
    <2>4. HeldInv' /\ PidInv' /\ X!AskedFirst'
      BY <1>0, <2>1, <2>3 DEF X!table, X!procs, HeldInv, PidInv, X!AskedFirst
    <2> QED BY <2>2, <2>4 DEF ExitInv
  <1>2. CASE X!Connect
    <2>1. /\ at = "connect" /\ at' = "wait" /\ i \in X!Slots /\ dieing' \in X!Connectors \cup {0}
          /\ UNCHANGED <<X!table, X!procs, lock, i, pid, termed, killed>>
      BY <1>2 DEF X!Connect, X!Slots, X!Connectors
    <2>2. X!TypeOK'
      BY <1>0, <2>1 DEF X!table, X!procs, X!TypeOK
    <2>3. Passed' = Passed
      BY <2>1 DEF Passed
    <2>4. HeldInv' /\ PidInv' /\ X!AskedFirst'
      BY <1>0, <2>1, <2>3 DEF X!table, X!procs, HeldInv, PidInv, X!AskedFirst
    <2> QED BY <2>2, <2>4 DEF ExitInv
  <1>3. CASE X!Signal
    <2>1. /\ at = "wait" /\ at' = "connect" /\ i \in X!Slots /\ i' = i + 1 /\ dieing' = 0
          /\ UNCHANGED <<X!table, X!procs, lock, killed>>
      BY <1>0, <1>3 DEF X!Signal, HeldInv
    <2>2. /\ pid' = IF helper_pid[i] # 0 THEN helper_pid[i] ELSE pid
          /\ termed' = IF helper_pid[i] \in alive THEN termed \cup {helper_pid[i]} ELSE termed
          /\ helper_pid[i] \in X!Connectors \cup {0}
      BY <1>0, <1>3, <2>1 DEF X!Signal, X!TypeOK
    <2>3. X!TypeOK'
      <3>1. pid' \in X!Connectors \cup {0}
        BY <1>0, <2>2 DEF X!TypeOK
      <3>2. termed' \subseteq X!Connectors
        BY <1>0, <2>2 DEF X!TypeOK
      <3>3. i' \in 1 .. NSlots + 1
        BY <1>0, <2>1 DEF X!Slots
      <3> QED BY <1>0, <2>1, <3>1, <3>2, <3>3 DEF X!table, X!procs, X!TypeOK
    <2>4. Passed' = Passed \cup {i}
      BY <1>0, <2>1 DEF Passed, X!Slots
    <2>5. PidInv'
      BY <1>0, <2>1, <2>2, <2>4 DEF X!table, X!procs, PidInv
    <2>6. HeldInv' /\ X!AskedFirst'
      BY <1>0, <2>1, <2>2 DEF HeldInv, X!AskedFirst
    <2> QED BY <2>3, <2>5, <2>6 DEF ExitInv
  <1>4. CASE X!Sleep
    <2>1. /\ at = "connect" /\ i > NSlots /\ at' = "kill" /\ i' = 1
          /\ UNCHANGED <<X!table, X!procs, lock, pid, dieing, termed, killed>>
      BY <1>4 DEF X!Sleep
    <2>2. X!TypeOK'
      BY <1>0, <2>1 DEF X!table, X!procs, X!TypeOK
    <2>3. Passed' = X!Slots /\ Passed = X!Slots
      BY <1>0, <2>1 DEF Passed, X!Slots
    <2>4. HeldInv' /\ PidInv' /\ X!AskedFirst'
      BY <1>0, <2>1, <2>3 DEF X!table, X!procs, HeldInv, PidInv, X!AskedFirst
    <2> QED BY <2>2, <2>4 DEF ExitInv
  <1>5. CASE X!Kill
    <2>1. /\ at = "kill" /\ at' = "kill" /\ i \in X!Slots /\ i' = i + 1
          /\ UNCHANGED <<X!table, X!procs, lock, pid, dieing, termed>>
          /\ killed' = IF helper_pid[i] # 0 /\ pid \in alive \cup {0} THEN killed \cup {pid} ELSE killed
      BY <1>5 DEF X!Kill
    <2>2. Passed = X!Slots /\ Passed' = X!Slots
      BY <2>1 DEF Passed
    <2>3. killed' = killed \/ (pid \in termed /\ killed' = killed \cup {pid})
      BY <1>0, <2>1, <2>2 DEF PidInv
    <2>4. X!TypeOK'
      <3>1. i' \in 1 .. NSlots + 1
        BY <1>0, <2>1 DEF X!Slots
      <3>2. killed' \subseteq X!Connectors \cup {0}
        BY <1>0, <2>3 DEF X!TypeOK
      <3> QED BY <1>0, <2>1, <3>1, <3>2 DEF X!table, X!procs, X!TypeOK
    <2>5. HeldInv' /\ PidInv' /\ X!AskedFirst'
      BY <1>0, <2>1, <2>2, <2>3 DEF X!table, X!procs, HeldInv, PidInv, X!AskedFirst
    <2> QED BY <2>4, <2>5 DEF ExitInv
  <1>6. CASE X!Release
    <2>1. /\ at = "kill" /\ at' = "end" /\ lock' = "removed"
          /\ UNCHANGED <<X!table, X!procs, i, pid, dieing, termed, killed>>
      BY <1>6 DEF X!Release
    <2>2. X!TypeOK'
      BY <1>0, <2>1 DEF X!table, X!procs, X!TypeOK
    <2>3. HeldInv' /\ PidInv' /\ X!AskedFirst'
      BY <1>0, <2>1 DEF X!table, X!procs, HeldInv, PidInv, Passed, X!AskedFirst
    <2> QED BY <2>2, <2>3 DEF ExitInv
  <1> QED BY <1>1, <1>2, <1>3, <1>4, <1>5, <1>6 DEF X!MasterStep

\* Every step is the master's or one of the others.
LEMMA StepExit ==
  ASSUME X!ExitAssumption
  PROVE  ExitInv /\ [X!Next]_X!vars => ExitInv'
  <1> SUFFICES ASSUME ExitInv, [X!Next]_X!vars PROVE ExitInv'
    OBVIOUS
  <1>1. CASE X!MasterStep
    BY <1>1, MasterKeeps
  <1>2. CASE \E c \in X!Connectors : X!Process(c) \/ X!Alarm(c) \/ \E t \in Tools : X!Serve(t, c)
    BY <1>2, OthersKeep
  <1>3. CASE UNCHANGED X!vars
    BY <1>3 DEF X!vars, X!table, X!procs, ExitInv, X!TypeOK, HeldInv, PidInv, Passed, X!AskedFirst
  <1> QED BY <1>1, <1>2, <1>3 DEF X!Next

\* A step of the server is one of the exit, or leaves what the exit is about.
LEMMA ExitHolds ==
  ASSUME X!ExitAssumption
  PROVE  MCSpec => []ExitInv
  <1>1. MCInit => ExitInv
    BY InitExit DEF MCInit
  <1>2. ExitInv /\ [MCNext]_all => ExitInv'
    <2>1. [MCNext]_all => [X!Next]_X!vars
      BY DEF MCNext, all, exitvars, X!vars, X!table, X!procs
    <2> QED
      BY <2>1, StepExit
  <1> QED
    BY <1>1, <1>2, PTL DEF MCSpec

\* In every state the master's index is one of the table or the one after it,
\* and its variable pid a connector's or 0 (ngx_http_dbrelay_module.c 124 to 156).
THEOREM ExitTypeCorrect ==
  ASSUME X!ExitAssumption
  PROVE  MCSpec => []X!TypeOK
  <1>1. ExitInv => X!TypeOK
    BY DEF ExitInv
  <1> QED
    BY <1>1, ExitHolds, PTL

\* The second loop kills nobody who was not asked to leave, and never the
\* master's own group by kill(0, SIGKILL), though the pid it signals is what the
\* first loop left behind (ngx_http_dbrelay_module.c 136 to 153).
THEOREM AskedFirstHolds ==
  ASSUME X!ExitAssumption
  PROVE  MCSpec => []AskedFirst
  <1>1. ExitInv => AskedFirst
    BY DEF ExitInv, AskedFirst
  <1> QED
    BY <1>1, ExitHolds, PTL

\* What the theorems say of the lock holds beside the master's exit, that is in
\* the specification which the run checks (shmem.c).
THEOREM LockOfLifecycle ==
  ASSUME Warm
  PROVE  MCSpec => []MutualExclusion /\ []OneUnit /\ ImplementsMutex
  <1>1. MCInit => Init
    BY DEF MCInit
  <1>2. [MCNext]_all => [Next]_vars
    BY DEF MCNext, all
  <1>3. MCSpec => Spec
    BY <1>1, <1>2, PTL DEF MCSpec, Spec
  <1> QED
    BY <1>3, MutualExclusionHolds, OneUnitHolds, LockRefinesMutex, PTL
=============================================================================
