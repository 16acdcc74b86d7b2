---------------------------- MODULE ConnPoolProofs ----------------------------
(* Theorems about the connection pool, for every value of its constants. *)
EXTENDS ConnPool, FiniteSetTheorems, TLAPS

-----------------------------------------------------------------------------
(* What the operators on one slot preserve. *)

LEMMA ConnectionOps ==
    ASSUME NEW r \in Connection, now \in Nat
    PROVE  /\ Acquire(r) \in Connection
           /\ Release(r) \in Connection
           /\ ZeroConnection(r) \in Connection
           /\ [r EXCEPT !.pid = NoPid] \in Connection
           /\ \A h \in Paths : [r EXCEPT !.helper = h] \in Connection
           /\ \A t : SweepConnection(r, t) \in Connection
  <1>1. InUseMod \in Nat \ {0, 1}
    BY ConnPoolAssumption
  <1>2. \A n \in Int : n % InUseMod \in 0 .. InUseMod - 1
    BY <1>1
  <1>3. r.inUse \in Int /\ 0 \in 0 .. InUseMod - 1
    BY <1>1 DEF Connection
  <1>4. (r.inUse + 1) % InUseMod \in 0 .. InUseMod - 1
    <2>1. r.inUse + 1 \in Int
      BY <1>3
    <2> QED
      BY <1>2, <2>1
  <1>5. (r.inUse + InUseMod - 1) % InUseMod \in 0 .. InUseMod - 1
    <2>1. r.inUse + InUseMod - 1 \in Int
      BY <1>1, <1>3
    <2> QED
      BY <1>2, <2>1
  <1>6. ZeroConnection(r) \in Connection
    BY <1>3 DEF ZeroConnection, Connection, Pids
  <1>7. Acquire(r) \in Connection /\ Release(r) \in Connection
    BY <1>4, <1>5 DEF Acquire, Release, Connection
  <1> QED
    BY <1>6, <1>7 DEF SweepConnection, Connection, Pids

LEMMA PopulateType ==
    ASSUME Typed, NEW w \in Workers, NEW db \in Pids, NEW c \in Paths
    PROVE  PopulateConnection(w, db, c) \in Connection
  <1>1. InUseMod \in Nat \ {0, 1} /\ DefaultTimeout \in Nat /\ Timeouts \subseteq Nat
    BY ConnPoolAssumption
  <1>2. EffectiveTimeout(req[w].timeout) \in Nat
    BY <1>1 DEF EffectiveTimeout, Typed, Requests
  <1> QED
    BY <1>1, <1>2 DEF PopulateConnection, Typed, Connection, Requests, Pids, Paths

LEMMA EmptyTypes ==
    /\ EmptyConnection \in Connection /\ NoRequest \in Requests
    /\ NoConnector \in Connector /\ NewConnector \in Connector
  BY ConnPoolAssumption
     DEF EmptyConnection, Connection, NoRequest, Requests, NoConnector, NewConnector,
         Connector, Pids, Paths

\* A finished request leaves typed locals behind.
LEMMA ReplyType ==
    ASSUME Typed, NEW w \in Workers, Reply(w)
    PROVE  /\ pc' \in [Workers -> PcValues] /\ req' \in [Workers -> Requests]
           /\ slot' \in [Workers -> Slots \cup {NoSlot}]
           /\ copy' \in [Workers -> Connection] /\ seen' \in [Workers -> Nat]
           /\ hpid' \in [Workers -> Paths]
  BY EmptyTypes DEF Typed, Reply, Goto, PcValues, Paths

-----------------------------------------------------------------------------
(* A step of one worker leaves the private state of the others alone.          *)

ProcessStep(w) == WorkerStep(w) \/ Request(w) \/ KillRequest(w) \/ Crash(w)
OtherStep == Tick \/ (\E c \in Socks : ConnectorExit(c)) \/ UNCHANGED vars

LEMMA OthersKept ==
    ASSUME Typed, NEW v \in Workers, ProcessStep(v), NEW w \in Workers \ {v}
    PROVE  pc'[w] = pc[w] /\ req'[w] = req[w] /\ slot'[w] = slot[w]
  BY DEF ProcessStep, WorkerStep, Request, OpenConnection, FindConnection, AllocConnection,
     AllocIn, PoolExhausted, CloseConnections, CopyConnection, Connect, ConnectFails, ClearSlot,
     Helo, HeloFails, HeloGarbage, WriteHelperPid, RunNamed, RunUnnamed, FreeConnection,
     KillRequest, KillConnector, KillFind, KillClose, Crash, Reply, Goto, locals, Typed

LEMMA OtherStepKeeps ==
    ASSUME OtherStep
    PROVE  UNCHANGED <<slots, pc, req, slot>>
  BY DEF OtherStep, Tick, ConnectorExit, locals, vars

LEMMA StepCases ==
    ASSUME [Next]_vars
    PROVE  OtherStep \/ \E w \in Workers : ProcessStep(w)
  BY DEF OtherStep, ProcessStep, Next

-----------------------------------------------------------------------------
(* Type correctness.  Typed is inductive only together with HasSlot.         *)

LEMMA TypeInit == Init => Typed
  BY EmptyTypes, ConnPoolAssumption DEF Init, Typed, PcValues, Paths, NoSlot

LEMMA TypeStep == Typed /\ HasSlot /\ [Next]_vars => Typed'
  <1> SUFFICES ASSUME Typed, HasSlot, [Next]_vars PROVE Typed'
    OBVIOUS
  <1>1. ASSUME NEW w \in Workers, Request(w) PROVE Typed'
    <2>1. PICK n \in Asked, t \in Timeouts :
             /\ req' = [req EXCEPT ![w] = [NoRequest EXCEPT !.name = n, !.timeout = t]]
             /\ Goto(w, IF n = NoName THEN "open" ELSE "find")
      BY <1>1 DEF Request
    <2>2. [NoRequest EXCEPT !.name = n, !.timeout = t] \in Requests
      BY ConnPoolAssumption DEF Requests, NoRequest, Paths
    <2>3. req' \in [Workers -> Requests] /\ pc' \in [Workers -> PcValues]
      BY <2>1, <2>2 DEF Typed, Goto, PcValues
    <2> QED
      BY <1>1, <2>3 DEF Request, Typed
  <1>2. ASSUME NEW w \in Workers, OpenConnection(w) PROVE Typed'
    BY <1>2 DEF OpenConnection, Goto, Typed, PcValues, locals
  <1>3. ASSUME NEW w \in Workers, FindConnection(w) PROVE Typed'
    <2>1. slots' \in [Slots -> Connection] /\ slot' \in [Workers -> Slots \cup {NoSlot}]
      <3>1. CASE slots' = slots /\ slot' = slot
        BY <3>1 DEF Typed
      <3>2. ASSUME NEW s \in Slots, slots' = [slots EXCEPT ![s] = Acquire(@)],
                   slot' = [slot EXCEPT ![w] = s]
            PROVE  <2>1
        BY <3>2, ConnectionOps DEF Typed
      <3> QED
        BY <1>3, <3>1, <3>2 DEF FindConnection, First
    <2>2. pc' \in [Workers -> PcValues] /\ seen' \in [Workers -> Nat]
      BY <1>3 DEF FindConnection, Goto, Typed, PcValues
    <2> QED
      BY <1>3, <2>1, <2>2 DEF FindConnection, Typed
  <1>4. ASSUME NEW w \in Workers, AllocConnection(w) PROVE Typed'
    <2>1. PICK s \in Slots : AllocIn(w, s)
      BY <1>4 DEF AllocConnection, First, FreeSlots
    <2>2. slots' \in [Slots -> Connection]
      <3>1. PICK db \in Pids, c \in Paths :
               slots' = [slots EXCEPT ![s] = PopulateConnection(w, db, c)]
        BY <2>1 DEF AllocIn, Fresh, Pids, Paths
      <3> QED
        BY <3>1, PopulateType DEF Typed
    <2>3. conns' \in [Socks -> Connector] /\ faults' \in Nat
      BY <2>1, EmptyTypes DEF AllocIn, Fresh, Fail, Typed
    <2>4. /\ slot' \in [Workers -> Slots \cup {NoSlot}]
          /\ pc' \in [Workers -> PcValues] /\ seen' \in [Workers -> Nat]
      BY <1>4, <2>1 DEF AllocConnection, AllocIn, Goto, Typed, PcValues
    <2> QED
      BY <1>4, <2>2, <2>3, <2>4 DEF AllocConnection, Typed
  <1>5. ASSUME NEW w \in Workers, PoolExhausted(w) PROVE Typed'
    BY <1>5 DEF PoolExhausted, Goto, Typed, PcValues
  <1>6. ASSUME NEW w \in Workers, CloseConnections(w) PROVE Typed'
    <2>1. slots' \in [Slots -> Connection] /\ open' \subseteq Workers /\ wild' \subseteq Workers
      <3>1. PICK t \in seen[w] .. now :
               /\ slots' = [s \in Slots |-> SweepConnection(slots[s], t)]
               /\ open' \subseteq open /\ wild' \subseteq wild \cup {w}
        BY <1>6 DEF CloseConnections, CloseHandles
      <3>2. \A s \in Slots : SweepConnection(slots[s], t) \in Connection
        BY ConnectionOps DEF Typed
      <3> QED
        BY <3>1, <3>2 DEF Typed
    <2>2. CASE Reply(w)
      BY <1>6, <2>1, <2>2, ReplyType DEF CloseConnections, Typed
    <2>3. CASE ~ Reply(w)
      BY <1>6, <2>1, <2>3 DEF CloseConnections, Goto, Typed, PcValues
    <2> QED
      BY <2>2, <2>3
  <1>7. ASSUME NEW w \in Workers, CopyConnection(w) PROVE Typed'
    BY <1>7 DEF CopyConnection, HasSlot, AtSlot, Goto, Typed, PcValues
  <1>8. ASSUME NEW w \in Workers, Connect(w) PROVE Typed'
    BY <1>8 DEF Connect, Goto, Typed, PcValues, locals
  <1>9. ASSUME NEW w \in Workers, ConnectFails(w) PROVE Typed'
    <2>1. \A x \in Socks : /\ NoConnector \in Connector /\ conns[x] \in Connector
                           /\ [conns[x] EXCEPT !.state = "hidden"] \in Connector
      BY EmptyTypes DEF Typed, Connector
    <2>2. conns' \in [Socks -> Connector]
      BY <1>9, <2>1 DEF ConnectFails
    <2>3. faults' \in Nat /\ pc' \in [Workers -> PcValues]
      BY <1>9 DEF ConnectFails, Fail, Goto, Typed, PcValues
    <2> QED
      BY <1>9, <2>2, <2>3 DEF ConnectFails, Typed, locals
  <1>10. ASSUME NEW w \in Workers, ClearSlot(w) PROVE Typed'
    BY <1>10, ConnectionOps, EmptyTypes DEF ClearSlot, Goto, Typed, PcValues
  <1>11. ASSUME NEW w \in Workers, Helo(w) PROVE Typed'
    <2>1. PICK c \in Socks : /\ conns' = [conns EXCEPT ![c].client = w]
                             /\ hpid' = [hpid EXCEPT ![w] = c]
      BY <1>11 DEF Helo, Running
    <2>2. conns' \in [Socks -> Connector] /\ hpid' \in [Workers -> Paths]
      BY <2>1 DEF Typed, Connector, Pids, Paths
    <2> QED
      BY <1>11, <2>2 DEF Helo, Goto, Typed, PcValues
  <1>12. ASSUME NEW w \in Workers, HeloFails(w) PROVE Typed'
    BY <1>12, ReplyType DEF HeloFails, Typed
  <1>13. ASSUME NEW w \in Workers, HeloGarbage(w) PROVE Typed'
    BY <1>13 DEF HeloGarbage, Fail, Goto, Typed, PcValues, Paths
  <1>14. ASSUME NEW w \in Workers, WriteHelperPid(w) PROVE Typed'
    BY <1>14, ConnectionOps DEF WriteHelperPid, Goto, Typed, PcValues, locals
  <1>15. ASSUME NEW w \in Workers, RunNamed(w) PROVE Typed'
    BY <1>15 DEF RunNamed, Running, Goto, Typed, PcValues, locals, Connector, Pids, Requests
  <1>16. ASSUME NEW w \in Workers, RunUnnamed(w) PROVE Typed'
    BY <1>16 DEF RunUnnamed, Goto, Typed, PcValues, locals
  <1>17. ASSUME NEW w \in Workers, FreeConnection(w) PROVE Typed'
    BY <1>17, ConnectionOps, ReplyType DEF FreeConnection, CloseHandles, Typed
  <1>18. ASSUME NEW w \in Workers, KillRequest(w) PROVE Typed'
    BY <1>18, EmptyTypes DEF KillRequest, Fail, Goto, Typed, PcValues, Requests, NoRequest, Paths
  <1>19. ASSUME NEW w \in Workers, KillConnector(w) PROVE Typed'
    BY <1>19, EmptyTypes DEF KillConnector, Goto, Typed, PcValues, locals
  <1>20. ASSUME NEW w \in Workers, KillFind(w) PROVE Typed'
    BY <1>20, ReplyType DEF KillFind, Last, Goto, Typed, PcValues
  <1>21. ASSUME NEW w \in Workers, KillClose(w) PROVE Typed'
    BY <1>21, ConnectionOps, ReplyType DEF KillClose, CloseHandles, Typed
  <1>22. ASSUME NEW c \in Socks, ConnectorExit(c) PROVE Typed'
    BY <1>22, EmptyTypes DEF ConnectorExit, Fail, Typed, locals
  <1>23. ASSUME NEW w \in Workers, Crash(w) PROVE Typed'
    BY <1>23 DEF Crash, Fail, Goto, Typed, PcValues, locals, Connector, Pids
  <1>24. CASE Tick
    BY <1>24 DEF Tick, Typed, locals
  <1>25. CASE UNCHANGED vars
    BY <1>25 DEF vars, locals, Typed
  <1> QED
    BY <1>1, <1>2, <1>3, <1>4, <1>5, <1>6, <1>7, <1>8, <1>9, <1>10, <1>11, <1>12, <1>13,
       <1>14, <1>15, <1>16, <1>17, <1>18, <1>19, <1>20, <1>21, <1>22, <1>23, <1>24, <1>25
       DEF Next, WorkerStep

LEMMA HasSlotStep == Typed /\ HasSlot /\ [Next]_vars => HasSlot'
  <1> SUFFICES ASSUME Typed, HasSlot, [Next]_vars PROVE HasSlot'
    OBVIOUS
  <1>1. ASSUME NEW w \in Workers, ProcessStep(w), pc'[w] \in AtSlot
        PROVE  slot'[w] \in Slots
    BY <1>1 DEF ProcessStep, WorkerStep, Request, OpenConnection, FindConnection, AllocConnection,
       AllocIn, PoolExhausted, CloseConnections, CopyConnection, Connect, ConnectFails, ClearSlot,
       Helo, HeloFails, HeloGarbage, WriteHelperPid, RunNamed, RunUnnamed, FreeConnection,
       KillRequest, KillConnector, KillFind, KillClose, Crash, Reply, Goto, locals, Typed,
       HasSlot, AtSlot, First, Last, FreeSlots
  <1>2. CASE OtherStep
    BY <1>2, OtherStepKeeps DEF HasSlot
  <1> QED
    BY <1>1, <1>2, StepCases, OthersKept DEF HasSlot

\* The type invariant of the pool (dbrelay.h:134-150 and the locals of
\* dbrelay_db_run_query); a worker past alloc has a slot.
THEOREM TypeCorrect == Spec => []TypeOK
  <1>1. Init => HasSlot
    BY DEF Init, HasSlot, AtSlot
  <1> QED
    BY <1>1, TypeInit, TypeStep, HasSlotStep, PTL DEF Spec, TypeOK

-----------------------------------------------------------------------------
(* Duplicate slots.  A worker that is about to allocate for a name missed it *)
(* in find_connection; since then other workers may have allocated for that  *)
(* name, but the worker itself has not.                                      *)

Owns(w, n) == \E s \in Slots : slots[s].name = n /\ slots[s].pid = w

AllocMissed == \A w \in Workers : pc[w] = "alloc" /\ req[w].name # NoName
                                    => ~ Owns(w, req[w].name)
OpenUnnamed == \A w \in Workers : pc[w] = "open" => req[w].name = NoName

DupInv == OneSlotPerCreator /\ AllocMissed /\ OpenUnnamed

\* What a step other than alloc may do to the creators and names of the table:
\* leave an entry or clear it.
Keeps == \A s \in Slots : \/ slots'[s].pid = NoPid
                          \/ slots'[s].pid = slots[s].pid /\ slots'[s].name = slots[s].name

LEMMA OpsKeep ==
    ASSUME NEW r \in Connection
    PROVE  /\ Acquire(r).pid = r.pid /\ Acquire(r).name = r.name
           /\ Release(r).pid = r.pid /\ Release(r).name = r.name
           /\ ZeroConnection(r).pid = NoPid
           /\ \A t : SweepConnection(r, t) = r \/ SweepConnection(r, t).pid = NoPid
  <1>1. ZeroConnection(r).pid = NoPid
    BY DEF ZeroConnection, Connection
  <1> QED
    BY <1>1 DEF Acquire, Release, SweepConnection, Connection

LEMMA KeepsStep ==
    ASSUME Typed, [Next]_vars, \A w \in Workers : ~ AllocConnection(w)
    PROVE  Keeps
  <1>0. \A s \in Slots : slots[s] \in Connection
    BY DEF Typed
  <1>1. ASSUME NEW w \in Workers, CloseConnections(w) PROVE Keeps
    <2>1. PICK t \in seen[w] .. now : slots' = [s \in Slots |-> SweepConnection(slots[s], t)]
      BY <1>1 DEF CloseConnections
    <2> QED
      BY <1>0, <2>1, OpsKeep DEF Keeps
  <1>2. ASSUME NEW s \in Slots, slots' = [slots EXCEPT ![s] = slots'[s]],
               \/ slots'[s].pid = NoPid
               \/ slots'[s].pid = slots[s].pid /\ slots'[s].name = slots[s].name
        PROVE  Keeps
    BY <1>2 DEF Keeps, Typed
  <1>3. CASE UNCHANGED slots
    BY <1>3 DEF Keeps
  <1>4. ASSUME NEW w \in Workers, FindConnection(w) PROVE Keeps
    BY <1>0, <1>3, <1>4, OpsKeep DEF FindConnection, First, Keeps, Typed
  <1>5. ASSUME NEW w \in Workers, ClearSlot(w) PROVE Keeps
    BY <1>0, <1>5 DEF ClearSlot, Keeps, Typed, Connection
  <1>6. ASSUME NEW w \in Workers, WriteHelperPid(w) PROVE Keeps
    BY <1>0, <1>6 DEF WriteHelperPid, Keeps, Typed, Connection
  <1>7. ASSUME NEW w \in Workers, FreeConnection(w) PROVE Keeps
    <2>1. \A s \in Slots : /\ Release(slots[s]) \in Connection
                           /\ ZeroConnection(Release(slots[s])).pid = NoPid
      BY <1>0, ConnectionOps, OpsKeep DEF Typed
    <2> QED
      BY <1>0, <1>7, <2>1, OpsKeep DEF FreeConnection, Keeps, Typed
  <1>8. ASSUME NEW w \in Workers, KillClose(w) PROVE Keeps
    BY <1>0, <1>8, OpsKeep DEF KillClose, Keeps, Typed
  <1>9. ASSUME NEW w \in Workers, ProcessStep(w) PROVE Keeps
    BY <1>1, <1>3, <1>4, <1>5, <1>6, <1>7, <1>8, <1>9 DEF ProcessStep, WorkerStep, Request,
       OpenConnection, PoolExhausted, CopyConnection, Connect, ConnectFails, Helo, HeloFails,
       HeloGarbage, RunNamed, RunUnnamed, KillRequest, KillConnector, KillFind, Crash
  <1> QED
    BY <1>3, <1>9, StepCases, OtherStepKeeps

\* Who is about to allocate after a step was so before, or has just missed.
LEMMA AllocPc ==
    ASSUME Typed, OpenUnnamed, [Next]_vars,
           NEW w \in Workers, pc'[w] = "alloc", req'[w].name # NoName
    PROVE  /\ req'[w] = req[w]
           /\ ~ AllocConnection(w)
           /\ \/ pc[w] = "alloc"
              \/ slots' = slots /\ ~ Owns(w, req[w].name)
  <1>1. ASSUME ProcessStep(w)
        PROVE  slots' = slots /\ req' = req /\ ~ Owns(w, req[w].name)
    <2>1. FindConnection(w) \/ OpenConnection(w)
      BY <1>1 DEF ProcessStep, WorkerStep, Request, AllocConnection, AllocIn,
         PoolExhausted, CloseConnections, CopyConnection, Connect, ConnectFails, ClearSlot, Helo,
         HeloFails, HeloGarbage, WriteHelperPid, RunNamed, RunUnnamed, FreeConnection,
         KillRequest, KillConnector, KillFind, KillClose, Crash, Reply, Goto, locals, Typed
    <2>2. ~ OpenConnection(w)
      BY DEF OpenConnection, OpenUnnamed, locals
    <2>3. slots' = slots /\ req' = req /\ {s \in Slots : Match(slots[s], req[w].name)} = {}
      BY <2>1, <2>2 DEF FindConnection, Goto, Typed
    <2> QED
      BY <2>3, ConnPoolAssumption DEF Owns, Match
  <1>2. ~ AllocConnection(w)
    BY DEF AllocConnection, Goto, Typed
  <1>3. CASE OtherStep
    BY <1>2, <1>3, OtherStepKeeps
  <1>4. ASSUME NEW v \in Workers, ProcessStep(v)
        PROVE  /\ req'[w] = req[w]
               /\ \/ pc[w] = "alloc"
                  \/ slots' = slots /\ ~ Owns(w, req[w].name)
    <2>1. CASE v = w
      BY <1>1, <1>4, <2>1
    <2>2. CASE v # w
      BY <1>4, <2>2, OthersKept
    <2> QED
      BY <2>1, <2>2
  <1> QED
    BY <1>2, <1>3, <1>4, StepCases

LEMMA DupStep ==
    Typed /\ DupInv /\ [Next]_vars => DupInv'
  <1> SUFFICES ASSUME Typed, DupInv, [Next]_vars PROVE DupInv'
    OBVIOUS
  <1>1. OpenUnnamed'
    <2>1. ASSUME NEW w \in Workers, pc'[w] = "open" PROVE req'[w].name = NoName
      <3>1. ASSUME ProcessStep(w) PROVE Request(w)
        BY <2>1, <3>1 DEF ProcessStep, WorkerStep, OpenConnection, FindConnection, AllocConnection,
           AllocIn, PoolExhausted, CloseConnections, CopyConnection, Connect, ConnectFails,
           ClearSlot, Helo, HeloFails, HeloGarbage, WriteHelperPid, RunNamed, RunUnnamed,
           FreeConnection, KillRequest, KillConnector, KillFind, KillClose, Crash, Reply, Goto,
           locals, Typed
      <3>2. ASSUME Request(w) PROVE req'[w].name = NoName
        BY <2>1, <3>2 DEF Request, Goto, Typed, NoRequest, Requests
      <3>3. CASE OtherStep
        BY <2>1, <3>3, OtherStepKeeps DEF DupInv, OpenUnnamed
      <3>4. ASSUME NEW v \in Workers, ProcessStep(v), v # w PROVE req'[w].name = NoName
        BY <2>1, <3>4, OthersKept DEF DupInv, OpenUnnamed
      <3> QED
        BY <3>1, <3>2, <3>3, <3>4, StepCases
    <2> QED
      BY <2>1 DEF OpenUnnamed
  <1>2. CASE \A w \in Workers : ~ AllocConnection(w)
    <2>1. Keeps
      BY <1>2, KeepsStep
    <2>2. OneSlotPerCreator'
      BY <2>1 DEF Keeps, DupInv, OneSlotPerCreator, InUse
    <2>3. AllocMissed'
      <3> SUFFICES ASSUME NEW w \in Workers, pc'[w] = "alloc", req'[w].name # NoName,
                          NEW s \in Slots, slots'[s].name = req'[w].name, slots'[s].pid = w
                   PROVE  FALSE
        BY DEF AllocMissed, Owns
      <3>1. ~ Owns(w, req[w].name) /\ req'[w] = req[w]
        BY AllocPc DEF DupInv, AllocMissed
      <3> QED
        BY <2>1, <3>1, ConnPoolAssumption DEF Keeps, Owns
    <2> QED
      BY <1>1, <2>2, <2>3 DEF DupInv
  <1>3. ASSUME NEW w \in Workers, AllocConnection(w) PROVE DupInv'
    <2>1. PICK s \in Slots : AllocIn(w, s)
      BY <1>3 DEF AllocConnection, First, FreeSlots
    <2>2. PICK db, c : slots' = [slots EXCEPT ![s] = PopulateConnection(w, db, c)]
      BY <2>1 DEF AllocIn
    <2>3. /\ slots'[s].pid = w /\ slots'[s].name = req[w].name
          /\ \A t \in Slots \ {s} : slots'[t] = slots[t]
      BY <2>2 DEF PopulateConnection, Typed
    <2>4. \A t \in Slots : slots[t].pid = w /\ slots[t].name = req[w].name
                              => req[w].name = NoName
      BY <1>3, ConnPoolAssumption DEF AllocConnection, DupInv, AllocMissed, Owns
    <2>5. OneSlotPerCreator'
      BY <2>3, <2>4 DEF DupInv, OneSlotPerCreator, InUse
    <2>6. AllocMissed'
      <3> SUFFICES ASSUME NEW v \in Workers, pc'[v] = "alloc", req'[v].name # NoName,
                          NEW t \in Slots, slots'[t].name = req'[v].name, slots'[t].pid = v
                   PROVE  FALSE
        BY DEF AllocMissed, Owns
      <3>1. pc'[w] = "sweep" /\ req' = req /\ \A u \in Workers \ {w} : pc'[u] = pc[u]
        BY <1>3 DEF AllocConnection, Goto, Typed
      <3>2. v # w /\ ~ Owns(v, req[v].name)
        BY <3>1 DEF DupInv, AllocMissed
      <3> QED
        BY <2>3, <3>1, <3>2 DEF Owns
    <2> QED
      BY <1>1, <2>5, <2>6 DEF DupInv
  <1> QED
    BY <1>2, <1>3

\* One worker process never owns two pool slots of the same connection,
\* whatever fails (get_connection: find, then alloc in a section of its own).
THEOREM OneSlotPerCreatorHolds == Spec => []OneSlotPerCreator
  <1>1. Init => HasSlot /\ DupInv
    BY ConnPoolAssumption DEF Init, HasSlot, AtSlot, DupInv, OneSlotPerCreator, AllocMissed,
       OpenUnnamed, Owns, InUse, EmptyConnection
  <1>2. DupInv => OneSlotPerCreator
    BY DEF DupInv
  <1> QED
    BY <1>1, <1>2, TypeInit, TypeStep, HasSlotStep, DupStep, PTL DEF Spec

\* ... so the pool never holds more slots for one connection than there are
\* workers: the pid field is an injection from the slots into the workers.
THEOREM DuplicatesBoundedHolds == Spec => []DuplicatesBounded
  <1>1. Typed /\ OneSlotPerCreator => DuplicatesBounded
    <2> SUFFICES ASSUME Typed, OneSlotPerCreator, NEW n \in Names
                 PROVE  Cardinality({s \in Slots : InUse(s) /\ slots[s].name = n})
                        <= Cardinality(Workers)
      BY DEF DuplicatesBounded
    <2> DEFINE S == {s \in Slots : InUse(s) /\ slots[s].name = n}
               f == [s \in S |-> slots[s].pid]
    <2>1. f \in [S -> Workers]
      BY DEF InUse, Typed, Connection, Pids
    <2>2. \A s, t \in S : f[s] = f[t] => s = t
      BY ConnPoolAssumption DEF OneSlotPerCreator
    <2>3. f \in Injection(S, Workers)
      BY <2>1, <2>2 DEF Injection, IsInjective
    <2> QED
      BY <2>3, FS_Injection, ConnPoolAssumption
  <1> QED
    BY <1>1, TypeCorrect, OneSlotPerCreatorHolds, PTL DEF TypeOK

-----------------------------------------------------------------------------
(***************************************************************************)
(* The pool while connectors live and nobody kills them: the only thing     *)
(* that fails is that workers die, wherever they are.  Then, for any        *)
(* workers, slots, names and interleaving, the shared use counts are exact, *)
(* no request loses its slot, no handle is used by another process or left  *)
(* open, and no query runs under another login.                             *)
(***************************************************************************)

\* Nothing but deaths of workers (the buffer of HELO that was never written
\* matters only when a connector has gone), no longer than the hard timeout,
\* after which close_connections takes slots from requests that run (db.c:390);
\* and fewer workers than an unsigned int counts.
Quiet ==
    /\ Faults \subseteq {"crash", "garbage"}
    /\ MaxTime <= HardTimeout
    /\ Cardinality(Workers) < InUseMod

Live(w) == pc[w] # "dead"
Named(w) == req[w].name # NoName

-----------------------------------------------------------------------------
(* The invariant. *)

\* Where a request has a slot, and where it has a name.
Flow ==
    /\ now <= MaxTime /\ wild = {}
    /\ \A w \in Workers :
          /\ pc[w] \notin {"clear", "killing", "killfind", "killclose"}
          /\ pc[w] \in {"idle", "open", "find", "alloc"} => slot[w] = NoSlot
          /\ pc[w] \in {"find", "connect", "helo", "writepid"} => Named(w)
          /\ pc[w] = "open" => ~ Named(w)
          /\ pc[w] \in AtSlot => slot[w] \in Slots

\* A slot without a name has one user; one with a name has a connector that
\* listens and has logged in for that name or not at all.
SlotsReady ==
    \A s \in Slots : InUse(s) =>
        IF slots[s].name = NoName THEN slots[s].inUse = 1
        ELSE /\ slots[s].db = NoPid
             /\ slots[s].sock \in Socks
             /\ conns[slots[s].sock].state = "up"
             /\ conns[slots[s].sock].login \in {NoName, slots[s].name}

\* No two slots, the freed ones included, have a path in common.
OwnPath == \A s, t \in Slots :
    s # t /\ slots[s].sock \in Socks => slots[s].sock # slots[t].sock

\* The requests that hold a slot, dead or alive.
Users(s) == {w \in Workers : slot[w] = s /\ Named(w)}

Counted == \A s \in Slots :
    InUse(s) /\ slots[s].name # NoName => slots[s].inUse = Cardinality(Users(s))

\* The slot of a request is its own: with a name, even when its worker is dead.
Kept ==
    \A w \in Workers : slot[w] \in Slots =>
        /\ Named(w) => InUse(slot[w]) /\ slots[slot[w]].name = req[w].name
        /\ ~ Named(w) /\ Live(w) =>
              /\ InUse(slot[w]) /\ slots[slot[w]].name = NoName
              /\ slots[slot[w]].pid = w
              /\ slots[slot[w]].db \in {NoPid} \cup ({w} \cap open)

\* An open handle is on the stack of alloc or in the slot of its worker.
OpenHeld ==
    \A w \in open :
        /\ Live(w) /\ ~ Named(w)
        /\ pc[w] = "alloc" \/ (slot[w] \in Slots /\ slots[slot[w]].db = w)

\* What a worker copied out of the table still stands there.
CopyTrue ==
    \A w \in Workers :
        /\ pc[w] \in {"connect", "helo", "writepid", "exec"} /\ Named(w) =>
              copy[w].sock = slots[slot[w]].sock
        /\ pc[w] = "exec" /\ ~ Named(w) => copy[w].db = slots[slot[w]].db

\* A connector's client is a worker that has said HELO to it and not yet QUIT.
ClientServed ==
    \A c \in Socks, w \in Workers : conns[c].client = w =>
        pc[w] \in {"writepid", "exec"} /\ Named(w) /\ copy[w].sock = c

PoolInv ==
    /\ Typed /\ Flow /\ SlotsReady /\ OwnPath /\ Counted
    /\ Kept /\ OpenHeld /\ CopyTrue /\ ClientServed

USE ConnPoolAssumption DEF PoolInv

-----------------------------------------------------------------------------
(* What the invariant says of the moment before a step. *)

\* A slot with a user can be neither swept nor found free.
LEMMA UsedSlot ==
    ASSUME PoolInv, NEW w \in Workers, slot[w] \in Slots, Named(w)
    PROVE  slots[slot[w]].inUse > 0
  <1>1. Users(slot[w]) \in SUBSET Workers /\ w \in Users(slot[w])
    BY DEF Users
  <1>2. Cardinality(Users(slot[w])) \in Nat /\ Cardinality(Users(slot[w])) # 0
    BY <1>1, FS_Subset, FS_CardinalityType, FS_EmptySet
  <1>3. slots[slot[w]].inUse = Cardinality(Users(slot[w]))
    BY DEF Kept, Counted, Named
  <1> QED
    BY <1>2, <1>3

\* The connector of a named request listens from the copy to the query.
LEMMA ConnectorUp ==
    ASSUME PoolInv, NEW w \in Workers,
           pc[w] \in {"connect", "helo", "writepid", "exec"}, Named(w)
    PROVE  /\ copy[w].sock \in Socks /\ conns[copy[w].sock].state = "up"
           /\ Running(copy[w].sock) /\ slot[w] \in Slots
           /\ slots[slot[w]].sock = copy[w].sock
           /\ InUse(slot[w]) /\ slots[slot[w]].name = req[w].name
  BY DEF Flow, AtSlot, Kept, CopyTrue, SlotsReady, Named, Running

\* So these steps cannot be taken.
LEMMA QuietSteps ==
    ASSUME Quiet, PoolInv, NEW w \in Workers
    PROVE  ~ (\/ ConnectFails(w) \/ ClearSlot(w) \/ HeloFails(w) \/ HeloGarbage(w)
              \/ KillRequest(w) \/ KillConnector(w) \/ KillFind(w) \/ KillClose(w))
  <1>1. ~ ConnectFails(w)
    BY ConnectorUp DEF ConnectFails, Fail, Quiet, Flow
  <1>2. ~ HeloFails(w) /\ ~ HeloGarbage(w)
    BY ConnectorUp DEF HeloFails, HeloGarbage, Flow
  <1> QED
    BY <1>1, <1>2 DEF ClearSlot, KillRequest, KillConnector, KillFind, KillClose, Fail,
       Quiet, Flow
\* A step that moves no request to another slot and changes no count.
LEMMA CountsKept ==
    ASSUME PoolInv, UNCHANGED <<slot, req>>,
           \A s \in Slots : InUse(s)' /\ slots'[s].name # NoName =>
               InUse(s) /\ slots'[s].name = slots[s].name /\ slots'[s].inUse = slots[s].inUse
    PROVE  Counted'
  <1>1. \A s \in Slots : Users(s)' = Users(s)
    BY DEF Users, Named
  <1> QED
    BY <1>1 DEF Counted

\* The users of a slot can be counted in an unsigned int.
LEMMA UsersCount ==
    ASSUME Quiet, NEW s
    PROVE  /\ IsFiniteSet(Users(s)) /\ Cardinality(Users(s)) \in Nat
           /\ Cardinality(Users(s)) < InUseMod /\ InUseMod \in Nat
  <1>1. Users(s) \in SUBSET Workers
    BY DEF Users
  <1>2. /\ IsFiniteSet(Users(s)) /\ Cardinality(Users(s)) <= Cardinality(Workers)
        /\ Cardinality(Users(s)) \in Nat /\ Cardinality(Workers) \in Nat
    BY <1>1, FS_Subset, FS_CardinalityType
  <1> QED
    BY <1>2 DEF Quiet

\* The hard timeout has not passed; so the sweep takes a slot only from the dead
\* or, with its name, from nobody.
LEMMA SweptSlot ==
    ASSUME Quiet, PoolInv, NEW w \in Workers, NEW t \in seen[w] .. now, NEW s \in Slots
    PROVE  /\ Expired(slots[s], t) => InUse(s) /\ slots[s].inUse = 0 /\ slots[s].name # NoName
           /\ Orphaned(slots[s]) =>
                 InUse(s) /\ slots[s].name = NoName /\ pc[slots[s].pid] = "dead"
  <1>1. /\ slots[s].accessed \in Nat /\ HardTimeout \in Nat /\ MaxTime \in Nat
        /\ seen[w] \in Nat /\ now \in Nat
    BY DEF Typed, Connection
  <1>2. ~ (slots[s].accessed + HardTimeout < t)
    BY <1>1 DEF Flow, Quiet
  <1>3. Expired(slots[s], t) => InUse(s) /\ slots[s].inUse = 0
    BY <1>2 DEF Expired, InUse
  <1>4. InUse(s) /\ slots[s].inUse = 0 => slots[s].name # NoName
    BY DEF SlotsReady
  <1> QED
    BY <1>3, <1>4 DEF Orphaned, Dead, InUse

-----------------------------------------------------------------------------
(* Steps that leave the table alone. *)

LEMMA RequestStep ==
    ASSUME PoolInv, Typed', NEW w \in Workers, Request(w)
    PROVE  PoolInv'
  <1>1. /\ pc[w] = "idle" /\ slot[w] = NoSlot
        /\ UNCHANGED <<slots, conns, open, slot, copy, now, wild>>
        /\ pc'[w] = IF req'[w].name = NoName THEN "open" ELSE "find"
        /\ \A v \in Workers \ {w} : pc'[v] = pc[v] /\ req'[v] = req[v]
    <2>1. PICK n \in Asked, t \in Timeouts :
             /\ req' = [req EXCEPT ![w] = [NoRequest EXCEPT !.name = n, !.timeout = t]]
             /\ Goto(w, IF n = NoName THEN "open" ELSE "find")
      BY DEF Request
    <2>2. req'[w].name = n
      BY <2>1 DEF Typed, NoRequest
    <2> QED
      BY <2>1, <2>2 DEF Request, Flow, Goto, Typed
  <1>2. \A s \in Slots : Users(s)' = Users(s)
    BY <1>1 DEF Users, Named, Slots, NoSlot
  <1>3. Counted'
    BY <1>1, <1>2 DEF Counted, InUse
  <1>4. Flow'
    BY <1>1 DEF Flow, Named, AtSlot
  <1>5. SlotsReady' /\ OwnPath'
    BY <1>1 DEF SlotsReady, OwnPath, InUse
  <1>6. Kept'
    BY <1>1 DEF Kept, InUse, Live, Named, Slots, NoSlot
  <1>7. OpenHeld'
    <2>1. w \notin open
      BY <1>1 DEF OpenHeld, Slots, NoSlot
    <2> QED
      BY <1>1, <2>1 DEF OpenHeld, Live, Named, Typed
  <1>8. CopyTrue' /\ ClientServed'
    BY <1>1 DEF CopyTrue, ClientServed, Named
  <1> QED
    BY <1>3, <1>4, <1>5, <1>6, <1>7, <1>8

\* Steps that change what one worker has on its stack.
LEMMA LocalStep ==
    ASSUME PoolInv, Typed', NEW w \in Workers,
           \/ OpenConnection(w) \/ PoolExhausted(w) \/ CopyConnection(w)
           \/ Connect(w) \/ RunUnnamed(w)
    PROVE  PoolInv'
  <1>1. /\ UNCHANGED <<slots, conns, slot, req, now>>
        /\ \A v \in Workers \ {w} :
              pc'[v] = pc[v] /\ copy'[v] = copy[v] /\ (v \in open' <=> v \in open)
        /\ pc[w] \in {"open", "alloc", "copy", "connect", "exec"}
        /\ pc[w] = "exec" => ~ Named(w)
    BY DEF OpenConnection, PoolExhausted, CopyConnection, Connect, RunUnnamed, Goto, Typed,
       locals, Named
  <1>2. Counted'
    BY <1>1, CountsKept DEF InUse
  <1>3. Flow'
    <2>1. wild' = {}
      BY DEF OpenConnection, PoolExhausted, CopyConnection, Connect, RunUnnamed, Flow, CopyTrue,
         Kept, Live, Named, AtSlot
    <2> QED
      BY <1>1, <2>1 DEF OpenConnection, PoolExhausted, CopyConnection, Connect, RunUnnamed,
         Goto, Flow, Named, AtSlot, Typed
  <1>4. SlotsReady' /\ OwnPath'
    BY <1>1 DEF SlotsReady, OwnPath, InUse
  <1>5. Kept'
    BY <1>1 DEF OpenConnection, PoolExhausted, CopyConnection, Connect, RunUnnamed, Goto,
       Typed, Kept, InUse, Live, Named, Flow, Slots, NoSlot
  <1>6. OpenHeld'
    BY <1>1 DEF OpenConnection, PoolExhausted, CopyConnection, Connect, RunUnnamed, Goto,
       Typed, OpenHeld, Live, Named, Flow, Slots, NoSlot
  <1>7. CopyTrue'
    <2>1. CASE CopyConnection(w)
      <3>1. copy'[w] = slots[slot[w]]
        BY <2>1 DEF CopyConnection, Typed
      <3> QED
        BY <1>1, <3>1 DEF CopyTrue, Named
    <2>2. CASE ~ CopyConnection(w)
      <3>1. copy' = copy /\ (pc'[w] # "exec" \/ pc[w] = "exec")
            /\ (pc'[w] \in {"connect", "helo", "writepid"} => pc[w] = "connect")
        BY <2>2 DEF OpenConnection, PoolExhausted, Connect, RunUnnamed, Goto, Typed, locals
      <3> QED
        BY <1>1, <3>1 DEF CopyTrue, Named
    <2> QED
      BY <2>1, <2>2
  <1>8. ClientServed'
    BY <1>1 DEF OpenConnection, PoolExhausted, CopyConnection, Connect, RunUnnamed, Goto,
       Typed, ClientServed, Named
  <1> QED
    BY <1>2, <1>3, <1>4, <1>5, <1>6, <1>7, <1>8

\* HELO and QUIT.
LEMMA ConnectorStep ==
    ASSUME PoolInv, Typed', NEW w \in Workers, Helo(w) \/ RunNamed(w)
    PROVE  PoolInv'
  <1> DEFINE c == copy[w].sock
  <1>0. c \in Socks /\ slot[w] \in Slots /\ slots[slot[w]].sock = c
        /\ slots[slot[w]].name = req[w].name /\ Named(w)
    BY ConnectorUp DEF Helo, RunNamed, Flow, Named
  <1>1. /\ UNCHANGED <<slots, open, slot, req, copy, now, wild>>
        /\ \A v \in Workers \ {w} : pc'[v] = pc[v]
        /\ \/ pc[w] = "helo" /\ pc'[w] = "writepid"
           \/ pc[w] = "exec" /\ pc'[w] = "finish"
    BY DEF Helo, RunNamed, Goto, Typed, locals
  <1>2. /\ \A d \in Socks \ {c} : conns'[d] = conns[d]
        /\ conns'[c].state = conns[c].state
        /\ conns'[c].login = conns[c].login \/ conns'[c].login = req[w].name
        /\ conns'[c].client \in Workers =>
              IF pc[w] = "helo" THEN conns'[c].client = w
              ELSE conns'[c].client = conns[c].client /\ conns[c].client # w
    <2>0. c \in Socks /\ conns[c] \in Connector /\ NoPid \notin Workers
      BY <1>0 DEF Typed
    <2>1. CASE Helo(w)
      <3>1. conns' = [conns EXCEPT ![c].client = w] /\ pc[w] = "helo"
        BY <2>1 DEF Helo
      <3> QED
        BY <2>0, <3>1 DEF Typed, Connector
    <2>2. CASE RunNamed(w)
      <3>1. pc[w] = "exec" /\ Running(c)
        BY <2>2, ConnectorUp DEF RunNamed, Named
      <3>2. CASE conns[c].client = w
        BY <2>0, <2>2, <3>1, <3>2 DEF RunNamed, Typed, Connector
      <3>3. CASE conns[c].client # w
        BY <2>0, <2>2, <3>1, <3>3 DEF RunNamed
      <3> QED
        BY <3>2, <3>3
    <2> QED
      BY <2>1, <2>2
  <1>3. Counted'
    BY <1>1, CountsKept DEF InUse
  <1>4. Flow'
    BY <1>0, <1>1 DEF Flow, Named, AtSlot
  <1>5. SlotsReady' /\ OwnPath'
    <2>1. OwnPath'
      BY <1>1 DEF OwnPath
    <2>2. ASSUME NEW s \in Slots, InUse(s)', slots'[s].name # NoName
          PROVE  /\ slots'[s].db = NoPid /\ slots'[s].sock \in Socks
                 /\ conns'[slots[s].sock].state = "up"
                 /\ conns'[slots[s].sock].login \in {NoName, slots[s].name}
      <3>1. s = slot[w] \/ slots[s].sock # c
        BY <1>0 DEF OwnPath
      <3> QED
        BY <1>0, <1>1, <1>2, <2>2, <3>1 DEF SlotsReady, InUse
    <2>3. ASSUME NEW s \in Slots, InUse(s)', slots'[s].name = NoName
          PROVE  slots'[s].inUse = 1
      BY <1>1, <2>3 DEF SlotsReady, InUse
    <2> QED
      BY <1>1, <2>1, <2>2, <2>3 DEF SlotsReady
  <1>6. Kept' /\ OpenHeld'
    <2>1. \A v \in Workers : Live(v)' <=> Live(v)
      BY <1>1 DEF Live
    <2>2. w \notin open
      BY <1>0 DEF OpenHeld
    <2> QED
      BY <1>1, <2>1, <2>2 DEF Kept, OpenHeld, InUse, Named, Typed
  <1>7. CopyTrue'
    BY <1>1 DEF CopyTrue, Named
  <1>8. ClientServed'
    BY <1>0, <1>1, <1>2 DEF ClientServed, Named
  <1> QED
    BY <1>3, <1>4, <1>5, <1>6, <1>7, <1>8

\* The helper pid of HELO goes into the slot, and no other field changes.
LEMMA HelperStep ==
    ASSUME PoolInv, Typed', NEW w \in Workers, WriteHelperPid(w)
    PROVE  PoolInv'
  <1>1. /\ UNCHANGED <<conns, open, slot, req, copy, now, wild>>
        /\ \A v \in Workers \ {w} : pc'[v] = pc[v]
        /\ pc[w] = "writepid" /\ pc'[w] = "exec" /\ Named(w) /\ slot[w] \in Slots
    BY DEF WriteHelperPid, Goto, Typed, locals, Flow, AtSlot
  <1>2. \A s \in Slots : /\ slots'[s].pid = slots[s].pid /\ slots'[s].name = slots[s].name
                         /\ slots'[s].inUse = slots[s].inUse /\ slots'[s].sock = slots[s].sock
                         /\ slots'[s].db = slots[s].db
    BY <1>1 DEF WriteHelperPid, Typed, Connection
  <1>3. Counted'
    BY <1>1, <1>2, CountsKept DEF InUse
  <1>4. Flow'
    BY <1>1 DEF Flow, Named, AtSlot
  <1>5. SlotsReady' /\ OwnPath'
    BY <1>1, <1>2 DEF SlotsReady, OwnPath, InUse
  <1>6. Kept'
    BY <1>1, <1>2 DEF Kept, InUse, Live, Named
  <1>7. OpenHeld'
    BY <1>1, <1>2 DEF OpenHeld, Live, Named, Typed
  <1>8. CopyTrue'
    BY <1>1, <1>2 DEF CopyTrue, Named, Flow, AtSlot
  <1>9. ClientServed'
    BY <1>1 DEF ClientServed, Named
  <1> QED
    BY <1>3, <1>4, <1>5, <1>6, <1>7, <1>8, <1>9

-----------------------------------------------------------------------------
(* The environment. *)

\* A worker dies where it is: its slot, its count and its handle stay behind.
LEMMA CrashStep ==
    ASSUME PoolInv, Typed', NEW w \in Workers, Crash(w)
    PROVE  PoolInv'
  <1>1. /\ UNCHANGED <<slots, slot, req, copy, now, wild>> /\ open' = open \ {w}
        /\ pc'[w] = "dead" /\ \A v \in Workers \ {w} : pc'[v] = pc[v]
    BY DEF Crash, Goto, Typed, locals
  <1>2. \A c \in Socks :
           /\ conns'[c].state = conns[c].state /\ conns'[c].login = conns[c].login
           /\ conns'[c].client \in Workers =>
                 conns'[c].client = conns[c].client /\ conns[c].client # w
    BY DEF Crash, Typed, Connector
  <1>3. Counted'
    BY <1>1, CountsKept DEF InUse
  <1>4. Flow'
    BY <1>1 DEF Flow, Named, AtSlot
  <1>5. SlotsReady' /\ OwnPath'
    BY <1>1, <1>2 DEF SlotsReady, OwnPath, InUse
  <1>6. Kept'
    BY <1>1 DEF Kept, InUse, Live, Named
  <1>7. OpenHeld'
    BY <1>1 DEF OpenHeld, Live, Named, Typed
  <1>8. CopyTrue' /\ ClientServed'
    BY <1>1, <1>2 DEF CopyTrue, ClientServed, Named
  <1> QED
    BY <1>3, <1>4, <1>5, <1>6, <1>7, <1>8

\* Only a connector that no slot and no request refers to leaves.
LEMMA ExitStep ==
    ASSUME Quiet, PoolInv, Typed', NEW c \in Socks, ConnectorExit(c)
    PROVE  PoolInv'
  <1>1. /\ UNCHANGED <<slots, open, pc, slot, req, copy, now, wild>> /\ ~ Referenced(c)
        /\ conns'[c] = NoConnector /\ \A d \in Socks \ {c} : conns'[d] = conns[d]
    BY DEF ConnectorExit, Fail, Quiet, Typed, locals
  <1>2. Counted'
    BY <1>1, CountsKept DEF InUse
  <1>3. Flow'
    BY <1>1 DEF Flow, Named, AtSlot
  <1>4. SlotsReady' /\ OwnPath'
    BY <1>1 DEF SlotsReady, OwnPath, InUse, Referenced
  <1>5. Kept' /\ OpenHeld' /\ CopyTrue'
    BY <1>1 DEF Kept, OpenHeld, CopyTrue, InUse, Live, Named
  <1>6. ClientServed'
    BY <1>1 DEF ClientServed, Named, NoConnector
  <1> QED
    BY <1>2, <1>3, <1>4, <1>5, <1>6

LEMMA ClockStep ==
    ASSUME PoolInv, Typed', Tick \/ UNCHANGED vars
    PROVE  PoolInv'
  <1>1. UNCHANGED <<slots, conns, open, pc, slot, req, copy, wild>> /\ now' <= MaxTime
    BY DEF Tick, vars, locals, Flow, Typed
  <1>2. Counted'
    BY <1>1, CountsKept DEF InUse
  <1>3. Flow' /\ SlotsReady' /\ OwnPath'
    BY <1>1 DEF Flow, SlotsReady, OwnPath, InUse, Named, AtSlot
  <1>4. Kept' /\ OpenHeld' /\ CopyTrue' /\ ClientServed'
    BY <1>1 DEF Kept, OpenHeld, CopyTrue, ClientServed, InUse, Live, Named
  <1> QED
    BY <1>2, <1>3, <1>4

-----------------------------------------------------------------------------
(* Steps that change the table. *)

LEMMA FindStep ==
    ASSUME Quiet, PoolInv, Typed', NEW w \in Workers, FindConnection(w)
    PROVE  PoolInv'
  <1>1. /\ UNCHANGED <<conns, open, req, copy, now, wild>>
        /\ \A v \in Workers \ {w} : pc'[v] = pc[v] /\ slot'[v] = slot[v]
        /\ pc[w] = "find" /\ Named(w) /\ slot[w] = NoSlot /\ w \notin open
    BY DEF FindConnection, Goto, Typed, Flow, First, OpenHeld
  <1>2. CASE UNCHANGED <<slots, slot>> /\ pc'[w] = "alloc"
    <2>1. Counted'
      BY <1>1, <1>2, CountsKept DEF InUse
    <2>2. Flow' /\ SlotsReady' /\ OwnPath'
      BY <1>1, <1>2 DEF Flow, SlotsReady, OwnPath, InUse, Named, AtSlot
    <2>3. Kept'
      BY <1>1, <1>2 DEF Kept, InUse, Live, Named
    <2>4. OpenHeld'
      BY <1>1, <1>2 DEF OpenHeld, Live, Named, Typed
    <2>5. CopyTrue' /\ ClientServed'
      BY <1>1, <1>2 DEF CopyTrue, ClientServed, Named
    <2> QED
      BY <2>1, <2>2, <2>3, <2>4, <2>5
  <1>3. ASSUME NEW s \in Slots, InUse(s), slots[s].name = req[w].name,
               slots' = [slots EXCEPT ![s] = Acquire(@)], slot'[w] = s, pc'[w] = "sweep"
        PROVE  PoolInv'
    <2>1. /\ slots[s].inUse = Cardinality(Users(s)) /\ slots[s].name # NoName
          /\ w \notin Users(s) /\ s # NoSlot
      BY <1>1, <1>3 DEF Counted, Users, Named, Slots, NoSlot
    <2>2. /\ \A t \in Slots \ {s} : slots'[t] = slots[t]
          /\ \A t \in Slots : /\ slots'[t].pid = slots[t].pid
                               /\ slots'[t].name = slots[t].name
                               /\ slots'[t].sock = slots[t].sock
                               /\ slots'[t].db = slots[t].db
          /\ slots'[s].inUse = (slots[s].inUse + 1) % InUseMod
      BY <1>3 DEF Acquire, Typed, Connection
    <2>3. /\ Users(s)' = Users(s) \cup {w}
          /\ \A t \in Slots \ {s} : Users(t)' = Users(t)
      BY <1>1, <1>3 DEF Users, Named, Slots, NoSlot
    <2>4. Cardinality(Users(s)') = Cardinality(Users(s)) + 1
      BY <2>1, <2>3, UsersCount, FS_AddElement
    <2>5. /\ Cardinality(Users(s)') \in Nat /\ Cardinality(Users(s)') < InUseMod
          /\ InUseMod \in Nat
      <3>1. Users(s)' \in SUBSET Workers
        BY DEF Users
      <3>2. /\ Cardinality(Users(s)') <= Cardinality(Workers)
            /\ Cardinality(Users(s)') \in Nat /\ Cardinality(Workers) \in Nat
        BY <3>1, FS_Subset, FS_CardinalityType
      <3> QED
        BY <3>2 DEF Quiet
    <2>6. slots'[s].inUse = Cardinality(Users(s)')
      BY <2>1, <2>2, <2>4, <2>5
    <2>7. Counted'
      <3>1. ASSUME NEW t \in Slots \ {s}, InUse(t)', slots'[t].name # NoName
            PROVE  slots'[t].inUse = Cardinality(Users(t)')
        BY <2>2, <2>3, <3>1 DEF Counted, InUse
      <3> QED
        BY <2>6, <3>1 DEF Counted
    <2>8. Flow'
      BY <1>1, <1>3 DEF Flow, Named, AtSlot
    <2>9. SlotsReady' /\ OwnPath'
      BY <1>1, <2>1, <2>2 DEF SlotsReady, OwnPath, InUse
    <2>10. Kept'
      BY <1>1, <1>3, <2>2 DEF Kept, InUse, Live, Named
    <2>11. OpenHeld'
      BY <1>1, <2>2 DEF OpenHeld, Live, Named, Typed
    <2>12. CopyTrue' /\ ClientServed'
      BY <1>1, <1>3, <2>2 DEF CopyTrue, ClientServed, Named
    <2> QED
      BY <2>7, <2>8, <2>9, <2>10, <2>11, <2>12
  <1> QED
    BY <1>2, <1>3 DEF FindConnection, First, Match, InUse, Goto, Typed

LEMMA AllocStep ==
    ASSUME Quiet, PoolInv, Typed', NEW w \in Workers, AllocConnection(w)
    PROVE  PoolInv'
  <1>1. PICK s \in Slots : ~ InUse(s) /\ AllocIn(w, s)
    BY DEF AllocConnection, First, FreeSlots
  <1>2. /\ UNCHANGED <<open, req, copy, now, wild>>
        /\ \A v \in Workers \ {w} : pc'[v] = pc[v] /\ slot'[v] = slot[v]
        /\ pc[w] = "alloc" /\ pc'[w] = "sweep" /\ slot[w] = NoSlot /\ slot'[w] = s
        /\ s # NoSlot
    BY <1>1 DEF AllocConnection, AllocIn, Goto, Typed, Flow, Slots, NoSlot
  <1>3. \A v \in Workers : slot[v] = s => ~ Named(v) /\ ~ Live(v)
    BY <1>1 DEF Kept
  <1>4. PICK db \in Pids, c \in Paths :
           /\ slots' = [slots EXCEPT ![s] = PopulateConnection(w, db, c)]
           /\ Named(w) =>
                 /\ db = NoPid /\ c \in Fresh(s)
                 /\ conns' = [conns EXCEPT ![c] = NewConnector]
           /\ ~ Named(w) =>
                 db = (IF w \in open THEN w ELSE NoPid) /\ c = NoSock /\ conns' = conns
    <2>1. CASE Named(w)
      BY <1>1, <2>1 DEF AllocIn, Named, Fail, Quiet, Fresh, Pids, Paths
    <2>2. CASE ~ Named(w)
      BY <1>1, <2>2 DEF AllocIn, Named, Pids, Paths
    <2> QED
      BY <2>1, <2>2
  <1>5. /\ \A t \in Slots \ {s} : slots'[t] = slots[t]
        /\ slots'[s].pid = w /\ slots'[s].name = req[w].name /\ slots'[s].inUse = 1
        /\ slots'[s].sock = c /\ slots'[s].db = db
    BY <1>4 DEF PopulateConnection, Typed
  <1>6. \A d \in Socks : conns'[d] = conns[d] \/ (conns'[d] = NewConnector /\ d = c /\ Named(w))
    BY <1>4 DEF Typed
  <1>7. Counted'
    <2>1. \A t \in Slots \ {s} : Users(t)' = Users(t)
      BY <1>2 DEF Users, Named, Slots, NoSlot
    <2>2. Named(w) => Users(s)' = {w}
      BY <1>2, <1>3 DEF Users, Named
    <2>3. \A x : Cardinality({x}) = 1
      BY FS_Singleton
    <2> QED
      BY <1>5, <2>1, <2>2, <2>3 DEF Counted, InUse, Named
  <1>8. Flow'
    BY <1>2 DEF Flow, Named, AtSlot
  <1>9. SlotsReady'
    <2>1. Named(w) => c \in Socks /\ conns'[c] = NewConnector
      BY <1>4 DEF Fresh, Typed
    <2>2. \A t \in Slots \ {s} : Named(w) => slots[t].sock # c
      BY <1>4 DEF Fresh
    <2>3. ASSUME NEW t \in Slots, t # s, slots[t].sock \in Socks
          PROVE  conns'[slots[t].sock] = conns[slots[t].sock]
      BY <1>6, <2>2, <2>3
    <2>4. NewConnector.state = "up" /\ NewConnector.login = NoName
      BY DEF NewConnector
    <2>5. ASSUME NEW t \in Slots, t # s, InUse(t)'
          PROVE  IF slots'[t].name = NoName THEN slots'[t].inUse = 1
                 ELSE /\ slots'[t].db = NoPid /\ slots'[t].sock \in Socks
                      /\ conns'[slots'[t].sock].state = "up"
                      /\ conns'[slots'[t].sock].login \in {NoName, slots'[t].name}
      BY <1>5, <2>3, <2>5 DEF SlotsReady, InUse
    <2>6. IF slots'[s].name = NoName THEN slots'[s].inUse = 1
          ELSE /\ slots'[s].db = NoPid /\ slots'[s].sock \in Socks
               /\ conns'[slots'[s].sock].state = "up"
               /\ conns'[slots'[s].sock].login \in {NoName, slots'[s].name}
      BY <1>4, <1>5, <2>1, <2>4 DEF Named
    <2> QED
      BY <2>5, <2>6 DEF SlotsReady
  <1>10. OwnPath'
    <2>1. c \notin Socks \/ \A t \in Slots \ {s} : slots[t].sock # c
      BY <1>4 DEF Fresh
    <2> QED
      BY <1>5, <2>1 DEF OwnPath
  <1>11. Kept'
    BY <1>2, <1>3, <1>4, <1>5 DEF Kept, InUse, Live, Named
  <1>12. OpenHeld'
    BY <1>2, <1>3, <1>4, <1>5 DEF OpenHeld, Live, Named, Typed
  <1>13. CopyTrue'
    BY <1>2, <1>3, <1>5 DEF CopyTrue, Named, Live, Flow, AtSlot
  <1>14. ClientServed'
    BY <1>2, <1>6 DEF ClientServed, NewConnector, Named
  <1> QED
    BY <1>7, <1>8, <1>9, <1>10, <1>11, <1>12, <1>13, <1>14

LEMMA SweepStep ==
    ASSUME Quiet, PoolInv, Typed', NEW w \in Workers, CloseConnections(w)
    PROVE  PoolInv'
  <1>1. PICK t \in seen[w] .. now :
           /\ slots' = [s \in Slots |-> SweepConnection(slots[s], t)]
           /\ CloseHandles(w, {slots[s].db : s \in {x \in Slots :
                                  ~ Orphaned(slots[x]) /\ Expired(slots[x], t)}})
    BY DEF CloseConnections
  <1>2. /\ UNCHANGED <<conns, now>>
        /\ \A v \in Workers \ {w} :
              /\ pc'[v] = pc[v] /\ slot'[v] = slot[v] /\ req'[v] = req[v]
              /\ copy'[v] = copy[v]
        /\ pc[w] = "sweep" /\ slot'[w] = slot[w]
        /\ IF slot[w] = NoSlot THEN pc'[w] = "idle"
           ELSE pc'[w] = "copy" /\ req'[w] = req[w] /\ slot[w] \in Slots
    BY DEF CloseConnections, Reply, Goto, Typed
  <1>3. UNCHANGED <<open, wild>>
    <2>1. \A s \in Slots : Expired(slots[s], t) => slots[s].db = NoPid
      BY <1>1, SweptSlot DEF SlotsReady
    <2> QED
      BY <1>1, <2>1 DEF CloseHandles
  <1>4. \A s \in Slots :
           /\ slots'[s].sock = slots[s].sock /\ slots'[s].db = slots[s].db
           /\ \/ slots'[s] = slots[s]
              \/ /\ slots'[s].pid = NoPid
                 /\ \/ slots[s].inUse = 0 /\ slots[s].name # NoName
                    \/ slots[s].name = NoName /\ pc[slots[s].pid] = "dead"
    <2> SUFFICES ASSUME NEW s \in Slots
                 PROVE  /\ slots'[s].sock = slots[s].sock /\ slots'[s].db = slots[s].db
                        /\ \/ slots'[s] = slots[s]
                           \/ /\ slots'[s].pid = NoPid
                              /\ \/ slots[s].inUse = 0 /\ slots[s].name # NoName
                                 \/ slots[s].name = NoName /\ pc[slots[s].pid] = "dead"
      OBVIOUS
    <2>1. slots'[s] = slots[s] \/ slots'[s] = ZeroConnection(slots[s])
      BY <1>1 DEF SweepConnection
    <2>2. slots'[s] = slots[s] \/ Orphaned(slots[s]) \/ Expired(slots[s], t)
      BY <1>1 DEF SweepConnection
    <2>3. LET r == ZeroConnection(slots[s])
          IN r.sock = slots[s].sock /\ r.db = slots[s].db /\ r.pid = NoPid
      BY DEF ZeroConnection, Typed, Connection
    <2>4. Expired(slots[s], t) => slots[s].inUse = 0 /\ slots[s].name # NoName
      BY SweptSlot
    <2>5. Orphaned(slots[s]) => slots[s].name = NoName /\ pc[slots[s].pid] = "dead"
      BY SweptSlot
    <2> QED
      BY <2>1, <2>2, <2>3, <2>4, <2>5
  <1>5. \A s \in Slots : Users(s)' = Users(s)
    BY <1>2 DEF Users, Named, Slots, NoSlot
  <1>6. \A s \in Slots : InUse(s)' => InUse(s) /\ slots'[s] = slots[s]
    BY <1>4 DEF InUse
  <1>7. Counted'
    BY <1>5, <1>6 DEF Counted
  <1>8. Flow'
    BY <1>2, <1>3 DEF Flow, Named, AtSlot
  <1>9. SlotsReady' /\ OwnPath'
    BY <1>2, <1>4, <1>6 DEF SlotsReady, OwnPath
  <1>10. Kept'
    <2> SUFFICES ASSUME NEW v \in Workers, slot'[v] \in Slots
                 PROVE  /\ Named(v)' => InUse(slot[v])' /\ slots'[slot[v]].name = req[v].name
                        /\ ~ Named(v)' /\ Live(v)' =>
                              /\ InUse(slot[v])' /\ slots'[slot[v]].name = NoName
                              /\ slots'[slot[v]].pid = v
                              /\ slots'[slot[v]].db \in {NoPid} \cup ({v} \cap open)
                        /\ slot'[v] = slot[v] /\ req'[v] = req[v]
      BY <1>3 DEF Kept, InUse
    <2>1. /\ slot'[v] = slot[v] /\ slot[v] \in Slots /\ req'[v] = req[v]
          /\ (Named(v)' <=> Named(v)) /\ (Live(v)' <=> Live(v))
      BY <1>2 DEF Named, Live, Slots, NoSlot
    <2>2. CASE Named(v)
      <3>1. /\ slots[slot[v]].inUse > 0 /\ InUse(slot[v])
            /\ slots[slot[v]].name = req[v].name /\ req[v].name # NoName
        BY <2>1, <2>2, UsedSlot DEF Kept, Named
      <3>2. slots'[slot[v]] = slots[slot[v]]
        BY <1>4, <2>1, <3>1
      <3> QED
        BY <2>1, <2>2, <3>1, <3>2 DEF InUse
    <2>3. CASE ~ Named(v) /\ Live(v)
      <3>1. /\ InUse(slot[v]) /\ slots[slot[v]].name = NoName /\ slots[slot[v]].pid = v
            /\ slots[slot[v]].db \in {NoPid} \cup ({v} \cap open)
        BY <2>1, <2>3 DEF Kept
      <3>2. slots'[slot[v]] = slots[slot[v]]
        BY <1>4, <2>1, <2>3, <3>1 DEF Live
      <3> QED
        BY <2>1, <2>3, <3>1, <3>2 DEF InUse
    <2>4. CASE ~ Named(v) /\ ~ Live(v)
      BY <2>1, <2>4
    <2> QED
      BY <2>2, <2>3, <2>4
  <1>11. OpenHeld'
    <2> SUFFICES ASSUME NEW v \in open
                 PROVE  /\ Live(v)' /\ ~ Named(v)'
                        /\ pc'[v] = "alloc" \/ (slot'[v] \in Slots /\ slots'[slot'[v]].db = v)
      BY <1>3 DEF OpenHeld
    <2>1. v \in Workers /\ Live(v) /\ ~ Named(v)
          /\ (pc[v] = "alloc" \/ (slot[v] \in Slots /\ slots[slot[v]].db = v))
      BY DEF OpenHeld, Typed
    <2>2. CASE v # w
      BY <1>2, <1>4, <2>1, <2>2 DEF Live, Named
    <2>3. CASE v = w
      BY <1>2, <1>4, <2>1, <2>3 DEF Live, Named, Slots, NoSlot
    <2> QED
      BY <2>2, <2>3
  <1>12. CopyTrue'
    <2>1. \A v \in Workers : pc'[v] \in {"connect", "helo", "writepid", "exec"} =>
             /\ v # w /\ pc'[v] = pc[v] /\ slot'[v] = slot[v] /\ slot[v] \in Slots
             /\ copy'[v] = copy[v] /\ (Named(v)' <=> Named(v))
      BY <1>2 DEF Named, Flow, AtSlot
    <2> QED
      BY <1>4, <2>1 DEF CopyTrue
  <1>13. ClientServed'
    BY <1>2 DEF ClientServed, Named
  <1> QED
    BY <1>7, <1>8, <1>9, <1>10, <1>11, <1>12, <1>13

LEMMA FreeStep ==
    ASSUME Quiet, PoolInv, Typed', NEW w \in Workers, FreeConnection(w)
    PROVE  PoolInv'
  <1>0. PICK s \in Slots : s = slot[w]
    BY DEF FreeConnection, Flow, AtSlot
  <1> DEFINE r == Release(slots[s])
  <1>1. /\ pc[w] = "finish" /\ s = slot[w] /\ s # NoSlot /\ Live(w)
        /\ slots[s].name = req[w].name /\ InUse(s)
    BY <1>0 DEF FreeConnection, Kept, Live, Named, Slots, NoSlot
  <1>2. /\ UNCHANGED <<conns, now>> /\ pc'[w] = "idle" /\ slot'[w] = NoSlot
        /\ \A v \in Workers \ {w} :
              /\ pc'[v] = pc[v] /\ slot'[v] = slot[v] /\ req'[v] = req[v]
              /\ copy'[v] = copy[v]
        /\ \A t \in Slots \ {s} : slots'[t] = slots[t]
    BY <1>0 DEF FreeConnection, Reply, Goto, Typed
  <1>3. /\ r.pid = slots[s].pid /\ r.name = slots[s].name /\ r.sock = slots[s].sock
        /\ r.db = slots[s].db
        /\ r.inUse = (slots[s].inUse + InUseMod - 1) % InUseMod
    BY <1>1 DEF Release, Typed, Connection
  <1>4. /\ Named(w) => slots'[s] = r
        /\ ~ Named(w) => slots'[s].pid = NoPid
        /\ slots'[s].sock = slots[s].sock /\ slots'[s].db = slots[s].db
    <2>1. slots'[s] = IF r.name = NoName THEN ZeroConnection(r) ELSE r
      BY <1>1 DEF FreeConnection, Typed
    <2>2. r \in Connection
      BY <1>1, ConnectionOps DEF Typed
    <2>3. LET z == ZeroConnection(r) IN z.pid = NoPid /\ z.sock = r.sock /\ z.db = r.db
      BY <2>2 DEF ZeroConnection, Connection
    <2> QED
      BY <1>1, <1>3, <2>1, <2>3 DEF Named
  <1>5. wild' = wild /\ open' = open \ {w}
    <2>1. CASE Named(w)
      <3>1. w \notin open
        BY <2>1 DEF OpenHeld
      <3> QED
        BY <1>1, <1>3, <2>1, <3>1 DEF FreeConnection, CloseHandles, Named
    <2>2. CASE ~ Named(w)
      <3>1. slots[s].db \in {NoPid} \cup ({w} \cap open)
        BY <1>1, <2>2 DEF Kept
      <3>2. w \in open => slots[s].db = w
        BY <1>1 DEF OpenHeld
      <3>3. CloseHandles(w, {slots[s].db})
        BY <1>1, <1>3, <2>2 DEF FreeConnection, Named
      <3> QED
        BY <3>1, <3>2, <3>3 DEF CloseHandles
    <2> QED
      BY <2>1, <2>2
  <1>6. \A v \in Workers \ {w} : slot[v] = s /\ Live(v) => Named(v) /\ Named(w)
    BY <1>1 DEF Kept, Named
  <1>7. Named(w) => slots'[s].inUse = Cardinality(Users(s)')
    <2> HAVE Named(w)
    <2>1. Users(s)' = Users(s) \ {w} /\ w \in Users(s)
      BY <1>1, <1>2 DEF Users, Named
    <2>2. /\ IsFiniteSet(Users(s)) /\ Cardinality(Users(s)) \in Nat
          /\ Cardinality(Users(s)) < InUseMod /\ InUseMod \in Nat
      BY UsersCount
    <2>3. /\ Cardinality(Users(s) \ {w}) = Cardinality(Users(s)) - 1
          /\ Cardinality(Users(s)) # 0
      BY <2>1, <2>2, FS_RemoveElement, FS_EmptySet
    <2>4. slots[s].inUse = Cardinality(Users(s))
      BY <1>1 DEF Counted, Named
    <2>5. \A n \in 1 .. InUseMod - 1 : (n + InUseMod - 1) % InUseMod = n - 1
      BY <2>2
    <2> QED
      BY <1>3, <1>4, <2>1, <2>2, <2>3, <2>4, <2>5
  <1>8. Counted'
    <2>1. \A t \in Slots \ {s} : Users(t)' = Users(t)
      BY <1>1, <1>2 DEF Users, Named, Slots, NoSlot
    <2>2. ASSUME NEW t \in Slots \ {s}, InUse(t)', slots'[t].name # NoName
          PROVE  slots'[t].inUse = Cardinality(Users(t)')
      BY <1>2, <2>1, <2>2 DEF Counted, InUse
    <2>3. InUse(s)' => Named(w)
      BY <1>4 DEF InUse
    <2> QED
      BY <1>7, <2>2, <2>3 DEF Counted
  <1>9. Flow'
    BY <1>2, <1>5 DEF Flow, Named, AtSlot
  <1>10. SlotsReady'
    <2>1. ASSUME InUse(s)' PROVE slots'[s] = r /\ Named(w)
      BY <1>4, <2>1 DEF InUse
    <2> QED
      BY <1>1, <1>2, <1>3, <2>1 DEF SlotsReady, InUse, Named
  <1>11. OwnPath'
    BY <1>1, <1>2, <1>4 DEF OwnPath
  <1>12. Kept'
    <2> SUFFICES ASSUME NEW v \in Workers \ {w}, slot[v] \in Slots
                 PROVE  /\ Named(v) => InUse(slot[v])' /\ slots'[slot[v]].name = req[v].name
                        /\ ~ Named(v) /\ Live(v) =>
                              /\ InUse(slot[v])' /\ slots'[slot[v]].name = NoName
                              /\ slots'[slot[v]].pid = v
                              /\ slots'[slot[v]].db \in {NoPid} \cup ({v} \cap open')
      BY <1>1, <1>2 DEF Kept, Named, Live, InUse, Slots, NoSlot
    <2>1. CASE slot[v] # s
      BY <1>2, <1>5, <2>1 DEF Kept, InUse
    <2>2. CASE slot[v] = s /\ Named(v)
      <3>1. Named(w)
        BY <1>1, <2>2 DEF Kept, Named
      <3> QED
        BY <1>1, <1>2, <1>3, <1>4, <2>2, <3>1 DEF Kept, InUse
    <2>3. CASE slot[v] = s /\ ~ Named(v)
      BY <1>6, <2>3
    <2> QED
      BY <2>1, <2>2, <2>3
  <1>13. OpenHeld'
    BY <1>1, <1>2, <1>4, <1>5 DEF OpenHeld, Live, Named, Typed
  <1>14. CopyTrue'
    <2>1. \A t \in Slots : slots'[t].sock = slots[t].sock /\ slots'[t].db = slots[t].db
      BY <1>2, <1>4
    <2>2. \A v \in Workers : pc'[v] \in {"connect", "helo", "writepid", "exec"} =>
             /\ v # w /\ pc'[v] = pc[v] /\ slot'[v] = slot[v] /\ slot[v] \in Slots
             /\ copy'[v] = copy[v] /\ (Named(v)' <=> Named(v))
      BY <1>2 DEF Named, Flow, AtSlot
    <2> QED
      BY <2>1, <2>2 DEF CopyTrue
  <1>15. ClientServed'
    BY <1>1, <1>2 DEF ClientServed, Named
  <1> QED
    BY <1>8, <1>9, <1>10, <1>11, <1>12, <1>13, <1>14, <1>15

-----------------------------------------------------------------------------
(* The invariant holds, and the properties follow from it. *)

LEMMA PoolStep == Quiet /\ PoolInv /\ [Next]_vars => PoolInv'
  <1> SUFFICES ASSUME Quiet, PoolInv, [Next]_vars PROVE PoolInv'
    OBVIOUS
  <1>1. Typed'
    BY TypeStep DEF HasSlot, Flow
  <1>2. ASSUME NEW w \in Workers, ProcessStep(w) PROVE PoolInv'
    <2>1. \/ Request(w)
          \/ OpenConnection(w) \/ PoolExhausted(w) \/ CopyConnection(w)
          \/ Connect(w) \/ RunUnnamed(w)
          \/ Helo(w) \/ RunNamed(w) \/ WriteHelperPid(w) \/ Crash(w)
          \/ FindConnection(w) \/ AllocConnection(w) \/ CloseConnections(w)
          \/ FreeConnection(w)
      BY <1>2, QuietSteps DEF ProcessStep, WorkerStep
    <2>2. Request(w) => PoolInv'
      BY <1>1, RequestStep
    <2>3. (\/ OpenConnection(w) \/ PoolExhausted(w) \/ CopyConnection(w)
           \/ Connect(w) \/ RunUnnamed(w)) => PoolInv'
      BY <1>1, LocalStep
    <2>4. Helo(w) \/ RunNamed(w) => PoolInv'
      BY <1>1, ConnectorStep
    <2>5. (WriteHelperPid(w) => PoolInv') /\ (Crash(w) => PoolInv')
      BY <1>1, HelperStep, CrashStep
    <2>6. (FindConnection(w) => PoolInv') /\ (AllocConnection(w) => PoolInv')
      BY <1>1, FindStep, AllocStep
    <2>7. (CloseConnections(w) => PoolInv') /\ (FreeConnection(w) => PoolInv')
      BY <1>1, SweepStep, FreeStep
    <2> QED
      BY <2>1, <2>2, <2>3, <2>4, <2>5, <2>6, <2>7
  <1>3. CASE OtherStep
    BY <1>1, <1>3, ExitStep, ClockStep DEF OtherStep
  <1> QED
    BY <1>2, <1>3, StepCases

LEMMA PoolInit == Quiet /\ Init => PoolInv
  <1> SUFFICES ASSUME Quiet, Init PROVE PoolInv
    OBVIOUS
  <1>1. Typed
    BY TypeInit
  <1>2. \A s \in Slots : ~ InUse(s) /\ slots[s].sock \notin Socks
    BY DEF Init, InUse, EmptyConnection
  <1>3. \A w \in Workers : pc[w] = "idle" /\ slot[w] = NoSlot /\ NoSlot \notin Slots
    BY DEF Init, Slots, NoSlot
  <1>4. \A c \in Socks : conns[c].client \notin Workers
    BY DEF Init, NoConnector
  <1>5. open = {} /\ now <= MaxTime /\ wild = {}
    BY DEF Init
  <1> QED
    BY <1>1, <1>2, <1>3, <1>4, <1>5 DEF Flow, SlotsReady, OwnPath, Counted, Kept, OpenHeld,
       CopyTrue, ClientServed, AtSlot

LEMMA PoolInvariant == Quiet => (Spec => []PoolInv)
  <1> SUFFICES ASSUME Quiet PROVE Spec => []PoolInv
    OBVIOUS
  <1>1. Init => PoolInv
    BY PoolInit
  <1>2. PoolInv /\ [Next]_vars => PoolInv'
    BY PoolStep
  <1> QED
    BY <1>1, <1>2, PTL DEF Spec

\* The use count of a named slot is the number of requests that hold it, dead
\* or alive: find_connection and populate_connection count up, free_connection
\* down, each in a section of its own.
THEOREM InUseExactHolds ==
    ASSUME Quiet PROVE Spec => []InUseExact
  <1>1. PoolInv => InUseExact
    <2> SUFFICES ASSUME PoolInv, NEW s \in Slots, InUse(s), slots[s].name # NoName
                 PROVE  slots[s].inUse = Cardinality(NamedHolders(s)) % InUseMod
      BY DEF InUseExact
    <2>1. NamedHolders(s) = Users(s)
      BY DEF NamedHolders, Users, Holding, Named, Flow
    <2>2. /\ Cardinality(Users(s)) \in Nat /\ Cardinality(Users(s)) < InUseMod
          /\ InUseMod \in Nat
      BY UsersCount
    <2>3. Cardinality(Users(s)) % InUseMod = Cardinality(Users(s))
      BY <2>2
    <2> QED
      BY <2>1, <2>3 DEF Counted
  <1> QED
    BY <1>1, PoolInvariant, PTL

\* No sweep and no other request takes a slot from a request that is on its way
\* (run_query goes on using the index that get_connection returned).
THEOREM SlotKeptHolds ==
    ASSUME Quiet PROVE Spec => []SlotKept
  <1>1. PoolInv => SlotKept
    BY DEF SlotKept, Holding, Dead, Kept, Live, Named
  <1> QED
    BY <1>1, PoolInvariant, PTL

\* Every handle a worker passes to the driver is its own and open, although
\* conn->db lies where every process can read it.
THEOREM HandlesPrivateHolds ==
    ASSUME Quiet PROVE Spec => []HandlesPrivate
  <1>1. PoolInv => HandlesPrivate
    BY DEF HandlesPrivate, Flow
  <1> QED
    BY <1>1, PoolInvariant, PTL

\* Whichever way a request ends, a full pool included, its handle is closed.
THEOREM HandlesClosedHolds ==
    ASSUME Quiet PROVE Spec => []HandlesClosed
  <1>1. PoolInv => HandlesClosed
    BY DEF HandlesClosed, OpenHeld, Flow, Slots, NoSlot
  <1> QED
    BY <1>1, PoolInvariant, PTL

\* No query runs on a connector that logged in for another connection name,
\* although a slot and a path are used by one name after another.
THEOREM SameLoginHolds ==
    ASSUME Quiet PROVE Spec => []SameLogin
  <1>1. PoolInv => SameLogin
    <2> SUFFICES ASSUME PoolInv, NEW w \in Workers, NEW c \in Socks, conns[c].client = w
                 PROVE  conns[c].login \in {NoName, req[w].name}
      BY DEF SameLogin
    <2>1. pc[w] \in {"writepid", "exec"} /\ Named(w) /\ copy[w].sock = c
      BY DEF ClientServed
    <2>2. /\ slot[w] \in Slots /\ slots[slot[w]].sock = c /\ InUse(slot[w])
          /\ slots[slot[w]].name = req[w].name
      BY <2>1, ConnectorUp
    <2> QED
      BY <2>1, <2>2 DEF SlotsReady, Named
  <1> QED
    BY <1>1, PoolInvariant, PTL
=============================================================================
