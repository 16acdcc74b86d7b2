------------------------------ MODULE AnswerProofs ------------------------------
(***************************************************************************)
(* Theorems about what a request gets for an answer.  First the login a      *)
(* connector keeps, for any requests, any of the drivers and batches of any *)
(* length: what a request finds in the session, what its answer says of the *)
(* data, and when a login is made anew.  Then the answers of MCAnswer, of     *)
(* which the session is a part, and what ResponseProofs says of the others.  *)
(***************************************************************************)
EXTENDS MCAnswer, SequenceTheorems, TLAPS

Statements == {"ok", "rows", "fail"}

-----------------------------------------------------------------------------
(* Batches and what is left of them. *)

LEMMA Bounded ==
    ASSUME NEW X, NEW n \in Nat
    PROVE  /\ <<>> \in BoundedSeq(X, n)
           /\ \A s \in BoundedSeq(X, n) :
                 s # <<>> => Head(s) \in X /\ Tail(s) \in BoundedSeq(X, n)
  <1>1. \A s : s \in BoundedSeq(X, n) <=> s \in Seq(X) /\ Len(s) <= n
    BY SeqDef, LenProperties DEF BoundedSeq, SeqOf
  <1>2. <<>> \in [1 .. 0 -> X]
    OBVIOUS
  <1>3. ASSUME NEW s \in Seq(X), Len(s) <= n, s # <<>>
        PROVE  Head(s) \in X /\ Tail(s) \in Seq(X) /\ Len(Tail(s)) <= n
    BY <1>3, HeadTailProperties
  <1>4. <<>> \in BoundedSeq(X, n)
    BY <1>2 DEF BoundedSeq, SeqOf
  <1>5. ASSUME NEW s \in BoundedSeq(X, n), s # <<>>
        PROVE  Head(s) \in X /\ Tail(s) \in BoundedSeq(X, n)
    <2>1. s \in Seq(X) /\ Len(s) <= n
      BY <1>1, <1>5
    <2> QED
      BY <1>1, <1>3, <1>5, <2>1
  <1> QED
    BY <1>4, <1>5

LEMMA NothingLeft == Range(<<>>) = {}
  BY DEF Range

-----------------------------------------------------------------------------
(* Type correctness. *)

LEMMA SessionTypeInit == Init => TypeOK
  <1> SUFFICES ASSUME Init PROVE TypeOK
    OBVIOUS
  <1>1. pending \in BoundedSeq(Statements, MaxBatch)
    BY SessionAssumption, Bounded DEF Init
  <1>2. /\ batch \in Batches \cup {<<>>}
        /\ answer \in [Requests -> {"none", "success", "error"}]
    BY DEF Init
  <1>3. /\ connected \in BOOLEAN /\ tran \in BOOLEAN /\ querying \in BOOLEAN
        /\ spoiled \in BOOLEAN
    BY DEF Init
  <1> QED
    BY <1>1, <1>2, <1>3 DEF Init, TypeOK, Statements

LEMMA SessionTypeStep ==
    TypeOK /\ [Next]_vars => TypeOK'
  <1> SUFFICES ASSUME TypeOK, [Next]_vars PROVE TypeOK'
    OBVIOUS
  <1> USE SessionAssumption DEF TypeOK
  <1>0. /\ <<>> \in BoundedSeq(Statements, MaxBatch)
        /\ \A s \in BoundedSeq(Statements, MaxBatch) :
              s # <<>> => Tail(s) \in BoundedSeq(Statements, MaxBatch)
        /\ Batches = BoundedSeq(Statements, MaxBatch) \ {<<>>}
    BY Bounded DEF Batches, Statements
  <1> USE <1>0 DEF Statements
  <1>1. ASSUME NEW r \in Requests, NEW f \in BOOLEAN, NEW b \in Batches, Run(r, f, b)
        PROVE  TypeOK'
    BY <1>1 DEF Run, handle, server, history
  <1>2. CASE LoginDone
    <2>1. connected' \in BOOLEAN /\ tran' \in BOOLEAN /\ spoiled' \in BOOLEAN
      BY <1>2 DEF LoginDone
    <2>2. left' \in Nat
      BY <1>2 DEF LoginDone
    <2> QED
      BY <1>2, <2>1, <2>2 DEF LoginDone, request
  <1>3. CASE LoginFailed
    BY <1>3 DEF LoginFailed, server, request, history
  <1>4. CASE Begin
    BY <1>4 DEF Begin, request, history, Seen, MsgAfter
  <1>5. CASE ExecDone
    BY <1>5 DEF ExecDone, Execute, handle, request
  <1>6. CASE ExecFailed
    BY <1>6 DEF ExecFailed, Execute, request, Seen, MsgAfter
  <1>7. CASE FillData
    BY <1>7 DEF FillData, HasResults, MssqlResults, OdbcResults, MysqlResults, request, history,
       Seen
  <1>8. CASE FillDataEnd
    BY <1>8 DEF FillDataEnd, HasResults, MssqlResults, OdbcResults, MysqlResults, request,
       history, Seen
  <1>9. CASE Commit
    BY <1>9 DEF Commit, request, history, Seen
  <1>10. CASE Rollback
    BY <1>10 DEF Rollback, request, history, Seen, MsgAfter
  <1>11. CASE NextClient
    BY <1>11 DEF NextClient, server, history, Seen, IsAlive
  <1>12. CASE ServerDies
    BY <1>12 DEF ServerDies, request
  <1>13. CASE UNCHANGED vars
    BY <1>13 DEF vars, handle, server, request, history
  <1> QED
    BY <1>1, <1>2, <1>3, <1>4, <1>5, <1>6, <1>7, <1>8, <1>9, <1>10, <1>11, <1>12, <1>13
       DEF Next, Step

\* The connector's handle, flags and messages, and what the server holds for
\* them, keep their types, and the server holds uncommitted changes only in a
\* transaction; a request that runs has a batch (exec_query and fill_data of db.c).
THEOREM SessionTypeCorrect == Spec => []TypeOK
  BY SessionTypeInit, SessionTypeStep, PTL DEF Spec

-----------------------------------------------------------------------------
(* The invariant. *)

\* main makes a login when it has none that is known to be alive; mysql.c apart,
\* it forgets none that the server still holds.
LoginInv ==
    /\ pc = "login" => ~ connected
    /\ pc \notin {"idle", "login"} => connected
    /\ connected /\ pc # "gone" => db # "none"
    /\ ~ connected /\ driver # "mysql" => db \in {"none", "dead"}
    /\ connected /\ driver = "mssql" /\ pc \in {"idle", "begin"} => db # "dead"
    /\ driver # "mysql" => left = 0

\* A transaction is that of the request that runs, or one that a batch with
\* unread results left behind; then the library refuses every command that
\* follows, so that nothing is ever added to it.
TranInv ==
    /\ tran => driver = "mssql" /\ db = "up"
    /\ tran => \/ "rows" \in Range(pending) /\ pc \notin {"results", "commit"}
               \/ /\ Xact /\ pc \in {"exec", "results", "commit", "rollback"}
                  /\ work \subseteq {req}
    /\ pc = "commit" => pending = <<>>
    /\ ~ spoiled /\ pc # "results" => "rows" \notin Range(pending)

Active == {"login", "begin", "exec", "results", "commit", "rollback"}

\* A request is told once; when it is about to be told of an error there is a
\* message of its statement, or the session is of no use any more.
AnswerInv ==
    /\ pc \in Active => answer[req] = "none"
    /\ pc = "rollback" => "query" \in msg \/ (driver = "mssql" /\ (db = "dead" \/ spoiled))
    /\ ErrorIsTheQuerys

\* What was done is committed, lost with the server, or about to be told of.
DataInv ==
    /\ \A r \in durable : answer[r] = "none" =>
          /\ r = req /\ pc \in {"results", "commit", "rollback"}
          /\ ~ (driver = "mssql" /\ Xact)
    /\ driver = "mssql" /\ pc = "exec" /\ Xact => tran \/ Refused
    /\ ErrorChangedNothing
    /\ \A r \in did : \/ r \in durable \cup died \/ answer[r] = "error"
                      \/ r = req /\ pc = "rollback"
                      \/ r = req /\ r \in work /\ pc \in {"results", "commit"}

SessionInv == TypeOK /\ LoginInv /\ TranInv /\ AnswerInv /\ DataInv

-----------------------------------------------------------------------------
(* Each step preserves it. *)

LEMMA RunKeeps ==
    ASSUME SessionInv, TypeOK',
           NEW r \in Requests, NEW f \in BOOLEAN, NEW b \in Batches, Run(r, f, b)
    PROVE  SessionInv'
  <1> USE SessionAssumption DEF SessionInv, TypeOK, Xact, Refused
  <1>1. LoginInv'
    BY NothingLeft DEF Run, handle, server, history, LoginInv
  <1>2. TranInv'
    BY NothingLeft DEF Run, handle, server, history, LoginInv, TranInv
  <1>3. AnswerInv'
    BY NothingLeft DEF Run, handle, server, history, TranInv, LoginInv, AnswerInv,
       Active, ErrorIsTheQuerys
  <1>4. DataInv'
    BY NothingLeft DEF Run, handle, server, history, LoginInv, TranInv, AnswerInv,
       Active, DataInv, ErrorChangedNothing
  <1> QED
    BY <1>1, <1>2, <1>3, <1>4

LEMMA LoginDoneKeeps ==
    ASSUME SessionInv, TypeOK', LoginDone
    PROVE  SessionInv'
  <1> USE SessionAssumption DEF SessionInv, TypeOK, Xact, Refused
  <1>1. LoginInv'
    BY NothingLeft DEF LoginDone, request, LoginInv
  <1>2. TranInv'
    BY NothingLeft DEF LoginDone, request, LoginInv, TranInv
  <1>3. AnswerInv'
    BY NothingLeft DEF LoginDone, request, TranInv, LoginInv, AnswerInv, Active,
       ErrorIsTheQuerys
  <1>4. DataInv'
    BY NothingLeft DEF LoginDone, request, LoginInv, TranInv, AnswerInv, Active,
       DataInv, ErrorChangedNothing
  <1> QED
    BY <1>1, <1>2, <1>3, <1>4

LEMMA LoginFailedKeeps ==
    ASSUME SessionInv, TypeOK', LoginFailed
    PROVE  SessionInv'
  <1> USE SessionAssumption DEF SessionInv, TypeOK, Xact, Refused
  <1>1. LoginInv'
    BY NothingLeft DEF LoginFailed, server, request, history, LoginInv
  <1>2. TranInv'
    BY NothingLeft DEF LoginFailed, server, request, history, LoginInv, TranInv
  <1>3. AnswerInv'
    BY NothingLeft DEF LoginFailed, server, request, history, TranInv, LoginInv,
       AnswerInv, Active, ErrorIsTheQuerys
  <1>4. DataInv'
    BY NothingLeft DEF LoginFailed, server, request, history, LoginInv, TranInv,
       AnswerInv, Active, DataInv, ErrorChangedNothing
  <1> QED
    BY <1>1, <1>2, <1>3, <1>4

LEMMA BeginKeeps ==
    ASSUME SessionInv, TypeOK', Begin
    PROVE  SessionInv'
  <1> USE SessionAssumption DEF SessionInv, TypeOK, Xact, Refused
  <1>1. LoginInv'
    BY NothingLeft DEF Begin, request, history, Seen, MsgAfter, CatalogKnown, LoginInv
  <1>2. TranInv'
    BY NothingLeft DEF Begin, request, history, Seen, MsgAfter, CatalogKnown, LoginInv,
       TranInv
  <1>3. AnswerInv'
    BY NothingLeft DEF Begin, request, history, Seen, MsgAfter, CatalogKnown, TranInv,
       LoginInv, AnswerInv, Active, ErrorIsTheQuerys
  <1>4. DataInv'
    BY NothingLeft DEF Begin, request, history, Seen, MsgAfter, CatalogKnown, LoginInv,
       TranInv, AnswerInv, Active, DataInv, ErrorChangedNothing
  <1> QED
    BY <1>1, <1>2, <1>3, <1>4

LEMMA ExecDoneKeeps ==
    ASSUME SessionInv, TypeOK', ExecDone
    PROVE  SessionInv'
  <1> USE SessionAssumption DEF SessionInv, TypeOK, Xact, Refused
  <1>1. LoginInv'
    BY NothingLeft DEF ExecDone, Execute, handle, request, LoginInv
  <1>2. TranInv'
    BY NothingLeft DEF ExecDone, Execute, handle, request, LoginInv, TranInv
  <1>3. AnswerInv'
    BY NothingLeft DEF ExecDone, Execute, handle, request, TranInv, LoginInv, AnswerInv,
       Active, ErrorIsTheQuerys
  <1>4. DataInv'
    BY NothingLeft DEF ExecDone, Execute, handle, request, LoginInv, TranInv, AnswerInv,
       Active, DataInv, ErrorChangedNothing
  <1> QED
    BY <1>1, <1>2, <1>3, <1>4

LEMMA ExecFailedKeeps ==
    ASSUME SessionInv, TypeOK', ExecFailed
    PROVE  SessionInv'
  <1> USE SessionAssumption DEF SessionInv, TypeOK, Xact, Refused
  <1>1. LoginInv'
    BY NothingLeft DEF ExecFailed, Execute, request, Seen, MsgAfter, LoginInv
  <1>2. TranInv'
    BY NothingLeft DEF ExecFailed, Execute, request, Seen, MsgAfter, LoginInv, TranInv
  <1>3. AnswerInv'
    BY NothingLeft DEF ExecFailed, Execute, request, Seen, MsgAfter, TranInv, LoginInv,
       AnswerInv, Active, ErrorIsTheQuerys
  <1>4. DataInv'
    BY NothingLeft DEF ExecFailed, Execute, request, Seen, MsgAfter, LoginInv, TranInv,
       AnswerInv, Active, DataInv, ErrorChangedNothing
  <1> QED
    BY <1>1, <1>2, <1>3, <1>4

LEMMA FillDataKeeps ==
    ASSUME SessionInv, TypeOK', FillData
    PROVE  SessionInv'
  <1> USE SessionAssumption DEF SessionInv, TypeOK, Xact, Refused
  <1>1. LoginInv'
    BY NothingLeft DEF FillData, HasResults, MssqlResults, OdbcResults, MysqlResults,
       request, history, Seen, LoginInv
  <1>2. TranInv'
    BY NothingLeft DEF FillData, HasResults, MssqlResults, OdbcResults, MysqlResults,
       request, history, Seen, LoginInv, TranInv
  <1>3. AnswerInv'
    BY NothingLeft DEF FillData, HasResults, MssqlResults, OdbcResults, MysqlResults,
       request, history, Seen, TranInv, LoginInv, AnswerInv, Active, ErrorIsTheQuerys
  <1>4. DataInv'
    BY NothingLeft DEF FillData, HasResults, MssqlResults, OdbcResults, MysqlResults,
       request, history, Seen, LoginInv, TranInv, AnswerInv, Active, DataInv,
       ErrorChangedNothing
  <1> QED
    BY <1>1, <1>2, <1>3, <1>4

LEMMA FillDataEndKeeps ==
    ASSUME SessionInv, TypeOK', FillDataEnd
    PROVE  SessionInv'
  <1> USE SessionAssumption DEF SessionInv, TypeOK, Xact, Refused
  <1>1. LoginInv'
    BY NothingLeft DEF FillDataEnd, HasResults, MssqlResults, OdbcResults, MysqlResults,
       request, history, Seen, LoginInv
  <1>2. TranInv'
    BY NothingLeft DEF FillDataEnd, HasResults, MssqlResults, OdbcResults, MysqlResults,
       request, history, Seen, LoginInv, TranInv
  <1>3. AnswerInv'
    BY NothingLeft DEF FillDataEnd, HasResults, MssqlResults, OdbcResults, MysqlResults,
       request, history, Seen, TranInv, LoginInv, AnswerInv, Active, ErrorIsTheQuerys
  <1>4. DataInv'
    BY NothingLeft DEF FillDataEnd, HasResults, MssqlResults, OdbcResults, MysqlResults,
       request, history, Seen, LoginInv, TranInv, AnswerInv, Active, DataInv,
       ErrorChangedNothing
  <1> QED
    BY <1>1, <1>2, <1>3, <1>4

LEMMA CommitKeeps ==
    ASSUME SessionInv, TypeOK', Commit
    PROVE  SessionInv'
  <1> USE SessionAssumption DEF SessionInv, TypeOK, Xact, Refused
  <1>1. LoginInv'
    BY NothingLeft DEF Commit, request, history, Seen, CatalogKnown, LoginInv
  <1>2. TranInv'
    BY NothingLeft DEF Commit, request, history, Seen, CatalogKnown, LoginInv, TranInv
  <1>3. AnswerInv'
    BY NothingLeft DEF Commit, request, history, Seen, CatalogKnown, TranInv, LoginInv,
       AnswerInv, Active, ErrorIsTheQuerys
  <1>4. DataInv'
    BY NothingLeft DEF Commit, request, history, Seen, CatalogKnown, LoginInv, TranInv,
       AnswerInv, Active, DataInv, ErrorChangedNothing
  <1> QED
    BY <1>1, <1>2, <1>3, <1>4

LEMMA RollbackKeeps ==
    ASSUME SessionInv, TypeOK', Rollback
    PROVE  SessionInv'
  <1> USE SessionAssumption DEF SessionInv, TypeOK, Xact, Refused
  <1>1. LoginInv'
    BY NothingLeft DEF Rollback, request, history, Seen, MsgAfter, CatalogKnown, LoginInv
  <1>2. TranInv'
    BY NothingLeft DEF Rollback, request, history, Seen, MsgAfter, CatalogKnown,
       LoginInv, TranInv
  <1>3. AnswerInv'
    BY NothingLeft DEF Rollback, request, history, Seen, MsgAfter, CatalogKnown,
       TranInv, LoginInv, AnswerInv, Active, ErrorIsTheQuerys
  <1>4. DataInv'
    BY NothingLeft DEF Rollback, request, history, Seen, MsgAfter, CatalogKnown,
       LoginInv, TranInv, AnswerInv, Active, DataInv, ErrorChangedNothing
  <1> QED
    BY <1>1, <1>2, <1>3, <1>4

LEMMA NextClientKeeps ==
    ASSUME SessionInv, TypeOK', NextClient
    PROVE  SessionInv'
  <1> USE SessionAssumption DEF SessionInv, TypeOK, Xact, Refused
  <1>1. LoginInv'
    BY NothingLeft DEF NextClient, server, history, Seen, IsAlive, LoginInv
  <1>2. TranInv'
    BY NothingLeft DEF NextClient, server, history, Seen, IsAlive, LoginInv, TranInv
  <1>3. AnswerInv'
    BY NothingLeft DEF NextClient, server, history, Seen, IsAlive, TranInv, LoginInv,
       AnswerInv, Active, ErrorIsTheQuerys
  <1>4. DataInv'
    BY NothingLeft DEF NextClient, server, history, Seen, IsAlive, LoginInv, TranInv,
       AnswerInv, Active, DataInv, ErrorChangedNothing
  <1> QED
    BY <1>1, <1>2, <1>3, <1>4

LEMMA ServerDiesKeeps ==
    ASSUME SessionInv, TypeOK', ServerDies
    PROVE  SessionInv'
  <1> USE SessionAssumption DEF SessionInv, TypeOK, Xact, Refused
  <1>1. LoginInv'
    BY NothingLeft DEF ServerDies, request, LoginInv
  <1>2. TranInv'
    BY NothingLeft DEF ServerDies, request, LoginInv, TranInv
  <1>3. AnswerInv'
    BY NothingLeft DEF ServerDies, request, TranInv, LoginInv, AnswerInv, Active,
       ErrorIsTheQuerys
  <1>4. DataInv'
    BY NothingLeft DEF ServerDies, request, LoginInv, TranInv, AnswerInv, Active,
       DataInv, ErrorChangedNothing
  <1> QED
    BY <1>1, <1>2, <1>3, <1>4

LEMMA SessionStart == Init => SessionInv
  <1> SUFFICES ASSUME Init PROVE SessionInv
    OBVIOUS
  <1>1. TypeOK
    BY SessionTypeInit DEF Init
  <1> QED
    BY <1>1, NothingLeft DEF Init, SessionInv, LoginInv, TranInv, AnswerInv, Active, DataInv,
       ErrorIsTheQuerys, ErrorChangedNothing

LEMMA SessionStep == SessionInv /\ [Next]_vars => SessionInv'
  <1> SUFFICES ASSUME SessionInv, [Next]_vars PROVE SessionInv'
    OBVIOUS
  <1>1. TypeOK'
    BY SessionTypeStep DEF SessionInv
  <1>2. CASE UNCHANGED vars
    BY <1>1, <1>2 DEF vars, handle, server, request, history, SessionInv, LoginInv, TranInv,
       AnswerInv, Active, DataInv, ErrorIsTheQuerys, ErrorChangedNothing, Xact, Refused
  <1> QED
    BY <1>1, <1>2, RunKeeps, LoginDoneKeeps, LoginFailedKeeps, BeginKeeps, ExecDoneKeeps,
       ExecFailedKeeps, FillDataKeeps, FillDataEndKeeps, CommitKeeps, RollbackKeeps,
       NextClientKeeps, ServerDiesKeeps DEF Next, Step

LEMMA SessionInvariant == Spec => []SessionInv
  BY SessionStart, SessionStep, PTL DEF Spec

-----------------------------------------------------------------------------
(* What follows from it. *)

LEMMA SessionMeans ==
    SessionInv => CleanStart /\ OutcomeTold /\ ErrorIsTheQuerys /\ LoginFollowsServer
  <1> SUFFICES ASSUME SessionInv
               PROVE  CleanStart /\ OutcomeTold /\ ErrorIsTheQuerys /\ LoginFollowsServer
    OBVIOUS
  <1>1. CleanStart
    BY DEF SessionInv, TypeOK, TranInv, CleanStart
  <1>2. ErrorChangedNothing
    BY DEF SessionInv, DataInv
  <1>3. SuccessIsDurable
    BY DEF SessionInv, TypeOK, DataInv, AnswerInv, Active, SuccessIsDurable
  <1>4. ErrorIsTheQuerys
    BY DEF SessionInv, AnswerInv
  <1>5. LoginFollowsServer
    BY DEF SessionInv, LoginInv, LoginFollowsServer, NoLoginLeft, DeadIsReplaced
  <1> QED
    BY <1>1, <1>2, <1>3, <1>4, <1>5 DEF OutcomeTold

\* A request finds no transaction and no results of an earlier one, but after a
\* batch that failed with result sets behind its first statement (exec_query).
THEOREM CleanStartHolds == Spec => []CleanStart
  BY SessionMeans, SessionInvariant, PTL

\* Success means committed, unless the server went away; with xact an error on
\* SQL Server means that nothing was changed, though nobody looks at how BEGIN,
\* COMMIT and ROLLBACK went (exec_query).
THEOREM OutcomeToldHolds == Spec => []OutcomeTold
  BY SessionMeans, SessionInvariant, PTL

\* The message of an error is that of the statement that failed, with the
\* exceptions named there (api->error, connector.c).
THEOREM ErrorIsTheQuerysHolds == Spec => []ErrorIsTheQuerys
  BY SessionMeans, SessionInvariant, PTL

\* mysql.c apart, no login is left behind on the server, and on SQL Server none
\* that is known to be dead is used again (main of connector.c, api->isalive).
THEOREM LoginFollowsServerHolds == Spec => []LoginFollowsServer
  BY SessionMeans, SessionInvariant, PTL

-----------------------------------------------------------------------------
(* The instances of Response in MCAnswer, and those of ResponseProofs: their  *)
(* definitions are the same.                                                *)

RP == INSTANCE ResponseProofs WITH request <- asked
TP == INSTANCE ResponseProofs WITH request <- asked,
        MaxResults <- 1, MaxRows <- 1, MaxCols <- 1, MaxSlots <- 1,
        Types <- {n[1] : n \in R!Names}, CsvTexts <- {"plain"}, ErrorHandlers <- {FALSE}

LEMMA ResponseWriter ==
    /\ \A w : /\ R!NewObject(w) = RP!NewObject(w) /\ R!NewArray(w) = RP!NewArray(w)
              /\ R!EndObject(w) = RP!EndObject(w) /\ R!EndArray(w) = RP!EndArray(w)
              /\ R!KeyedObject(w) = RP!KeyedObject(w) /\ R!KeyedArray(w) = RP!KeyedArray(w)
              /\ R!AddKey(w) = RP!AddKey(w) /\ R!AddMember(w) = RP!AddMember(w)
              /\ \A n : R!AddMembers(w, n) = RP!AddMembers(w, n)
              /\ \A t : R!AddJson(w, t) = RP!AddJson(w, t)
              /\ \A t : R!AddText(w, t) = RP!AddText(w, t)
              /\ \A k, v : R!AddMemberAs(w, k, v) = RP!AddMemberAs(w, k, v)
    /\ R!New = RP!New /\ R!Members = RP!Members
  <1>1. \A r, t : R!Read(r, t) = RP!Read(r, t)
    BY DEF R!Read, RP!Read, R!ReadToken, RP!ReadToken, R!ReadInString, RP!ReadInString, R!Lost, RP!Lost, R!Bad,
       RP!Bad, R!End, RP!End, R!Begin, RP!Begin, R!AfterValue, RP!AfterValue, R!Closes,
       RP!Closes, R!Inside, RP!Inside, R!WantsValue, RP!WantsValue, R!WantsKey, RP!WantsKey
  <1>2. \A r, t : R!ReadAll(r, t) = RP!ReadAll(r, t)
    BY <1>1, Zenon DEF R!ReadAll, RP!ReadAll
  <1>3. \A w, t : R!AddJson(w, t) = RP!AddJson(w, t)
    BY <1>2 DEF R!AddJson, RP!AddJson
  <1>4. \A w : R!CountItem(w) = RP!CountItem(w) /\ R!Comma(w) = RP!Comma(w)
    BY DEF R!CountItem, RP!CountItem, R!Comma, RP!Comma, R!HasItems, RP!HasItems
  <1>5. /\ \A w, k : R!AddKeyAs(w, k) = RP!AddKeyAs(w, k)
        /\ \A w : R!AddKey(w) = RP!AddKey(w)
    BY <1>3, <1>4, Zenon DEF R!AddKeyAs, RP!AddKeyAs, R!AddKey, RP!AddKey
  <1>6. /\ \A w, k, v : R!AddMemberAs(w, k, v) = RP!AddMemberAs(w, k, v)
        /\ \A w : R!AddMember(w) = RP!AddMember(w)
    BY <1>3, <1>5, Zenon DEF R!AddMemberAs, RP!AddMemberAs, R!AddMember, RP!AddMember
  <1>7. \A w, n : R!AddMembers(w, n) = RP!AddMembers(w, n)
    BY <1>6, Zenon DEF R!AddMembers, RP!AddMembers
  <1>8. \A w, t : R!AddText(w, t) = RP!AddText(w, t)
    BY Zenon DEF R!AddText, RP!AddText, R!WantsKey, RP!WantsKey, R!Inside, RP!Inside,
       R!Members, RP!Members, R!Bad, RP!Bad, R!Lost, RP!Lost
  <1>9. \A w, t : R!Open(w, t) = RP!Open(w, t) /\ R!Close(w, t) = RP!Close(w, t)
    BY <1>2, <1>3, <1>4, Zenon DEF R!Open, RP!Open, R!Close, RP!Close
  <1>10. R!New = RP!New /\ R!Members = RP!Members
    BY DEF R!New, RP!New, R!Members, RP!Members, R!Begin, RP!Begin
  <1> QED
    BY <1>3, <1>5, <1>6, <1>7, <1>8, <1>9, <1>10, Zenon DEF R!NewObject, RP!NewObject,
       R!NewArray, RP!NewArray, R!EndObject, RP!EndObject, R!EndArray, RP!EndArray,
       R!KeyedObject, RP!KeyedObject, R!KeyedArray, RP!KeyedArray

LEMMA ResponseNext == R!Next => RP!Next
  <1> SUFFICES ASSUME R!Next PROVE RP!Next
    OBVIOUS
  <1>1. /\ \A c : R!BeginWith(c) = RP!BeginWith(c)
        /\ \A w : R!AppendRequest(w) = RP!AppendRequest(w) /\ R!EndCallback(w) = RP!EndCallback(w)
        /\ \A w : R!Restart(w) = RP!Restart(w)
        /\ \A w, n : R!AppendLog(w, n) = RP!AppendLog(w, n)
        /\ R!JsonError = RP!JsonError
    BY ResponseWriter, Zenon DEF R!BeginWith, RP!BeginWith, R!AppendRequest, RP!AppendRequest,
       R!EndCallback, RP!EndCallback, R!Restart, RP!Restart, R!AppendLog, RP!AppendLog,
       R!JsonError, RP!JsonError
  <1>2. /\ \A t : R!Done(t) <=> RP!Done(t)
        /\ R!Refuse <=> RP!Refuse
    BY <1>1, Zenon DEF R!Done, RP!Done, R!Refuse, RP!Refuse, R!answer, RP!answer
  <1>3. R!BadCommand => RP!BadCommand
    BY <1>1, <1>2, ResponseWriter, Zenon DEF R!BadCommand, RP!BadCommand, R!answer, RP!answer,
       R!NeedsParam, RP!NeedsParam
  <1>4. R!Kill => RP!Kill
    BY <1>1, <1>2, ResponseWriter, Zenon DEF R!Kill, RP!Kill, R!answer, RP!answer
  <1>5. R!Catalog => RP!Catalog
    BY <1>1, <1>2, ResponseWriter, Zenon DEF R!Catalog, RP!Catalog, R!answer, RP!answer,
       R!NeedsParam, RP!NeedsParam
  <1>6. R!Status => RP!Status
    BY <1>1, <1>2, ResponseWriter, Zenon DEF R!Status, RP!Status, R!answer, RP!answer
  <1>7. R!StatusSlot => RP!StatusSlot
    BY <1>1, <1>2, ResponseWriter, Zenon DEF R!StatusSlot, RP!StatusSlot
  <1>8. R!StatusEnd => RP!StatusEnd
    BY <1>1, <1>2, ResponseWriter, Zenon DEF R!StatusEnd, RP!StatusEnd, R!answer, RP!answer
  <1>9. R!Query => RP!Query
    BY <1>1, <1>2, ResponseWriter, Zenon DEF R!Query, RP!Query, R!answer, RP!answer
  <1>10. R!RunQuery => RP!RunQuery
    BY <1>1, <1>2, ResponseWriter, Zenon DEF R!RunQuery, RP!RunQuery, R!answer, RP!answer
  <1>11. R!CheckFails => RP!CheckFails
    BY <1>1, <1>2, ResponseWriter, Zenon DEF R!CheckFails, RP!CheckFails, R!answer, RP!answer,
       R!CheckRequest, RP!CheckRequest
  <1>12. R!NoConnection => RP!NoConnection
    BY <1>1, <1>2, ResponseWriter, Zenon DEF R!NoConnection, RP!NoConnection, R!answer,
       RP!answer, R!CheckRequest, RP!CheckRequest
  <1>13. R!HeloFails => RP!HeloFails
    BY <1>1, <1>2, ResponseWriter, Zenon DEF R!HeloFails, RP!HeloFails, R!answer, RP!answer,
       R!CheckRequest, RP!CheckRequest
  <1>14. R!Error => RP!Error
    BY <1>1, <1>2, ResponseWriter, Zenon DEF R!Error, RP!Error, R!answer, RP!answer,
       R!CheckRequest, RP!CheckRequest
  <1>15. R!NoInformation => RP!NoInformation
    BY <1>1, <1>2, ResponseWriter, Zenon DEF R!NoInformation, RP!NoInformation, R!answer,
       RP!answer, R!CheckRequest, RP!CheckRequest
  <1>16. R!Log => RP!Log
    BY <1>1, <1>2, ResponseWriter, Zenon DEF R!Log, RP!Log, R!answer, RP!answer
  <1>17. R!ExecQuery => RP!ExecQuery
    BY <1>1, <1>2, ResponseWriter, Zenon DEF R!ExecQuery, RP!ExecQuery, R!answer, RP!answer,
       R!CheckRequest, RP!CheckRequest
  <1>18. R!HasResults => RP!HasResults
    BY <1>1, <1>2, ResponseWriter, Zenon DEF R!HasResults, RP!HasResults, R!ColumnNames,
       RP!ColumnNames
  <1>19. R!Column => RP!Column
    BY <1>1, <1>2, ResponseWriter, Zenon DEF R!Column, RP!Column, R!ColumnKey, RP!ColumnKey,
       R!NextMax, RP!NextMax, R!Number, RP!Number
  <1>20. R!FieldsEnd => RP!FieldsEnd
    BY <1>1, <1>2, ResponseWriter, Zenon DEF R!FieldsEnd, RP!FieldsEnd, R!answer, RP!answer
  <1>21. R!FetchRow => RP!FetchRow
    BY <1>1, <1>2, ResponseWriter, Zenon DEF R!FetchRow, RP!FetchRow
  <1>22. R!Cell => RP!Cell
    BY <1>1, <1>2, ResponseWriter, Zenon DEF R!Cell, RP!Cell, R!CsvValue, RP!CsvValue,
       R!AddCell, RP!AddCell, R!KeyToken, RP!KeyToken, R!ValueTokens, RP!ValueTokens,
       R!IsQuoted, RP!IsQuoted, R!IsText, RP!IsText, R!MssqlQuoted, RP!MssqlQuoted,
       R!OdbcQuoted, RP!OdbcQuoted, R!MysqlQuoted, RP!MysqlQuoted, R!ColumnKey,
       RP!ColumnKey, R!NextMax, RP!NextMax, R!Number, RP!Number
  <1>23. R!RowEnd => RP!RowEnd
    BY <1>1, <1>2, ResponseWriter, Zenon DEF R!RowEnd, RP!RowEnd, R!answer, RP!answer
  <1>24. R!ResultEnd => RP!ResultEnd
    BY <1>1, <1>2, ResponseWriter, Zenon DEF R!ResultEnd, RP!ResultEnd, R!answer, RP!answer
  <1>25. R!NoMoreResults => RP!NoMoreResults
    BY <1>1, <1>2, ResponseWriter, Zenon DEF R!NoMoreResults, RP!NoMoreResults, R!answer,
       RP!answer
  <1> QED
    BY <1>3, <1>4, <1>5, <1>6, <1>7, <1>8, <1>9, <1>10, <1>11, <1>12, <1>13, <1>14, <1>15,
       <1>16, <1>17, <1>18, <1>19, <1>20, <1>21, <1>22, <1>23, <1>24, <1>25, Zenon DEF R!Next,
       RP!Next

LEMMA TypesWriter ==
    /\ \A w : /\ T!NewObject(w) = TP!NewObject(w) /\ T!NewArray(w) = TP!NewArray(w)
              /\ T!EndObject(w) = TP!EndObject(w) /\ T!EndArray(w) = TP!EndArray(w)
              /\ T!KeyedObject(w) = TP!KeyedObject(w) /\ T!KeyedArray(w) = TP!KeyedArray(w)
              /\ T!AddKey(w) = TP!AddKey(w) /\ T!AddMember(w) = TP!AddMember(w)
              /\ \A n : T!AddMembers(w, n) = TP!AddMembers(w, n)
              /\ \A t : T!AddJson(w, t) = TP!AddJson(w, t)
              /\ \A t : T!AddText(w, t) = TP!AddText(w, t)
              /\ \A k, v : T!AddMemberAs(w, k, v) = TP!AddMemberAs(w, k, v)
    /\ T!New = TP!New /\ T!Members = TP!Members
  <1>1. \A r, t : T!Read(r, t) = TP!Read(r, t)
    BY DEF T!Read, TP!Read, T!ReadToken, TP!ReadToken, T!ReadInString, TP!ReadInString, T!Lost, TP!Lost, T!Bad,
       TP!Bad, T!End, TP!End, T!Begin, TP!Begin, T!AfterValue, TP!AfterValue, T!Closes,
       TP!Closes, T!Inside, TP!Inside, T!WantsValue, TP!WantsValue, T!WantsKey, TP!WantsKey
  <1>2. \A r, t : T!ReadAll(r, t) = TP!ReadAll(r, t)
    BY <1>1, Zenon DEF T!ReadAll, TP!ReadAll
  <1>3. \A w, t : T!AddJson(w, t) = TP!AddJson(w, t)
    BY <1>2 DEF T!AddJson, TP!AddJson
  <1>4. \A w : T!CountItem(w) = TP!CountItem(w) /\ T!Comma(w) = TP!Comma(w)
    BY DEF T!CountItem, TP!CountItem, T!Comma, TP!Comma, T!HasItems, TP!HasItems
  <1>5. /\ \A w, k : T!AddKeyAs(w, k) = TP!AddKeyAs(w, k)
        /\ \A w : T!AddKey(w) = TP!AddKey(w)
    BY <1>3, <1>4, Zenon DEF T!AddKeyAs, TP!AddKeyAs, T!AddKey, TP!AddKey
  <1>6. /\ \A w, k, v : T!AddMemberAs(w, k, v) = TP!AddMemberAs(w, k, v)
        /\ \A w : T!AddMember(w) = TP!AddMember(w)
    BY <1>3, <1>5, Zenon DEF T!AddMemberAs, TP!AddMemberAs, T!AddMember, TP!AddMember
  <1>7. \A w, n : T!AddMembers(w, n) = TP!AddMembers(w, n)
    BY <1>6, Zenon DEF T!AddMembers, TP!AddMembers
  <1>8. \A w, t : T!AddText(w, t) = TP!AddText(w, t)
    BY Zenon DEF T!AddText, TP!AddText, T!WantsKey, TP!WantsKey, T!Inside, TP!Inside,
       T!Members, TP!Members, T!Bad, TP!Bad, T!Lost, TP!Lost
  <1>9. \A w, t : T!Open(w, t) = TP!Open(w, t) /\ T!Close(w, t) = TP!Close(w, t)
    BY <1>2, <1>3, <1>4, Zenon DEF T!Open, TP!Open, T!Close, TP!Close
  <1>10. T!New = TP!New /\ T!Members = TP!Members
    BY DEF T!New, TP!New, T!Members, TP!Members, T!Begin, TP!Begin
  <1> QED
    BY <1>3, <1>5, <1>6, <1>7, <1>8, <1>9, <1>10, Zenon DEF T!NewObject, TP!NewObject,
       T!NewArray, TP!NewArray, T!EndObject, TP!EndObject, T!EndArray, TP!EndArray,
       T!KeyedObject, TP!KeyedObject, T!KeyedArray, TP!KeyedArray

LEMMA TypesNext == T!Next => TP!Next
  <1> SUFFICES ASSUME T!Next PROVE TP!Next
    OBVIOUS
  <1>1. /\ \A c : T!BeginWith(c) = TP!BeginWith(c)
        /\ \A w : T!AppendRequest(w) = TP!AppendRequest(w) /\ T!EndCallback(w) = TP!EndCallback(w)
        /\ \A w : T!Restart(w) = TP!Restart(w)
        /\ \A w, n : T!AppendLog(w, n) = TP!AppendLog(w, n)
        /\ T!JsonError = TP!JsonError
    BY TypesWriter, Zenon DEF T!BeginWith, TP!BeginWith, T!AppendRequest, TP!AppendRequest,
       T!EndCallback, TP!EndCallback, T!Restart, TP!Restart, T!AppendLog, TP!AppendLog,
       T!JsonError, TP!JsonError
  <1>2. /\ \A t : T!Done(t) <=> TP!Done(t)
        /\ T!Refuse <=> TP!Refuse
    BY <1>1, Zenon DEF T!Done, TP!Done, T!Refuse, TP!Refuse, T!answer, TP!answer
  <1>3. T!BadCommand => TP!BadCommand
    BY <1>1, <1>2, TypesWriter, Zenon DEF T!BadCommand, TP!BadCommand, T!answer, TP!answer,
       T!NeedsParam, TP!NeedsParam
  <1>4. T!Kill => TP!Kill
    BY <1>1, <1>2, TypesWriter, Zenon DEF T!Kill, TP!Kill, T!answer, TP!answer
  <1>5. T!Catalog => TP!Catalog
    BY <1>1, <1>2, TypesWriter, Zenon DEF T!Catalog, TP!Catalog, T!answer, TP!answer,
       T!NeedsParam, TP!NeedsParam
  <1>6. T!Status => TP!Status
    BY <1>1, <1>2, TypesWriter, Zenon DEF T!Status, TP!Status, T!answer, TP!answer
  <1>7. T!StatusSlot => TP!StatusSlot
    BY <1>1, <1>2, TypesWriter, Zenon DEF T!StatusSlot, TP!StatusSlot
  <1>8. T!StatusEnd => TP!StatusEnd
    BY <1>1, <1>2, TypesWriter, Zenon DEF T!StatusEnd, TP!StatusEnd, T!answer, TP!answer
  <1>9. T!Query => TP!Query
    BY <1>1, <1>2, TypesWriter, Zenon DEF T!Query, TP!Query, T!answer, TP!answer
  <1>10. T!RunQuery => TP!RunQuery
    BY <1>1, <1>2, TypesWriter, Zenon DEF T!RunQuery, TP!RunQuery, T!answer, TP!answer
  <1>11. T!CheckFails => TP!CheckFails
    BY <1>1, <1>2, TypesWriter, Zenon DEF T!CheckFails, TP!CheckFails, T!answer, TP!answer,
       T!CheckRequest, TP!CheckRequest
  <1>12. T!NoConnection => TP!NoConnection
    BY <1>1, <1>2, TypesWriter, Zenon DEF T!NoConnection, TP!NoConnection, T!answer, TP!answer,
       T!CheckRequest, TP!CheckRequest
  <1>13. T!HeloFails => TP!HeloFails
    BY <1>1, <1>2, TypesWriter, Zenon DEF T!HeloFails, TP!HeloFails, T!answer, TP!answer,
       T!CheckRequest, TP!CheckRequest
  <1>14. T!Error => TP!Error
    BY <1>1, <1>2, TypesWriter, Zenon DEF T!Error, TP!Error, T!answer, TP!answer,
       T!CheckRequest, TP!CheckRequest
  <1>15. T!NoInformation => TP!NoInformation
    BY <1>1, <1>2, TypesWriter, Zenon DEF T!NoInformation, TP!NoInformation, T!answer,
       TP!answer, T!CheckRequest, TP!CheckRequest
  <1>16. T!Log => TP!Log
    BY <1>1, <1>2, TypesWriter, Zenon DEF T!Log, TP!Log, T!answer, TP!answer
  <1>17. T!ExecQuery => TP!ExecQuery
    BY <1>1, <1>2, TypesWriter, Zenon DEF T!ExecQuery, TP!ExecQuery, T!answer, TP!answer,
       T!CheckRequest, TP!CheckRequest
  <1>18. T!HasResults => TP!HasResults
    BY <1>1, <1>2, TypesWriter, Zenon DEF T!HasResults, TP!HasResults, T!ColumnNames,
       TP!ColumnNames
  <1>19. T!Column => TP!Column
    BY <1>1, <1>2, TypesWriter, Zenon DEF T!Column, TP!Column, T!ColumnKey, TP!ColumnKey,
       T!NextMax, TP!NextMax, T!Number, TP!Number
  <1>20. T!FieldsEnd => TP!FieldsEnd
    BY <1>1, <1>2, TypesWriter, Zenon DEF T!FieldsEnd, TP!FieldsEnd, T!answer, TP!answer
  <1>21. T!FetchRow => TP!FetchRow
    BY <1>1, <1>2, TypesWriter, Zenon DEF T!FetchRow, TP!FetchRow
  <1>22. T!Cell => TP!Cell
    BY <1>1, <1>2, TypesWriter, Zenon DEF T!Cell, TP!Cell, T!CsvValue, TP!CsvValue,
       T!AddCell, TP!AddCell, T!KeyToken, TP!KeyToken, T!ValueTokens, TP!ValueTokens,
       T!IsQuoted, TP!IsQuoted, T!IsText, TP!IsText, T!MssqlQuoted, TP!MssqlQuoted,
       T!OdbcQuoted, TP!OdbcQuoted, T!MysqlQuoted, TP!MysqlQuoted, T!ColumnKey,
       TP!ColumnKey, T!NextMax, TP!NextMax, T!Number, TP!Number
  <1>23. T!RowEnd => TP!RowEnd
    BY <1>1, <1>2, TypesWriter, Zenon DEF T!RowEnd, TP!RowEnd, T!answer, TP!answer
  <1>24. T!ResultEnd => TP!ResultEnd
    BY <1>1, <1>2, TypesWriter, Zenon DEF T!ResultEnd, TP!ResultEnd, T!answer, TP!answer
  <1>25. T!NoMoreResults => TP!NoMoreResults
    BY <1>1, <1>2, TypesWriter, Zenon DEF T!NoMoreResults, TP!NoMoreResults, T!answer, TP!answer
  <1> QED
    BY <1>3, <1>4, <1>5, <1>6, <1>7, <1>8, <1>9, <1>10, <1>11, <1>12, <1>13, <1>14, <1>15,
       <1>16, <1>17, <1>18, <1>19, <1>20, <1>21, <1>22, <1>23, <1>24, <1>25, Zenon DEF T!Next,
       TP!Next

-----------------------------------------------------------------------------
(* The names of types. *)

\* The names that a driver gives to quoted types only.
MssqlTold == {"varchar", "char", "text", "datetime", "guid", "binary", "varbinary"}
OdbcTold == {"char", "varchar", "wchar", "wvarchar", "date", "time", "timestamp"}
MysqlTold == {"varchar", "blob", "date", "time", "datetime"}

LEMMA MssqlTells == \A n \in T!MssqlNames : T!IsQuoted(n[1]) <=> n[2] \in MssqlTold
  BY DEF T!MssqlNames, T!Named, T!IsQuoted, T!MssqlQuoted, T!OdbcQuoted, T!MysqlQuoted, MssqlTold

LEMMA OdbcTells == \A n \in T!OdbcNames : T!IsQuoted(n[1]) <=> n[2] \in OdbcTold
  BY DEF T!OdbcNames, T!Named, T!IsQuoted, T!MssqlQuoted, T!OdbcQuoted, T!MysqlQuoted, OdbcTold

LEMMA MysqlTells == \A n \in T!MysqlNames : T!IsQuoted(n[1]) <=> n[2] \in MysqlTold
  BY DEF T!MysqlNames, T!Named, T!IsQuoted, T!MssqlQuoted, T!OdbcQuoted, T!MysqlQuoted, MysqlTold

LEMMA OwnTypes ==
    /\ \A m \in T!MssqlNames, o \in T!OdbcNames : m[1] # o[1]
    /\ \A m \in T!MssqlNames, y \in T!MysqlNames : m[1] # y[1]
    /\ \A o \in T!OdbcNames, y \in T!MysqlNames : o[1] # y[1]
  BY DEF T!MssqlNames, T!OdbcNames, T!MysqlNames, T!Named

LEMMA NameTells ==
    ASSUME NEW N \in {T!MssqlNames, T!OdbcNames, T!MysqlNames}
    PROVE  \E told : \A t \in {n[1] : n \in N} : T!IsQuoted(t) <=> T!TypeName(t) \in told
  <1>1. PICK told : \A n \in N : T!IsQuoted(n[1]) <=> n[2] \in told
    BY MssqlTells, OdbcTells, MysqlTells
  <1>2. ASSUME NEW t, t \in {n[1] : n \in N} PROVE T!IsQuoted(t) <=> T!TypeName(t) \in told
    <2>1. PICK c : c = CHOOSE n \in T!Names : n[1] = t
      OBVIOUS
    <2>2. PICK m \in N : m[1] = t
      BY <1>2
    <2>3. m \in T!Names
      BY DEF T!Names
    <2>4. c \in T!Names /\ c[1] = t
      BY <2>1, <2>2, <2>3
    <2>5. c \in N
      <3>1. PICK A, B, C : A = T!MssqlNames /\ B = T!OdbcNames /\ C = T!MysqlNames
        OBVIOUS
      <3>2. /\ \A a \in A, b \in B : a[1] # b[1]
            /\ \A a \in A, y \in C : a[1] # y[1]
            /\ \A b \in B, y \in C : b[1] # y[1]
        BY <3>1, OwnTypes
      <3>3. N \in {A, B, C} /\ c \in A \cup B \cup C
        BY <2>4, <3>1 DEF T!Names
      <3>4. m \in N /\ m[1] = c[1]
        BY <2>2, <2>4
      <3> QED
        BY <3>2, <3>3, <3>4
    <2>6. T!TypeName(t) = c[2]
      BY <2>1, <2>2, <2>3 DEF T!TypeName
    <2> QED
      BY <1>1, <2>4, <2>5, <2>6
  <1> QED
    BY <1>2

\* Within a driver the name of a type tells whether it is quoted.
LEMMA SqlTypeTells == T!SqlTypeTellsQuotes
  <1> SUFFICES ASSUME NEW t, NEW u, T!SameDriver(t, u), T!TypeName(t) = T!TypeName(u)
               PROVE  T!IsQuoted(t) <=> T!IsQuoted(u)
    BY DEF T!SqlTypeTellsQuotes
  <1>1. PICK N \in {T!MssqlNames, T!OdbcNames, T!MysqlNames} : {t, u} \subseteq {n[1] : n \in N}
    BY DEF T!SameDriver
  <1>2. PICK told : \A v \in {n[1] : n \in N} : T!IsQuoted(v) <=> T!TypeName(v) \in told
    BY NameTells
  <1> QED
    BY <1>1, <1>2

-----------------------------------------------------------------------------
(* The invariant of the parts: each moves by itself, and those that rest are  *)
(* as they began.                                                           *)

PartsInv ==
    /\ part \in {"session", "response", "types"}
    /\ SessionInv
    /\ asked \in R!RequestKinds
    /\ part = "response" => RP!ResponseInv /\ RP!KeysInv /\ RP!DepthInv
    /\ part # "response" => TP!ResponseInv /\ TP!KeysInv /\ TP!DepthInv

LEMMA Assumptions == RP!ResponseAssumption /\ TP!ResponseAssumption
  BY ResponseConstants DEF R!ResponseAssumption, RP!ResponseAssumption, TP!ResponseAssumption

LEMMA PartsInit == MCInit => PartsInv
  <1> SUFFICES ASSUME MCInit PROVE PartsInv
    OBVIOUS
  <1>1. /\ part \in {"session", "response", "types"} /\ R!Init /\ Init
        /\ part # "response" => asked = PlainQuery
    BY DEF MCInit
  <1>2. asked \in R!RequestKinds
    BY <1>1 DEF R!Init
  <1>3. RP!Init
    BY <1>1 DEF R!Init, RP!Init, R!RequestKinds, RP!RequestKinds, R!New, RP!New, R!Commands,
                RP!Commands, R!Begin, RP!Begin
  <1>4. part # "response" => TP!Init
    <2>1. PlainQuery \in TP!RequestKinds
      BY DEF PlainQuery, TP!RequestKinds, TP!Commands
    <2> QED
      BY <1>1, <2>1 DEF R!Init, TP!Init, R!New, TP!New, R!Begin, TP!Begin
  <1>5. SessionInv
    BY <1>1, SessionStart
  <1>6. RP!ResponseInv /\ RP!KeysInv /\ RP!DepthInv
    BY <1>3, RP!ResponseInit, RP!KeysInit, RP!DepthInit
  <1>7. part # "response" => TP!ResponseInv /\ TP!KeysInv /\ TP!DepthInv
    BY <1>4, TP!ResponseInit, TP!KeysInit, TP!DepthInit
  <1> QED
    BY <1>1, <1>2, <1>5, <1>6, <1>7 DEF PartsInv

LEMMA PartsStep == PartsInv /\ [MCNext]_all => PartsInv'
  <1> SUFFICES ASSUME PartsInv, [MCNext]_all PROVE PartsInv'
    OBVIOUS
  <1>1. part' = part
    BY DEF MCNext, all
  <1>2. SessionInv'
    <2>1. [Next]_vars
      BY DEF MCNext, all
    <2> QED
      BY <2>1, SessionStep DEF PartsInv
  <1>3. ASSUME part = "response"
        PROVE  RP!ResponseInv' /\ RP!KeysInv' /\ RP!DepthInv'
    <2>1. R!Next \/ UNCHANGED response
      BY <1>3 DEF MCNext, all
    <2>2. [RP!Next]_RP!vars
      BY <2>1, ResponseNext DEF response, RP!vars, RP!answer
    <2>3. RP!ResponseInv /\ RP!KeysInv /\ RP!DepthInv
      BY <1>3 DEF PartsInv
    <2> QED
      BY <2>2, <2>3, Assumptions, RP!ResponseStep, RP!KeysStep, RP!DepthStep
  <1>4. ASSUME part # "response"
        PROVE  TP!ResponseInv' /\ TP!KeysInv' /\ TP!DepthInv'
    <2>1. T!Next \/ UNCHANGED response
      BY <1>4 DEF MCNext, all
    <2>2. [TP!Next]_TP!vars
      BY <2>1, TypesNext DEF response, TP!vars, TP!answer
    <2>3. TP!ResponseInv /\ TP!KeysInv /\ TP!DepthInv
      BY <1>4 DEF PartsInv
    <2> QED
      BY <2>2, <2>3, Assumptions, TP!ResponseStep, TP!KeysStep, TP!DepthStep
  <1>5. asked' \in R!RequestKinds
    <2>1. CASE part = "response"
      <3>1. asked' \in RP!RequestKinds
        BY <1>3, <2>1 DEF RP!ResponseInv, RP!Asked
      <3> QED
        BY <3>1 DEF R!RequestKinds, RP!RequestKinds, R!Commands, RP!Commands
    <2>2. CASE part # "response"
      <3>1. asked \in TP!RequestKinds /\ asked' \in TP!RequestKinds
        BY <1>4, <2>2 DEF PartsInv, TP!ResponseInv, TP!Asked
      <3>2. asked.onerror = FALSE /\ asked'.onerror = FALSE
        BY <3>1 DEF TP!RequestKinds
      <3>3. asked.onerror \in ErrorHandlers
        BY DEF PartsInv, R!RequestKinds
      <3> QED
        BY <3>1, <3>2, <3>3 DEF R!RequestKinds, TP!RequestKinds, R!Commands, TP!Commands
    <2> QED
      BY <2>1, <2>2
  <1> QED
    BY <1>1, <1>2, <1>3, <1>4, <1>5 DEF PartsInv

LEMMA PartsInvariant == MCSpec => []PartsInv
  BY PartsInit, PartsStep, PTL DEF MCSpec

\* The requests of a connector, beside the other parts: what the theorems above
\* say of a login (main of connector.c, exec_query of db.c).
THEOREM SessionOfAnswer ==
    MCSpec => [](CleanStart /\ OutcomeTold /\ ErrorIsTheQuerys /\ LoginFollowsServer)
  <1>1. PartsInv => CleanStart /\ OutcomeTold /\ ErrorIsTheQuerys /\ LoginFollowsServer
    BY SessionMeans DEF PartsInv
  <1> QED
    BY <1>1, PartsInvariant, PTL

-----------------------------------------------------------------------------
(* What MCAnswer says of a response, whatever the part. *)

\* However the query of a request fails, its error reaches the callback that the
\* request named for errors, or for want of one that for data (db.c:496 and 554),
\* and data never reach the error handler, whatever is returned.
THEOREM AnswerErrorToHandler == MCSpec => []ErrorToHandler
  <1>1. ASSUME PartsInv, part = "response" PROVE ErrorToHandler
    <2>1. RP!ErrorToHandler
      BY <1>1, RP!ErrorsGoToHandler DEF PartsInv
    <2> QED
      BY <2>1 DEF ErrorToHandler, R!ErrorToHandler, RP!ErrorToHandler, R!NoCallback,
                  RP!NoCallback, R!NeedsParam, RP!NeedsParam, R!ErrorCallback,
                  RP!ErrorCallback, R!DataCallback, RP!DataCallback
  <1>2. ASSUME PartsInv, part # "response" PROVE ErrorToHandler
    <2>1. TP!ErrorToHandler
      BY <1>2, TP!ErrorsGoToHandler DEF PartsInv
    <2> QED
      BY <2>1 DEF ErrorToHandler, R!ErrorToHandler, TP!ErrorToHandler, R!NoCallback,
                  TP!NoCallback, R!NeedsParam, TP!NeedsParam, R!ErrorCallback,
                  TP!ErrorCallback, R!DataCallback, TP!DataCallback
  <1>3. PartsInv => ErrorToHandler
    BY <1>1, <1>2
  <1> QED
    BY <1>3, PartsInvariant, PTL

\* Every response is one JSON value, with data in the callback that the request
\* named (db.c:526 and 647): unless raw data got lost in its text, or it is one of
\* the Unopened.
THEOREM AnswerWellFormed == MCSpec => []ResponseWellFormed
  <1>1. ASSUME PartsInv, part = "response" PROVE ResponseWellFormed
    <2>1. RP!ResponseWellFormed
      BY <1>1, RP!ResponsesWellFormed DEF PartsInv
    <2> QED
      BY <2>1 DEF ResponseWellFormed, R!ResponseWellFormed, RP!ResponseWellFormed, R!Unopened,
                  RP!Unopened, R!NoCallback, RP!NoCallback, R!NeedsParam, RP!NeedsParam,
                  R!DataCallback, RP!DataCallback
  <1>2. ASSUME PartsInv, part # "response" PROVE ResponseWellFormed
    <2>1. TP!ResponseWellFormed
      BY <1>2, TP!ResponsesWellFormed DEF PartsInv
    <2> QED
      BY <2>1 DEF ResponseWellFormed, R!ResponseWellFormed, TP!ResponseWellFormed, R!Unopened,
                  TP!Unopened, R!NoCallback, TP!NoCallback, R!NeedsParam, TP!NeedsParam,
                  R!DataCallback, TP!DataCallback
  <1>3. PartsInv => ResponseWellFormed
    BY <1>1, <1>2
  <1> QED
    BY <1>3, PartsInvariant, PTL

\* What "fields" says is true of the rows: their keys are the same (db.c:718),
\* and within a driver the name of a type tells whether its values are quoted
\* (mssql.c:144 and 158, odbc.c:119 and 151, mysql.c:95 and 111).
THEOREM AnswerFields == MCSpec => []FieldsDescribeRows
  <1>1. ASSUME PartsInv PROVE FieldsDescribeRows
    <2>1. R!RowKeysMatchFields
      <3>1. CASE part = "response"
        <4>1. RP!RowKeysMatchFields
          BY <1>1, <3>1, RP!RowKeysMatch DEF PartsInv
        <4> QED
          BY <4>1 DEF R!RowKeysMatchFields, RP!RowKeysMatchFields
      <3>2. CASE part # "response"
        <4>1. TP!RowKeysMatchFields
          BY <1>1, <3>2, TP!RowKeysMatch DEF PartsInv
        <4> QED
          BY <4>1 DEF R!RowKeysMatchFields, TP!RowKeysMatchFields
      <3> QED
        BY <3>1, <3>2
    <2> QED
      BY <2>1, SqlTypeTells DEF FieldsDescribeRows
  <1> QED
    BY <1>1, PartsInvariant, PTL

\* The states of a session and of a response: what the driver and the server
\* hold (exec_query and fill_data of db.c), and two JSON writers with at most four
\* levels open each, in rows with no more keys than columns (db.c:541 to 800).
THEOREM AnswerTypesCorrect == MCSpec => []TypesOK
  <1>1. ASSUME PartsInv, part = "response" PROVE TypesOK
    <2>1. RP!TypeOK
      BY <1>1, RP!ResponseTypes DEF PartsInv
    <2>2. R!TypeOK
      BY <2>1 DEF R!TypeOK, RP!TypeOK, R!RequestKinds, RP!RequestKinds, R!Commands, RP!Commands, R!New,
                  RP!New, R!Begin, RP!Begin
    <2> QED
      BY <1>1, <2>2 DEF TypesOK, PartsInv, SessionInv
  <1>2. ASSUME PartsInv, part # "response" PROVE TypesOK
    <2>1. TP!TypeOK
      BY <1>2, TP!ResponseTypes DEF PartsInv
    <2>2. T!TypeOK
      BY <2>1 DEF T!TypeOK, TP!TypeOK, T!RequestKinds, TP!RequestKinds, T!Commands, TP!Commands, T!New,
                  TP!New, T!Begin, TP!Begin
    <2>3. asked \in R!RequestKinds
      BY <1>2 DEF PartsInv
    <2>4. R!TypeOK
      BY <2>1, <2>3 DEF R!TypeOK, TP!TypeOK, R!New, TP!New, R!Begin, TP!Begin
    <2> QED
      BY <1>2, <2>2, <2>4 DEF TypesOK, PartsInv, SessionInv
  <1>3. PartsInv => TypesOK
    BY <1>1, <1>2
  <1> QED
    BY <1>3, PartsInvariant, PTL
================================================================================
