--------------------------- MODULE ConnectorProofs ---------------------------
(* Theorems about one connector and its clients, for any number of clients    *)
(* and any timers.                                                            *)
EXTENDS Connector, SequenceTheorems, TLAPS

-----------------------------------------------------------------------------
(* Lines and sequences of lines. *)

LEMMA LineTypes ==
    /\ \A cmd \in Commands : Line(cmd) \in Lines /\ Line(cmd).text = {} /\ Line(cmd).cmd = cmd
    /\ \A t \in Nat : SetTimeout(t) \in Lines /\ SetTimeout(t).text = {}
                      /\ SetTimeout(t).cmd = "SET"
    /\ \A x \in SUBSET Clients : Text(x) \in Lines /\ Text(x).text = x /\ Text(x).cmd = "TEXT"
  BY DEF Line, SetTimeout, Text, Lines, Commands

LEMMA SeqTypes ==
    /\ <<>> \in Seq(Lines)
    /\ \A l \in Lines : <<l>> \in Seq(Lines)
    /\ \A l, m \in Lines : <<l, m>> \in Seq(Lines)
    /\ \A l, m, n, o \in Lines : <<l, m, n, o>> \in Seq(Lines)
  OBVIOUS

LEMMA LinesClosed ==
    /\ \A s \in Seq(Lines) : s # <<>> => Head(s) \in Lines /\ Tail(s) \in Seq(Lines)
    /\ \A s \in Seq(Lines), l \in Lines : Append(s, l) \in Seq(Lines)
    /\ \A s, t \in Seq(Lines) : s \o t \in Seq(Lines)
  BY HeadTailProperties, AppendProperties, ConcatProperties

LEMMA QueueClosed ==
    /\ \A s \in Seq(Clients) : s # <<>> => Head(s) \in Clients /\ Tail(s) \in Seq(Clients)
    /\ \A s \in Seq(Clients), c \in Clients : Append(s, c) \in Seq(Clients)
  BY HeadTailProperties, AppendProperties

LEMMA AnswerTypes ==
    /\ NoAnswer \in Answers
    /\ \A a \in Answers : \A k \in {"none", "noinit", "internal", "error", "success"} :
          /\ [a EXCEPT !.kind = k] \in Answers
          /\ [a EXCEPT !.kind = k, !.ok = TRUE] \in Answers
    /\ \A a \in Answers : \A x \in SUBSET Clients : [a EXCEPT !.text = x] \in Answers
  BY DEF NoAnswer, Answers

\* What the connector answers to RUN, and what the clients send.
LEMMA SentTypes ==
    /\ \A x \in SUBSET Clients :
          <<Line("RESULTS BEGIN"), Text(x), Line("RESULTS END"), Line("OK")>> \in Seq(Lines)
    /\ <<Line("ERROR BEGIN"), Text({}), Line("ERROR END"), Line("OK")>> \in Seq(Lines)
    /\ \A c \in Clients : <<Line("SQL BEGIN"), Text({c})>> \in Seq(Lines)
    /\ \A cmd \in Commands : <<Line(cmd)>> \in Seq(Lines)
    /\ \A t \in Nat : <<SetTimeout(t)>> \in Seq(Lines)
  <1>1. /\ \A cmd \in Commands : Line(cmd) \in Lines
        /\ \A x \in SUBSET Clients : Text(x) \in Lines
        /\ \A t \in Nat : SetTimeout(t) \in Lines
    BY LineTypes
  <1>2. /\ Line("RESULTS BEGIN") \in Lines /\ Line("RESULTS END") \in Lines
        /\ Line("ERROR BEGIN") \in Lines /\ Line("ERROR END") \in Lines
        /\ Line("OK") \in Lines /\ Line("SQL BEGIN") \in Lines
    BY <1>1 DEF Commands
  <1>3. Text({}) \in Lines /\ \A c \in Clients : Text({c}) \in Lines
    BY <1>1
  <1> QED
    BY <1>1, <1>2, <1>3, SeqTypes

-----------------------------------------------------------------------------
(* Type correctness. *)

\* What takes the first line from a client leaves, and what a reply adds.
LEMMA ReceiveType ==
    ASSUME TypeOK, srv = "serve", up[s2] # <<>>, up' = [up EXCEPT ![s2] = Tail(@)]
    PROVE  s2 \in Clients /\ NextLine \in Lines /\ up' \in [Clients -> Seq(Lines)]
  BY LinesClosed DEF TypeOK, Typed, HasClient, NextLine

LEMMA ReplyType ==
    ASSUME TypeOK, srv = "serve", NEW cmd \in Commands, ReplyWith(cmd)
    PROVE  down' \in [Clients -> Seq(Lines)]
  BY LineTypes, LinesClosed DEF TypeOK, Typed, HasClient, ReplyWith

LEMMA GetReplyType ==
    ASSUME TypeOK, NEW c \in Clients, GetReply(c)
    PROVE  down' \in [Clients -> Seq(Lines)]
  BY SeqTypes DEF GetReply, TypeOK, Typed, HasClient

LEMMA GetLineType ==
    ASSUME TypeOK, NEW c \in Clients, GetLine(c)
    PROVE  down' \in [Clients -> Seq(Lines)]
  <1>1. CASE down[c] # <<>> /\ down' = [down EXCEPT ![c] = Tail(@)]
    BY <1>1, LinesClosed DEF TypeOK, Typed, HasClient
  <1>2. CASE UNCHANGED down
    BY <1>2 DEF TypeOK, Typed, HasClient
  <1> QED
    BY <1>1, <1>2 DEF GetLine

LEMMA SendType ==
    ASSUME TypeOK, NEW c \in Clients, NEW lines \in Seq(Lines), SendLines(c, lines)
    PROVE  up' \in [Clients -> Seq(Lines)]
  BY LinesClosed DEF TypeOK, Typed, HasClient, SendLines

LEMMA LeaveType ==
    ASSUME TypeOK, NEW c \in Clients, Leave(c), UNCHANGED interrupts
    PROVE  /\ cpc' \in [Clients -> {"idle", "helo", "options", "set", "begin", "end", "sql",
                                    "run", "receive", "quit", "leaked", "closed", "dead"}]
           /\ Freed'
  BY DEF TypeOK, Typed, HasClient, Leave, Goto, Freed, Interrupted

LEMMA FinishType ==
    ASSUME TypeOK, NEW c \in Clients, UNCHANGED interrupts,
           NEW kind \in {"noinit", "internal", "error", "success"}, Finish(c, kind)
    PROVE  /\ answer' \in [Clients -> Answers]
           /\ cpc' \in [Clients -> {"idle", "helo", "options", "set", "begin", "end", "sql",
                                    "run", "receive", "quit", "leaked", "closed", "dead"}]
           /\ Freed'
  BY AnswerTypes, LeaveType DEF TypeOK, Typed, HasClient, Finish

\* A client that goes to a place where it is not free.
LEMMA GotoFreed ==
    ASSUME TypeOK, NEW c \in Clients, NEW l, Goto(c, l), UNCHANGED interrupts,
           l \notin {"idle", "leaked", "closed"}
    PROVE  Freed'
  BY DEF TypeOK, Typed, HasClient, Goto, Freed, Interrupted

\* A connector that is gone has its types.
LEMMA GoneType ==
    ASSUME TypeOK, Gone, UNCHANGED client,
           up' \in [Clients -> Seq(Lines)], down' \in [Clients -> Seq(Lines)]
    PROVE  TypeOK'
  <1>1. <<>> \in Seq(Lines) /\ <<>> \in Seq(Clients)
    OBVIOUS
  <1>2. 0 \in 0 .. MaxQuery /\ FirstTimer \in Nat
    BY ConnectorAssumption
  <1>3. Typed'
    BY <1>1, <1>2 DEF TypeOK, Typed, Gone, client
  <1> QED
    BY <1>3 DEF TypeOK, HasClient, Freed, Interrupted, Gone, client

\* Every step of the connector keeps the types.
LEMMA ServerTypes ==
    ASSUME TypeOK, ServerStep \/ Killed \/ Tick
    PROVE  TypeOK'
  <1> USE ConnectorAssumption DEF TypeOK, Typed, HasClient, server, client
  <1>0. UNCHANGED client
    BY DEF ServerStep, Accept, Helo, SetOption, SqlBegin, SqlText, SqlEnd, Run, Login,
           StartQuery, EndQuery, SendLine, Sent, Quit, Broken, Die, Alarm, Killed, Tick
  <1>00. Freed'
    BY <1>0 DEF Freed, Interrupted
  <1>1. CASE Accept
    BY <1>1, <1>00, QueueClosed DEF Accept
  <1>2. CASE Helo
    BY <1>2, <1>00, ReceiveType, ReplyType DEF Helo, Receive, Commands
  <1>3. CASE SetOption
    <2>1. NextLine.timeout \in Nat
      BY <1>3, ReceiveType DEF SetOption, Receive, Lines
    <2> QED
      BY <1>00, <1>3, <2>1, ReceiveType, ReplyType DEF SetOption, Receive, Rearm, Commands
  <1>4. CASE SqlBegin
    BY <1>4, <1>00, ReceiveType DEF SqlBegin, Receive
  <1>5. CASE SqlText
    <2>1. NextLine.text \subseteq Clients
      BY <1>5, ReceiveType DEF SqlText, Lines
    <2> QED
      BY <1>00, <1>5, <2>1, ReceiveType DEF SqlText
  <1>6. CASE SqlEnd
    BY <1>6, <1>00, ReceiveType, ReplyType DEF SqlEnd, Receive, Rearm, Commands
  <1>7. CASE Run
    BY <1>7, <1>00, ReceiveType DEF Run, Receive
  <1>8. CASE Login
    <2>1. out' \in Seq(Lines)
      BY <1>8, SentTypes DEF Login
    <2> QED
      BY <1>00, <1>8, <2>1 DEF Login
  <1>9. CASE StartQuery
    BY <1>9, <1>00 DEF StartQuery, Rearm
  <1>10. CASE EndQuery
    <2>1. out' \in Seq(Lines)
      <3>1. CASE out' = <<Line("RESULTS BEGIN"), Text(sql), Line("RESULTS END"), Line("OK")>>
        BY <3>1, SentTypes
      <3>2. CASE out' = <<Line("ERROR BEGIN"), Text({}), Line("ERROR END"), Line("OK")>>
        BY <3>2, SentTypes
      <3> QED
        BY <1>10, <3>1, <3>2 DEF EndQuery
    <2> QED
      BY <1>00, <1>10, <2>1 DEF EndQuery
  <1>11. CASE SendLine
    BY <1>11, <1>00, LinesClosed DEF SendLine
  <1>12. CASE Sent
    <2>1. CASE Gone
      BY <1>0, <1>12, <2>1, GoneType DEF Sent
    <2> QED
      BY <1>00, <1>12, <2>1 DEF Sent, Rearm
  <1>13. CASE Quit
    <2>1. up' \in [Clients -> Seq(Lines)] /\ down' \in [Clients -> Seq(Lines)]
      BY <1>13, ReceiveType, ReplyType DEF Quit, Receive, Commands
    <2>2. CASE Gone
      BY <1>0, <2>1, <2>2, GoneType
    <2> QED
      BY <1>00, <1>13, <2>1, <2>2 DEF Quit, Forget
  <1>14. CASE Broken
    <2>1. CASE Gone
      BY <1>0, <1>14, <2>1, GoneType DEF Broken
    <2> QED
      BY <1>00, <1>14, <2>1 DEF Broken, Forget
  <1>15. CASE Die
    <2>1. up' \in [Clients -> Seq(Lines)] /\ down' \in [Clients -> Seq(Lines)]
      BY <1>15, ReceiveType, ReplyType DEF Die, Receive, Commands
    <2> QED
      BY <1>0, <1>15, <2>1, GoneType DEF Die
  <1>16. CASE Alarm \/ Killed
    BY <1>0, <1>16, GoneType DEF Alarm, Killed
  <1>17. CASE Tick
    BY <1>17, <1>00 DEF Tick
  <1> QED
    BY <1>1, <1>2, <1>3, <1>4, <1>5, <1>6, <1>7, <1>8, <1>9, <1>10, <1>11, <1>12,
       <1>13, <1>14, <1>15, <1>16, <1>17 DEF ServerStep

\* What a client sends that was interrupted.
LEMMA InterruptType ==
    ASSUME TypeOK, NEW c \in Clients, Interrupt(c)
    PROVE  up' \in [Clients -> Seq(Lines)]
  <1>1. /\ <<Line("DIE")>> \in Seq(Lines) /\ <<Line("QUIT")>> \in Seq(Lines)
        /\ <<Line("SQL BEGIN")>> \in Seq(Lines) /\ <<>> \in Seq(Lines)
        /\ <<Line("SQL BEGIN"), Text({c})>> \in Seq(Lines)
    BY SentTypes, SeqTypes DEF Commands
  <1>2. \A s \in Seq(Lines) : s \o <<Line("DIE")>> \in Seq(Lines)
    BY <1>1, LinesClosed
  <1>3. CASE UNCHANGED up
    BY <1>3 DEF TypeOK, Typed
  <1>4. CASE SendLines(c, <<Line("DIE")>>) \/ SendLines(c, <<Line("QUIT")>>)
    BY <1>1, <1>4, SendType
  <1>5. CASE \E sent \in {<<>>, <<Line("SQL BEGIN")>>, <<Line("SQL BEGIN"), Text({c})>>} :
                SendLines(c, sent \o <<Line("DIE")>>)
    BY <1>1, <1>2, <1>5, SendType
  <1> QED
    BY <1>3, <1>4, <1>5 DEF Interrupt, ReadInterrupted, WriteInterrupted

\* Every step of a client keeps the types.
LEMMA ClientTypes ==
    ASSUME TypeOK, NEW c \in Clients, ClientStep(c) \/ Connect(c) \/ ClientDies(c) \/ Interrupt(c)
    PROVE  TypeOK'
  <1> USE ConnectorAssumption DEF TypeOK, Typed, HasClient, server, client
  <1>1. CASE Connect(c)
    <2>1. Freed'
      BY <1>1, GotoFreed DEF Connect
    <2> QED
      BY <1>1, <2>1, QueueClosed, LineTypes, SeqTypes, AnswerTypes DEF Connect, Commands, Goto
  <1>2. CASE Initialize(c)
    <2>1. down' \in [Clients -> Seq(Lines)]
      BY <1>2, GetReplyType DEF Initialize
    <2>2. CASE Goto(c, "options") /\ UNCHANGED answer
      <3>1. Freed'
        BY <1>2, <2>2, GotoFreed DEF Initialize
      <3> QED
        BY <1>2, <2>1, <2>2, <3>1 DEF Initialize, Goto
    <2>3. CASE Finish(c, "noinit")
      BY <1>2, <2>1, <2>3, FinishType DEF Initialize
    <2> QED
      BY <1>2, <2>2, <2>3 DEF Initialize
  <1>3. CASE SendOptions(c)
    <2>1. up' \in [Clients -> Seq(Lines)]
      BY <1>3, SendType, SentTypes DEF SendOptions, Internal
    <2>2. CASE Goto(c, "set") /\ UNCHANGED answer
      <3>1. Freed'
        BY <1>3, <2>2, GotoFreed DEF SendOptions
      <3> QED
        BY <1>3, <2>1, <2>2, <3>1 DEF SendOptions, Goto
    <2> QED
      BY <1>3, <2>1, <2>2, FinishType DEF SendOptions, Internal
  <1>4. CASE OptionsSet(c)
    <2>1. Freed'
      BY <1>4, GotoFreed DEF OptionsSet
    <2> QED
      BY <1>4, <2>1, GetReplyType DEF OptionsSet, Goto
  <1>5. CASE SendSql(c)
    <2>1. up' \in [Clients -> Seq(Lines)]
      BY <1>5, SendType, SentTypes DEF SendSql, Internal, Commands
    <2>2. CASE Goto(c, "end") /\ UNCHANGED answer
      <3>1. Freed'
        BY <1>5, <2>2, GotoFreed DEF SendSql
      <3> QED
        BY <1>5, <2>1, <2>2, <3>1 DEF SendSql, Goto
    <2> QED
      BY <1>5, <2>1, <2>2, FinishType DEF SendSql, Internal
  <1>6. CASE SendSqlEnd(c)
    <2>1. up' \in [Clients -> Seq(Lines)]
      BY <1>6, SendType, SentTypes DEF SendSqlEnd, Internal, Commands
    <2>2. CASE Goto(c, "sql") /\ UNCHANGED answer
      <3>1. Freed'
        BY <1>6, <2>2, GotoFreed DEF SendSqlEnd
      <3> QED
        BY <1>6, <2>1, <2>2, <3>1 DEF SendSqlEnd, Goto
    <2> QED
      BY <1>6, <2>1, <2>2, FinishType DEF SendSqlEnd, Internal
  <1>7. CASE SqlSent(c)
    <2>1. Freed'
      BY <1>7, GotoFreed DEF SqlSent
    <2> QED
      BY <1>7, <2>1, GetLineType DEF SqlSent, Goto
  <1>8. CASE SendRun(c)
    <2>1. up' \in [Clients -> Seq(Lines)]
      BY <1>8, SendType, SentTypes DEF SendRun, Commands
    <2>2. CASE Goto(c, "receive") /\ UNCHANGED answer
      <3>1. Freed'
        BY <1>8, <2>2, GotoFreed DEF SendRun
      <3> QED
        BY <1>8, <2>1, <2>2, <3>1 DEF SendRun, Goto
    <2> QED
      BY <1>8, <2>1, <2>2, FinishType DEF SendRun
  <1>9. CASE ReceiveLine(c)
    <2>1. down[c] # <<>> /\ Head(down[c]) \in Lines /\ Tail(down[c]) \in Seq(Lines)
      BY <1>9, LinesClosed DEF ReceiveLine
    <2>2. down' \in [Clients -> Seq(Lines)]
      BY <1>9, <2>1 DEF ReceiveLine
    <2>3. answer' \in [Clients -> Answers]
      <3>1. Head(down[c]).text \subseteq Clients
        BY <2>1 DEF Lines
      <3>2. answer[c] \in Answers /\ answer[c].text \subseteq Clients
        BY DEF Answers
      <3> DEFINE x == IF results[c] THEN answer[c].text \cup Head(down[c]).text
                                    ELSE answer[c].text
      <3>3. x \in SUBSET Clients
        BY <3>1, <3>2
      <3>4. answer' = [answer EXCEPT ![c] = [answer[c] EXCEPT !.text = x]]
        BY <1>9 DEF ReceiveLine
      <3> HIDE DEF x
      <3> QED
        BY <3>2, <3>3, <3>4, AnswerTypes
    <2>4. results' \in [Clients -> BOOLEAN] /\ err' \in [Clients -> BOOLEAN]
      BY <1>9 DEF ReceiveLine
    <2> QED
      BY <1>9, <2>2, <2>3, <2>4 DEF ReceiveLine, Freed, Interrupted
  <1>10. CASE ReceiveLast(c)
    <2>1. down' \in [Clients -> Seq(Lines)]
      <3>1. Tail(down[c]) \in Seq(Lines) /\ <<>> \in Seq(Lines)
        BY <1>10, LinesClosed, SeqTypes DEF ReceiveLast
      <3>2. PICK rest \in {Tail(down[c]), <<>>} : down' = [down EXCEPT ![c] = rest]
        BY <1>10 DEF ReceiveLast
      <3> QED
        BY <3>1, <3>2
    <2>2. up' \in [Clients -> Seq(Lines)]
      BY <1>10, SendType, SentTypes DEF ReceiveLast, Commands
    <2>3. answer' \in [Clients -> Answers]
      <3> DEFINE k == IF err[c] THEN "error" ELSE "success"
      <3>1. answer' = [answer EXCEPT ![c] = [answer[c] EXCEPT !.kind = k, !.ok = TRUE]]
        BY <1>10 DEF ReceiveLast
      <3>2. answer[c] \in Answers
        OBVIOUS
      <3> QED
        BY <3>1, <3>2, AnswerTypes
    <2> QED
      BY <1>10, <2>1, <2>2, <2>3, GotoFreed, LeaveType DEF ReceiveLast, Goto
  <1>11. CASE ReceiveEnd(c)
    BY <1>11, FinishType DEF ReceiveEnd
  <1>12. CASE Bye(c)
    BY <1>12, GetReplyType, LeaveType DEF Bye
  <1>13. CASE ClientDies(c)
    <2>1. Freed'
      BY <1>13, GotoFreed DEF ClientDies
    <2> QED
      BY <1>13, <2>1, SeqTypes DEF ClientDies, Goto
  <1>14. CASE Interrupt(c)
    <2>1. up' \in [Clients -> Seq(Lines)]
      BY <1>14, InterruptType
    <2>2. answer' \in [Clients -> Answers]
      <3>1. \/ UNCHANGED answer
            \/ \E k \in {"noinit", "internal", "success"} :
                  answer' = [answer EXCEPT ![c] = [answer[c] EXCEPT !.kind = k]]
        BY <1>14 DEF Interrupt, ReadInterrupted, WriteInterrupted
      <3>2. CASE UNCHANGED answer
        BY <3>2
      <3>3. ASSUME NEW k \in {"noinit", "internal", "success"},
                   answer' = [answer EXCEPT ![c] = [answer[c] EXCEPT !.kind = k]]
            PROVE  answer' \in [Clients -> Answers]
        <4>1. answer[c] \in Answers
          OBVIOUS
        <4>2. [answer[c] EXCEPT !.kind = k] \in Answers
          BY <4>1, AnswerTypes
        <4> QED
          BY <3>3, <4>2
      <3> QED
        BY <3>1, <3>2, <3>3
    <2>3. interrupts' \in [Clients -> Nat] /\ Interrupted(c)'
          /\ \A d \in Clients : d # c => interrupts'[d] = interrupts[d]
      BY <1>14 DEF Interrupt, Interrupted
    <2>4. /\ cpc' \in [Clients -> {"idle", "helo", "options", "set", "begin", "end", "sql",
                                   "run", "receive", "quit", "leaked", "closed", "dead"}]
          /\ cpc'[c] # "idle" /\ \A d \in Clients : d # c => cpc'[d] = cpc[d]
      BY <1>14 DEF Interrupt, ReadInterrupted, WriteInterrupted, Goto
    <2>5. Freed'
      BY <2>3, <2>4 DEF Freed, Interrupted
    <2> QED
      BY <1>14, <2>1, <2>2, <2>3, <2>4, <2>5 DEF Interrupt
  <1> QED
    BY <1>1, <1>2, <1>3, <1>4, <1>5, <1>6, <1>7, <1>8, <1>9, <1>10, <1>11, <1>12, <1>13, <1>14
       DEF ClientStep

LEMMA TypeInit ==
    ASSUME Init PROVE TypeOK
  <1>1. out \in Seq(Lines) /\ queue \in Seq(Clients)
    BY DEF Init
  <1>2. /\ up \in [Clients -> Seq(Lines)] /\ down \in [Clients -> Seq(Lines)]
        /\ answer \in [Clients -> Answers]
    <2>1. up \in [Clients -> Seq(Lines)] /\ down \in [Clients -> Seq(Lines)]
      BY SeqTypes DEF Init
    <2>2. answer = [c \in Clients |-> NoAnswer] /\ NoAnswer \in Answers
      BY AnswerTypes DEF Init
    <2> QED
      BY <2>1, <2>2
  <1>3. alarm \in Nat /\ busy \in 0 .. MaxQuery /\ timeout \in Nat
    BY ConnectorAssumption DEF Init
  <1>4. /\ cpc \in [Clients -> {"idle", "helo", "options", "set", "begin", "end", "sql",
                                "run", "receive", "quit", "leaked", "closed", "dead"}]
        /\ results \in [Clients -> BOOLEAN] /\ err \in [Clients -> BOOLEAN]
    BY DEF Init
  <1>5. /\ srv = "accept" /\ s2 = NoClient /\ receive_sql = FALSE
        /\ sb_sql = {} /\ sql = {} /\ connected = "never"
    BY DEF Init
  <1>6. interrupts \in [Clients -> Nat] /\ Freed
    BY DEF Init, Freed, Interrupted
  <1> QED
    BY <1>1, <1>2, <1>3, <1>4, <1>5, <1>6 DEF TypeOK, Typed, HasClient

\* The connector, the sockets and the clients keep their types, whoever dies or
\* is interrupted; past accept the connector has a client whose lines it reads
\* (main of connector.c, send_request of client.c).
THEOREM TypeCorrect == Spec => []TypeOK
  <1>1. Init => TypeOK
    BY TypeInit
  <1>2. TypeOK /\ [Next]_vars => TypeOK'
    <2> SUFFICES ASSUME TypeOK, [Next]_vars PROVE TypeOK'
      OBVIOUS
    <2>1. CASE UNCHANGED vars
      BY <2>1 DEF TypeOK, Typed, HasClient, Freed, Interrupted, vars, server, client
    <2> QED
      BY <2>1, ServerTypes, ClientTypes DEF Next
  <1> QED
    BY <1>1, <1>2, PTL DEF Spec

-----------------------------------------------------------------------------
(* Results come from the statement of the client that gets them. *)

\* The text the connector holds is that of the client it serves.
Own(c) == s2 = c /\ sql \subseteq {c} /\ sb_sql \subseteq {c}

\* Every RUN on its way follows a SQL BEGIN; there is a SQL BEGIN on its way.
RunCovered(s) == \A i \in 1 .. Len(s) :
                    s[i].cmd = "RUN" => \E j \in 1 .. Len(s) : j < i /\ s[j].cmd = "SQL BEGIN"
HasBegin(s) == \E i \in 1 .. Len(s) : s[i].cmd = "SQL BEGIN"
NoQuit(s) == \A i \in 1 .. Len(s) : s[i].cmd # "QUIT"
LastQuit(s) == \A i \in 1 .. Len(s) : s[i].cmd = "QUIT" => i = Len(s)
Ended == {"quit", "idle", "leaked", "closed", "dead"}
QuitOK(s, l) == LastQuit(s) /\ (l \notin Ended => NoQuit(s))
TextOf(s, x) == \A i \in 1 .. Len(s) : s[i].text \subseteq x

\* What is on the wire, or about to be, is the client's.
WireInv ==
    /\ \A c \in Clients : TextOf(up[c], {c}) /\ TextOf(down[c], {c})
    /\ TextOf(out, {s2})
    /\ out # <<>> => srv \in {"send", "leave", "gone"}

\* QUIT is the last line a client sends.
QuitInv ==
    \A c \in Clients : QuitOK(up[c], cpc[c])

\* What a query reads was written by its client.
TextInv ==
    /\ srv = "accept" => s2 = NoClient
    /\ receive_sql => s2 \in Clients /\ Own(s2)
    /\ srv \in {"login", "start", "query"} => Own(s2)

\* As long as the connector runs, a client that is past SQL BEGIN has its text
\* there, or the line that clears what is there is still to be read.
RunInv ==
    Alive => \A c \in Clients :
        /\ RunCovered(up[c]) \/ Own(c)
        /\ cpc[c] \in {"end", "sql", "run"} => HasBegin(up[c]) \/ Own(c)

OwnInv == TypeOK /\ WireInv /\ QuitInv /\ TextInv /\ RunInv /\ OwnAnswer

\* What is left of a sequence of lines when its first is taken.
LEMMA TailFacts ==
    ASSUME NEW s \in Seq(Lines), s # <<>>
    PROVE  /\ \A x : TextOf(s, x) => Head(s).text \subseteq x /\ TextOf(Tail(s), x)
           /\ RunCovered(s) => Head(s).cmd # "RUN"
           /\ Head(s).cmd # "SQL BEGIN" /\ RunCovered(s) => RunCovered(Tail(s))
           /\ Head(s).cmd # "SQL BEGIN" /\ HasBegin(s) => HasBegin(Tail(s))
  <1>1. /\ Len(s) \in Nat /\ 1 \in 1 .. Len(s) /\ Head(s) = s[1]
        /\ Len(Tail(s)) = Len(s) - 1
    BY HeadTailProperties, EmptySeq, LenProperties
  <1>2. \A i \in 1 .. Len(Tail(s)) : i + 1 \in 1 .. Len(s) /\ Tail(s)[i] = s[i + 1]
    BY <1>1, HeadTailProperties
  <1>3. \A j \in 1 .. Len(s) : j # 1 =>
           /\ j - 1 \in 1 .. Len(Tail(s))
           /\ Tail(s)[j - 1] = s[j]
           /\ \A i \in 1 .. Len(Tail(s)) : j < i + 1 => j - 1 < i
    <2> SUFFICES ASSUME NEW j \in 1 .. Len(s), j # 1
                 PROVE  /\ j - 1 \in 1 .. Len(Tail(s))
                        /\ Tail(s)[j - 1] = s[j]
                        /\ \A i \in 1 .. Len(Tail(s)) : j < i + 1 => j - 1 < i
      OBVIOUS
    <2>1. j - 1 \in 1 .. Len(Tail(s)) /\ (j - 1) + 1 = j
      BY <1>1
    <2>2. Tail(s)[j - 1] = s[j]
      BY <1>2, <2>1
    <2>3. \A i \in 1 .. Len(Tail(s)) : j < i + 1 => j - 1 < i
      BY <1>1
    <2> QED
      BY <2>1, <2>2, <2>3
  <1>4. ASSUME NEW x, TextOf(s, x)
        PROVE  Head(s).text \subseteq x /\ TextOf(Tail(s), x)
    BY <1>1, <1>2, <1>4 DEF TextOf
  <1>5. ASSUME RunCovered(s) PROVE Head(s).cmd # "RUN"
    <2> SUFFICES ASSUME s[1].cmd = "RUN" PROVE FALSE
      BY <1>1
    <2>1. PICK j \in 1 .. Len(s) : j < 1
      BY <1>1, <1>5 DEF RunCovered
    <2> QED
      BY <1>1, <2>1
  <1>6. ASSUME s[1].cmd # "SQL BEGIN", RunCovered(s) PROVE RunCovered(Tail(s))
    <2> SUFFICES ASSUME NEW i \in 1 .. Len(Tail(s)), Tail(s)[i].cmd = "RUN"
                 PROVE  \E j \in 1 .. Len(Tail(s)) : j < i /\ Tail(s)[j].cmd = "SQL BEGIN"
      BY DEF RunCovered
    <2>1. PICK j \in 1 .. Len(s) : j < i + 1 /\ s[j].cmd = "SQL BEGIN"
      BY <1>2, <1>6 DEF RunCovered
    <2>2. j # 1
      BY <1>6, <2>1
    <2> QED
      BY <1>3, <2>1, <2>2
  <1>7. ASSUME s[1].cmd # "SQL BEGIN", HasBegin(s) PROVE HasBegin(Tail(s))
    <2>1. PICK j \in 1 .. Len(s) : s[j].cmd = "SQL BEGIN"
      BY <1>7 DEF HasBegin
    <2>2. j # 1
      BY <1>7, <2>1
    <2> QED
      BY <1>3, <2>1, <2>2 DEF HasBegin
  <1> QED
    BY <1>1, <1>4, <1>5, <1>6, <1>7

\* What a client adds to its lines.
LEMMA ConcatFacts ==
    ASSUME NEW s \in Seq(Lines), NEW t \in Seq(Lines)
    PROVE  /\ \A x : TextOf(s, x) /\ TextOf(t, x) => TextOf(s \o t, x)
           /\ HasBegin(s) \/ HasBegin(t) => HasBegin(s \o t)
           /\ RunCovered(s) /\ (HasBegin(s) \/ RunCovered(t)) => RunCovered(s \o t)
  <1> DEFINE m == Len(s)
             n == Len(t)
             u == s \o t
  <1>1. m \in Nat /\ n \in Nat /\ Len(u) = m + n
    BY ConcatProperties, LenProperties
  <1>2. \A i \in 1 .. m : i \in 1 .. Len(u) /\ u[i] = s[i]
    BY <1>1, ConcatProperties
  <1>3. \A i \in 1 .. n : m + i \in 1 .. Len(u) /\ u[m + i] = t[i]
    <2> TAKE i \in 1 .. n
    <2>1. m + i \in 1 .. Len(u) /\ m + i > m /\ (m + i) - m = i
      BY <1>1
    <2> QED
      BY <1>1, <2>1, ConcatProperties
  <1>4. \A i \in 1 .. Len(u) : i \notin 1 .. m =>
           i - m \in 1 .. n /\ u[i] = t[i - m] /\ m + (i - m) = i
    <2> SUFFICES ASSUME NEW i \in 1 .. Len(u), i \notin 1 .. m
                 PROVE  i - m \in 1 .. n /\ u[i] = t[i - m] /\ m + (i - m) = i
      OBVIOUS
    <2>1. i - m \in 1 .. n /\ m + (i - m) = i
      BY <1>1
    <2> QED
      BY <1>3, <2>1
  <1>5. /\ \A i \in 1 .. Len(u), j \in 1 .. m : i \notin 1 .. m => j < i
        /\ \A i, j \in 1 .. n : j < i => m + j < m + i
    BY <1>1
  <1>6. Len(s) = m /\ Len(t) = n /\ s \o t = u
    OBVIOUS
  <1> HIDE DEF m, n, u
  <1>7. ASSUME NEW x, TextOf(s, x), TextOf(t, x) PROVE TextOf(u, x)
    BY <1>2, <1>4, <1>6, <1>7 DEF TextOf
  <1>8. HasBegin(s) => HasBegin(u)
    BY <1>2, <1>6 DEF HasBegin
  <1>9. HasBegin(t) => HasBegin(u)
    BY <1>3, <1>6 DEF HasBegin
  <1>10. ASSUME RunCovered(s), RunCovered(t) \/ HasBegin(s) PROVE RunCovered(u)
    <2> SUFFICES ASSUME NEW i \in 1 .. Len(u), u[i].cmd = "RUN"
                 PROVE  \E j \in 1 .. Len(u) : j < i /\ u[j].cmd = "SQL BEGIN"
      BY DEF RunCovered
    <2>1. CASE i \in 1 .. m
      <3>1. PICK j \in 1 .. m : j < i /\ s[j].cmd = "SQL BEGIN"
        BY <1>2, <1>6, <1>10, <2>1 DEF RunCovered
      <3> QED
        BY <1>2, <3>1
    <2>2. CASE i \notin 1 .. m /\ HasBegin(s)
      <3>1. PICK j \in 1 .. m : s[j].cmd = "SQL BEGIN"
        BY <1>6, <2>2 DEF HasBegin
      <3> QED
        BY <1>2, <1>5, <2>2, <3>1
    <2>3. CASE i \notin 1 .. m /\ RunCovered(t)
      <3>1. i - m \in 1 .. n /\ t[i - m].cmd = "RUN" /\ m + (i - m) = i
        BY <1>4, <2>3
      <3>2. PICK j \in 1 .. n : j < i - m /\ t[j].cmd = "SQL BEGIN"
        BY <1>6, <2>3, <3>1 DEF RunCovered
      <3>3. m + j \in 1 .. Len(u) /\ u[m + j] = t[j]
        BY <1>3
      <3>4. m + j < i
        BY <1>5, <3>1, <3>2
      <3> QED
        BY <3>2, <3>3, <3>4
    <2> QED
      BY <1>10, <2>1, <2>2, <2>3
  <1> QED
    BY <1>6, <1>7, <1>8, <1>9, <1>10

\* The same for QUIT.
LEMMA QuitTail ==
    ASSUME NEW s \in Seq(Lines), s # <<>>
    PROVE  /\ NoQuit(s) => Head(s).cmd # "QUIT" /\ NoQuit(Tail(s))
           /\ LastQuit(s) => LastQuit(Tail(s))
           /\ LastQuit(s) /\ Head(s).cmd = "QUIT" => Tail(s) = <<>>
  <1>1. /\ Len(s) \in Nat /\ 1 \in 1 .. Len(s) /\ Head(s) = s[1]
        /\ Len(Tail(s)) = Len(s) - 1 /\ Tail(s) \in Seq(Lines)
    BY HeadTailProperties, EmptySeq, LenProperties
  <1>2. \A i \in 1 .. Len(Tail(s)) : i + 1 \in 1 .. Len(s) /\ Tail(s)[i] = s[i + 1]
    BY <1>1, HeadTailProperties
  <1>3. NoQuit(s) => Head(s).cmd # "QUIT" /\ NoQuit(Tail(s))
    BY <1>1, <1>2 DEF NoQuit
  <1>4. ASSUME LastQuit(s) PROVE LastQuit(Tail(s))
    <2> SUFFICES ASSUME NEW i \in 1 .. Len(Tail(s)), Tail(s)[i].cmd = "QUIT"
                 PROVE  i = Len(Tail(s))
      BY DEF LastQuit
    <2>1. i + 1 = Len(s)
      BY <1>2, <1>4 DEF LastQuit
    <2>2. i \in Int /\ Len(s) \in Int /\ Len(Tail(s)) = Len(s) - 1
      BY <1>1
    <2> QED
      BY <2>1, <2>2
  <1>5. ASSUME LastQuit(s), s[1].cmd = "QUIT" PROVE Tail(s) = <<>>
    <2>1. Len(s) = 1
      BY <1>1, <1>5 DEF LastQuit
    <2>2. Len(Tail(s)) = 0
      BY <1>1, <2>1
    <2> QED
      BY <1>1, <2>2, EmptySeq
  <1> QED
    BY <1>1, <1>3, <1>4, <1>5

LEMMA QuitConcat ==
    ASSUME NEW s \in Seq(Lines), NEW t \in Seq(Lines), NoQuit(s)
    PROVE  /\ LastQuit(s)
           /\ NoQuit(t) => NoQuit(s \o t)
           /\ LastQuit(t) => LastQuit(s \o t)
  <1> DEFINE m == Len(s)
             n == Len(t)
             u == s \o t
  <1>1. m \in Nat /\ n \in Nat /\ Len(u) = m + n
    BY ConcatProperties, LenProperties
  <1>2. \A i \in 1 .. m : u[i] = s[i]
    BY <1>1, ConcatProperties
  <1>3. \A i \in 1 .. Len(u) : i \notin 1 .. m => i - m \in 1 .. n /\ u[i] = t[i - m]
    <2> SUFFICES ASSUME NEW i \in 1 .. Len(u), i \notin 1 .. m
                 PROVE  i - m \in 1 .. n /\ u[i] = t[i - m]
      OBVIOUS
    <2>1. i - m \in 1 .. n /\ i > m /\ i \in 1 .. m + n
      BY <1>1
    <2> QED
      BY <2>1, ConcatProperties
  <1>4. \A i \in 1 .. Len(u) : i - m = n => i = Len(u)
    BY <1>1
  <1>5. Len(s) = m /\ Len(t) = n /\ s \o t = u
    OBVIOUS
  <1> HIDE DEF m, n, u
  <1>6. LastQuit(s)
    BY DEF NoQuit, LastQuit
  <1>7. ASSUME NoQuit(t) PROVE NoQuit(u)
    BY <1>2, <1>3, <1>5, <1>7 DEF NoQuit
  <1>8. ASSUME LastQuit(t) PROVE LastQuit(u)
    <2> SUFFICES ASSUME NEW i \in 1 .. Len(u), u[i].cmd = "QUIT" PROVE i = Len(u)
      BY DEF LastQuit
    <2>1. i \notin 1 .. m
      BY <1>2, <1>5 DEF NoQuit
    <2>2. i - m = n
      BY <1>3, <1>5, <1>8, <2>1 DEF LastQuit
    <2> QED
      BY <1>4, <2>2
  <1> QED
    BY <1>5, <1>6, <1>7, <1>8

\* What the connector adds to its answers.
LEMMA AppendFacts ==
    ASSUME NEW s \in Seq(Lines), NEW l \in Lines, NEW x, TextOf(s, x), l.text \subseteq x
    PROVE  TextOf(Append(s, l), x)
  <1>1. /\ Len(s) \in Nat /\ Len(Append(s, l)) = Len(s) + 1
        /\ \A i \in 1 .. Len(s) : Append(s, l)[i] = s[i]
        /\ Append(s, l)[Len(s) + 1] = l
    BY AppendProperties, LenProperties
  <1> SUFFICES ASSUME NEW i \in 1 .. Len(s) + 1 PROVE Append(s, l)[i].text \subseteq x
    BY <1>1 DEF TextOf
  <1>2. CASE i \in 1 .. Len(s)
    BY <1>1, <1>2 DEF TextOf
  <1>3. CASE i = Len(s) + 1
    BY <1>1, <1>3
  <1> QED
    BY <1>1, <1>2, <1>3

\* Of the client that is served, the rest is read later; of the others all is.
LEMMA Reading ==
    ASSUME OwnInv, srv = "serve", up[s2] # <<>>, up' = [up EXCEPT ![s2] = Tail(@)],
           UNCHANGED cpc
    PROVE  /\ s2 \in Clients /\ NextLine.text \subseteq {s2}
           /\ \A c \in Clients : TextOf(up'[c], {c})
           /\ QuitInv'
           /\ NextLine.cmd = "RUN" => Own(s2)
           /\ NextLine.cmd = "QUIT" => up'[s2] = <<>> /\ cpc[s2] \in Ended
           /\ \A c \in Clients : c # s2 => up'[c] = up[c]
           /\ NextLine.cmd # "SQL BEGIN" =>
                 /\ RunCovered(up[s2]) => RunCovered(up'[s2])
                 /\ HasBegin(up[s2]) => HasBegin(up'[s2])
  <1>1. s2 \in Clients /\ up[s2] \in Seq(Lines)
    BY DEF OwnInv, TypeOK, Typed, HasClient
  <1>2. /\ up'[s2] = Tail(up[s2]) /\ NextLine = Head(up[s2])
        /\ \A c \in Clients : c # s2 => up'[c] = up[c]
    BY <1>1 DEF OwnInv, TypeOK, Typed, HasClient, NextLine
  <1>3. /\ TextOf(up[s2], {s2}) => NextLine.text \subseteq {s2} /\ TextOf(up'[s2], {s2})
        /\ RunCovered(up[s2]) => NextLine.cmd # "RUN"
        /\ NextLine.cmd # "SQL BEGIN" =>
             /\ RunCovered(up[s2]) => RunCovered(up'[s2])
             /\ HasBegin(up[s2]) => HasBegin(up'[s2])
    BY <1>1, <1>2, TailFacts
  <1>4. /\ \A l : QuitOK(up[s2], l) => QuitOK(up'[s2], l)
        /\ QuitOK(up[s2], cpc[s2]) /\ NextLine.cmd = "QUIT" =>
              up'[s2] = <<>> /\ cpc[s2] \in Ended
    BY <1>1, <1>2, QuitTail DEF QuitOK
  <1>5. \A c \in Clients : TextOf(up[c], {c})
    BY DEF OwnInv, WireInv
  <1>6. \A c \in Clients : TextOf(up'[c], {c})
    BY <1>1, <1>2, <1>3, <1>5
  <1>7. \A c \in Clients : QuitOK(up[c], cpc[c])
    BY DEF OwnInv, QuitInv
  <1>8. \A c \in Clients : QuitOK(up'[c], cpc[c])
    BY <1>2, <1>4, <1>7
  <1>9. QuitInv'
    BY <1>8 DEF QuitInv
  <1>10. NextLine.cmd = "RUN" => Own(s2)
    BY <1>1, <1>3 DEF OwnInv, RunInv, Alive
  <1> QED
    BY <1>1, <1>2, <1>3, <1>4, <1>5, <1>6, <1>7, <1>9, <1>10

\* Reading a line that begins nothing keeps what is known of the texts.
LEMMA ReadingKeepsRun ==
    ASSUME OwnInv, srv = "serve", up[s2] # <<>>, up' = [up EXCEPT ![s2] = Tail(@)],
           UNCHANGED cpc, NextLine.cmd # "SQL BEGIN" \/ Own(s2),
           \A c \in Clients : Own(c) => Own(c)'
    PROVE  RunInv'
  <1>1. \A c \in Clients : RunCovered(up[c]) \/ Own(c) => RunCovered(up'[c]) \/ Own(c)'
    BY Reading
  <1>2. \A c \in Clients : HasBegin(up[c]) \/ Own(c) => HasBegin(up'[c]) \/ Own(c)'
    BY Reading
  <1> QED
    BY <1>1, <1>2 DEF OwnInv, RunInv, Alive

LEMMA ReplyKeepsText ==
    ASSUME OwnInv, srv = "serve", NEW cmd \in Commands, ReplyWith(cmd)
    PROVE  \A c \in Clients : TextOf(down'[c], {c})
  <1>1. s2 \in Clients /\ \A c \in Clients : down[c] \in Seq(Lines) /\ TextOf(down[c], {c})
    BY DEF OwnInv, TypeOK, Typed, HasClient, WireInv
  <1>2. TextOf(Append(down[s2], Line(cmd)), {s2})
    BY <1>1, LineTypes, AppendFacts
  <1>3. CASE UNCHANGED down
    BY <1>1, <1>3
  <1>4. CASE down' = [down EXCEPT ![s2] = Append(@, Line(cmd))]
    <2>1. /\ down'[s2] = Append(down[s2], Line(cmd))
          /\ \A c \in Clients : c # s2 => down'[c] = down[c]
      BY <1>1, <1>4 DEF OwnInv, TypeOK, Typed, HasClient
    <2> QED
      BY <1>1, <1>2, <2>1
  <1> QED
    BY <1>3, <1>4 DEF ReplyWith

\* Steps of the connector that read nothing and keep its texts.
LEMMA QuietKeeps ==
    ASSUME OwnInv, UNCHANGED <<up, sql, sb_sql, answer, cpc>>,
           s2' = s2 \/ (s2 = NoClient /\ ~ receive_sql), Alive
    PROVE  QuitInv' /\ RunInv' /\ OwnAnswer'
  <1>1. \A c \in Clients : Own(c) => Own(c)'
    BY ConnectorAssumption DEF Own
  <1> QED
    BY <1>1 DEF OwnInv, QuitInv, RunInv, OwnAnswer

\* The lines of an answer hold no text but that of the statement.
LEMMA AnswerText ==
    ASSUME NEW S \in SUBSET Clients, NEW x \in SUBSET S
    PROVE  /\ TextOf(<<Line("RESULTS BEGIN"), Text(x), Line("RESULTS END"), Line("OK")>>, S)
           /\ TextOf(<<Line("ERROR BEGIN"), Text({}), Line("ERROR END"), Line("OK")>>, S)
  <1>1. /\ \A cmd \in Commands : Line(cmd).text \subseteq S
        /\ Text(x).text \subseteq S /\ Text({}).text \subseteq S
    BY DEF Line, Text
  <1>2. ASSUME NEW l1, NEW l2, NEW l3, NEW l4,
               l1.text \subseteq S, l2.text \subseteq S, l3.text \subseteq S, l4.text \subseteq S
        PROVE  TextOf(<<l1, l2, l3, l4>>, S)
    BY <1>2 DEF TextOf
  <1>3. /\ Line("RESULTS BEGIN").text \subseteq S /\ Line("RESULTS END").text \subseteq S
        /\ Line("ERROR BEGIN").text \subseteq S /\ Line("ERROR END").text \subseteq S
        /\ Line("OK").text \subseteq S
    BY <1>1 DEF Commands
  <1> QED
    BY <1>1, <1>2, <1>3

\* Forgetting a client that has ended and was read to the end.
LEMMA ForgetKeepsText ==
    ASSUME OwnInv, srv = "serve", Forget, UNCHANGED cpc,
           up'[s2] = <<>>, cpc[s2] \in Ended,
           \A c \in Clients : c # s2 => up'[c] = up[c]
    PROVE  RunInv' /\ TextInv'
  <1>1. \A c \in Clients : c # s2 => ~ Own(c)
    BY DEF Own
  <1>2. RunCovered(<<>>)
    BY DEF RunCovered
  <1>3. cpc[s2] \notin {"end", "sql", "run"}
    BY DEF Ended
  <1>4. RunInv'
    BY <1>1, <1>2, <1>3 DEF OwnInv, RunInv, Alive
  <1>5. TextInv'
    BY DEF Forget, Gone, TextInv
  <1> QED
    BY <1>4, <1>5

\* A connector that is gone holds nothing.
LEMMA GoneKeeps ==
    ASSUME OwnInv, Gone, UNCHANGED client,
           \A c \in Clients : TextOf(up'[c], {c}) /\ TextOf(down'[c], {c})
    PROVE  WireInv' /\ TextInv' /\ RunInv' /\ OwnAnswer'
  <1>1. out' = <<>> /\ srv' = "gone" /\ ~ receive_sql'
    BY DEF Gone
  <1>2. \A x : TextOf(<<>>, x)
    BY DEF TextOf
  <1>3. WireInv'
    BY <1>1, <1>2 DEF WireInv
  <1>4. TextInv' /\ RunInv'
    BY <1>1 DEF TextInv, RunInv, Alive
  <1>5. OwnAnswer'
    BY DEF OwnInv, OwnAnswer, client
  <1> QED
    BY <1>3, <1>4, <1>5

\* The connector: one case per action, under it one step per part it disturbs.
LEMMA ServerOwn ==
    ASSUME OwnInv, ServerStep \/ Killed \/ Tick
    PROVE  OwnInv'
  <1>0. TypeOK'
    BY ServerTypes DEF OwnInv
  <1>1. CASE Accept
    <2>1. srv = "accept" /\ s2 = NoClient /\ ~ receive_sql /\ out = <<>>
      BY <1>1, ConnectorAssumption DEF Accept, OwnInv, TextInv, WireInv
    <2>2. QuitInv' /\ RunInv' /\ OwnAnswer'
      BY <1>1, <2>1, QuietKeeps DEF Accept, client, Alive
    <2>3. WireInv'
      BY <1>1, <2>1 DEF Accept, OwnInv, WireInv, TextOf
    <2>4. TextInv'
      BY <1>1, <2>1 DEF Accept, TextInv
    <2> QED
      BY <1>0, <2>2, <2>3, <2>4 DEF OwnInv
  <1>2. CASE Helo
    <2>1. \A c \in Clients : TextOf(up'[c], {c}) /\ TextOf(down'[c], {c})
      BY <1>2, Reading, ReplyKeepsText DEF Helo, Receive, client, Commands
    <2>2. QuitInv' /\ RunInv'
      BY <1>2, Reading, ReadingKeepsRun DEF Helo, Receive, server, client, Own
    <2>3. WireInv' /\ TextInv' /\ OwnAnswer'
      BY <1>2, <2>1
         DEF Helo, server, client, OwnInv, WireInv, TextInv, OwnAnswer, Own
    <2> QED
      BY <1>0, <2>2, <2>3 DEF OwnInv
  <1>3. CASE SetOption
    <2>1. \A c \in Clients : TextOf(up'[c], {c}) /\ TextOf(down'[c], {c})
      BY <1>3, Reading, ReplyKeepsText DEF SetOption, Receive, client, Commands
    <2>2. QuitInv' /\ RunInv'
      BY <1>3, Reading, ReadingKeepsRun DEF SetOption, Receive, client, Own
    <2>3. WireInv' /\ TextInv' /\ OwnAnswer'
      BY <1>3, <2>1 DEF SetOption, client, OwnInv, WireInv, TextInv, OwnAnswer, Own
    <2> QED
      BY <1>0, <2>2, <2>3 DEF OwnInv
  <1>4. CASE SqlBegin
    <2>1. /\ s2 \in Clients /\ QuitInv' /\ \A c \in Clients : TextOf(up'[c], {c})
          /\ \A c \in Clients : c # s2 => up'[c] = up[c]
      BY <1>4, Reading DEF SqlBegin, Receive, client
    <2>2. Own(s2)' /\ s2' = s2
      BY <1>4 DEF SqlBegin, Own
    <2>3. RunInv'
      <3>1. \A c \in Clients : c # s2 => ~ Own(c)
        BY DEF Own
      <3> QED
        BY <1>4, <2>1, <2>2, <3>1 DEF SqlBegin, Receive, client, OwnInv, RunInv, Alive
    <2>4. WireInv' /\ OwnAnswer'
      BY <1>4, <2>1 DEF SqlBegin, client, OwnInv, WireInv, OwnAnswer
    <2>5. TextInv'
      BY <1>0, <1>4, <2>1, <2>2 DEF SqlBegin, Receive, TextInv
    <2> QED
      BY <1>0, <2>1, <2>3, <2>4, <2>5 DEF OwnInv
  <1>5. CASE SqlText
    <2>1. /\ s2 \in Clients /\ QuitInv' /\ \A c \in Clients : TextOf(up'[c], {c})
          /\ NextLine.text \subseteq {s2}
      BY <1>5, Reading DEF SqlText, client
    <2>2. Own(s2) /\ Own(s2)' /\ s2' = s2
      BY <1>5, <2>1 DEF SqlText, OwnInv, TextInv, Own
    <2>3. RunInv'
      <3>1. \A c \in Clients : Own(c) => Own(c)'
        BY <2>2 DEF Own
      <3> QED
        BY <1>5, <2>2, <3>1, ReadingKeepsRun DEF SqlText, client
    <2>4. WireInv' /\ OwnAnswer'
      BY <1>5, <2>1 DEF SqlText, client, OwnInv, WireInv, OwnAnswer
    <2>5. TextInv'
      BY <1>5, <2>1, <2>2 DEF SqlText, TextInv
    <2> QED
      BY <1>0, <2>1, <2>3, <2>4, <2>5 DEF OwnInv
  <1>6. CASE SqlEnd
    <2>1. \A c \in Clients : TextOf(up'[c], {c}) /\ TextOf(down'[c], {c})
      BY <1>6, Reading, ReplyKeepsText DEF SqlEnd, Receive, client, Commands
    <2>2. QuitInv' /\ RunInv'
      BY <1>6, Reading, ReadingKeepsRun DEF SqlEnd, Receive, client, Own
    <2>3. WireInv' /\ OwnAnswer'
      BY <1>6, <2>1 DEF SqlEnd, client, OwnInv, WireInv, OwnAnswer
    <2>4. TextInv'
      BY <1>6 DEF SqlEnd, Receive, TextInv
    <2> QED
      BY <1>0, <2>2, <2>3, <2>4 DEF OwnInv
  <1>7. CASE Run
    <2>1. /\ \A c \in Clients : TextOf(up'[c], {c})
          /\ Own(s2)
      BY <1>7, Reading DEF Run, Receive, client
    <2>2. QuitInv' /\ RunInv'
      BY <1>7, Reading, ReadingKeepsRun DEF Run, Receive, client, Own
    <2>3. WireInv' /\ OwnAnswer'
      BY <1>7, <2>1 DEF Run, Receive, client, OwnInv, WireInv, OwnAnswer
    <2>4. TextInv'
      BY <1>7, <2>1 DEF Run, Receive, TextInv, OwnInv, Own
    <2> QED
      BY <1>0, <2>2, <2>3, <2>4 DEF OwnInv
  <1>8. CASE Login
    <2>1. srv = "login" /\ s2 \in Clients /\ Own(s2) /\ out = <<>>
      BY <1>8 DEF Login, OwnInv, TypeOK, HasClient, TextInv, WireInv
    <2>2. QuitInv' /\ RunInv' /\ OwnAnswer'
      BY <1>8, QuietKeeps DEF Login, client, Alive
    <2>3. TextOf(out', {s2}) /\ (out' # <<>> => srv' = "leave")
      <3>1. CASE UNCHANGED out
        BY <2>1, <3>1 DEF OwnInv, WireInv
      <3>2. CASE srv' = "leave" /\
                 out' = <<Line("ERROR BEGIN"), Text({}), Line("ERROR END"), Line("OK")>>
        BY <2>1, <3>2, AnswerText
      <3> QED
        BY <1>8, <3>1, <3>2 DEF Login
    <2>4. WireInv'
      BY <1>8, <2>3 DEF Login, client, OwnInv, WireInv
    <2>5. TextInv'
      BY <1>8, <2>1 DEF Login, OwnInv, TextInv, Own
    <2> QED
      BY <1>0, <2>2, <2>4, <2>5 DEF OwnInv
  <1>9. CASE StartQuery
    <2>1. QuitInv' /\ RunInv' /\ OwnAnswer'
      BY <1>9, QuietKeeps DEF StartQuery, client, Alive
    <2>2. WireInv' /\ TextInv'
      BY <1>9 DEF StartQuery, client, OwnInv, WireInv, TextInv, Own
    <2> QED
      BY <1>0, <2>1, <2>2 DEF OwnInv
  <1>10. CASE EndQuery
    <2>1. srv = "query" /\ s2 \in Clients /\ sql \subseteq {s2}
      BY <1>10 DEF EndQuery, OwnInv, TypeOK, HasClient, TextInv, Own
    <2>2. QuitInv' /\ RunInv' /\ OwnAnswer'
      BY <1>10, QuietKeeps DEF EndQuery, client, Alive
    <2>3. TextOf(out', {s2})
      <3>1. CASE out' = <<Line("RESULTS BEGIN"), Text(sql), Line("RESULTS END"), Line("OK")>>
        BY <2>1, <3>1, AnswerText
      <3>2. CASE out' = <<Line("ERROR BEGIN"), Text({}), Line("ERROR END"), Line("OK")>>
        BY <2>1, <3>2, AnswerText
      <3> QED
        BY <1>10, <3>1, <3>2 DEF EndQuery
    <2>4. WireInv' /\ TextInv'
      BY <1>10, <2>3 DEF EndQuery, client, OwnInv, WireInv, TextInv, Own
    <2> QED
      BY <1>0, <2>2, <2>4 DEF OwnInv
  <1>11. CASE SendLine
    <2>1. /\ s2 \in Clients /\ srv \in {"send", "leave"} /\ out \in Seq(Lines) /\ out # <<>>
          /\ \A c \in Clients : down[c] \in Seq(Lines) /\ TextOf(down[c], {c})
          /\ TextOf(out, {s2}) /\ out' = Tail(out)
      BY <1>11 DEF SendLine, OwnInv, TypeOK, Typed, HasClient, WireInv
    <2>2. QuitInv' /\ RunInv' /\ OwnAnswer'
      BY <1>11, QuietKeeps DEF SendLine, client, Alive
    <2>3. Head(out) \in Lines /\ Head(out).text \subseteq {s2} /\ TextOf(out', {s2})
      BY <2>1, TailFacts, LinesClosed
    <2>4. TextOf(Append(down[s2], Head(out)), {s2})
      BY <2>1, <2>3, AppendFacts
    <2>5. \A c \in Clients : TextOf(down'[c], {c})
      <3>1. CASE UNCHANGED down
        BY <2>1, <3>1
      <3>2. CASE down' = [down EXCEPT ![s2] = Append(@, Head(out))]
        <4>1. /\ down'[s2] = Append(down[s2], Head(out))
              /\ \A c \in Clients : c # s2 => down'[c] = down[c]
          BY <2>1, <3>2 DEF OwnInv, TypeOK, Typed, HasClient
        <4> QED
          BY <2>1, <2>4, <4>1
      <3> QED
        BY <1>11, <3>1, <3>2 DEF SendLine
    <2>6. WireInv' /\ TextInv'
      BY <1>11, <2>1, <2>3, <2>5 DEF SendLine, OwnInv, WireInv, TextInv, Own
    <2> QED
      BY <1>0, <2>2, <2>6 DEF OwnInv
  <1>12. CASE Sent
    <2>1. CASE Gone
      <3>1. QuitInv' /\ \A c \in Clients : TextOf(up'[c], {c}) /\ TextOf(down'[c], {c})
        BY <1>12 DEF Sent, client, OwnInv, QuitInv, WireInv
      <3> QED
        BY <1>0, <1>12, <2>1, <3>1, GoneKeeps DEF Sent, OwnInv
    <2>2. CASE ~ Gone
      <3>1. /\ srv = "send" /\ srv' = "serve" /\ out = <<>> /\ UNCHANGED <<s2, receive_sql, sb_sql, sql, out>>
            /\ UNCHANGED <<up, down, client>>
        BY <1>12, <2>2 DEF Sent
      <3>2. QuitInv' /\ RunInv' /\ OwnAnswer'
        BY <3>1, QuietKeeps DEF client, Alive
      <3>3. WireInv' /\ TextInv'
        BY <3>1 DEF client, OwnInv, WireInv, TextInv, Own
      <3> QED
        BY <1>0, <3>2, <3>3 DEF OwnInv
    <2> QED
      BY <2>1, <2>2
  <1>13. CASE Quit
    <2>1. /\ s2 \in Clients /\ QuitInv' /\ up'[s2] = <<>> /\ cpc[s2] \in Ended
          /\ \A c \in Clients : c # s2 => up'[c] = up[c]
          /\ \A c \in Clients : TextOf(up'[c], {c})
      BY <1>13, Reading DEF Quit, Receive, client
    <2>2. \A c \in Clients : TextOf(down'[c], {c})
      BY <1>13, ReplyKeepsText DEF Quit, Receive, Commands
    <2>3. RunInv' /\ TextInv'
      BY <1>13, <2>1, ForgetKeepsText DEF Quit, Receive, client
    <2>4. out' = <<>> /\ TextOf(<<>>, {s2'})
      BY <1>13 DEF Quit, Receive, Forget, Gone, OwnInv, WireInv, TextOf
    <2>5. WireInv' /\ OwnAnswer'
      BY <1>13, <2>1, <2>2, <2>4 DEF Quit, client, OwnInv, WireInv, OwnAnswer
    <2> QED
      BY <1>0, <2>1, <2>3, <2>5 DEF OwnInv
  <1>14. CASE Broken
    <2>1. srv = "serve" /\ up'[s2] = <<>> /\ cpc[s2] \in Ended /\ UNCHANGED <<up, cpc>>
      BY <1>14 DEF Broken, Closed, client, Ended
    <2>2. RunInv' /\ TextInv'
      BY <1>14, <2>1, ForgetKeepsText DEF Broken
    <2>3. out' = <<>> /\ TextOf(<<>>, {s2'})
      BY <1>14, <2>1 DEF Broken, Forget, Gone, OwnInv, WireInv, TextOf
    <2>4. WireInv' /\ OwnAnswer' /\ QuitInv'
      BY <1>14, <2>3 DEF Broken, client, OwnInv, WireInv, OwnAnswer, QuitInv
    <2> QED
      BY <1>0, <2>2, <2>4 DEF OwnInv
  <1>15. CASE Die
    <2>1. QuitInv' /\ \A c \in Clients : TextOf(up'[c], {c}) /\ TextOf(down'[c], {c})
      BY <1>15, Reading, ReplyKeepsText DEF Die, Receive, client, Commands
    <2>2. WireInv' /\ TextInv' /\ RunInv' /\ OwnAnswer'
      BY <1>15, <2>1, GoneKeeps DEF Die
    <2> QED
      BY <1>0, <2>1, <2>2 DEF OwnInv
  <1>16. CASE Alarm \/ Killed
    <2>1. Gone /\ UNCHANGED <<up, down, client>>
      BY <1>16 DEF Alarm, Killed
    <2>2. QuitInv' /\ \A c \in Clients : TextOf(up'[c], {c}) /\ TextOf(down'[c], {c})
      BY <2>1 DEF client, OwnInv, QuitInv, WireInv
    <2> QED
      BY <1>0, <2>1, <2>2, GoneKeeps DEF OwnInv
  <1>17. CASE Tick
    <2>1. QuitInv' /\ RunInv' /\ OwnAnswer'
      BY <1>17, QuietKeeps DEF Tick, client
    <2>2. WireInv' /\ TextInv'
      BY <1>17 DEF Tick, client, OwnInv, WireInv, TextInv, Own
    <2> QED
      BY <1>0, <2>1, <2>2 DEF OwnInv
  <1> QED
    BY <1>1, <1>2, <1>3, <1>4, <1>5, <1>6, <1>7, <1>8, <1>9, <1>10, <1>11, <1>12,
       <1>13, <1>14, <1>15, <1>16, <1>17 DEF ServerStep

\* The lines a client sends together.
LEMMA SentFacts ==
    /\ \A cmd \in Commands : \A x :
          /\ TextOf(<<Line(cmd)>>, x) /\ LastQuit(<<Line(cmd)>>)
          /\ cmd # "QUIT" => NoQuit(<<Line(cmd)>>)
          /\ cmd # "RUN" => RunCovered(<<Line(cmd)>>)
    /\ \A t \in Nat : \A x :
          /\ TextOf(<<SetTimeout(t)>>, x)
          /\ NoQuit(<<SetTimeout(t)>>) /\ RunCovered(<<SetTimeout(t)>>)
    /\ \A c \in Clients :
          LET s == <<Line("SQL BEGIN"), Text({c})>>
          IN  TextOf(s, {c}) /\ NoQuit(s) /\ RunCovered(s) /\ HasBegin(s)
  <1>1. ASSUME NEW l, NEW x, l.text \subseteq x
        PROVE  TextOf(<<l>>, x) /\ LastQuit(<<l>>)
    BY <1>1 DEF TextOf, LastQuit
  <1>2. ASSUME NEW l PROVE /\ l.cmd # "QUIT" => NoQuit(<<l>>)
                           /\ l.cmd # "RUN" => RunCovered(<<l>>)
    <2>1. \A i \in 1 .. Len(<<l>>) : <<l>>[i] = l
      OBVIOUS
    <2> QED
      BY <2>1 DEF NoQuit, RunCovered
  <1>3. ASSUME NEW l, NEW m, NEW x, l.text \subseteq x, m.text \subseteq x,
               l.cmd = "SQL BEGIN", m.cmd = "TEXT"
        PROVE  /\ TextOf(<<l, m>>, x) /\ NoQuit(<<l, m>>)
               /\ RunCovered(<<l, m>>) /\ HasBegin(<<l, m>>)
    <2> DEFINE s == <<l, m>>
    <2>1. /\ \A i \in 1 .. Len(s) : s[i] = l \/ s[i] = m
          /\ 1 \in 1 .. Len(s) /\ s[1] = l
      OBVIOUS
    <2> HIDE DEF s
    <2>2. TextOf(s, x)
      BY <1>3, <2>1 DEF TextOf
    <2>3. NoQuit(s)
      BY <1>3, <2>1 DEF NoQuit
    <2>4. RunCovered(s)
      BY <1>3, <2>1 DEF RunCovered
    <2>5. HasBegin(s)
      BY <1>3, <2>1 DEF HasBegin
    <2> QED
      BY <2>2, <2>3, <2>4, <2>5 DEF s
  <1>4. "SQL BEGIN" \in Commands
    BY DEF Commands
  <1>5. \A c \in Clients : {c} \in SUBSET Clients
    OBVIOUS
  <1> QED
    <2>1. ASSUME NEW cmd \in Commands, NEW x
          PROVE  /\ TextOf(<<Line(cmd)>>, x) /\ LastQuit(<<Line(cmd)>>)
                 /\ cmd # "QUIT" => NoQuit(<<Line(cmd)>>)
                 /\ cmd # "RUN" => RunCovered(<<Line(cmd)>>)
      <3>1. Line(cmd).text \subseteq x /\ Line(cmd).cmd = cmd
        BY LineTypes
      <3> QED
        BY <1>1, <1>2, <3>1
    <2>2. ASSUME NEW t \in Nat, NEW x
          PROVE  /\ TextOf(<<SetTimeout(t)>>, x)
                 /\ NoQuit(<<SetTimeout(t)>>) /\ RunCovered(<<SetTimeout(t)>>)
      <3>1. SetTimeout(t).text \subseteq x /\ SetTimeout(t).cmd = "SET"
        BY LineTypes
      <3> QED
        BY <1>1, <1>2, <3>1
    <2>3. ASSUME NEW c \in Clients
          PROVE  LET s == <<Line("SQL BEGIN"), Text({c})>>
                 IN  TextOf(s, {c}) /\ NoQuit(s) /\ RunCovered(s) /\ HasBegin(s)
      <3>1. /\ Line("SQL BEGIN").text \subseteq {c} /\ Line("SQL BEGIN").cmd = "SQL BEGIN"
            /\ Text({c}).text \subseteq {c} /\ Text({c}).cmd = "TEXT"
        BY <1>4, <1>5, LineTypes
      <3> QED
        BY <1>3, <3>1
    <2> QED
      BY <2>1, <2>2, <2>3

\* A client that sends lines.
LEMMA Sending ==
    ASSUME OwnInv, NEW c \in Clients, NEW lines \in Seq(Lines), NEW l, TextOf(lines, {c}),
           up' = [up EXCEPT ![c] = @ \o lines], cpc' = [cpc EXCEPT ![c] = l],
           cpc[c] \notin Ended, NoQuit(lines) \/ (LastQuit(lines) /\ l \in Ended)
    PROVE  /\ \A d \in Clients : TextOf(up'[d], {d})
           /\ QuitInv'
           /\ up'[c] = up[c] \o lines /\ cpc'[c] = l
           /\ \A d \in Clients : d # c => up'[d] = up[d] /\ cpc'[d] = cpc[d]
  <1>1. /\ up[c] \in Seq(Lines) /\ up'[c] = up[c] \o lines /\ cpc'[c] = l
        /\ \A d \in Clients : d # c => up'[d] = up[d] /\ cpc'[d] = cpc[d]
    BY DEF OwnInv, TypeOK, Typed, HasClient
  <1>2. \A d \in Clients : TextOf(up[d], {d}) /\ QuitOK(up[d], cpc[d])
    BY DEF OwnInv, WireInv, QuitInv
  <1>3. TextOf(up'[c], {c})
    BY <1>1, <1>2, ConcatFacts
  <1>4. QuitOK(up'[c], l)
    <2>1. NoQuit(up[c])
      BY <1>2 DEF QuitOK
    <2>2. /\ NoQuit(lines) => NoQuit(up'[c]) /\ LastQuit(lines)
          /\ LastQuit(lines) => LastQuit(up'[c])
      BY <1>1, <2>1, QuitConcat
    <2> QED
      BY <2>2 DEF QuitOK
  <1>5. \A d \in Clients : TextOf(up'[d], {d}) /\ QuitOK(up'[d], cpc'[d])
    BY <1>1, <1>2, <1>3, <1>4
  <1> QED
    BY <1>1, <1>5 DEF QuitInv

\* What it may send where.
LEMMA SendingKeepsRun ==
    ASSUME OwnInv, NEW c \in Clients, NEW lines \in Seq(Lines), NEW l, Alive,
           UNCHANGED server,
           up'[c] = up[c] \o lines, cpc'[c] = l,
           \A d \in Clients : d # c => up'[d] = up[d] /\ cpc'[d] = cpc[d],
           RunCovered(lines) \/ cpc[c] \in {"end", "sql", "run"},
           l \in {"end", "sql", "run"} => HasBegin(lines) \/ cpc[c] \in {"end", "sql", "run"}
    PROVE  RunInv' /\ TextInv'
  <1>1. \A d \in Clients : Own(d) => Own(d)'
    BY DEF server, Own
  <1>2. up[c] \in Seq(Lines)
    BY DEF OwnInv, TypeOK, Typed, HasClient
  <1>3. /\ RunCovered(up[c]) \/ Own(c)
        /\ cpc[c] \in {"end", "sql", "run"} => HasBegin(up[c]) \/ Own(c)
    BY DEF OwnInv, RunInv
  <1>4. /\ HasBegin(up[c]) \/ HasBegin(lines) => HasBegin(up'[c])
        /\ RunCovered(up[c]) /\ (HasBegin(up[c]) \/ RunCovered(lines)) => RunCovered(up'[c])
    BY <1>2, ConcatFacts
  <1>5. RunCovered(up'[c]) \/ Own(c)
    BY <1>3, <1>4
  <1>6. l \in {"end", "sql", "run"} => HasBegin(up'[c]) \/ Own(c)
    BY <1>3, <1>4
  <1>7. \A d \in Clients :
           /\ RunCovered(up'[d]) \/ Own(d)
           /\ cpc'[d] \in {"end", "sql", "run"} => HasBegin(up'[d]) \/ Own(d)
    BY <1>5, <1>6 DEF OwnInv, RunInv
  <1>8. RunInv'
    BY <1>1, <1>7 DEF RunInv
  <1>9. TextInv'
    BY DEF server, OwnInv, TextInv, Own
  <1> QED
    BY <1>8, <1>9

\* A client that sends nothing.
LEMMA StayingKeeps ==
    ASSUME OwnInv, NEW c \in Clients, NEW l, UNCHANGED <<server, up>>,
           cpc' = [cpc EXCEPT ![c] = l],
           l \in {"end", "sql", "run"} => cpc[c] \in {"end", "sql", "run"},
           l \in Ended \/ cpc[c] \notin Ended
    PROVE  QuitInv' /\ RunInv' /\ TextInv'
  <1>1. cpc'[c] = l /\ \A d \in Clients : d # c => cpc'[d] = cpc[d]
    BY DEF OwnInv, TypeOK, Typed, HasClient
  <1>2. \A d \in Clients : QuitOK(up[d], cpc'[d])
    BY <1>1 DEF OwnInv, QuitInv, QuitOK
  <1>3. \A d \in Clients : Own(d)' <=> Own(d)
    BY DEF server, Own
  <1>4. RunInv'
    BY <1>1, <1>3 DEF OwnInv, RunInv, Alive, server
  <1>5. TextInv'
    BY DEF server, OwnInv, TextInv, Own
  <1> QED
    BY <1>2, <1>4, <1>5 DEF QuitInv

\* Taking a line, or nothing, leaves the client's lines its own.
LEMMA TakingKeepsText ==
    ASSUME OwnInv, NEW c \in Clients,
           \/ UNCHANGED down
           \/ down[c] # <<>> /\ down' = [down EXCEPT ![c] = Tail(@)]
           \/ down' = [down EXCEPT ![c] = <<>>]
    PROVE  \A d \in Clients : TextOf(down'[d], {d})
  <1>1. \A d \in Clients : down[d] \in Seq(Lines) /\ TextOf(down[d], {d})
    BY DEF OwnInv, TypeOK, Typed, HasClient, WireInv
  <1>2. CASE UNCHANGED down
    BY <1>1, <1>2
  <1>3. CASE down[c] # <<>> /\ down' = [down EXCEPT ![c] = Tail(@)]
    <2>1. down'[c] = Tail(down[c]) /\ \A d \in Clients : d # c => down'[d] = down[d]
      BY <1>3 DEF OwnInv, TypeOK, Typed, HasClient
    <2>2. TextOf(Tail(down[c]), {c})
      BY <1>1, <1>3, TailFacts
    <2> QED
      BY <1>1, <2>1, <2>2
  <1>4. CASE down' = [down EXCEPT ![c] = <<>>]
    <2>1. down'[c] = <<>> /\ \A d \in Clients : d # c => down'[d] = down[d]
      BY <1>4 DEF OwnInv, TypeOK, Typed
    <2>2. TextOf(<<>>, {c})
      BY DEF TextOf
    <2> QED
      BY <1>1, <2>1, <2>2
  <1> QED
    BY <1>2, <1>3, <1>4

\* The end of a request.
LEMMA LeaveKeeps ==
    ASSUME OwnInv, NEW c \in Clients, Leave(c), UNCHANGED <<server, up>>
    PROVE  QuitInv' /\ RunInv' /\ TextInv'
  <1>1. CASE cpc' = [cpc EXCEPT ![c] = "idle"]
    BY <1>1, StayingKeeps DEF Ended
  <1>2. CASE cpc' = [cpc EXCEPT ![c] = "closed"]
    BY <1>2, StayingKeeps DEF Ended
  <1> QED
    BY <1>1, <1>2 DEF Leave, Goto

\* The end of a request keeps what it got.
LEMMA FinishKeeps ==
    ASSUME OwnInv, NEW c \in Clients, NEW kind, Finish(c, kind), UNCHANGED <<server, up>>,
           UNCHANGED down \/ down' = [down EXCEPT ![c] = <<>>]
    PROVE  WireInv' /\ QuitInv' /\ TextInv' /\ RunInv' /\ OwnAnswer'
  <1>1. QuitInv' /\ RunInv' /\ TextInv'
    BY LeaveKeeps DEF Finish
  <1>2. \A d \in Clients : TextOf(down'[d], {d})
    BY TakingKeepsText
  <1>3. WireInv'
    BY <1>2 DEF server, OwnInv, WireInv
  <1>4. \A d \in Clients : answer'[d].text = answer[d].text
    BY DEF Finish, OwnInv, TypeOK, Typed, HasClient, Answers
  <1> QED
    BY <1>1, <1>3, <1>4 DEF OwnInv, OwnAnswer

\* A client that sends lines other than QUIT.
LEMMA SendingKeeps ==
    ASSUME OwnInv, NEW c \in Clients, NEW lines \in Seq(Lines), NEW l,
           SendLines(c, lines), Goto(c, l), UNCHANGED <<server, down>>,
           \A d \in Clients : answer'[d].text = answer[d].text,
           TextOf(lines, {c}), cpc[c] \notin Ended,
           NoQuit(lines) \/ (LastQuit(lines) /\ l \in Ended),
           RunCovered(lines) \/ cpc[c] \in {"end", "sql", "run"},
           l \in {"end", "sql", "run"} => HasBegin(lines) \/ cpc[c] \in {"end", "sql", "run"}
    PROVE  WireInv' /\ QuitInv' /\ TextInv' /\ RunInv' /\ OwnAnswer'
  <1>1. /\ QuitInv' /\ \A d \in Clients : TextOf(up'[d], {d})
        /\ up'[c] = up[c] \o lines /\ cpc'[c] = l
        /\ \A d \in Clients : d # c => up'[d] = up[d] /\ cpc'[d] = cpc[d]
    BY Sending DEF SendLines, Goto
  <1>2. RunInv' /\ TextInv'
    BY <1>1, SendingKeepsRun DEF SendLines
  <1>3. WireInv'
    BY <1>1 DEF server, OwnInv, WireInv
  <1>4. OwnAnswer'
    BY DEF OwnInv, OwnAnswer
  <1> QED
    BY <1>1, <1>2, <1>3, <1>4

\* The clients: one case per action.
LEMMA ClientOwn ==
    ASSUME OwnInv, NEW c \in Clients,
           ClientStep(c) \/ Connect(c) \/ ClientDies(c) \/ Interrupt(c)
    PROVE  OwnInv'
  <1>0. TypeOK'
    BY ClientTypes DEF OwnInv
  <1>1. CASE Connect(c)
    <2> DEFINE cmd == IF c \in Operators THEN "DIE" ELSE "HELO"
               l == IF c \in Operators THEN "quit" ELSE "helo"
    <2>1. /\ cmd \in Commands \ {"QUIT", "RUN"} /\ l \notin {"end", "sql", "run"}
          /\ up' = [up EXCEPT ![c] = <<Line(cmd)>>]
          /\ down' = [down EXCEPT ![c] = <<>>] /\ cpc' = [cpc EXCEPT ![c] = l]
          /\ answer' = [answer EXCEPT ![c] = NoAnswer]
      BY <1>1 DEF Connect, Goto, Commands
    <2> HIDE DEF cmd, l
    <2>2. /\ TextOf(<<Line(cmd)>>, {c}) /\ NoQuit(<<Line(cmd)>>)
          /\ LastQuit(<<Line(cmd)>>) /\ RunCovered(<<Line(cmd)>>)
      BY <2>1, SentFacts
    <2>3. /\ up'[c] = <<Line(cmd)>> /\ down'[c] = <<>> /\ cpc'[c] = l
          /\ answer'[c] = NoAnswer
          /\ \A d \in Clients : d # c => /\ up'[d] = up[d] /\ down'[d] = down[d]
                                         /\ cpc'[d] = cpc[d] /\ answer'[d] = answer[d]
      BY <2>1 DEF OwnInv, TypeOK, Typed, HasClient
    <2>4. QuitInv'
      <3>1. \A d \in Clients : QuitOK(up'[d], cpc'[d])
        BY <2>2, <2>3 DEF OwnInv, QuitInv, QuitOK
      <3> QED
        BY <3>1 DEF QuitInv
    <2>5. \A d \in Clients : Own(d) => Own(d)'
      BY <1>1 DEF Connect, server, Own
    <2>6. RunInv' /\ TextInv'
      <3>1. RunInv'
        BY <1>1, <2>1, <2>2, <2>3, <2>5 DEF Connect, OwnInv, RunInv
      <3>2. TextInv'
        BY <1>1 DEF Connect, server, OwnInv, TextInv, Own
      <3> QED
        BY <3>1, <3>2
    <2>7. WireInv'
      <3>1. TextOf(<<>>, {c})
        BY DEF TextOf
      <3>2. \A d \in Clients : TextOf(up'[d], {d}) /\ TextOf(down'[d], {d})
        BY <2>2, <2>3, <3>1 DEF OwnInv, WireInv
      <3> QED
        BY <1>1, <3>2 DEF Connect, server, OwnInv, WireInv
    <2>8. OwnAnswer'
      BY <2>3 DEF OwnInv, OwnAnswer, NoAnswer
    <2> QED
      BY <1>0, <2>4, <2>6, <2>7, <2>8 DEF OwnInv
  <1>2. CASE Initialize(c)
    <2>1. CASE Finish(c, "noinit")
      BY <1>0, <1>2, <2>1, FinishKeeps DEF Initialize, GetReply, OwnInv
    <2>2. CASE Goto(c, "options") /\ UNCHANGED answer
      <3>1. QuitInv' /\ RunInv' /\ TextInv'
        BY <1>2, <2>2, StayingKeeps DEF Initialize, At, Goto, Ended
      <3>2. \A d \in Clients : TextOf(down'[d], {d})
        BY <1>2, TakingKeepsText DEF Initialize, GetReply
      <3>3. WireInv' /\ OwnAnswer'
        BY <1>2, <2>2, <3>2 DEF Initialize, server, OwnInv, WireInv, OwnAnswer
      <3> QED
        BY <1>0, <3>1, <3>3 DEF OwnInv
    <2> QED
      BY <1>2, <2>1, <2>2 DEF Initialize
  <1>3. CASE SendOptions(c)
    <2>1. CASE Internal(c)
      BY <1>0, <1>3, <2>1, FinishKeeps DEF SendOptions, Internal, OwnInv
    <2>2. ASSUME NEW t \in Timeouts, SendLines(c, <<SetTimeout(t)>>),
                 Goto(c, "set"), UNCHANGED answer
          PROVE  OwnInv'
      <3>1. /\ <<SetTimeout(t)>> \in Seq(Lines) /\ TextOf(<<SetTimeout(t)>>, {c})
            /\ NoQuit(<<SetTimeout(t)>>) /\ RunCovered(<<SetTimeout(t)>>)
        BY ConnectorAssumption, SentTypes, SentFacts
      <3> QED
        BY <1>0, <1>3, <2>2, <3>1, SendingKeeps DEF SendOptions, At, Ended, OwnInv
    <2> QED
      BY <1>3, <2>1, <2>2 DEF SendOptions
  <1>4. CASE OptionsSet(c)
    <2>1. QuitInv' /\ RunInv' /\ TextInv'
      BY <1>4, StayingKeeps DEF OptionsSet, At, Goto, Ended
    <2>2. \A d \in Clients : TextOf(down'[d], {d})
      BY <1>4, TakingKeepsText DEF OptionsSet, GetReply
    <2>3. WireInv' /\ OwnAnswer'
      BY <1>4, <2>2 DEF OptionsSet, server, OwnInv, WireInv, OwnAnswer
    <2> QED
      BY <1>0, <2>1, <2>3 DEF OwnInv
  <1>5. CASE SendSql(c)
    <2> DEFINE s == <<Line("SQL BEGIN"), Text({c})>>
    <2>1. CASE Internal(c)
      BY <1>0, <1>5, <2>1, FinishKeeps DEF SendSql, Internal, OwnInv
    <2>2. CASE SendLines(c, s) /\ Goto(c, "end") /\ UNCHANGED answer
      <3>1. s \in Seq(Lines) /\ TextOf(s, {c}) /\ NoQuit(s) /\ RunCovered(s) /\ HasBegin(s)
        BY SentTypes, SentFacts
      <3> HIDE DEF s
      <3> QED
        BY <1>0, <1>5, <2>2, <3>1, SendingKeeps DEF SendSql, At, Ended, OwnInv
    <2> QED
      BY <1>5, <2>1, <2>2 DEF SendSql
  <1>6. CASE SendSqlEnd(c)
    <2> DEFINE s == <<Line("SQL END")>>
    <2>1. CASE Internal(c)
      BY <1>0, <1>6, <2>1, FinishKeeps DEF SendSqlEnd, Internal, OwnInv
    <2>2. CASE SendLines(c, s) /\ Goto(c, "sql") /\ UNCHANGED answer
      <3>1. s \in Seq(Lines) /\ TextOf(s, {c}) /\ NoQuit(s) /\ RunCovered(s)
        BY SentTypes, SentFacts DEF Commands
      <3> HIDE DEF s
      <3> QED
        BY <1>0, <1>6, <2>2, <3>1, SendingKeeps DEF SendSqlEnd, At, Ended, OwnInv
    <2> QED
      BY <1>6, <2>1, <2>2 DEF SendSqlEnd
  <1>7. CASE SqlSent(c)
    <2>1. QuitInv' /\ RunInv' /\ TextInv'
      BY <1>7, StayingKeeps DEF SqlSent, At, Goto, Ended
    <2>2. \A d \in Clients : TextOf(down'[d], {d})
      BY <1>7, TakingKeepsText DEF SqlSent, GetLine
    <2>3. WireInv' /\ OwnAnswer'
      BY <1>7, <2>2 DEF SqlSent, server, OwnInv, WireInv, OwnAnswer
    <2> QED
      BY <1>0, <2>1, <2>3 DEF OwnInv
  <1>8. CASE SendRun(c)
    <2> DEFINE s == <<Line("RUN")>>
    <2>1. CASE Finish(c, "success") /\ UNCHANGED up
      BY <1>0, <1>8, <2>1, FinishKeeps DEF SendRun, OwnInv
    <2>2. CASE SendLines(c, s) /\ Goto(c, "receive") /\ UNCHANGED answer
      <3>1. s \in Seq(Lines) /\ TextOf(s, {c}) /\ NoQuit(s)
        BY SentTypes, SentFacts DEF Commands
      <3> HIDE DEF s
      <3> QED
        BY <1>0, <1>8, <2>2, <3>1, SendingKeeps DEF SendRun, At, Ended, OwnInv
    <2> QED
      BY <1>8, <2>1, <2>2 DEF SendRun
  <1>9. CASE ReceiveLine(c)
    <2>1. QuitInv' /\ RunInv' /\ TextInv'
      <3>1. cpc' = [cpc EXCEPT ![c] = "receive"] /\ cpc[c] = "receive"
        BY <1>9 DEF ReceiveLine, At, OwnInv, TypeOK, Typed, HasClient
      <3> QED
        BY <1>9, <3>1, StayingKeeps DEF ReceiveLine, Ended
    <2>2. \A d \in Clients : TextOf(down'[d], {d})
      BY <1>9, TakingKeepsText DEF ReceiveLine
    <2>3. WireInv'
      BY <1>9, <2>2 DEF ReceiveLine, server, OwnInv, WireInv
    <2>4. Head(down[c]).text \subseteq {c}
      BY <1>9, TailFacts DEF ReceiveLine, OwnInv, WireInv, TypeOK, Typed, HasClient
    <2>5. \A d \in Clients : answer'[d].text \subseteq {d}
      <3>1. \A d \in Clients : d # c => answer'[d] = answer[d]
        BY <1>9 DEF ReceiveLine, OwnInv, TypeOK, Typed, HasClient
      <3>2. answer'[c].text \subseteq answer[c].text \cup Head(down[c]).text
        <4> DEFINE x == IF results[c] THEN answer[c].text \cup Head(down[c]).text
                                      ELSE answer[c].text
        <4>1. answer' = [answer EXCEPT ![c] = [answer[c] EXCEPT !.text = x]]
          BY <1>9 DEF ReceiveLine
        <4>2. answer[c] \in Answers /\ answer'[c] = [answer[c] EXCEPT !.text = x]
          BY <4>1 DEF OwnInv, TypeOK, Typed, HasClient
        <4>3. x \subseteq answer[c].text \cup Head(down[c]).text
          OBVIOUS
        <4> HIDE DEF x
        <4>4. answer'[c].text = x
          BY <4>2 DEF Answers
        <4> QED
          BY <4>3, <4>4
      <3> QED
        BY <2>4, <3>1, <3>2 DEF OwnInv, OwnAnswer
    <2> QED
      BY <1>0, <2>1, <2>3, <2>5 DEF OwnInv, OwnAnswer
  <1>10. CASE ReceiveLast(c)
    <2> DEFINE s == <<Line("QUIT")>>
    <2>1. \A d \in Clients : TextOf(down'[d], {d})
      <3>1. PICK rest \in {Tail(down[c]), <<>>} : down' = [down EXCEPT ![c] = rest]
        BY <1>10 DEF ReceiveLast
      <3>2. CASE rest = <<>>
        BY <3>1, <3>2, TakingKeepsText
      <3>3. CASE rest = Tail(down[c])
        <4>1. down' = [down EXCEPT ![c] = Tail(@)] /\ down[c] # <<>>
          BY <1>10, <3>1, <3>3 DEF ReceiveLast
        <4> QED
          BY <4>1, TakingKeepsText
      <3> QED
        BY <3>1, <3>2, <3>3
    <2>2. \A d \in Clients : answer'[d].text = answer[d].text
      BY <1>10 DEF ReceiveLast, OwnInv, TypeOK, Typed, HasClient, Answers
    <2>3. OwnAnswer'
      BY <2>2 DEF OwnInv, OwnAnswer
    <2>4. CASE SendLines(c, s) /\ Goto(c, "quit")
      <3>1. s \in Seq(Lines) /\ TextOf(s, {c}) /\ LastQuit(s) /\ RunCovered(s)
        BY SentTypes, SentFacts DEF Commands
      <3> HIDE DEF s
      <3>2. /\ QuitInv' /\ \A d \in Clients : TextOf(up'[d], {d})
            /\ up'[c] = up[c] \o s /\ cpc'[c] = "quit"
            /\ \A d \in Clients : d # c => up'[d] = up[d] /\ cpc'[d] = cpc[d]
        BY <1>10, <2>4, <3>1, Sending DEF ReceiveLast, SendLines, Goto, At, Ended
      <3>3. RunInv' /\ TextInv'
        BY <1>10, <2>4, <3>1, <3>2, SendingKeepsRun DEF ReceiveLast, SendLines
      <3>4. WireInv'
        BY <1>10, <2>1, <3>2 DEF ReceiveLast, server, OwnInv, WireInv
      <3> QED
        BY <1>0, <2>3, <3>2, <3>3, <3>4 DEF OwnInv
    <2>5. CASE Leave(c) /\ UNCHANGED up
      <3>1. QuitInv' /\ RunInv' /\ TextInv'
        BY <1>10, <2>5, LeaveKeeps DEF ReceiveLast
      <3>2. WireInv'
        BY <1>10, <2>1, <2>5 DEF ReceiveLast, server, OwnInv, WireInv
      <3> QED
        BY <1>0, <2>3, <3>1, <3>2 DEF OwnInv
    <2> QED
      BY <1>10, <2>4, <2>5 DEF ReceiveLast
  <1>11. CASE ReceiveEnd(c)
    BY <1>0, <1>11, FinishKeeps DEF ReceiveEnd, OwnInv
  <1>12. CASE Bye(c)
    <2>1. QuitInv' /\ RunInv' /\ TextInv'
      BY <1>12, LeaveKeeps DEF Bye
    <2>2. \A d \in Clients : TextOf(down'[d], {d})
      BY <1>12, TakingKeepsText DEF Bye, GetReply
    <2>3. WireInv' /\ OwnAnswer'
      BY <1>12, <2>2 DEF Bye, server, OwnInv, WireInv, OwnAnswer
    <2> QED
      BY <1>0, <2>1, <2>3 DEF OwnInv
  <1>13. CASE ClientDies(c)
    <2>1. QuitInv' /\ RunInv' /\ TextInv'
      BY <1>13, StayingKeeps DEF ClientDies, Goto, Ended
    <2>2. \A d \in Clients : TextOf(down'[d], {d})
      <3>1. TextOf(<<>>, {c})
        BY DEF TextOf
      <3>2. down'[c] = <<>> /\ \A d \in Clients : d # c => down'[d] = down[d]
        BY <1>13 DEF ClientDies, OwnInv, TypeOK, Typed, HasClient
      <3> QED
        BY <3>1, <3>2 DEF OwnInv, WireInv
    <2>3. WireInv' /\ OwnAnswer'
      BY <1>13, <2>2 DEF ClientDies, server, OwnInv, WireInv, OwnAnswer
    <2> QED
      BY <1>0, <2>1, <2>3 DEF OwnInv
  <1>14. CASE Interrupt(c)
    <2>1. UNCHANGED server /\ UNCHANGED down /\ (ReadInterrupted(c) \/ WriteInterrupted(c))
      BY <1>14 DEF Interrupt
    <2>2. \A d \in Clients : answer'[d].text = answer[d].text
      <3>1. \/ UNCHANGED answer
            \/ \E k \in {"noinit", "internal", "success"} :
                  answer' = [answer EXCEPT ![c] = [answer[c] EXCEPT !.kind = k]]
        BY <2>1 DEF ReadInterrupted, WriteInterrupted
      <3>2. answer \in [Clients -> Answers] /\ answer[c] \in Answers
        BY DEF OwnInv, TypeOK, Typed
      <3>3. ASSUME NEW k \in {"noinit", "internal", "success"},
                   answer' = [answer EXCEPT ![c] = [answer[c] EXCEPT !.kind = k]]
            PROVE  \A d \in Clients : answer'[d].text = answer[d].text
        <4>1. answer'[c] = [answer[c] EXCEPT !.kind = k]
          BY <3>2, <3>3
        <4>2. answer'[c].text = answer[c].text
          BY <3>2, <4>1 DEF Answers
        <4> QED
          BY <3>2, <3>3, <4>2
      <3> QED
        BY <3>1, <3>3
    <2>3. ASSUME NEW s \in Seq(Lines), SendLines(c, s), Goto(c, "quit"), cpc[c] \notin Ended,
                 TextOf(s, {c}), LastQuit(s), RunCovered(s)
          PROVE  OwnInv'
      BY <1>0, <2>1, <2>2, <2>3, SendingKeeps DEF Ended, OwnInv
    <2>4. ASSUME NEW cmd \in {"DIE", "QUIT"}
          PROVE  /\ <<Line(cmd)>> \in Seq(Lines) /\ TextOf(<<Line(cmd)>>, {c})
                 /\ LastQuit(<<Line(cmd)>>) /\ RunCovered(<<Line(cmd)>>)
      BY SentTypes, SentFacts DEF Commands
    <2>5. CASE UNCHANGED up /\ \E l \in {"options", "leaked", "begin", "run", "closed"} :
                  /\ Goto(c, l) /\ cpc[c] \notin {"idle", "leaked", "closed", "dead"}
                  /\ l \in {"run", "options", "begin"} => cpc[c] \notin Ended
                  /\ l = "run" => cpc[c] = "sql"
      <3>1. QuitInv' /\ RunInv' /\ TextInv'
        BY <2>1, <2>5, StayingKeeps DEF Goto, Ended
      <3>2. WireInv' /\ OwnAnswer'
        BY <2>1, <2>2, <2>5 DEF server, OwnInv, WireInv, OwnAnswer
      <3> QED
        BY <1>0, <3>1, <3>2 DEF OwnInv
    <2>6. CASE /\ Goto(c, "quit") /\ cpc[c] \notin Ended
               /\ SendLines(c, <<Line("DIE")>>) \/ SendLines(c, <<Line("QUIT")>>)
      BY <2>3, <2>4, <2>6
    <2>7. CASE /\ Goto(c, "quit") /\ cpc[c] \notin Ended
               /\ \E sent \in {<<>>, <<Line("SQL BEGIN")>>, <<Line("SQL BEGIN"), Text({c})>>} :
                     SendLines(c, sent \o <<Line("DIE")>>)
      <3>1. PICK sent \in {<<>>, <<Line("SQL BEGIN")>>, <<Line("SQL BEGIN"), Text({c})>>} :
                SendLines(c, sent \o <<Line("DIE")>>)
        BY <2>7
      <3>2. sent \in Seq(Lines) /\ TextOf(sent, {c}) /\ NoQuit(sent) /\ RunCovered(sent)
        <4>1. CASE sent = <<>>
          BY <4>1, SeqTypes DEF TextOf, NoQuit, RunCovered
        <4>2. CASE sent = <<Line("SQL BEGIN")>>
          BY <4>2, SentTypes, SentFacts DEF Commands
        <4>3. CASE sent = <<Line("SQL BEGIN"), Text({c})>>
          BY <4>3, SentTypes, SentFacts
        <4> QED
          BY <4>1, <4>2, <4>3
      <3> DEFINE die == <<Line("DIE")>>
      <3>3. die \in Seq(Lines) /\ TextOf(die, {c}) /\ LastQuit(die) /\ RunCovered(die)
        BY <2>4
      <3>0. SendLines(c, sent \o die)
        BY <3>1
      <3> HIDE DEF die
      <3>4. /\ sent \o die \in Seq(Lines) /\ TextOf(sent \o die, {c})
            /\ LastQuit(sent \o die) /\ RunCovered(sent \o die)
        BY <3>2, <3>3, LinesClosed, ConcatFacts, QuitConcat
      <3> QED
        BY <2>3, <2>7, <3>0, <3>4
    <2> QED
      BY <2>1, <2>5, <2>6, <2>7 DEF ReadInterrupted, WriteInterrupted, At, Ended
  <1> QED
    BY <1>1, <1>2, <1>3, <1>4, <1>5, <1>6, <1>7, <1>8, <1>9, <1>10, <1>11, <1>12, <1>13, <1>14
       DEF ClientStep

LEMMA OwnInvariant == Spec => []OwnInv
  <1>1. Init => OwnInv
    <2> SUFFICES ASSUME Init PROVE OwnInv
      OBVIOUS
    <2>1. TypeOK
      BY TypeInit
    <2>2. \A x : TextOf(<<>>, x)
      BY DEF TextOf
    <2>3. /\ RunCovered(<<>>) /\ NoQuit(<<>>) /\ LastQuit(<<>>)
      BY DEF RunCovered, NoQuit, LastQuit
    <2>4. WireInv /\ OwnAnswer
      BY <2>2 DEF Init, WireInv, OwnAnswer, NoAnswer
    <2>5. QuitInv /\ TextInv
      BY <2>3 DEF Init, QuitInv, QuitOK, TextInv
    <2>6. RunInv
      BY <2>3 DEF Init, RunInv
    <2> QED
      BY <2>1, <2>4, <2>5, <2>6 DEF OwnInv
  <1>2. OwnInv /\ [Next]_vars => OwnInv'
    <2> SUFFICES ASSUME OwnInv, [Next]_vars PROVE OwnInv'
      OBVIOUS
    <2>1. CASE UNCHANGED vars
      BY <2>1 DEF vars, server, client, OwnInv, TypeOK, Typed, HasClient, Freed, Interrupted,
                  WireInv, QuitInv, TextInv, RunInv, OwnAnswer, Own, Alive
    <2> QED
      BY <2>1, ServerOwn, ClientOwn DEF Next
  <1> QED
    BY <1>1, <1>2, PTL DEF Spec

\* Whoever was served before and wherever that client broke off, the text a
\* client gets comes from its own statement: receive_sql, sb_sql and request.sql
\* of connector.c, which outlive a client, never leak into another's query.
THEOREM OwnAnswerHolds == Spec => []OwnAnswer
  BY OwnInvariant, PTL DEF OwnInv

-----------------------------------------------------------------------------
(* Questions and answers stay in step.  The invariant says, for each place a  *)
(* client can be at, what is on the wire between it and the connector, as     *)
(* long as none of its own waits was interrupted.                             *)

InQueue(c) == \E i \in 1 .. Len(queue) : queue[i] = c

\* A client that the connector has not accepted.
Waiting(c) ==
    /\ down[c] = <<>>
    /\ \/ cpc[c] = "helo" /\ up[c] = <<Line("HELO")>>
       \/ cpc[c] = "quit" /\ up[c] = <<Line("DIE")>>
Apart(c) == /\ cpc[c] \in {"idle", "helo", "quit"}
            /\ cpc[c] = "helo" \/ InQueue(c) => Waiting(c)

\* The statement is on its way.
Uploading(c) ==
    \/ /\ cpc[c] = "end"
       /\ \/ ~ receive_sql /\ up[c] = <<Line("SQL BEGIN"), Text({c})>>
          \/ receive_sql /\ up[c] = <<Text({c})>>
          \/ receive_sql /\ up[c] = <<>> /\ sb_sql = {c}
    \/ /\ cpc[c] = "sql"
       /\ \/ ~ receive_sql /\ up[c] = <<Line("SQL BEGIN"), Text({c}), Line("SQL END")>>
          \/ receive_sql /\ up[c] = <<Text({c}), Line("SQL END")>>
          \/ receive_sql /\ up[c] = <<Line("SQL END")>> /\ sb_sql = {c}

\* What is left of the answer to RUN, sent or not.
Rest(c) == down[c] \o out
Results(c) ==
    /\ ~ err[c]
    /\ \/ /\ Rest(c) = <<Line("RESULTS BEGIN"), Text({c}), Line("RESULTS END"), Line("OK")>>
          /\ ~ results[c]
       \/ Rest(c) = <<Text({c}), Line("RESULTS END"), Line("OK")>> /\ results[c]
       \/ Rest(c) = <<Line("RESULTS END"), Line("OK")>> /\ answer[c].text = {c}
       \/ Rest(c) = <<Line("OK")>> /\ answer[c].text = {c}
Error(c) ==
    \/ Rest(c) = <<Line("ERROR BEGIN"), Text({}), Line("ERROR END"), Line("OK")>>
    \/ Rest(c) = <<Text({}), Line("ERROR END"), Line("OK")>> /\ err[c]
    \/ Rest(c) = <<Line("ERROR END"), Line("OK")>> /\ err[c]
    \/ Rest(c) = <<Line("OK")>> /\ err[c]

\* The connector reads, in command mode, and there is nothing to read.
AtEase(c) == srv = "serve" /\ ~ receive_sql /\ up[c] = <<>>

Receiving(c) ==
    \/ /\ ~ err[c] /\ ~ results[c] /\ down[c] = <<>>
       /\ \/ srv = "serve" /\ up[c] = <<Line("RUN")>>
          \/ srv \in {"login", "start", "query"} /\ up[c] = <<>>
    \/ srv \in {"serve", "send", "leave"} /\ up[c] = <<>> /\ (Results(c) \/ Error(c))

\* The client that the connector has accepted.
Served(c) ==
    \/ Waiting(c) /\ srv = "serve" /\ ~ receive_sql
    \/ cpc[c] = "helo" /\ AtEase(c) /\ down[c] = <<Line("PID")>>
    \/ cpc[c] \in {"options", "begin"} /\ AtEase(c) /\ down[c] = <<>>
    \/ /\ cpc[c] = "set" /\ srv = "serve" /\ ~ receive_sql /\ down[c] = <<>>
       /\ \E t \in Timeouts : up[c] = <<SetTimeout(t)>>
    \/ cpc[c] = "set" /\ AtEase(c) /\ down[c] = <<Line("OK")>>
    \/ Uploading(c) /\ srv = "serve" /\ down[c] = <<>>
    \/ cpc[c] = "sql" /\ AtEase(c) /\ sql = {c} /\ down[c] = <<Line("OK")>>
    \/ cpc[c] = "run" /\ AtEase(c) /\ sql = {c} /\ down[c] = <<>>
    \/ cpc[c] = "receive" /\ ~ receive_sql /\ sql = {c} /\ Receiving(c)
    \/ /\ cpc[c] = "quit" /\ ~ receive_sql /\ srv \in {"serve", "send", "leave"}
       /\ up[c] = <<Line("QUIT")>> /\ down[c] = <<>> /\ out = <<>>

\* Nobody waits twice.
QueueInv ==
    /\ \A i, j \in 1 .. Len(queue) : queue[i] = queue[j] => i = j
    /\ \A i \in 1 .. Len(queue) : queue[i] # s2

Unanswered == {"helo", "options", "set", "begin", "end", "sql", "run"}

\* A client that lives and was never interrupted.
Tracked(c) == cpc[c] # "dead" /\ ~ Interrupted(c)

InStep(c) ==
    Tracked(c) => /\ cpc[c] \in Unanswered => ~ err[c] /\ ~ results[c]
                  /\ IF s2 = c THEN Served(c) ELSE Apart(c)

LockInv == Alive =>
    /\ srv = "accept" => ~ receive_sql
    /\ QueueInv
    /\ \A c \in Clients : InStep(c)

\* The first of a few lines, and the others.
LEMMA OneOne ==
    ASSUME NEW S, NEW a \in S, NEW b \in S
    PROVE  <<a>> \o <<b>> = <<a, b>>
  <1> DEFINE s == <<a>> \o <<b>>
             t == <<a, b>>
  <1>1. s \in Seq(S) /\ Len(s) = 2 /\ s[1] = a /\ s[2] = b
    BY ConcatProperties
  <1>2. t \in Seq(S) /\ Len(t) = 2 /\ t[1] = a /\ t[2] = b
    OBVIOUS
  <1> HIDE DEF s, t
  <1>3. \A i \in 1 .. Len(s) : s[i] = t[i]
    <2>1. \A i \in 1 .. Len(s) : i = 1 \/ i = 2
      BY <1>1
    <2> QED
      BY <1>1, <1>2, <2>1
  <1>4. s = t
    BY <1>1, <1>2, <1>3, SeqEqual
  <1> QED
    BY <1>4 DEF s, t

LEMMA TwoOne ==
    ASSUME NEW S, NEW a \in S, NEW b \in S, NEW c \in S
    PROVE  <<a, b>> \o <<c>> = <<a, b, c>>
  <1> DEFINE s == <<a, b>> \o <<c>>
             t == <<a, b, c>>
  <1>1. s \in Seq(S) /\ Len(s) = 3 /\ s[1] = a /\ s[2] = b /\ s[3] = c
    BY ConcatProperties
  <1>2. t \in Seq(S) /\ Len(t) = 3 /\ t[1] = a /\ t[2] = b /\ t[3] = c
    OBVIOUS
  <1> HIDE DEF s, t
  <1>3. \A i \in 1 .. Len(s) : s[i] = t[i]
    <2>1. \A i \in 1 .. Len(s) : i = 1 \/ i = 2 \/ i = 3
      BY <1>1
    <2> QED
      BY <1>1, <1>2, <2>1
  <1>4. s = t
    BY <1>1, <1>2, <1>3, SeqEqual
  <1> QED
    BY <1>4 DEF s, t

LEMMA One ==
    ASSUME NEW a, NEW u, u = <<a>> PROVE Head(u) = a /\ Tail(u) = <<>> /\ u # <<>>
  OBVIOUS

LEMMA Two ==
    ASSUME NEW a, NEW b, NEW u, u = <<a, b>> PROVE Head(u) = a /\ Tail(u) = <<b>> /\ u # <<>>
  OBVIOUS

LEMMA Three ==
    ASSUME NEW a, NEW b, NEW c, NEW u, u = <<a, b, c>>
    PROVE  Head(u) = a /\ Tail(u) = <<b, c>> /\ u # <<>>
  OBVIOUS

LEMMA Four ==
    ASSUME NEW a, NEW b, NEW c, NEW d, NEW u, u = <<a, b, c, d>>
    PROVE  Head(u) = a /\ Tail(u) = <<b, c, d>> /\ u # <<>>
  OBVIOUS

LEMMA Joined ==
    /\ \A s \in Seq(Lines) : <<>> \o s = s /\ s \o <<>> = s
    /\ \A s, t \in Seq(Lines) : t # <<>> => Append(s, Head(t)) \o Tail(t) = s \o t
    /\ \A s, t \in Seq(Lines) : s # <<>> => Tail(s) \o t = Tail(s \o t)
                                            /\ Head(s \o t) = Head(s)
    /\ \A s, t \in Seq(Lines) : s \o t = <<>> => s = <<>> /\ t = <<>>
  <1>1. \A s \in Seq(Lines) : <<>> \o s = s /\ s \o <<>> = s
    OBVIOUS
  <1>2. ASSUME NEW s \in Seq(Lines), NEW t \in Seq(Lines), t # <<>>
        PROVE  Append(s, Head(t)) \o Tail(t) = s \o t
    BY <1>2
  <1>3. ASSUME NEW s \in Seq(Lines), NEW t \in Seq(Lines), s # <<>>
        PROVE  Tail(s) \o t = Tail(s \o t) /\ Head(s \o t) = Head(s)
    BY <1>3
  <1>4. ASSUME NEW s \in Seq(Lines), NEW t \in Seq(Lines), s \o t = <<>>
        PROVE  s = <<>> /\ t = <<>>
    BY <1>4
  <1> QED
    BY <1>1, <1>2, <1>3, <1>4

LEMMA Cmds ==
    /\ \A cmd : Line(cmd).cmd = cmd
    /\ \A t : SetTimeout(t).cmd = "SET"
    /\ \A x : Text(x).cmd = "TEXT" /\ Text(x).text = x
  BY DEF Line, SetTimeout, Text

\* What the connector reads next, and where its client is then.
LEMMA LineServed ==
    ASSUME NEW c \in Clients, s2 = c, Served(c), srv = "serve", up[c] # <<>>
    PROVE  /\ down[c] = <<>>
           /\ \/ /\ NextLine.cmd = "HELO" /\ cpc[c] = "helo"
                 /\ ~ receive_sql /\ Tail(up[c]) = <<>>
              \/ NextLine.cmd = "DIE" /\ ~ receive_sql
              \/ /\ NextLine.cmd = "SET" /\ cpc[c] = "set"
                 /\ ~ receive_sql /\ Tail(up[c]) = <<>>
              \/ /\ NextLine.cmd = "SQL BEGIN" /\ ~ receive_sql
                 /\ \/ cpc[c] = "end" /\ Tail(up[c]) = <<Text({c})>>
                    \/ cpc[c] = "sql" /\ Tail(up[c]) = <<Text({c}), Line("SQL END")>>
              \/ /\ NextLine.cmd = "TEXT" /\ NextLine.text = {c} /\ receive_sql
                 /\ \/ cpc[c] = "end" /\ Tail(up[c]) = <<>>
                    \/ cpc[c] = "sql" /\ Tail(up[c]) = <<Line("SQL END")>>
              \/ /\ NextLine.cmd = "SQL END" /\ cpc[c] = "sql" /\ receive_sql
                 /\ sb_sql = {c} /\ Tail(up[c]) = <<>>
              \/ /\ NextLine.cmd = "RUN" /\ cpc[c] = "receive" /\ ~ receive_sql
                 /\ sql = {c} /\ ~ err[c] /\ ~ results[c] /\ Tail(up[c]) = <<>>
              \/ /\ NextLine.cmd = "QUIT" /\ cpc[c] = "quit" /\ ~ receive_sql
                 /\ Tail(up[c]) = <<>>
  <1> DEFINE u == up[c]
             x == Text({c})
             e == Line("SQL END")
             b == Line("SQL BEGIN")
  <1>1. /\ \A l : u = <<l>> => Head(u) = l /\ Tail(u) = <<>>
        /\ u = <<b, x>> => Head(u) = b /\ Tail(u) = <<x>>
        /\ u = <<x, e>> => Head(u) = x /\ Tail(u) = <<e>>
        /\ u = <<b, x, e>> => Head(u) = b /\ Tail(u) = <<x, e>>
    <2> HIDE DEF u, x, e, b
    <2>1. \A l : u = <<l>> => Head(u) = l /\ Tail(u) = <<>>
      BY One
    <2>2. u = <<b, x>> => Head(u) = b /\ Tail(u) = <<x>>
      BY Two
    <2>3. u = <<x, e>> => Head(u) = x /\ Tail(u) = <<e>>
      BY Two
    <2>4. u = <<b, x, e>> => Head(u) = b /\ Tail(u) = <<x, e>>
      BY Three
    <2> QED
      BY <2>1, <2>2, <2>3, <2>4
  <1>2. NextLine = Head(u) /\ u # <<>>
    BY DEF NextLine
  <1>3. CASE Waiting(c) /\ ~ receive_sql
    BY <1>1, <1>2, <1>3, Cmds DEF Waiting
  <1>4. CASE cpc[c] = "set" /\ ~ receive_sql /\ down[c] = <<>>
             /\ \E t \in Timeouts : up[c] = <<SetTimeout(t)>>
    BY <1>1, <1>2, <1>4, Cmds
  <1>5. CASE Uploading(c) /\ down[c] = <<>>
    <2>1. CASE cpc[c] = "end" /\ ~ receive_sql /\ u = <<b, x>>
      BY <1>1, <1>2, <1>5, <2>1, Cmds
    <2>2. CASE cpc[c] = "end" /\ receive_sql /\ u = <<x>>
      BY <1>1, <1>2, <1>5, <2>2, Cmds
    <2>3. CASE cpc[c] = "sql" /\ ~ receive_sql /\ u = <<b, x, e>>
      BY <1>1, <1>2, <1>5, <2>3, Cmds
    <2>4. CASE cpc[c] = "sql" /\ receive_sql /\ u = <<x, e>>
      BY <1>1, <1>2, <1>5, <2>4, Cmds
    <2>5. CASE cpc[c] = "sql" /\ receive_sql /\ u = <<e>> /\ sb_sql = {c}
      BY <1>1, <1>2, <1>5, <2>5, Cmds
    <2> QED
      BY <1>2, <1>5, <2>1, <2>2, <2>3, <2>4, <2>5 DEF Uploading
  <1>6. CASE cpc[c] = "receive" /\ ~ receive_sql /\ sql = {c} /\ Receiving(c)
    BY <1>1, <1>2, <1>6, Cmds DEF Receiving
  <1>7. CASE cpc[c] = "quit" /\ ~ receive_sql /\ up[c] = <<Line("QUIT")>> /\ down[c] = <<>>
    BY <1>1, <1>2, <1>7, Cmds
  <1> QED
    BY <1>2, <1>3, <1>4, <1>5, <1>6, <1>7 DEF Served, AtEase

\* A step of the connector keeps all in step if it does so with its client.
LEMMA ServerKeepsLock ==
    ASSUME TypeOK, LockInv, Alive, NEW c \in Clients, s2 = c, UNCHANGED <<queue, client>>,
           \A d \in Clients \ {c} : up'[d] = up[d] /\ down'[d] = down[d],
           Alive' => \/ /\ s2' = c /\ srv' # "accept"
                        /\ Tracked(c) => Served(c)'
                     \/ /\ s2' = NoClient /\ ~ receive_sql'
                        /\ Tracked(c) => Apart(c)'
    PROVE  LockInv'
  <1> SUFFICES ASSUME Alive' PROVE LockInv'
    BY DEF LockInv
  <1>1. s2' = c \/ s2' = NoClient
    OBVIOUS
  <1>2. srv' = "accept" => ~ receive_sql'
    BY ConnectorAssumption
  <1>3. QueueInv'
    <2>1. \A i \in 1 .. Len(queue) : queue[i] \in Clients
      BY DEF TypeOK, Typed, HasClient
    <2> QED
      BY <1>1, <2>1, ConnectorAssumption DEF LockInv, QueueInv
  <1>4. ASSUME NEW d \in Clients PROVE InStep(d)'
    <2>1. CASE d = c
      BY <2>1, ConnectorAssumption DEF LockInv, InStep, Tracked, Interrupted, client
    <2>2. CASE d # c
      <3>1. s2' # d
        BY <1>1, <2>2, ConnectorAssumption
      <3>2. Apart(d) => Apart(d)'
        BY <2>2 DEF Apart, Waiting, InQueue, client
      <3> QED
        BY <2>2, <3>1, <3>2 DEF LockInv, InStep, Tracked, Interrupted, client
    <2> QED
      BY <2>1, <2>2
  <1> QED
    BY <1>2, <1>3, <1>4 DEF LockInv

\* So does a step of a client.
LEMMA ClientKeepsLock ==
    ASSUME TypeOK, LockInv, Alive, NEW c \in Clients, UNCHANGED <<server, queue>>,
           \A d \in Clients \ {c} :
              /\ up'[d] = up[d] /\ down'[d] = down[d] /\ cpc'[d] = cpc[d]
              /\ results'[d] = results[d] /\ err'[d] = err[d] /\ answer'[d] = answer[d]
              /\ interrupts'[d] = interrupts[d],
           InStep(c)'
    PROVE  LockInv'
  <1>1. ASSUME NEW d \in Clients \ {c} PROVE InStep(d)'
    <2>1. Apart(d) => Apart(d)'
      BY DEF Apart, Waiting, InQueue
    <2>2. s2 = d /\ Served(d) => Served(d)'
      BY DEF server, Served, Waiting, AtEase, Uploading, Receiving, Results, Error, Rest
    <2> QED
      BY <2>1, <2>2 DEF LockInv, InStep, Tracked, Interrupted, server
  <1>2. QueueInv'
    BY DEF LockInv, QueueInv, server
  <1> QED
    BY <1>1, <1>2 DEF LockInv, server, Alive

LEMMA LockStutter ==
    ASSUME LockInv,
           UNCHANGED <<srv, s2, receive_sql, sb_sql, sql, out, queue, up, down, client>>
    PROVE  LockInv'
  <1>1. \A c \in Clients : Apart(c) => Apart(c)'
    BY DEF client, Apart, Waiting, InQueue
  <1>2. \A c \in Clients : Served(c) => Served(c)'
    BY DEF client, Served, Waiting, AtEase, Uploading, Receiving, Results, Error, Rest
  <1>3. ASSUME Alive PROVE \A c \in Clients : InStep(c)'
    BY <1>1, <1>2, <1>3 DEF client, LockInv, InStep, Tracked, Interrupted
  <1>4. ASSUME Alive PROVE QueueInv'
    BY <1>4 DEF LockInv, QueueInv
  <1> QED
    BY <1>3, <1>4 DEF LockInv, Alive

\* The connector accepts the first client of the queue.
LEMMA AcceptKeepsLock ==
    ASSUME OwnInv, LockInv, Accept
    PROVE  LockInv'
  <1>1. /\ s2 = NoClient /\ ~ receive_sql /\ QueueInv /\ \A d \in Clients : InStep(d)
        /\ queue # <<>> /\ queue' = Tail(queue) /\ queue \in Seq(Clients)
    BY DEF Accept, OwnInv, TypeOK, Typed, HasClient, TextInv, LockInv, Alive
  <1>0. PICK c \in Clients : c = Head(queue)
    BY <1>1, QueueClosed
  <1>2. /\ Len(queue) \in Nat /\ 1 \in 1 .. Len(queue) /\ queue[1] = c
        /\ \A i \in 1 .. Len(queue') : i + 1 \in 1 .. Len(queue) /\ queue'[i] = queue[i + 1]
    BY <1>0, <1>1, HeadTailProperties, EmptySeq, LenProperties
  <1>3. /\ s2' = c /\ srv' = "serve" /\ receive_sql' = receive_sql /\ up' = up /\ down' = down
        /\ cpc' = cpc /\ err' = err /\ results' = results /\ answer' = answer
        /\ interrupts' = interrupts
    BY <1>0 DEF Accept, client
  <1>4. QueueInv'
    <2>1. ASSUME NEW i \in 1 .. Len(queue'), NEW j \in 1 .. Len(queue'),
                 queue'[i] = queue'[j]
          PROVE  i = j
      <3>1. i + 1 = j + 1
        BY <1>1, <1>2, <2>1 DEF QueueInv
      <3> QED
        BY <3>1
    <2>2. ASSUME NEW i \in 1 .. Len(queue') PROVE queue'[i] # c
      BY <1>1, <1>2 DEF QueueInv
    <2> QED
      BY <1>3, <2>1, <2>2 DEF QueueInv
  <1>5. ASSUME NEW d \in Clients PROVE InStep(d)'
    <2>1. s2 # d
      BY <1>1, ConnectorAssumption
    <2>2. CASE d = c
      <3>1. InQueue(c)
        BY <1>2 DEF InQueue
      <3>2. Tracked(c) => Waiting(c)
        BY <1>1, <2>1, <2>2, <3>1 DEF InStep, Apart
      <3>3. Waiting(c) => Waiting(c)'
        BY <1>2, <1>3 DEF Waiting
      <3>4. Tracked(c)' => Served(c)'
        BY <1>1, <1>3, <3>2, <3>3 DEF Served, Tracked, Interrupted
      <3>5. Tracked(c)' => Tracked(c)
        BY <1>3 DEF Tracked, Interrupted
      <3>6. Tracked(c) => (cpc'[c] \in Unanswered => ~ err'[c] /\ ~ results'[c])
        BY <1>1, <1>2, <1>3 DEF InStep
      <3> QED
        BY <1>3, <2>2, <3>4, <3>5, <3>6 DEF InStep
    <2>3. CASE d # c
      <3>1. InQueue(d)' => InQueue(d)
        BY <1>2 DEF InQueue
      <3>2. Apart(d) => Apart(d)'
        BY <1>3, <3>1 DEF Apart, Waiting, client
      <3> QED
        BY <1>1, <1>3, <2>1, <2>3, <3>2 DEF InStep, Tracked, Interrupted, client
    <2> QED
      BY <2>2, <2>3
  <1> QED
    BY <1>3, <1>4, <1>5 DEF LockInv

\* A reply to a client that has not closed its socket.
LEMMA ReplyReaches ==
    ASSUME TypeOK, NEW c \in Clients, s2 = c, NEW cmd, ReplyWith(cmd)
    PROVE  /\ ~ Closed(c) => down'[c] = Append(down[c], Line(cmd))
           /\ \A d \in Clients \ {c} : down'[d] = down[d]
  <1>1. CASE Closed(c)
    BY <1>1 DEF ReplyWith
  <1>2. CASE ~ Closed(c)
    BY <1>2 DEF ReplyWith, TypeOK, Typed
  <1> QED
    BY <1>1, <1>2

\* The connector takes a line of its client, answered or not.
LEMMA ReadKeepsLock ==
    ASSUME OwnInv, LockInv, ServerStep, srv = "serve"
    PROVE  LockInv'
  <1> PICK c \in Clients : s2 = c
    BY DEF OwnInv, TypeOK, HasClient
  <1>1. /\ TypeOK /\ Alive /\ QueueInv /\ InStep(c)
        /\ receive_sql => sb_sql \subseteq {c}
        /\ Tracked(c) => ~ Closed(c)
    BY DEF OwnInv, LockInv, Alive, TextInv, Own, TypeOK, Freed, Tracked, Closed
  <1>2. /\ \A l : up' = [up EXCEPT ![c] = l] =>
              up'[c] = l /\ \A d \in Clients \ {c} : up'[d] = up[d]
        /\ \A l : down' = [down EXCEPT ![c] = l] =>
              down'[c] = l /\ \A d \in Clients \ {c} : down'[d] = down[d]
    BY <1>1 DEF TypeOK, Typed, HasClient
  <1>3. \A cmd : Append(<<>>, Line(cmd)) = <<Line(cmd)>>
    OBVIOUS
  <1>4. CASE Helo
    <2>1. /\ UNCHANGED <<queue, client>> /\ UNCHANGED server /\ up'[c] = Tail(up[c])
          /\ \A d \in Clients \ {c} : up'[d] = up[d] /\ down'[d] = down[d]
          /\ Tracked(c) => down'[c] = Append(down[c], Line("PID"))
          /\ NextLine.cmd = "HELO" /\ up[c] # <<>>
      BY <1>1, <1>2, <1>4, ReplyReaches DEF Helo, Receive
    <2>2. Tracked(c) => Served(c)'
      BY <1>1, <1>3, <2>1, LineServed DEF InStep, Served, AtEase, client, server
    <2> QED
      BY <1>1, <2>1, <2>2, ServerKeepsLock DEF server
  <1>5. CASE SetOption
    <2>1. /\ UNCHANGED <<queue, client>> /\ UNCHANGED <<srv, s2, receive_sql>>
          /\ up'[c] = Tail(up[c])
          /\ \A d \in Clients \ {c} : up'[d] = up[d] /\ down'[d] = down[d]
          /\ Tracked(c) => down'[c] = Append(down[c], Line("OK"))
          /\ NextLine.cmd = "SET" /\ up[c] # <<>>
      BY <1>1, <1>2, <1>5, ReplyReaches DEF SetOption, Receive
    <2>2. Tracked(c) => Served(c)'
      BY <1>1, <1>3, <2>1, LineServed DEF InStep, Served, AtEase, client
    <2> QED
      BY <1>1, <2>1, <2>2, ServerKeepsLock
  <1>6. CASE SqlBegin
    <2>1. /\ UNCHANGED <<queue, client>> /\ UNCHANGED <<srv, s2, down>> /\ receive_sql'
          /\ up'[c] = Tail(up[c])
          /\ \A d \in Clients \ {c} : up'[d] = up[d]
          /\ NextLine.cmd = "SQL BEGIN" /\ up[c] # <<>>
      BY <1>2, <1>6 DEF SqlBegin, Receive
    <2>2. Tracked(c) => Served(c)'
      BY <1>1, <2>1, LineServed DEF InStep, Served, Uploading, client
    <2> QED
      BY <1>1, <2>1, <2>2, ServerKeepsLock
  <1>7. CASE SqlText
    <2>1. /\ UNCHANGED <<queue, client>> /\ UNCHANGED <<srv, s2, receive_sql, down>>
          /\ up'[c] = Tail(up[c]) /\ sb_sql' = sb_sql \cup NextLine.text
          /\ \A d \in Clients \ {c} : up'[d] = up[d]
          /\ NextLine.cmd # "SQL END" /\ receive_sql /\ up[c] # <<>>
      BY <1>2, <1>7 DEF SqlText
    <2>2. Tracked(c) => Served(c)'
      <3> SUFFICES ASSUME Tracked(c) PROVE Served(c)'
        OBVIOUS
      <3>1. /\ down[c] = <<>> /\ NextLine.text = {c}
            /\ \/ cpc[c] = "end" /\ Tail(up[c]) = <<>>
               \/ cpc[c] = "sql" /\ Tail(up[c]) = <<Line("SQL END")>>
        BY <1>1, <2>1, LineServed DEF InStep
      <3>2. sb_sql' = {c}
        BY <1>1, <2>1, <3>1
      <3> QED
        BY <2>1, <3>1, <3>2 DEF Served, Uploading, client
    <2> QED
      BY <1>1, <2>1, <2>2, ServerKeepsLock
  <1>8. CASE SqlEnd
    <2>1. /\ UNCHANGED <<queue, client>> /\ UNCHANGED <<srv, s2>> /\ ~ receive_sql'
          /\ sql' = sb_sql /\ up'[c] = Tail(up[c])
          /\ \A d \in Clients \ {c} : up'[d] = up[d] /\ down'[d] = down[d]
          /\ Tracked(c) => down'[c] = Append(down[c], Line("OK"))
          /\ NextLine.cmd = "SQL END" /\ up[c] # <<>>
      BY <1>1, <1>2, <1>8, ReplyReaches DEF SqlEnd, Receive
    <2>2. Tracked(c) => Served(c)'
      BY <1>1, <1>3, <2>1, LineServed DEF InStep, Served, AtEase, client
    <2> QED
      BY <1>1, <2>1, <2>2, ServerKeepsLock
  <1>9. CASE Run
    <2>1. /\ UNCHANGED <<queue, client>> /\ UNCHANGED <<s2, receive_sql, sql, down>>
          /\ srv' \in {"start", "login"} /\ up'[c] = Tail(up[c])
          /\ \A d \in Clients \ {c} : up'[d] = up[d]
          /\ NextLine.cmd = "RUN" /\ up[c] # <<>>
      BY <1>2, <1>9 DEF Run, Receive
    <2>2. Tracked(c) => Served(c)'
      BY <1>1, <2>1, LineServed DEF InStep, Served, Receiving, client
    <2> QED
      BY <1>1, <2>1, <2>2, ServerKeepsLock
  <1>10. CASE Quit /\ Alive'
    <2>1. /\ UNCHANGED <<queue, client>> /\ s2' = NoClient /\ ~ receive_sql'
          /\ \A d \in Clients \ {c} : up'[d] = up[d] /\ down'[d] = down[d]
          /\ NextLine.cmd = "QUIT" /\ up[c] # <<>>
      BY <1>2, <1>10 DEF Quit, Forget, Gone, Receive, ReplyWith, Alive
    <2>2. Tracked(c) => Apart(c)'
      <3>1. Tracked(c) => cpc[c] = "quit"
        BY <1>1, <2>1, LineServed DEF InStep
      <3>2. ~ InQueue(c)'
        BY <1>1, <2>1 DEF QueueInv, InQueue
      <3> QED
        BY <2>1, <3>1, <3>2 DEF Apart, client
    <2> QED
      BY <1>1, <2>1, <2>2, ServerKeepsLock
  <1>11. CASE Broken /\ Alive'
    <2>1. /\ UNCHANGED <<queue, client>> /\ s2' = NoClient /\ ~ receive_sql'
          /\ UNCHANGED <<up, down>> /\ Closed(c)
      BY <1>11 DEF Broken, Forget, Gone, Alive
    <2> QED
      BY <1>1, <2>1, ServerKeepsLock
  <1>12. CASE ~ Alive'
    BY <1>12 DEF LockInv
  <1>13. CASE Die \/ Alarm
    BY <1>12, <1>13 DEF Die, Alarm, Gone, Alive
  <1> QED
    BY <1>4, <1>5, <1>6, <1>7, <1>8, <1>9, <1>10, <1>11, <1>12, <1>13
       DEF ServerStep, Accept, Login, StartQuery, EndQuery, SendLine, Sent

\* The connector logs in, queries, and sends what came of it.
LEMMA AnswerKeepsLock ==
    ASSUME OwnInv, LockInv, ServerStep, srv \notin {"accept", "serve"}
    PROVE  LockInv'
  <1>0. CASE ~ Alive
    BY <1>0 DEF Alive, ServerStep, Accept, Helo, SetOption, SqlBegin, SqlText, SqlEnd, Run,
                Receive, Login, StartQuery, EndQuery, SendLine, Sent, Quit, Broken, Die,
                Alarm, LockInv
  <1> SUFFICES ASSUME Alive PROVE LockInv'
    BY <1>0
  <1> PICK c \in Clients : s2 = c
    BY DEF OwnInv, TypeOK, HasClient, Alive
  <1>1. /\ TypeOK /\ InStep(c)
        /\ down \in [Clients -> Seq(Lines)] /\ down[c] \in Seq(Lines)
        /\ out \in Seq(Lines) /\ (Tracked(c) => ~ Closed(c))
    BY DEF OwnInv, TypeOK, Typed, HasClient, Freed, Tracked, Closed, LockInv
  <1>2. CASE Login
    <2>1. /\ UNCHANGED <<queue, client>> /\ UNCHANGED <<s2, receive_sql, sql, up, down>>
          /\ \/ srv' = "start"
             \/ /\ srv' = "leave"
                /\ out' = <<Line("ERROR BEGIN"), Text({}), Line("ERROR END"), Line("OK")>>
          /\ srv = "login"
      BY <1>2 DEF Login
    <2>2. Tracked(c) => Served(c)'
      <3> SUFFICES ASSUME Tracked(c) PROVE Served(c)'
        OBVIOUS
      <3>1. /\ cpc[c] = "receive" /\ ~ receive_sql /\ sql = {c} /\ ~ err[c] /\ ~ results[c]
            /\ down[c] = <<>> /\ up[c] = <<>>
        BY <1>1, <2>1 DEF InStep, Served, AtEase, Receiving
      <3>2. CASE srv' = "start"
        BY <2>1, <3>1, <3>2 DEF Served, Receiving, client
      <3>3. CASE srv' = "leave"
        <4>1. out' \in Seq(Lines)
          BY <2>1, <3>3, SentTypes
        <4>2. Rest(c)' = out'
          BY <2>1, <3>1, <4>1, Joined DEF Rest
        <4>3. Error(c)'
          BY <2>1, <3>3, <4>2 DEF Error
        <4> QED
          BY <2>1, <3>1, <3>3, <4>3 DEF Served, Receiving, client
      <3> QED
        BY <2>1, <3>2, <3>3
    <2> QED
      BY <1>1, <2>1, <2>2, ServerKeepsLock
  <1>3. CASE StartQuery
    <2>1. /\ UNCHANGED <<queue, client>> /\ UNCHANGED <<s2, receive_sql, sql, up, down>>
          /\ srv' = "query" /\ srv = "start"
      BY <1>3 DEF StartQuery
    <2>2. Tracked(c) => Served(c)'
      BY <1>1, <2>1 DEF InStep, Served, AtEase, Receiving, client
    <2> QED
      BY <1>1, <2>1, <2>2, ServerKeepsLock
  <1>4. CASE EndQuery
    <2> DEFINE good == <<Line("RESULTS BEGIN"), Text(sql), Line("RESULTS END"), Line("OK")>>
               bad == <<Line("ERROR BEGIN"), Text({}), Line("ERROR END"), Line("OK")>>
    <2>1. /\ UNCHANGED <<queue, client>> /\ UNCHANGED <<s2, receive_sql, sql, up, down>>
          /\ srv' = "send" /\ srv = "query" /\ (out' = good \/ out' = bad)
      BY <1>4 DEF EndQuery
    <2>2. Tracked(c) => Served(c)'
      <3> SUFFICES ASSUME Tracked(c) PROVE Served(c)'
        OBVIOUS
      <3>1. /\ cpc[c] = "receive" /\ ~ receive_sql /\ sql = {c} /\ ~ err[c] /\ ~ results[c]
            /\ down[c] = <<>> /\ up[c] = <<>>
        BY <1>1, <2>1 DEF InStep, Served, AtEase, Receiving
      <3>2. good \in Seq(Lines) /\ bad \in Seq(Lines)
        BY <3>1, SentTypes
      <3>3. Rest(c)' = out'
        BY <2>1, <3>1, <3>2, Joined DEF Rest
      <3>4. Results(c)' \/ Error(c)'
        BY <2>1, <3>1, <3>3 DEF Results, Error, client
      <3> QED
        BY <2>1, <3>1, <3>4 DEF Served, Receiving, client
    <2> QED
      BY <1>1, <2>1, <2>2, ServerKeepsLock
  <1>5. CASE SendLine
    <2>1. /\ UNCHANGED <<queue, client>> /\ UNCHANGED <<srv, s2, receive_sql, sql, up>>
          /\ out # <<>> /\ out' = Tail(out) /\ srv \in {"send", "leave"}
          /\ Tracked(c) => down'[c] = Append(down[c], Head(out))
          /\ \A d \in Clients \ {c} : down'[d] = down[d]
      BY <1>1, <1>5 DEF SendLine
    <2>2. Tracked(c) => Served(c)'
      <3> SUFFICES ASSUME Tracked(c) PROVE Served(c)'
        OBVIOUS
      <3>1. /\ cpc[c] = "receive" /\ ~ receive_sql /\ sql = {c} /\ up[c] = <<>>
            /\ Results(c) \/ Error(c)
        BY <1>1, <2>1 DEF InStep, Served, Waiting, AtEase, Receiving
      <3>2. Rest(c)' = Rest(c)
        <4>1. Append(down[c], Head(out)) \o Tail(out) = down[c] \o out
          BY <1>1, <2>1, Joined
        <4>2. down'[c] = Append(down[c], Head(out)) /\ out' = Tail(out)
          BY <2>1
        <4> QED
          BY <4>1, <4>2 DEF Rest
      <3>3. Results(c)' \/ Error(c)'
        BY <2>1, <3>1, <3>2 DEF Results, Error, client
      <3> QED
        BY <2>1, <3>1, <3>3 DEF Served, Receiving, client
    <2> QED
      BY <1>1, <2>1, <2>2, ServerKeepsLock
  <1>6. CASE Sent /\ srv = "send"
    <2>1. /\ UNCHANGED <<queue, client>> /\ UNCHANGED <<s2, receive_sql, sql, out, up, down>>
          /\ srv' = "serve" /\ srv = "send"
      BY <1>6 DEF Sent
    <2>2. Tracked(c) => Served(c)'
      <3> SUFFICES ASSUME Tracked(c) PROVE Served(c)'
        OBVIOUS
      <3>1. Receiving(c) => Receiving(c)'
        BY <2>1 DEF Receiving, Results, Error, Rest, client
      <3>2. \/ cpc[c] = "receive" /\ ~ receive_sql /\ sql = {c} /\ Receiving(c)
            \/ /\ cpc[c] = "quit" /\ ~ receive_sql
               /\ up[c] = <<Line("QUIT")>> /\ down[c] = <<>> /\ out = <<>>
        BY <1>1, <2>1 DEF InStep, Served, AtEase
      <3> QED
        BY <2>1, <3>1, <3>2 DEF Served, client
    <2> QED
      BY <1>1, <2>1, <2>2, ServerKeepsLock
  <1>7. CASE Alarm \/ (Sent /\ srv = "leave")
    BY <1>7 DEF Alarm, Sent, Gone, LockInv, Alive
  <1> QED
    BY <1>2, <1>3, <1>4, <1>5, <1>6, <1>7
       DEF ServerStep, Accept, Helo, SetOption, SqlBegin, SqlText, SqlEnd, Run,
           Receive, Sent, Quit, Broken, Die

LEMMA ServerLock ==
    ASSUME OwnInv, LockInv, ServerStep \/ Killed \/ Tick
    PROVE  LockInv'
  <1>1. CASE ServerStep /\ srv = "accept"
    <2>1. Accept \/ Alarm
      BY <1>1 DEF ServerStep, Helo, SetOption, SqlBegin, SqlText, SqlEnd, Run, Receive,
                  Login, StartQuery, EndQuery, SendLine, Sent, Quit, Broken, Die
    <2> QED
      BY <2>1, AcceptKeepsLock DEF Alarm, Gone, LockInv, Alive
  <1>2. CASE ServerStep /\ srv = "serve"
    BY <1>2, ReadKeepsLock
  <1>3. CASE ServerStep /\ srv \notin {"accept", "serve"}
    BY <1>3, AnswerKeepsLock
  <1>4. CASE Killed
    BY <1>4 DEF Killed, Gone, LockInv, Alive
  <1>5. CASE Tick
    BY <1>5, LockStutter DEF Tick
  <1> QED
    BY <1>1, <1>2, <1>3, <1>4, <1>5

\* A client connects: it is the last of the queue.
LEMMA ConnectKeepsLock ==
    ASSUME OwnInv, LockInv, Alive, NEW c \in Clients, Connect(c)
    PROVE  LockInv'
  <1>1. /\ TypeOK /\ QueueInv /\ queue \in Seq(Clients) /\ cpc[c] = "idle"
        /\ Tracked(c) /\ \A d \in Clients : InStep(d)
    BY DEF OwnInv, TypeOK, Typed, HasClient, Freed, Tracked, LockInv, Connect, At
  <1>2. s2 # c /\ ~ InQueue(c)
    BY <1>1 DEF InStep, Served, Waiting, Uploading, Apart
  <1>3. /\ UNCHANGED server
        /\ \A d \in Clients \ {c} :
              /\ up'[d] = up[d] /\ down'[d] = down[d] /\ cpc'[d] = cpc[d]
              /\ results'[d] = results[d] /\ err'[d] = err[d] /\ answer'[d] = answer[d]
        /\ interrupts' = interrupts
        /\ down'[c] = <<>> /\ ~ results'[c] /\ ~ err'[c]
        /\ \/ cpc'[c] = "helo" /\ up'[c] = <<Line("HELO")>>
           \/ cpc'[c] = "quit" /\ up'[c] = <<Line("DIE")>>
    BY <1>1 DEF Connect, Goto, TypeOK, Typed, HasClient
  <1>4. /\ Len(queue) \in Nat /\ Len(queue') = Len(queue) + 1
        /\ \A i \in 1 .. Len(queue) : queue'[i] = queue[i]
        /\ queue'[Len(queue) + 1] = c
    BY <1>1, AppendProperties, LenProperties DEF Connect
  <1>5. \A i \in 1 .. Len(queue') : i \in 1 .. Len(queue) \/ i = Len(queue) + 1
    BY <1>4
  <1>6. \A i \in 1 .. Len(queue) : queue'[i] # c
    BY <1>2, <1>4 DEF InQueue
  <1>7. QueueInv'
    <2>1. ASSUME NEW i \in 1 .. Len(queue'), NEW j \in 1 .. Len(queue'),
                 queue'[i] = queue'[j]
          PROVE  i = j
      <3>1. CASE i \in 1 .. Len(queue) /\ j \in 1 .. Len(queue)
        BY <1>1, <1>4, <2>1, <3>1 DEF QueueInv
      <3> QED
        BY <1>4, <1>5, <1>6, <2>1, <3>1
    <2>2. ASSUME NEW i \in 1 .. Len(queue') PROVE queue'[i] # s2
      BY <1>1, <1>2, <1>4, <1>5, <2>2 DEF QueueInv
    <2> QED
      BY <1>3, <2>1, <2>2 DEF QueueInv, server
  <1>8. InStep(c)'
    BY <1>2, <1>3 DEF InStep, Apart, Waiting, server
  <1>9. ASSUME NEW d \in Clients \ {c} PROVE InStep(d)'
    <2>1. InQueue(d)' => InQueue(d)
      BY <1>4, <1>5 DEF InQueue
    <2>2. Apart(d) => Apart(d)'
      BY <1>3, <2>1 DEF Apart, Waiting
    <2>3. s2 = d /\ Served(d) => Served(d)'
      BY <1>3 DEF server, Served, Waiting, AtEase, Uploading, Receiving, Results, Error, Rest
    <2> QED
      BY <1>1, <1>3, <2>2, <2>3 DEF InStep, Tracked, Interrupted, server
  <1> QED
    BY <1>1, <1>3, <1>7, <1>8, <1>9 DEF LockInv, server

\* A client in receive has a line before it: one of the answer to RUN.
LEMMA LineReceived ==
    ASSUME OwnInv, LockInv, Alive, NEW c \in Clients, ~ Interrupted(c),
           cpc[c] = "receive", down[c] # <<>>
    PROVE  /\ s2 = c /\ ~ receive_sql /\ sql = {c} /\ up[c] = <<>>
           /\ srv \in {"serve", "send", "leave"} /\ (Results(c) \/ Error(c))
           /\ down[c] \in Seq(Lines) /\ out \in Seq(Lines) /\ TypeOK
           /\ Rest(c) # <<>> /\ Head(down[c]) = Head(Rest(c))
           /\ Tail(down[c]) \o out = Tail(Rest(c))
  <1>1. InStep(c) /\ down[c] \in Seq(Lines) /\ out \in Seq(Lines) /\ TypeOK
    BY DEF OwnInv, TypeOK, Typed, HasClient, LockInv
  <1>2. /\ s2 = c /\ ~ receive_sql /\ sql = {c} /\ up[c] = <<>>
        /\ srv \in {"serve", "send", "leave"} /\ (Results(c) \/ Error(c))
    BY <1>1 DEF InStep, Tracked, Apart, Served, Waiting, Uploading, Receiving
  <1>3. /\ Rest(c) # <<>> /\ Head(down[c]) = Head(Rest(c))
        /\ Tail(down[c]) \o out = Tail(Rest(c))
    BY <1>1, Joined DEF Rest
  <1> QED
    BY <1>1, <1>2, <1>3

LEMMA LineKeepsLock ==
    ASSUME OwnInv, LockInv, Alive, NEW c \in Clients, ~ Interrupted(c), ReceiveLine(c)
    PROVE  LockInv'
  <1> DEFINE rb == Line("RESULTS BEGIN")
             re == Line("RESULTS END")
             eb == Line("ERROR BEGIN")
             ee == Line("ERROR END")
             ok == Line("OK")
             x == Text({c})
             n == Text({})
  <1>1. cpc[c] = "receive" /\ down[c] # <<>>
    BY DEF ReceiveLine, At
  <1>2. /\ s2 = c /\ ~ receive_sql /\ sql = {c} /\ up[c] = <<>>
        /\ srv \in {"serve", "send", "leave"} /\ (Results(c) \/ Error(c)) /\ TypeOK
        /\ Head(down[c]) = Head(Rest(c)) /\ Tail(down[c]) \o out = Tail(Rest(c))
    BY <1>1, LineReceived
  <1> DEFINE cmd == Head(Rest(c)).cmd
             text == Head(Rest(c)).text
  <1>3. /\ UNCHANGED <<server, queue>> /\ UNCHANGED <<up, cpc>>
        /\ \A d \in Clients \ {c} :
              /\ down'[d] = down[d] /\ results'[d] = results[d] /\ err'[d] = err[d]
              /\ answer'[d] = answer[d]
        /\ interrupts' = interrupts
        /\ down'[c] = Tail(down[c]) /\ cmd \notin {"BYE", "OK"}
        /\ cmd = "RESULTS BEGIN" => results'[c]
        /\ cmd = "TEXT" => results'[c] = results[c]
        /\ err'[c] <=> err[c] \/ cmd = "ERROR BEGIN"
    BY <1>2 DEF ReceiveLine, TypeOK, Typed, HasClient
  <1>4. answer'[c].text = IF results[c] THEN answer[c].text \cup text ELSE answer[c].text
    <2> DEFINE y == IF results[c] THEN answer[c].text \cup text ELSE answer[c].text
    <2>1. answer' = [answer EXCEPT ![c] = [answer[c] EXCEPT !.text = y]]
      BY <1>2 DEF ReceiveLine
    <2>2. answer[c] \in Answers /\ answer'[c] = [answer[c] EXCEPT !.text = y]
      BY <1>2, <2>1 DEF TypeOK, Typed, HasClient
    <2> HIDE DEF y
    <2>3. answer'[c].text = y
      BY <2>2 DEF Answers
    <2> QED
      BY <2>3 DEF y
  <1>5. answer[c].text \subseteq {c}
    BY DEF OwnInv, OwnAnswer
  <1>6. Rest(c)' = Tail(Rest(c))
    BY <1>2, <1>3 DEF Rest, server
  <1>7. /\ rb.cmd = "RESULTS BEGIN" /\ re.cmd = "RESULTS END" /\ eb.cmd = "ERROR BEGIN"
        /\ ee.cmd = "ERROR END" /\ ok.cmd = "OK" /\ x.cmd = "TEXT" /\ n.cmd = "TEXT"
        /\ x.text = {c} /\ n.text = {} /\ re.text = {}
    BY DEF Line, Text
  <1> DEFINE r == Rest(c)
  <1>8. /\ r = <<rb, x, re, ok>> => Head(r) = rb /\ Tail(r) = <<x, re, ok>>
        /\ r = <<x, re, ok>> => Head(r) = x /\ Tail(r) = <<re, ok>>
        /\ r = <<re, ok>> => Head(r) = re /\ Tail(r) = <<ok>>
        /\ r = <<eb, n, ee, ok>> => Head(r) = eb /\ Tail(r) = <<n, ee, ok>>
        /\ r = <<n, ee, ok>> => Head(r) = n /\ Tail(r) = <<ee, ok>>
        /\ r = <<ee, ok>> => Head(r) = ee /\ Tail(r) = <<ok>>
        /\ r = <<ok>> => Head(r) = ok
    <2> HIDE DEF r, rb, re, eb, ee, ok, x, n
    <2>1. r = <<rb, x, re, ok>> => Head(r) = rb /\ Tail(r) = <<x, re, ok>>
      BY Four
    <2>2. r = <<x, re, ok>> => Head(r) = x /\ Tail(r) = <<re, ok>>
      BY Three
    <2>3. r = <<re, ok>> => Head(r) = re /\ Tail(r) = <<ok>>
      BY Two
    <2>4. r = <<eb, n, ee, ok>> => Head(r) = eb /\ Tail(r) = <<n, ee, ok>>
      BY Four
    <2>5. r = <<n, ee, ok>> => Head(r) = n /\ Tail(r) = <<ee, ok>>
      BY Three
    <2>6. r = <<ee, ok>> => Head(r) = ee /\ Tail(r) = <<ok>>
      BY Two
    <2>7. r = <<ok>> => Head(r) = ok
      BY One
    <2> QED
      BY <2>1, <2>2, <2>3, <2>4, <2>5, <2>6, <2>7
  <1>9. Results(c)' \/ Error(c)'
    <2>1. CASE Results(c)
      <3>1. CASE r = <<rb, x, re, ok>>
        BY <1>3, <1>6, <1>7, <1>8, <2>1, <3>1 DEF Results
      <3>2. CASE r = <<x, re, ok>> /\ results[c]
        <4>1. answer'[c].text = {c}
          BY <1>4, <1>5, <1>7, <1>8, <3>2
        <4> QED
          BY <1>3, <1>6, <1>7, <1>8, <2>1, <3>2, <4>1 DEF Results
      <3>3. CASE r = <<re, ok>> /\ answer[c].text = {c}
        <4>1. answer'[c].text = {c}
          BY <1>4, <1>7, <1>8, <3>3
        <4> QED
          BY <1>3, <1>6, <1>7, <1>8, <2>1, <3>3, <4>1 DEF Results
      <3>4. r # <<ok>>
        BY <1>3, <1>7, <1>8
      <3> QED
        BY <2>1, <3>1, <3>2, <3>3, <3>4 DEF Results
    <2>2. CASE Error(c)
      <3>1. CASE r = <<eb, n, ee, ok>>
        BY <1>3, <1>6, <1>7, <1>8, <3>1 DEF Error
      <3>2. CASE r = <<n, ee, ok>> /\ err[c]
        BY <1>3, <1>6, <1>8, <3>2 DEF Error
      <3>3. CASE r = <<ee, ok>> /\ err[c]
        BY <1>3, <1>6, <1>8, <3>3 DEF Error
      <3>4. r # <<ok>>
        BY <1>3, <1>7, <1>8
      <3> QED
        BY <2>2, <3>1, <3>2, <3>3, <3>4 DEF Error
    <2> QED
      BY <1>2, <2>1, <2>2
  <1>10. InStep(c)'
    BY <1>1, <1>2, <1>3, <1>9 DEF InStep, Unanswered, Served, Receiving, server
  <1> QED
    BY <1>2, <1>3, <1>10, ClientKeepsLock

\* OK is the last line of the answer.
LEMMA LastReceived ==
    ASSUME OwnInv, LockInv, Alive, NEW c \in Clients, ~ Interrupted(c),
           cpc[c] = "receive", down[c] # <<>>, Head(down[c]).cmd \in {"BYE", "OK"}
    PROVE  /\ Tail(down[c]) = <<>> /\ out = <<>>
           /\ err[c] \/ answer[c].text = {c}
  <1> DEFINE r == Rest(c)
             ok == Line("OK")
  <1>1. /\ Results(c) \/ Error(c)
        /\ down[c] \in Seq(Lines) /\ out \in Seq(Lines)
        /\ Head(r).cmd \in {"BYE", "OK"} /\ Tail(down[c]) \o out = Tail(r)
    BY LineReceived
  <1>2. /\ \A l, m : r = <<l, m>> => Head(r) = l
        /\ \A l, m, n : r = <<l, m, n>> => Head(r) = l
        /\ \A l, m, n, o : r = <<l, m, n, o>> => Head(r) = l
        /\ r = <<ok>> => Tail(r) = <<>>
    <2> HIDE DEF r, ok
    <2>1. r = <<ok>> => Tail(r) = <<>>
      BY One
    <2>2. \A l, m : r = <<l, m>> => Head(r) = l
      BY Two
    <2>3. \A l, m, n : r = <<l, m, n>> => Head(r) = l
      BY Three
    <2>4. \A l, m, n, o : r = <<l, m, n, o>> => Head(r) = l
      BY Four
    <2> QED
      BY <2>1, <2>2, <2>3, <2>4
  <1>3. /\ Line("RESULTS BEGIN").cmd = "RESULTS BEGIN" /\ Text({c}).cmd = "TEXT"
        /\ Line("RESULTS END").cmd = "RESULTS END" /\ Text({}).cmd = "TEXT"
        /\ Line("ERROR BEGIN").cmd = "ERROR BEGIN" /\ Line("ERROR END").cmd = "ERROR END"
    BY Cmds
  <1>4. r = <<ok>> /\ (err[c] \/ answer[c].text = {c})
    <2>1. CASE Results(c)
      BY <1>1, <1>2, <1>3, <2>1 DEF Results
    <2>2. CASE Error(c)
      BY <1>1, <1>2, <1>3, <2>2 DEF Error
    <2> QED
      BY <1>1, <2>1, <2>2
  <1>5. Tail(down[c]) \in Seq(Lines) /\ Tail(down[c]) \o out = <<>>
    BY <1>1, <1>2, <1>4, LinesClosed
  <1> QED
    BY <1>1, <1>4, <1>5, Joined

LEMMA LastKeepsLock ==
    ASSUME OwnInv, LockInv, Alive, NEW c \in Clients, ~ Interrupted(c), ReceiveLast(c)
    PROVE  LockInv'
  <1>1. /\ cpc[c] = "receive" /\ down[c] # <<>> /\ Head(down[c]).cmd \in {"BYE", "OK"}
    BY DEF ReceiveLast, At
  <1>2. /\ s2 = c /\ ~ receive_sql /\ up[c] = <<>> /\ TypeOK
        /\ srv \in {"serve", "send", "leave"} /\ Tail(down[c]) = <<>> /\ out = <<>>
    BY <1>1, LineReceived, LastReceived
  <1>0. PICK rest \in {Tail(down[c]), <<>>} : down' = [down EXCEPT ![c] = rest]
    BY DEF ReceiveLast
  <1>3. /\ UNCHANGED <<server, queue>> /\ UNCHANGED <<results, err, interrupts>>
        /\ cpc'[c] = "quit" /\ down'[c] = <<>> /\ up'[c] = up[c] \o <<Line("QUIT")>>
        /\ \A d \in Clients \ {c} :
              /\ up'[d] = up[d] /\ down'[d] = down[d] /\ cpc'[d] = cpc[d]
              /\ answer'[d] = answer[d]
    BY <1>0, <1>2 DEF ReceiveLast, SendLines, Goto, TypeOK, Typed, HasClient
  <1>4. <<Line("QUIT")>> \in Seq(Lines)
    BY SentTypes DEF Commands
  <1>5. up'[c] = <<Line("QUIT")>>
    BY <1>2, <1>3, <1>4, Joined
  <1>6. InStep(c)'
    BY <1>2, <1>3, <1>5 DEF InStep, Unanswered, Served, server
  <1> QED
    BY <1>2, <1>3, <1>6, ClientKeepsLock

\* A client touches nothing of the others.
LEMMA ClientLocal ==
    ASSUME TypeOK, NEW c \in Clients, ClientStep(c) \/ ClientDies(c) \/ Interrupt(c)
    PROVE  /\ UNCHANGED <<server, queue>>
           /\ \A d \in Clients \ {c} :
                 /\ up'[d] = up[d] /\ down'[d] = down[d] /\ cpc'[d] = cpc[d]
                 /\ results'[d] = results[d] /\ err'[d] = err[d] /\ answer'[d] = answer[d]
                 /\ interrupts'[d] = interrupts[d]
           /\ Interrupted(c) \/ Interrupt(c) => Interrupted(c)'
  <1>1. UNCHANGED <<server, queue>>
    BY DEF ClientStep, ClientDies, Interrupt, Initialize, SendOptions, OptionsSet, SendSql,
           SendSqlEnd, SqlSent, SendRun, ReceiveLine, ReceiveLast, ReceiveEnd, Bye
  <1>2. ASSUME NEW d \in Clients \ {c} PROVE up'[d] = up[d]
    BY DEF ClientStep, ClientDies, Interrupt, Initialize, SendOptions, OptionsSet, SendSql,
           SendSqlEnd, SqlSent, SendRun, ReceiveLine, ReceiveLast, ReceiveEnd, Bye,
           Internal, SendLines, ReadInterrupted, WriteInterrupted, TypeOK, Typed
  <1>3. ASSUME NEW d \in Clients \ {c} PROVE down'[d] = down[d]
    BY DEF ClientStep, ClientDies, Interrupt, Initialize, SendOptions, OptionsSet, SendSql,
           SendSqlEnd, SqlSent, SendRun, ReceiveLine, ReceiveLast, ReceiveEnd, Bye,
           GetLine, GetReply, TypeOK, Typed
  <1>4. ASSUME NEW d \in Clients \ {c} PROVE cpc'[d] = cpc[d]
    BY DEF ClientStep, ClientDies, Interrupt, Initialize, SendOptions, OptionsSet, SendSql,
           SendSqlEnd, SqlSent, SendRun, ReceiveLine, ReceiveLast, ReceiveEnd, Bye,
           Internal, Finish, Leave, Goto, ReadInterrupted, WriteInterrupted, TypeOK, Typed
  <1>5. ASSUME NEW d \in Clients \ {c}
        PROVE  results'[d] = results[d] /\ err'[d] = err[d]
    BY DEF ClientStep, ClientDies, Interrupt, Initialize, SendOptions, OptionsSet, SendSql,
           SendSqlEnd, SqlSent, SendRun, ReceiveLine, ReceiveLast, ReceiveEnd, Bye,
           TypeOK, Typed
  <1>6. ASSUME NEW d \in Clients \ {c} PROVE answer'[d] = answer[d]
    BY DEF ClientStep, ClientDies, Interrupt, Initialize, SendOptions, OptionsSet, SendSql,
           SendSqlEnd, SqlSent, SendRun, ReceiveLine, ReceiveLast, ReceiveEnd, Bye,
           Internal, Finish, ReadInterrupted, WriteInterrupted, TypeOK, Typed
  <1>7. \/ UNCHANGED interrupts /\ ~ Interrupt(c)
        \/ interrupts' = [interrupts EXCEPT ![c] = @ + 1]
    BY DEF ClientStep, ClientDies, Interrupt, Initialize, SendOptions, OptionsSet, SendSql,
           SendSqlEnd, SqlSent, SendRun, ReceiveLine, ReceiveLast, ReceiveEnd, Bye
  <1>8. /\ \A d \in Clients \ {c} : interrupts'[d] = interrupts[d]
        /\ Interrupted(c) \/ Interrupt(c) => Interrupted(c)'
    BY <1>7 DEF Interrupted, TypeOK, Typed
  <1> QED
    BY <1>1, <1>2, <1>3, <1>4, <1>5, <1>6, <1>8

\* The clients: one case per action.
LEMMA ClientLock ==
    ASSUME OwnInv, LockInv, NEW c \in Clients,
           ClientStep(c) \/ Connect(c) \/ ClientDies(c) \/ Interrupt(c)
    PROVE  LockInv'
  <1>0. CASE ~ Alive
    <2>1. srv' = srv
      BY ClientLocal DEF Connect, server, OwnInv
    <2> QED
      BY <1>0, <2>1 DEF LockInv, Alive
  <1> SUFFICES ASSUME Alive PROVE LockInv'
    BY <1>0
  <1>1. /\ TypeOK /\ InStep(c)
        /\ up[c] \in Seq(Lines) /\ down[c] \in Seq(Lines) /\ out \in Seq(Lines)
    BY DEF OwnInv, TypeOK, Typed, HasClient, LockInv
  <1>2. /\ \A l : up' = [up EXCEPT ![c] = l] =>
              up'[c] = l /\ \A d \in Clients \ {c} : up'[d] = up[d]
        /\ \A l : down' = [down EXCEPT ![c] = l] =>
              down'[c] = l /\ \A d \in Clients \ {c} : down'[d] = down[d]
        /\ \A l : cpc' = [cpc EXCEPT ![c] = l] =>
              cpc'[c] = l /\ \A d \in Clients \ {c} : cpc'[d] = cpc[d]
    BY <1>1 DEF TypeOK, Typed, HasClient
  <1>3. /\ \A l : <<l>> \in Seq(Lines) => <<>> \o <<l>> = <<l>>
        /\ \A l, m : <<l, m>> \in Seq(Lines) => <<>> \o <<l, m>> = <<l, m>>
        /\ \A l, u : u = <<l>> => Head(u) = l /\ Tail(u) = <<>> /\ u # <<>>
    BY Joined, One
  <1>4. CASE Connect(c)
    BY <1>4, ConnectKeepsLock
  <1>17. CASE ~ Connect(c) /\ (Interrupted(c) \/ Interrupt(c))
    <2>1. Interrupted(c)' /\ InStep(c)'
      BY <1>1, <1>17, ClientLocal DEF InStep, Tracked
    <2> QED
      BY <1>1, <1>17, <2>1, ClientLocal, ClientKeepsLock
  <1> SUFFICES ASSUME ~ Connect(c), ~ Interrupted(c), ~ Interrupt(c) PROVE LockInv'
    BY <1>4, <1>17
  <1>18. cpc[c] # "dead" => Tracked(c)
    BY DEF Tracked
  <1>5. CASE Initialize(c)
    <2>1. /\ UNCHANGED <<server, queue>> /\ UNCHANGED <<up, results, err, answer, interrupts>>
          /\ cpc[c] = "helo" /\ cpc'[c] = "options" /\ down[c] # <<>> /\ down'[c] = <<>>
          /\ \A d \in Clients \ {c} : down'[d] = down[d] /\ cpc'[d] = cpc[d]
      BY <1>2, <1>5 DEF Initialize, GetReply, At, Goto
    <2>2. s2 = c /\ AtEase(c) /\ down[c] = <<Line("PID")>>
      BY <1>1, <1>18, <2>1 DEF InStep, Apart, Served, Waiting, Uploading
    <2>3. InStep(c)'
      BY <1>1, <1>3, <1>18, <2>1, <2>2 DEF InStep, Unanswered, Served, AtEase, server
    <2> QED
      BY <1>1, <2>1, <2>3, ClientKeepsLock
  <1>6. CASE SendOptions(c)
    <2>1. PICK t \in Timeouts : up' = [up EXCEPT ![c] = @ \o <<SetTimeout(t)>>]
      BY <1>6 DEF SendOptions, Internal, SendLines
    <2>2. /\ UNCHANGED <<server, queue>> /\ UNCHANGED <<down, results, err, answer, interrupts>>
          /\ cpc[c] = "options" /\ cpc'[c] = "set" /\ up'[c] = up[c] \o <<SetTimeout(t)>>
          /\ \A d \in Clients \ {c} : up'[d] = up[d] /\ cpc'[d] = cpc[d]
      BY <1>2, <1>6, <2>1 DEF SendOptions, Internal, At, Goto
    <2>3. s2 = c /\ AtEase(c) /\ down[c] = <<>>
      BY <1>1, <1>18, <2>2 DEF InStep, Apart, Served, Waiting, Uploading
    <2>4. <<SetTimeout(t)>> \in Seq(Lines)
      BY ConnectorAssumption, SentTypes
    <2>5. up'[c] = <<SetTimeout(t)>>
      BY <1>3, <2>2, <2>3, <2>4 DEF AtEase
    <2>6. InStep(c)'
      BY <1>1, <1>18, <2>2, <2>3, <2>5 DEF InStep, Unanswered, Served, AtEase, server
    <2> QED
      BY <1>1, <2>2, <2>6, ClientKeepsLock
  <1>7. CASE OptionsSet(c)
    <2>1. /\ UNCHANGED <<server, queue>> /\ UNCHANGED <<up, results, err, answer, interrupts>>
          /\ cpc[c] = "set" /\ cpc'[c] = "begin" /\ down[c] # <<>> /\ down'[c] = <<>>
          /\ \A d \in Clients \ {c} : down'[d] = down[d] /\ cpc'[d] = cpc[d]
      BY <1>2, <1>7 DEF OptionsSet, GetReply, At, Goto
    <2>2. s2 = c /\ AtEase(c) /\ down[c] = <<Line("OK")>>
      BY <1>1, <1>18, <2>1 DEF InStep, Apart, Served, Waiting, Uploading
    <2>3. InStep(c)'
      BY <1>1, <1>3, <1>18, <2>1, <2>2 DEF InStep, Unanswered, Served, AtEase, server
    <2> QED
      BY <1>1, <2>1, <2>3, ClientKeepsLock
  <1>8. CASE SendSql(c)
    <2> DEFINE s == <<Line("SQL BEGIN"), Text({c})>>
    <2>1. /\ UNCHANGED <<server, queue>> /\ UNCHANGED <<down, results, err, answer, interrupts>>
          /\ cpc[c] = "begin" /\ cpc'[c] = "end" /\ up'[c] = up[c] \o s
          /\ \A d \in Clients \ {c} : up'[d] = up[d] /\ cpc'[d] = cpc[d]
      BY <1>2, <1>8 DEF SendSql, SendLines, Internal, At, Goto
    <2>2. s2 = c /\ AtEase(c) /\ down[c] = <<>>
      BY <1>1, <1>18, <2>1 DEF InStep, Apart, Served, Waiting, Uploading
    <2>3. up'[c] = s
      <3>1. s \in Seq(Lines)
        BY SentTypes
      <3> QED
        BY <1>3, <2>1, <2>2, <3>1 DEF AtEase
    <2>4. InStep(c)'
      BY <1>1, <1>18, <2>1, <2>2, <2>3 DEF InStep, Unanswered, Served, Uploading, AtEase, server
    <2> QED
      BY <1>1, <2>1, <2>4, ClientKeepsLock
  <1>9. CASE SendSqlEnd(c)
    <2> DEFINE b == Line("SQL BEGIN")
               x == Text({c})
               e == Line("SQL END")
    <2>1. /\ UNCHANGED <<server, queue>> /\ UNCHANGED <<down, results, err, answer, interrupts>>
          /\ cpc[c] = "end" /\ cpc'[c] = "sql" /\ up'[c] = up[c] \o <<e>>
          /\ \A d \in Clients \ {c} : up'[d] = up[d] /\ cpc'[d] = cpc[d]
      BY <1>2, <1>9 DEF SendSqlEnd, SendLines, Internal, At, Goto
    <2>2. s2 = c /\ Uploading(c) /\ srv = "serve" /\ down[c] = <<>>
      BY <1>1, <1>18, <2>1 DEF InStep, Apart, Served, Waiting
    <2>3. b \in Lines /\ x \in Lines /\ e \in Lines /\ <<e>> \in Seq(Lines)
      BY LineTypes, SeqTypes DEF Commands
    <2> HIDE DEF b, x, e
    <2>4. <<b, x>> \o <<e>> = <<b, x, e>> /\ <<x>> \o <<e>> = <<x, e>> /\ <<>> \o <<e>> = <<e>>
      BY <1>3, <2>3, OneOne, TwoOne
    <2> USE DEF b, x, e
    <2>5. Uploading(c)'
      <3>1. CASE ~ receive_sql /\ up[c] = <<b, x>>
        BY <2>1, <2>4, <3>1 DEF Uploading, server
      <3>2. CASE receive_sql /\ up[c] = <<x>>
        BY <2>1, <2>4, <3>2 DEF Uploading, server
      <3>3. CASE receive_sql /\ up[c] = <<>> /\ sb_sql = {c}
        BY <2>1, <2>4, <3>3 DEF Uploading, server
      <3> QED
        BY <2>1, <2>2, <3>1, <3>2, <3>3 DEF Uploading
    <2>6. InStep(c)'
      BY <1>1, <1>18, <2>1, <2>2, <2>5 DEF InStep, Unanswered, Served, server
    <2> QED
      BY <1>1, <2>1, <2>6, ClientKeepsLock
  <1>10. CASE SqlSent(c)
    <2>1. /\ UNCHANGED <<server, queue>> /\ UNCHANGED <<up, results, err, answer, interrupts>>
          /\ cpc[c] = "sql" /\ cpc'[c] = "run" /\ down[c] # <<>> /\ down'[c] = Tail(down[c])
          /\ \A d \in Clients \ {c} : down'[d] = down[d] /\ cpc'[d] = cpc[d]
      BY <1>2, <1>10 DEF SqlSent, GetLine, At, Goto
    <2>2. s2 = c /\ AtEase(c) /\ sql = {c} /\ down[c] = <<Line("OK")>>
      BY <1>1, <1>18, <2>1 DEF InStep, Apart, Served, Waiting
    <2>3. InStep(c)'
      BY <1>1, <1>3, <1>18, <2>1, <2>2 DEF InStep, Unanswered, Served, AtEase, server
    <2> QED
      BY <1>1, <2>1, <2>3, ClientKeepsLock
  <1>11. CASE SendRun(c)
    <2>1. /\ UNCHANGED <<server, queue>> /\ UNCHANGED <<down, results, err, answer, interrupts>>
          /\ cpc[c] = "run" /\ cpc'[c] = "receive" /\ up'[c] = up[c] \o <<Line("RUN")>>
          /\ \A d \in Clients \ {c} : up'[d] = up[d] /\ cpc'[d] = cpc[d]
      BY <1>2, <1>11 DEF SendRun, SendLines, At, Goto
    <2>2. s2 = c /\ AtEase(c) /\ sql = {c} /\ down[c] = <<>> /\ ~ err[c] /\ ~ results[c]
      BY <1>1, <1>18, <2>1 DEF InStep, Apart, Served, Waiting, Uploading, Unanswered
    <2>3. up'[c] = <<Line("RUN")>>
      <3>1. <<Line("RUN")>> \in Seq(Lines)
        BY SentTypes DEF Commands
      <3> QED
        BY <1>3, <2>1, <2>2, <3>1 DEF AtEase
    <2>4. InStep(c)'
      BY <1>18, <2>1, <2>2, <2>3 DEF InStep, Unanswered, Served, Receiving, AtEase, server
    <2> QED
      BY <1>1, <2>1, <2>4, ClientKeepsLock
  <1>12. CASE ReceiveEnd(c)
    BY <1>12 DEF ReceiveEnd
  <1>13. CASE Bye(c)
    <2>1. /\ UNCHANGED <<server, queue>> /\ UNCHANGED <<up, results, err, answer, interrupts>>
          /\ cpc[c] = "quit" /\ cpc'[c] = "idle" /\ down[c] # <<>>
          /\ \A d \in Clients \ {c} : down'[d] = down[d] /\ cpc'[d] = cpc[d]
      BY <1>2, <1>13 DEF Bye, GetReply, Leave, At, Goto
    <2>2. s2 # c /\ ~ InQueue(c)
      BY <1>1, <1>18, <2>1 DEF InStep, Apart, Served, Waiting, Uploading
    <2>3. InStep(c)'
      BY <1>1, <2>1, <2>2 DEF InStep, Unanswered, Apart, InQueue, server
    <2> QED
      BY <1>1, <2>1, <2>3, ClientKeepsLock
  <1>14. CASE ClientDies(c)
    <2>1. /\ UNCHANGED <<server, queue>> /\ UNCHANGED <<up, results, err, answer, interrupts>>
          /\ cpc'[c] = "dead"
          /\ \A d \in Clients \ {c} : down'[d] = down[d] /\ cpc'[d] = cpc[d]
      BY <1>2, <1>14 DEF ClientDies, Goto
    <2>2. InStep(c)'
      BY <2>1 DEF InStep, Tracked
    <2> QED
      BY <1>1, <2>1, <2>2, ClientKeepsLock
  <1>15. CASE ReceiveLine(c)
    BY <1>15, LineKeepsLock
  <1>16. CASE ReceiveLast(c)
    BY <1>16, LastKeepsLock
  <1> QED
    BY <1>4, <1>5, <1>6, <1>7, <1>8, <1>9, <1>10, <1>11, <1>12, <1>13, <1>14, <1>15, <1>16
       DEF ClientStep

\* Nobody is told of success before the results are there.
LEMMA CompleteStep ==
    ASSUME OwnInv, LockInv, CompleteWhileAlive, Next, OwnInv'
    PROVE  CompleteWhileAlive'
  <1> SUFFICES ASSUME Alive', NEW d \in Clients, ~ Interrupted(d)', answer'[d].kind = "success"
               PROVE  answer'[d].text = {d}
    BY DEF CompleteWhileAlive
  <1>0. /\ TypeOK /\ answer \in [Clients -> Answers]
        /\ Alive /\ ~ Interrupted(d) /\ answer[d].kind = "success" => answer[d].text = {d}
    BY DEF OwnInv, TypeOK, Typed, CompleteWhileAlive
  <1>1. CASE ServerStep \/ Killed \/ Tick
    <2>1. UNCHANGED client
      BY <1>1 DEF ServerStep, Accept, Helo, SetOption, SqlBegin, SqlText, SqlEnd, Run, Login,
                  StartQuery, EndQuery, SendLine, Sent, Quit, Broken, Die, Alarm, Killed, Tick
    <2>2. Alive
      BY <1>1 DEF ServerStep, Accept, Helo, SetOption, SqlBegin, SqlText, SqlEnd, Run, Receive,
                  Login, StartQuery, EndQuery, SendLine, Sent, Quit, Broken, Die, Alarm, Killed,
                  Tick, Alive
    <2> QED
      BY <1>0, <2>1, <2>2 DEF client, Interrupted
  <1>2. ASSUME NEW c \in Clients, Connect(c) PROVE answer'[d].text = {d}
    <2>1. /\ answer' = [answer EXCEPT ![c] = NoAnswer] /\ UNCHANGED interrupts /\ Alive
      BY <1>2 DEF Connect
    <2> QED
      BY <1>0, <2>1 DEF NoAnswer, Interrupted
  <1>3. ASSUME NEW c \in Clients, ClientStep(c) \/ ClientDies(c) \/ Interrupt(c)
        PROVE  answer'[d].text = {d}
    <2>1. Alive /\ ~ Interrupted(d) /\ ~ (d = c /\ Interrupt(c))
      BY <1>0, <1>3, ClientLocal DEF server, Alive, Interrupted
    <2>2. CASE d # c
      BY <1>0, <1>3, <2>1, <2>2, ClientLocal
    <2> SUFFICES ASSUME d = c PROVE answer'[d].text = {d}
      BY <2>2
    <2>3. answer[c] \in Answers
      BY <1>0
    <2>4. CASE ReceiveLine(c)
      <3> DEFINE y == IF results[c] THEN answer[c].text \cup Head(down[c]).text
                                    ELSE answer[c].text
      <3>1. answer' = [answer EXCEPT ![c] = [answer[c] EXCEPT !.text = y]]
        BY <2>4 DEF ReceiveLine
      <3>2. answer'[c] = [answer[c] EXCEPT !.text = y]
        BY <1>0, <3>1
      <3>3. answer[c].text \subseteq y
        OBVIOUS
      <3> HIDE DEF y
      <3>4. answer'[c].text = y /\ answer'[c].kind = answer[c].kind
        BY <2>3, <3>2 DEF Answers
      <3>5. answer'[c].text \subseteq {c}
        BY DEF OwnInv, OwnAnswer
      <3> QED
        BY <1>0, <2>1, <3>3, <3>4, <3>5
    <2>5. CASE ReceiveLast(c)
      <3>1. err[c] \/ answer[c].text = {c}
        BY <2>1, <2>5, LastReceived DEF ReceiveLast, At
      <3> DEFINE k == IF err[c] THEN "error" ELSE "success"
      <3>2. answer' = [answer EXCEPT ![c] = [answer[c] EXCEPT !.kind = k, !.ok = TRUE]]
        BY <2>5 DEF ReceiveLast
      <3>3. answer'[c] = [answer[c] EXCEPT !.kind = k, !.ok = TRUE]
        BY <1>0, <3>2
      <3>4. answer'[c].kind = k /\ answer'[c].text = answer[c].text
        BY <2>3, <3>3 DEF Answers
      <3> QED
        BY <3>1, <3>4
    <2>6. CASE Finish(c, "noinit")
      BY <1>0, <2>3, <2>6 DEF Finish, Answers
    <2>7. CASE UNCHANGED answer
      BY <1>0, <2>1, <2>7
    <2> QED
      BY <1>3, <2>1, <2>4, <2>5, <2>6, <2>7
         DEF ClientStep, ClientDies, Initialize, SendOptions, OptionsSet, SendSql, SendSqlEnd,
             SqlSent, SendRun, ReceiveEnd, Bye, Internal
  <1> QED
    BY <1>1, <1>2, <1>3 DEF Next

LEMMA LockInvariant == Spec => [](LockInv /\ CompleteWhileAlive)
  <1>1. Init => LockInv /\ CompleteWhileAlive
    <2> SUFFICES ASSUME Init PROVE LockInv /\ CompleteWhileAlive
      OBVIOUS
    <2>1. QueueInv /\ ~ receive_sql
      BY DEF Init, QueueInv
    <2>2. ASSUME NEW c \in Clients PROVE InStep(c)
      <3>1. /\ cpc[c] = "idle" /\ ~ err[c] /\ ~ results[c] /\ s2 # c
        BY ConnectorAssumption DEF Init
      <3>2. ~ InQueue(c)
        BY DEF Init, InQueue
      <3> QED
        BY <3>1, <3>2 DEF InStep, Apart
    <2>3. CompleteWhileAlive
      BY DEF Init, CompleteWhileAlive, NoAnswer
    <2> QED
      BY <2>1, <2>2, <2>3 DEF LockInv
  <1>2. LockInv /\ CompleteWhileAlive /\ OwnInv /\ OwnInv' /\ [Next]_vars
        => (LockInv /\ CompleteWhileAlive)'
    <2> SUFFICES ASSUME LockInv, CompleteWhileAlive, OwnInv, OwnInv', [Next]_vars
                 PROVE  LockInv' /\ CompleteWhileAlive'
      OBVIOUS
    <2>1. CASE UNCHANGED vars
      <3>1. LockInv'
        BY <2>1, LockStutter DEF vars, server
      <3> QED
        BY <2>1, <3>1 DEF vars, server, client, CompleteWhileAlive, Alive, Interrupted
    <2>2. CASE Next
      BY <2>2, ServerLock, ClientLock, CompleteStep DEF Next
    <2> QED
      BY <2>1, <2>2
  <1> QED
    BY <1>1, <1>2, OwnInvariant, PTL DEF Spec

\* Questions and answers stay in step (main of connector.c, send_request of
\* client.c): as long as the connector runs, the first OK that a client reads
\* after RUN is the end of its results, and a success has them all, unless a wait
\* of that client was interrupted.
THEOREM CompleteWhileAliveHolds == Spec => []CompleteWhileAlive
  BY LockInvariant, PTL

\* The connector never waits in recv_string for a line of a client that waits in
\* recv_string for a line of the connector and was never interrupted.
THEOREM NeverBothWaitingHolds == Spec => []NeverBothWaiting
  <1>1. OwnInv /\ LockInv => NeverBothWaiting
    <2> SUFFICES ASSUME OwnInv, LockInv, srv = "serve", ~ Interrupted(s2), up[s2] = <<>>,
                        cpc[s2] \in {"helo", "set", "sql", "receive", "quit"}
                 PROVE  down[s2] # <<>>
      BY DEF NeverBothWaiting
    <2>1. s2 \in Clients /\ out = <<>> /\ Alive /\ InStep(s2)
      BY DEF OwnInv, TypeOK, HasClient, WireInv, LockInv, Alive
    <2>2. Served(s2)
      BY <2>1 DEF InStep, Tracked
    <2>3. \A l, m, n, o : <<l>> # <<>> /\ <<l, m>> # <<>> /\ <<l, m, n>> # <<>>
                          /\ <<l, m, n, o>> # <<>>
      OBVIOUS
    <2>4. down[s2] \in Seq(Lines) /\ (down[s2] = <<>> => Rest(s2) = <<>>)
      BY <2>1, Joined DEF Rest, OwnInv, TypeOK, Typed, HasClient
    <2> QED
      BY <2>1, <2>2, <2>3, <2>4
         DEF Served, Waiting, AtEase, Uploading, Receiving, Results, Error
  <1> QED
    BY <1>1, OwnInvariant, LockInvariant, PTL

-----------------------------------------------------------------------------
(* The alarm of a query. *)

\* While a query runs that a timeout was given for, the alarm has been wound up
\* to HARD_TIMEOUT at its start and not since.
AlarmInv == srv = "query" /\ timeout # 0 => alarm + busy = HardTimeout

LEMMA AlarmInvariant == Spec => []AlarmInv
  <1>1. Init => AlarmInv
    BY DEF Init, AlarmInv
  <1>2. TypeOK /\ AlarmInv /\ [Next]_vars => AlarmInv'
    <2> SUFFICES ASSUME TypeOK, AlarmInv, [Next]_vars, srv' = "query", timeout' # 0
                 PROVE  alarm' + busy' = HardTimeout
      BY DEF AlarmInv
    <2>1. alarm \in Nat /\ busy \in Nat /\ HardTimeout \in Nat
      BY ConnectorAssumption DEF TypeOK, Typed, HasClient
    <2>2. CASE StartQuery
      BY <2>1, <2>2 DEF StartQuery, Rearm
    <2>3. CASE Tick
      BY <2>1, <2>3 DEF Tick, AlarmInv
    <2>4. CASE UNCHANGED <<srv, timeout, alarm, busy>>
      BY <2>4 DEF AlarmInv
    <2>5. CASE ServerStep /\ ~ StartQuery
      BY <2>4, <2>5
         DEF ServerStep, Accept, Helo, SetOption, SqlBegin, SqlText, SqlEnd, Run, Receive,
             Login, EndQuery, SendLine, Sent, Quit, Broken, Die, Alarm, Forget, Gone, server
    <2>6. CASE Killed
      BY <2>6 DEF Killed, Gone
    <2>7. CASE \E c \in Clients : ClientStep(c) \/ Connect(c) \/ ClientDies(c) \/ Interrupt(c)
      BY <2>4, <2>7
         DEF ClientStep, Connect, ClientDies, Interrupt, Initialize, SendOptions, OptionsSet, SendSql,
             SendSqlEnd, SqlSent, SendRun, ReceiveLine, ReceiveLast, ReceiveEnd, Bye, server
    <2>8. CASE UNCHANGED vars
      BY <2>4, <2>8 DEF vars, server
    <2> QED
      BY <2>2, <2>3, <2>5, <2>6, <2>7, <2>8 DEF Next
  <1> QED
    BY <1>1, <1>2, TypeCorrect, PTL DEF Spec

\* connector.c:213 "don't timeout during query run": SIGALRM does not end a query
\* that takes less than HARD_TIMEOUT, as long as a timeout was asked for, whatever
\* alarm was set by the requests before.
THEOREM AlarmSparesQueryHolds == Spec => AlarmSparesQuery
  <1>1. TypeOK /\ AlarmInv /\ [Next]_vars => [Alarm /\ srv = "query" => timeout = 0]_vars
    <2> SUFFICES ASSUME TypeOK, AlarmInv, Alarm, srv = "query" PROVE timeout = 0
      OBVIOUS
    <2>1. alarm = 0 /\ busy \in 0 .. MaxQuery
      BY DEF Alarm, TypeOK, Typed, HasClient
    <2> QED
      BY <2>1, ConnectorAssumption DEF AlarmInv
  <1> QED
    BY <1>1, TypeCorrect, AlarmInvariant, PTL DEF Spec, AlarmSparesQuery
=============================================================================
