-------------------------- MODULE RecvStringProofs --------------------------
(* Theorems about RecvString for every size of the buffer (at least two, as  *)
(* a string and its end need), every stream, and every way the kernel cuts   *)
(* the stream into reads.                                                    *)
EXTENDS RecvString, TLAPS

\* The bytes of the present call that are already in out_buf.
Begun == IF pc = "idle" THEN 0 ELSE out_ptr

\* What was read and is in neither a returned string nor out_buf is in in_buf,
\* from in_ptr on, in order.
RestInv ==
    result # "end" /\ result # "error" =>
        IF in_ptr = -1 THEN delivered + Begun = taken
        ELSE /\ in_ptr <= len /\ in_ptr < BufSize - 1
             /\ delivered + Begun + len - in_ptr = taken
             /\ \A k \in in_ptr .. len - 1 : in_buf[k] = delivered + Begun + k - in_ptr

\* Within a call out_buf holds the bytes after the last string, none a newline,
\* and there is room for one more and for the end of the string.
OutInv ==
    pc # "idle" =>
        /\ result \in {"none", "string"}
        /\ out_ptr <= BufSize - 2
        /\ \A k \in 0 .. out_ptr - 1 :
              out_buf[k] = delivered + k /\ out_buf[k] \notin newline

ScanInv == pc = "scan" => in_ptr # -1

RecvInv == TypeOK /\ RestInv /\ OutInv /\ ScanInv /\ ReturnsNextPiece

USE RecvAssumption

\* Nothing is read and nothing begun at first.
LEMMA InitRecv == Init => RecvInv
  <1> SUFFICES ASSUME Init PROVE RecvInv
    OBVIOUS
  <1>1. TypeOK
    <2>1. newline \subseteq 0 .. MaxBytes - 1
      BY DEF Init
    <2>2. in_buf \in [Cells -> 0 .. MaxBytes \cup {NUL}] /\ out_buf \in [Cells -> 0 .. MaxBytes \cup {NUL}]
      BY DEF Init
    <2>3. /\ sent = 0 /\ taken = 0 /\ delivered = 0 /\ closed = FALSE /\ len = 0 /\ in_ptr = -1
          /\ out_ptr = 0 /\ pc = "idle" /\ result = "none"
      BY DEF Init
    <2>4. 0 \in Cells /\ -1 \in -1 .. BufSize - 1 /\ 0 \in 0 .. MaxBytes
      BY DEF Cells
    <2>5. sent \in 0 .. MaxBytes /\ taken \in 0 .. sent /\ delivered \in 0 .. taken
      BY <2>3
    <2>6. len \in Cells /\ in_ptr \in -1 .. BufSize - 1 /\ out_ptr \in Cells
      BY <2>3, <2>4
    <2>7. closed \in BOOLEAN
      BY <2>3
    <2>8. pc \in {"idle", "read", "scan"} /\ result \in {"none", "string", "end", "error"}
      BY <2>3
    <2> QED BY <2>1, <2>2, <2>5, <2>6, <2>7, <2>8 DEF TypeOK
  <1>2. RestInv /\ OutInv /\ ScanInv /\ ReturnsNextPiece
    BY DEF Init, RestInv, OutInv, ScanInv, ReturnsNextPiece, Begun
  <1> QED BY <1>1, <1>2 DEF RecvInv

\* The piece that ends at position i of in_buf, newline included or not, joined
\* to what the call has begun, is the next n bytes of the stream.
LEMMA CopyInOrder ==
  ASSUME RecvInv, pc = "scan", NEW n \in Nat, in_ptr + n <= len, out_ptr + n <= BufSize - 1
  PROVE  /\ Copied(n) \in [Cells -> 0 .. MaxBytes \cup {NUL}]
         /\ Copied(n)[out_ptr + n] = NUL
         /\ \A k \in 0 .. out_ptr + n - 1 : Copied(n)[k] = delivered + k
         /\ delivered + out_ptr + n <= taken
  <1> USE DEF RecvInv, TypeOK, RestInv, OutInv, ScanInv, Begun, Cells, NUL
  <1>1. /\ out_ptr \in 0 .. BufSize - 2 /\ in_ptr \in 0 .. BufSize - 2 /\ len \in 0 .. BufSize - 1
        /\ \A k \in in_ptr .. len - 1 : in_buf[k] = delivered + out_ptr + k - in_ptr
        /\ \A k \in 0 .. out_ptr - 1 : out_buf[k] = delivered + k
        /\ delivered + out_ptr + len - in_ptr = taken
    OBVIOUS
  <1>2. Copied(n) \in [Cells -> 0 .. MaxBytes \cup {NUL}]
    BY <1>1 DEF Copied
  <1>3. Copied(n)[out_ptr + n] = NUL
    BY <1>1 DEF Copied
  <1>4. ASSUME NEW k \in 0 .. out_ptr + n - 1 PROVE Copied(n)[k] = delivered + k
    <2>1. CASE k < out_ptr
      BY <1>1, <2>1 DEF Copied
    <2>2. CASE k >= out_ptr
      <3>1. in_ptr + k - out_ptr \in in_ptr .. len - 1
        BY <1>1, <2>2
      <3>2. in_buf[in_ptr + k - out_ptr] = delivered + out_ptr + (in_ptr + k - out_ptr) - in_ptr
        BY <1>1, <3>1
      <3>3. Copied(n)[k] = in_buf[in_ptr + k - out_ptr]
        BY <1>1, <2>2 DEF Copied
      <3> QED BY <3>2, <3>3, <1>1
    <2> QED BY <2>1, <2>2, <1>1
  <1>5. delivered + out_ptr + n <= taken
    BY <1>1
  <1> QED BY <1>2, <1>3, <1>4, <1>5

\* Up to the stop there is no newline in in_buf.
LEMMA NoNewlineBefore ==
  ASSUME RecvInv, pc = "scan", NEW i \in in_ptr .. BufSize, IsStop(i), in_ptr <= len
  PROVE  /\ i <= len
         /\ \A k \in delivered .. delivered + out_ptr + i - in_ptr - 1 : k \notin newline
  <1> USE DEF RecvInv, TypeOK, RestInv, OutInv, ScanInv, Begun, Cells, NUL
  <1>1. i <= len
    <2> SUFFICES ASSUME i > len PROVE FALSE
      OBVIOUS
    <2>1. len \in in_ptr .. i - 1
      OBVIOUS
    <2>2. \A k \in in_ptr .. i - 1 : k < len
      BY DEF IsStop
    <2>3. len < len
      BY <2>1, <2>2
    <2> QED BY <2>3
  <1>2. ASSUME NEW k \in delivered .. delivered + out_ptr + i - in_ptr - 1 PROVE k \notin newline
    <2>1. CASE k < delivered + out_ptr
      <3>1. k - delivered \in 0 .. out_ptr - 1
        BY <2>1
      <3>2. out_buf[k - delivered] = delivered + (k - delivered) /\ out_buf[k - delivered] \notin newline
        BY <3>1
      <3> QED BY <3>2
    <2>2. CASE k >= delivered + out_ptr
      <3> DEFINE j == in_ptr + k - (delivered + out_ptr)
      <3>1. j \in in_ptr .. i - 1
        BY <2>2
      <3>2. in_buf[j] \notin newline
        BY <3>1 DEF IsStop
      <3>3. in_buf[j] = delivered + out_ptr + j - in_ptr
        BY <3>1, <1>1
      <3> QED BY <3>2, <3>3, <2>2
    <2> QED BY <2>1, <2>2
  <1> QED BY <1>1, <1>2

\* A string of n bytes that is returned is the next piece, and the rest stays
\* where it was, from in_ptr on.
LEMMA ReturnNext ==
  ASSUME RecvInv, pc = "scan", NEW n \in 1 .. BufSize - 1 - out_ptr, in_ptr + n <= len,
         out_buf' = Copied(n), in_ptr' = Advance(in_ptr + n, len) \/ in_ptr' = in_ptr + n,
         Return(out_ptr + n), UNCHANGED <<sender, taken, in_buf, len>>,
         \A k \in delivered .. delivered + out_ptr + n - 2 : k \notin newline,
         delivered + out_ptr + n - 1 \in newline \/ out_ptr + n = BufSize - 1,
         in_ptr' < BufSize - 1
  PROVE  RecvInv'
  <1>0. pc' = "idle" /\ result' = "string" /\ out_ptr' = out_ptr + n
        /\ delivered' = delivered + out_ptr + n
        /\ newline' = newline /\ sent' = sent /\ closed' = closed /\ taken' = taken
        /\ in_buf' = in_buf /\ len' = len
    BY DEF Return, sender, RecvInv, TypeOK, Cells
  <1>1. /\ Copied(n) \in [Cells -> 0 .. MaxBytes \cup {NUL}]
        /\ Copied(n)[out_ptr + n] = NUL
        /\ \A k \in 0 .. out_ptr + n - 1 : Copied(n)[k] = delivered + k
        /\ delivered + out_ptr + n <= taken
    BY CopyInOrder DEF RecvInv, TypeOK, Cells
  <1> USE DEF RecvInv, TypeOK, RestInv, OutInv, ScanInv, Begun, Cells, NUL
  <1>2. /\ out_ptr \in 0 .. BufSize - 2 /\ in_ptr \in 0 .. BufSize - 2 /\ len \in 0 .. BufSize - 1
        /\ \A k \in in_ptr .. len - 1 : in_buf[k] = delivered + out_ptr + k - in_ptr
        /\ delivered + out_ptr + len - in_ptr = taken
    OBVIOUS
  <1>3. TypeOK'
    BY <1>0, <1>1, <1>2 DEF Advance
  <1>4. RestInv'
    <2>1. CASE in_ptr' = in_ptr + n
      BY <1>0, <1>2, <2>1
    <2>2. CASE in_ptr' = -1 /\ in_ptr + n >= len
      BY <1>0, <1>2, <2>2
    <2> QED BY <2>1, <2>2 DEF Advance
  <1>5. OutInv' /\ ScanInv'
    BY <1>0
  <1>6. ReturnsNextPiece'
    <2>1. /\ out_ptr' \in 1 .. BufSize - 1
          /\ out_buf'[out_ptr'] = NUL
          /\ \A k \in 0 .. out_ptr' - 1 : out_buf'[k] = delivered' - out_ptr' + k
      BY <1>0, <1>1, <1>2
    <2>2. ASSUME NEW k \in 0 .. out_ptr' - 2 PROVE out_buf'[k] \notin newline'
      <3>1. delivered + k \in delivered .. delivered + out_ptr + n - 2
        BY <1>0, <1>2
      <3> QED BY <3>1, <1>0, <1>1, <1>2
    <2>3. out_buf'[out_ptr' - 1] \in newline' \/ out_ptr' = BufSize - 1
      BY <1>0, <1>1, <1>2
    <2> QED BY <2>1, <2>2, <2>3 DEF ReturnsNextPiece
  <1> QED BY <1>3, <1>4, <1>5, <1>6

LEMMA StepRecv == RecvInv /\ [Next]_vars => RecvInv'
  <1> SUFFICES ASSUME RecvInv, [Next]_vars PROVE RecvInv'
    OBVIOUS
  <1>1. ASSUME NEW n \in 1 .. MaxBytes, Send(n) PROVE RecvInv'
    <2>1. sent' \in sent .. MaxBytes /\ UNCHANGED <<newline, closed, taken, in_buf, len, in_ptr,
             out_buf, out_ptr, pc, delivered, result>>
      BY <1>1 DEF Send, RecvInv, TypeOK
    <2> QED BY <2>1 DEF RecvInv, TypeOK, RestInv, OutInv, ScanInv, ReturnsNextPiece, Begun
  <1>2. CASE Close
    BY <1>2 DEF Close, RecvInv, TypeOK, RestInv, OutInv, ScanInv, ReturnsNextPiece, Begun
  <1>3. CASE Call
    BY <1>3 DEF Call, sender, RecvInv, TypeOK, RestInv, OutInv, ScanInv, ReturnsNextPiece, Begun, Cells
  <1>4. CASE Keep
    BY <1>4 DEF Keep, UsedUp, sender, RecvInv, TypeOK, RestInv, OutInv, ScanInv, ReturnsNextPiece, Begun
  <1>5. ASSUME NEW t \in 1 .. BufSize - 1, Recv(t) PROVE RecvInv'
    <2>0. /\ in_ptr = -1 /\ delivered + out_ptr = taken /\ pc = "read"
          /\ out_ptr \in 0 .. BufSize - 2 /\ delivered \in Nat /\ taken \in Nat
      BY <1>5 DEF Recv, UsedUp, RecvInv, TypeOK, RestInv, OutInv, Begun, Cells
    <2>1. TypeOK'
      BY <1>5 DEF Recv, sender, Cells, NUL, RecvInv, TypeOK
    <2>2. RestInv'
      <3>1. /\ in_ptr' = 0 /\ len' = t /\ Begun' = out_ptr /\ taken' = taken + t
            /\ delivered' = delivered
        BY <1>5 DEF Recv, Begun
      <3>2. \A k \in 0 .. t - 1 : in_buf'[k] = taken + k
        BY <1>5 DEF Recv, Cells
      <3>3. in_ptr' <= len' /\ in_ptr' < BufSize - 1 /\ ~ (in_ptr' = -1)
        BY <3>1
      <3>4. delivered' + Begun' + len' - in_ptr' = taken'
        BY <3>1, <2>0
      <3>5. \A k \in in_ptr' .. len' - 1 : in_buf'[k] = delivered' + Begun' + k - in_ptr'
        BY <3>1, <3>2, <2>0
      <3> QED BY <3>3, <3>4, <3>5 DEF RestInv
    <2>3. OutInv' /\ ScanInv' /\ ReturnsNextPiece'
      BY <1>5 DEF Recv, sender, RecvInv, OutInv, ScanInv, ReturnsNextPiece
    <2> QED BY <2>1, <2>2, <2>3 DEF RecvInv
  <1>6. CASE RecvEnd
    BY <1>6 DEF RecvEnd, sender, RecvInv, TypeOK, RestInv, OutInv, ScanInv, ReturnsNextPiece, Begun
  <1>7. CASE RecvError
    BY <1>7 DEF RecvError, sender, RecvInv, TypeOK, RestInv, OutInv, ScanInv, ReturnsNextPiece, Begun
  <1>s. ASSUME pc = "scan"
        PROVE  /\ out_ptr \in 0 .. BufSize - 2 /\ in_ptr \in 0 .. BufSize - 2
               /\ in_ptr <= len /\ len \in 0 .. BufSize - 1 /\ delivered \in Nat
    BY <1>s DEF RecvInv, TypeOK, RestInv, OutInv, ScanInv, Cells
  <1>8. CASE TakePart
    <2>0. pc = "scan" /\ pc' = "read" /\ UNCHANGED <<sender, taken, in_buf, len, delivered, result>>
      BY <1>8 DEF TakePart
    <2>1. PICK i \in in_ptr .. BufSize :
             /\ IsStop(i) /\ i >= len /\ Fits(i - in_ptr)
             /\ out_buf' = Copied(i - in_ptr)
             /\ out_ptr' = out_ptr + i - in_ptr
             /\ in_ptr' = Advance(i, len)
      BY <1>8 DEF TakePart
    <2>2. i = len /\ \A k \in delivered .. delivered + out_ptr + i - in_ptr - 1 : k \notin newline
      BY <2>0, <2>1, <1>s, NoNewlineBefore
    <2>3. in_ptr' = -1 /\ out_ptr + (i - in_ptr) <= BufSize - 2 /\ i - in_ptr \in Nat
      BY <2>1, <2>2, <2>0, <1>s DEF Advance, Fits, Space
    <2>4. /\ Copied(i - in_ptr) \in [Cells -> 0 .. MaxBytes \cup {NUL}]
          /\ \A k \in 0 .. out_ptr + (i - in_ptr) - 1 : Copied(i - in_ptr)[k] = delivered + k
      BY <2>0, <2>2, <2>3, <1>s, CopyInOrder
    <2>5. TypeOK'
      BY <2>0, <2>1, <2>3, <2>4, <1>s DEF RecvInv, TypeOK, sender, Cells
    <2>6. RestInv'
      BY <2>0, <2>1, <2>2, <2>3, <1>s DEF RecvInv, TypeOK, RestInv, OutInv, Begun, sender
    <2>7. OutInv'
      <3>1. ASSUME NEW k \in 0 .. out_ptr' - 1
            PROVE  out_buf'[k] = delivered' + k /\ out_buf'[k] \notin newline'
        <4>1. k \in 0 .. out_ptr + (i - in_ptr) - 1
              /\ delivered + k \in delivered .. delivered + out_ptr + i - in_ptr - 1
          BY <2>1, <2>0, <1>s
        <4>2. out_buf'[k] = delivered + k
          BY <4>1, <2>1, <2>4
        <4> QED BY <4>1, <4>2, <2>0, <2>2 DEF sender
      <3> QED BY <3>1, <2>0, <2>1, <2>3, <1>s DEF RecvInv, OutInv
    <2> QED BY <2>0, <2>5, <2>6, <2>7 DEF RecvInv, ScanInv, ReturnsNextPiece
  <1>9. CASE TakeLine
    <2>0. pc = "scan" /\ UNCHANGED <<sender, taken, in_buf, len>>
      BY <1>9 DEF TakeLine
    <2>1. PICK i \in in_ptr .. BufSize :
             /\ IsStop(i) /\ i < len /\ Fits(i - in_ptr)
             /\ out_buf' = Copied(i - in_ptr + 1)
             /\ in_ptr' = Advance(i + 1, len)
             /\ Return(out_ptr + i - in_ptr + 1)
      BY <1>9 DEF TakeLine
    <2> DEFINE n == i - in_ptr + 1
    <2>2. \A k \in delivered .. delivered + out_ptr + i - in_ptr - 1 : k \notin newline
      BY <2>0, <2>1, <1>s, NoNewlineBefore
    <2>3. /\ n \in 1 .. BufSize - 1 - out_ptr /\ in_ptr + n <= len
          /\ in_ptr' = Advance(in_ptr + n, len) /\ in_ptr' < BufSize - 1
          /\ Return(out_ptr + n) /\ out_buf' = Copied(n)
      <3>1. out_ptr + n = out_ptr + i - in_ptr + 1 /\ in_ptr + n = i + 1
        BY <2>0, <2>1, <1>s
      <3> QED BY <3>1, <2>0, <2>1, <1>s DEF Advance, Fits, Space
    <2>4. delivered + out_ptr + n - 1 \in newline
      <3>1. in_buf[i] \in newline /\ i \in in_ptr .. len - 1
        BY <2>1, <2>0, <1>s DEF IsStop
      <3>2. in_buf[i] = delivered + out_ptr + i - in_ptr
        BY <3>1, <2>0, <1>s DEF RecvInv, RestInv, OutInv, Begun
      <3>3. delivered + out_ptr + n - 1 = delivered + out_ptr + i - in_ptr
        BY <2>1, <2>0, <1>s
      <3> QED BY <3>1, <3>2, <3>3
    <2>5. \A k \in delivered .. delivered + out_ptr + n - 2 : k \notin newline
      BY <2>0, <2>1, <2>2, <1>s
    <2> HIDE DEF n
    <2> QED BY <2>0, <2>3, <2>4, <2>5, ReturnNext
  <1>10. CASE TakeFull
    <2>0. /\ pc = "scan" /\ UNCHANGED <<sender, taken, in_buf, len>>
          /\ out_buf' = Copied(Space) /\ in_ptr' = Advance(in_ptr + Space, BufSize - 1)
          /\ Return(BufSize - 1)
      BY <1>10 DEF TakeFull
    <2>1. PICK i \in in_ptr .. BufSize : IsStop(i) /\ ~ Fits(i - in_ptr)
      BY <1>10 DEF TakeFull
    <2>2. /\ i <= len
          /\ \A k \in delivered .. delivered + out_ptr + i - in_ptr - 1 : k \notin newline
      BY <2>0, <2>1, <1>s, NoNewlineBefore
    <2>3. Space \in 1 .. BufSize - 1 - out_ptr /\ out_ptr + Space = BufSize - 1 /\ in_ptr + Space <= len
      BY <2>0, <2>1, <2>2, <1>s DEF Space, Fits
    <2>4. \/ in_ptr' = in_ptr + Space /\ in_ptr + Space < BufSize - 1
          \/ in_ptr' = -1 /\ in_ptr + Space = len
      BY <2>0, <2>3, <1>s DEF Advance
    <2>5. \A k \in delivered .. delivered + out_ptr + Space - 2 : k \notin newline
      BY <2>0, <2>1, <2>2, <2>3, <1>s DEF Fits
    <2>6. in_ptr' = Advance(in_ptr + Space, len) \/ in_ptr' = in_ptr + Space
      BY <2>4, <2>3, <2>0, <1>s DEF Advance
    <2>7. Return(out_ptr + Space)
      BY <2>0, <2>3
    <2>8. in_ptr' < BufSize - 1
      BY <2>4
    <2> HIDE DEF Space
    <2> QED BY <2>0, <2>3, <2>5, <2>6, <2>7, <2>8, ReturnNext
  <1>11. CASE UNCHANGED vars
    BY <1>11 DEF vars, RecvInv, TypeOK, RestInv, OutInv, ScanInv, ReturnsNextPiece, Begun
  <1> QED BY <1>1, <1>2, <1>3, <1>4, <1>5, <1>6, <1>7, <1>8, <1>9, <1>10, <1>11 DEF Next, Reader

\* Type correctness: every index stays within its buffer.
THEOREM TypeCorrect == Spec => []TypeOK
  <1>1. RecvInv => TypeOK
    BY DEF RecvInv
  <1> QED BY <1>1, InitRecv, StepRecv, PTL DEF Spec

\* Strings come out in order, whole, and each within its buffer, however the
\* kernel cuts the stream (socket.c:175 to 240).
THEOREM ReturnsNextPieceHolds == Spec => []ReturnsNextPiece
  <1>1. RecvInv => ReturnsNextPiece
    BY DEF RecvInv
  <1> QED BY <1>1, InitRecv, StepRecv, PTL DEF Spec

\* Nothing is lost between two calls: what is left over lies in the caller's
\* buffer (socket.c:182 and 183).
THEOREM RestIsInBufferHolds == Spec => []RestIsInBuffer
  <1>1. RecvInv => RestIsInBuffer
    BY DEF RecvInv, RestInv, RestIsInBuffer, Begun, TypeOK
  <1> QED BY <1>1, InitRecv, StepRecv, PTL DEF Spec

\* The abstract stream sees a step of the reader as the delivery of a piece,
\* as the end, or not at all.
LEMMA StepFraming == RecvInv /\ RecvInv' /\ [Next]_vars => [Stream!Next]_(Stream!fvars)
  <1> SUFFICES ASSUME RecvInv, RecvInv', [Next]_vars
               PROVE  Stream!Next \/ UNCHANGED <<newline, sent, delivered, (result = "end")>>
    BY DEF Stream!fvars
  <1>1. ASSUME NEW n \in 1 .. MaxBytes, Send(n) PROVE Stream!Next
    <2>1. sent' \in sent + 1 .. MaxBytes
      BY <1>1 DEF Send, RecvInv, TypeOK
    <2> QED BY <2>1, <1>1 DEF Send, Stream!Send, Stream!Next
  <1>2. ASSUME pc = "scan", pc' = "idle", result' = "string", delivered' = delivered + out_ptr',
               UNCHANGED <<sender, taken, in_buf, len>>
        PROVE  Stream!Next
    <2>1. /\ out_ptr' \in 1 .. BufSize - 1
          /\ \A k \in 0 .. out_ptr' - 1 : out_buf'[k] = delivered' - out_ptr' + k
          /\ \A k \in 0 .. out_ptr' - 2 : out_buf'[k] \notin newline'
          /\ out_buf'[out_ptr' - 1] \in newline' \/ out_ptr' = BufSize - 1
      BY <1>2 DEF RecvInv, ReturnsNextPiece
    <2>2. delivered \in Nat /\ sent \in Nat /\ newline' = newline /\ sent' = sent
          /\ delivered + out_ptr' <= sent
      BY <1>2 DEF RecvInv, TypeOK, sender
    <2>3. /\ out_ptr' \in 1 .. BufSize - 1 /\ out_ptr' \in Int /\ delivered \in Int
          /\ \A j \in 0 .. out_ptr' - 1 : out_buf'[j] = delivered + j
          /\ \A j \in 0 .. out_ptr' - 2 : out_buf'[j] \notin newline
          /\ out_buf'[out_ptr' - 1] \in newline \/ out_ptr' = BufSize - 1
      <3>1. out_ptr' \in Int /\ delivered \in Int /\ delivered' - out_ptr' = delivered
        <4>1. out_ptr' \in 1 .. BufSize - 1 /\ BufSize \in Int
          BY <2>1, RecvAssumption
        <4>2. out_ptr' \in Int /\ delivered \in Int
          BY <4>1, <2>2
        <4>3. delivered' = delivered + out_ptr'
          BY <1>2
        <4>4. ASSUME NEW a \in Int, NEW b \in Int PROVE (a + b) - b = a
          OBVIOUS
        <4> QED BY <4>2, <4>3, <4>4, Zenon
      <3> QED BY <3>1, <2>1, <2>2
    <2>4. Stream!Piece(delivered, out_ptr')
      <3> DEFINE m == out_ptr'
                 b == out_buf'
      <3>0. /\ m \in 1 .. BufSize - 1 /\ m \in Int /\ delivered \in Int
            /\ \A j \in 0 .. m - 1 : b[j] = delivered + j
            /\ \A j \in 0 .. m - 2 : b[j] \notin newline
            /\ b[m - 1] \in newline \/ m = BufSize - 1
        BY <2>3
      <3> HIDE DEF m, b
      <3>1. ASSUME NEW k \in delivered .. delivered + m - 2 PROVE k \notin newline
        <4>1. k - delivered \in 0 .. m - 2 /\ k - delivered \in 0 .. m - 1
              /\ delivered + (k - delivered) = k
          BY <3>0
        <4>2. b[k - delivered] = k
          BY <4>1, <3>0
        <4> QED BY <4>1, <4>2, <3>0
      <3>2. delivered + m - 1 \in newline \/ m = BufSize - 1
        <4>1. m - 1 \in 0 .. m - 1 /\ delivered + (m - 1) = delivered + m - 1
          BY <3>0
        <4>2. b[m - 1] = delivered + m - 1
          BY <4>1, <3>0
        <4> QED BY <4>2, <3>0
      <3>3. Stream!Piece(delivered, m)
        BY <3>0, <3>1, <3>2 DEF Stream!Piece
      <3> QED BY <3>3 DEF m
    <2>5. result # "end" /\ result' # "end"
      BY <1>2 DEF RecvInv, OutInv
    <2> QED BY <2>1, <2>2, <2>4, <2>5, <1>2 DEF Stream!Deliver, Stream!Next
  <1>3. CASE TakeLine
    <2>1. \E i \in in_ptr .. BufSize : Return(out_ptr + i - in_ptr + 1)
      BY <1>3 DEF TakeLine
    <2> QED BY <2>1, <1>2, <1>3 DEF TakeLine, Return
  <1>4. CASE TakeFull
    BY <1>2, <1>4 DEF TakeFull, Return
  <1>5. CASE RecvEnd
    <2>1. /\ pc = "read" /\ taken = sent /\ UNCHANGED <<newline, sent, delivered>>
          /\ result' = "end" /\ result # "end"
      BY <1>5 DEF RecvEnd, sender, RecvInv, OutInv
    <2>2. /\ delivered + out_ptr = taken /\ out_ptr \in 0 .. BufSize - 2 /\ delivered \in Nat
          /\ \A k \in 0 .. out_ptr - 1 : out_buf[k] = delivered + k /\ out_buf[k] \notin newline
      BY <1>5 DEF RecvEnd, UsedUp, RecvInv, TypeOK, RestInv, OutInv, Begun, Cells
    <2>3. ASSUME NEW n \in 1 .. BufSize - 1, delivered + n <= sent PROVE ~ Stream!Piece(delivered, n)
      <3>1. n - 1 \in 0 .. out_ptr - 1 /\ n # BufSize - 1
        BY <2>1, <2>2, <2>3
      <3>2. delivered + n - 1 \notin newline
        <4>1. out_buf[n - 1] = delivered + (n - 1) /\ out_buf[n - 1] \notin newline
          BY <3>1, <2>2
        <4> QED BY <4>1, <2>2
      <3> QED BY <3>1, <3>2 DEF Stream!Piece
    <2> QED BY <2>1, <2>3 DEF Stream!End, Stream!Next
  <1>6. CASE RecvError
    BY <1>6 DEF RecvError, sender, RecvInv, OutInv
  <1>7. CASE Close
    BY <1>7 DEF Close
  <1>8. CASE Call
    BY <1>8 DEF Call, sender
  <1>9. CASE Keep
    BY <1>9 DEF Keep, sender
  <1>10. ASSUME NEW t \in 1 .. BufSize - 1, Recv(t)
         PROVE  UNCHANGED <<newline, sent, delivered, (result = "end")>>
    BY <1>10 DEF Recv, sender
  <1>11. CASE TakePart
    BY <1>11 DEF TakePart, sender
  <1>12. CASE UNCHANGED vars
    BY <1>12 DEF vars
  <1> QED BY <1>1, <1>3, <1>4, <1>5, <1>6, <1>7, <1>8, <1>9, <1>10, <1>11, <1>12 DEF Next, Reader

\* The two ends of the socket implement the stream of pieces.
THEOREM RecvRefinesFraming == Spec => ImplementsFraming
  <1>1. Init => Stream!Init
    BY DEF Init, Stream!Init
  <1> QED BY <1>1, InitRecv, StepRecv, StepFraming, PTL DEF Spec, ImplementsFraming, Stream!Spec
=============================================================================
