----------------------------- MODULE RecvString -----------------------------
(***************************************************************************)
(* The two ends of a socket between a request and its connector            *)
(* (src/src/socket.c): send_string writes as much at a time as the kernel  *)
(* takes, recv_string cuts the bytes that arrive into lines, keeping what   *)
(* is left over in the caller's buffer from one call to the next.          *)
(*                                                                         *)
(* A byte is named by its position in the stream, so that a buffer shows   *)
(* which bytes it holds; `newline' says which of them are newlines.  One   *)
(* step is one pass through a branch of the loop of recv_string.           *)
(***************************************************************************)
EXTENDS Integers

CONSTANTS
    BufSize,    \* DBRELAY_SOCKET_BUFSIZE
    MaxBytes    \* bound on the bytes of a stream

ASSUME RecvAssumption == BufSize \in Nat /\ BufSize >= 2 /\ MaxBytes \in Nat

NUL == -1       \* the end of a string in a buffer

VARIABLES
    newline,    \* the positions of the stream that hold a newline
    sent,       \* bytes the sender has given to the kernel
    closed,     \* the sender has closed its end
    taken,      \* bytes the kernel has given to recv
    in_buf, len,\* the caller's buffer, and strlen(in_buf)
    in_ptr,     \* where in in_buf the next string begins; -1: read first
    out_buf,    \* the string being built
    out_ptr,    \* its length so far
    pc,         \* "idle" between calls, "read" and "scan" within the loop
    delivered,  \* bytes in the strings returned so far
    result      \* what the last call returned: a string, 0 or -1

sender == <<newline, sent, closed>>
vars == <<newline, sent, closed, taken, in_buf, len, in_ptr, out_buf, out_ptr, pc,
          delivered, result>>

Cells == 0 .. BufSize - 1

Init ==
    /\ newline \in SUBSET (0 .. MaxBytes - 1)
    /\ sent = 0 /\ closed = FALSE /\ taken = 0
    /\ in_buf = [k \in Cells |-> NUL] /\ len = 0 /\ in_ptr = -1
    /\ out_buf = [k \in Cells |-> NUL] /\ out_ptr = 0
    /\ pc = "idle" /\ delivered = 0 /\ result = "none"

\* One turn of the loop of send_string: the kernel takes n bytes of the rest.
Send(n) ==
    /\ ~ closed
    /\ sent + n <= MaxBytes
    /\ sent' = sent + n
    /\ UNCHANGED <<newline, closed, taken, in_buf, len, in_ptr, out_buf, out_ptr, pc,
                   delivered, result>>

Close ==
    /\ ~ closed
    /\ closed' = TRUE
    /\ UNCHANGED <<newline, sent, taken, in_buf, len, in_ptr, out_buf, out_ptr, pc,
                   delivered, result>>

CallKeepsOut ==                                                         \* mutant
    /\ pc = "idle" /\ result \in {"none", "string"} /\ pc' = "read"
    /\ UNCHANGED <<sender, taken, in_buf, len, in_ptr, out_buf, out_ptr, delivered, result>>

\* Readers call again for as long as they get strings.
Call ==
    /\ pc = "idle"
    /\ result \in {"none", "string"}
    /\ pc' = "read"
    /\ out_ptr' = 0
    /\ UNCHANGED <<sender, taken, in_buf, len, in_ptr, out_buf, delivered, result>>

\* strncpy of n bytes from in_buf[in_ptr] to out_buf[out_ptr], then a NUL.
Copied(n) ==
    [k \in Cells |-> IF k \in out_ptr .. out_ptr + n - 1 THEN in_buf[in_ptr + k - out_ptr]
                     ELSE IF k = out_ptr + n THEN NUL ELSE out_buf[k]]

Return(n) ==
    /\ pc' = "idle"
    /\ result' = "string"
    /\ out_ptr' = n
    /\ delivered' = delivered + n

\* The buffer was used up by the last call, or holds something still.
UsedUp == in_ptr = -1 \/ in_ptr >= BufSize - 1

Keep ==
    /\ pc = "read"
    /\ ~ UsedUp
    /\ pc' = "scan"
    /\ UNCHANGED <<sender, taken, in_buf, len, in_ptr, out_buf, out_ptr, delivered, result>>

\* recv gives t bytes, at most one less than the buffer holds.  (A recv that
\* is interrupted changes nothing and is tried again.)
Recv(t) ==
    /\ pc = "read"
    /\ UsedUp
    /\ taken + t <= sent
    /\ in_buf' = [k \in Cells |-> IF k < t THEN taken + k ELSE IF k = t THEN NUL ELSE in_buf[k]]
    /\ len' = t
    /\ taken' = taken + t
    /\ in_ptr' = 0
    /\ pc' = "scan"
    /\ UNCHANGED <<sender, out_buf, out_ptr, delivered, result>>

\* recv gives 0 when the sender has closed and nothing is left.
RecvEnd ==
    /\ pc = "read"
    /\ UsedUp
    /\ closed /\ taken = sent
    /\ pc' = "idle"
    /\ result' = "end"
    /\ in_ptr' = -1
    /\ UNCHANGED <<sender, taken, in_buf, len, out_buf, out_ptr, delivered>>

\* select or recv gives -1: a timeout of a non-blocking socket, a reset.
RecvError ==
    /\ pc = "read"
    /\ UsedUp
    /\ pc' = "idle"
    /\ result' = "error"
    /\ in_ptr' = -1
    /\ UNCHANGED <<sender, taken, in_buf, len, out_buf, out_ptr, delivered>>

\* The position of the next newline in in_buf, or its end.
IsStop(i) ==
    /\ i \in in_ptr .. BufSize
    /\ \A k \in in_ptr .. i - 1 : k < len /\ in_buf[k] \notin newline
    /\ i >= len \/ in_buf[i] \in newline

Space == BufSize - out_ptr - 1
FitsWithoutEnd(avail) == Space >= avail                                 \* mutant
Fits(avail) == Space > avail

AdvanceOnly(ptr, end) == ptr                                            \* mutant
Advance(ptr, end) == IF ptr >= end THEN -1 ELSE ptr

\* No newline in the buffer: take all of it and read on.
TakePart ==
    /\ pc = "scan"
    /\ \E i \in in_ptr .. BufSize :
          /\ IsStop(i) /\ i >= len
          /\ Fits(i - in_ptr)
          /\ out_buf' = Copied(i - in_ptr)
          /\ out_ptr' = out_ptr + i - in_ptr
          /\ in_ptr' = Advance(i, len)
    /\ pc' = "read"
    /\ UNCHANGED <<sender, taken, in_buf, len, delivered, result>>

\* A newline: the string ends with it.
TakeLine ==
    /\ pc = "scan"
    /\ \E i \in in_ptr .. BufSize :
          /\ IsStop(i) /\ i < len
          /\ Fits(i - in_ptr)
          /\ out_buf' = Copied(i - in_ptr + 1)
          /\ in_ptr' = Advance(i + 1, len)
          /\ Return(out_ptr + i - in_ptr + 1)
    /\ UNCHANGED <<sender, taken, in_buf, len>>

TakeFullDropsRest ==                                                    \* mutant
    /\ pc = "scan"
    /\ \E i \in in_ptr .. BufSize : IsStop(i) /\ ~ Fits(i - in_ptr)
    /\ out_buf' = Copied(Space)
    /\ in_ptr' = -1
    /\ Return(BufSize - 1)
    /\ UNCHANGED <<sender, taken, in_buf, len>>

\* The string fills the caller's buffer: return it without a newline.
TakeFull ==
    /\ pc = "scan"
    /\ \E i \in in_ptr .. BufSize : IsStop(i) /\ ~ Fits(i - in_ptr)
    /\ out_buf' = Copied(Space)
    /\ in_ptr' = Advance(in_ptr + Space, BufSize - 1)
    /\ Return(BufSize - 1)
    /\ UNCHANGED <<sender, taken, in_buf, len>>

Reader ==
    \/ Call \/ Keep \/ RecvEnd \/ TakePart \/ TakeLine \/ TakeFull
    \/ \E t \in 1 .. BufSize - 1 : Recv(t)

Next ==
    \/ \E n \in 1 .. MaxBytes : Send(n)
    \/ Close
    \/ RecvError
    \/ Reader

Spec == Init /\ [][Next]_vars /\ WF_vars(Reader)

-----------------------------------------------------------------------------
\* The indices of recv_string stay inside its two buffers (socket.c 191 to 263).
TypeOK ==
    /\ newline \subseteq 0 .. MaxBytes - 1
    /\ sent \in 0 .. MaxBytes /\ taken \in 0 .. sent /\ delivered \in 0 .. taken
    /\ closed \in BOOLEAN
    /\ in_buf \in [Cells -> 0 .. MaxBytes \cup {NUL}]
    /\ out_buf \in [Cells -> 0 .. MaxBytes \cup {NUL}]
    /\ len \in Cells /\ in_ptr \in -1 .. BufSize - 1 /\ out_ptr \in Cells
    /\ pc \in {"idle", "read", "scan"}
    /\ result \in {"none", "string", "end", "error"}

\* A string that is returned fits its buffer with its end, continues the stream
\* where the one before stopped, and has a newline at its end and nowhere else,
\* or is as long as a string can be (socket.c:226 to 258).
ReturnsNextPiece ==
    pc = "idle" /\ result = "string" =>
        /\ out_ptr \in 1 .. BufSize - 1
        /\ out_buf[out_ptr] = NUL
        /\ \A k \in 0 .. out_ptr - 1 : out_buf[k] = delivered - out_ptr + k
        /\ \A k \in 0 .. out_ptr - 2 : out_buf[k] \notin newline
        /\ out_buf[out_ptr - 1] \in newline \/ out_ptr = BufSize - 1

\* What has been read from the socket and not returned is all in the caller's
\* buffer: a caller that throws it away once it has read all that was sent, as
\* each function of client.c does with its own in_buf (client.c:205), loses
\* nothing, and one that keeps it has the rest (socket.c:202 to 203).
RestIsInBuffer ==
    pc = "idle" /\ result = "string" =>
        IF in_ptr = -1 THEN delivered = taken
        ELSE /\ in_ptr <= len
             /\ delivered + len - in_ptr = taken
             /\ \A k \in in_ptr .. len - 1 : in_buf[k] = delivered + k - in_ptr

\* The reader implements the stream of pieces the protocol is written against.
Stream == INSTANCE Framing WITH MaxPiece <- BufSize - 1, ended <- (result = "end")
ImplementsFraming == Stream!Spec

\* Every line that was sent reaches the reader, unless the socket breaks
\* (the loop of socket.c:200 ends).
EveryLineDelivered ==
    \A p \in 0 .. MaxBytes - 1 :
        (p \in newline /\ p < sent) ~> (delivered > p \/ result = "error")
=============================================================================
