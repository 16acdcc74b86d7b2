------------------------------ MODULE Framing ------------------------------
(***************************************************************************)
(* What reading a socket line by line promises: the bytes the peer sent    *)
(* are handed out in order, none lost and none twice, in pieces that end   *)
(* with a newline or fill the reader's buffer, and the end of the stream   *)
(* is not reported while a piece could still be handed out.  A byte is     *)
(* named by its position in the stream.                                    *)
(***************************************************************************)
EXTENDS Integers

CONSTANTS
    MaxPiece,   \* length of a piece that fills the buffer
    MaxBytes    \* bound on the bytes sent

VARIABLES
    newline,    \* the positions that hold a newline
    sent,       \* bytes the peer has sent
    delivered,  \* bytes the reader has been given
    ended       \* the reader was told that there is no more

fvars == <<newline, sent, delivered, ended>>

Init ==
    /\ newline \subseteq 0 .. MaxBytes - 1
    /\ sent = 0 /\ delivered = 0 /\ ended = FALSE

\* A piece of n bytes from position p: a whole line, or as much as fits.
Piece(p, n) ==
    /\ n \in 1 .. MaxPiece
    /\ \A k \in p .. p + n - 2 : k \notin newline
    /\ p + n - 1 \in newline \/ n = MaxPiece

Send ==
    /\ sent' \in sent + 1 .. MaxBytes
    /\ UNCHANGED <<newline, delivered, ended>>

Deliver ==
    /\ ~ ended
    /\ \E n \in 1 .. MaxPiece :
          /\ Piece(delivered, n)
          /\ delivered + n <= sent
          /\ delivered' = delivered + n
    /\ UNCHANGED <<newline, sent, ended>>

End ==
    /\ ~ ended
    /\ \A n \in 1 .. MaxPiece : delivered + n <= sent => ~ Piece(delivered, n)
    /\ ended' = TRUE
    /\ UNCHANGED <<newline, sent, delivered>>

Next == Send \/ Deliver \/ End

Spec == Init /\ [][Next]_fvars
=============================================================================
