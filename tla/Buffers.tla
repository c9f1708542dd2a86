-------------------------------- MODULE Buffers --------------------------------
(***************************************************************************)
(* The ring buffers between services and their uplink (src/sockutil.c).    *)
(* The two share no state, so a behaviour is about one: bfKind.  Bytes are *)
(* numbered in the order they are written, modulo BfBytes.                 *)
(***************************************************************************)
EXTENDS Naturals

CONSTANTS
    BfSize,         \* NET_BUFSIZE, 65536 in the code
    BfBytes,        \* bound: byte numbers start again
    BfLine          \* bound: the longest line

ASSUME BfAssumption ==
    {BfSize, BfBytes, BfLine} \subseteq Nat /\ BfLine < BfSize /\ BfSize < BfBytes

VARIABLES
    bfKind,         \* "read" or "write"
    bfBuf,          \* read_netbuf, write_netbuf
    bfCurpos,       \* read_curpos, write_curpos
    bfBufend,       \* read_bufend, write_bufend
    bfLeft,         \* what the call of buffered_write() has still to put in
    bfPut, bfGot,   \* the number of the next byte in, and of the next out
    bfWrong,        \* history: a byte came out that was not the next
    bfFilled        \* history: a line ended, or went on, at the top of a
                    \* buffer whose first byte had not gone out

bfVars == <<bfKind, bfBuf, bfCurpos, bfBufend, bfLeft, bfPut, bfGot, bfWrong, bfFilled>>
Positions == 0..(BfSize - 1)
ByteNumbers == 0..(BfBytes - 1)

BuffersTypeOK ==
    /\ bfKind \in {"read", "write"}
    /\ bfBuf \in [Positions -> ByteNumbers]
    /\ {bfCurpos, bfBufend} \subseteq Positions
    /\ bfLeft \in 0..BfLine
    /\ {bfPut, bfGot} \subseteq ByteNumbers
    /\ {bfWrong, bfFilled} \subseteq BOOLEAN

BuffersInit ==
    /\ bfKind \in {"read", "write"}
    /\ bfBuf = [i \in Positions |-> 0]
    /\ bfCurpos = 0 /\ bfBufend = 0 /\ bfLeft = 0
    /\ bfPut = 0 /\ bfGot = 0 /\ bfWrong = FALSE /\ bfFilled = FALSE

-----------------------------------------------------------------------------
(* The ring.                                                               *)

\* read_buffer_len() and write_buffer_len().
BufferLen ==
    IF bfBufend >= bfCurpos THEN bfBufend - bfCurpos ELSE bfBufend + BfSize - bfCurpos

\* What both directions take for a full buffer.
BfFull(cur, end) == cur = end + 1 \/ (cur = 0 /\ end = BfSize - 1)

B0 == [buf |-> bfBuf, cur |-> bfCurpos, end |-> bfBufend, left |-> bfLeft, put |-> bfPut,
       got |-> bfGot, wrong |-> bfWrong, filled |-> bfFilled]
BfBecomes(S) ==
    /\ bfBuf' = S.buf /\ bfCurpos' = S.cur /\ bfBufend' = S.end /\ bfLeft' = S.left
    /\ bfPut' = S.put /\ bfGot' = S.got /\ bfWrong' = S.wrong /\ bfFilled' = S.filled
    /\ UNCHANGED bfKind

\* The next n bytes go in at the end, and come out at the current position.
PutIn(S, n) ==
    [S EXCEPT !.buf = [i \in Positions |->
                 IF S.end <= i /\ i < S.end + n THEN (S.put + i - S.end) % BfBytes ELSE @[i]],
              !.put = (@ + n) % BfBytes, !.end = (@ + n) % BfSize]
TakeOut(S, n) ==
    [S EXCEPT !.got = (@ + n) % BfBytes, !.cur = (@ + n) % BfSize,
              !.wrong = @ \/ \E i \in 1..n : S.buf[S.cur + i - 1] # (S.got + i - 1) % BfBytes]

-----------------------------------------------------------------------------
(* Writing.                                                                *)

\* sockprintf(), sputs(): a line is to go out.
Sputs(len) ==
    /\ bfKind = "write" /\ bfLeft = 0
    /\ BfBecomes([B0 EXCEPT !.left = len])

\* Mutant of CopyIn: the place in front of the first byte is filled.
CopyInFull(S) ==
    LET top == S.end + S.left >= BfSize /\ S.cur <= S.end
        n1 == IF top THEN BfSize - S.end ELSE 0
        T == [PutIn(S, n1) EXCEPT !.left = @ - n1, !.filled = @ \/ (top /\ S.cur = 0)]
        n2 == IF T.cur > T.end /\ T.cur - T.end < T.left THEN T.cur - T.end ELSE T.left
    IN  IF BfFull(S.cur, S.end) THEN S ELSE [PutIn(T, n2) EXCEPT !.left = @ - n2]

\* What buffered_write() copies in one round, unless the buffer is full: up to
\* the top of it first, then what fits behind the first byte.
CopyIn(S) ==
    LET top == S.end + S.left >= BfSize /\ S.cur <= S.end
        n1 == IF top THEN BfSize - S.end ELSE 0
        T == [PutIn(S, n1) EXCEPT !.left = @ - n1, !.filled = @ \/ (top /\ S.cur = 0)]
        n2 == IF T.cur > T.end /\ T.cur - T.end - 1 < T.left THEN T.cur - T.end - 1 ELSE T.left
    IN  IF BfFull(S.cur, S.end) THEN S ELSE [PutIn(T, n2) EXCEPT !.left = @ - n2]

\* flush_write_buffer(): one chunk, of which the socket takes n bytes.  What
\* is behind the top, or the socket does not take, waits for the next line.
Chunk(S) == IF S.cur > S.end THEN BfSize - S.cur ELSE S.end - S.cur
FlushWriteBuffer(S, n) == IF n <= Chunk(S) THEN TakeOut(S, n) ELSE TakeOut(S, Chunk(S))

\* One round of buffered_write(); it gives a line up when the buffer is full
\* and the socket fails.
BufferedWrite(n) ==
    LET S == FlushWriteBuffer(CopyIn(B0), n) IN
    /\ bfKind = "write" /\ bfLeft > 0
    /\ BfBecomes(IF BfFull(S.cur, S.end) THEN [S EXCEPT !.left = 0] ELSE S)

-----------------------------------------------------------------------------
(* Reading.                                                                *)

\* The loop of buffered_read_one() that gets what the socket has.
ReadSocket(n) ==
    /\ bfKind = "read" /\ ~BfFull(bfCurpos, bfBufend)
    /\ n <= (IF bfBufend < bfCurpos THEN bfCurpos - 1 - bfBufend
             ELSE IF bfCurpos = 0 THEN BfSize - 1 - bfBufend ELSE BfSize - bfBufend)
    /\ BfBecomes(PutIn(B0, n))

\* buffered_read_one(): the next byte, for sgets() and sgets2().
BufferedReadOne ==
    /\ bfKind = "read" /\ bfCurpos # bfBufend
    /\ BfBecomes(TakeOut(B0, 1))

\* sgets(): bytes up to the end of a line, or as many as the caller has room
\* for; the rest of a longer line is the next line.
Sgets == BufferLen > 0 /\ BufferedReadOne

BuffersNext ==
    \/ \E n \in 1..BfLine : Sputs(n) \/ ReadSocket(n)
    \/ \E n \in 0..BfSize : BufferedWrite(n)
    \/ Sgets

BuffersSpec == BuffersInit /\ [][BuffersNext]_bfVars
-----------------------------------------------------------------------------
(* Safety.                                                                 *)

\* Bytes come out in the order they went in, none is lost or repeated, and
\* the length is what is between the two - until a line that reaches the top
\* of the write buffer finds its very first byte not sent: then the buffer
\* counts as empty, and is written over.
InOrder ==
    ~bfFilled => ~bfWrong /\ BufferLen = (bfPut + BfBytes - bfGot) % BfBytes
================================================================================
