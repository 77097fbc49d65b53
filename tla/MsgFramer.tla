----------------------------- MODULE MsgFramer -----------------------------
(***************************************************************************)
(* TmxApi's MsgFramer: cutting messages out of a byte stream.              *)
(*                                                                         *)
(* A message travels as STX, its text, ETX.  The receiver (PluginConnection*)
(* in the core, ivp_receive in a plugin) reads what the socket has into    *)
(* the free end of a buffer of BufSize bytes, and then takes messages out  *)
(* of it until getNextMsg returns NULL.  The buffer is kept with its two   *)
(* cursors, its terminator and whatever bytes earlier reads left in it;    *)
(* the stream may be cut into reads anywhere.                              *)
(*                                                                         *)
(* The text of a message is the JSON of ivpMsg_createJsonString, in which  *)
(* control characters are escaped: no STX, ETX or NUL occurs in it, as     *)
(* createFramedMsg asserts.  Nothing bounds its length.                    *)
(***************************************************************************)
EXTENDS Integers, Sequences, FiniteSets

CONSTANTS
    BufSize,    \* MSG_FRAMER_MAX_BUF_SIZE
    Data,       \* the bytes of texts
    STX, ETX, NUL,
    Streams     \* the byte streams a peer may send

Bytes == Data \union {STX, ETX}

ASSUME FramerAssumption ==
    /\ BufSize \in Nat \ {0}
    /\ NUL \notin Bytes
    /\ STX \notin Data
    /\ ETX \notin Data
    /\ STX # ETX
    /\ Streams \subseteq Seq(Bytes)

VARIABLES
    stream,     \* what the peer sends
    received,   \* how many bytes of it have been read
    buf,        \* framer->buf
    bufpos,     \* framer->bufpos
    readpos,    \* framer->readpos
    pc,         \* "recv", or "parse" in the loop over getNextMsg
    out         \* the texts getNextMsg has returned, in order

vars == <<stream, received, buf, bufpos, readpos, pc, out>>

Cells == 0 .. BufSize

(* MSG_FRAMER_INITIALIZER                                                  *)
Init ==
    /\ stream \in Streams
    /\ received = 0
    /\ buf = [i \in Cells |-> NUL]
    /\ bufpos = 0
    /\ readpos = 0
    /\ pc = "recv"
    /\ out = <<>>

(* createFramedMsg                                                         *)
Framed(text) == <<STX>> \o text \o <<ETX>>

-----------------------------------------------------------------------------
(* recv(getBuf, getBufLength) returns n bytes; incrementBufPos(n).         *)

(* Mutant: the buffer is terminated before its last byte.                  *)
FilledShort(n) ==
    [i \in Cells |-> CASE i \in bufpos .. bufpos + n - 2 ->
                            stream[received + i - bufpos + 1]
                       [] i = bufpos + n - 1 -> NUL
                       [] OTHER -> buf[i]]

Filled(n) ==
    [i \in Cells |-> CASE i \in bufpos .. bufpos + n - 1 ->
                            stream[received + i - bufpos + 1]
                       [] i = bufpos + n -> NUL
                       [] OTHER -> buf[i]]

(* Mutant: the terminator's cell is counted as free.                       *)
GetBufLengthPlusOne == BufSize + 1 - bufpos

GetBufLength == BufSize - bufpos

Recv ==
    /\ pc = "recv"
    /\ \E n \in 1 .. GetBufLength :
        /\ received + n <= Len(stream)
        /\ buf' = Filled(n)
        /\ bufpos' = bufpos + n
        /\ received' = received + n
    /\ pc' = "parse"
    /\ UNCHANGED <<stream, readpos, out>>

-----------------------------------------------------------------------------
(* getNextMsg                                                              *)

(* strstr(b, c): the places of c before the terminator; the first counts.  *)
Hits(b, c) == {i \in Cells : b[i] = c /\ \A j \in 0 .. i : b[j] # NUL}

First(S) == CHOOSE i \in S : \A j \in S : i <= j

(* Mutant: the terminator stays behind.                                    *)
ShiftedShort(b, n, pos) ==
    [i \in Cells |-> IF i < pos - n THEN b[i + n] ELSE b[i]]

(* The loop that moves the bytes up to pos, terminator included, down by n.*)
Shifted(b, n, pos) ==
    [i \in Cells |-> IF i < pos + 1 - n THEN b[i + n] ELSE b[i]]

(* What was returned last time is dropped ...                              *)
buf1 == Shifted(buf, readpos, bufpos)
pos1 == bufpos - readpos
starts == Hits(buf1, STX)

(* ... and what precedes the start of a message.                           *)
buf2 == Shifted(buf1, First(starts), pos1)
pos2 == pos1 - First(starts)
ends == Hits(buf2, ETX)

NoStart ==
    /\ pc = "parse"
    /\ starts = {}
    /\ buf' = buf1
    /\ bufpos' = 0
    /\ readpos' = 0
    /\ pc' = "recv"
    /\ UNCHANGED <<stream, received, out>>

(* Mutant: a full buffer without an end is kept.                           *)
KeepFull == pos2

(* A buffer that is full and holds no whole message is emptied.            *)
UnlessFull == IF pos2 = BufSize THEN 0 ELSE pos2

NoEnd ==
    /\ pc = "parse"
    /\ starts # {}
    /\ ends = {}
    /\ buf' = buf2
    /\ bufpos' = UnlessFull
    /\ readpos' = 0
    /\ pc' = "recv"
    /\ UNCHANGED <<stream, received, out>>

Found ==
    /\ pc = "parse"
    /\ starts # {}
    /\ ends # {}
    /\ LET e == First(ends) IN
        /\ buf' = [buf2 EXCEPT ![e] = NUL]
        /\ readpos' = e + 1
        /\ out' = Append(out, [j \in 1 .. e - 1 |-> buf2[j]])
    /\ bufpos' = pos2
    /\ UNCHANGED <<stream, received, pc>>

GetNextMsg == NoStart \/ NoEnd \/ Found

Next == Recv \/ GetNextMsg

Spec == Init /\ [][Next]_vars

-----------------------------------------------------------------------------
(* The buffer and both cursors stay within bounds: incrementBufPos's       *)
(* assertion never fails and no write lands outside of framer->buf.        *)
TypeOK ==
    /\ stream \in Streams
    /\ received \in 0 .. Len(stream)
    /\ buf \in [Cells -> Bytes \union {NUL}]
    /\ bufpos \in 0 .. BufSize
    /\ readpos \in 0 .. bufpos
    /\ pc \in {"recv", "parse"}
    /\ out \in Seq(Seq(Bytes))

(* Whenever the receiver goes back to the socket there is room in the      *)
(* buffer.  Otherwise recv would be asked for 0 bytes, would return 0, and *)
(* the receiver would take that for the peer having closed the connection. *)
RoomToRead == pc = "recv" => GetBufLength > 0

(* strstr stays within the buffer: when getNextMsg is called there is a    *)
(* terminator at bufpos, and none before it that hides unread bytes.       *)
Terminated ==
    pc = "parse" =>
        /\ buf[bufpos] = NUL
        /\ \A i \in readpos .. bufpos - 1 : buf[i] # NUL

(* Bytes from..to of the stream are a frame: it opens with STX and ends at *)
(* the first ETX after it.                                                 *)
IsFrame(from, to) ==
    /\ from < to
    /\ stream[from] = STX
    /\ stream[to] = ETX
    /\ \A i \in from .. to - 1 : stream[i] # ETX

(* Every message getNextMsg returns is the text of a frame of the stream:  *)
(* no mixture of two messages, nothing an earlier read left in the buffer. *)
Genuine ==
    \A k \in 1 .. Len(out) :
        \E from, to \in 1 .. received :
            /\ IsFrame(from, to)
            /\ out[k] = SubSeq(stream, from + 1, to - 1)

(* No frame opens before the one before it has ended: what a peer sends    *)
(* is a sequence of createFramedMsg's results, and texts hold no STX.      *)
Alternating(s) ==
    \A i, j \in DOMAIN s :
        i < j /\ s[i] = STX /\ s[j] = STX => \E k \in i + 1 .. j - 1 : s[k] = ETX

WellFramed == \A s \in Streams : Alternating(s)

(* The frames that the buffer can hold, by the places where they end.      *)
Fits(from, to) == IsFrame(from, to) /\ to - from < BufSize

Fitting(n) == {to \in 1 .. n : \E from \in 1 .. to : Fits(from, to)}

(* out has a text for each fitting frame in the first n bytes of the       *)
(* stream, in their order, and nothing else.                               *)
ExactTo(n) ==
    /\ Len(out) = Cardinality(Fitting(n))
    /\ \A from, to \in 1 .. n :
            Fits(from, to) =>
                out[Cardinality(Fitting(to))] = SubSeq(stream, from + 1, to - 1)

(* However the stream is cut into reads, each time the receiver goes back  *)
(* to the socket it has had exactly the messages that have arrived whole,  *)
(* in order; a message longer than the buffer is lost, and no other.       *)
DeliveredExactly == pc = "recv" => ExactTo(received)

=============================================================================
