-------------------------- MODULE MsgFramerProofs --------------------------
(***************************************************************************)
(* Proofs about MsgFramer, for every buffer size and every stream.         *)
(*                                                                         *)
(* The inductive invariant says where the bytes of the buffer come from:   *)
(* between the two cursors it holds the last bytes that were received, in  *)
(* their order.  That, and the terminator, is what makes strstr find the   *)
(* ends of messages and not what earlier reads left behind.                *)
(***************************************************************************)
EXTENDS MsgFramer, WellFoundedInduction, FiniteSetTheorems, TLAPS

(* Time for the leaves that name no prover.                                *)
USE SMTT(40), ZenonT(40)

(* b holds, from lo up to pos, the last bytes received, and ends there.    *)
Holds(b, lo, pos) ==
    /\ b \in [Cells -> Bytes \union {NUL}]
    /\ pos \in 0 .. BufSize
    /\ pos <= received
    /\ lo \in 0 .. pos
    /\ b[pos] = NUL
    /\ \A i \in lo .. pos - 1 : b[i] = stream[received - pos + i + 1]

(* The same before the terminator has been written.                        *)
Window ==
    /\ bufpos <= received
    /\ \A i \in readpos .. bufpos - 1 :
            buf[i] = stream[received - bufpos + i + 1]

Inv ==
    /\ TypeOK
    /\ RoomToRead
    /\ Terminated
    /\ Window
    /\ pc = "recv" => readpos = 0
    /\ Genuine

-----------------------------------------------------------------------------
(* A nonempty set of cells has a first one, and First is that one.         *)
LEMMA FirstIsLeast ==
    ASSUME NEW S \in SUBSET Cells, S # {}
    PROVE  First(S) \in S /\ \A j \in S : First(S) <= j
<1>1. BufSize \in Nat BY FramerAssumption
<1>2. S \subseteq Nat BY <1>1 DEF Cells
<1>3. \E x \in S : \A y \in S : ~ (<<y, x>> \in OpToRel(<, Nat))
  BY <1>2, NatLessThanWellFounded, WFMin, ZenonT(30)
<1>4. PICK x \in S : \A y \in S : ~ (<<y, x>> \in OpToRel(<, Nat)) BY <1>3, ZenonT(30)
<1>5. \A y \in S : x <= y
  <2>1. TAKE y \in S
  <2>2. ~ (y < x)
    BY <1>2, <1>4, ZenonT(30) DEF OpToRel
  <2> QED BY <1>2, <2>2
<1> QED BY <1>5 DEF First

(* Shifting down by n keeps the bytes from n on and the terminator.        *)
LEMMA ShiftHolds ==
    ASSUME TypeOK, NEW b, NEW lo, NEW pos, Holds(b, lo, pos), NEW n \in lo .. pos
    PROVE  Holds(Shifted(b, n, pos), 0, pos - n)
<1> DEFINE c == Shifted(b, n, pos)
<1>1. /\ BufSize \in Nat
      /\ received \in Nat
      /\ pos \in 0 .. BufSize
      /\ lo \in 0 .. pos
      /\ n \in 0 .. pos
  BY FramerAssumption DEF TypeOK, Holds
<1>2. c \in [Cells -> Bytes \union {NUL}]
  <2>1. \A i \in Cells : i < pos + 1 - n => i + n \in Cells BY <1>1 DEF Cells
  <2>2. \A i \in Cells : b[i] \in Bytes \union {NUL} BY DEF Holds
  <2> QED BY <2>1, <2>2 DEF Shifted
<1>3. c[pos - n] = NUL
  <2>1. pos - n \in Cells /\ pos - n < pos + 1 - n /\ (pos - n) + n = pos BY <1>1 DEF Cells
  <2> QED BY <2>1 DEF Shifted, Holds
<1>4. ASSUME NEW i \in 0 .. pos - n - 1
      PROVE  c[i] = stream[received - (pos - n) + i + 1]
  <2>1. i \in Cells /\ i < pos + 1 - n /\ i + n \in lo .. pos - 1 BY <1>1 DEF Cells
  <2>2. c[i] = b[i + n] BY <2>1 DEF Shifted
  <2>3. b[i + n] = stream[received - pos + (i + n) + 1] BY <2>1 DEF Holds
  <2>4. received - pos + (i + n) + 1 = received - (pos - n) + i + 1 BY <1>1
  <2> QED BY <2>2, <2>3, <2>4
<1>5. pos - n \in 0 .. BufSize /\ 0 \in 0 .. pos - n /\ pos - n <= received
  BY <1>1 DEF Holds
<1> QED BY <1>2, <1>3, <1>4, <1>5 DEF Holds

(* No byte that was received is a NUL.                                     *)
LEMMA HeldBytes ==
    ASSUME TypeOK, NEW b, NEW pos, Holds(b, 0, pos), NEW i \in 0 .. pos - 1
    PROVE  b[i] \in Bytes /\ b[i] # NUL
<1>1. /\ received \in 0 .. Len(stream) /\ pos \in Nat /\ pos <= received
      /\ stream \in Seq(Bytes) /\ NUL \notin Bytes
  BY FramerAssumption DEF TypeOK, Holds
<1>2. received - pos + i + 1 \in 1 .. Len(stream) BY <1>1
<1>3. stream[received - pos + i + 1] \in Bytes BY <1>1, <1>2
<1> QED BY <1>1, <1>3 DEF Holds

(* strstr finds c among the bytes held, all of them are searched, and it   *)
(* does not run past the terminator.                                       *)
LEMMA HitsAreHeld ==
    ASSUME TypeOK, NEW b, NEW pos, Holds(b, 0, pos), NEW c, c # NUL
    PROVE  Hits(b, c) = {i \in 0 .. pos - 1 : b[i] = c}
<1>1. BufSize \in Nat /\ pos \in 0 .. BufSize /\ b[pos] = NUL
  BY FramerAssumption DEF Holds
<1>2. ASSUME NEW i \in Cells, b[i] = c, \A j \in 0 .. i : b[j] # NUL
      PROVE  i \in 0 .. pos - 1
  <2>1. pos \notin 0 .. i BY <1>1, <1>2
  <2> QED BY <1>1, <2>1 DEF Cells
<1>3. ASSUME NEW i \in 0 .. pos - 1, b[i] = c
      PROVE  i \in Cells /\ \A j \in 0 .. i : b[j] # NUL
  <2>1. i \in Cells BY <1>1 DEF Cells
  <2>2. \A j \in 0 .. i : j \in 0 .. pos - 1 BY <1>1
  <2> QED BY <2>1, <2>2, HeldBytes
<1> QED BY <1>2, <1>3 DEF Hits

-----------------------------------------------------------------------------
(* What getNextMsg starts from and what its two shifts leave.              *)
LEMMA AfterShifts ==
    ASSUME Inv, pc = "parse"
    PROVE  /\ Holds(buf1, 0, pos1)
           /\ starts \in SUBSET Cells
           /\ starts # {} => /\ Holds(buf2, 0, pos2)
                             /\ First(starts) \in 0 .. pos1 - 1
                             /\ pos2 \in 1 .. BufSize
                             /\ buf2[0] = STX
                             /\ ends = {i \in 0 .. pos2 - 1 : buf2[i] = ETX}
                             /\ ends \in SUBSET Cells
<1>1. /\ BufSize \in Nat /\ bufpos \in 0 .. BufSize /\ readpos \in 0 .. bufpos
      /\ STX # NUL /\ ETX # NUL /\ TypeOK
  BY FramerAssumption DEF Inv, TypeOK, Bytes
<1>2. Holds(buf, readpos, bufpos)
  BY <1>1 DEF Inv, TypeOK, Terminated, Window, Holds
<1>3. Holds(buf1, 0, pos1)
  BY <1>1, <1>2, ShiftHolds DEF buf1, pos1
<1>4. starts = {i \in 0 .. pos1 - 1 : buf1[i] = STX}
  BY <1>1, <1>3, HitsAreHeld DEF starts
<1>5. pos1 \in 0 .. BufSize BY <1>3 DEF Holds
<1>6. starts \in SUBSET Cells BY <1>1, <1>4, <1>5 DEF Cells
<1>7. ASSUME starts # {}
      PROVE  /\ Holds(buf2, 0, pos2)
             /\ First(starts) \in 0 .. pos1 - 1
             /\ pos2 \in 1 .. BufSize
             /\ buf2[0] = STX
             /\ ends = {i \in 0 .. pos2 - 1 : buf2[i] = ETX}
             /\ ends \in SUBSET Cells
  <2>1. First(starts) \in starts BY <1>6, <1>7, FirstIsLeast
  <2>2. First(starts) \in 0 .. pos1 - 1 /\ buf1[First(starts)] = STX BY <1>4, <2>1
  <2>3. Holds(buf2, 0, pos2)
    <3>1. First(starts) \in 0 .. pos1 BY <1>5, <2>2
    <3> QED BY <1>1, <1>3, <3>1, ShiftHolds DEF buf2, pos2
  <2>4. pos2 \in 1 .. BufSize BY <1>1, <1>5, <2>2 DEF pos2
  <2>5. buf2[0] = STX
    <3>1. 0 \in Cells /\ 0 < pos1 + 1 - First(starts) /\ 0 + First(starts) = First(starts)
      BY <1>1, <1>5, <2>2 DEF Cells
    <3> QED BY <2>2, <3>1 DEF buf2, Shifted
  <2>6. ends = {i \in 0 .. pos2 - 1 : buf2[i] = ETX}
    BY <1>1, <2>3, HitsAreHeld DEF ends
  <2>7. ends \in SUBSET Cells BY <1>1, <2>4, <2>6 DEF Cells
  <2> QED BY <2>2, <2>3, <2>4, <2>5, <2>6, <2>7
<1> QED BY <1>3, <1>6, <1>7

(* Frames do not change, and more of them may have been received.          *)
LEMMA GenuineStays ==
    ASSUME Genuine, received \in Nat, stream' = stream, out' = out,
           received' \in Nat, received <= received'
    PROVE  Genuine'
<1>1. SUFFICES ASSUME NEW k \in 1 .. Len(out)
               PROVE  \E from, to \in 1 .. received' :
                        /\ IsFrame(from, to)'
                        /\ out[k] = SubSeq(stream, from + 1, to - 1)
  BY DEF Genuine
<1>2. PICK from \in 1 .. received, to \in 1 .. received :
            IsFrame(from, to) /\ out[k] = SubSeq(stream, from + 1, to - 1)
  BY <1>1 DEF Genuine
<1>3. from \in 1 .. received' /\ to \in 1 .. received' OBVIOUS
<1>4. IsFrame(from, to)' BY <1>2 DEF IsFrame
<1> QED BY <1>2, <1>3, <1>4

(* A read extends the window by the bytes it received.                     *)
LEMMA RecvKeepsInv ==
    ASSUME Inv, Recv
    PROVE  Inv'
<1>1. /\ BufSize \in Nat /\ bufpos \in 0 .. BufSize /\ readpos = 0
      /\ received \in 0 .. Len(stream) /\ received \in Nat /\ bufpos <= received
      /\ buf \in [Cells -> Bytes \union {NUL}]
      /\ stream \in Seq(Bytes) /\ NUL \notin Bytes
      /\ stream \in Streams /\ out \in Seq(Seq(Bytes))
  BY FramerAssumption DEF Inv, TypeOK, Window, Recv
<1>2. PICK n \in 1 .. BufSize - bufpos :
            /\ received + n <= Len(stream)
            /\ buf' = Filled(n)
            /\ bufpos' = bufpos + n
            /\ received' = received + n
  BY DEF Recv, GetBufLength
<1>3. pc' = "parse" /\ stream' = stream /\ readpos' = 0 /\ out' = out
  BY <1>1 DEF Recv
<1>4. /\ bufpos' \in 0 .. BufSize /\ received' \in 0 .. Len(stream)
      /\ received' \in Nat /\ bufpos' <= received' /\ received <= received'
  BY <1>1, <1>2
<1>5. ASSUME NEW i \in bufpos .. bufpos + n - 1
      PROVE  /\ buf'[i] = stream[received + i - bufpos + 1]
             /\ received + i - bufpos + 1 \in 1 .. Len(stream)
             /\ i \in Cells
  <2>1. i \in Cells /\ received + i - bufpos + 1 \in 1 .. Len(stream) BY <1>1, <1>2 DEF Cells
  <2>2. i # bufpos + n BY <1>1, <1>2
  <2> QED BY <1>2, <2>1, <2>2 DEF Filled
<1>6. ASSUME NEW i \in Cells, i \notin bufpos .. bufpos + n
      PROVE  buf'[i] = buf[i]
  <2>1. i \notin bufpos .. bufpos + n - 1 /\ i # bufpos + n BY <1>1, <1>2, <1>6
  <2> QED BY <1>2, <2>1 DEF Filled
<1>7. buf'[bufpos + n] = NUL /\ bufpos + n \in Cells
  <2>1. bufpos + n \in Cells /\ bufpos + n \notin bufpos .. bufpos + n - 1 BY <1>1, <1>2 DEF Cells
  <2> QED BY <1>2, <2>1 DEF Filled
<1>8. buf' \in [Cells -> Bytes \union {NUL}]
  <2>1. ASSUME NEW i \in Cells PROVE buf'[i] \in Bytes \union {NUL}
    <3>1. CASE i \in bufpos .. bufpos + n - 1
      <4>1. buf'[i] = stream[received + i - bufpos + 1] BY <1>5, <3>1
      <4>2. received + i - bufpos + 1 \in 1 .. Len(stream) BY <1>5, <3>1
      <4> QED BY <1>1, <4>1, <4>2
    <3>2. CASE i = bufpos + n BY <1>7, <3>2
    <3>3. CASE i \notin bufpos .. bufpos + n BY <1>1, <1>6, <3>3
    <3> QED BY <1>1, <1>2, <3>1, <3>2, <3>3 DEF Cells
  <2>2. buf' = [i \in Cells |-> buf'[i]] BY <1>2 DEF Filled
  <2> QED BY <2>1, <2>2
<1>9. ASSUME NEW i \in 0 .. bufpos' - 1
      PROVE  buf'[i] = stream[received' - bufpos' + i + 1] /\ buf'[i] # NUL
  <2>1. received' - bufpos' + i + 1 = received - bufpos + i + 1 BY <1>1, <1>2
  <2>2. CASE i \in bufpos .. bufpos + n - 1
    <3>1. received + i - bufpos + 1 = received - bufpos + i + 1 BY <1>1, <2>2
    <3> QED BY <1>1, <1>5, <2>1, <2>2, <3>1
  <2>3. CASE i \in 0 .. bufpos - 1
    <3>1. i \in Cells /\ i \notin bufpos .. bufpos + n BY <1>1, <2>3 DEF Cells
    <3>2. buf[i] = stream[received - bufpos + i + 1] BY <1>1, <2>3 DEF Inv, Window
    <3>3. received - bufpos + i + 1 \in 1 .. Len(stream) BY <1>1, <2>3
    <3> QED BY <1>1, <1>6, <2>1, <3>1, <3>2, <3>3, SMTT(60)
  <2> QED BY <1>1, <1>2, <2>2, <2>3
<1>10. TypeOK'
  BY <1>1, <1>3, <1>4, <1>8 DEF TypeOK
<1>11. Terminated' BY <1>2, <1>3, <1>7, <1>9 DEF Terminated
<1>12. Window' BY <1>3, <1>4, <1>9, ZenonT(30) DEF Window
<1>13. Genuine' BY <1>1, <1>3, <1>4, GenuineStays DEF Inv
<1> QED BY <1>3, <1>10, <1>11, <1>12, <1>13 DEF Inv, RoomToRead

(* Without a start byte all of the window is given up.                     *)
LEMMA NoStartKeepsInv ==
    ASSUME Inv, NoStart
    PROVE  Inv'
<1>1. Holds(buf1, 0, pos1) BY AfterShifts DEF NoStart
<1>2. buf1 \in [Cells -> Bytes \union {NUL}] BY <1>1 DEF Holds
<1>3. BufSize \in Nat \ {0} /\ received \in Nat
  BY FramerAssumption DEF Inv, TypeOK
<1>4. TypeOK' BY <1>2, <1>3 DEF Inv, TypeOK, NoStart
<1>5. Genuine' BY <1>3, GenuineStays DEF Inv, NoStart
<1>6. Window' BY <1>3 DEF Window, NoStart
<1>7. RoomToRead' BY <1>3 DEF RoomToRead, GetBufLength, NoStart
<1> QED BY <1>4, <1>5, <1>6, <1>7 DEF Inv, Terminated, NoStart

(* Without an end the window begins at the start byte, unless it is full.  *)
LEMMA NoEndKeepsInv ==
    ASSUME Inv, NoEnd
    PROVE  Inv'
<1>1. Holds(buf2, 0, pos2) /\ pos2 \in 1 .. BufSize BY AfterShifts DEF NoEnd
<1>2. /\ buf2 \in [Cells -> Bytes \union {NUL}] /\ pos2 <= received
      /\ \A i \in 0 .. pos2 - 1 : buf2[i] = stream[received - pos2 + i + 1]
  BY <1>1 DEF Holds
<1>3. BufSize \in Nat \ {0} /\ received \in Nat
  BY FramerAssumption DEF Inv, TypeOK
<1>4. bufpos' = 0 \/ bufpos' = pos2
  BY DEF NoEnd, UnlessFull
<1>5. bufpos' \in Nat /\ bufpos' < BufSize
  <2>1. bufpos' # BufSize BY <1>3 DEF NoEnd, UnlessFull
  <2> QED BY <1>1, <1>3, <1>4, <2>1
<1>6. TypeOK' BY <1>2, <1>3, <1>5 DEF Inv, TypeOK, NoEnd
<1>7. Genuine' BY <1>3, GenuineStays DEF Inv, NoEnd
<1>8. Window'
  <2>1. buf' = buf2 /\ received' = received /\ stream' = stream /\ readpos' = 0
    BY DEF NoEnd
  <2>2. CASE bufpos' = 0 BY <1>3, <2>1, <2>2 DEF Window
  <2>3. CASE bufpos' = pos2 BY <1>2, <2>1, <2>3 DEF Window
  <2> QED BY <1>4, <2>2, <2>3
<1>9. RoomToRead'
  <2>1. bufpos' \in Nat /\ bufpos' < BufSize /\ BufSize \in Nat BY <1>3, <1>5
  <2>2. \A m, n \in Nat : m < n => n - m > 0 OBVIOUS
  <2> QED BY <2>1, <2>2, ZenonT(30) DEF RoomToRead, GetBufLength
<1> QED BY <1>6, <1>7, <1>8, <1>9 DEF Inv, Terminated, NoEnd

(* Where strstr finds the end of a message, and the message's text.        *)
endOfMsg == First(ends)

textOfMsg == [j \in 1 .. endOfMsg - 1 |-> buf2[j]]

(* The text that is returned lies between the STX at the head of the       *)
(* buffer and the first ETX in it, and so does a frame of the stream.      *)
LEMMA FoundFrame ==
    ASSUME Inv, Found
    PROVE  \E from, to \in 1 .. received :
              /\ from = received - pos2 + 1 /\ to = received - pos2 + endOfMsg + 1
              /\ endOfMsg \in 1 .. pos2 - 1
              /\ IsFrame(from, to)
              /\ textOfMsg \in Seq(Bytes)
              /\ textOfMsg = SubSeq(stream, from + 1, to - 1)
<1> DEFINE e == endOfMsg
<1> DEFINE text == textOfMsg
<1>1. /\ Holds(buf2, 0, pos2) /\ pos2 \in 1 .. BufSize /\ buf2[0] = STX
      /\ ends = {i \in 0 .. pos2 - 1 : buf2[i] = ETX} /\ ends \in SUBSET Cells
      /\ ends # {}
  BY AfterShifts DEF Found
<1>2. /\ pos2 <= received
      /\ \A i \in 0 .. pos2 - 1 : buf2[i] = stream[received - pos2 + i + 1]
  BY <1>1 DEF Holds
<1>3. /\ BufSize \in Nat \ {0} /\ received \in Nat /\ received \in 0 .. Len(stream)
      /\ STX # ETX /\ TypeOK /\ stream \in Seq(Bytes)
  BY FramerAssumption DEF Inv, TypeOK
<1>4. e \in ends /\ \A j \in ends : e <= j BY <1>1, FirstIsLeast DEF endOfMsg
<1>5. e \in 1 .. pos2 - 1 /\ buf2[e] = ETX
  <2>1. e \in 0 .. pos2 - 1 /\ buf2[e] = ETX BY <1>1, <1>4
  <2>2. e # 0 BY <1>1, <1>3, <2>1
  <2> QED BY <1>1, <2>1, <2>2
<1>6. text \in Seq(Bytes) /\ Len(text) = e - 1 /\ \A j \in 1 .. e - 1 : text[j] = buf2[j]
  <2>1. \A j \in 1 .. e - 1 : j \in 0 .. pos2 - 1 BY <1>1, <1>5
  <2>2. \A j \in 1 .. e - 1 : buf2[j] \in Bytes BY <1>1, <1>3, <2>1, HeldBytes
  <2>3. e - 1 \in Nat BY <1>5
  <2> QED BY <2>2, <2>3 DEF textOfMsg
<1>7. PICK from \in 1 .. received, to \in 1 .. received :
            from = received - pos2 + 1 /\ to = received - pos2 + e + 1
  <2>1. received - pos2 + 1 \in 1 .. received /\ received - pos2 + e + 1 \in 1 .. received
    BY <1>1, <1>2, <1>3, <1>5
  <2> QED BY <2>1
<1>8. IsFrame(from, to)
  <2>1. stream[from] = STX
    <3>1. 0 \in 0 .. pos2 - 1 /\ received - pos2 + 0 + 1 = from BY <1>1, <1>3, <1>7
    <3> QED BY <1>1, <1>2, <3>1
  <2>2. stream[to] = ETX
    <3>1. e \in 0 .. pos2 - 1 BY <1>1, <1>5
    <3> QED BY <1>2, <1>5, <1>7, <3>1
  <2>3. ASSUME NEW i \in from .. to - 1 PROVE stream[i] # ETX
    <3> DEFINE j == i - from
    <3>1. j \in 0 .. pos2 - 1 /\ j < e /\ received - pos2 + j + 1 = i
      BY <1>1, <1>2, <1>3, <1>5, <1>7
    <3>2. j \notin ends BY <1>4, <1>5, <3>1
    <3>3. buf2[j] # ETX BY <1>1, <3>1, <3>2
    <3> QED BY <1>2, <3>1, <3>3
  <2>4. from < to BY <1>1, <1>3, <1>5, <1>7
  <2> QED BY <2>1, <2>2, <2>3, <2>4 DEF IsFrame
<1>9. text = SubSeq(stream, from + 1, to - 1)
  <2> DEFINE sub == SubSeq(stream, from + 1, to - 1)
  <2>1. from + 1 \in Nat /\ to - 1 \in Nat /\ from + 1 >= 1 /\ to - 1 <= Len(stream)
        /\ (to - 1) - (from + 1) + 1 = e - 1 /\ e - 1 \in Nat
    BY <1>1, <1>2, <1>3, <1>5, <1>7
  <2>2. sub \in Seq(Bytes) /\ Len(sub) = e - 1
    BY <1>3, <2>1
  <2>3. ASSUME NEW j \in 1 .. e - 1 PROVE sub[j] = text[j]
    <3>1. sub[j] = stream[from + 1 + j - 1] BY <1>3, <2>1
    <3>2. from + 1 + j - 1 = received - pos2 + j + 1 /\ j \in 0 .. pos2 - 1
      BY <1>1, <1>3, <1>5, <1>7
    <3>3. buf2[j] = stream[received - pos2 + j + 1] BY <1>2, <3>2
    <3> QED BY <1>6, <3>1, <3>2, <3>3, ZenonT(30)
  <2> HIDE DEF sub
  <2>4. text = sub BY <1>6, <2>2, <2>3
  <2> QED BY <2>4 DEF sub
<1> QED BY <1>5, <1>6, <1>7, <1>8, <1>9, ZenonT(30)

(* Returning a message leaves the rest of the buffer, and its terminator.  *)
LEMMA FoundKeepsInv ==
    ASSUME Inv, Found
    PROVE  Inv'
<1> DEFINE e == First(ends)
<1> DEFINE text == [j \in 1 .. e - 1 |-> buf2[j]]
<1>1. /\ Holds(buf2, 0, pos2) /\ pos2 \in 1 .. BufSize /\ buf2[0] = STX
      /\ ends = {i \in 0 .. pos2 - 1 : buf2[i] = ETX} /\ ends \in SUBSET Cells
      /\ ends # {}
  BY AfterShifts DEF Found
<1>2. /\ buf2 \in [Cells -> Bytes \union {NUL}] /\ pos2 <= received
      /\ buf2[pos2] = NUL
      /\ \A i \in 0 .. pos2 - 1 : buf2[i] = stream[received - pos2 + i + 1]
  BY <1>1 DEF Holds
<1>3. /\ BufSize \in Nat \ {0} /\ received \in Nat /\ received \in 0 .. Len(stream)
      /\ STX # ETX /\ TypeOK /\ out \in Seq(Seq(Bytes)) /\ stream \in Seq(Bytes)
  BY FramerAssumption DEF Inv, TypeOK
<1>4. e \in ends /\ \A j \in ends : e <= j BY <1>1, FirstIsLeast
<1>5. e \in 1 .. pos2 - 1 /\ buf2[e] = ETX
  <2>1. e \in 0 .. pos2 - 1 /\ buf2[e] = ETX BY <1>1, <1>4
  <2>2. e # 0 BY <1>1, <1>3, <2>1
  <2> QED BY <1>1, <2>1, <2>2
<1>6. /\ buf' = [buf2 EXCEPT ![e] = NUL] /\ readpos' = e + 1
      /\ bufpos' = pos2 /\ pc = "parse" /\ pc' = pc
      /\ stream' = stream /\ received' = received /\ out' = Append(out, text)
  BY DEF Found
<1> HIDE DEF e, text
<1>7. /\ e \in Cells /\ e + 1 \in 0 .. pos2 /\ pos2 \in 0 .. BufSize
  BY <1>1, <1>3, <1>5 DEF Cells
<1>8. text \in Seq(Bytes) /\ Len(text) = e - 1 /\ \A j \in 1 .. e - 1 : text[j] = buf2[j]
  <2>1. \A j \in 1 .. e - 1 : j \in 0 .. pos2 - 1 BY <1>1, <1>5
  <2>2. \A j \in 1 .. e - 1 : buf2[j] \in Bytes BY <1>1, <1>3, <2>1, HeldBytes
  <2>3. e - 1 \in Nat BY <1>5
  <2> QED BY <2>2, <2>3 DEF text
<1>9. TypeOK'
  <2>1. buf' \in [Cells -> Bytes \union {NUL}] BY <1>2, <1>6, <1>7
  <2>2. out' \in Seq(Seq(Bytes)) BY <1>3, <1>6, <1>8
  <2> QED BY <1>3, <1>6, <1>7, <2>1, <2>2 DEF TypeOK
<1>10. Terminated' /\ Window'
  <2>1. ASSUME NEW i \in e + 1 .. pos2 - 1
        PROVE  buf'[i] = buf2[i] /\ i \in 0 .. pos2 - 1
    <3>1. i # e /\ i \in Cells /\ i \in 0 .. pos2 - 1 BY <1>1, <1>3, <1>5 DEF Cells
    <3> QED BY <1>2, <1>6, <3>1
  <2>2. buf'[pos2] = NUL
    <3>1. pos2 # e /\ pos2 \in Cells BY <1>1, <1>3, <1>5 DEF Cells
    <3> QED BY <1>2, <1>6, <3>1
  <2>3. \A i \in e + 1 .. pos2 - 1 : buf2[i] # NUL BY <1>1, <1>3, <2>1, HeldBytes
  <2>4. Terminated' BY <1>6, <2>1, <2>2, <2>3 DEF Terminated
  <2>5. Window' BY <1>2, <1>6, <2>1 DEF Window
  <2> QED BY <2>4, <2>5
<1>11. PICK from \in 1 .. received, to \in 1 .. received :
            IsFrame(from, to) /\ text = SubSeq(stream, from + 1, to - 1)
  <2>1. \E from, to \in 1 .. received :
            IsFrame(from, to) /\ textOfMsg = SubSeq(stream, from + 1, to - 1)
    BY FoundFrame, ZenonT(30)
  <2>2. text = textOfMsg BY DEF e, text, endOfMsg, textOfMsg
  <2> QED BY <2>1, <2>2, ZenonT(30)
<1>12. IsFrame(from, to)' BY <1>6, <1>11 DEF IsFrame
<1>14. Genuine'
  <2>1. SUFFICES ASSUME NEW k \in 1 .. Len(out')
                 PROVE  \E a, b \in 1 .. received :
                          /\ IsFrame(a, b)'
                          /\ out'[k] = SubSeq(stream, a + 1, b - 1)
    BY <1>6 DEF Genuine
  <2>2. Len(out') = Len(out) + 1 /\ Len(out) \in Nat BY <1>3, <1>6, <1>8
  <2>3. CASE k = Len(out) + 1
    <3>1. out'[k] = text BY <1>3, <1>6, <1>8, <2>3
    <3> QED BY <1>11, <1>12, <3>1
  <2>4. CASE k \in 1 .. Len(out)
    <3>1. out'[k] = out[k] BY <1>3, <1>6, <1>8, <2>4
    <3>2. PICK a \in 1 .. received, b \in 1 .. received :
                IsFrame(a, b) /\ out[k] = SubSeq(stream, a + 1, b - 1)
      BY <2>4 DEF Inv, Genuine
    <3>3. IsFrame(a, b)' BY <1>6, <3>2 DEF IsFrame
    <3> QED BY <3>1, <3>2, <3>3
  <2> QED BY <2>2, <2>3, <2>4
<1> QED BY <1>6, <1>9, <1>10, <1>14 DEF Inv, RoomToRead

-----------------------------------------------------------------------------
(* Inv is an invariant of the framer.                                      *)
THEOREM Invariance == Spec => []Inv
<1>1. Init => Inv
  <2> SUFFICES ASSUME Init PROVE Inv OBVIOUS
  <2>1. BufSize \in Nat \ {0} /\ stream \in Seq(Bytes) BY FramerAssumption DEF Init
  <2>2. TypeOK BY <2>1 DEF Init, TypeOK
  <2>3. RoomToRead /\ Terminated /\ Window
    BY <2>1 DEF Init, RoomToRead, GetBufLength, Terminated, Window
  <2>4. Genuine BY DEF Init, Genuine
  <2> QED BY <2>2, <2>3, <2>4 DEF Init, Inv
<1>2. Inv /\ [Next]_vars => Inv'
  <2> SUFFICES ASSUME Inv, [Next]_vars PROVE Inv' OBVIOUS
  <2>1. CASE Recv BY <2>1, RecvKeepsInv
  <2>2. CASE NoStart BY <2>2, NoStartKeepsInv
  <2>3. CASE NoEnd BY <2>3, NoEndKeepsInv
  <2>4. CASE Found BY <2>4, FoundKeepsInv
  <2>5. CASE UNCHANGED vars
    <3>1. TypeOK' BY <2>5 DEF vars, Inv, TypeOK
    <3>2. RoomToRead' BY <2>5 DEF vars, Inv, RoomToRead, GetBufLength
    <3>3. Terminated' BY <2>5 DEF vars, Inv, Terminated
    <3>4. Window' BY <2>5 DEF vars, Inv, Window
    <3>5. Genuine' BY <2>5 DEF vars, Inv, Genuine, IsFrame
    <3> QED BY <2>5, <3>1, <3>2, <3>3, <3>4, <3>5 DEF vars, Inv
  <2> QED BY <2>1, <2>2, <2>3, <2>4, <2>5 DEF Next, GetNextMsg
<1> QED BY <1>1, <1>2, PTL DEF Spec

(* The cursors stay within the buffer, and incrementBufPos's assertion     *)
(* holds, whatever the size of the buffer and of the reads.                *)
THEOREM TypeCorrectness == Spec => []TypeOK
BY Invariance, PTL DEF Inv

(* The receiver never asks recv for 0 bytes, so a 0 means what it takes it *)
(* to mean: the peer has closed the connection.                            *)
THEOREM AlwaysRoom == Spec => []RoomToRead
BY Invariance, PTL DEF Inv

(* The searches of getNextMsg end at the terminator and skip no byte.      *)
THEOREM AlwaysTerminated == Spec => []Terminated
BY Invariance, PTL DEF Inv

(* Whatever the reads and the lengths of the messages, what getNextMsg     *)
(* returns is the text of a frame the peer has sent.                       *)
THEOREM MessagesAreGenuine == Spec => []Genuine
BY Invariance, PTL DEF Inv

-----------------------------------------------------------------------------
(* Completeness.  The framer is done with the first `consumed` bytes; the  *)
(* rest of what it has received is in the buffer.                          *)
consumed == received - bufpos + readpos

(* A frame of which a part has been consumed, but not its end, is too long.*)
OpenIsLong(n) ==
    \A from \in 1 .. n, to \in n + 1 .. Len(stream) : ~Fits(from, to)

ExactInv ==
    /\ ExactTo(consumed)
    /\ OpenIsLong(consumed)
    /\ pc = "recv" => \A i \in 0 .. bufpos - 1 : buf[i] # ETX

(* What has been consumed, and where the bytes that are searched come from.*)
LEMMA ConsumedType ==
    ASSUME Inv
    PROVE  /\ consumed \in 0 .. received /\ received \in 0 .. Len(stream)
           /\ received \in Nat /\ consumed \in Nat /\ Len(stream) \in Nat
           /\ stream \in Seq(Bytes)
<1>1. /\ BufSize \in Nat /\ bufpos \in 0 .. BufSize /\ readpos \in 0 .. bufpos
      /\ received \in 0 .. Len(stream) /\ bufpos <= received
      /\ stream \in Seq(Bytes) /\ Len(stream) \in Nat
  BY FramerAssumption DEF Inv, TypeOK, Window
<1> QED BY <1>1 DEF consumed

(* The ends of the frames within the first n bytes are finitely many, and  *)
(* there are no more of them in a shorter prefix.                          *)
LEMMA FittingCount ==
    ASSUME NEW n \in Nat, NEW m \in 0 .. n
    PROVE  /\ IsFiniteSet(Fitting(n)) /\ Cardinality(Fitting(n)) \in Nat
           /\ IsFiniteSet(Fitting(m)) /\ Cardinality(Fitting(m)) \in Nat
           /\ Cardinality(Fitting(m)) <= Cardinality(Fitting(n))
<1>1. IsFiniteSet(1 .. n) BY FS_Interval
<1>2. Fitting(n) \subseteq 1 .. n /\ Fitting(m) \subseteq Fitting(n) BY DEF Fitting
<1>3. IsFiniteSet(Fitting(n)) BY <1>1, <1>2, FS_Subset
<1> QED BY <1>2, <1>3, FS_Subset, FS_CardinalityType

(* Bytes at which no fitting frame opens may be skipped.                   *)
LEMMA Skip ==
    ASSUME NEW m \in Nat, NEW n \in Nat, m <= n, n <= Len(stream), Len(stream) \in Nat,
           ExactTo(m), OpenIsLong(m),
           \A from \in m + 1 .. n, to \in 1 .. Len(stream) : ~Fits(from, to)
    PROVE  ExactTo(n) /\ OpenIsLong(n)
<1>1. ASSUME NEW from \in 1 .. n, NEW to \in m + 1 .. Len(stream)
      PROVE  ~Fits(from, to)
  <2>1. from \in 1 .. m \/ from \in m + 1 .. n BY <1>1
  <2>2. to \in 1 .. Len(stream) BY <1>1
  <2> QED BY <2>1, <2>2 DEF OpenIsLong
<1>2. Fitting(n) = Fitting(m)
  <2>1. ASSUME NEW to \in Fitting(n) PROVE to \in Fitting(m)
    <3>1. PICK from \in 1 .. to : Fits(from, to) BY <2>1 DEF Fitting
    <3>2. to \in 1 .. n /\ from \in 1 .. n BY <2>1, <3>1 DEF Fitting
    <3>3. to \notin m + 1 .. Len(stream) BY <1>1, <3>1, <3>2
    <3>4. to \in 1 .. m BY <3>2, <3>3
    <3> QED BY <3>1, <3>4 DEF Fitting
  <2>2. Fitting(m) \subseteq Fitting(n) BY DEF Fitting
  <2> QED BY <2>1, <2>2, ZenonT(30)
<1>3. ASSUME NEW from \in 1 .. n, NEW to \in 1 .. n, Fits(from, to)
      PROVE  out[Cardinality(Fitting(to))] = SubSeq(stream, from + 1, to - 1)
  <2>1. to \notin m + 1 .. Len(stream) BY <1>1, <1>3
  <2>2. from < to BY <1>3 DEF Fits, IsFrame
  <2>3. from \in 1 .. m /\ to \in 1 .. m BY <2>1, <2>2
  <2> QED BY <1>3, <2>3 DEF ExactTo
<1>4. ExactTo(n) BY <1>2, <1>3 DEF ExactTo
<1>5. OpenIsLong(n) BY <1>1 DEF OpenIsLong
<1> QED BY <1>4, <1>5

(* In a well framed stream, no frame opens and no other ends between the   *)
(* two ends of a frame.                                                    *)
LEMMA OneFrameAtATime ==
    ASSUME stream \in Seq(Bytes), Alternating(stream), NEW s \in 1 .. Len(stream),
           stream[s] = STX, NEW n \in s .. Len(stream), Len(stream) \in Nat,
           \A i \in s .. n - 1 : stream[i] # ETX
    PROVE  \A i \in s + 1 .. n : stream[i] # STX
<1> SUFFICES ASSUME NEW i \in s + 1 .. n, stream[i] = STX PROVE FALSE OBVIOUS
<1>1. s \in DOMAIN stream /\ i \in DOMAIN stream /\ s < i OBVIOUS
<1>2. PICK k \in s + 1 .. i - 1 : stream[k] = ETX BY <1>1 DEF Alternating
<1>3. k \in s .. n - 1 OBVIOUS
<1> QED BY <1>2, <1>3

(* The step from the start of a fitting frame to its end.                  *)
LEMMA Deliver ==
    ASSUME NEW m \in Nat, NEW n \in Nat, m < n, n <= Len(stream),
           stream \in Seq(Bytes), Alternating(stream), Len(stream) \in Nat,
           out \in Seq(Seq(Bytes)), ExactTo(m), OpenIsLong(m), Fits(m + 1, n),
           NEW text \in Seq(Bytes), text = SubSeq(stream, m + 2, n - 1),
           out' = Append(out, text), stream' = stream
    PROVE  ExactTo(n)' /\ OpenIsLong(n)'
<1>1. ASSUME NEW from \in 1 .. n, NEW to \in m + 1 .. Len(stream), Fits(from, to)
      PROVE  from = m + 1 /\ to = n
  <2>1. from \notin 1 .. m BY <1>1 DEF OpenIsLong
  <2>2. from \in m + 1 .. n BY <2>1
  <2>3. /\ stream[m + 1] = STX /\ stream[n] = ETX /\ m + 1 < n
        /\ \A i \in m + 1 .. n - 1 : stream[i] # ETX
    BY DEF Fits, IsFrame
  <2>4. m + 1 \in 1 .. Len(stream) /\ n \in m + 1 .. Len(stream) OBVIOUS
  <2>5. \A i \in (m + 1) + 1 .. n : stream[i] # STX
    BY <2>3, <2>4, OneFrameAtATime, ZenonT(30)
  <2>6. from = m + 1
    <3>1. stream[from] = STX BY <1>1 DEF Fits, IsFrame
    <3>2. from \notin (m + 1) + 1 .. n BY <2>5, <3>1
    <3> QED BY <2>2, <3>2
  <2>7. stream[to] = ETX /\ m + 1 < to /\ \A i \in m + 1 .. to - 1 : stream[i] # ETX
    BY <1>1, <2>6 DEF Fits, IsFrame
  <2>8. ~(to < n)
    <3>1. to < n => to \in m + 1 .. n - 1 OBVIOUS
    <3> QED BY <2>3, <2>7, <3>1
  <2>9. ~(n < to)
    <3>1. n < to => n \in m + 1 .. to - 1 OBVIOUS
    <3> QED BY <2>3, <2>7, <3>1
  <2> QED BY <2>6, <2>8, <2>9
<1>2. Fitting(n) = Fitting(m) \union {n} /\ n \notin Fitting(m)
  <2>1. ASSUME NEW to \in Fitting(n), to # n PROVE to \in Fitting(m)
    <3>1. PICK from \in 1 .. to : Fits(from, to) BY <2>1 DEF Fitting
    <3>2. to \in 1 .. n /\ from \in 1 .. n BY <2>1, <3>1 DEF Fitting
    <3>3. to \notin m + 1 .. Len(stream) BY <1>1, <2>1, <3>1, <3>2
    <3>4. to \in 1 .. m BY <3>2, <3>3
    <3> QED BY <3>1, <3>4 DEF Fitting
  <2>2. Fitting(m) \subseteq Fitting(n) /\ n \notin Fitting(m) BY DEF Fitting
  <2>3. n \in Fitting(n)
    <3>1. n \in 1 .. n /\ m + 1 \in 1 .. n OBVIOUS
    <3> QED BY <3>1 DEF Fitting
  <2> QED BY <2>1, <2>2, <2>3
<1>3. Cardinality(Fitting(n)) = Len(out) + 1 /\ Len(out) \in Nat
  <2>1. IsFiniteSet(Fitting(m)) /\ Cardinality(Fitting(m)) \in Nat
    BY FittingCount
  <2>2. Cardinality(Fitting(m) \union {n}) = Cardinality(Fitting(m)) + 1
    BY <1>2, <2>1, FS_AddElement, ZenonT(30)
  <2> QED BY <1>2, <2>1, <2>2 DEF ExactTo
<1>4. /\ Len(out') = Len(out) + 1 /\ out'[Len(out) + 1] = text
      /\ \A i \in 1 .. Len(out) : out'[i] = out[i]
  OBVIOUS
<1>5. ASSUME NEW from \in 1 .. n, NEW to \in 1 .. n, Fits(from, to)
      PROVE  out'[Cardinality(Fitting(to))] = SubSeq(stream, from + 1, to - 1)
  <2>1. CASE to \in m + 1 .. n
    <3>1. to \in m + 1 .. Len(stream) BY <2>1
    <3>2. from = m + 1 /\ to = n BY <1>1, <1>5, <3>1
    <3>3. from + 1 = m + 2 BY <3>2
    <3>4. out'[Cardinality(Fitting(n))] = text BY <1>3, <1>4
    <3>5. SubSeq(stream, from + 1, to - 1) = text BY <3>2, <3>3, ZenonT(30)
    <3>6. Fitting(to) = Fitting(n) BY <3>2, ZenonT(30)
    <3> QED BY <3>4, <3>5, <3>6, ZenonT(30)
  <2>2. CASE to \in 1 .. m
    <3>1. from \in 1 .. to /\ from \in 1 .. m BY <1>5, <2>2 DEF Fits, IsFrame
    <3>2. to \in Fitting(to) BY <1>5, <2>2, <3>1 DEF Fitting
    <3>3. /\ IsFiniteSet(Fitting(to)) /\ Cardinality(Fitting(to)) \in Nat
          /\ Cardinality(Fitting(to)) <= Cardinality(Fitting(m))
      <4>1. to \in 0 .. m BY <2>2
      <4> QED BY <4>1, FittingCount, ZenonT(30)
    <3>4. Cardinality(Fitting(to)) # 0
      <4>1. Fitting(to) # {} BY <3>2
      <4>2. IsFiniteSet(Fitting(to)) BY <3>3
      <4> HIDE DEF Fitting
      <4> QED BY <4>1, <4>2, FS_EmptySet, ZenonT(30)
    <3>5. Cardinality(Fitting(to)) \in 1 .. Len(out)
      <4> DEFINE c == Cardinality(Fitting(to))
                 l == Len(out)
      <4>1. c \in Nat /\ l \in Nat /\ c <= l BY <1>3, <3>3 DEF ExactTo
      <4>2. c # 0 BY <3>4
      <4> HIDE DEF c, l
      <4>3. c \in 1 .. l BY <4>1, <4>2
      <4> QED BY <4>3 DEF c, l
    <3>6. out[Cardinality(Fitting(to))] = SubSeq(stream, from + 1, to - 1)
      BY <1>5, <2>2, <3>1 DEF ExactTo
    <3> QED BY <1>4, <3>5, <3>6
  <2>3. to \in m + 1 .. n \/ to \in 1 .. m OBVIOUS
  <2> QED BY <2>1, <2>2, <2>3, ZenonT(30)
<1>6. ExactTo(n)'
  <2>1. \A i, j : Fits(i, j)' <=> Fits(i, j) BY DEF Fits, IsFrame
  <2>2. \A i : Fitting(i)' = Fitting(i) BY <2>1, ZenonT(30) DEF Fitting
  <2>3. Len(out') = Cardinality(Fitting(n)') BY <1>3, <1>4, <2>2
  <2>4. ASSUME NEW from \in 1 .. n, NEW to \in 1 .. n, Fits(from, to)'
        PROVE  out'[Cardinality(Fitting(to)')] = SubSeq(stream, from + 1, to - 1)
    BY <1>5, <2>1, <2>2, <2>4, ZenonT(30)
  <2> QED BY <2>3, <2>4, ZenonT(30) DEF ExactTo
<1>7. OpenIsLong(n)'
  <2>1. ASSUME NEW from \in 1 .. n, NEW to \in n + 1 .. Len(stream)
        PROVE  ~Fits(from, to)
    <3>1. to \in m + 1 .. Len(stream) /\ to # n BY <2>1
    <3> QED BY <1>1, <3>1
  <2> QED BY <2>1 DEF OpenIsLong, Fits, IsFrame
<1> QED BY <1>6, <1>7

(* What the searches for STX and ETX say about the stream.                 *)
LEMMA SearchForStart ==
    ASSUME Inv, pc = "parse"
    PROVE  /\ consumed = received - pos1
           /\ starts = {} => \A i \in consumed + 1 .. received : stream[i] # STX
           /\ starts # {} =>
                /\ received - pos2 \in consumed .. received - 1
                /\ \A i \in consumed + 1 .. received - pos2 : stream[i] # STX
                /\ stream[received - pos2 + 1] = STX
<1>1. consumed = received - pos1 /\ consumed \in Nat /\ received \in Nat
  <2>1. bufpos \in Nat /\ readpos \in Nat /\ received \in Nat
    BY FramerAssumption DEF Inv, TypeOK
  <2> QED BY <2>1, ConsumedType DEF consumed, pos1
<1>2. /\ starts = {i \in 0 .. pos1 - 1 : buf1[i] = STX} /\ starts \in SUBSET Cells
      /\ pos1 \in Nat
      /\ \A i \in 0 .. pos1 - 1 : buf1[i] = stream[received - pos1 + i + 1]
  <2>1. Holds(buf1, 0, pos1) /\ starts \in SUBSET Cells BY AfterShifts
  <2>2. STX # NUL /\ TypeOK /\ BufSize \in Nat BY FramerAssumption DEF Inv, Bytes
  <2>3. starts = {i \in 0 .. pos1 - 1 : buf1[i] = STX}
    BY <2>1, <2>2, HitsAreHeld DEF starts
  <2> QED BY <2>1, <2>2, <2>3 DEF Holds
<1>3. ASSUME NEW i \in consumed + 1 .. received
      PROVE  i - consumed - 1 \in 0 .. pos1 - 1 /\ buf1[i - consumed - 1] = stream[i]
  <2>1. /\ i - consumed - 1 \in 0 .. pos1 - 1
        /\ received - pos1 + (i - consumed - 1) + 1 = i
    BY <1>1, <1>2
  <2> QED BY <1>2, <2>1
<1>4. ASSUME starts = {}, NEW i \in consumed + 1 .. received PROVE stream[i] # STX
  BY <1>2, <1>3, <1>4
<1>5. ASSUME starts # {}
      PROVE  /\ received - pos2 \in consumed .. received - 1
             /\ \A i \in consumed + 1 .. received - pos2 : stream[i] # STX
             /\ stream[received - pos2 + 1] = STX
  <2> DEFINE f == First(starts)
  <2>1. f \in starts /\ \A j \in starts : f <= j BY <1>2, <1>5, FirstIsLeast
  <2>2. received - pos2 = consumed + f BY <1>1, <1>2, <2>1 DEF pos2
  <2> HIDE DEF f
  <2>3. f \in 0 .. pos1 - 1 /\ buf1[f] = STX BY <1>2, <2>1
  <2>4. received - pos2 \in consumed .. received - 1 BY <1>1, <1>2, <2>2, <2>3
  <2>5. ASSUME NEW i \in consumed + 1 .. received - pos2 PROVE stream[i] # STX
    <3>1. i \in consumed + 1 .. received /\ i - consumed - 1 < f
      BY <1>1, <1>2, <2>2, <2>3
    <3>2. i - consumed - 1 \notin starts
      <4>1. i - consumed - 1 \in Nat /\ f \in Nat BY <1>1, <2>3, <3>1
      <4> QED BY <2>1, <3>1, <4>1
    <3> QED BY <1>2, <1>3, <3>1, <3>2
  <2>6. stream[received - pos2 + 1] = STX
    <3>1. consumed + f + 1 \in consumed + 1 .. received
          /\ (consumed + f + 1) - consumed - 1 = f
      BY <1>1, <1>2, <2>3
    <3>2. stream[consumed + f + 1] = STX BY <1>3, <2>3, <3>1
    <3> QED BY <2>2, <3>2
  <2> QED BY <2>4, <2>5, <2>6
<1> QED BY <1>1, <1>4, <1>5

(* The bytes before the start of the first message hold no fitting frame.  *)
LEMMA SkipToStart ==
    ASSUME Inv, ExactInv, pc = "parse", starts # {},
           NEW m, m = received - pos2
    PROVE  /\ m \in Nat /\ m < received
           /\ ExactTo(m) /\ OpenIsLong(m)
<1>1. /\ m \in consumed .. received - 1
      /\ \A i \in consumed + 1 .. m : stream[i] # STX
  BY SearchForStart
<1>2. /\ consumed \in Nat /\ received \in Nat /\ received <= Len(stream)
      /\ Len(stream) \in Nat
  BY ConsumedType
<1>3. m \in Nat /\ consumed <= m /\ m <= Len(stream) /\ m < received BY <1>1, <1>2
<1>4. \A from \in consumed + 1 .. m, to \in 1 .. Len(stream) : ~Fits(from, to)
  BY <1>1 DEF Fits, IsFrame
<1>5. ExactTo(consumed) /\ OpenIsLong(consumed) BY DEF ExactInv
<1>6. ASSUME NEW c, c = consumed
      PROVE  ExactTo(m) /\ OpenIsLong(m)
  <2>1. c \in Nat /\ c <= m /\ ExactTo(c) /\ OpenIsLong(c)
    BY <1>2, <1>3, <1>5, <1>6
  <2>2. \A from \in c + 1 .. m, to \in 1 .. Len(stream) : ~Fits(from, to)
    BY <1>4, <1>6
  <2> QED BY <1>2, <1>3, <2>1, <2>2, Skip
<1> QED BY <1>3, <1>6

(* A step that returns no message and consumes up to n.                    *)
LEMMA ConsumeTo ==
    ASSUME NEW n, consumed' = n, stream' = stream, out' = out,
           ExactTo(n), OpenIsLong(n),
           pc' = "recv" => \A i \in 0 .. bufpos' - 1 : buf'[i] # ETX
    PROVE  ExactInv'
<1>1. ExactTo(n)' /\ OpenIsLong(n)'
  BY ZenonT(30) DEF ExactTo, OpenIsLong, Fitting, Fits, IsFrame
<1> QED BY <1>1 DEF ExactInv

(* A read adds to the buffer and consumes nothing.                         *)
LEMMA RecvKeepsExact ==
    ASSUME Inv, ExactInv, Recv
    PROVE  ExactInv'
<1>1. PICK n \in 1 .. GetBufLength : bufpos' = bufpos + n /\ received' = received + n
  BY DEF Recv
<1>2. n \in Int /\ bufpos \in Int /\ readpos \in Int /\ received \in Int
  BY FramerAssumption DEF Inv, TypeOK
<1>3. consumed' = consumed BY <1>1, <1>2 DEF consumed, Recv
<1>4. ASSUME NEW c, c = consumed PROVE ExactInv'
  <2>1. /\ consumed' = c /\ stream' = stream /\ out' = out /\ pc' # "recv"
        /\ ExactTo(c) /\ OpenIsLong(c)
    BY <1>3, <1>4 DEF ExactInv, Recv
  <2> QED BY <2>1, ConsumeTo
<1> QED BY <1>4

(* A buffer without a start is dropped, and no frame opens in it.          *)
LEMMA NoStartKeepsExact ==
    ASSUME Inv, ExactInv, NoStart
    PROVE  ExactInv'
<1>1. /\ consumed \in Nat /\ received \in Nat /\ consumed <= received
      /\ received <= Len(stream) /\ Len(stream) \in Nat
  BY ConsumedType
<1>2. \A i \in consumed + 1 .. received : stream[i] # STX
  BY SearchForStart DEF NoStart
<1>3. ASSUME NEW c, c = consumed, NEW n, n = received PROVE ExactInv'
  <2>1. /\ c \in Nat /\ n \in Nat /\ c <= n /\ n <= Len(stream) /\ Len(stream) \in Nat
        /\ ExactTo(c) /\ OpenIsLong(c)
    BY <1>1, <1>3 DEF ExactInv
  <2>2. \A from \in c + 1 .. n, to \in 1 .. Len(stream) : ~Fits(from, to)
    BY <1>2, <1>3 DEF Fits, IsFrame
  <2>3. ExactTo(n) /\ OpenIsLong(n) BY <2>1, <2>2, Skip
  <2>4. consumed' = n /\ stream' = stream /\ out' = out /\ bufpos' = 0
    BY <1>1, <1>3 DEF consumed, NoStart
  <2> QED BY <2>3, <2>4, ConsumeTo
<1> QED BY <1>3

(* A message whose end is missing is kept.  If it fills the buffer it is   *)
(* too long, no other has begun, and it is dropped.                        *)
LEMMA NoEndKeepsExact ==
    ASSUME WellFramed, Inv, ExactInv, NoEnd
    PROVE  ExactInv'
<1>1. /\ received \in Nat /\ received <= Len(stream) /\ Len(stream) \in Nat
      /\ stream \in Seq(Bytes) /\ Alternating(stream) /\ BufSize \in Nat
  BY ConsumedType, FramerAssumption DEF Inv, TypeOK, WellFramed
<1>2. /\ pos2 \in 1 .. BufSize /\ Holds(buf2, 0, pos2)
      /\ \A i \in 0 .. pos2 - 1 : buf2[i] # ETX
  BY AfterShifts DEF NoEnd
<1>3. \A i \in 0 .. pos2 - 1 : buf2[i] = stream[received - pos2 + i + 1]
  BY <1>2 DEF Holds
<1>4. ASSUME NEW m, m = received - pos2, NEW n, n = received PROVE ExactInv'
  <2>1. m \in Nat /\ m < n /\ ExactTo(m) /\ OpenIsLong(m) /\ n \in Nat
    <3>1. pc = "parse" /\ starts # {} BY DEF NoEnd
    <3> QED BY <1>1, <1>4, <3>1, SkipToStart
  <2>2. CASE pos2 # BufSize
    <3>1. consumed' = m
      <4>1. bufpos' = pos2 /\ readpos' = 0 /\ received' = received
        BY <2>2 DEF NoEnd, UnlessFull
      <4> QED BY <1>1, <1>2, <1>4, <4>1 DEF consumed
    <3>2. /\ stream' = stream /\ out' = out
          /\ \A i \in 0 .. bufpos' - 1 : buf'[i] # ETX
      BY <1>2, <2>2 DEF NoEnd, UnlessFull
    <3> QED BY <2>1, <3>1, <3>2, ConsumeTo
  <2>3. CASE pos2 = BufSize
    <3>1. \A i \in m + 1 .. n : stream[i] # ETX
      <4>1. SUFFICES ASSUME NEW i \in m + 1 .. n PROVE stream[i] # ETX OBVIOUS
      <4>2. i - m - 1 \in 0 .. pos2 - 1 /\ received - pos2 + (i - m - 1) + 1 = i
        BY <1>1, <1>2, <1>4, <2>1
      <4> QED BY <1>2, <1>3, <4>2
    <3>2. stream[m + 1] = STX
      BY <1>4, SearchForStart DEF NoEnd
    <3>3. \A i \in (m + 1) + 1 .. n : stream[i] # STX
      <4>1. m + 1 \in 1 .. Len(stream) /\ n \in m + 1 .. Len(stream)
        BY <1>1, <1>4, <2>1
      <4>2. \A i \in m + 1 .. n - 1 : stream[i] # ETX BY <2>1, <3>1
      <4> QED BY <1>1, <3>2, <4>1, <4>2, OneFrameAtATime
    <3>4. ASSUME NEW from \in m + 1 .. n, NEW to \in 1 .. Len(stream), Fits(from, to)
          PROVE  FALSE
      <4>1. /\ from < to /\ stream[from] = STX /\ stream[to] = ETX
            /\ to - from < BufSize
        BY <3>4 DEF Fits, IsFrame
      <4>2. from \notin (m + 1) + 1 .. n BY <3>3, <4>1
      <4>3. from = m + 1 BY <2>1, <4>2
      <4>4. to \notin m + 1 .. n BY <3>1, <4>1
      <4>5. n = m + BufSize BY <1>1, <1>4, <2>3
      <4> QED BY <1>1, <2>1, <4>1, <4>3, <4>4, <4>5
    <3>5. ExactTo(n) /\ OpenIsLong(n)
      <4>1. m <= n /\ n <= Len(stream) BY <1>1, <1>4, <2>1
      <4> QED BY <1>1, <2>1, <3>4, <4>1, Skip
    <3>6. consumed' = n /\ stream' = stream /\ out' = out /\ bufpos' = 0
      BY <1>1, <1>4, <2>3 DEF consumed, NoEnd, UnlessFull
    <3> QED BY <3>5, <3>6, ConsumeTo
  <2> QED BY <2>2, <2>3
<1> QED BY <1>4

(* A message that is found is the next fitting frame.                      *)
LEMMA FoundKeepsExact ==
    ASSUME WellFramed, Inv, ExactInv, Found
    PROVE  ExactInv'
<1>1. /\ received \in Nat /\ received <= Len(stream) /\ Len(stream) \in Nat
      /\ stream \in Seq(Bytes) /\ Alternating(stream) /\ BufSize \in Nat
      /\ out \in Seq(Seq(Bytes))
  BY ConsumedType, FramerAssumption DEF Inv, TypeOK, WellFramed
<1>2. pos2 \in 1 .. BufSize BY AfterShifts DEF Found
<1>3. PICK from \in 1 .. received, to \in 1 .. received :
              /\ from = received - pos2 + 1 /\ to = received - pos2 + endOfMsg + 1
              /\ endOfMsg \in 1 .. pos2 - 1
              /\ IsFrame(from, to)
              /\ textOfMsg \in Seq(Bytes)
              /\ textOfMsg = SubSeq(stream, from + 1, to - 1)
  BY FoundFrame
<1>4. ASSUME NEW m, m = received - pos2, NEW text, text = textOfMsg PROVE ExactInv'
  <2>1. m \in Nat /\ ExactTo(m) /\ OpenIsLong(m)
    <3>1. pc = "parse" /\ starts # {} BY DEF Found
    <3> QED BY <1>4, <3>1, SkipToStart
  <2>2. Fits(m + 1, to)
    <3>1. from = m + 1 BY <1>3, <1>4
    <3>2. to - from < BufSize BY <1>1, <1>2, <1>3
    <3> QED BY <1>3, <3>1, <3>2 DEF Fits
  <2>3. m < to /\ to <= Len(stream) /\ to \in Nat /\ from + 1 = m + 2
    BY <1>1, <1>3, <1>4, <2>1, <1>2
  <2>4. text \in Seq(Bytes) /\ text = SubSeq(stream, m + 2, to - 1)
    BY <1>3, <1>4, <2>3, ZenonT(30)
  <2>5. /\ out' = Append(out, text) /\ stream' = stream /\ pc' # "recv"
        /\ received' = received /\ bufpos' = pos2 /\ readpos' = endOfMsg + 1
    BY <1>4 DEF Found, endOfMsg, textOfMsg
  <2>6. ExactTo(to)' /\ OpenIsLong(to)'
    BY <1>1, <2>1, <2>2, <2>3, <2>4, <2>5, Deliver, ZenonT(30)
  <2>7. consumed' = to
    BY <1>1, <1>2, <1>3, <2>5 DEF consumed
  <2> QED BY <2>5, <2>6, <2>7 DEF ExactInv
<1> QED BY <1>4

(* Whatever the size of the buffer and wherever the reads cut the stream,  *)
(* the receiver gets every message that fits the buffer, once and in       *)
(* order, and nothing else, if the peer sends whole frames.                *)
THEOREM ExactDelivery ==
    ASSUME WellFramed
    PROVE  Spec => []DeliveredExactly
<1>1. Init => ExactInv
  <2> SUFFICES ASSUME Init PROVE ExactInv OBVIOUS
  <2>1. consumed = 0 /\ bufpos = 0 /\ out = <<>> BY DEF Init, consumed
  <2>2. Fitting(0) = {} BY DEF Fitting
  <2>3. ExactTo(0) /\ OpenIsLong(0) BY <2>1, <2>2, FS_EmptySet DEF ExactTo, OpenIsLong
  <2> QED BY <2>1, <2>3 DEF ExactInv
<1>2. Inv /\ ExactInv /\ [Next]_vars => ExactInv'
  <2> SUFFICES ASSUME Inv, ExactInv, [Next]_vars PROVE ExactInv' OBVIOUS
  <2>1. CASE UNCHANGED vars
    <3>1. ASSUME NEW c, c = consumed PROVE ExactInv'
      <4>1. /\ consumed' = c /\ stream' = stream /\ out' = out
            /\ ExactTo(c) /\ OpenIsLong(c)
        BY <2>1, <3>1 DEF vars, consumed, ExactInv
      <4>2. pc' = "recv" => \A i \in 0 .. bufpos' - 1 : buf'[i] # ETX
        BY <2>1 DEF vars, ExactInv
      <4> QED BY <4>1, <4>2, ConsumeTo
    <3> QED BY <3>1
  <2> QED BY <2>1, RecvKeepsExact, NoStartKeepsExact, NoEndKeepsExact, FoundKeepsExact
          DEF Next, GetNextMsg
<1>3. Inv /\ ExactInv => DeliveredExactly
  <2> SUFFICES ASSUME Inv, ExactInv, pc = "recv" PROVE ExactTo(received)
    BY DEF DeliveredExactly
  <2>1. /\ consumed \in Nat /\ received \in Nat /\ consumed <= received
        /\ received <= Len(stream) /\ Len(stream) \in Nat
    BY ConsumedType
  <2>2. ASSUME NEW i \in consumed + 1 .. received PROVE stream[i] # ETX
    <3>1. readpos = 0 /\ bufpos \in Nat /\ Window BY FramerAssumption DEF Inv, TypeOK
    <3>2. consumed = received - bufpos BY <2>1, <3>1 DEF consumed
    <3>3. /\ i - consumed - 1 \in 0 .. bufpos - 1
          /\ received - bufpos + (i - consumed - 1) + 1 = i
      BY <2>1, <3>1, <3>2
    <3> QED BY <3>1, <3>3 DEF Window, ExactInv
  <2>3. ASSUME NEW c, c = consumed, NEW n, n = received PROVE ExactTo(n)
    <3>1. c \in Nat /\ n \in Nat /\ c <= n /\ ExactTo(c) BY <2>1, <2>3 DEF ExactInv
    <3>2. ASSUME NEW from \in 1 .. n, NEW to \in 1 .. n, Fits(from, to)
          PROVE  from \in 1 .. c /\ to \in 1 .. c
      <4>1. stream[to] = ETX /\ from < to BY <3>2 DEF Fits, IsFrame
      <4>2. to \notin c + 1 .. n BY <2>2, <2>3, <4>1
      <4> QED BY <3>1, <4>1, <4>2
    <3>3. Fitting(n) = Fitting(c) BY <3>1, <3>2 DEF Fitting
    <3> QED BY <3>1, <3>2, <3>3 DEF ExactTo
  <2> QED BY <2>3
<1> QED BY <1>1, <1>2, <1>3, Invariance, PTL DEF Spec

=============================================================================
