----------------------- MODULE PluginConnectionProofs -----------------------
(***************************************************************************)
(* PluginConnection's invariants, for any set of message sequences.        *)
(***************************************************************************)
EXTENDS PluginConnection, SequenceTheorems, TLAPS

(* Time for the leaves that name no prover.                                *)
USE ZenonT(30)

(* Concatenation of sequences of message positions is associative.         *)
LEMMA ConcatNat ==
  ASSUME NEW s \in Seq(Nat), NEW t \in Seq(Nat), NEW u \in Seq(Nat)
  PROVE  (s \o t) \o u = s \o (t \o u)
BY ConcatAssociative, SMTT(60)

(* What the steps of a processor do to the line of its messages: taking    *)
(* the head of the queue in hand, and finishing with it, leave it alone;   *)
(* a push makes it longer.                                                 *)
LEMMA TakeKeepsLine ==
  ASSUME NEW d \in Seq(Nat), NEW q \in Seq(Nat), q # <<>>
  PROVE  d \o <<Head(q)>> \o Tail(q) = d \o <<>> \o q
<1>1. Head(q) \in Nat /\ Tail(q) \in Seq(Nat) /\ <<Head(q)>> \in Seq(Nat)
  BY HeadTailProperties, SMTT(30)
<1>2. <<Head(q)>> \o Tail(q) = q
  <2>1. Len(<<Head(q)>> \o Tail(q)) = Len(q)
    BY <1>1, SMTT(30)
  <2>2. \A i \in 1 .. Len(q) : (<<Head(q)>> \o Tail(q))[i] = q[i]
    BY <1>1, SMTT(30)
  <2>3. <<Head(q)>> \o Tail(q) \in Seq(Nat)
    BY <1>1, ConcatProperties
  <2>. QED
    BY <2>1, <2>2, <2>3, SeqEqual
<1>3. (d \o <<Head(q)>>) \o Tail(q) = d \o (<<Head(q)>> \o Tail(q))
  BY <1>1, ConcatNat
<1>4. d \o <<>> = d
  BY ConcatEmptySeq
<1>. QED
  BY <1>2, <1>3, <1>4

(* Moving the message in hand to the finished ones keeps the line.         *)
LEMMA FinishKeepsLine ==
  ASSUME NEW d \in Seq(Nat), NEW q \in Seq(Nat), NEW m \in Nat
  PROVE  Append(d, m) \o <<>> \o q = d \o <<m>> \o q
<1>1. Append(d, m) \in Seq(Nat) /\ Append(d, m) = d \o <<m>>
  BY AppendIsConcat, SMTT(30)
<1>. QED
  BY <1>1, ConcatEmptySeq

(* A push on the queue appends to the line.                                *)
LEMMA PushExtendsLine ==
  ASSUME NEW d \in Seq(Nat), NEW h \in Seq(Nat), NEW q \in Seq(Nat), NEW n \in Nat
  PROVE  d \o h \o Append(q, n) = Append(d \o h \o q, n)
<1>1. /\ Append(q, n) = q \o <<n>>
      /\ <<n>> \in Seq(Nat)
      /\ d \o h \in Seq(Nat) /\ (d \o h) \o q \in Seq(Nat)
  BY AppendIsConcat, ConcatProperties, SMTT(30)
<1>2. Append((d \o h) \o q, n) = ((d \o h) \o q) \o <<n>>
  BY <1>1, AppendIsConcat
<1>3. ((d \o h) \o q) \o <<n>> = (d \o h) \o (q \o <<n>>)
  <2>. DEFINE e == d \o h
              v == <<n>>
  <2>1. e \in Seq(Nat) /\ v \in Seq(Nat)
    BY <1>1
  <2>2. (e \o q) \o v = e \o (q \o v)
    <3>. HIDE DEF e, v
    <3>. QED
      BY <2>1, ConcatNat, SMTT(60)
  <2>. QED
    BY <2>2
<1>. QED
  BY <1>1, <1>2, <1>3

(* A number greater than all of an increasing sequence may be appended.    *)
LEMMA AppendGreater ==
  ASSUME NEW s \in Seq(Nat), NEW n \in Nat, Increasing(s),
         \A x \in Elements(s) : x < n
  PROVE  /\ Increasing(Append(s, n))
         /\ Elements(Append(s, n)) = Elements(s) \union {n}
<1>1. /\ DOMAIN Append(s, n) = 1 .. Len(s) + 1
      /\ DOMAIN s = 1 .. Len(s)
      /\ \A i \in 1 .. Len(s) : Append(s, n)[i] = s[i]
      /\ Append(s, n)[Len(s) + 1] = n
  BY SMTT(30)
<1>2. \A i \in 1 .. Len(s) : s[i] < n
  BY <1>1 DEF Elements
<1>3. Increasing(Append(s, n))
  BY <1>1, <1>2, SMTT(30) DEF Increasing
<1>4. Elements(Append(s, n)) = Elements(s) \union {n}
  BY <1>1, SMTT(30) DEF Elements
<1>. QED
  BY <1>3, <1>4

-----------------------------------------------------------------------------
(* A connection that has just been accepted satisfies the invariant.       *)
LEMMA InitInv == Init => Inv
<1>. SUFFICES ASSUME Init PROVE Inv
  OBVIOUS
<1>1. TypeOK
  <2>1. wire \in Seq(Kinds)
    BY ScriptsAssumption DEF Init
  <2>2. rpc \in RPCs /\ cpc \in CPCs /\ ppc \in [Threads -> PPCs]
    BY DEF Init, RPCs, CPCs, PPCs, Threads
  <2>3. /\ received \in Seq(FastKinds \union SlowKinds) /\ Len(received) = 0
        /\ queue \in [Threads -> Seq(1 .. 0)] /\ done \in [Threads -> Seq(1 .. 0)]
        /\ msg \in [Threads -> 0 .. 0]
    BY SMTT(30) DEF Init
  <2>. QED
    BY <2>1, <2>2, <2>3 DEF Init, TypeOK
<1>2. ProcInv
  BY DEF Init, ProcInv, Threads
<1>3. \A t \in Threads : Line(t) = <<>>
  BY SMTT(30) DEF Init, Line, InHand
<1>4. HandledInOrder
  BY <1>3, SMTT(30) DEF Init, HandledInOrder, Increasing, Elements
<1>. QED
  BY <1>1, <1>2, <1>4 DEF Inv

(* The steps that only move threads, flags and handles about.              *)
Shuffle ==
    \/ HangUp
    \/ Constructor
    \/ ReceiveGarbled \/ RecvClosed \/ DeleteThis
    \/ \E t \in Threads :
        \/ Signal(t) \/ Interrupt(t) \/ SetOnShutdown(t) \/ Join(t)
        \/ Check(t) \/ WaitOne(t)

(* The steps of Next, by what they do to the messages.                     *)
LEMMA NextCases ==
  ASSUME Next
  PROVE  \/ Shuffle
         \/ Receive
         \/ \E t \in Threads : Take(t) \/ Process(t)
BY DEF Next, Shuffle, Receiver, Processor

(* A handler finishes with its message or throws.                          *)
LEMMA ProcessCases ==
  ASSUME NEW t \in Threads, Process(t)
  PROVE  /\ ppc[t] = "process"
         /\ Handled(t) \/ Uncaught
BY DEF Process, ProcessRegistration, ProcessGuarded, ProcessConfig, ProcessStatus,
       ProcessEventLog, Handling

(* Those steps keep the types.                                             *)
LEMMA ShuffleTypeOK == Inv /\ Shuffle => TypeOK'
<1>. SUFFICES ASSUME Inv, Shuffle PROVE TypeOK'
  OBVIOUS
<1>. USE DEF Inv, TypeOK, netVars, ctorVars, stateVars, procVars
<1>1. CASE HangUp
  BY <1>1, SMTT(30) DEF HangUp
<1>2. CASE Constructor
  <2>1. PICK t \in Threads : CtorCreate(t) \/ CtorStore(t)
    BY <1>2 DEF Constructor
  <2>2. cpc' \in CPCs
    BY <2>1, SMTT(30) DEF CtorCreate, CtorStore, CPCs, Threads
  <2>3. ppc' \in [Threads -> PPCs] /\ handle' \in [Threads -> BOOLEAN]
    BY <2>1 DEF CtorCreate, CtorStore, PPCs
  <2>. QED
    BY <2>1, <2>2, <2>3 DEF CtorCreate, CtorStore
<1>3. CASE ReceiveGarbled
  BY <1>3, SMTT(30) DEF ReceiveGarbled
<1>4. CASE RecvClosed \/ DeleteThis
  <2>1. rpc' \in RPCs
    BY <1>4, SMTT(30) DEF RecvClosed, DeleteThis, RPCs, Threads
  <2>. QED
    BY <1>4, <2>1 DEF RecvClosed, DeleteThis
<1>5. ASSUME NEW t \in Threads, Signal(t) \/ Interrupt(t) \/ SetOnShutdown(t) \/ Join(t)
      PROVE  TypeOK'
  <2>1. rpc' \in RPCs
    BY <1>5, SMTT(30) DEF Signal, Interrupt, SetOnShutdown, Join, RPCs, Threads
  <2>. QED
    BY <1>5, <2>1 DEF Signal, Interrupt, SetOnShutdown, Join
<1>6. ASSUME NEW t \in Threads, Check(t) \/ WaitOne(t)
      PROVE  TypeOK'
  BY <1>6 DEF Check, WaitOne, PPCs
<1>. QED
  BY <1>1, <1>2, <1>3, <1>4, <1>5, <1>6 DEF Shuffle

(* A received message has its position in the range of all messages.       *)
LEMMA ReceiveTypeOK == Inv /\ Receive => TypeOK'
<1>. SUFFICES ASSUME Inv, Receive PROVE TypeOK'
  OBVIOUS
<1>. USE DEF Inv, TypeOK, netVars, ctorVars, stateVars, procVars, Receive
<1>. DEFINE t == QueueOf(Head(wire))
            n == Len(received)
<1>1. t \in Threads
  BY DEF QueueOf, Threads
<1>2. Head(wire) \in FastKinds \union SlowKinds /\ wire' \in Seq(Kinds)
  BY SMTT(30) DEF Kinds
<1>3. received' \in Seq(FastKinds \union SlowKinds) /\ Len(received') = n + 1 /\ n \in Nat
  BY <1>2, SMTT(30)
<1>4. \A u \in Threads : queue[u] \in Seq(1 .. n + 1) /\ done[u] \in Seq(1 .. n + 1)
  <2>1. 1 .. n \subseteq 1 .. n + 1
    BY <1>3, SMTT(30)
  <2>. QED
    BY <2>1, SeqMonotonic, SMTT(30)
<1>5. queue' \in [Threads -> Seq(1 .. n + 1)]
  <2>1. Append(queue[t], n + 1) \in Seq(1 .. n + 1)
    BY <1>1, <1>3, <1>4, SMTT(30)
  <2>. QED
    BY <1>4, <2>1
<1>6. done' \in [Threads -> Seq(1 .. n + 1)]
  BY <1>4
<1>7. msg' \in [Threads -> 0 .. n + 1]
  BY <1>3, SMTT(30)
<1>8. rpc' \in RPCs
  BY <1>1 DEF RPCs
<1>. QED
  BY <1>2, <1>3, <1>5, <1>6, <1>7, <1>8

(* Every step of the connection keeps the types.                           *)
LEMMA NextTypeOK == Inv /\ [Next]_vars => TypeOK'
<1>. SUFFICES ASSUME Inv, [Next]_vars PROVE TypeOK'
  OBVIOUS
<1>. USE DEF Inv, TypeOK, netVars, ctorVars, stateVars, procVars
<1>1. CASE UNCHANGED vars
  BY <1>1 DEF vars
<1>2. ASSUME NEW t \in Threads, Take(t) PROVE TypeOK'
  <2>1. Len(received) \in Nat
    BY SMTT(30)
  <2>2. queue[t] # <<>> => /\ Head(queue[t]) \in 1 .. Len(received)
                          /\ Tail(queue[t]) \in Seq(1 .. Len(received))
    BY HeadTailProperties
  <2>3. msg' \in [Threads -> 0 .. Len(received)]
    <3>1. queue[t] # <<>> => Head(queue[t]) \in 0 .. Len(received)
      BY <2>1, <2>2, SMTT(30)
    <3>2. 0 \in 0 .. Len(received)
      BY <2>1, SMTT(30)
    <3>3. \E v \in 0 .. Len(received) : msg' = [msg EXCEPT ![t] = v]
      BY <1>2, <3>1, <3>2 DEF Take
    <3>. QED
      BY <3>3
  <2>4. queue' \in [Threads -> Seq(1 .. Len(received))]
    BY <1>2, <2>2 DEF Take
  <2>5. messageWaiting' \in [Threads -> BOOLEAN]
    <3>1. CASE queue[t] = <<>>
      BY <1>2, <3>1 DEF Take
    <3>2. CASE queue[t] # <<>>
      <4>1. messageWaiting' = [messageWaiting EXCEPT ![t] = Len(queue[t]) > 1]
        BY <1>2, <3>2 DEF Take
      <4>2. (Len(queue[t]) > 1) \in BOOLEAN
        BY SMTT(30)
      <4>. QED
        BY <4>1, <4>2
    <3>. QED
      BY <3>1, <3>2
  <2>6. ppc' \in [Threads -> PPCs]
    <3>1. \E v \in PPCs : ppc' = [ppc EXCEPT ![t] = v]
      BY <1>2 DEF Take, PPCs
    <3>. QED
      BY <3>1
  <2>. QED
    BY <1>2, <2>3, <2>4, <2>5, <2>6 DEF Take
<1>3. ASSUME NEW t \in Threads, Process(t) PROVE TypeOK'
  <2>1. CASE Uncaught
    BY <2>1 DEF Uncaught
  <2>2. CASE Handled(t)
    <3>1. mRegistered' \in BOOLEAN /\ replies' \subseteq {"messageParse", "config", "fatal", "error"}
      BY <1>3 DEF Process, ProcessRegistration, ProcessGuarded, ProcessConfig,
         ProcessStatus, ProcessEventLog, Uncaught, Reply
    <3>2. msg[t] \in 1 .. Len(received)
      BY <1>3, ProcessCases, SMTT(30) DEF ProcInv
    <3>3. Append(done[t], msg[t]) \in Seq(1 .. Len(received))
      BY <3>2, SMTT(30)
    <3>. QED
      BY <2>2, <3>1, <3>3 DEF Handled, PPCs
  <2>. QED
    BY <1>3, <2>1, <2>2, ProcessCases
<1>. QED
  BY <1>1, <1>2, <1>3, NextCases, ShuffleTypeOK, ReceiveTypeOK

(* A processor that handles a message has taken one, and has been created. *)
LEMMA NextProcInv == Inv /\ [Next]_vars => ProcInv'
<1>. SUFFICES ASSUME Inv, [Next]_vars PROVE ProcInv'
  OBVIOUS
<1>. USE DEF Inv, TypeOK, ProcInv, Threads, netVars, ctorVars, stateVars, procVars
<1>1. CASE UNCHANGED vars
  BY <1>1 DEF vars
<1>2. CASE HangUp \/ ReceiveGarbled \/ RecvClosed \/ DeleteThis \/ Receive
  BY <1>2 DEF HangUp, ReceiveGarbled, RecvClosed, DeleteThis, Receive
<1>3. ASSUME NEW t \in Threads, CtorCreate(t) \/ CtorStore(t) PROVE ProcInv'
  BY <1>3, SMTT(30) DEF CtorCreate, CtorStore, Constructed
<1>4. ASSUME NEW t \in Threads, Signal(t) \/ Interrupt(t) \/ SetOnShutdown(t) \/ Join(t)
      PROVE  ProcInv'
  BY <1>4 DEF Signal, Interrupt, SetOnShutdown, Join
<1>5. ASSUME NEW t \in Threads, Check(t) \/ WaitOne(t) PROVE ProcInv'
  BY <1>5 DEF Check, WaitOne
<1>6. ASSUME NEW t \in Threads, Take(t) PROVE ProcInv'
  <2>1. CASE queue[t] = <<>>
    BY <1>6, <2>1 DEF Take
  <2>2. CASE queue[t] # <<>>
    <3>1. Head(queue[t]) \in 1 .. Len(received) /\ Len(received) \in Nat
      <4>1. queue[t] \in Seq(1 .. Len(received)) /\ Len(received) \in Nat
        BY SMTT(30)
      <4>. HIDE DEF Inv, TypeOK, ProcInv
      <4>. QED
        BY <2>2, <4>1, HeadTailProperties
    <3>2. Head(queue[t]) # 0
      BY <3>1, SMTT(30)
    <3>3. /\ msg' = [msg EXCEPT ![t] = Head(queue[t])]
          /\ ppc' = [ppc EXCEPT ![t] = "process"]
          /\ ppc[t] = "take" /\ cpc' = cpc
      BY <1>6, <2>2 DEF Take
    <3>. QED
      BY <3>2, <3>3
  <2>. QED
    BY <2>1, <2>2
<1>7. ASSUME NEW t \in Threads, Process(t) PROVE ProcInv'
  BY <1>7, ProcessCases DEF Handled, Uncaught
<1>. QED
  BY <1>1, <1>2, <1>3, <1>4, <1>5, <1>6, <1>7, NextCases DEF Shuffle, Constructor

(* Every message keeps its place in line from the push to the handler: the *)
(* queue is first in, first out, and nothing else touches it.              *)
LEMMA ShuffleKeepsLines ==
  ASSUME Inv, Shuffle, NEW u \in Threads
  PROVE  Line(u)' = Line(u) /\ received' = received
<1>. USE DEF Inv, TypeOK, ProcInv, Threads, netVars, ctorVars, stateVars, procVars
<1>1. /\ UNCHANGED <<received, done, queue, msg>>
      /\ ppc'[u] = "process" <=> ppc[u] = "process"
  <2>1. CASE HangUp \/ ReceiveGarbled \/ RecvClosed \/ DeleteThis
    BY <2>1 DEF HangUp, ReceiveGarbled, RecvClosed, DeleteThis
  <2>2. ASSUME NEW t \in Threads, CtorCreate(t) \/ CtorStore(t)
        PROVE  <1>1!:
    BY <2>2 DEF CtorCreate, CtorStore
  <2>3. ASSUME NEW t \in Threads, Signal(t) \/ Interrupt(t) \/ SetOnShutdown(t) \/ Join(t)
        PROVE  <1>1!:
    BY <2>3 DEF Signal, Interrupt, SetOnShutdown, Join
  <2>4. ASSUME NEW t \in Threads, Check(t) \/ WaitOne(t)
        PROVE  <1>1!:
    BY <2>4 DEF Check, WaitOne
  <2>. QED
    BY <2>1, <2>2, <2>3, <2>4 DEF Shuffle, Constructor
<1>. QED
  BY <1>1 DEF Line, InHand

(* The receiver's push adds the new message, the greatest so far, to the   *)
(* line of its own processor and to no other.                              *)
LEMMA ReceiveExtendsLine ==
  ASSUME Inv, Receive, NEW u \in Threads
  PROVE  /\ Increasing(Line(u)')
         /\ Elements(Line(u)') = {i \in DOMAIN received' : QueueOf(received'[i]) = u}
<1>. USE DEF Inv, TypeOK, netVars, ctorVars, stateVars, procVars
<1>. DEFINE n == Len(received)
            t == QueueOf(Head(wire))
<1>1. n \in Nat /\ DOMAIN received = 1 .. n /\ 1 .. n \subseteq Nat
  BY SMTT(30)
<1>2. /\ DOMAIN received' = 1 .. n + 1
      /\ \A i \in 1 .. n : received'[i] = received[i]
      /\ received'[n + 1] = Head(wire)
  <2>1. Head(wire) \in FastKinds \union SlowKinds
    BY SMTT(30) DEF Receive, Kinds
  <2>. QED
    BY <1>1, <2>1, SMTT(30) DEF Receive
<1>3. done[u] \in Seq(Nat) /\ queue[u] \in Seq(Nat) /\ InHand(u) \in Seq(Nat)
  <2>1. done[u] \in Seq(Nat) /\ queue[u] \in Seq(Nat)
    BY <1>1, SeqMonotonic
  <2>2. msg[u] \in Nat
    BY <1>1, SMTT(30)
  <2>. QED
    BY <2>1, <2>2, SMTT(30) DEF InHand
<1>4. Line(u) \in Seq(Nat)
  BY <1>3, ConcatProperties DEF Line
<1>5. Increasing(Line(u)) /\ Elements(Line(u)) = {i \in 1 .. n : QueueOf(received[i]) = u}
  BY <1>1 DEF HandledInOrder
<1>6. CASE u = t
  <2>1. queue'[u] = Append(queue[u], n + 1) /\ UNCHANGED <<done, ppc, msg>>
    BY <1>6 DEF Receive
  <2>2. Line(u)' = Append(Line(u), n + 1)
    <3>1. InHand(u)' = InHand(u)
      BY <2>1 DEF InHand
    <3>2. Line(u)' = done[u] \o InHand(u) \o Append(queue[u], n + 1)
      BY <2>1, <3>1 DEF Line
    <3>3. n + 1 \in Nat
      BY <1>1, SMTT(30)
    <3>4. done[u] \o InHand(u) \o Append(queue[u], n + 1)
            = Append(done[u] \o InHand(u) \o queue[u], n + 1)
      <4>. HIDE DEF Inv, TypeOK, n
      <4>. QED
        BY <1>3, <3>3, PushExtendsLine
    <3>. QED
      BY <3>2, <3>4 DEF Line
  <2>3. \A x \in Elements(Line(u)) : x < n + 1
    BY <1>1, <1>5, SMTT(30)
  <2>4. Increasing(Line(u)') /\ Elements(Line(u)') = Elements(Line(u)) \union {n + 1}
    BY <1>1, <1>4, <1>5, <2>2, <2>3, AppendGreater, SMTT(30)
  <2>5. {i \in DOMAIN received' : QueueOf(received'[i]) = u}
          = {i \in 1 .. n : QueueOf(received[i]) = u} \union {n + 1}
    <3>. HIDE DEF Inv, TypeOK, n, QueueOf
    <3>. QED
      BY <1>1, <1>2, <1>6, SMTT(30)
  <2>. QED
    BY <1>5, <2>4, <2>5
<1>7. CASE u # t
  <2>1. queue'[u] = queue[u] /\ UNCHANGED <<done, ppc, msg>>
    BY <1>7 DEF Receive
  <2>2. Line(u)' = Line(u)
    BY <2>1 DEF Line, InHand
  <2>3. {i \in DOMAIN received' : QueueOf(received'[i]) = u}
          = {i \in 1 .. n : QueueOf(received[i]) = u}
    BY <1>1, <1>2, <1>7, SMTT(30)
  <2>. QED
    BY <1>5, <2>2, <2>3
<1>. QED
  BY <1>6, <1>7

(* Taking a message and finishing with it leave every line as it is.       *)
LEMMA ProcessorKeepsLines ==
  ASSUME Inv, NEW t \in Threads, Take(t) \/ Process(t), NEW u \in Threads
  PROVE  Line(u)' = Line(u) /\ received' = received
<1>. USE DEF Inv, TypeOK, netVars, ctorVars, stateVars, procVars
<1>1. done[t] \in Seq(Nat) /\ queue[t] \in Seq(Nat) /\ msg[t] \in Nat
  BY SeqMonotonic, SMTT(30)
<1>2. CASE Take(t)
  <2>1. received' = received /\ done' = done /\ InHand(t) = <<>>
    BY <1>2 DEF Take, InHand
  <2>2. CASE u # t
    BY <1>2, <2>1, <2>2 DEF Take, Line, InHand
  <2>3. CASE queue[t] = <<>>
    BY <1>2, <2>1, <2>2, <2>3 DEF Take, Line, InHand
  <2>4. CASE queue[t] # <<>> /\ u = t
    <3>1. queue'[t] = Tail(queue[t]) /\ InHand(t)' = <<Head(queue[t])>>
      BY <1>2, <2>4 DEF Take, InHand
    <3>2. Line(t)' = done[t] \o <<Head(queue[t])>> \o Tail(queue[t])
      BY <2>1, <3>1 DEF Line
    <3>. QED
      BY <1>1, <2>1, <2>4, <3>2, TakeKeepsLine DEF Line
  <2>. QED
    BY <2>2, <2>3, <2>4
<1>3. CASE Process(t) /\ Uncaught
  BY <1>3 DEF Uncaught, Line, InHand
<1>4. CASE Process(t) /\ Handled(t)
  <2>1. UNCHANGED <<received, queue, msg>> /\ InHand(t) = <<msg[t]>>
    BY <1>4, ProcessCases DEF Handled, InHand
  <2>2. CASE u # t
    BY <1>4, <2>1, <2>2 DEF Handled, Line, InHand
  <2>3. CASE u = t
    <3>1. done'[t] = Append(done[t], msg[t]) /\ InHand(t)' = <<>>
      BY <1>4 DEF Handled, InHand
    <3>2. Line(t)' = Append(done[t], msg[t]) \o <<>> \o queue[t]
      BY <2>1, <3>1 DEF Line
    <3>3. Line(t) = done[t] \o <<msg[t]>> \o queue[t]
      BY <2>1 DEF Line
    <3>4. Line(t)' = Line(t)
      BY <1>1, <3>2, <3>3, FinishKeepsLine
    <3>. QED
      BY <2>1, <2>3, <3>4
  <2>. QED
    BY <2>2, <2>3
<1>. QED
  BY <1>2, <1>3, <1>4, ProcessCases

(* So the lines stay complete and in order in every step.                  *)
LEMMA NextHandledInOrder == Inv /\ [Next]_vars => HandledInOrder'
<1>. SUFFICES ASSUME Inv, [Next]_vars, NEW u \in Threads
              PROVE  /\ Increasing(Line(u)')
                     /\ Elements(Line(u)') =
                           {i \in DOMAIN received' : QueueOf(received'[i]) = u}
  BY DEF HandledInOrder, Increasing, Elements
<1>1. CASE Line(u)' = Line(u) /\ received' = received
  BY <1>1 DEF Inv, HandledInOrder
<1>2. CASE UNCHANGED vars
  BY <1>1, <1>2 DEF vars, Line, InHand
<1>. QED
  BY <1>1, <1>2, NextCases, ShuffleKeepsLines, ReceiveExtendsLine, ProcessorKeepsLines

(* The inductive invariant holds in every reachable state of a connection. *)
THEOREM Invariance == Spec => []Inv
<1>1. Inv /\ [Next]_vars => Inv'
  BY NextTypeOK, NextProcInv, NextHandledInOrder DEF Inv
<1>. QED
  BY InitInv, <1>1, PTL DEF Spec

(* Every field of a connection keeps its type.                             *)
THEOREM TypeCorrectness == Spec => []TypeOK
<1>1. Inv => TypeOK
  BY DEF Inv
<1>. QED
  BY <1>1, Invariance, PTL

(* Whatever the plugin sends and however the threads interleave, each      *)
(* processor handles the messages of its queue once and in order.          *)
THEOREM Order == Spec => []HandledInOrder
<1>1. Inv => HandledInOrder
  BY DEF Inv
<1>. QED
  BY <1>1, Invariance, PTL

-----------------------------------------------------------------------------
(* The joins of the shutdown cover both processors, given a constructor    *)
(* that has returned.                                                      *)
LEMMA NextStopInv ==
  ASSUME ConstructorFirst
  PROVE  Inv /\ StopInv /\ [Next]_vars => StopInv'
<1>. SUFFICES ASSUME Inv, StopInv, [Next]_vars PROVE StopInv'
  OBVIOUS
<1>. USE DEF Inv, TypeOK, StopInv, Threads, Recv, Delete, Deleted, Constructed,
             netVars, ctorVars, stateVars, procVars
<1>1. CASE UNCHANGED vars
  BY <1>1 DEF vars
<1>2. CASE HangUp
  BY <1>2 DEF HangUp
<1>3. CASE ReceiveGarbled \/ RecvClosed \/ DeleteThis \/ Receive
  <2>1. CASE ReceiveGarbled
    BY <2>1 DEF ReceiveGarbled
  <2>2. CASE RecvClosed
    BY <2>2 DEF RecvClosed, MayRecv
  <2>3. CASE DeleteThis
    BY <2>3 DEF DeleteThis
  <2>4. CASE Receive
    BY <2>4 DEF Receive, MayRecv
  <2>. QED
    BY <1>3, <2>1, <2>2, <2>3, <2>4
<1>4. ASSUME NEW t \in Threads, CtorCreate(t) \/ CtorStore(t) PROVE StopInv'
  BY <1>4, SMTT(30) DEF CtorCreate, CtorStore
<1>5. ASSUME NEW t \in Threads, Signal(t) \/ Interrupt(t) \/ SetOnShutdown(t) \/ Join(t)
      PROVE  StopInv'
  BY <1>5, SMTT(30) DEF Signal, Interrupt, SetOnShutdown, Join
<1>6. ASSUME NEW t \in Threads, Check(t) \/ WaitOne(t) PROVE StopInv'
  BY <1>6 DEF Check, WaitOne
<1>7. ASSUME NEW t \in Threads, Take(t) PROVE StopInv'
  BY <1>7 DEF Take
<1>8. ASSUME NEW t \in Threads, Process(t) PROVE StopInv'
  BY <1>8, ProcessCases DEF Handled, Uncaught
<1>. QED
  BY <1>1, <1>2, <1>3, <1>4, <1>5, <1>6, <1>7, <1>8, NextCases DEF Shuffle, Constructor

(* If the constructor returns before the receiver's first recv, a closed   *)
(* connection is deleted only after both of its processors have left.      *)
THEOREM ExitIsGraceful ==
  ASSUME ConstructorFirst
  PROVE  Spec => []GracefulExit
<1>1. Init => StopInv
  BY SMTT(30) DEF Init, StopInv, Recv, Delete, Deleted, Constructed
<1>2. Inv /\ StopInv => GracefulExit
  BY SMTT(30) DEF StopInv, GracefulExit, Recv, Delete, Deleted, Threads
<1>. QED
  BY <1>1, <1>2, NextStopInv, Invariance, PTL DEF Spec
-----------------------------------------------------------------------------
(* Wake-ups.  Whoever pushes sets the flag afterwards, and the processor   *)
(* resets it before it looks: a message that it does not see then has a    *)
(* flag of its own, or messageWaiting says that there is more.             *)
WakeInv ==
    \A t \in Threads :
        /\ ppc[t] = "wait" => ~messageWaiting[t]
        /\ queue[t] # <<>> =>
             \/ flag[t] \/ rpc = <<"signal", t>>
             \/ messageWaiting[t] \/ ppc[t] \in {"take", "exited"}

(* What messageWaiting says after a Take: whether the queue has more.      *)
LEMMA MoreIsWaiting ==
  ASSUME NEW q \in Seq(Nat), q # <<>>
  PROVE  Tail(q) # <<>> <=> Len(q) > 1
<1>1. Tail(q) \in Seq(Nat) /\ Len(Tail(q)) = Len(q) - 1
  BY HeadTailProperties
<1>2. Tail(q) = <<>> <=> Len(Tail(q)) = 0
  BY <1>1, EmptySeq
<1>3. Len(q) \in Nat /\ Len(q) # 0
  BY EmptySeq
<1>4. Len(Tail(q)) # 0 <=> Len(q) > 1
  <2>. DEFINE n == Len(q)
              m == Len(Tail(q))
  <2>1. n \in Nat /\ n # 0 /\ m = n - 1
    BY <1>1, <1>3
  <2>2. m # 0 <=> n > 1
    <3>. HIDE DEF n, m
    <3>. QED
      BY <2>1, SMTT(30)
  <2>. QED
    BY <2>2
<1>. QED
  BY <1>2, <1>4

(* Every step keeps a message from being overlooked.                       *)
LEMMA NextWakeInv == Inv /\ WakeInv /\ [Next]_vars => WakeInv'
<1>. SUFFICES ASSUME Inv, WakeInv, [Next]_vars PROVE WakeInv'
  OBVIOUS
<1>. USE DEF Inv, TypeOK, WakeInv, netVars, ctorVars, stateVars, procVars
<1>1. CASE UNCHANGED vars
  BY <1>1 DEF vars
<1>2. CASE HangUp \/ ReceiveGarbled
  BY <1>2 DEF HangUp, ReceiveGarbled
<1>3. CASE RecvClosed \/ DeleteThis
  BY <1>3, SMTT(30) DEF RecvClosed, DeleteThis, MayRecv, Recv, Delete, Deleted
<1>4. CASE Receive
  <2>. DEFINE t == QueueOf(Head(wire))
  <2>1. /\ rpc = Recv /\ rpc' = <<"signal", t>>
        /\ queue' = [queue EXCEPT ![t] = Append(@, Len(received) + 1)]
        /\ UNCHANGED <<flag, ppc, messageWaiting>>
    BY <1>4 DEF Receive, MayRecv
  <2>. HIDE DEF t
  <2>. QED
    BY <2>1 DEF Recv
<1>5. ASSUME NEW t \in Threads, CtorCreate(t) \/ CtorStore(t) PROVE WakeInv'
  BY <1>5 DEF CtorCreate, CtorStore, ProcInv, Threads
<1>6. ASSUME NEW t \in Threads, Signal(t) PROVE WakeInv'
  BY <1>6 DEF Signal
<1>7. ASSUME NEW t \in Threads, Interrupt(t) \/ SetOnShutdown(t) \/ Join(t) PROVE WakeInv'
  BY <1>7, SMTT(30) DEF Interrupt, SetOnShutdown, Join
<1>8. ASSUME NEW t \in Threads, Check(t) PROVE WakeInv'
  BY <1>8 DEF Check
<1>9. ASSUME NEW t \in Threads, WaitOne(t) PROVE WakeInv'
  BY <1>9 DEF WaitOne
<1>10. ASSUME NEW t \in Threads, Take(t) PROVE WakeInv'
  <2>1. CASE queue[t] = <<>>
    BY <1>10, <2>1 DEF Take
  <2>2. CASE queue[t] # <<>>
    <3>1. Tail(queue[t]) # <<>> <=> Len(queue[t]) > 1
      <4>1. queue[t] \in Seq(Nat)
        BY SeqMonotonic, SMTT(30)
      <4>. QED
        BY <2>2, <4>1, MoreIsWaiting
    <3>2. /\ ppc[t] = "take" /\ ppc' = [ppc EXCEPT ![t] = "process"]
          /\ queue' = [queue EXCEPT ![t] = Tail(queue[t])]
          /\ messageWaiting' = [messageWaiting EXCEPT ![t] = Len(queue[t]) > 1]
          /\ UNCHANGED <<flag, rpc>>
      BY <1>10, <2>2 DEF Take
    <3>3. ASSUME NEW u \in Threads, u # t
          PROVE  UNCHANGED <<ppc[u], queue[u], messageWaiting[u], flag[u]>>
      BY <3>2, <3>3
    <3>4. /\ ppc'[t] = "process" /\ queue'[t] = Tail(queue[t])
          /\ messageWaiting'[t] <=> Len(queue[t]) > 1
      BY <3>2
    <3>. QED
      BY <3>1, <3>2, <3>3, <3>4
  <2>. QED
    BY <2>1, <2>2
<1>11. ASSUME NEW t \in Threads, Process(t) PROVE WakeInv'
  <2>1. CASE Uncaught
    BY <2>1 DEF Uncaught
  <2>2. CASE Handled(t)
    BY <1>11, <2>2, ProcessCases DEF Handled
  <2>. QED
    BY <1>11, <2>1, <2>2, ProcessCases
<1>. QED
  BY <1>1, <1>2, <1>3, <1>4, <1>5, <1>6, <1>7, <1>8, <1>9, <1>10, <1>11, NextCases
     DEF Shuffle, Constructor

(* For every script, however receiver and processors interleave, no        *)
(* processor goes to sleep on a message: the safety half of                *)
(* ReceivedIsHandled.                                                      *)
THEOREM WakeupsArrive == Spec => []NoLostWakeup
<1>1. Init => WakeInv
  BY DEF Init, WakeInv
<1>2. WakeInv => NoLostWakeup
  BY DEF WakeInv, NoLostWakeup
<1>. QED
  BY <1>1, <1>2, NextWakeInv, Invariance, PTL DEF Spec

-----------------------------------------------------------------------------
(* Shutdown.  What the receiver has done to each processor so far.         *)
PastSet(t) ==
    \/ rpc \in {Delete, Deleted} \union ({"join"} \X Threads)
    \/ t = "fast" /\ rpc = <<"set", "slow">>

PastInterrupt(t) ==
    \/ PastSet(t)
    \/ rpc \in {"set"} \X Threads
    \/ t = "fast" /\ rpc = <<"interrupt", "slow">>

SleepInv ==
    \A t \in Threads :
        /\ PastInterrupt(t) => interrupted[t]
        /\ PastSet(t) /\ ppc[t] = "wait" => flag[t]

(* A processor that is told to stop, and then woken, does not wait again.  *)
LEMMA NextSleepInv ==
  ASSUME ConstructorFirst
  PROVE  Inv /\ StopInv /\ SleepInv /\ [Next]_vars => SleepInv'
<1>. SUFFICES ASSUME Inv, StopInv, SleepInv, [Next]_vars PROVE SleepInv'
  OBVIOUS
<1>. USE DEF Inv, TypeOK, SleepInv, PastSet, PastInterrupt, Threads, Recv, Delete, Deleted,
             netVars, ctorVars, stateVars, procVars
<1>1. CASE UNCHANGED vars
  BY <1>1 DEF vars
<1>2. CASE HangUp \/ ReceiveGarbled
  BY <1>2 DEF HangUp, ReceiveGarbled
<1>3. CASE RecvClosed
  BY <1>3 DEF RecvClosed, MayRecv
<1>4. CASE DeleteThis
  BY <1>4 DEF DeleteThis
<1>5. CASE Receive
  BY <1>5 DEF Receive
<1>6. ASSUME NEW t \in Threads, CtorCreate(t) \/ CtorStore(t) PROVE SleepInv'
  BY <1>6 DEF CtorCreate, CtorStore
<1>7. ASSUME NEW t \in Threads, Signal(t) PROVE SleepInv'
  BY <1>7 DEF Signal
<1>8. ASSUME NEW t \in Threads, Interrupt(t) PROVE SleepInv'
  <2>1. handle[t]
    BY <1>8 DEF Interrupt, StopInv, Constructed
  <2>. QED
    BY <1>8, <2>1 DEF Interrupt
<1>9. ASSUME NEW t \in Threads, SetOnShutdown(t) PROVE SleepInv'
  BY <1>9 DEF SetOnShutdown
<1>10. ASSUME NEW t \in Threads, Join(t) PROVE SleepInv'
  BY <1>10 DEF Join
<1>11. ASSUME NEW t \in Threads, Check(t) \/ WaitOne(t) PROVE SleepInv'
  BY <1>11 DEF Check, WaitOne
<1>12. ASSUME NEW t \in Threads, Take(t) PROVE SleepInv'
  BY <1>12 DEF Take
<1>13. ASSUME NEW t \in Threads, Process(t) PROVE SleepInv'
  BY <1>13, ProcessCases DEF Handled, Uncaught
<1>. QED
  BY <1>1, <1>2, <1>3, <1>4, <1>5, <1>6, <1>7, <1>8, <1>9, <1>10, <1>11, <1>12, <1>13,
     NextCases DEF Shuffle, Constructor

(* If the constructor returns before the receiver's first recv, the        *)
(* receiver never waits for a processor that sleeps or was not told to     *)
(* stop: the safety half of ShutdownCompletes.                             *)
THEOREM JoinsAreAwaited ==
  ASSUME ConstructorFirst
  PROVE  Spec => []JoinedIsAwake
<1>1. Init => StopInv /\ SleepInv
  BY SMTT(30) DEF Init, StopInv, SleepInv, PastSet, PastInterrupt, Recv, Delete, Deleted, Constructed
<1>2. SleepInv => JoinedIsAwake
  BY SMTT(30) DEF SleepInv, PastInterrupt, PastSet, JoinedIsAwake
<1>. QED
  BY <1>1, <1>2, NextStopInv, NextSleepInv, Invariance, PTL DEF Spec
-----------------------------------------------------------------------------
(* Service.  Once a guarded message has been received, no registration is  *)
(* left on the wire; and an error reply is the answer to a guarded message *)
(* that has been handled.                                                  *)
ServedInv ==
    /\ Orderly(wire)
    /\ Orderly(received)
    /\ (\E i \in DOMAIN received : received[i] \in Guarded) =>
            \A j \in DOMAIN wire : wire[j] # "register"
    /\ "error" \in replies =>
            \E i \in Elements(done["fast"]) : received[i] \in Guarded
    /\ AcceptedMeansServed

(* What has been handled was received before what is being handled.        *)
LEMMA HandledBefore ==
  ASSUME Inv, NEW t \in Threads, ppc[t] = "process", NEW k \in Elements(done[t])
  PROVE  k \in 1 .. Len(received) /\ msg[t] \in 1 .. Len(received) /\ k < msg[t]
<1>1. /\ done[t] \in Seq(1 .. Len(received)) /\ queue[t] \in Seq(1 .. Len(received))
      /\ msg[t] \in 1 .. Len(received) /\ Len(received) \in Nat
  BY SMTT(30) DEF Inv, TypeOK, ProcInv
<1>2. done[t] \in Seq(Nat) /\ queue[t] \in Seq(Nat) /\ <<msg[t]>> \in Seq(Nat)
  BY <1>1, SeqMonotonic, SMTT(30)
<1>3. PICK i \in DOMAIN done[t] : k = done[t][i]
  BY DEF Elements
<1>4. Line(t) = (done[t] \o <<msg[t]>>) \o queue[t]
  BY DEF Line, InHand
<1>5. ASSUME NEW d \in Seq(Nat), NEW m \in Nat, NEW q \in Seq(Nat), NEW l \in DOMAIN d,
             Increasing((d \o <<m>>) \o q)
      PROVE  d[l] < m
  <2>. DEFINE s == (d \o <<m>>) \o q
  <2>1. /\ l \in 1 .. Len(d) /\ Len(d) \in Nat /\ Len(q) \in Nat
        /\ DOMAIN s = 1 .. Len(d) + 1 + Len(q)
        /\ s[l] = d[l] /\ s[Len(d) + 1] = m
    BY SMTT(30)
  <2>2. Increasing(s)
    BY <1>5
  <2>. HIDE DEF s
  <2>3. l \in DOMAIN s /\ Len(d) + 1 \in DOMAIN s /\ l < Len(d) + 1
    BY <2>1, SMTT(30)
  <2>. QED
    BY <2>1, <2>2, <2>3 DEF Increasing
<1>6. Increasing(Line(t))
  BY DEF Inv, HandledInOrder
<1>7. msg[t] \in Nat /\ Increasing((done[t] \o <<msg[t]>>) \o queue[t])
  BY <1>1, <1>4, <1>6, SMTT(30)
<1>8. done[t][i] < msg[t]
  BY <1>2, <1>5, <1>7
<1>. QED
  BY <1>1, <1>3, <1>8, SMTT(30)

(* Reading a message keeps what is on the wire and what was read in order. *)
LEMMA ReceiveServedInv == Inv /\ ServedInv /\ Receive => ServedInv'
<1>. SUFFICES ASSUME Inv, ServedInv, Receive PROVE ServedInv'
  OBVIOUS
<1>. DEFINE n == Len(received)
            m == Len(wire)
            k == Head(wire)
<1>1. /\ n \in Nat /\ m \in Nat \ {0} /\ k = wire[1]
      /\ DOMAIN received = 1 .. n /\ DOMAIN wire = 1 .. m
  BY SMTT(30) DEF Inv, TypeOK, Receive
<1>2. /\ DOMAIN received' = 1 .. n + 1
      /\ \A i \in 1 .. n : received'[i] = received[i]
      /\ received'[n + 1] = k
  BY SMTT(30) DEF Inv, TypeOK, Receive, Kinds
<1>3. /\ DOMAIN wire' = 1 .. m - 1
      /\ \A i \in 1 .. m - 1 : wire'[i] = wire[i + 1]
  BY SMTT(30) DEF Inv, TypeOK, Receive
<1>4. UNCHANGED <<done, replies, mRegistered>>
  BY DEF Receive, procVars, stateVars
<1>5. Elements(done["fast"]) \subseteq 1 .. n
  BY <1>1, SMTT(30) DEF Inv, TypeOK, Elements, Threads
<1>. HIDE DEF n, m, k
<1>6. Orderly(wire)'
  <2>1. ASSUME NEW i \in 1 .. m - 1, NEW j \in 1 .. m - 1, i < j, wire[j + 1] = "register"
        PROVE  wire[i + 1] \notin Guarded
    <3>1. i + 1 \in DOMAIN wire /\ j + 1 \in DOMAIN wire /\ i + 1 < j + 1
      BY <1>1, <2>1, SMTT(30)
    <3>. QED
      BY <2>1, <3>1 DEF ServedInv, Orderly
  <2>. QED
    BY <1>3, <2>1 DEF Orderly
<1>7. Orderly(received)'
  <2>1. ASSUME NEW i \in 1 .. n, NEW j \in 1 .. n, i < j, received[j] = "register"
        PROVE  received[i] \notin Guarded
    BY <1>1, <2>1 DEF ServedInv, Orderly
  <2>2. ASSUME NEW i \in 1 .. n, k = "register"
        PROVE  received[i] \notin Guarded
    <3>1. i \in DOMAIN received /\ 1 \in DOMAIN wire /\ wire[1] = "register"
      BY <1>1, <2>2, SMTT(30)
    <3>. QED
      BY <3>1 DEF ServedInv
  <2>. QED
    BY <1>1, <1>2, <2>1, <2>2, SMTT(30) DEF Orderly
<1>8. ((\E i \in DOMAIN received : received[i] \in Guarded) =>
            \A j \in DOMAIN wire : wire[j] # "register")'
  <2>1. ASSUME k \in Guarded, NEW j \in 1 .. m - 1
        PROVE  wire[j + 1] # "register"
    BY <1>1, <2>1, SMTT(30) DEF ServedInv, Orderly
  <2>2. ASSUME NEW i \in 1 .. n, received[i] \in Guarded, NEW j \in 1 .. m - 1
        PROVE  wire[j + 1] # "register"
    BY <1>1, <2>2, SMTT(30) DEF ServedInv
  <2>. QED
    BY <1>1, <1>2, <1>3, <2>1, <2>2, SMTT(30)
<1>9. ("error" \in replies =>
            \E i \in Elements(done["fast"]) : received[i] \in Guarded)'
  BY <1>1, <1>2, <1>4, <1>5 DEF ServedInv
<1>10. AcceptedMeansServed'
  BY <1>4 DEF ServedInv, AcceptedMeansServed
<1>. QED
  BY <1>6, <1>7, <1>8, <1>9, <1>10 DEF ServedInv

(* A wire that loses its head, or its end, has no new registration.        *)
LEMMA ShorterWire ==
  ASSUME Inv, ServedInv, HangUp \/ ReceiveGarbled
  PROVE  ServedInv'
<1>1. \E d \in {0, 1} : \A j \in DOMAIN wire' :
          j \in Nat /\ j + d \in DOMAIN wire /\ wire'[j] = wire[j + d]
  <2>1. CASE HangUp
    <3>1. PICK n \in 0 .. Len(wire) : wire' = SubSeq(wire, 1, n)
      BY <2>1 DEF HangUp
    <3>2. \A j \in DOMAIN wire' :
              j \in Nat /\ j + 0 \in DOMAIN wire /\ wire'[j] = wire[j + 0]
      BY <3>1, SMTT(30) DEF Inv, TypeOK
    <3>. QED
      BY <3>2
  <2>2. CASE ReceiveGarbled
    <3>1. \A j \in DOMAIN wire' :
              j \in Nat /\ j + 1 \in DOMAIN wire /\ wire'[j] = wire[j + 1]
      BY <2>2, SMTT(30) DEF ReceiveGarbled, Inv, TypeOK
    <3>. QED
      BY <3>1
  <2>. QED
    BY <2>1, <2>2
<1>2. /\ UNCHANGED <<received, done, mRegistered>>
      /\ "error" \in replies' <=> "error" \in replies
  BY DEF HangUp, ReceiveGarbled, procVars, stateVars
<1>3. Orderly(wire)'
  BY <1>1, SMTT(30) DEF ServedInv, Orderly
<1>4. (\A j \in DOMAIN wire : wire[j] # "register") =>
          \A j \in DOMAIN wire' : wire'[j] # "register"
  BY <1>1
<1>. QED
  BY <1>2, <1>3, <1>4 DEF ServedInv, Orderly, AcceptedMeansServed

(* Appending adds one element.                                             *)
LEMMA ElementsOfAppend ==
  ASSUME NEW S, NEW s \in Seq(S), NEW n \in S
  PROVE  Elements(Append(s, n)) = Elements(s) \union {n}
<1>1. /\ DOMAIN Append(s, n) = 1 .. Len(s) + 1
      /\ DOMAIN s = 1 .. Len(s)
      /\ \A i \in 1 .. Len(s) : Append(s, n)[i] = s[i]
      /\ Append(s, n)[Len(s) + 1] = n
      /\ Len(s) \in Nat
  BY SMTT(30)
<1>. QED
  BY <1>1, SMTT(30) DEF Elements

(* A handler answers a guarded message with an error only before the       *)
(* plugin is accepted, and accepts it only before such a message.          *)
LEMMA HandlerServedInv ==
  ASSUME Inv, ServedInv, NEW t \in Threads, Process(t)
  PROVE  ServedInv'
<1>1. CASE Uncaught
  BY <1>1 DEF Uncaught, ServedInv, AcceptedMeansServed, procVars, stateVars
<1>2. CASE Handled(t)
  <2>1. UNCHANGED <<wire, received>> /\ ppc[t] = "process"
    BY <1>2, ProcessCases DEF Handled, netVars
  <2>2. done[t] \in Seq(1 .. Len(received)) /\ msg[t] \in 1 .. Len(received)
    BY <2>1, SMTT(30) DEF Inv, TypeOK, ProcInv
  <2>3. Elements(Append(done[t], msg[t])) = Elements(done[t]) \union {msg[t]}
    BY <2>2, ElementsOfAppend, SMTT(30)
  <2>4. done' = [done EXCEPT ![t] = Append(done[t], msg[t])] /\ done \in [Threads -> Seq(1 .. Len(received))]
    BY <1>2 DEF Handled, Inv, TypeOK
  <2>5. Elements(done["fast"]) \subseteq Elements(done'["fast"])
    BY <2>3, <2>4, SMTT(30)
  <2>6. CASE UNCHANGED stateVars
    BY <2>1, <2>5, <2>6 DEF ServedInv, AcceptedMeansServed, stateVars
  <2>7. CASE t = "fast" /\ ProcessRegistration
    <3>1. "error" \notin replies
      <4>1. received[msg["fast"]] = "register"
        BY <2>7 DEF ProcessRegistration, Handling
      <4>2. ASSUME NEW k \in Elements(done["fast"]) PROVE received[k] \notin Guarded
        <5>1. k \in DOMAIN received /\ msg["fast"] \in DOMAIN received /\ k < msg["fast"]
          BY <2>1, <2>7, HandledBefore, SMTT(30) DEF Inv, TypeOK
        <5>. QED
          BY <4>1, <5>1 DEF ServedInv, Orderly
      <4>. QED
        BY <4>2 DEF ServedInv
    <3>2. "error" \notin replies'
      BY <2>7, <3>1, SMTT(30) DEF ProcessRegistration, Reply, stateVars
    <3>. QED
      BY <2>1, <3>2 DEF ServedInv, AcceptedMeansServed
  <2>8. CASE t = "fast" /\ ProcessGuarded /\ mRegistered
    BY <2>1, <2>5, <2>8 DEF ServedInv, AcceptedMeansServed, ProcessGuarded
  <2>9. CASE t = "fast" /\ ProcessGuarded /\ ~mRegistered
    <3>1. received[msg["fast"]] \in Guarded /\ ~mRegistered'
      BY <2>9 DEF ProcessGuarded, Handling, Guarded
    <3>2. msg["fast"] \in Elements(done'["fast"])
      BY <2>3, <2>4, <2>9
    <3>. QED
      BY <2>1, <3>1, <3>2 DEF ServedInv, AcceptedMeansServed
  <2>. QED
    BY <1>2, <2>6, <2>7, <2>8, <2>9
       DEF Process, ProcessConfig, ProcessStatus, ProcessEventLog, Handled, Uncaught, procVars
<1>. QED
  BY <1>1, <1>2, ProcessCases

(* Every step of the connection keeps service in order.                    *)
LEMMA NextServedInv == Inv /\ ServedInv /\ [Next]_vars => ServedInv'
<1>. SUFFICES ASSUME Inv, ServedInv, [Next]_vars PROVE ServedInv'
  OBVIOUS
<1>1. CASE UNCHANGED <<wire, received, done, mRegistered, replies>>
  BY <1>1 DEF ServedInv, AcceptedMeansServed
<1>2. CASE UNCHANGED vars
  BY <1>1, <1>2 DEF vars
<1>3. CASE RecvClosed \/ DeleteThis
  BY <1>1, <1>3 DEF RecvClosed, DeleteThis, netVars, procVars, stateVars
<1>4. ASSUME NEW t \in Threads, CtorCreate(t) \/ CtorStore(t) PROVE ServedInv'
  BY <1>1, <1>4 DEF CtorCreate, CtorStore, netVars, procVars, stateVars
<1>5. ASSUME NEW t \in Threads, Signal(t) \/ Interrupt(t) \/ SetOnShutdown(t) \/ Join(t)
      PROVE  ServedInv'
  BY <1>1, <1>5 DEF Signal, Interrupt, SetOnShutdown, Join, netVars, procVars, stateVars
<1>6. ASSUME NEW t \in Threads, Check(t) \/ WaitOne(t) \/ Take(t) PROVE ServedInv'
  BY <1>1, <1>6 DEF Check, WaitOne, Take, netVars, stateVars
<1>. QED
  BY <1>2, <1>3, <1>4, <1>5, <1>6, NextCases, ReceiveServedInv, ShorterWire,
     HandlerServedInv DEF Shuffle, Constructor

(* A plugin that registers before it subscribes or sends, and is accepted, *)
(* is never told that it is not registered, however the receiver runs      *)
(* ahead of the processors.                                                *)
THEOREM AcceptedIsServed ==
  ASSUME RegistersFirst
  PROVE  Spec => []AcceptedMeansServed
<1>1. Init => ServedInv
  BY SMTT(30) DEF Init, ServedInv, RegistersFirst, Orderly, AcceptedMeansServed
<1>2. ServedInv => AcceptedMeansServed
  BY DEF ServedInv
<1>. QED
  BY <1>1, <1>2, NextServedInv, Invariance, PTL DEF Spec
=============================================================================
