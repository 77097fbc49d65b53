------------------------ MODULE MessageManagerLemmas ------------------------
(***************************************************************************)
(* The inductive invariant of the message manager and the steps that take  *)
(* a message in: those of the caller, and of a worker until its handler    *)
(* has run.  MessageManagerProofs has the rest and the theorems.           *)
(***************************************************************************)
EXTENDS MessageManager, FiniteSetTheorems, TLAPS

(* Time for the leaves that name no prover.                                *)
USE ZenonT(30)

Distinct(q) ==
    \A i, j \in 1 .. Len(q) : q[i] = q[j] /\ q[i] # Outgoing => i = j

IsIn(m, t) == m \in Elements(inQ[t])

IsOut(m, t) == m \in Elements(outQ[t])

(* No message is in two places; Kept says that a step puts m into none.    *)
Apart(m, t, u) ==
    /\ m = cmsg => m # wmsg[t] /\ ~IsIn(m, t) /\ ~IsOut(m, t)
    /\ m = omsg => m # wmsg[t] /\ ~IsIn(m, t) /\ ~IsOut(m, t)
    /\ m = wmsg[t] => /\ ~IsIn(m, u) /\ ~IsOut(m, u)
                      /\ m = wmsg[u] => t = u
    /\ IsIn(m, t) => /\ ~IsOut(m, u)
                     /\ IsIn(m, u) => t = u
    /\ IsOut(m, t) /\ IsOut(m, u) => t = u

Single(m) ==
    /\ m = cmsg => m # omsg
    /\ \A t, u \in Threads : Apart(m, t, u)

Kept(m) ==
    /\ m = cmsg' => m = cmsg
    /\ m = omsg' => m = omsg
    /\ \A t \in Threads : /\ m = wmsg'[t] => m = wmsg[t]
                          /\ IsIn(m, t)' => IsIn(m, t)
                          /\ IsOut(m, t)' => IsOut(m, t)

(* A message is in one place, and there once.                              *)
Once ==
    /\ \A t \in Threads : Distinct(inQ[t]) /\ Distinct(outQ[t])
    /\ \A m \in Messages : Single(m)

Counted(s) == (InFlight \ Uncounted) \intersect Of(s)

IsAssigned(m, t) ==
    \/ IsIn(m, t) \/ m = wmsg[t] \/ IsOut(m, t)
    \/ cpc = "push" /\ cmsg = m /\ cthread = t

(* The thread of a source is where its messages are.                       *)
Home ==
    /\ cpc = "store" => threadId[Source[cmsg]] = None
    /\ calm => /\ opc # "clear"
               /\ \A m \in Messages : \A t \in Threads :
                    Source[m] # NoId /\ IsAssigned(m, t) => threadId[Source[m]] = t

Inv == TypeOK /\ Once /\ CountExact /\ Home

-----------------------------------------------------------------------------
(* The queues as sets.                                                     *)

(* What a push adds to a queue's elements.                                 *)
LEMMA AppendElements ==
    ASSUME NEW S, NEW q \in Seq(S), NEW x \in S
    PROVE /\ Append(q, x) \in Seq(S)
          /\ Len(Append(q, x)) = Len(q) + 1
          /\ Elements(Append(q, x)) = Elements(q) \union {x}
          /\ Distinct(q) /\ (x = Outgoing \/ x \notin Elements(q))
                => Distinct(Append(q, x))
<1> DEFINE r == Append(q, x)
<1>1. /\ r \in Seq(S) /\ Len(r) = Len(q) + 1 /\ Len(q) \in Nat
      /\ \A i \in 1 .. Len(q) : r[i] = q[i]
      /\ r[Len(q) + 1] = x
    BY SMTT(30)
<1> HIDE DEF r
<1>2. Elements(r) = Elements(q) \union {x}
    <2>1. ASSUME NEW y \in Elements(r) PROVE y \in Elements(q) \union {x}
        <3>1. PICK i \in 1 .. Len(r) : y = r[i]
            BY DEF Elements
        <3>2. CASE i = Len(q) + 1
            BY <1>1, <3>1, <3>2
        <3>3. CASE i # Len(q) + 1
            <4>1. i \in 1 .. Len(q)
                BY <1>1, <3>3, SMTT(30)
            <4> QED BY <1>1, <3>1, <4>1 DEF Elements
        <3> QED BY <3>2, <3>3
    <2>2. ASSUME NEW y \in Elements(q) PROVE y \in Elements(r)
        <3>1. PICK i \in 1 .. Len(q) : y = q[i]
            BY DEF Elements
        <3>2. i \in 1 .. Len(r) /\ y = r[i]
            BY <1>1, <3>1, SMTT(30)
        <3> QED BY <3>2 DEF Elements
    <2>3. x \in Elements(r)
        <3>1. Len(q) + 1 \in 1 .. Len(r)
            BY <1>1, SMTT(30)
        <3> QED BY <1>1, <3>1 DEF Elements
    <2> QED BY <2>1, <2>2, <2>3
<1>3. ASSUME Distinct(q), x = Outgoing \/ x \notin Elements(q)
      PROVE Distinct(r)
    <2> SUFFICES ASSUME NEW i \in 1 .. Len(r), NEW j \in 1 .. Len(r),
                        r[i] = r[j], r[i] # Outgoing
                 PROVE i = j
        BY DEF Distinct
    <2>1. \A k \in 1 .. Len(r) : k \in 1 .. Len(q) \/ k = Len(q) + 1
        BY <1>1, SMTT(30)
    <2>2. CASE i \in 1 .. Len(q) /\ j \in 1 .. Len(q)
        BY <1>1, <1>3, <2>2 DEF Distinct
    <2>3. CASE i \in 1 .. Len(q) /\ j = Len(q) + 1
        <3>1. x \in Elements(q) /\ x # Outgoing
            BY <1>1, <2>3 DEF Elements
        <3> QED BY <1>3, <3>1
    <2>4. CASE j \in 1 .. Len(q) /\ i = Len(q) + 1
        <3>1. x \in Elements(q) /\ x # Outgoing
            BY <1>1, <2>4 DEF Elements
        <3> QED BY <1>3, <3>1
    <2> QED BY <2>1, <2>2, <2>3, <2>4
<1> QED BY <1>1, <1>2, <1>3 DEF r

(* What a pop takes from them.                                             *)
LEMMA TailElements ==
    ASSUME NEW S, NEW q \in Seq(S), q # <<>>, Distinct(q)
    PROVE /\ Head(q) \in S
          /\ Head(q) \in Elements(q)
          /\ Tail(q) \in Seq(S)
          /\ Len(Tail(q)) = Len(q) - 1
          /\ Distinct(Tail(q))
          /\ \A y : y # Outgoing =>
                (y \in Elements(Tail(q)) <=> y \in Elements(q) /\ y # Head(q))
<1> DEFINE r == Tail(q)
<1>1. /\ r \in Seq(S) /\ Len(r) = Len(q) - 1 /\ Len(q) \in Nat \ {0} /\ Len(r) \in Nat
      /\ \A i \in 1 .. Len(r) : r[i] = q[i + 1]
      /\ Head(q) = q[1] /\ Head(q) \in S
    BY SMTT(30)
<1> HIDE DEF r
<1>2. Head(q) \in Elements(q)
    <2>1. 1 \in 1 .. Len(q)
        BY <1>1, SMTT(30)
    <2> QED BY <1>1, <2>1 DEF Elements
<1>3. \A i \in 1 .. Len(r) : i + 1 \in 1 .. Len(q) /\ i + 1 # 1
    BY <1>1, SMTT(30)
<1>4. Distinct(r)
    <2> SUFFICES ASSUME NEW i \in 1 .. Len(r), NEW j \in 1 .. Len(r),
                        r[i] = r[j], r[i] # Outgoing
                 PROVE i = j
        BY DEF Distinct
    <2>1. i + 1 = j + 1
        BY <1>1, <1>3 DEF Distinct
    <2> QED BY <2>1, SMTT(30)
<1>5. ASSUME NEW y, y # Outgoing, y \in Elements(r)
      PROVE y \in Elements(q) /\ y # Head(q)
    <2>1. PICK i \in 1 .. Len(r) : y = r[i]
        BY <1>5 DEF Elements
    <2>2. i + 1 \in 1 .. Len(q) /\ i + 1 # 1 /\ y = q[i + 1] /\ 1 \in 1 .. Len(q)
        BY <1>1, <1>3, <2>1, SMTT(30)
    <2>3. y # q[1]
        BY <1>5, <2>2 DEF Distinct
    <2> QED BY <1>1, <2>2, <2>3 DEF Elements
<1>6. ASSUME NEW y, y \in Elements(q), y # Head(q)
      PROVE y \in Elements(r)
    <2>1. PICK i \in 1 .. Len(q) : y = q[i]
        BY <1>6 DEF Elements
    <2>2. i # 1
        BY <1>1, <1>6, <2>1
    <2>3. i - 1 \in 1 .. Len(r) /\ r[i - 1] = q[i]
        <3>1. i - 1 \in 1 .. Len(r) /\ (i - 1) + 1 = i
            BY <1>1, <2>2, SMTT(30)
        <3> QED BY <1>1, <3>1
    <2> QED BY <2>1, <2>3 DEF Elements
<1> QED BY <1>1, <1>2, <1>4, <1>5, <1>6 DEF r

-----------------------------------------------------------------------------
(* What is in flight, before and after a step.                             *)
LEMMA InFlightIs ==
    /\ \A m \in Messages :
        m \in InFlight <=> \/ m = cmsg \/ m = omsg
                           \/ \E t \in Threads :
                                IsIn(m, t) \/ m = wmsg[t] \/ IsOut(m, t)
    /\ \A m \in Messages :
        m \in InFlight' <=> \/ m = cmsg' \/ m = omsg'
                            \/ \E t \in Threads :
                                IsIn(m, t)' \/ m = wmsg'[t] \/ IsOut(m, t)'
    /\ InFlight \subseteq Messages
    /\ InFlight' \subseteq Messages
BY DEF InFlight, Unhandled, IsIn, IsOut

(* A message that is put nowhere stays in one place at most.               *)
LEMMA KeptIsSingle ==
    ASSUME NEW m, Single(m), Kept(m)
    PROVE Single(m)'
<1>1. m = cmsg' => m # omsg'
    BY DEF Single, Kept
<1>2. ASSUME NEW t \in Threads, NEW u \in Threads
      PROVE Apart(m, t, u)'
    <2>1. Apart(m, t, u)
        BY DEF Single
    <2> QED BY <2>1 DEF Apart, Kept
<1> QED BY <1>1, <1>2 DEF Single

(* A message that moves from the counted ones to the lost ones.            *)
LEMMA OneLessOneMore ==
    ASSUME NEW a \in Nat, NEW b \in Nat
    PROVE a + b = (a - 1) + (b + 1)
    BY SMTT(30)

(* How the count follows the messages of a source.                         *)
LEMMA Recount ==
    ASSUME CountExact, NEW s \in Sources, count[s] \in Nat, lost[s] \in Nat
    PROVE /\ IsFiniteSet(Counted(s))
          /\ Cardinality(Counted(s)) \in Nat
          /\ count[s] = Cardinality(Counted(s)) + lost[s]
          /\ \A x : x \notin Counted(s) =>
                Cardinality(Counted(s) \union {x}) = Cardinality(Counted(s)) + 1
          /\ \A x : x \in Counted(s) =>
                Cardinality(Counted(s) \ {x}) = Cardinality(Counted(s)) - 1
<1>1. Counted(s) \subseteq Messages
    BY InFlightIs DEF Counted
<1>2. IsFiniteSet(Counted(s))
    BY <1>1, FS_Subset, ManagerAssumption
<1>3. count[s] = Cardinality(Counted(s)) + lost[s]
    BY DEF CountExact, Counted
<1> HIDE DEF Counted
<1> QED BY <1>2, <1>3, FS_CardinalityType, FS_AddElement, FS_RemoveElement

(* A step that moves no message and counts none.                           *)
LEMMA Unmoved ==
    ASSUME Inv, UNCHANGED <<count, inQ, outQ, cmsg, wmsg, omsg, lost>>,
           opc' = "clear" <=> opc = "clear"
    PROVE Once' /\ CountExact'
<1>1. \A m, t : (IsIn(m, t)' <=> IsIn(m, t)) /\ (IsOut(m, t)' <=> IsOut(m, t))
    BY DEF IsIn, IsOut
<1>2. Once'
    <2>1. ASSUME NEW m \in Messages PROVE Single(m)'
        <3>1. Kept(m)
            BY <1>1 DEF Kept
        <3> QED BY <3>1, KeptIsSingle DEF Inv, Once
    <2> QED BY <2>1 DEF Inv, Once
<1>3. InFlight' = InFlight
    BY <1>1, InFlightIs
<1>4. Uncounted' = Uncounted
    BY DEF Uncounted
<1>5. CountExact'
    BY <1>3, <1>4 DEF Inv, CountExact
<1> QED BY <1>2, <1>5

(* A worker goes on without taking a message or giving one up.             *)
Busy == {"handle", "sent", "cleanup"}

Places == {"pop", "handle", "sent", "cleanup", "notify", "tested", "blocked"}

WorkersOK ==
    /\ wpc \in [Threads -> Places]
    /\ wmsg \in [Threads -> Messages \union {None}]
    /\ \A t \in Threads : wmsg[t] = None <=> wpc[t] \notin Busy

(* The steps of a worker that move no message.                             *)
LEMMA WorkerGoesOn ==
    ASSUME TypeOK, NEW t \in Threads, NEW p \in Places,
           p \in Busy <=> wpc[t] \in Busy,
           wpc' = [wpc EXCEPT ![t] = p], wmsg' = wmsg
    PROVE WorkersOK'
<1>1. WorkersOK
    BY DEF TypeOK, WorkersOK, Busy, Places
<1>2. \A u \in Threads : wpc'[u] = IF u = t THEN p ELSE wpc[u]
    BY <1>1 DEF WorkersOK
<1>3. \A u \in Threads : wpc'[u] \in Busy <=> wpc[u] \in Busy
    BY <1>2
<1>4. wpc' \in [Threads -> Places]
    BY <1>1 DEF WorkersOK
<1> QED BY <1>1, <1>3, <1>4 DEF WorkersOK

(* The steps of assign that read, choose and store the thread.             *)
LEMMA AssignmentKeepsInv ==
    ASSUME Inv, UseAssignment \/ StoreThread \/ \E t \in Threads : ChooseThread(t)
    PROVE Inv'
<1> USE ManagerAssumption DEF Inv, outputVars, workerVars, assignVars
<1>1. Once' /\ CountExact'
    <2>1. UNCHANGED <<count, inQ, outQ, cmsg, wmsg, omsg, lost, opc>>
        BY DEF UseAssignment, StoreThread, ChooseThread
    <2> QED BY <2>1, Unmoved
<1>2. \A m, t : (IsIn(m, t)' <=> IsIn(m, t)) /\ (IsOut(m, t)' <=> IsOut(m, t))
    BY DEF UseAssignment, StoreThread, ChooseThread, IsIn, IsOut
<1>3. CASE UseAssignment
    <2>1. TypeOK'
        BY <1>3 DEF UseAssignment, HasThread, TypeOK
    <2>2. Home'
        BY <1>2, <1>3 DEF UseAssignment, Home, IsAssigned
    <2> QED BY <1>1, <2>1, <2>2
<1>4. CASE StoreThread
    <2>1. cmsg \in Messages /\ Source[cmsg] \in Sources /\ cthread \in Threads
        BY <1>4 DEF StoreThread, TypeOK
    <2>2. TypeOK'
        BY <1>4, <2>1 DEF StoreThread, TypeOK
    <2>3. ASSUME calm, NEW m \in Messages, NEW t \in Threads,
                 Source[m] # NoId, IsAssigned(m, t)'
          PROVE threadId'[Source[m]] = t
        <3>1. Source[m] \in Sources
            BY <2>3
        <3>2. CASE IsIn(m, t) \/ m = wmsg[t] \/ IsOut(m, t)
            <4>1. threadId[Source[m]] = t
                BY <2>3, <3>2 DEF Home, IsAssigned
            <4>2. Source[m] # Source[cmsg]
                BY <1>4, <4>1 DEF StoreThread, Home
            <4> QED BY <1>4, <2>1, <3>1, <4>1, <4>2 DEF StoreThread, TypeOK
        <3>3. CASE cmsg = m /\ cthread = t
            BY <1>4, <2>1, <3>3 DEF StoreThread, TypeOK
        <3> QED BY <1>2, <1>4, <2>3, <3>2, <3>3 DEF StoreThread, IsAssigned
    <2>4. Home'
        BY <1>4, <2>3 DEF StoreThread, Home
    <2> QED BY <1>1, <2>2, <2>4
<1>5. ASSUME NEW t \in Threads, ChooseThread(t)
      PROVE Inv'
    <2>1. TypeOK'
        BY <1>5 DEF ChooseThread, TypeOK
    <2>2. Home'
        BY <1>2, <1>5 DEF ChooseThread, HasThread, Home, IsAssigned
    <2> QED BY <1>1, <2>1, <2>2
<1> QED BY <1>3, <1>4, <1>5

(* Notifications and waits.                                                *)
LEMMA WaitingKeepsInv ==
    ASSUME Inv,
           \/ NotifyWorker \/ OutputWaits \/ SpuriousWakeup
           \/ \E t \in Threads : NotifyOutput(t) \/ WorkerWaits(t)
    PROVE Inv'
<1> USE ManagerAssumption DEF Inv, outputVars, workerVars, assignVars, callerVars
<1>1. /\ UNCHANGED <<count, threadId, inQ, outQ, cmsg, wmsg, omsg, lost, calm>>
      /\ opc' = "clear" <=> opc = "clear"
      /\ UNCHANGED cpc \/ cpc' = "idle"
      /\ UNCHANGED cthread \/ cpc' = "idle"
    BY DEF NotifyWorker, OutputWaits, SpuriousWakeup, NotifyOutput, WorkerWaits, Woken
<1>2. Once' /\ CountExact'
    BY <1>1, Unmoved
<1>3. Home'
    BY <1>1 DEF Home, IsAssigned, IsIn, IsOut
<1>4. TypeOK'
    <2>1. CASE NotifyWorker
        BY <2>1 DEF NotifyWorker, Woken, TypeOK
    <2>2. CASE OutputWaits
        BY <2>2 DEF OutputWaits, TypeOK
    <2>3. CASE SpuriousWakeup
        <3>1. CASE UNCHANGED wpc
            BY <2>3, <3>1 DEF SpuriousWakeup, TypeOK
        <3>2. ASSUME NEW t \in Threads, wpc[t] = "blocked",
                     wpc' = [wpc EXCEPT ![t] = "pop"], UNCHANGED opc
              PROVE TypeOK'
            <4>1. "pop" \in Places /\ ("pop" \in Busy <=> wpc[t] \in Busy) /\ wmsg' = wmsg
                BY <1>1, <3>2 DEF Busy, Places
            <4>2. WorkersOK'
                BY <3>2, <4>1, WorkerGoesOn
            <4> QED BY <2>3, <3>2, <4>2 DEF SpuriousWakeup, TypeOK, WorkersOK, Busy, Places
        <3> QED BY <2>3, <3>1, <3>2 DEF SpuriousWakeup
    <2>4. ASSUME NEW t \in Threads, NotifyOutput(t)
          PROVE TypeOK'
        BY <2>4 DEF NotifyOutput, Woken, TypeOK
    <2>5. ASSUME NEW t \in Threads, WorkerWaits(t)
          PROVE TypeOK'
        <3>1. PICK p \in {"tested", "blocked"} : wpc' = [wpc EXCEPT ![t] = p]
            BY <2>5 DEF WorkerWaits
        <3>2. wpc[t] \in {"pop", "tested"}
            BY <2>5 DEF WorkerWaits
        <3>3. p \in Places /\ (p \in Busy <=> wpc[t] \in Busy) /\ wmsg' = wmsg
            BY <1>1, <3>2 DEF Busy, Places
        <3>4. WorkersOK'
            BY <3>1, <3>3, WorkerGoesOn
        <3> QED BY <2>5, <3>4 DEF WorkerWaits, TypeOK, WorkersOK, Busy, Places
    <2> QED BY <2>1, <2>2, <2>3, <2>4, <2>5
<1> QED BY <1>2, <1>3, <1>4

(* A new message is counted.                                               *)
LEMMA AssignKeepsInv ==
    ASSUME Inv, NEW m \in Messages, Assign(m)
    PROVE Inv'
<1> USE ManagerAssumption DEF Inv, outputVars, workerVars
<1>1. TypeOK'
    BY SMTT(30) DEF Assign, CountOne, TypeOK
<1>2. \A x, t : (IsIn(x, t)' <=> IsIn(x, t)) /\ (IsOut(x, t)' <=> IsOut(x, t))
    BY DEF Assign, IsIn, IsOut
<1>3. /\ m \notin InFlight
      /\ m # omsg
      /\ \A t \in Threads : m # wmsg[t] /\ ~IsIn(m, t) /\ ~IsOut(m, t)
    BY InFlightIs DEF Assign
<1>4. Once'
    <2>1. UNCHANGED <<inQ, outQ, wmsg, omsg>> /\ cmsg' = m
        BY DEF Assign
    <2>2. ASSUME NEW x \in Messages, x # m PROVE Single(x)'
        <3>1. Kept(x)
            BY <1>2, <2>1, <2>2 DEF Kept
        <3> QED BY <3>1, KeptIsSingle DEF Once
    <2>3. Single(m)'
        BY <1>2, <1>3, <2>1 DEF Single, Apart
    <2> QED BY <2>1, <2>2, <2>3 DEF Once
<1>5. InFlight' = InFlight \union {m}
    <2>1. cmsg = None /\ cmsg' = m /\ UNCHANGED <<wmsg, omsg>>
        BY DEF Assign, TypeOK
    <2> QED BY <1>2, <2>1, InFlightIs
<1>6. CountExact'
    <2> SUFFICES ASSUME NEW s \in Sources
                 PROVE count'[s] = Cardinality(Counted(s)') + lost'[s]
        BY DEF CountExact, Counted
    <2>1. Uncounted' = Uncounted /\ m \notin Uncounted
        BY <1>3 DEF Assign, Uncounted
    <2>2. CASE s = Source[m]
        <3>1. Counted(s)' = Counted(s) \union {m} /\ m \notin Counted(s)
            BY <1>3, <1>5, <2>1, <2>2 DEF Counted, Of
        <3>2. count'[s] = count[s] + 1 /\ lost'[s] = lost[s]
            BY <2>2 DEF Assign, CountOne
        <3>3. /\ Cardinality(Counted(s) \union {m}) = Cardinality(Counted(s)) + 1
              /\ count[s] = Cardinality(Counted(s)) + lost[s]
              /\ Cardinality(Counted(s)) \in Nat /\ lost[s] \in Nat
            BY <3>1, Recount DEF TypeOK
        <3> QED BY <3>1, <3>2, <3>3, SMTT(30)
    <2>3. CASE s # Source[m]
        <3>1. Counted(s)' = Counted(s)
            BY <1>5, <2>1, <2>3 DEF Counted, Of
        <3>2. count'[s] = count[s] /\ lost'[s] = lost[s]
            BY <2>3 DEF Assign
        <3> QED BY <3>1, <3>2, Recount DEF TypeOK
    <2> QED BY <2>2, <2>3
<1>7. Home'
    BY <1>2 DEF Assign, Home, IsAssigned
<1> QED BY <1>1, <1>4, <1>6, <1>7

(* The message goes from the caller into the queue of its thread.          *)
LEMMA PushKeepsInv ==
    ASSUME Inv, NEW t \in Threads, PushTo(t)
    PROVE Inv'
<1> USE ManagerAssumption DEF Inv, outputVars, workerVars, assignVars
<1>1. cmsg \in Messages /\ inQ[t] \in Seq(Messages) /\ ~IsIn(cmsg, t)
    BY DEF PushTo, TypeOK, Once, Single, Apart
<1>2. inQ' = [inQ EXCEPT ![t] = Append(inQ[t], cmsg)]
    BY DEF PushTo
<1> DEFINE q == Append(inQ[t], cmsg)
<1>3. /\ q \in Seq(Messages)
      /\ Len(q) = Len(inQ[t]) + 1
      /\ Elements(q) = Elements(inQ[t]) \union {cmsg}
      /\ Distinct(q)
    BY <1>1, AppendElements DEF Once, Single, Apart, IsIn
<1>4. inQ' = [inQ EXCEPT ![t] = q]
    BY <1>2
<1> HIDE DEF q
<1>5. TypeOK'
    <2>1. inQ' \in [Threads -> Seq(Messages)]
        BY <1>3, <1>4 DEF TypeOK
    <2>2. \A u \in Threads : Len(inQ'[u]) <= QueueSize
        BY <1>3, <1>4, SMTT(30) DEF TypeOK, PushTo, HasRoom
    <2> QED BY <2>1, <2>2 DEF TypeOK, PushTo
<1>6. /\ \A x : \A u \in Threads : IsIn(x, u)' <=> IsIn(x, u) \/ (u = t /\ x = cmsg)
      /\ \A x, u : (IsOut(x, u)' <=> IsOut(x, u))
    <2>1. \A u \in Threads : inQ'[u] = IF u = t THEN q ELSE inQ[u]
        BY <1>4 DEF TypeOK
    <2>2. UNCHANGED outQ
        BY DEF PushTo
    <2> QED BY <1>3, <2>1, <2>2 DEF IsIn, IsOut
<1>7. \A u \in Threads : Distinct(inQ'[u])
    BY <1>3, <1>4 DEF TypeOK, Once
<1>8. UNCHANGED <<count, threadId, outQ, wmsg, omsg, opc, lost, calm>> /\ cmsg' = None
    BY DEF PushTo
<1>9. Once'
    <2>1. ASSUME NEW x \in Messages, x # cmsg PROVE Single(x)'
        <3>1. Kept(x)
            BY <1>6, <1>8, <2>1 DEF Kept
        <3> QED BY <3>1, KeptIsSingle DEF Once
    <2>2. Single(cmsg) /\ cmsg # None
        BY <1>1 DEF Once
    <2>3. cmsg # omsg /\ \A u \in Threads : cmsg # wmsg[u] /\ ~IsIn(cmsg, u) /\ ~IsOut(cmsg, u)
        BY <2>2 DEF Single, Apart
    <2>4. ASSUME NEW x, x = cmsg PROVE Single(x)'
        <3>1. /\ x # cmsg' /\ x # omsg'
              /\ \A u \in Threads : /\ x # wmsg'[u] /\ ~IsOut(x, u)'
                                    /\ IsIn(x, u)' => u = t
            BY <1>6, <1>8, <2>2, <2>3, <2>4
        <3> QED BY <3>1 DEF Single, Apart
    <2> QED BY <1>7, <1>8, <2>1, <2>4 DEF Once
<1>10. InFlight' = InFlight
    <2>1. ASSUME NEW x \in Messages PROVE x \in InFlight' <=> x \in InFlight
        <3>1. CASE x = cmsg
            BY <1>6, <1>8, <3>1, InFlightIs
        <3>2. CASE x # cmsg
            BY <1>6, <1>8, <3>2, InFlightIs
        <3> QED BY <3>1, <3>2
    <2> QED BY <2>1, InFlightIs
<1>11. CountExact'
    BY <1>8, <1>10 DEF CountExact, Uncounted
<1>12. Home'
    BY <1>6, <1>8, SMTT(30) DEF PushTo, Home, IsAssigned
<1> QED BY <1>5, <1>9, <1>11, <1>12, SMTT(60)

(* The queue was full: the message is lost, and stays counted.             *)
LEMMA PushFailsKeepsInv ==
    ASSUME Inv, PushFails
    PROVE Inv'
<1> USE ManagerAssumption DEF Inv, outputVars, workerVars, assignVars
<1>1. cmsg \in Messages
    BY DEF PushFails, TypeOK
<1>2. TypeOK'
    BY SMTT(30) DEF PushFails, Lose, TypeOK
<1>3. \A x, t : (IsIn(x, t)' <=> IsIn(x, t)) /\ (IsOut(x, t)' <=> IsOut(x, t))
    BY DEF PushFails, IsIn, IsOut
<1>4. UNCHANGED <<count, threadId, inQ, outQ, wmsg, omsg, opc, calm>> /\ cmsg' = None
    BY DEF PushFails
<1>5. Once'
    <2>1. ASSUME NEW x \in Messages PROVE Single(x)'
        <3>1. Kept(x)
            BY <1>3, <1>4 DEF Kept
        <3> QED BY <3>1, KeptIsSingle DEF Once
    <2> QED BY <1>4, <2>1 DEF Once
<1>6. InFlight' = InFlight \ {cmsg}
    <2>1. Single(cmsg)
        BY <1>1 DEF Once
    <2>2. ASSUME NEW x \in Messages PROVE x \in InFlight' <=> x \in InFlight /\ x # cmsg
        <3>1. CASE x = cmsg
            BY <1>3, <1>4, <2>1, <3>1, InFlightIs DEF Single, Apart
        <3>2. CASE x # cmsg
            BY <1>3, <1>4, <3>2, InFlightIs
        <3> QED BY <3>1, <3>2
    <2> QED BY <2>2, InFlightIs
<1>7. CountExact'
    <2> SUFFICES ASSUME NEW s \in Sources
                 PROVE count'[s] = Cardinality(Counted(s)') + lost'[s]
        BY DEF CountExact, Counted
    <2>1. Uncounted' = Uncounted /\ cmsg \notin Uncounted /\ cmsg \in InFlight
        BY <1>1, <1>4, InFlightIs DEF Uncounted, Once, Single, Apart, TypeOK
    <2>2. CASE s = Source[cmsg]
        <3>1. Counted(s)' = Counted(s) \ {cmsg} /\ cmsg \in Counted(s)
            BY <1>1, <1>6, <2>1, <2>2 DEF Counted, Of
        <3>2. count'[s] = count[s] /\ lost'[s] = lost[s] + 1
            BY <2>2 DEF PushFails, Lose
        <3>3. /\ Cardinality(Counted(s) \ {cmsg}) = Cardinality(Counted(s)) - 1
              /\ count[s] = Cardinality(Counted(s)) + lost[s]
              /\ Cardinality(Counted(s)) \in Nat /\ lost[s] \in Nat
            BY <3>1, Recount DEF TypeOK
        <3>4. Cardinality(Counted(s)') = Cardinality(Counted(s)) - 1
            BY <3>1, <3>3
        <3>5. Cardinality(Counted(s)) + lost[s] = (Cardinality(Counted(s)) - 1) + (lost[s] + 1)
            BY <3>3, OneLessOneMore
        <3> HIDE DEF Counted
        <3> QED BY <3>2, <3>3, <3>4, <3>5
    <2>3. CASE s # Source[cmsg]
        <3>1. Counted(s)' = Counted(s)
            BY <1>6, <2>1, <2>3 DEF Counted, Of
        <3>2. count'[s] = count[s] /\ lost'[s] = lost[s]
            BY <2>3 DEF PushFails, Lose
        <3> QED BY <3>1, <3>2, Recount DEF TypeOK
    <2> QED BY <2>2, <2>3
<1>8. Home'
    BY <1>3, <1>4, SMTT(30) DEF PushFails, Home, IsAssigned
<1> QED BY <1>2, <1>5, <1>7, <1>8

(* The message goes from the queue into the worker's hands.                *)
LEMMA PopKeepsInv ==
    ASSUME Inv, NEW t \in Threads, Pop(t)
    PROVE Inv'
<1> USE ManagerAssumption DEF Inv, outputVars, callerVars, assignVars
<1> DEFINE m == Head(inQ[t])
           q == Tail(inQ[t])
<1>1. inQ[t] \in Seq(Messages) /\ inQ[t] # <<>> /\ Distinct(inQ[t]) /\ Len(inQ[t]) <= QueueSize
    BY DEF Pop, TypeOK, Once, Single, Apart
<1>2. /\ m \in Messages /\ m \in Elements(inQ[t])
      /\ q \in Seq(Messages) /\ Len(q) = Len(inQ[t]) - 1 /\ Distinct(q)
      /\ \A x : x # Outgoing => (x \in Elements(q) <=> x \in Elements(inQ[t]) /\ x # m)
    BY <1>1, TailElements
<1>3. /\ inQ' = [inQ EXCEPT ![t] = q]
      /\ wmsg' = [wmsg EXCEPT ![t] = m]
      /\ wpc' = [wpc EXCEPT ![t] = "handle"]
      /\ wpc[t] = "pop"
      /\ UNCHANGED <<count, threadId, outQ, cpc, cmsg, cthread, opc, omsg, lost, calm>>
    BY DEF Pop
<1> HIDE DEF m, q
<1>4. TypeOK'
    <2>1. inQ' \in [Threads -> Seq(Messages)]
        BY <1>2, <1>3 DEF TypeOK
    <2>2. \A u \in Threads : Len(inQ'[u]) <= QueueSize
        <3>1. Len(q) <= QueueSize
            BY <1>1, <1>2, SMTT(30)
        <3> QED BY <1>3, <3>1 DEF TypeOK
    <2> QED BY <1>2, <1>3, <2>1, <2>2 DEF TypeOK
<1>5. wmsg[t] = None
    <2>1. wpc[t] = "pop"
        BY <1>3
    <2>2. \A u \in Threads : wmsg[u] = None <=> wpc[u] \notin Busy
        BY DEF TypeOK, Busy
    <2> QED BY <2>1, <2>2 DEF Busy
<1>6. /\ \A x \in Messages : \A u \in Threads :
            IsIn(x, u)' <=> IsIn(x, u) /\ ~(u = t /\ x = m)
      /\ \A x, u : (IsOut(x, u)' <=> IsOut(x, u))
      /\ \A u \in Threads : wmsg'[u] = IF u = t THEN m ELSE wmsg[u]
      /\ IsIn(m, t)
    BY <1>2, <1>3 DEF TypeOK, IsIn, IsOut
<1>7. \A u \in Threads : Distinct(inQ'[u])
    BY <1>2, <1>3 DEF TypeOK, Once, Single, Apart
<1>8. Once'
    <2>1. ASSUME NEW x \in Messages, x # m PROVE Single(x)'
        <3>1. Kept(x)
            BY <1>3, <1>6, <2>1 DEF Kept
        <3> QED BY <3>1, KeptIsSingle DEF Once
    <2>2. Single(m)
        BY <1>2 DEF Once
    <2>3. ASSUME NEW x, x = m PROVE Single(x)'
        <3>1. /\ x # cmsg' /\ x # omsg'
              /\ \A u \in Threads : /\ ~IsIn(x, u)' /\ ~IsOut(x, u)'
                                    /\ x = wmsg'[u] => u = t
            BY <1>2, <1>3, <1>6, <2>2, <2>3 DEF Single, Apart
        <3> QED BY <3>1 DEF Single, Apart
    <2> QED BY <1>3, <1>7, <2>1, <2>3 DEF Once
<1>9. InFlight' = InFlight
    <2>1. ASSUME NEW x \in Messages PROVE x \in InFlight' <=> x \in InFlight
        <3>1. CASE x = m
            BY <1>6, <3>1, InFlightIs
        <3>2. CASE x # m
            BY <1>3, <1>5, <1>6, <3>2, InFlightIs
        <3> QED BY <3>1, <3>2
    <2> QED BY <2>1, InFlightIs
<1>10. CountExact'
    BY <1>3, <1>9 DEF CountExact, Uncounted
<1>11. Home'
    BY <1>2, <1>3, <1>6, SMTT(30) DEF Home, IsAssigned
<1> QED BY <1>4, <1>8, <1>10, <1>11

(* What a handler sends is not a message of any source.                    *)
LEMMA HandleKeepsInv ==
    ASSUME Inv, NEW t \in Threads, Handle(t)
    PROVE Inv'
<1> USE ManagerAssumption DEF Inv, outputVars, callerVars, assignVars
<1>0. PICK p \in {"sent", "cleanup"} : wpc' = [wpc EXCEPT ![t] = p]
    BY DEF Handle
<1>1. /\ wpc[t] = "handle"
      /\ UNCHANGED <<count, threadId, inQ, cpc, cmsg, cthread, wmsg, opc, omsg, lost, calm>>
    BY DEF Handle
<1>2. /\ outQ' \in [Threads -> Seq(Messages \union {Outgoing})]
      /\ \A u \in Threads : /\ Len(outQ'[u]) <= QueueSize
                            /\ Distinct(outQ'[u])
                            /\ \A x \in Messages : IsOut(x, u)' <=> IsOut(x, u)
    <2>1. CASE outQ' = outQ
        BY <2>1 DEF TypeOK, Once, Single, Apart, IsOut
    <2>2. CASE outQ' # outQ
        <3> DEFINE q == Append(outQ[t], Outgoing)
        <3>1. outQ' = [outQ EXCEPT ![t] = q] /\ Len(outQ[t]) < QueueSize
            BY <2>2 DEF Handle, HasRoom
        <3>2. /\ q \in Seq(Messages \union {Outgoing})
              /\ Len(q) = Len(outQ[t]) + 1
              /\ Elements(q) = Elements(outQ[t]) \union {Outgoing}
              /\ Distinct(q)
              /\ Len(outQ[t]) \in Nat
            BY AppendElements, SMTT(30) DEF TypeOK, Once, Single, Apart
        <3> HIDE DEF q
        <3>3. Len(q) <= QueueSize
            BY <3>1, <3>2, SMTT(30)
        <3> QED BY <3>1, <3>2, <3>3 DEF TypeOK, Once, IsOut
    <2> QED BY <2>1, <2>2
<1>3. TypeOK'
    <2>2. WorkersOK'
        <3>1. p \in Places /\ (p \in Busy <=> wpc[t] \in Busy) /\ wmsg' = wmsg
            BY <1>1 DEF Busy, Places
        <3> QED BY <1>0, <3>1, WorkerGoesOn
    <2>3. \A u \in Threads : Len(outQ'[u]) <= QueueSize
        BY <1>2
    <2> QED BY <1>1, <1>2, <2>2, <2>3 DEF TypeOK, WorkersOK, Busy, Places
<1>4. \A x, u : (IsIn(x, u)' <=> IsIn(x, u))
    BY <1>1 DEF IsIn
<1>5. Once'
    <2>1. ASSUME NEW x \in Messages PROVE Single(x)'
        <3>1. Kept(x)
            BY <1>1, <1>2, <1>4 DEF Kept
        <3> QED BY <3>1, KeptIsSingle DEF Once
    <2> QED BY <1>1, <1>2, <2>1 DEF Once
<1>6. InFlight' = InFlight
    <2>1. ASSUME NEW x \in Messages PROVE x \in InFlight' <=> x \in InFlight
        <3>1. \A u \in Threads : /\ IsIn(x, u)' <=> IsIn(x, u)
                                 /\ IsOut(x, u)' <=> IsOut(x, u)
                                 /\ wmsg'[u] = wmsg[u]
            BY <1>1, <1>2, <1>4
        <3>2. cmsg' = cmsg /\ omsg' = omsg
            BY <1>1
        <3> QED BY <3>1, <3>2, InFlightIs
    <2> QED BY <2>1, InFlightIs
<1>7. CountExact'
    BY <1>1, <1>6 DEF CountExact, Uncounted
<1>8. Home'
    BY <1>1, <1>2, <1>4 DEF Home, IsAssigned
<1> QED BY <1>3, <1>5, <1>7, <1>8

=============================================================================
