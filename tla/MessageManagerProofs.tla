------------------------ MODULE MessageManagerProofs ------------------------
(***************************************************************************)
(* For all finite sets of messages and any threads, sources and queue      *)
(* sizes: the count of a source is exact, and in a calm behaviour all      *)
(* messages of a source that wait or are being handled are on one thread.  *)
(*                                                                         *)
(* The argument: a message is in one place at a time (Once), so the count, *)
(* which follows the messages in flight, is 1 only if the one being        *)
(* unassigned is alone; then nothing is on the thread that is given up     *)
(* (Home).                                                                 *)
(***************************************************************************)
EXTENDS MessageManagerLemmas

(* Time for the leaves that name no prover.                                *)
USE ZenonT(30)

(* The message goes on to the output thread, or its clean-up is lost.      *)
LEMMA CleanupKeepsInv ==
    ASSUME Inv, NEW t \in Threads, PushCleanup(t)
    PROVE Inv'
<1> USE ManagerAssumption DEF Inv, outputVars, callerVars, assignVars
<1> DEFINE m == wmsg[t]
           q == Append(outQ[t], m)
<1>1. /\ wpc[t] = "cleanup" /\ m \in Messages /\ wmsg' = [wmsg EXCEPT ![t] = None]
      /\ UNCHANGED <<count, threadId, inQ, cpc, cmsg, cthread, opc, omsg, calm>>
    BY DEF PushCleanup, TypeOK
<1>2. /\ \A u \in Threads : wmsg'[u] = IF u = t THEN None ELSE wmsg[u]
      /\ \A x, u : (IsIn(x, u)' <=> IsIn(x, u))
    BY <1>1 DEF TypeOK, IsIn
<1>3. \A u \in Threads : u # t => wmsg[u] # m
    BY <1>1 DEF Once, Single, Apart
<1>4. CASE HasRoom(outQ[t])
    <2>1. /\ outQ' = [outQ EXCEPT ![t] = q] /\ wpc' = [wpc EXCEPT ![t] = "notify"]
          /\ UNCHANGED lost /\ Len(outQ[t]) < QueueSize
        BY <1>4 DEF PushCleanup, HasRoom
    <2>2. /\ q \in Seq(Messages \union {Outgoing})
          /\ Len(q) = Len(outQ[t]) + 1
          /\ Elements(q) = Elements(outQ[t]) \union {m}
          /\ Distinct(q)
          /\ Len(outQ[t]) \in Nat
        <3>1. ~IsOut(m, t)
            BY <1>1 DEF Once, Single, Apart
        <3> QED BY <1>1, <3>1, AppendElements, SMTT(30) DEF TypeOK, Once, Single, Apart, IsOut
    <2> HIDE DEF q
    <2>3. Len(q) <= QueueSize
        BY <2>1, <2>2, SMTT(30)
    <2>4. TypeOK'
        BY <1>1, <2>1, <2>2, <2>3 DEF TypeOK
    <2>5. \A u \in Threads : /\ Distinct(outQ'[u])
                             /\ \A x : IsOut(x, u)' <=> IsOut(x, u) \/ (u = t /\ x = m)
        BY <2>1, <2>2, SMTT(30) DEF TypeOK, Once, Single, Apart, IsOut
    <2> HIDE DEF m
    <2>6. m = wmsg[t]
        BY DEF m
    <2>7. Once'
        <3>1. ASSUME NEW x \in Messages, x # m PROVE Single(x)'
            <4>1. Kept(x)
                BY <1>1, <1>2, <2>5, <3>1 DEF Kept
            <4> QED BY <4>1, KeptIsSingle DEF Once
        <3>2. Single(m)
            BY <1>1, <2>6 DEF Once
        <3>3. ASSUME NEW x, x = m PROVE Single(x)'
            <4>1. /\ x # cmsg' /\ x # omsg'
                  /\ \A u \in Threads : /\ ~IsIn(x, u)' /\ x # wmsg'[u]
                                        /\ IsOut(x, u)' => u = t
                BY <1>1, <1>2, <1>3, <2>5, <2>6, <3>2, <3>3 DEF Single, Apart
            <4> QED BY <4>1 DEF Single, Apart
        <3> QED BY <1>1, <2>5, <3>1, <3>3 DEF Once
    <2>8. InFlight' = InFlight
        <3>1. ASSUME NEW x \in Messages PROVE x \in InFlight' <=> x \in InFlight
            <4>1. CASE x = m
                BY <2>5, <2>6, <4>1, InFlightIs
            <4>2. CASE x # m
                BY <1>1, <1>2, <2>5, <2>6, <4>2, InFlightIs
            <4> QED BY <4>1, <4>2
        <3> QED BY <3>1, InFlightIs
    <2>9. CountExact'
        BY <1>1, <2>1, <2>8 DEF CountExact, Uncounted
    <2>10. Home'
        BY <1>1, <1>2, <2>5, <2>6, SMTT(30) DEF Home, IsAssigned
    <2> QED BY <2>4, <2>7, <2>9, <2>10
<1>5. CASE ~HasRoom(outQ[t])
    <2>1. /\ Lose(m) /\ wpc' = [wpc EXCEPT ![t] = "pop"] /\ UNCHANGED outQ
        BY <1>5 DEF PushCleanup
    <2>2. TypeOK'
        BY <1>1, <2>1, SMTT(30) DEF Lose, TypeOK
    <2>3. \A x, u : (IsOut(x, u)' <=> IsOut(x, u))
        BY <2>1 DEF IsOut
    <2> HIDE DEF m
    <2>4. m = wmsg[t]
        BY DEF m
    <2>5. Once'
        <3>1. ASSUME NEW x \in Messages PROVE Single(x)'
            <4>1. Kept(x)
                BY <1>1, <1>2, <2>3 DEF Kept
            <4> QED BY <4>1, KeptIsSingle DEF Once
        <3> QED BY <1>1, <2>1, <3>1 DEF Once
    <2>6. InFlight' = InFlight \ {m}
        <3>1. Single(m)
            BY <1>1, <2>4 DEF Once
        <3>2. ASSUME NEW x \in Messages PROVE x \in InFlight' <=> x \in InFlight /\ x # m
            <4>1. CASE x = m
                <5>1. /\ x # cmsg /\ x # omsg
                      /\ \A u \in Threads : /\ ~IsIn(x, u) /\ ~IsOut(x, u)
                                            /\ x # wmsg'[u]
                    BY <1>1, <1>2, <1>3, <2>4, <3>1, <4>1 DEF Single, Apart
                <5> QED BY <1>1, <1>2, <2>3, <4>1, <5>1, InFlightIs
            <4>2. CASE x # m
                BY <1>1, <1>2, <2>3, <2>4, <4>2, InFlightIs, SMTT(30)
            <4> QED BY <4>1, <4>2
        <3> QED BY <3>2, InFlightIs
    <2>7. CountExact'
        <3> SUFFICES ASSUME NEW s \in Sources
                     PROVE count'[s] = Cardinality(Counted(s)') + lost'[s]
            BY DEF CountExact, Counted
        <3>1. Uncounted' = Uncounted /\ m \notin Uncounted /\ m \in InFlight
            BY <1>1, <2>4, InFlightIs DEF Uncounted, Once, Single, Apart, TypeOK
        <3>2. CASE s = Source[m]
            <4>1. Counted(s)' = Counted(s) \ {m} /\ m \in Counted(s)
                BY <1>1, <2>6, <3>1, <3>2 DEF Counted, Of
            <4>2. count'[s] = count[s] /\ lost'[s] = lost[s] + 1
                BY <1>1, <2>1, <3>2 DEF Lose
            <4>3. /\ Cardinality(Counted(s) \ {m}) = Cardinality(Counted(s)) - 1
                  /\ count[s] = Cardinality(Counted(s)) + lost[s]
                  /\ Cardinality(Counted(s)) \in Nat /\ lost[s] \in Nat
                BY <4>1, Recount DEF TypeOK
            <4>4. Cardinality(Counted(s)') = Cardinality(Counted(s)) - 1
                BY <4>1, <4>3
            <4> QED BY <4>2, <4>3, <4>4, SMTT(30)
        <3>3. CASE s # Source[m]
            <4>1. Counted(s)' = Counted(s)
                BY <2>6, <3>1, <3>3 DEF Counted, Of
            <4>2. count'[s] = count[s] /\ lost'[s] = lost[s]
                BY <1>1, <2>1, <3>3 DEF Lose
            <4> QED BY <4>1, <4>2, Recount DEF TypeOK
        <3> QED BY <3>2, <3>3
    <2>8. Home'
        BY <1>1, <1>2, <2>3, SMTT(30) DEF Home, IsAssigned
    <2> QED BY <2>2, <2>5, <2>7, <2>8
<1> QED BY <1>4, <1>5

(* The output thread takes a message over, or is done with it.             *)
LEMMA OutputPopKeepsInv ==
    ASSUME Inv, NEW t \in Threads, OutputPop(t)
    PROVE Inv'
<1> USE ManagerAssumption DEF Inv, outputVars, callerVars, workerVars, assignVars
<1> DEFINE m == Head(outQ[t])
           q == Tail(outQ[t])
           S == Messages \union {Outgoing}
<1>1. /\ outQ[t] \in Seq(S) /\ outQ[t] # <<>> /\ Distinct(outQ[t])
      /\ Len(outQ[t]) <= QueueSize
    BY DEF OutputPop, TypeOK, Once, Single, Apart
<1>2. /\ m \in S /\ m \in Elements(outQ[t])
      /\ q \in Seq(S) /\ Len(q) = Len(outQ[t]) - 1 /\ Distinct(q)
      /\ \A x : x # Outgoing => (x \in Elements(q) <=> x \in Elements(outQ[t]) /\ x # m)
    BY <1>1, TailElements
<1>3. /\ outQ' = [outQ EXCEPT ![t] = q]
      /\ opc = "pop" /\ omsg = None
      /\ UNCHANGED <<count, threadId, inQ, cpc, cmsg, cthread, wpc, wmsg, lost, calm>>
    BY DEF OutputPop, TypeOK
<1>4. \/ m \in Messages /\ Source[m] # NoId /\ omsg' = m /\ opc' = "unassign"
      \/ (m = Outgoing \/ Source[m] = NoId) /\ omsg' = None /\ opc' = "pop"
    BY <1>2, <1>3 DEF OutputPop
<1> HIDE DEF m, q
<1>5. TypeOK'
    <2>1. outQ' \in [Threads -> Seq(S)]
        BY <1>2, <1>3 DEF TypeOK
    <2>2. \A u \in Threads : Len(outQ'[u]) <= QueueSize
        <3>1. Len(q) <= QueueSize
            BY <1>1, <1>2, SMTT(30)
        <3> QED BY <1>3, <3>1 DEF TypeOK
    <2> QED BY <1>3, <1>4, <2>1, <2>2 DEF TypeOK
<1>6. \A u \in Threads :
        /\ Distinct(outQ'[u])
        /\ \A x \in Messages : IsOut(x, u)' <=> IsOut(x, u) /\ ~(u = t /\ x = m)
    BY <1>2, <1>3, SMTT(30) DEF TypeOK, Once, Single, Apart, IsOut
<1>7. /\ \A x, u : (IsIn(x, u)' <=> IsIn(x, u))
      /\ IsOut(m, t)
    BY <1>2, <1>3 DEF IsIn, IsOut
<1>8. Once'
    <2>1. ASSUME NEW x \in Messages, x # m PROVE Single(x)'
        <3>1. x # omsg'
            BY <1>4, <2>1
        <3>2. Kept(x)
            BY <1>3, <1>6, <1>7, <3>1 DEF Kept
        <3> QED BY <3>2, KeptIsSingle DEF Once
    <2>2. ASSUME NEW x \in Messages, x = m PROVE Single(x)'
        <3>1. Single(x)
            BY DEF Once
        <3>2. /\ x # cmsg'
              /\ \A u \in Threads : ~IsIn(x, u)' /\ x # wmsg'[u] /\ ~IsOut(x, u)'
            BY <1>3, <1>6, <1>7, <2>2, <3>1 DEF Single, Apart
        <3> QED BY <3>2 DEF Single, Apart
    <2> QED BY <1>3, <1>6, <2>1, <2>2 DEF Once
<1>9. CountExact'
    <2>1. ASSUME NEW x \in Messages
          PROVE x \in InFlight' <=> x \in InFlight /\ (x = m => omsg' = m)
        <3>1. CASE x = m
            <4>1. Single(x)
                BY DEF Once
            <4>2. /\ x \in InFlight /\ x # cmsg'
                  /\ \A u \in Threads : ~IsIn(x, u)' /\ x # wmsg'[u] /\ ~IsOut(x, u)'
                BY <1>3, <1>6, <1>7, <3>1, <4>1, InFlightIs DEF Single, Apart
            <4> QED BY <3>1, <4>2, InFlightIs
        <3>2. CASE x # m
            <4>1. x # omsg' /\ x # omsg
                BY <1>3, <1>4, <3>2
            <4> QED BY <1>3, <1>6, <1>7, <3>2, <4>1, InFlightIs
        <3> QED BY <3>1, <3>2
    <2>2. Uncounted = {} /\ Uncounted' = {}
        BY <1>3, <1>4 DEF Uncounted
    <2>3. ASSUME NEW s \in Sources
          PROVE Counted(s)' = Counted(s)
        BY <1>4, <2>1, <2>2, InFlightIs DEF Counted, Of
    <2>4. ASSUME NEW s \in Sources
          PROVE count'[s] = Cardinality(Counted(s)') + lost'[s]
        BY <1>3, <2>3, Recount DEF TypeOK
    <2> QED BY <2>4 DEF CountExact, Counted
<1>10. Home'
    BY <1>3, <1>4, <1>6, <1>7 DEF Home, IsAssigned
<1> QED BY <1>5, <1>8, <1>9, <1>10

(* A thread is given up only when no other message of the source is in     *)
(* flight.                                                                 *)
LEMMA UnassignKeepsInv ==
    ASSUME Inv, Unassign
    PROVE Inv'
<1> USE ManagerAssumption DEF Inv, outputVars, callerVars, workerVars, assignVars
<1> DEFINE s == Source[omsg]
<1>1. /\ opc = "unassign" /\ omsg \in Messages /\ s \in Sources
      /\ UNCHANGED <<inQ, outQ, cpc, cmsg, cthread, wpc, wmsg, lost, calm>>
    BY DEF Unassign, TypeOK
<1>2. omsg \in Counted(s)
    BY <1>1, InFlightIs DEF Counted, Of, Uncounted
<1> HIDE DEF s
<1>3. s = Source[omsg]
    BY DEF s
<1>4. /\ IsFiniteSet(Counted(s)) /\ Cardinality(Counted(s)) \in Nat
      /\ count[s] = Cardinality(Counted(s)) + lost[s]
      /\ Cardinality(Counted(s) \ {omsg}) = Cardinality(Counted(s)) - 1
      /\ count[s] \in Nat /\ lost[s] \in Nat
    BY <1>1, <1>2, Recount DEF TypeOK
<1>5. Cardinality(Counted(s) \ {omsg}) \in Nat /\ IsFiniteSet(Counted(s) \ {omsg})
    BY <1>4, FS_Subset, FS_CardinalityType
<1>6. count[s] \in Nat \ {0} /\ count' = [count EXCEPT ![s] = count[s] - 1]
    BY <1>3, <1>4, <1>5, SMTT(30) DEF Unassign
<1>7. \/ opc' = "clear" /\ omsg' = omsg /\ threadId' = threadId /\ ~calm
      \/ /\ opc' = "pop" /\ omsg' = None
         /\ \/ threadId' = threadId
            \/ count[s] = 1 /\ threadId' = [threadId EXCEPT ![s] = None]
    BY <1>3 DEF Unassign, IsLast
<1>8. TypeOK'
    <2>1. count[s] - 1 \in Nat
        BY <1>6, SMTT(30)
    <2>2. count' \in [Sources -> Nat]
        BY <1>1, <1>6, <2>1 DEF TypeOK
    <2>3. threadId' \in [Sources -> Threads \union {None}]
        <3>1. threadId' = threadId \/ threadId' = [threadId EXCEPT ![s] = None]
            BY <1>7
        <3>2. threadId \in [Sources -> Threads \union {None}]
            BY DEF TypeOK
        <3> QED BY <3>1, <3>2
    <2>4. /\ opc' \in {"pop", "clear"} /\ omsg' \in Messages \union {None}
          /\ omsg' = None <=> opc' \notin {"unassign", "clear"}
          /\ omsg' # None => Source[omsg'] # NoId
        BY <1>1, <1>3, <1>7
    <2> QED BY <1>1, <2>2, <2>3, <2>4 DEF TypeOK
<1>9. \A x, t : (IsIn(x, t)' <=> IsIn(x, t)) /\ (IsOut(x, t)' <=> IsOut(x, t))
    BY <1>1 DEF IsIn, IsOut
<1>10. Once'
    <2>1. ASSUME NEW x \in Messages PROVE Single(x)'
        <3>1. Kept(x)
            BY <1>1, <1>7, <1>9 DEF Kept
        <3> QED BY <3>1, KeptIsSingle DEF Once
    <2> QED BY <1>1, <2>1 DEF Once
<1>11. CountExact'
    <2>1. InFlight' \ Uncounted' = (InFlight \ Uncounted) \ {omsg}
        <3>1. /\ Uncounted = {}
              /\ \/ omsg' = omsg /\ Uncounted' = {omsg}
                 \/ omsg' = None /\ Uncounted' = {}
            BY <1>1, <1>7 DEF Uncounted
        <3>2. Single(omsg)
            BY <1>1 DEF Once
        <3>3. ASSUME NEW x \in Messages
              PROVE /\ x # omsg => (x \in InFlight' <=> x \in InFlight)
                    /\ x = omsg /\ omsg' = None => x \notin InFlight'
            <4>1. CASE x = omsg
                <5>1. /\ x # cmsg
                      /\ \A u \in Threads : x # wmsg[u] /\ ~IsIn(x, u) /\ ~IsOut(x, u)
                    BY <3>2, <4>1 DEF Single, Apart
                <5> QED BY <1>1, <1>9, <4>1, <5>1, InFlightIs
            <4>2. CASE x # omsg
                BY <1>1, <1>9, <3>1, <4>2, InFlightIs
            <4> QED BY <4>1, <4>2
        <3> QED BY <3>1, <3>3, InFlightIs
    <2>2. ASSUME NEW x \in Sources
          PROVE count'[x] = Cardinality(Counted(x)') + lost'[x]
        <3>1. CASE x = s
            <4>1. Counted(x)' = Counted(s) \ {omsg}
                BY <2>1, <3>1 DEF Counted, Of
            <4>2. count'[x] = count[s] - 1
                BY <1>1, <1>6, <3>1 DEF TypeOK
            <4> QED BY <1>1, <1>4, <3>1, <4>1, <4>2, SMTT(30)
        <3>2. CASE x # s
            <4>1. Counted(x)' = Counted(x)
                BY <1>3, <2>1, <3>2 DEF Counted, Of
            <4>2. count'[x] = count[x]
                BY <1>6, <3>2 DEF TypeOK
            <4> QED BY <1>1, <4>1, <4>2, Recount DEF TypeOK
        <3> QED BY <3>1, <3>2
    <2> QED BY <2>2 DEF CountExact, Counted
<1>12. ASSUME count[s] = 1, NEW m \in Messages, Source[m] = s, m # omsg
       PROVE m \notin InFlight
    <2>1. Cardinality(Counted(s) \ {omsg}) = 0
        BY <1>4, <1>5, <1>12, SMTT(30)
    <2>2. Counted(s) \ {omsg} = {}
        BY <1>5, <2>1, FS_EmptySet
    <2>3. Uncounted = {}
        BY <1>1 DEF Uncounted
    <2> QED BY <1>12, <2>2, <2>3 DEF Counted, Of
<1>13. Home'
    <2>1. CASE threadId' = threadId
        BY <1>1, <1>7, <1>9, <2>1 DEF Home, IsAssigned
    <2>2. CASE threadId' # threadId
        <3>1. /\ count[s] = 1 /\ threadId' = [threadId EXCEPT ![s] = None]
              /\ opc' = "pop" /\ omsg' = None
            BY <1>7, <2>2
        <3>2. ASSUME NEW m \in Messages, NEW t \in Threads, IsAssigned(m, t)
              PROVE Source[m] # s
            <4>1. m \in InFlight /\ m # omsg
                BY <1>1, <3>2, InFlightIs DEF IsAssigned, Once, Single, Apart
            <4> QED BY <1>12, <3>1, <4>1
        <3>3. ASSUME cpc = "store" PROVE threadId'[Source[cmsg]] = None
            BY <1>1, <3>1, <3>3 DEF Home, TypeOK
        <3>4. ASSUME calm, NEW m \in Messages, NEW t \in Threads,
                     Source[m] # NoId, IsAssigned(m, t)'
              PROVE threadId'[Source[m]] = t
            <4>1. IsAssigned(m, t)
                BY <1>1, <1>9, <3>4 DEF IsAssigned
            <4>2. Source[m] \in Sources /\ Source[m] # s /\ threadId[Source[m]] = t
                BY <3>2, <3>4, <4>1 DEF Home
            <4> QED BY <3>1, <4>2 DEF TypeOK
        <3> QED BY <1>1, <3>1, <3>3, <3>4 DEF Home
    <2> QED BY <2>1, <2>2
<1> QED BY <1>8, <1>10, <1>11, <1>13

(* The second step of unassign, in a behaviour that is not calm.           *)
LEMMA ClearKeepsInv ==
    ASSUME Inv, ClearThread
    PROVE Inv'
<1> USE ManagerAssumption DEF Inv, outputVars, callerVars, workerVars, assignVars
<1>1. /\ opc = "clear" /\ omsg \in Messages /\ Source[omsg] \in Sources
      /\ opc' = "pop" /\ omsg' = None
      /\ threadId' = [threadId EXCEPT ![Source[omsg]] = None]
      /\ UNCHANGED <<count, inQ, outQ, cpc, cmsg, cthread, wpc, wmsg, lost, calm>>
    BY DEF ClearThread, TypeOK
<1>2. TypeOK'
    BY <1>1 DEF TypeOK
<1>3. \A x, t : (IsIn(x, t)' <=> IsIn(x, t)) /\ (IsOut(x, t)' <=> IsOut(x, t))
    BY <1>1 DEF IsIn, IsOut
<1>4. Once'
    <2>1. ASSUME NEW x \in Messages PROVE Single(x)'
        <3>1. Kept(x)
            BY <1>1, <1>3 DEF Kept
        <3> QED BY <3>1, KeptIsSingle DEF Once
    <2> QED BY <1>1, <2>1 DEF Once
<1>5. InFlight' \ Uncounted' = InFlight \ Uncounted
    <2>1. Uncounted = {omsg} /\ Uncounted' = {}
        BY <1>1 DEF Uncounted
    <2>2. ASSUME NEW x \in Messages
          PROVE x \in InFlight' <=> x \in InFlight /\ x # omsg
        <3>1. x # None BY DEF TypeOK
        <3>2. \A t \in Threads : x = omsg => x # wmsg[t] /\ ~IsIn(x, t) /\ ~IsOut(x, t)
            BY DEF Once, Single, Apart
        <3>3. x = omsg => x # cmsg
            BY DEF Once, Single, Apart
        <3> QED BY <1>1, <1>3, <3>1, <3>2, <3>3, InFlightIs
    <2> QED BY <2>1, <2>2, InFlightIs
<1>6. CountExact'
    BY <1>1, <1>5 DEF CountExact
<1>7. Home'
    BY <1>1 DEF Home, TypeOK
<1> QED BY <1>2, <1>4, <1>6, <1>7

-----------------------------------------------------------------------------
(* The inductive invariant holds in every state of every behaviour.        *)
THEOREM ManagerInvariance == Spec => []Inv
<1>1. Init => Inv
    <2> SUFFICES ASSUME Init PROVE Inv
        OBVIOUS
    <2> USE ManagerAssumption
    <2>1. TypeOK
        BY SMTT(30) DEF Init, TypeOK
    <2>2. \A m \in Messages : \A t \in Threads : ~IsIn(m, t) /\ ~IsOut(m, t)
        BY SMTT(30) DEF Init, IsIn, IsOut, Elements
    <2>3. Once
        BY <2>2, SMTT(30) DEF Init, Once, Single, Apart, Distinct
    <2>4. InFlight = {}
        BY <2>2, InFlightIs DEF Init
    <2>5. CountExact
        BY <2>4, FS_EmptySet, SMTT(30) DEF Init, CountExact
    <2>6. Home
        BY <2>2 DEF Init, Home, IsAssigned
    <2> QED BY <2>1, <2>3, <2>5, <2>6 DEF Inv
<1>2. Inv /\ Next => Inv'
    <2> SUFFICES ASSUME Inv, Next PROVE Inv'
        OBVIOUS
    <2>1. CASE Caller
        BY <2>1, AssignmentKeepsInv, PushKeepsInv, PushFailsKeepsInv, WaitingKeepsInv
            DEF Caller
    <2>2. ASSUME NEW t \in Threads, Worker(t)
          PROVE Inv'
        BY <2>2, PopKeepsInv, HandleKeepsInv, CleanupKeepsInv, WaitingKeepsInv
            DEF Worker
    <2>3. CASE Output
        BY <2>3, OutputPopKeepsInv, UnassignKeepsInv, ClearKeepsInv, WaitingKeepsInv
            DEF Output
    <2> QED BY <2>1, <2>2, <2>3, AssignKeepsInv, WaitingKeepsInv DEF Next
<1>3. Inv /\ UNCHANGED vars => Inv'
    <2> SUFFICES ASSUME Inv, UNCHANGED vars PROVE Inv'
        OBVIOUS
    <2>1. UNCHANGED <<count, threadId, inQ, outQ, cpc, cmsg, cthread, wpc, wmsg, opc,
                      omsg, lost, calm>>
        BY DEF vars, assignVars, callerVars, workerVars, outputVars
    <2>2. Once' /\ CountExact'
        BY <2>1, Unmoved
    <2>3. TypeOK' /\ Home'
        BY <2>1 DEF Inv, TypeOK, Home, IsAssigned, IsIn, IsOut
    <2> QED BY <2>2, <2>3 DEF Inv
<1> QED BY <1>1, <1>2, <1>3, PTL DEF Spec

(* TypeOK always holds; no queue ever holds more than its capacity.        *)
THEOREM ManagerTypes == Spec => []TypeOK
<1>1. Inv => TypeOK
    BY DEF Inv
<1> QED BY <1>1, ManagerInvariance, PTL

(* The count of a source is exact, calm or not: no thread is freed early.  *)
THEOREM CountIsExact == Spec => []CountExact
<1>1. Inv => CountExact
    BY DEF Inv
<1> QED BY <1>1, ManagerInvariance, PTL

(* In a calm behaviour the promise of IncomingMessage is kept: all waiting *)
(* and handled messages of a source are on one thread.                     *)
THEOREM OneThreadPerSource == Spec => []SameThreadIfCalm
<1>1. Inv => SameThreadIfCalm
    <2> SUFFICES ASSUME Inv, calm, NEW t1 \in Threads, NEW t2 \in Threads,
                        NEW m1 \in Unhandled(t1) \ {None},
                        NEW m2 \in Unhandled(t2) \ {None},
                        Source[m1] = Source[m2], Source[m1] # NoId
                 PROVE t1 = t2
        BY DEF SameThreadIfCalm, SameThread
    <2>1. ASSUME NEW t \in Threads, NEW m \in Unhandled(t) \ {None}
          PROVE m \in Messages /\ IsAssigned(m, t)
        <3>1. inQ[t] \in Seq(Messages)
            BY DEF Inv, TypeOK
        <3>2. Elements(inQ[t]) \subseteq Messages
            BY <3>1, SMTT(30) DEF Elements
        <3> QED BY <3>2 DEF Unhandled, Inv, TypeOK, IsAssigned, IsIn
    <2>2. threadId[Source[m1]] = t1 /\ threadId[Source[m2]] = t2
        BY <2>1 DEF Inv, Home
    <2> QED BY <2>2
<1> QED BY <1>1, ManagerInvariance, PTL

-----------------------------------------------------------------------------
(* Order.  In a calm behaviour what came before a queued message from its  *)
(* source is before it in the same queue.                                  *)
OrderInv ==
    calm => \A t \in Threads : \A j \in 1 .. Len(inQ[t]) :
        \A x \in ahead[inQ[t][j]] : \E i \in 1 .. j - 1 : inQ[t][i] = x

(* The new message goes to the thread of its source, behind all of them.   *)
LEMMA PushKeepsOrder ==
    ASSUME Inv, OrderInv, NEW t \in Threads, PushTo(t)
    PROVE OrderInv'
<1> SUFFICES ASSUME calm', NEW u \in Threads, NEW j \in 1 .. Len(inQ'[u]),
                    NEW x \in ahead'[inQ'[u][j]]
             PROVE \E i \in 1 .. j - 1 : inQ'[u][i] = x
    BY DEF OrderInv
<1>1. /\ calm /\ cpc = "push" /\ cthread = t /\ cmsg \in Messages
      /\ inQ' = [inQ EXCEPT ![t] = Append(inQ[t], cmsg)]
      /\ ahead' = [m \in Messages |-> IF m = cmsg THEN Earlier(m) ELSE ahead[m]]
    BY DEF PushTo, Inv, TypeOK
<1>2. \A v \in Threads : inQ[v] \in Seq(Messages) /\ Len(inQ[v]) \in Nat
    BY SMTT(30) DEF Inv, TypeOK
<1>3. /\ Len(inQ'[t]) = Len(inQ[t]) + 1
      /\ \A i \in 1 .. Len(inQ[t]) : inQ'[t][i] = inQ[t][i]
      /\ inQ'[t][Len(inQ[t]) + 1] = cmsg
      /\ \A v \in Threads : v # t => inQ'[v] = inQ[v]
    <2>1. inQ'[t] = Append(inQ[t], cmsg) /\ \A v \in Threads : v # t => inQ'[v] = inQ[v]
        BY <1>1 DEF Inv, TypeOK
    <2> QED BY <1>1, <1>2, <2>1, SMTT(30)
<1>4. ASSUME NEW v \in Threads, NEW i \in 1 .. Len(inQ[v])
      PROVE inQ[v][i] \in Messages /\ inQ[v][i] # cmsg
    <2>1. inQ[v][i] \in Messages /\ IsIn(inQ[v][i], v)
        BY <1>2, SMTT(30) DEF IsIn, Elements
    <2> QED BY <1>1, <2>1 DEF Inv, Once, Single, Apart
<1>5. CASE u = t /\ j = Len(inQ[t]) + 1
    <2>1. inQ'[u][j] = cmsg /\ x \in Earlier(cmsg)
        BY <1>1, <1>3, <1>5
    <2>2. PICK v \in Threads : x \in Elements(inQ[v])
        BY <2>1 DEF Earlier
    <2>3. x \in Messages /\ Source[x] = Source[cmsg] /\ Source[x] # NoId
        BY <2>1 DEF Earlier, Of
    <2>4. IsAssigned(x, v) /\ IsAssigned(cmsg, t)
        BY <1>1, <2>2 DEF IsAssigned, IsIn
    <2>5. v = t
        BY <1>1, <2>3, <2>4 DEF Inv, Home
    <2>6. PICK i \in 1 .. Len(inQ[t]) : x = inQ[t][i]
        BY <2>2, <2>5 DEF Elements
    <2>7. i \in 1 .. j - 1 /\ inQ'[u][i] = x
        BY <1>2, <1>3, <1>5, <2>6, SMTT(30)
    <2> QED BY <2>7
<1>6. CASE j \in 1 .. Len(inQ[u])
    <2>1. \A i \in 1 .. Len(inQ[u]) : inQ'[u][i] = inQ[u][i]
        BY <1>3
    <2>2. x \in ahead[inQ[u][j]]
        BY <1>1, <1>4, <1>6, <2>1
    <2>3. PICK i \in 1 .. j - 1 : inQ[u][i] = x
        BY <1>1, <1>6, <2>2 DEF OrderInv
    <2>4. i \in 1 .. Len(inQ[u])
        BY <1>2, <1>6, SMTT(30)
    <2> QED BY <2>1, <2>3, <2>4
<1> QED BY <1>2, <1>3, <1>5, <1>6, SMTT(30)

(* What is taken is at the head, and so before nothing of its source.      *)
LEMMA PopKeepsOrder ==
    ASSUME Inv, OrderInv, NEW t \in Threads, Pop(t)
    PROVE OrderInv'
<1> SUFFICES ASSUME calm', NEW u \in Threads, NEW j \in 1 .. Len(inQ'[u]),
                    NEW x \in ahead'[inQ'[u][j]]
             PROVE \E i \in 1 .. j - 1 : inQ'[u][i] = x
    BY DEF OrderInv
<1> DEFINE h == Head(inQ[t])
<1>1. /\ calm /\ inQ[t] # <<>>
      /\ inQ' = [inQ EXCEPT ![t] = Tail(inQ[t])]
      /\ ahead' = [m \in Messages |-> IF m = h THEN {} ELSE ahead[m] \ {h}]
    BY DEF Pop
<1>2. \A v \in Threads : inQ[v] \in Seq(Messages) /\ Len(inQ[v]) \in Nat
    BY SMTT(30) DEF Inv, TypeOK
<1>3. /\ inQ'[t] = Tail(inQ[t])
      /\ \A v \in Threads : v # t => inQ'[v] = inQ[v]
    BY <1>1 DEF Inv, TypeOK
<1>4. /\ h = inQ[t][1] /\ Len(Tail(inQ[t])) = Len(inQ[t]) - 1
      /\ \A i \in 1 .. Len(inQ[t]) - 1 : Tail(inQ[t])[i] = inQ[t][i + 1]
    BY <1>1, <1>2, SMTT(30)
<1> HIDE DEF h
<1>5. \A v \in Threads : \A i \in 1 .. Len(inQ[v]) : inQ[v][i] \in Messages
    BY <1>2, SMTT(30)
<1>6. CASE u = t
    <2>1. j \in 1 .. Len(inQ[t]) - 1 /\ inQ'[u][j] = inQ[t][j + 1]
        BY <1>3, <1>4, <1>6
    <2>2. j + 1 \in 1 .. Len(inQ[t]) /\ (j + 1) - 1 = j
        BY <1>2, <2>1, SMTT(30)
    <2>3. x \in ahead[inQ[t][j + 1]] /\ x # h
        BY <1>1, <1>5, <2>1, <2>2
    <2>. \E i \in 1 .. (j + 1) - 1 : inQ[t][i] = x
        BY <1>1, <2>2, <2>3 DEF OrderInv
    <2>4. PICK i \in 1 .. j : inQ[t][i] = x
        BY <2>2
    <2>5. i - 1 \in 1 .. j - 1 /\ i - 1 \in 1 .. Len(inQ[t]) - 1 /\ (i - 1) + 1 = i
        BY <1>2, <1>4, <2>1, <2>3, <2>4, SMTT(30)
    <2>6. inQ'[u][i - 1] = x
        BY <1>3, <1>4, <1>6, <2>4, <2>5
    <2> QED BY <2>5, <2>6
<1>7. CASE u # t
    <2>1. inQ'[u] = inQ[u] /\ x \in ahead[inQ[u][j]]
        BY <1>1, <1>3, <1>5, <1>7
    <2>2. j \in 1 .. Len(inQ[u])
        BY <2>1
    <2>3. \E i \in 1 .. j - 1 : inQ[u][i] = x
        BY <1>1, <2>1, <2>2 DEF OrderInv
    <2> QED BY <2>1, <2>3
<1> QED BY <1>6, <1>7

(* No other step touches the queues in or the history.                     *)
LEMMA NextOrderInv == Inv /\ OrderInv /\ [Next]_vars => OrderInv'
<1> SUFFICES ASSUME Inv, OrderInv, [Next]_vars PROVE OrderInv'
    OBVIOUS
<1>1. CASE UNCHANGED <<inQ, ahead, calm>>
    BY <1>1, SMTT(30) DEF OrderInv
<1>2. CASE UNCHANGED vars
    BY <1>1, <1>2 DEF vars
<1>3. ASSUME NEW m \in Messages, Assign(m) PROVE OrderInv'
    BY <1>1, <1>3 DEF Assign
<1>4. CASE Caller
    BY <1>1, <1>4, PushKeepsOrder
        DEF Caller, ChooseThread, UseAssignment, StoreThread, PushFails, NotifyWorker
<1>5. ASSUME NEW t \in Threads, Worker(t) PROVE OrderInv'
    BY <1>1, <1>5, PopKeepsOrder
        DEF Worker, Handle, PushCleanup, NotifyOutput, WorkerWaits
<1>6. CASE Output
    BY <1>1, <1>6 DEF Output, OutputPop, Unassign, ClearThread, OutputWaits
<1>7. CASE SpuriousWakeup
    BY <1>1, <1>7 DEF SpuriousWakeup
<1> QED BY <1>2, <1>3, <1>4, <1>5, <1>6, <1>7 DEF Next

(* A step takes a message only if nothing that came before it from its     *)
(* source is waiting.                                                      *)
TakesInOrder ==
    calm => \A t \in Threads :
        wmsg'[t] \notin {wmsg[t], None} => ahead[wmsg'[t]] = {}

(* In a calm behaviour the messages of a source are taken in the order in  *)
(* which they came, however many threads there are and however long their  *)
(* queues.                                                                 *)
THEOREM OrderIsKept == Spec => InOrderIfCalm
<1>1. Init => OrderInv
    BY SMTT(30) DEF Init, OrderInv
<1>2. Inv /\ OrderInv /\ [Next]_vars => [TakesInOrder]_vars
    <2> SUFFICES ASSUME Inv, OrderInv, Next, calm, NEW t \in Threads,
                        wmsg'[t] # wmsg[t], wmsg'[t] # None
                 PROVE ahead[wmsg'[t]] = {}
        BY DEF TakesInOrder
    <2> USE DEF workerVars
    <2>1. wmsg' # wmsg /\ ~(wmsg' = [wmsg EXCEPT ![t] = None])
        BY DEF Inv, TypeOK
    <2>2. \E u \in Threads : Pop(u)
        <3>1. ASSUME NEW u \in Threads, PushCleanup(u) PROVE FALSE
            BY <3>1 DEF PushCleanup, Inv, TypeOK
        <3>2. ASSUME NEW u \in Threads, Worker(u) PROVE Pop(u)
            BY <2>1, <3>1, <3>2 DEF Worker, Handle, NotifyOutput, WorkerWaits
        <3>3. ~Caller
            BY <2>1 DEF Caller, ChooseThread, PushTo, UseAssignment, StoreThread,
                        PushFails, NotifyWorker
        <3>4. ~Output /\ ~SpuriousWakeup
            BY <2>1 DEF Output, OutputPop, Unassign, ClearThread, OutputWaits,
                        SpuriousWakeup
        <3>5. ASSUME NEW m \in Messages, Assign(m) PROVE FALSE
            BY <2>1, <3>5 DEF Assign
        <3> QED BY <3>2, <3>3, <3>4, <3>5 DEF Next
    <2>3. PICK u \in Threads : Pop(u)
        BY <2>2
    <2>4. u = t /\ inQ[t] # <<>> /\ wmsg'[t] = Head(inQ[t])
        BY <2>3 DEF Pop, Inv, TypeOK
    <2>5. inQ[t] \in Seq(Messages)
        BY DEF Inv, TypeOK
    <2>6. Head(inQ[t]) = inQ[t][1] /\ 1 \in 1 .. Len(inQ[t])
        BY <2>4, <2>5, SMTT(30)
    <2>7. \A x \in ahead[inQ[t][1]] : \E i \in 1 .. 1 - 1 : inQ[t][i] = x
        BY <2>6 DEF OrderInv
    <2>8. 1 .. 1 - 1 = {}
        BY SMTT(30)
    <2> QED BY <2>4, <2>6, <2>7, <2>8
<1> QED BY <1>1, <1>2, NextOrderInv, ManagerInvariance, PTL DEF Spec, InOrderIfCalm,
           TakesInOrder

-----------------------------------------------------------------------------
(* Notification.  A thread that sleeps is told of what is pushed; only one *)
(* that was about to block on an old test can miss it.                     *)
Overtaken ==
    /\ \A t \in Threads : SleepsOn(t)' => SleepsOn(t) \/ wpc[t] = "tested"
    /\ OutputSleepsOn' => OutputSleepsOn \/ opc = "tested"

(* Every step keeps the notification with the message it announces.        *)
LEMMA NextOvertaken == Inv /\ [Next]_vars => Overtaken
<1> SUFFICES ASSUME Inv, [Next]_vars PROVE Overtaken
    OBVIOUS
<1> USE DEF Overtaken, SleepsOn, OutputSleepsOn, Inv, TypeOK, assignVars, callerVars,
            workerVars, outputVars
<1>1. CASE UNCHANGED vars
    BY <1>1 DEF vars
<1>2. ASSUME NEW m \in Messages, Assign(m) PROVE Overtaken
    BY <1>2 DEF Assign
<1>3. ASSUME NEW t \in Threads, ChooseThread(t) PROVE Overtaken
    BY <1>3 DEF ChooseThread
<1>4. CASE UseAssignment \/ StoreThread \/ PushFails
    BY <1>4, SMTT(30) DEF UseAssignment, StoreThread, PushFails
<1>5. ASSUME NEW t \in Threads, PushTo(t) PROVE Overtaken
    BY <1>5 DEF PushTo
<1>6. CASE NotifyWorker
    BY <1>6 DEF NotifyWorker, Woken
<1>7. ASSUME NEW t \in Threads, Pop(t) PROVE Overtaken
    BY <1>7 DEF Pop
<1>8. ASSUME NEW t \in Threads, Handle(t) PROVE Overtaken
    BY <1>8 DEF Handle
<1>9. ASSUME NEW t \in Threads, PushCleanup(t) PROVE Overtaken
    BY <1>9 DEF PushCleanup
<1>10. ASSUME NEW t \in Threads, NotifyOutput(t) PROVE Overtaken
    BY <1>10 DEF NotifyOutput, Woken
<1>11. ASSUME NEW t \in Threads, WorkerWaits(t) PROVE Overtaken
    BY <1>11 DEF WorkerWaits
<1>12. ASSUME NEW t \in Threads, OutputPop(t) PROVE Overtaken
    BY <1>12 DEF OutputPop
<1>13. CASE Unassign \/ ClearThread
    BY <1>13, SMTT(30) DEF Unassign, ClearThread
<1>14. CASE OutputWaits
    BY <1>14 DEF OutputWaits
<1>15. CASE SpuriousWakeup
    BY <1>15 DEF SpuriousWakeup
<1> QED BY <1>1, <1>2, <1>3, <1>4, <1>5, <1>6, <1>7, <1>8, <1>9, <1>10, <1>11, <1>12,
           <1>13, <1>14, <1>15 DEF Next, Caller, Worker, Output

(* In every behaviour, a worker or the output thread comes to sleep over a *)
(* message that nobody will tell it of only by blocking on a test that a   *)
(* push and its notification have overtaken.                               *)
THEOREM MissedOnlyWhenOvertaken == Spec => SleepsOnlyOnStaleTest
<1> QED BY NextOvertaken, ManagerInvariance, PTL DEF Spec, SleepsOnlyOnStaleTest, Overtaken

=============================================================================
