------------------------ MODULE MessageRouterProofs ------------------------
(***************************************************************************)
(* Proofs about MessageRouter for any finite set of clients, any messages  *)
(* and any filter lists: the inductive invariant, the absence of dangling  *)
(* callbacks, the stability of the map under the broadcast loop, and the   *)
(* refinement of Multicast.                                                *)
(***************************************************************************)
EXTENDS MessageRouter, FiniteSetTheorems, TLAPS

(* Time for the leaves that name no prover.                                *)
USE ZenonT(30)

CountedClients == {c \in Clients : pc[c] \in Counted}

-----------------------------------------------------------------------------
(* The counter is a natural number, and it is zero exactly when no client  *)
(* is between its increment and its decrement.                             *)
LEMMA CountFacts ==
  ASSUME CountInv
  PROVE  /\ IsFiniteSet(CountedClients)
         /\ mActiveBroadcasts \in Nat
         /\ mActiveBroadcasts = 0 <=> \A c \in Clients : pc[c] \notin Counted
<1>1. IsFiniteSet(CountedClients)
  BY ClientsAssumption, FS_Subset DEF CountedClients
<1>2. mActiveBroadcasts = Cardinality(CountedClients)
  BY DEF CountInv, CountedClients
<1>3. mActiveBroadcasts \in Nat
  BY <1>1, <1>2, FS_CardinalityType
<1>4. mActiveBroadcasts = 0 <=> CountedClients = {}
  BY <1>1, <1>2, FS_EmptySet
<1>. QED
  BY <1>1, <1>3, <1>4 DEF CountedClients

(* broadcastMessage's ++ : one more client is counted.                     *)
LEMMA CountUp ==
  ASSUME TypeOK, CountInv, NEW c \in Clients, pc[c] \notin Counted,
         pc' = [pc EXCEPT ![c] = "bUnlock"],
         mActiveBroadcasts' = mActiveBroadcasts + 1
  PROVE  CountInv'
<1>1. CountedClients' = CountedClients \union {c}
  BY DEF CountedClients, Counted, TypeOK
<1>2. c \notin CountedClients
  BY DEF CountedClients
<1>3. Cardinality(CountedClients') = Cardinality(CountedClients) + 1
  BY <1>1, <1>2, CountFacts, FS_AddElement
<1>. QED
  BY <1>3 DEF CountInv, CountedClients

(* broadcastMessage's -- : one client fewer is counted.                    *)
LEMMA CountDown ==
  ASSUME TypeOK, CountInv, NEW c \in Clients, pc[c] \in Counted,
         pc' = [pc EXCEPT ![c] = "idle"],
         mActiveBroadcasts' = mActiveBroadcasts - 1
  PROVE  CountInv' /\ mActiveBroadcasts' \in Nat
<1>1. CountedClients' = CountedClients \ {c}
  BY DEF CountedClients, Counted, TypeOK
<1>2. c \in CountedClients
  BY DEF CountedClients
<1>3. Cardinality(CountedClients') = Cardinality(CountedClients) - 1
  BY <1>1, <1>2, CountFacts, FS_RemoveElement
<1>4. CountInv'
  BY <1>3 DEF CountInv, CountedClients
<1>5. IsFiniteSet(CountedClients')
  BY <1>1, CountFacts, FS_RemoveElement
<1>. QED
  BY <1>3, <1>4, <1>5, FS_CardinalityType DEF CountInv, CountedClients

(* A step that moves clients only within, or only outside, the counted     *)
(* locations and leaves the counter alone keeps it right.                  *)
LEMMA CountSame ==
  ASSUME CountInv, UNCHANGED mActiveBroadcasts,
         \A c \in Clients : pc'[c] \in Counted <=> pc[c] \in Counted
  PROVE  CountInv'
<1>1. {c \in Clients : pc[c] \in Counted}' = {c \in Clients : pc[c] \in Counted}
  OBVIOUS
<1>. QED
  BY <1>1 DEF CountInv

-----------------------------------------------------------------------------
(* The router's constructor establishes the invariant.                     *)
LEMMA InitInv == Init => Inv
<1>. SUFFICES ASSUME Init PROVE Inv
  OBVIOUS
<1>1. {c \in Clients : pc[c] \in Counted} = {}
  BY DEF Init, Counted
<1>2. CountInv
  BY <1>1, FS_EmptySet DEF Init, CountInv
<1>3. TypeOK
  BY SMTT(30) DEF Init, TypeOK, PCs
<1>4. LockInv
  BY ClientsAssumption DEF Init, LockInv, Holding
<1>. QED
  BY <1>2, <1>3, <1>4 DEF Init, Inv, ExclusionInv, MapInv, LoopInv, Looping, Counted

(* Every step of the router keeps the types.                               *)
LEMMA NextTypeOK == Inv /\ [Next]_vars => TypeOK'
<1>. SUFFICES ASSUME Inv, [Next]_vars PROVE TypeOK'
  OBVIOUS
<1>. USE DEF Inv, TypeOK, PCs, Goto, LockMap, UnlockMap, args, loopVars
<1>1. CASE UNCHANGED vars
  BY <1>1 DEF vars
<1>2. ASSUME NEW c \in Clients, Call(c) PROVE TypeOK'
  <2>1. CASE New(c)
    BY <2>1 DEF New
  <2>2. ASSUME NEW m \in Messages, Broadcast(c, m) PROVE TypeOK'
    BY <2>2 DEF Broadcast
  <2>3. ASSUME NEW fs \in FilterLists, Register(c, fs) PROVE TypeOK'
    BY <2>3 DEF Register
  <2>4. CASE Destroy(c)
    BY <2>4 DEF Destroy
  <2>. QED
    BY <1>2, <2>1, <2>2, <2>3, <2>4 DEF Call
<1>3. ASSUME NEW c \in Clients, Acquire(c) PROVE TypeOK'
  BY <1>3 DEF Acquire, BroadcastLock, RegisterLock, UnregisterLock
<1>4. ASSUME NEW c \in Clients, Continue(c) PROVE TypeOK'
  <2>1. CASE BroadcastCount(c)
    BY <2>1, SMTT(30) DEF BroadcastCount
  <2>2. CASE BroadcastUnlock(c)
    BY <2>2 DEF BroadcastUnlock
  <2>3. ASSUME NEW r \in Clients, BroadcastVisit(c, r) PROVE TypeOK'
    <3>1. visited' \in [Clients -> SUBSET Clients]
      BY <2>3 DEF BroadcastVisit
    <3>2. CASE Selected(c, r)
      <4>1. pc' \in [Clients -> PCs]
        BY <2>3, <3>2 DEF BroadcastVisit
      <4>2. target' \in [Clients -> Clients \union {Nobody}]
        BY <2>3, <3>2 DEF BroadcastVisit
      <4>3. UNCHANGED <<mMapLock, mActiveBroadcasts, map, msg, filters, served>>
        BY <2>3 DEF BroadcastVisit
      <4>. QED
        BY <3>1, <4>1, <4>2, <4>3
    <3>3. CASE ~Selected(c, r)
      BY <2>3, <3>1, <3>3 DEF BroadcastVisit
    <3>. QED
      BY <3>2, <3>3
  <2>4. CASE ReceiveMessage(c)
    <3>1. target[c] \in Clients /\ served[c] \in Seq(Clients)
      BY <2>4 DEF ReceiveMessage, LoopInv
    <3>2. Append(served[c], target[c]) \in Seq(Clients)
      BY <3>1, SMTT(30)
    <3>. QED
      BY <2>4, <3>2 DEF ReceiveMessage
  <2>5. CASE BroadcastLeave(c)
    <3>1. mActiveBroadcasts' \in Nat
      BY <2>5, CountDown DEF BroadcastLeave, Counted
    <3>. QED
      BY <2>5, <3>1, SMTT(30) DEF BroadcastLeave
  <2>6. CASE RegisterDrain(c)
    BY <2>6 DEF RegisterDrain
  <2>7. CASE RegisterUpdate(c)
    BY <2>7 DEF RegisterUpdate, MapInv, Put
  <2>8. CASE UnregisterDrain(c)
    BY <2>8 DEF UnregisterDrain
  <2>9. CASE UnregisterErase(c)
    BY <2>9 DEF UnregisterErase, Drop
  <2>. QED
    BY <1>4, <2>1, <2>2, <2>3, <2>4, <2>5, <2>6, <2>7, <2>8, <2>9 DEF Continue
<1>. QED
  BY <1>1, <1>2, <1>3, <1>4 DEF Next

(* mMapLock is held by the client that is between its lock and its unlock. *)
LEMMA NextLockInv == Inv /\ [Next]_vars => LockInv'
<1>. SUFFICES ASSUME Inv, [Next]_vars PROVE LockInv'
  OBVIOUS
<1>. USE ClientsAssumption DEF Inv, LockInv, TypeOK, PCs, Holding, Goto, LockMap, UnlockMap
<1>1. CASE UNCHANGED vars
  BY <1>1 DEF vars
<1>2. ASSUME NEW c \in Clients, Call(c) PROVE LockInv'
  BY <1>2 DEF Call, New, Broadcast, Register, Destroy
<1>3. ASSUME NEW c \in Clients, Acquire(c) PROVE LockInv'
  BY <1>3, SMTT(30) DEF Acquire, BroadcastLock, RegisterLock, UnregisterLock
<1>4. ASSUME NEW c \in Clients, Continue(c) PROVE LockInv'
  <2>1. CASE BroadcastCount(c) \/ BroadcastUnlock(c)
    BY <2>1, SMTT(30) DEF BroadcastCount, BroadcastUnlock
  <2>2. ASSUME NEW r \in Clients, BroadcastVisit(c, r) PROVE LockInv'
    BY <2>2 DEF BroadcastVisit
  <2>3. CASE ReceiveMessage(c) \/ BroadcastLeave(c)
    BY <2>3, SMTT(30) DEF ReceiveMessage, BroadcastLeave
  <2>4. CASE RegisterDrain(c) \/ RegisterUpdate(c)
    BY <2>4, SMTT(30) DEF RegisterDrain, RegisterUpdate
  <2>5. CASE UnregisterDrain(c) \/ UnregisterErase(c)
    BY <2>5 DEF UnregisterDrain, UnregisterErase
  <2>. QED
    BY <1>4, <2>1, <2>2, <2>3, <2>4, <2>5 DEF Continue
<1>. QED
  BY <1>1, <1>2, <1>3, <1>4 DEF Next

(* mActiveBroadcasts counts the threads between the two counted sections   *)
(* of broadcastMessage.                                                    *)
LEMMA NextCountInv == Inv /\ [Next]_vars => CountInv'
<1>. SUFFICES ASSUME Inv, [Next]_vars PROVE CountInv'
  OBVIOUS
<1>. USE DEF Inv, TypeOK, Counted, Goto
<1>1. CASE UNCHANGED vars
  BY <1>1, CountSame DEF vars
<1>2. ASSUME NEW c \in Clients, Call(c) PROVE CountInv'
  BY <1>2, CountSame DEF Call, New, Broadcast, Register, Destroy
<1>3. ASSUME NEW c \in Clients, Acquire(c) PROVE CountInv'
  BY <1>3, CountSame DEF Acquire, BroadcastLock, RegisterLock, UnregisterLock
<1>4. ASSUME NEW c \in Clients, Continue(c) PROVE CountInv'
  <2>1. CASE BroadcastCount(c)
    BY <2>1, CountUp DEF BroadcastCount
  <2>2. ASSUME NEW r \in Clients, BroadcastVisit(c, r) PROVE CountInv'
    BY <2>2, CountSame DEF BroadcastVisit
  <2>3. CASE BroadcastUnlock(c) \/ ReceiveMessage(c)
    BY <2>3, CountSame DEF BroadcastUnlock, ReceiveMessage
  <2>4. CASE BroadcastLeave(c)
    BY <2>4, CountDown DEF BroadcastLeave
  <2>5. CASE RegisterDrain(c) \/ RegisterUpdate(c)
    BY <2>5, CountSame DEF RegisterDrain, RegisterUpdate
  <2>6. CASE UnregisterDrain(c) \/ UnregisterErase(c)
    BY <2>6, CountSame DEF UnregisterDrain, UnregisterErase
  <2>. QED
    BY <1>4, <2>1, <2>2, <2>3, <2>4, <2>5, <2>6 DEF Continue
<1>. QED
  BY <1>1, <1>2, <1>3, <1>4 DEF Next

(* A writer past its spin keeps broadcasts out: to be counted a client     *)
(* needs mMapLock, which the writer holds.                                 *)
LEMMA NextExclusionInv == Inv /\ [Next]_vars => ExclusionInv'
<1>. SUFFICES ASSUME Inv, [Next]_vars PROVE ExclusionInv'
  OBVIOUS
<1>. USE DEF Inv, ExclusionInv, TypeOK, Goto
<1>1. CASE UNCHANGED vars
  BY <1>1 DEF vars
<1>2. ASSUME NEW c \in Clients, Call(c) PROVE ExclusionInv'
  BY <1>2 DEF Call, New, Broadcast, Register, Destroy
<1>3. ASSUME NEW c \in Clients, Acquire(c) PROVE ExclusionInv'
  BY <1>3 DEF Acquire, BroadcastLock, RegisterLock, UnregisterLock
<1>4. ASSUME NEW c \in Clients, Continue(c) PROVE ExclusionInv'
  <2>1. CASE BroadcastCount(c)
    BY <2>1 DEF BroadcastCount, LockInv, Holding
  <2>2. ASSUME NEW r \in Clients, BroadcastVisit(c, r) PROVE ExclusionInv'
    BY <2>2 DEF BroadcastVisit
  <2>3. CASE BroadcastUnlock(c) \/ ReceiveMessage(c)
    BY <2>3 DEF BroadcastUnlock, ReceiveMessage
  <2>4. CASE BroadcastLeave(c)
    <3>1. mActiveBroadcasts # 0
      BY <2>4, CountFacts DEF BroadcastLeave, Counted
    <3>. QED
      BY <2>4, <3>1 DEF BroadcastLeave
  <2>5. CASE RegisterDrain(c) \/ RegisterUpdate(c)
    BY <2>5 DEF RegisterDrain, RegisterUpdate, Drained
  <2>6. CASE UnregisterDrain(c) \/ UnregisterErase(c)
    BY <2>6 DEF UnregisterDrain, UnregisterErase, Drained
  <2>. QED
    BY <1>4, <2>1, <2>2, <2>3, <2>4, <2>5, <2>6 DEF Continue
<1>. QED
  BY <1>1, <1>2, <1>3, <1>4 DEF Next

(* The map holds live objects: an object leaves it before it is freed.     *)
LEMMA NextMapInv == Inv /\ [Next]_vars => MapInv'
<1>. SUFFICES ASSUME Inv, [Next]_vars PROVE MapInv'
  OBVIOUS
<1>. USE DEF Inv, MapInv, TypeOK, Goto
<1>1. CASE UNCHANGED vars
  BY <1>1 DEF vars
<1>2. ASSUME NEW c \in Clients, Call(c) PROVE MapInv'
  BY <1>2 DEF Call, New, Broadcast, Register, Destroy, args
<1>3. ASSUME NEW c \in Clients, Acquire(c) PROVE MapInv'
  BY <1>3 DEF Acquire, BroadcastLock, RegisterLock, UnregisterLock, args
<1>4. ASSUME NEW c \in Clients, Continue(c) PROVE MapInv'
  <2>1. CASE BroadcastCount(c) \/ BroadcastUnlock(c)
    BY <2>1 DEF BroadcastCount, BroadcastUnlock, args
  <2>2. ASSUME NEW r \in Clients, BroadcastVisit(c, r) PROVE MapInv'
    BY <2>2 DEF BroadcastVisit, args
  <2>3. CASE ReceiveMessage(c) \/ BroadcastLeave(c)
    BY <2>3, SMTT(30) DEF ReceiveMessage, BroadcastLeave, args
  <2>4. CASE RegisterDrain(c) \/ UnregisterDrain(c)
    BY <2>4 DEF RegisterDrain, UnregisterDrain, args
  <2>5. CASE RegisterUpdate(c)
    <3>1. DOMAIN map' = DOMAIN map \union {c}
      BY <2>5 DEF RegisterUpdate, Put
    <3>2. /\ pc[c] = "rUpdate" /\ pc' = [pc EXCEPT ![c] = "idle"]
          /\ filters' = [filters EXCEPT ![c] = <<>>]
      BY <2>5 DEF RegisterUpdate
    <3>. QED
      BY <3>1, <3>2
  <2>6. CASE UnregisterErase(c)
    <3>1. DOMAIN map' = DOMAIN map \ {c}
      BY <2>6 DEF UnregisterErase, Drop
    <3>2. pc' = [pc EXCEPT ![c] = "none"] /\ filters' = filters
      BY <2>6 DEF UnregisterErase, args
    <3>. QED
      BY <3>1, <3>2
  <2>. QED
    BY <1>4, <2>1, <2>2, <2>3, <2>4, <2>5, <2>6 DEF Continue
<1>. QED
  BY <1>1, <1>2, <1>3, <1>4 DEF Next

(* A writer that is about to change the map is alone: nobody is counted.   *)
LEMMA WriterAlone ==
  ASSUME Inv, NEW c \in Clients, pc[c] \in {"rUpdate", "uErase"}
  PROVE  \A d \in Clients : pc[d] \notin Counted
BY CountFacts DEF Inv, ExclusionInv

(* An iterating broadcast keeps its message, and its callback's target     *)
(* stays a selected entry of the map.                                      *)
LEMMA NextLoopInv == Inv /\ [Next]_vars => LoopInv'
<1>. SUFFICES ASSUME Inv, [Next]_vars PROVE LoopInv'
  OBVIOUS
<1>. USE DEF Inv, LoopInv, TypeOK, Goto, Counted, Looping, Selected
<1>1. CASE UNCHANGED vars
  BY <1>1 DEF vars
<1>2. ASSUME NEW c \in Clients, Call(c) PROVE LoopInv'
  BY <1>2 DEF Call, New, Broadcast, Register, Destroy, args, loopVars
<1>3. ASSUME NEW c \in Clients, Acquire(c) PROVE LoopInv'
  BY <1>3 DEF Acquire, BroadcastLock, RegisterLock, UnregisterLock, args, loopVars
<1>4. ASSUME NEW c \in Clients, Continue(c) PROVE LoopInv'
  <2>1. CASE BroadcastCount(c) \/ BroadcastUnlock(c)
    BY <2>1 DEF BroadcastCount, BroadcastUnlock, args, loopVars
  <2>2. ASSUME NEW r \in Clients, BroadcastVisit(c, r) PROVE LoopInv'
    <3>1. CASE Selected(c, r)
      BY <2>2, <3>1, SMTT(30) DEF BroadcastVisit, args
    <3>2. CASE ~Selected(c, r)
      BY <2>2, <3>2 DEF BroadcastVisit, args
    <3>. QED
      BY <3>1, <3>2
  <2>3. CASE ReceiveMessage(c)
    BY <2>3 DEF ReceiveMessage, args
  <2>4. CASE BroadcastLeave(c)
    BY <2>4 DEF BroadcastLeave
  <2>5. CASE RegisterDrain(c) \/ UnregisterDrain(c)
    BY <2>5 DEF RegisterDrain, UnregisterDrain, args, loopVars
  <2>6. CASE RegisterUpdate(c)
    BY <2>6, WriterAlone DEF RegisterUpdate, loopVars
  <2>7. CASE UnregisterErase(c)
    BY <2>7, WriterAlone DEF UnregisterErase, args, loopVars
  <2>. QED
    BY <1>4, <2>1, <2>2, <2>3, <2>4, <2>5, <2>6, <2>7 DEF Continue
<1>. QED
  BY <1>1, <1>2, <1>3, <1>4 DEF Next

-----------------------------------------------------------------------------
(* The router's inductive invariant holds in every reachable state, for    *)
(* any number of clients: mMapLock and mActiveBroadcasts always say where  *)
(* the threads are, and a writer past its spin has excluded broadcasts.    *)
THEOREM Invariance == Spec => []Inv
<1>1. Init => Inv
  BY InitInv
<1>2. Inv /\ [Next]_vars => Inv'
  BY NextTypeOK, NextLockInv, NextCountInv, NextExclusionInv, NextMapInv, NextLoopInv
     DEF Inv
<1>. QED
  BY <1>1, <1>2, PTL DEF Spec

(* Type correctness of the router's state; in particular the counter of    *)
(* active broadcasts never goes below zero.                                *)
THEOREM TypeCorrectness == Spec => []TypeOK
<1>1. Inv => TypeOK
  BY DEF Inv
<1>. QED
  BY <1>1, Invariance, PTL

(* broadcastMessage never calls a receiver that has been destroyed or has  *)
(* left the map, although it walks the map without holding mMapLock.       *)
THEOREM CallbackSafety == Spec => []NoDanglingCallback
<1>1. Inv => NoDanglingCallback
  BY DEF Inv, LoopInv, MapInv, NoDanglingCallback
<1>. QED
  BY <1>1, Invariance, PTL

(* No step of register, unregister or anything else changes the map while  *)
(* a thread holds an iterator into it.                                     *)
THEOREM MapStability == Spec => MapStableWhileLooping
<1>1. Inv /\ [Next]_vars =>
        [(\E c \in Clients : pc[c] \in Looping) => UNCHANGED map]_vars
  <2>. SUFFICES ASSUME Inv, [Next]_vars,
                       NEW d \in Clients, pc[d] \in Looping
                PROVE  UNCHANGED map
    OBVIOUS
  <2>1. ASSUME NEW c \in Clients, RegisterUpdate(c) \/ UnregisterErase(c)
        PROVE  FALSE
    BY <2>1, WriterAlone DEF RegisterUpdate, UnregisterErase, Goto, Looping, Counted
  <2>2. CASE UNCHANGED vars
    BY <2>2 DEF vars
  <2>3. ASSUME NEW c \in Clients, Call(c) \/ Acquire(c) PROVE UNCHANGED map
    BY <2>3 DEF Call, Acquire, New, Broadcast, Register, Destroy,
                BroadcastLock, RegisterLock, UnregisterLock
  <2>4. ASSUME NEW c \in Clients, Continue(c) PROVE UNCHANGED map
    BY <2>1, <2>4 DEF Continue, BroadcastCount, BroadcastUnlock, BroadcastVisit,
                      ReceiveMessage, BroadcastLeave, RegisterDrain, UnregisterDrain
  <2>. QED
    BY <2>2, <2>3, <2>4 DEF Next
<1>. QED
  BY <1>1, Invariance, PTL DEF Spec, MapStableWhileLooping

-----------------------------------------------------------------------------
(* The refinement of Multicast.                                            *)

(* What is owed by a broadcast depends only on its own locals and the map. *)
LEMMA OwedSame ==
  ASSUME NEW d \in Clients, UNCHANGED map,
         pc'[d] = pc[d], msg'[d] = msg[d], visited'[d] = visited[d],
         target'[d] = target[d]
  PROVE  AbsOwed'[d] = AbsOwed[d]
BY DEF AbsOwed, Pending, Selected

(* A step that leaves the map and the abstract state of its own client     *)
(* alone is a stuttering step of Multicast.                                *)
LEMMA Stutters ==
  ASSUME NEW c \in Clients, UNCHANGED <<map, served>>,
         \A d \in Clients \ {c} :
             /\ pc'[d] = pc[d] /\ msg'[d] = msg[d]
             /\ visited'[d] = visited[d] /\ target'[d] = target[d],
         AbsFlight'[c] = AbsFlight[c], AbsOwed'[c] = AbsOwed[c]
  PROVE  UNCHANGED M!vars
<1>1. AbsFlight' = AbsFlight
  BY DEF AbsFlight
<1>2. \A d \in Clients : AbsOwed'[d] = AbsOwed[d]
  BY OwedSame
<1>3. AbsOwed' = AbsOwed
  BY <1>2 DEF AbsOwed
<1>. QED
  BY <1>1, <1>3 DEF M!vars

(* The constructed router is an idle Multicast.                            *)
LEMMA InitRefines == Init => M!Init
BY DEF Init, M!Init, AbsFlight, AbsOwed, Pending, Counted

(* Calling the router, and waiting for its lock, is invisible.             *)
LEMMA CallStutters ==
  ASSUME Inv, NEW c \in Clients, Call(c) \/ Acquire(c)
  PROVE  UNCHANGED M!vars
<1>. USE DEF Inv, TypeOK, Goto, args, loopVars
<1>1. /\ pc[c] \in {"none", "idle", "bLock", "rLock", "uLock"}
      /\ pc'[c] \in {"idle", "bLock", "rLock", "uLock", "bCount", "rDrain", "uDrain"}
      /\ UNCHANGED <<map, served, visited, target>>
      /\ \A d \in Clients \ {c} : pc'[d] = pc[d] /\ msg'[d] = msg[d]
  BY DEF Call, Acquire, New, Broadcast, Register, Destroy,
         BroadcastLock, RegisterLock, UnregisterLock
<1>2. AbsFlight'[c] = AbsFlight[c] /\ AbsOwed'[c] = AbsOwed[c]
  BY <1>1 DEF AbsFlight, AbsOwed, Pending, Counted
<1>. QED
  BY <1>1, <1>2, Stutters

(* Counting the broadcast is the instant at which it takes effect.         *)
LEMMA CountPublishes ==
  ASSUME Inv, NEW c \in Clients, BroadcastCount(c)
  PROVE  M!Publish(c, msg[c]) /\ msg[c] \in Messages
<1>. USE DEF Inv, TypeOK, Goto, args, loopVars, BroadcastCount
<1>1. msg[c] \in Messages /\ visited[c] = {}
  BY DEF LoopInv, Looping
<1>2. AbsFlight[c] = NULL /\ AbsFlight' = [AbsFlight EXCEPT ![c] = msg[c]]
  BY DEF AbsFlight, Counted
<1>3. AbsOwed'[c] = M!Recipients(map, c, msg[c])
  BY <1>1 DEF AbsOwed, Pending, Selected, M!Recipients
<1>4. \A d \in Clients \ {c} : AbsOwed'[d] = AbsOwed[d]
  BY OwedSame
<1>5. AbsOwed' = [AbsOwed EXCEPT ![c] = M!Recipients(map, c, msg[c])]
  BY <1>3, <1>4 DEF AbsOwed
<1>. QED
  BY <1>1, <1>2, <1>5 DEF M!Publish

(* Releasing mMapLock is invisible.                                        *)
LEMMA UnlockStutters ==
  ASSUME Inv, NEW c \in Clients, BroadcastUnlock(c)
  PROVE  UNCHANGED M!vars
<1>. USE DEF Inv, TypeOK, Goto, args, loopVars, BroadcastUnlock
<1>1. AbsFlight'[c] = AbsFlight[c] /\ AbsOwed'[c] = AbsOwed[c]
  BY DEF AbsFlight, AbsOwed, Pending, Counted, Selected
<1>. QED
  BY <1>1, Stutters

(* Passing an entry over, or turning to it, leaves what is owed as it is.  *)
LEMMA VisitStutters ==
  ASSUME Inv, NEW c \in Clients, NEW r \in Clients, BroadcastVisit(c, r)
  PROVE  UNCHANGED M!vars
<1>. USE DEF Inv, TypeOK, Goto, args, BroadcastVisit
<1>1. AbsFlight'[c] = AbsFlight[c]
  BY DEF AbsFlight, Counted
<1>2. CASE Selected(c, r)
  <2>1. Pending(c)' = Pending(c)
    BY <1>2, SMTT(30) DEF Pending
  <2>2. AbsOwed'[c] = AbsOwed[c]
    BY <2>1 DEF AbsOwed, Selected
  <2>. QED
    BY <1>1, <1>2, <2>2, Stutters
<1>3. CASE ~Selected(c, r)
  <2>1. Pending(c)' = Pending(c) \ {r}
    BY <1>3 DEF Pending
  <2>2. AbsOwed'[c] = AbsOwed[c]
    BY <1>3, <2>1 DEF AbsOwed, Selected
  <2>. QED
    BY <1>1, <1>3, <2>2, Stutters
<1>. QED
  BY <1>2, <1>3

(* A receiveMessage callback is a delivery to a receiver that is owed it.  *)
LEMMA ReceiveDelivers ==
  ASSUME Inv, NEW c \in Clients, ReceiveMessage(c)
  PROVE  M!Deliver(c, target[c]) /\ target[c] \in Clients
<1>. USE DEF Inv, TypeOK, Goto, args, ReceiveMessage
<1>1. /\ target[c] \in DOMAIN map /\ target[c] \in visited[c]
      /\ Selected(c, target[c]) /\ target[c] \in Clients
  BY DEF LoopInv
<1>2. AbsFlight' = AbsFlight
  BY DEF AbsFlight, Counted
<1>3. Pending(c)' = Pending(c) \ {target[c]} /\ target[c] \in Pending(c)
  BY <1>1 DEF Pending
<1>4. AbsOwed'[c] = AbsOwed[c] \ {target[c]} /\ target[c] \in AbsOwed[c]
  BY <1>1, <1>3 DEF AbsOwed, Selected
<1>5. \A d \in Clients \ {c} : AbsOwed'[d] = AbsOwed[d]
  BY OwedSame
<1>6. AbsOwed' = [AbsOwed EXCEPT ![c] = @ \ {target[c]}]
  BY <1>4, <1>5 DEF AbsOwed
<1>. QED
  BY <1>1, <1>2, <1>4, <1>6 DEF M!Deliver

(* A broadcast leaves when nothing is owed by it.                          *)
LEMMA LeaveCompletes ==
  ASSUME Inv, NEW c \in Clients, BroadcastLeave(c)
  PROVE  M!Complete(c)
<1>. USE DEF Inv, TypeOK, Goto, BroadcastLeave
<1>1. AbsFlight[c] # NULL
  BY NullAssumption DEF AbsFlight, Counted, LoopInv
<1>2. AbsFlight' = [AbsFlight EXCEPT ![c] = NULL]
  BY DEF AbsFlight, Counted
<1>3. AbsOwed[c] = {} /\ AbsOwed'[c] = {}
  BY DEF AbsOwed, Pending
<1>4. \A d \in Clients \ {c} : AbsOwed'[d] = AbsOwed[d]
  BY OwedSame
<1>5. AbsOwed' = AbsOwed
  BY <1>3, <1>4 DEF AbsOwed
<1>. QED
  BY <1>1, <1>2, <1>3, <1>5 DEF M!Complete

(* A writer changes the map at a moment when nothing is owed to anybody.   *)
LEMMA WriterRefines ==
  ASSUME Inv, NEW c \in Clients, RegisterUpdate(c) \/ UnregisterErase(c)
  PROVE  (filters[c] \in FilterLists /\ M!Subscribe(c, filters[c])) \/ M!Withdraw(c)
<1>. USE DEF Inv, TypeOK, Goto, args, loopVars
<1>1. \A d \in Clients : pc[d] \notin Counted /\ pc'[d] \notin Counted
  BY WriterAlone DEF RegisterUpdate, UnregisterErase, Counted
<1>2. M!Quiet /\ AbsFlight' = AbsFlight
  BY <1>1 DEF M!Quiet, AbsFlight
<1>3. AbsOwed = [d \in Clients |-> {}] /\ AbsOwed' = [d \in Clients |-> {}]
  BY <1>1 DEF AbsOwed, Pending, Counted
<1>4. CASE RegisterUpdate(c)
  BY <1>2, <1>3, <1>4 DEF RegisterUpdate, MapInv, M!Subscribe, Put, M!Put
<1>5. CASE UnregisterErase(c)
  BY <1>2, <1>3, <1>5 DEF UnregisterErase, M!Withdraw, Drop, M!Drop
<1>. QED
  BY <1>4, <1>5

(* Seeing the counter at zero is invisible.                                *)
LEMMA DrainStutters ==
  ASSUME Inv, NEW c \in Clients, RegisterDrain(c) \/ UnregisterDrain(c)
  PROVE  UNCHANGED M!vars
<1>. USE DEF Inv, TypeOK, Goto, args, loopVars, RegisterDrain, UnregisterDrain
<1>1. AbsFlight'[c] = AbsFlight[c] /\ AbsOwed'[c] = AbsOwed[c]
  BY DEF AbsFlight, AbsOwed, Pending, Counted
<1>. QED
  BY <1>1, Stutters

(* The router implements Multicast: whatever broadcasts, registrations and *)
(* destructions overlap, each broadcast reaches exactly the receivers that *)
(* matched at the instant it was counted, each of them once.               *)
THEOREM Refinement == Spec => ImplementsMulticast
<1>1. Init => M!Init
  BY InitRefines
<1>2. Inv /\ [Next]_vars => [M!Next]_(M!vars)
  <2>. SUFFICES ASSUME Inv, [Next]_vars PROVE M!Next \/ UNCHANGED M!vars
    OBVIOUS
  <2>1. CASE UNCHANGED vars
    BY <2>1 DEF vars, M!vars, AbsFlight, AbsOwed, Pending, Selected
  <2>2. ASSUME NEW c \in Clients, Call(c) \/ Acquire(c) PROVE UNCHANGED M!vars
    BY <2>2, CallStutters
  <2>3. ASSUME NEW c \in Clients, Continue(c) PROVE M!Next \/ UNCHANGED M!vars
    <3>1. CASE BroadcastCount(c)
      BY <3>1, CountPublishes DEF M!Next
    <3>2. CASE ReceiveMessage(c)
      BY <3>2, ReceiveDelivers DEF M!Next
    <3>3. CASE BroadcastLeave(c)
      BY <3>3, LeaveCompletes DEF M!Next
    <3>4. CASE RegisterUpdate(c) \/ UnregisterErase(c)
      BY <3>4, WriterRefines DEF M!Next
    <3>. QED
      BY <2>3, <3>1, <3>2, <3>3, <3>4, UnlockStutters, VisitStutters, DrainStutters
         DEF Continue
  <2>. QED
    BY <2>1, <2>2, <2>3 DEF Next
<1>. QED
  BY <1>1, <1>2, Invariance, PTL DEF Spec, ImplementsMulticast, M!Spec
=============================================================================
