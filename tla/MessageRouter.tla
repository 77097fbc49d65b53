--------------------------- MODULE MessageRouter ---------------------------
(***************************************************************************)
(* TmxCore's MessageRouterBasic, used through MessageRouterClient.         *)
(*                                                                         *)
(* A client is one MessageRouterClient object together with the thread of  *)
(* control that calls the router on its behalf.  One thread is enough: in  *)
(* a PluginConnection the fast processor thread subscribes and broadcasts, *)
(* and the receiver thread destroys the object only after joining it.      *)
(* Freed memory may be used again for a new client, so a name that has     *)
(* been destroyed can be constructed again.                                *)
(*                                                                         *)
(* The iteration order of std::map is the order of the receivers'          *)
(* addresses, which is arbitrary: the loop visits the entries of the map,  *)
(* as it is at that moment, in any order.                                  *)
(***************************************************************************)
EXTENDS Naturals, Sequences, FiniteSets

CONSTANTS Clients,       \* MessageRouterClient objects (and their threads)
          Messages,      \* the IvpMessages that may be broadcast
          FilterLists,   \* the vector<MessageFilterEntry> that may be used
          Nobody,        \* mMapLock is free
          NULL           \* no argument; also a NULL type or subtype

ASSUME ClientsAssumption == IsFiniteSet(Clients) /\ Nobody \notin Clients

ASSUME NullAssumption == NULL \notin Messages

VARIABLES
    mMapLock,            \* who holds mMapLock, or Nobody
    mActiveBroadcasts,   \* the counter guarded by mActiveBroadcastsLock
    map,                 \* mReceiverMessageFilterEntryMap
    pc,                  \* where each client's thread is
    msg,                 \* the message of the broadcast it is in, or NULL
    filters,             \* the filters of the registration it is in
    visited,             \* the entries the broadcast loop has passed
    target,              \* the receiver being called back
    served               \* the receivers called so far by this broadcast

vars == <<mMapLock, mActiveBroadcasts, map, pc, msg, filters,
          visited, target, served>>

PCs == {"none", "idle",
        "bLock", "bCount", "bUnlock", "bIterate", "bCallback",
        "rLock", "rDrain", "rUpdate",
        "uLock", "uDrain", "uErase"}

-----------------------------------------------------------------------------
(* Filters.  A flag mask and a message's flags are sets of bits.           *)

FlagsPass(f, m) == f.flagmask = {} \/ f.flagmask \intersect m.flags # {}

EntryMatches(f, m) ==
    /\ \/ f.type = "*"
       \/ /\ m.type # NULL
          /\ f.type = m.type
          /\ f.subtype = "*" \/ (m.subtype # NULL /\ f.subtype = m.subtype)
    /\ FlagsPass(f, m)

(* The first entry that matches delivers the message and ends the search.  *)
Matches(entries, m) == \E i \in DOMAIN entries : EntryMatches(entries[i], m)

Put(f, k, v) == [x \in DOMAIN f \union {k} |-> IF x = k THEN v ELSE f[x]]

Drop(f, k) == [x \in DOMAIN f \ {k} |-> f[x]]

-----------------------------------------------------------------------------
Init ==
    /\ mMapLock = Nobody
    /\ mActiveBroadcasts = 0
    /\ map = [c \in {} |-> <<>>]
    /\ pc = [c \in Clients |-> "none"]
    /\ msg = [c \in Clients |-> NULL]
    /\ filters = [c \in Clients |-> <<>>]
    /\ visited = [c \in Clients |-> {}]
    /\ target = [c \in Clients |-> Nobody]
    /\ served = [c \in Clients |-> <<>>]

Goto(c, from, to) == pc[c] = from /\ pc' = [pc EXCEPT ![c] = to]

LockMap(c) == mMapLock = Nobody /\ mMapLock' = c

UnlockMap(c) == mMapLock' = Nobody

args == <<msg, filters>>

loopVars == <<visited, target, served>>

(* MessageRouterClient's constructor; the object is not in the map yet.    *)
New(c) ==
    /\ Goto(c, "none", "idle")
    /\ UNCHANGED <<mMapLock, mActiveBroadcasts, map, args, loopVars>>

(* sendMessageToRouter: the client enters broadcastMessage.                *)
Broadcast(c, m) ==
    /\ Goto(c, "idle", "bLock")
    /\ msg' = [msg EXCEPT ![c] = m]
    /\ UNCHANGED <<mMapLock, mActiveBroadcasts, map, filters, loopVars>>

BroadcastLock(c) ==
    /\ Goto(c, "bLock", "bCount")
    /\ LockMap(c)
    /\ UNCHANGED <<mActiveBroadcasts, map, args, loopVars>>

(* Mutant: the counter is not incremented.                                 *)
BroadcastCountMissing(c) ==
    /\ Goto(c, "bCount", "bUnlock")
    /\ UNCHANGED <<mMapLock, mActiveBroadcasts, map, args, loopVars>>

(* lock mActiveBroadcastsLock; mActiveBroadcasts++; unlock: nothing inside *)
(* blocks and every write of the counter holds the lock, so it is a step.  *)
BroadcastCount(c) ==
    /\ Goto(c, "bCount", "bUnlock")
    /\ mActiveBroadcasts' = mActiveBroadcasts + 1
    /\ UNCHANGED <<mMapLock, map, args, loopVars>>

BroadcastUnlock(c) ==
    /\ Goto(c, "bUnlock", "bIterate")
    /\ UnlockMap(c)
    /\ UNCHANGED <<mActiveBroadcasts, map, args, loopVars>>

(* Mutant: the sender is not passed over.                                  *)
SelectedLoopback(c, r) == Matches(map[r], msg[c])

(* One round of the loop, without mMapLock: the sender itself and entries  *)
(* with no matching filter are passed over.                                *)
Selected(c, r) == r # c /\ Matches(map[r], msg[c])

BroadcastVisit(c, r) ==
    /\ pc[c] = "bIterate"
    /\ r \in DOMAIN map \ visited[c]
    /\ visited' = [visited EXCEPT ![c] = @ \union {r}]
    /\ IF Selected(c, r)
       THEN Goto(c, "bIterate", "bCallback") /\ target' = [target EXCEPT ![c] = r]
       ELSE UNCHANGED <<pc, target>>
    /\ UNCHANGED <<mMapLock, mActiveBroadcasts, map, args, served>>

(* mapIter->first->receiveMessage(msg) returns.                            *)
ReceiveMessage(c) ==
    /\ Goto(c, "bCallback", "bIterate")
    /\ served' = [served EXCEPT ![c] = Append(@, target[c])]
    /\ target' = [target EXCEPT ![c] = Nobody]
    /\ UNCHANGED <<mMapLock, mActiveBroadcasts, map, args, visited>>

(* Mutant: a return path that does not count down.                         *)
BroadcastLeaveUncounted(c) ==
    /\ DOMAIN map \subseteq visited[c]
    /\ Goto(c, "bIterate", "idle")
    /\ msg' = [msg EXCEPT ![c] = NULL]
    /\ visited' = [visited EXCEPT ![c] = {}]
    /\ served' = [served EXCEPT ![c] = <<>>]
    /\ UNCHANGED <<mMapLock, mActiveBroadcasts, map, filters, target>>

(* The loop has reached map.end(); leave, counting down under the lock.    *)
BroadcastLeave(c) ==
    /\ DOMAIN map \subseteq visited[c]
    /\ Goto(c, "bIterate", "idle")
    /\ mActiveBroadcasts' = mActiveBroadcasts - 1
    /\ msg' = [msg EXCEPT ![c] = NULL]
    /\ visited' = [visited EXCEPT ![c] = {}]
    /\ served' = [served EXCEPT ![c] = <<>>]
    /\ UNCHANGED <<mMapLock, map, filters, target>>

(* subscribeForMessages: the client enters registerReceiver.               *)
Register(c, fs) ==
    /\ Goto(c, "idle", "rLock")
    /\ filters' = [filters EXCEPT ![c] = fs]
    /\ UNCHANGED <<mMapLock, mActiveBroadcasts, map, msg, loopVars>>

RegisterLock(c) ==
    /\ Goto(c, "rLock", "rDrain")
    /\ LockMap(c)
    /\ UNCHANGED <<mActiveBroadcasts, map, args, loopVars>>

(* Mutants: no wait for the running broadcasts; an off-by-one in its test. *)
DrainedAlways == TRUE

DrainedOffByOne == mActiveBroadcasts <= 1

(* while (mActiveBroadcasts > 0) sleep(0): the test that ends the spin.    *)
Drained == mActiveBroadcasts = 0

RegisterDrain(c) ==
    /\ Drained
    /\ Goto(c, "rDrain", "rUpdate")
    /\ UNCHANGED <<mMapLock, mActiveBroadcasts, map, args, loopVars>>

RegisterUpdate(c) ==
    /\ Goto(c, "rUpdate", "idle")
    /\ map' = Put(map, c, filters[c])
    /\ UnlockMap(c)
    /\ filters' = [filters EXCEPT ![c] = <<>>]
    /\ UNCHANGED <<mActiveBroadcasts, msg, loopVars>>

(* ~MessageRouterClient: the client enters unregisterReceiver.             *)
Destroy(c) ==
    /\ Goto(c, "idle", "uLock")
    /\ UNCHANGED <<mMapLock, mActiveBroadcasts, map, args, loopVars>>

UnregisterLock(c) ==
    /\ Goto(c, "uLock", "uDrain")
    /\ LockMap(c)
    /\ UNCHANGED <<mActiveBroadcasts, map, args, loopVars>>

UnregisterDrain(c) ==
    /\ Drained
    /\ Goto(c, "uDrain", "uErase")
    /\ UNCHANGED <<mMapLock, mActiveBroadcasts, map, args, loopVars>>

(* The entry is erased and the lock released; then the memory is freed.    *)
UnregisterErase(c) ==
    /\ Goto(c, "uErase", "none")
    /\ map' = Drop(map, c)
    /\ UnlockMap(c)
    /\ UNCHANGED <<mActiveBroadcasts, args, loopVars>>

-----------------------------------------------------------------------------
(* The calls a client may make when it is not in one.                      *)
Call(c) ==
    \/ New(c)
    \/ \E m \in Messages : Broadcast(c, m)
    \/ \E fs \in FilterLists : Register(c, fs)
    \/ Destroy(c)

(* The first step of a call: it waits for mMapLock.                        *)
Acquire(c) == BroadcastLock(c) \/ RegisterLock(c) \/ UnregisterLock(c)

(* The steps of a call that has had mMapLock.                              *)
Continue(c) ==
    \/ BroadcastCount(c)
    \/ BroadcastUnlock(c)
    \/ \E r \in Clients : BroadcastVisit(c, r)
    \/ ReceiveMessage(c)
    \/ BroadcastLeave(c)
    \/ RegisterDrain(c)
    \/ RegisterUpdate(c)
    \/ UnregisterDrain(c)
    \/ UnregisterErase(c)

Next == \E c \in Clients : Call(c) \/ Acquire(c) \/ Continue(c)

Spec == Init /\ [][Next]_vars

(* A thread that can run keeps running.  Nothing is assumed of who gets a  *)
(* contended mutex, or of a callback: onMessageReceived of a connection    *)
(* writes to the plugin's socket, which blocks while the plugin does not   *)
(* read.                                                                   *)
InCallback(c) == pc[c] = "bCallback"

FairSpec == Spec /\ \A c \in Clients : WF_vars(~InCallback(c) /\ Continue(c))

-----------------------------------------------------------------------------
TypeOK ==
    /\ mMapLock \in Clients \union {Nobody}
    /\ mActiveBroadcasts \in Nat
    /\ DOMAIN map \subseteq Clients
    /\ \A r \in DOMAIN map : map[r] \in FilterLists
    /\ pc \in [Clients -> PCs]
    /\ msg \in [Clients -> Messages \union {NULL}]
    /\ filters \in [Clients -> FilterLists \union {<<>>}]
    /\ visited \in [Clients -> SUBSET Clients]
    /\ target \in [Clients -> Clients \union {Nobody}]
    /\ served \in [Clients -> Seq(Clients)]

Holding == {"bCount", "bUnlock", "rDrain", "rUpdate", "uDrain", "uErase"}

Counted == {"bUnlock", "bIterate", "bCallback"}

Looping == {"bIterate", "bCallback"}

(* The inductive invariant: who is where determines the lock and the       *)
(* counter; a writer past its spin has excluded every broadcast; the map   *)
(* holds live objects only; a callback's target is a selected entry of it. *)
LockInv == \A c \in Clients : pc[c] \in Holding <=> mMapLock = c

CountInv == mActiveBroadcasts = Cardinality({c \in Clients : pc[c] \in Counted})

ExclusionInv ==
    \A c \in Clients : pc[c] \in {"rUpdate", "uErase"} => mActiveBroadcasts = 0

MapInv ==
    /\ \A r \in DOMAIN map : pc[r] # "none"
    /\ \A c \in Clients :
        pc[c] \in {"rLock", "rDrain", "rUpdate"} => filters[c] \in FilterLists

LoopInv ==
    \A c \in Clients :
        /\ pc[c] \in Counted \union {"bLock", "bCount"} => msg[c] \in Messages
        /\ pc[c] \notin Looping => visited[c] = {} /\ served[c] = <<>>
        /\ pc[c] = "bCallback" => /\ target[c] \in DOMAIN map
                                  /\ target[c] \in visited[c]
                                  /\ Selected(c, target[c])

Inv == TypeOK /\ LockInv /\ CountInv /\ ExclusionInv /\ MapInv /\ LoopInv

(* No thread calls back, through its map iterator, an object that has been *)
(* destroyed or an entry that is no longer in the map: broadcastMessage    *)
(* walks the map without mMapLock and relies on the counter alone.         *)
NoDanglingCallback ==
    \A c \in Clients :
        pc[c] = "bCallback" => /\ pc[target[c]] # "none"
                               /\ target[c] \in DOMAIN map

(* registerReceiver and unregisterReceiver never touch the map while some  *)
(* thread is inside the loop of broadcastMessage, which holds an iterator. *)
MapStableWhileLooping ==
    [][(\E c \in Clients : pc[c] \in Looping) => UNCHANGED map]_vars

(* If no callback hangs for ever, a call that has got past mMapLock        *)
(* returns: a register that spins on the counter is not starved by         *)
(* broadcasts, because holding mMapLock keeps new ones out while the       *)
(* running ones finish.  One that does hang keeps the counter up, and a    *)
(* register then spins for ever with mMapLock.                             *)
Inside == PCs \ {"none", "idle", "bLock", "rLock", "uLock"}

ReturnsIfCallbacksDo ==
    (\A d \in Clients : []<>~InCallback(d)) =>
        \A c \in Clients : pc[c] \in Inside ~> pc[c] \in {"none", "idle"}

-----------------------------------------------------------------------------
(* The router implements Multicast.  The broadcast takes effect when the   *)
(* counter is incremented; from then on the receivers owed the message are *)
(* the selected entries that the loop has not passed, and the one it is    *)
(* calling now.                                                            *)
AbsFlight == [c \in Clients |-> IF pc[c] \in Counted THEN msg[c] ELSE NULL]

Pending(c) ==
    CASE pc[c] \in {"bUnlock", "bIterate"} -> DOMAIN map \ visited[c]
      [] pc[c] = "bCallback" -> (DOMAIN map \ visited[c]) \union {target[c]}
      [] OTHER -> {}

AbsOwed == [c \in Clients |-> {r \in Pending(c) : Selected(c, r)}]

M == INSTANCE Multicast WITH
        Wants <- Matches, Idle <- NULL,
        subs <- map, flight <- AbsFlight, owed <- AbsOwed

(* Seen through that mapping every step of the router is a step of the     *)
(* abstract multicast or changes nothing: each matching receiver of the    *)
(* instant is called exactly once, and nobody else is.                     *)
ImplementsMulticast == M!Spec
=============================================================================
