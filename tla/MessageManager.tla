--------------------------- MODULE MessageManager ---------------------------
(***************************************************************************)
(* TmxUtils' TmxMessageManager: a caller hands incoming messages to a      *)
(* group of worker threads (RxThread), each with a lock-free queue in and  *)
(* one out; the output thread empties the latter.  ThreadGroupAssignment   *)
(* keeps, for each source, a count of its messages and the thread they go  *)
(* to, in two atomics that are read and written one at a time.             *)
(*                                                                         *)
(* The queues have one producer and one consumer, so incoming messages     *)
(* come from one thread.  The threads are running: Start and Stop are not  *)
(* modelled.  The strategies (round robin, random, shortest queue) are a   *)
(* choice of any thread.  A condition variable is waited for by testing    *)
(* and then blocking, and the notifier takes no lock.  What a message says *)
(* is left out, and so is assignments[0][0], which is never looked at.     *)
(*                                                                         *)
(* Some behaviours are calm: in them nothing happens between the two       *)
(* steps of unassign, or between a waiting thread's test and its block.    *)
(* They are behaviours of the program like the others, and some properties *)
(* are about them only.                                                    *)
(***************************************************************************)
EXTENDS Naturals, Sequences, FiniteSets

CONSTANTS
    Threads,
    Sources,     \* the pairs <<groupId, uniqId>> other than <<0, 0>>
    NoId,        \* <<0, 0>>: any thread will do
    Messages,    \* what can be in flight at once
    Source,      \* the source of each message
    QueueSize,   \* the capacity of each queue
    MaxLost,     \* the caller gives a source up once it has lost so many
    Answered,    \* the messages whose handler sends a message ...
    Outgoing,    \* ... which is this one
    None

ASSUME ManagerAssumption ==
    /\ NoId \notin Sources
    /\ Source \in [Messages -> Sources \union {NoId}]
    /\ QueueSize \in Nat \ {0}
    /\ MaxLost \in Nat \ {0}
    /\ IsFiniteSet(Messages)
    /\ Answered \subseteq Messages
    /\ Outgoing \notin Messages
    /\ None \notin Messages \union Threads

VARIABLES
    count, threadId,   \* assignments: per source
    inQ, outQ,         \* per thread
    cpc, cmsg, cthread,   \* IncomingMessage
    wpc, wmsg,            \* the workers
    opc, omsg,            \* the output thread
    lost,       \* messages of each source that are counted and lost
    ahead,      \* history: what came before a message from its source, not yet taken
    calm        \* whether this is a calm behaviour

assignVars == <<count, threadId>>
callerVars == <<cpc, cmsg, cthread>>
workerVars == <<wpc, wmsg>>
outputVars == <<opc, omsg>>

vars == <<assignVars, inQ, outQ, callerVars, workerVars, outputVars, lost, ahead,
          calm>>

Init ==
    /\ count = [s \in Sources |-> 0]
    /\ threadId = [s \in Sources |-> None]
    /\ inQ = [t \in Threads |-> <<>>]
    /\ outQ = [t \in Threads |-> <<>>]
    /\ cpc = "idle" /\ cmsg = None /\ cthread = None
    /\ wpc = [t \in Threads |-> "pop"]
    /\ wmsg = [t \in Threads |-> None]
    /\ opc = "pop" /\ omsg = None
    /\ lost = [s \in Sources |-> 0]
    /\ ahead = [m \in Messages |-> {}]
    /\ calm \in BOOLEAN

Elements(q) == {q[i] : i \in 1 .. Len(q)}

(* Where the message is that was assigned to t and is not unassigned.      *)
Unhandled(t) ==
    Elements(inQ[t]) \union {wmsg[t]}
        \union (IF cpc = "push" /\ cthread = t THEN {cmsg} ELSE {})

InFlight ==
    {m \in Messages : \/ m = cmsg \/ m = omsg
                      \/ \E t \in Threads : \/ m \in Unhandled(t)
                                            \/ m \in Elements(outQ[t])}

Of(s) == {m \in Messages : Source[m] = s}

HasRoomForOneMore(q) == Len(q) <= QueueSize

HasRoom(q) == Len(q) < QueueSize

StillBlocked(pc) == pc

(* notify_one                                                              *)
Woken(pc) == IF pc = "blocked" THEN "pop" ELSE pc

(* The message m is dropped and stays counted.                             *)
Lose(m) ==
    lost' = [s \in Sources |-> IF s = Source[m] THEN lost[s] + 1 ELSE lost[s]]

-----------------------------------------------------------------------------
(* IncomingMessage(m)                                                      *)

CountNothing(s) == 0

CountOne(s) == 1

(* assign: the message is counted ...                                      *)
Assign(m) ==
    /\ cpc = "idle"
    /\ m \notin InFlight
    /\ Source[m] # NoId => lost[Source[m]] < MaxLost
    /\ count' = [s \in Sources |->
                    IF s = Source[m] THEN count[s] + CountOne(s) ELSE count[s]]
    /\ cmsg' = m
    /\ cpc' = "read"
    /\ UNCHANGED <<threadId, inQ, outQ, cthread, workerVars, outputVars, lost,
                   ahead, calm>>

HasThread(s) == s # NoId /\ threadId[s] # None

(* ... the thread of its source is read ...                                *)
UseAssignment ==
    /\ cpc = "read"
    /\ HasThread(Source[cmsg])
    /\ cthread' = threadId[Source[cmsg]]
    /\ cpc' = "push"
    /\ UNCHANGED <<assignVars, inQ, outQ, cmsg, workerVars, outputVars, lost,
                   ahead, calm>>

(* ... or chosen ...                                                       *)
ChooseThread(t) ==
    /\ cpc = "read"
    /\ ~HasThread(Source[cmsg])
    /\ cthread' = t
    /\ cpc' = IF Source[cmsg] = NoId THEN "push" ELSE "store"
    /\ UNCHANGED <<assignVars, inQ, outQ, cmsg, workerVars, outputVars, lost,
                   ahead, calm>>

(* ... and stored.                                                         *)
StoreThread ==
    /\ cpc = "store"
    /\ threadId' = [threadId EXCEPT ![Source[cmsg]] = cthread]
    /\ cpc' = "push"
    /\ UNCHANGED <<count, inQ, outQ, cmsg, cthread, workerVars, outputVars, lost,
                   ahead, calm>>

(* The messages of m's source that are in a queue.                         *)
Earlier(m) ==
    {x \in Of(Source[m]) : Source[x] # NoId /\ \E u \in Threads : x \in Elements(inQ[u])}

PushTo(t) ==
    /\ cpc = "push"
    /\ cthread = t
    /\ HasRoom(inQ[t])
    /\ inQ' = [inQ EXCEPT ![t] = Append(@, cmsg)]
    /\ ahead' = [m \in Messages |-> IF m = cmsg THEN Earlier(m) ELSE ahead[m]]
    /\ cmsg' = None
    /\ cpc' = "notify"
    /\ UNCHANGED <<assignVars, outQ, cthread, workerVars, outputVars, lost, calm>>

PushFails ==
    /\ cpc = "push"
    /\ ~HasRoom(inQ[cthread])
    /\ Lose(cmsg)
    /\ cmsg' = None
    /\ cthread' = None
    /\ cpc' = "idle"
    /\ UNCHANGED <<assignVars, inQ, outQ, workerVars, outputVars, ahead, calm>>

NotifyWorker ==
    /\ cpc = "notify"
    /\ wpc' = [wpc EXCEPT ![cthread] = Woken(@)]
    /\ cthread' = None
    /\ cpc' = "idle"
    /\ UNCHANGED <<assignVars, inQ, outQ, cmsg, wmsg, outputVars, lost, ahead,
                   calm>>

Caller == \/ \E t \in Threads : ChooseThread(t) \/ PushTo(t)
          \/ UseAssignment \/ StoreThread \/ PushFails \/ NotifyWorker

-----------------------------------------------------------------------------
(* RxThread t: DoWork, doWork and idle.                                    *)

Pop(t) ==
    /\ wpc[t] = "pop"
    /\ inQ[t] # <<>>
    /\ wmsg' = [wmsg EXCEPT ![t] = Head(inQ[t])]
    /\ inQ' = [inQ EXCEPT ![t] = Tail(@)]
    /\ ahead' = [m \in Messages |->
            IF m = Head(inQ[t]) THEN {} ELSE ahead[m] \ {Head(inQ[t])}]
    /\ wpc' = [wpc EXCEPT ![t] = "handle"]
    /\ UNCHANGED <<assignVars, outQ, callerVars, outputVars, lost, calm>>

(* What the handler sends is dropped if there is no room.                  *)
Handle(t) ==
    /\ wpc[t] = "handle"
    /\ IF wmsg[t] \in Answered /\ HasRoom(outQ[t])
       THEN /\ outQ' = [outQ EXCEPT ![t] = Append(@, Outgoing)]
            /\ wpc' = [wpc EXCEPT ![t] = "sent"]
       ELSE /\ wpc' = [wpc EXCEPT ![t] = "cleanup"]
            /\ UNCHANGED outQ
    /\ UNCHANGED <<assignVars, inQ, callerVars, wmsg, outputVars, lost, ahead,
                   calm>>

(* The message itself is put out, to be unassigned.                        *)
PushCleanup(t) ==
    /\ wpc[t] = "cleanup"
    /\ IF HasRoom(outQ[t])
       THEN /\ outQ' = [outQ EXCEPT ![t] = Append(@, wmsg[t])]
            /\ wpc' = [wpc EXCEPT ![t] = "notify"]
            /\ UNCHANGED lost
       ELSE /\ Lose(wmsg[t])
            /\ wpc' = [wpc EXCEPT ![t] = "pop"]
            /\ UNCHANGED outQ
    /\ wmsg' = [wmsg EXCEPT ![t] = None]
    /\ UNCHANGED <<assignVars, inQ, callerVars, outputVars, ahead, calm>>

NotifyOutput(t) ==
    /\ wpc[t] \in {"sent", "notify"}
    /\ opc' = Woken(opc)
    /\ wpc' = [wpc EXCEPT ![t] = IF @ = "sent" THEN "cleanup" ELSE "pop"]
    /\ UNCHANGED <<assignVars, inQ, outQ, callerVars, wmsg, omsg, lost, ahead,
                   calm>>

(* wait: the queue is found empty, and then the thread blocks.             *)
WorkerWaits(t) ==
    /\ \/ /\ wpc[t] = "pop" /\ inQ[t] = <<>>
          /\ wpc' = [wpc EXCEPT ![t] = IF calm THEN "blocked" ELSE "tested"]
       \/ /\ wpc[t] = "tested"
          /\ wpc' = [wpc EXCEPT ![t] = "blocked"]
    /\ UNCHANGED <<assignVars, inQ, outQ, callerVars, wmsg, outputVars, lost,
                   ahead, calm>>

Worker(t) ==
    Pop(t) \/ Handle(t) \/ PushCleanup(t) \/ NotifyOutput(t) \/ WorkerWaits(t)

-----------------------------------------------------------------------------
(* OutputThread: a loop over the outgoing queues.  What a handler sent is  *)
(* broadcast, and a message of a source is unassigned.                     *)

OutputPop(t) ==
    /\ opc = "pop"
    /\ outQ[t] # <<>>
    /\ outQ' = [outQ EXCEPT ![t] = Tail(@)]
    /\ LET m == Head(outQ[t]) IN
        IF m # Outgoing /\ Source[m] # NoId
        THEN omsg' = m /\ opc' = "unassign"
        ELSE UNCHANGED outputVars
    /\ UNCHANGED <<assignVars, inQ, callerVars, workerVars, lost, ahead, calm>>

NotNeeded(s) == TRUE

IsLast(s) == count[s] = 1

(* unassign: the message is no longer counted, and if it was the last ...  *)
Unassign ==
    /\ opc = "unassign"
    /\ count' = [count EXCEPT ![Source[omsg]] = @ - 1]
    /\ IF IsLast(Source[omsg]) /\ ~calm
       THEN /\ opc' = "clear"
            /\ UNCHANGED <<threadId, omsg>>
       ELSE /\ opc' = "pop" /\ omsg' = None
            /\ threadId' = IF IsLast(Source[omsg])
                           THEN [threadId EXCEPT ![Source[omsg]] = None]
                           ELSE threadId
    /\ UNCHANGED <<inQ, outQ, callerVars, workerVars, lost, ahead, calm>>

(* ... its source has no thread any more.                                  *)
ClearThread ==
    /\ opc = "clear"
    /\ threadId' = [threadId EXCEPT ![Source[omsg]] = None]
    /\ opc' = "pop" /\ omsg' = None
    /\ UNCHANGED <<count, inQ, outQ, callerVars, workerVars, lost, ahead, calm>>

OutputWaits ==
    /\ \/ /\ opc = "pop"
          /\ \A t \in Threads : outQ[t] = <<>>
          /\ opc' = IF calm THEN "blocked" ELSE "tested"
       \/ /\ opc = "tested"
          /\ opc' = "blocked"
    /\ UNCHANGED <<assignVars, inQ, outQ, callerVars, workerVars, omsg, lost,
                   ahead, calm>>

(* A wait may end for no reason; it then tests again.                      *)
SpuriousWakeup ==
    /\ \/ /\ opc = "blocked" /\ opc' = "pop"
          /\ UNCHANGED wpc
       \/ /\ \E t \in Threads : wpc[t] = "blocked" /\ wpc' = [wpc EXCEPT ![t] = "pop"]
          /\ UNCHANGED opc
    /\ UNCHANGED <<assignVars, inQ, outQ, callerVars, wmsg, omsg, lost, ahead,
                   calm>>

Output == \/ \E t \in Threads : OutputPop(t)
          \/ Unassign \/ ClearThread \/ OutputWaits

Next == \/ \E m \in Messages : Assign(m)
        \/ Caller
        \/ \E t \in Threads : Worker(t)
        \/ Output
        \/ SpuriousWakeup

(* A call that has begun goes on, and so does every thread that is not     *)
(* blocked; the output thread looks at every queue in turn.                *)
Fairness ==
    /\ WF_vars(Caller)
    /\ \A t \in Threads : WF_vars(Worker(t)) /\ SF_vars(OutputPop(t))
    /\ WF_vars(Output)

Spec == Init /\ [][Next]_vars /\ Fairness

-----------------------------------------------------------------------------
TypeOK ==
    /\ count \in [Sources -> Nat]
    /\ threadId \in [Sources -> Threads \union {None}]
    /\ inQ \in [Threads -> Seq(Messages)]
    /\ outQ \in [Threads -> Seq(Messages \union {Outgoing})]
    /\ \A t \in Threads : Len(inQ[t]) <= QueueSize /\ Len(outQ[t]) <= QueueSize
    /\ cpc \in {"idle", "read", "store", "push", "notify"}
    /\ cmsg \in Messages \union {None}
    /\ cmsg = None <=> cpc \in {"idle", "notify"}
    /\ cthread \in Threads \union {None}
    /\ cthread = None <=> cpc \in {"idle", "read"}
    /\ cpc = "store" => Source[cmsg] # NoId
    /\ wpc \in [Threads -> {"pop", "handle", "sent", "cleanup", "notify", "tested",
                            "blocked"}]
    /\ wmsg \in [Threads -> Messages \union {None}]
    /\ \A t \in Threads : wmsg[t] = None <=> wpc[t] \notin {"handle", "sent", "cleanup"}
    /\ opc \in {"pop", "unassign", "clear", "tested", "blocked"}
    /\ omsg \in Messages \union {None}
    /\ omsg = None <=> opc \notin {"unassign", "clear"}
    /\ omsg # None => Source[omsg] # NoId
    /\ lost \in [Sources -> Nat]
    /\ calm \in BOOLEAN

(* The message being unassigned that is no longer counted.                 *)
Uncounted == IF opc = "clear" THEN {omsg} ELSE {}

(* The count of a source is the number of its messages in flight and of    *)
(* those lost at a full queue, whatever the caller and the output thread   *)
(* do to it at the same time: none is counted twice, or uncounted twice.   *)
(* That the thread of a source is kept as long as it has a message in      *)
(* flight does not follow; see SameThread.                                 *)
CountExact ==
    \A s \in Sources :
        count[s] = Cardinality((InFlight \ Uncounted) \intersect Of(s)) + lost[s]

(* What IncomingMessage promises: all active messages from the same source *)
(* are assigned to the same thread.                                        *)
SameThread ==
    \A t1, t2 \in Threads :
        \A m1 \in Unhandled(t1) \ {None}, m2 \in Unhandled(t2) \ {None} :
            Source[m1] = Source[m2] /\ Source[m1] # NoId => t1 = t2

(* It is kept as long as no call of assign falls between the two steps of  *)
(* unassign.                                                               *)
SameThreadIfCalm == calm => SameThread

(* The messages of a source are then taken in the order in which they came.*)
InOrderIfCalm ==
    [][calm => \A t \in Threads :
        wmsg'[t] \notin {wmsg[t], None} => ahead[wmsg'[t]] = {}]_vars

(* A worker that sleeps while its queue has a message, with no             *)
(* notification to come, and the output thread likewise.                   *)
SleepsOn(t) ==
    wpc[t] = "blocked" /\ inQ[t] # <<>> /\ ~(cpc = "notify" /\ cthread = t)

OutputSleepsOn ==
    /\ opc = "blocked"
    /\ \E t \in Threads : outQ[t] # <<>>
    /\ \A t \in Threads : wpc[t] \notin {"sent", "notify"}

(* A thread gets there in one way only: by blocking on a test that was     *)
(* overtaken by a push and its notification, for a notifier takes no lock. *)
(* It is not left there by a push that comes later, and no order of pushes,*)
(* pops, notifications and spurious wake-ups puts a thread there that was  *)
(* not between its test and its block.                                     *)
SleepsOnlyOnStaleTest ==
    [][/\ \A t \in Threads : SleepsOn(t)' => SleepsOn(t) \/ wpc[t] = "tested"
       /\ OutputSleepsOn' => OutputSleepsOn \/ opc = "tested"]_vars

(* Every message is handled and cleaned up in the end, unless a push fell  *)
(* between the test and the block of a wait and its notification was       *)
(* missed.                                                                 *)
CleanedUpIfCalm ==
    calm => \A m \in Messages : []<>(m \notin InFlight)

=============================================================================
