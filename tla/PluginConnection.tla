-------------------------- MODULE PluginConnection --------------------------
(***************************************************************************)
(* TmxCore's PluginConnection: the threads that serve one plugin's socket. *)
(*                                                                         *)
(* The receiver thread sorts incoming messages into two queues.  The fast  *)
(* processor thread takes registrations, subscriptions, configuration and  *)
(* ordinary messages; the slow one takes status and event log messages,    *)
(* which write to the database.  When the socket closes, the receiver      *)
(* stops the two processors, joins them and deletes the object all three   *)
(* were running on.  The constructor runs on the server's thread and has   *)
(* its own steps: it starts the receiver before it has stored the handles  *)
(* of the processors.                                                      *)
(*                                                                         *)
(* The network is a sequence of whole messages (MsgFramer cuts them out of *)
(* the stream) and a flag that the plugin has closed its end.  Messages    *)
(* are known by their position in `received`.  What registerPlugin and the *)
(* database answer is a nondeterministic choice.                           *)
(***************************************************************************)
EXTENDS Naturals, Sequences

CONSTANTS
    Scripts,             \* the message sequences a plugin may send
    MaxReceived,         \* the length of the longest of them
    ConstructorFirst     \* the receiver's usleep(100) outlasts the constructor

Threads == {"fast", "slow"}

FastKinds == {"register", "subscribe", "config", "globalconfig", "normal"}

SlowKinds == {"status", "eventlog"}

Kinds == FastKinds \union SlowKinds \union {"garbled"}

ASSUME ScriptsAssumption ==
    /\ Scripts \subseteq Seq(Kinds)
    /\ MaxReceived \in Nat
    /\ \A s \in Scripts : Len(s) <= MaxReceived
    /\ ConstructorFirst \in BOOLEAN

VARIABLES
    core,          \* "up", or "terminated" by an uncaught exception
    wire,          \* what the plugin will still send, or has sent unread
    hungUp,        \* the plugin has closed the connection
    received,      \* the messages the receiver has parsed
    queue,         \* mFastMessageQueue, mSlowMessageQueue
    flag,          \* mEventContinueFastProcessor, mEventContinueSlowProcessor
    rpc,           \* where the receiver is
    cpc,           \* where the constructor is
    handle,        \* mFastProcessorThread, mSlowProcessorThread are set
    interrupted,   \* the interruption request of each processor
    ppc,           \* where each processor is
    messageWaiting,
    msg,           \* the message a processor holds, 0 for NULL
    done,          \* the messages each processor has finished, in order
    mRegistered,
    replies        \* what has been written back to the plugin

vars == <<core, wire, hungUp, received, queue, flag, rpc, cpc, handle,
          interrupted, ppc, messageWaiting, msg, done, mRegistered, replies>>

netVars == <<core, wire, hungUp>>
ctorVars == <<cpc, handle>>
stateVars == <<mRegistered, replies>>
procVars == <<ppc, messageWaiting, msg, done>>

Recv == <<"recv", "none">>
Delete == <<"delete", "none">>
Deleted == <<"deleted", "none">>
Constructed == <<"return", "none">>

RPCs == {Recv, Delete, Deleted}
        \union {"signal", "interrupt", "set", "join"} \X Threads

CPCs == ({"create", "store"} \X Threads) \union {Constructed}

PPCs == {"unborn", "check", "wait", "take", "process", "exited"}

Init ==
    /\ core = "up"
    /\ wire \in Scripts
    /\ hungUp = FALSE
    /\ received = <<>>
    /\ queue = [t \in Threads |-> <<>>]
    /\ flag = [t \in Threads |-> FALSE]
    /\ rpc = Recv
    /\ cpc = <<"create", "fast">>
    /\ handle = [t \in Threads |-> FALSE]
    /\ interrupted = [t \in Threads |-> FALSE]
    /\ ppc = [t \in Threads |-> "unborn"]
    /\ messageWaiting = [t \in Threads |-> FALSE]
    /\ msg = [t \in Threads |-> 0]
    /\ done = [t \in Threads |-> <<>>]
    /\ mRegistered = FALSE
    /\ replies = {}

-----------------------------------------------------------------------------
(* The plugin at the other end.                                            *)

(* It closes the socket; what it has sent may arrive or be lost.           *)
HangUp ==
    /\ ~hungUp
    /\ hungUp' = TRUE
    /\ \E n \in 0 .. Len(wire) : wire' = SubSeq(wire, 1, n)
    /\ UNCHANGED <<core, received, queue, flag, rpc, interrupted,
                   ctorVars, procVars, stateVars>>

-----------------------------------------------------------------------------
(* The constructor, after it has started the receiver.                     *)

(* boost::thread(&fastProcessorThread, this): the thread starts running.   *)
CtorCreate(t) ==
    /\ cpc = <<"create", t>>
    /\ cpc' = <<"store", t>>
    /\ ppc' = [ppc EXCEPT ![t] = "check"]
    /\ UNCHANGED <<netVars, received, queue, flag, rpc, handle, interrupted,
                   messageWaiting, msg, done, stateVars>>

(* ... and is then moved into the member.                                  *)
CtorStore(t) ==
    /\ cpc = <<"store", t>>
    /\ handle' = [handle EXCEPT ![t] = TRUE]
    /\ cpc' = IF t = "fast" THEN <<"create", "slow">> ELSE Constructed
    /\ UNCHANGED <<netVars, received, queue, flag, rpc, interrupted,
                   procVars, stateVars>>

-----------------------------------------------------------------------------
(* The receiver thread.                                                    *)

QueueOf(k) == IF k \in SlowKinds THEN "slow" ELSE "fast"

MayRecv == rpc = Recv /\ (ConstructorFirst => cpc = Constructed)

(* Mutant: the position of the message before is queued.                   *)
ReceiveOffByOne ==
    /\ MayRecv
    /\ wire # <<>>
    /\ Head(wire) # "garbled"
    /\ wire' = Tail(wire)
    /\ received' = Append(received, Head(wire))
    /\ LET t == QueueOf(Head(wire)) IN
        /\ queue' = [queue EXCEPT ![t] = Append(@, Len(received))]
        /\ rpc' = <<"signal", t>>
    /\ UNCHANGED <<core, hungUp, flag, interrupted, ctorVars, procVars, stateVars>>

(* A message is parsed and pushed on its queue under the queue's mutex.    *)
Receive ==
    /\ MayRecv
    /\ wire # <<>>
    /\ Head(wire) # "garbled"
    /\ wire' = Tail(wire)
    /\ received' = Append(received, Head(wire))
    /\ LET t == QueueOf(Head(wire)) IN
        /\ queue' = [queue EXCEPT ![t] = Append(@, Len(received) + 1)]
        /\ rpc' = <<"signal", t>>
    /\ UNCHANGED <<core, hungUp, flag, interrupted, ctorVars, procVars, stateVars>>

(* A message that cannot be parsed is answered at once.                    *)
ReceiveGarbled ==
    /\ MayRecv
    /\ wire # <<>>
    /\ Head(wire) = "garbled"
    /\ wire' = Tail(wire)
    /\ replies' = replies \union {"messageParse"}
    /\ UNCHANGED <<core, hungUp, received, queue, flag, rpc, interrupted,
                   ctorVars, procVars, mRegistered>>

(* mEventContinue...Processor.Set() after the push.                        *)
Signal(t) ==
    /\ rpc = <<"signal", t>>
    /\ flag' = [flag EXCEPT ![t] = TRUE]
    /\ rpc' = Recv
    /\ UNCHANGED <<netVars, received, queue, interrupted, ctorVars, procVars, stateVars>>

(* recv returns 0 or fails: the socket is closed and the shutdown begins.  *)
RecvClosed ==
    /\ MayRecv
    /\ hungUp /\ wire = <<>>
    /\ rpc' = <<"interrupt", "fast">>
    /\ UNCHANGED <<netVars, received, queue, flag, interrupted,
                   ctorVars, procVars, stateVars>>

(* interrupt() on a handle that is not set yet does nothing.               *)
Interrupt(t) ==
    /\ rpc = <<"interrupt", t>>
    /\ interrupted' = [interrupted EXCEPT ![t] = handle[t]]
    /\ rpc' = IF t = "fast" THEN <<"interrupt", "slow">> ELSE <<"set", "fast">>
    /\ UNCHANGED <<netVars, received, queue, flag, ctorVars, procVars, stateVars>>

(* Mutant: the processors are interrupted but not woken.                   *)
SetOnShutdownMissing(t) ==
    /\ rpc = <<"set", t>>
    /\ rpc' = IF t = "fast" THEN <<"set", "slow">> ELSE <<"join", "fast">>
    /\ UNCHANGED <<netVars, received, queue, flag, interrupted, ctorVars, procVars,
                   stateVars>>

SetOnShutdown(t) ==
    /\ rpc = <<"set", t>>
    /\ flag' = [flag EXCEPT ![t] = TRUE]
    /\ rpc' = IF t = "fast" THEN <<"set", "slow">> ELSE <<"join", "fast">>
    /\ UNCHANGED <<netVars, received, queue, interrupted, ctorVars, procVars, stateVars>>

(* Mutant: only the fast processor is waited for.                          *)
JoinFastOnly(t) ==
    /\ rpc = <<"join", t>>
    /\ t = "fast" /\ handle[t] => ppc[t] = "exited"
    /\ rpc' = IF t = "fast" THEN <<"join", "slow">> ELSE Delete
    /\ UNCHANGED <<netVars, received, queue, flag, interrupted, ctorVars, procVars,
                   stateVars>>

(* join() waits for the thread; without a handle it returns at once.       *)
Join(t) ==
    /\ rpc = <<"join", t>>
    /\ handle[t] => ppc[t] = "exited"
    /\ rpc' = IF t = "fast" THEN <<"join", "slow">> ELSE Delete
    /\ UNCHANGED <<netVars, received, queue, flag, interrupted, ctorVars, procVars,
                   stateVars>>

DeleteThis ==
    /\ rpc = Delete
    /\ rpc' = Deleted
    /\ UNCHANGED <<netVars, received, queue, flag, interrupted, ctorVars, procVars,
                   stateVars>>

-----------------------------------------------------------------------------
(* The processor threads: one loop, two queues.                            *)

(* The loop's condition and its `if (!messageWaiting)`.                    *)
Check(t) ==
    /\ ppc[t] = "check"
    /\ ppc' = [ppc EXCEPT ![t] = IF interrupted[t] THEN "exited"
                                 ELSE IF messageWaiting[t] THEN "take" ELSE "wait"]
    /\ UNCHANGED <<netVars, received, queue, flag, rpc, interrupted, ctorVars,
                   messageWaiting, msg, done, stateVars>>

(* WaitOne returns once the flag is set, and resets it.                    *)
WaitOne(t) ==
    /\ ppc[t] = "wait"
    /\ flag[t]
    /\ flag' = [flag EXCEPT ![t] = FALSE]
    /\ ppc' = [ppc EXCEPT ![t] = "take"]
    /\ UNCHANGED <<netVars, received, queue, rpc, interrupted, ctorVars,
                   messageWaiting, msg, done, stateVars>>

(* Mutant: the processor does not note that the queue is not empty.        *)
TakeForgetful(t) ==
    /\ ppc[t] = "take"
    /\ IF queue[t] = <<>>
       THEN /\ msg' = [msg EXCEPT ![t] = 0]
            /\ ppc' = [ppc EXCEPT ![t] = "check"]
            /\ UNCHANGED queue
       ELSE /\ msg' = [msg EXCEPT ![t] = Head(queue[t])]
            /\ queue' = [queue EXCEPT ![t] = Tail(@)]
            /\ ppc' = [ppc EXCEPT ![t] = "process"]
    /\ UNCHANGED <<netVars, received, flag, rpc, interrupted, ctorVars,
                   messageWaiting, done, stateVars>>

(* Mutant: the newest message is taken.                                    *)
TakeNewest(t) ==
    /\ ppc[t] = "take"
    /\ IF queue[t] = <<>>
       THEN /\ msg' = [msg EXCEPT ![t] = 0]
            /\ ppc' = [ppc EXCEPT ![t] = "check"]
            /\ UNCHANGED <<queue, messageWaiting>>
       ELSE /\ msg' = [msg EXCEPT ![t] = queue[t][Len(queue[t])]]
            /\ queue' = [queue EXCEPT ![t] = SubSeq(@, 1, Len(@) - 1)]
            /\ messageWaiting' = [messageWaiting EXCEPT ![t] = Len(queue[t]) > 1]
            /\ ppc' = [ppc EXCEPT ![t] = "process"]
    /\ UNCHANGED <<netVars, received, flag, rpc, interrupted, ctorVars, done, stateVars>>

(* Under the queue's mutex: front, pop, and whether more is there.         *)
Take(t) ==
    /\ ppc[t] = "take"
    /\ IF queue[t] = <<>>
       THEN /\ msg' = [msg EXCEPT ![t] = 0]
            /\ ppc' = [ppc EXCEPT ![t] = "check"]
            /\ UNCHANGED <<queue, messageWaiting>>
       ELSE /\ msg' = [msg EXCEPT ![t] = Head(queue[t])]
            /\ queue' = [queue EXCEPT ![t] = Tail(@)]
            /\ messageWaiting' = [messageWaiting EXCEPT ![t] = Len(queue[t]) > 1]
            /\ ppc' = [ppc EXCEPT ![t] = "process"]
    /\ UNCHANGED <<netVars, received, flag, rpc, interrupted, ctorVars, done, stateVars>>

Handling(t, k) ==
    /\ ppc[t] = "process"
    /\ received[msg[t]] = k

(* The handler returns, the message is destroyed and the loop goes round.  *)
Handled(t) ==
    /\ ppc' = [ppc EXCEPT ![t] = "check"]
    /\ done' = [done EXCEPT ![t] = Append(@, msg[t])]
    /\ UNCHANGED <<netVars, received, queue, flag, rpc, interrupted, ctorVars,
                   messageWaiting, msg>>

(* An exception leaves the thread function: std::terminate.                *)
Uncaught ==
    /\ core' = "terminated"
    /\ UNCHANGED <<wire, hungUp, received, queue, flag, rpc, interrupted, ctorVars,
                   procVars, stateVars>>

Reply(r) == replies' = replies \union {r}

(* processRegistrationMessage.  A manifest that does not validate is only  *)
(* logged; registerPlugin may refuse (a name that is taken, the database). *)
ProcessRegistration ==
    /\ Handling("fast", "register")
    /\ Handled("fast")
    /\ \/ UNCHANGED stateVars
       \/ mRegistered' = TRUE /\ Reply("config")
       \/ UNCHANGED mRegistered /\ Reply("fatal")

(* processSubscribeMessage and sendMessageToRouter throw when the plugin   *)
(* is not registered; the exception becomes an error reply.                *)
ProcessGuarded ==
    /\ Handling("fast", "subscribe") \/ Handling("fast", "normal")
    /\ Handled("fast")
    /\ IF mRegistered THEN UNCHANGED replies ELSE Reply("error")
    /\ UNCHANGED mRegistered

(* processConfigMessage: nothing catches what setConfigValue throws (the   *)
(* plugin is not registered, the key is unknown) or a database failure.    *)
(* Global parameters do not go through setConfigValue.                     *)
ProcessConfig ==
    \/ /\ Handling("fast", "globalconfig") \/ (Handling("fast", "config") /\ mRegistered)
       /\ Handled("fast")
       /\ UNCHANGED stateVars
    \/ /\ Handling("fast", "globalconfig") \/ Handling("fast", "config")
       /\ Uncaught

(* processStatusMessage catches the exception and logs it.                 *)
ProcessStatus ==
    /\ Handling("slow", "status")
    /\ Handled("slow")
    /\ UNCHANGED stateVars

(* processEventLogMessage does not.                                        *)
ProcessEventLog ==
    /\ Handling("slow", "eventlog")
    /\ IF mRegistered THEN Handled("slow") /\ UNCHANGED stateVars ELSE Uncaught

-----------------------------------------------------------------------------
Constructor == \E t \in Threads : CtorCreate(t) \/ CtorStore(t)

Receiver ==
    \/ Receive \/ ReceiveGarbled \/ RecvClosed \/ DeleteThis
    \/ \E t \in Threads : Signal(t) \/ Interrupt(t) \/ SetOnShutdown(t) \/ Join(t)

Process(t) ==
    \/ t = "fast" /\ (ProcessRegistration \/ ProcessGuarded \/ ProcessConfig)
    \/ t = "slow" /\ (ProcessStatus \/ ProcessEventLog)

Processor(t) == Check(t) \/ WaitOne(t) \/ Take(t) \/ Process(t)

(* A terminated process and a deleted object take no more steps.           *)
Running == core = "up" /\ rpc # Deleted

Next ==
    /\ Running
    /\ HangUp \/ Constructor \/ Receiver \/ \E t \in Threads : Processor(t)

Spec == Init /\ [][Next]_vars

(* Every thread that can run does.  The plugin need not hang up, and a     *)
(* handler need not return: it writes to the plugin's socket, waits for    *)
(* the database or is held up in the router.                               *)
InHandler(t) == core = "up" /\ ppc[t] = "process"

FairSpec ==
    /\ Spec
    /\ WF_vars(Running /\ Constructor)
    /\ WF_vars(Running /\ Receiver)
    /\ \A t \in Threads : WF_vars(Running /\ ~InHandler(t) /\ Processor(t))

HandlersReturn == \A t \in Threads : []<>~InHandler(t)

-----------------------------------------------------------------------------
TypeOK ==
    /\ core \in {"up", "terminated"}
    /\ wire \in Seq(Kinds)
    /\ hungUp \in BOOLEAN
    /\ received \in Seq(FastKinds \union SlowKinds)
    /\ queue \in [Threads -> Seq(1 .. Len(received))]
    /\ flag \in [Threads -> BOOLEAN]
    /\ rpc \in RPCs
    /\ cpc \in CPCs
    /\ handle \in [Threads -> BOOLEAN]
    /\ interrupted \in [Threads -> BOOLEAN]
    /\ ppc \in [Threads -> PPCs]
    /\ messageWaiting \in [Threads -> BOOLEAN]
    /\ msg \in [Threads -> 0 .. Len(received)]
    /\ done \in [Threads -> Seq(1 .. Len(received))]
    /\ mRegistered \in BOOLEAN
    /\ replies \subseteq {"messageParse", "config", "fatal", "error"}

(* The object is deleted only when its constructor has returned and both   *)
(* processors have left their loops: no thread is left on freed memory.    *)
GracefulExit ==
    rpc = Deleted => /\ cpc = Constructed
                     /\ \A t \in Threads : ppc[t] = "exited"

(* Each processor handles exactly the messages of its queue, none twice,   *)
(* none skipped, in the order the plugin sent them.                        *)
InHand(t) == IF ppc[t] = "process" THEN <<msg[t]>> ELSE <<>>

Line(t) == done[t] \o InHand(t) \o queue[t]

Increasing(s) == \A i, j \in DOMAIN s : i < j => s[i] < s[j]

Elements(s) == {s[i] : i \in DOMAIN s}

HandledInOrder ==
    \A t \in Threads :
        /\ Increasing(Line(t))
        /\ Elements(Line(t)) = {i \in DOMAIN received : QueueOf(received[i]) = t}

(* The inductive invariants: a processor that is handling a message has    *)
(* one, and a thread that has not been created is doing nothing; if the    *)
(* constructor is done before the receiver reads, the joins wait for       *)
(* threads that exist.                                                     *)
ProcInv ==
    /\ \A t \in Threads : ppc[t] = "process" => msg[t] # 0
    /\ cpc = <<"create", "fast">> => ppc["fast"] = "unborn"
    /\ cpc \in {<<"create", "fast">>, <<"store", "fast">>, <<"create", "slow">>}
         => ppc["slow"] = "unborn"

Inv == TypeOK /\ ProcInv /\ HandledInOrder

StopInv ==
    /\ cpc \in {<<"create", "slow">>, <<"store", "slow">>, Constructed} => handle["fast"]
    /\ cpc = Constructed => handle["slow"]
    /\ rpc # Recv => cpc = Constructed
    /\ rpc \in {<<"join", "slow">>, Delete, Deleted} => ppc["fast"] = "exited"
    /\ rpc \in {Delete, Deleted} => ppc["slow"] = "exited"

(* The messages a plugin sends before its registration are not of the kind *)
(* that the core answers with "not registered": ivp_receive sends the      *)
(* registration as soon as it is connected, and only another thread of the *)
(* plugin that sends between these two steps comes before it.              *)
Guarded == {"subscribe", "normal"}

Orderly(s) ==
    \A i, j \in DOMAIN s : i < j /\ s[j] = "register" => s[i] \notin Guarded

RegistersFirst == \A s \in Scripts : Orderly(s)

(* A plugin that sends its registration first and is accepted never gets a *)
(* "not registered" error for anything it sends after it.                  *)
AcceptedMeansServed == mRegistered => "error" \notin replies

(* No wake-up is lost between the receiver's push and Set and the          *)
(* processor's WaitOne and its look at the queue: a processor that sleeps  *)
(* while its queue has a message is woken, or the receiver is about to.    *)
NoLostWakeup ==
    \A t \in Threads :
        ppc[t] = "wait" /\ queue[t] # <<>> => flag[t] \/ rpc = <<"signal", t>>

(* The receiver joins only a processor that has been told to stop and does *)
(* not sleep, so neither waits for the other.                              *)
JoinedIsAwake ==
    \A t \in Threads :
        rpc = <<"join", t>> => interrupted[t] /\ (ppc[t] = "wait" => flag[t])

(* If no handler hangs, a message that has been received is handled,       *)
(* unless the connection or the core goes down first: no wake-up is lost   *)
(* between push, Set, WaitOne and messageWaiting.                          *)
IsHandled(i) == \E t \in Threads : i \in Elements(done[t])

Closing == rpc # Recv /\ rpc[1] # "signal"

ReceivedIsHandled ==
    HandlersReturn =>
        \A i \in 1 .. MaxReceived :
            i <= Len(received) ~> IsHandled(i) \/ Closing \/ core = "terminated"

(* If no handler hangs, a closed connection is taken down to the last      *)
(* thread: the receiver never waits for a processor that sleeps on its     *)
(* event.                                                                  *)
ShutdownCompletes ==
    HandlersReturn => (hungUp ~> rpc = Deleted \/ core = "terminated")

(* What the slow processor's comment says: it does not matter that its     *)
(* messages run ahead of earlier ones.  If handling one brings the core    *)
(* down, then not because an earlier message was still to be handled.      *)
SlowOrderDoesNotMatter ==
    core = "terminated" /\ ppc["slow"] = "process" =>
        \A i \in 1 .. msg["slow"] - 1 : IsHandled(i)
=============================================================================
