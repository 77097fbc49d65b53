---------------------------- MODULE PluginSession ----------------------------
(***************************************************************************)
(* A plugin and the core across connections: the client library IvpPlugin  *)
(* on one side; accept, registration, configuration and destruction of     *)
(* PluginConnection objects on the other.                                  *)
(*                                                                         *)
(* The plugin connects, sends its manifest, and takes the first            *)
(* configuration message it gets for the acceptance.  The core answers     *)
(* from the fast processor; a configuration monitor thread of the same     *)
(* object reads the table every two seconds and writes what has changed to *)
(* the same socket, under no common lock.  When the connection breaks, the *)
(* plugin keeps its values and its filter and connects again, while the    *)
(* core may still be taking the old object down.                           *)
(*                                                                         *)
(* Connections are numbered as they are made, and the plugin uses the last *)
(* one.  `up' holds what the plugin has sent and the fast processor has    *)
(* not taken (socket, framer and queue), `down' what it has not read.      *)
(* Once a connection is cut each side stops reading at a point of its own. *)
(***************************************************************************)
EXTENDS Naturals, Sequences

CONSTANTS
    Keys,          \* the configuration keys of the manifest
    Values,
    Default,       \* the manifest's default of each key
    Filters,       \* the subscriptions the application asks for
    NoFilter,      \* no subscription
    Freed,         \* a pointer to a filter that has been deleted
    NoRow,         \* the table has no such row, the map no such entry
    None,
    MaxConns,      \* how often the plugin connects
    MaxInputs      \* how often values and filters are changed

ASSUME SessionAssumption ==
    /\ Default \in [Keys -> Values]
    /\ NoRow \notin Values
    /\ None \notin [Keys -> Values \union {NoRow}]
    /\ NoFilter \notin Filters
    /\ Freed \notin Filters \union {NoFilter}
    /\ MaxConns \in Nat \ {0}
    /\ MaxInputs \in Nat

Conns == 1 .. MaxConns

Rows == [Keys -> Values \union {NoRow}]

AnyFilter == Filters \union {NoFilter}

Live == {"connected", "registered"}

VARIABLES
    state, config, filter,       \* IvpPlugin: state, config, filter
    rpc, held,                   \* ivp_receive: where it is, the filter it read
    cur,                         \* the plugin's connection, 0 before the first
    cut, up, down,               \* the connections
    table,                       \* pluginConfigurationParameter
    nameHeld,                    \* who has the plugin's name, 0 for nobody
    status, fd,                  \* the object of each connection, its socket
    mRegistered, mConfigValues, sub,
    fpc, copy,                   \* the fast processor in a registration
    snapshot,                    \* what the configuration monitor has read
    wanted,                      \* history: the application's last filter
    dismissed,                   \* history: this connection brought a fatal error
    inputs,                      \* history: changes so far
    calm,                        \* none of three windows is hit, see below
    usable                       \* whether the manifest is valid and not too long

clientVars == <<state, config, filter, rpc, held, cur>>
netVars == <<cut, up, down>>
objVars == <<status, fd, mRegistered, mConfigValues, sub, fpc, copy, snapshot, nameHeld>>
histVars == <<wanted, dismissed, inputs, calm, usable>>
vars == <<clientVars, netVars, objVars, histVars, table>>

(* Three windows let the two sides drift apart.  The plugin's new          *)
(* connection is given the number of a socket that has been closed and     *)
(* whose object still has threads: it stays open for the joins and the     *)
(* database statements of the destructors.  Two are of a few instructions: *)
(* the configuration monitor writes between the copy of the values and the *)
(* reply; the application subscribes between the read of plugin->filter    *)
(* and ivp_subscribe's lock.  A behaviour is calm if none of them is hit.  *)
Init ==
    /\ state = "disconnected"
    /\ config = Default
    /\ filter = NoFilter
    /\ rpc = "connect"
    /\ held = NoFilter
    /\ cur = 0
    /\ cut = [c \in Conns |-> FALSE]
    /\ up = [c \in Conns |-> <<>>]
    /\ down = [c \in Conns |-> <<>>]
    /\ table = [k \in Keys |-> NoRow]
    /\ nameHeld = 0
    /\ status = [c \in Conns |-> "none"]
    /\ fd = [c \in Conns |-> 0]
    /\ mRegistered = [c \in Conns |-> FALSE]
    /\ mConfigValues = [c \in Conns |-> [k \in Keys |-> NoRow]]
    /\ sub = [c \in Conns |-> NoFilter]
    /\ fpc = [c \in Conns |-> "idle"]
    /\ copy = [c \in Conns |-> None]
    /\ snapshot = [c \in Conns |-> None]
    /\ wanted = NoFilter
    /\ dismissed = FALSE
    /\ inputs = 0
    /\ calm \in BOOLEAN
    /\ usable \in BOOLEAN

-----------------------------------------------------------------------------
(* Messages.                                                               *)

RegisterMsg == [type |-> "register"]

SubscribeMsg(f) == [type |-> "subscribe", filter |-> f]

ConfigMsg(v) == [type |-> "config", values |-> v]

(* The code is IvpError_none at both levels.                               *)
Levels == {"fatal", "error"}

ErrorMsg(level) == [type |-> "error", level |-> level]

Partial == UNION {[K -> Values] : K \in SUBSET Keys}

UpMsgs == {RegisterMsg} \union {SubscribeMsg(f) : f \in AnyFilter}
          \union {ConfigMsg(v) : v \in Partial}

DownMsgs == {ErrorMsg(l) : l \in Levels} \union {ConfigMsg(v) : v \in Partial}

-----------------------------------------------------------------------------
(* The client library.                                                     *)

(* ivp_broadcastMessage: nothing unless connected; a send on a connection  *)
(* that is cut may fail, or succeed and be lost.                           *)
Broadcast(m) ==
    \/ /\ state \notin Live
       /\ UNCHANGED <<state, up>>
    \/ /\ state \in Live /\ ~cut[cur]
       /\ up' = [up EXCEPT ![cur] = Append(@, m)]
       /\ UNCHANGED state
    \/ /\ state \in Live /\ cut[cur]
       /\ state' \in {state, "disconnected"}
       /\ UNCHANGED up

(* socket and connect: the kernel completes it; the core has yet to accept.*)
Connect ==
    /\ rpc = "connect"
    /\ cur < MaxConns
    /\ cur' = cur + 1
    /\ state' = "connected"
    /\ rpc' = "register"
    /\ status' = [status EXCEPT ![cur + 1] = "backlog"]
    /\ dismissed' = FALSE
    /\ UNCHANGED <<config, filter, held, netVars, fd, mRegistered, mConfigValues, sub, fpc,
                   copy, snapshot, nameHeld, wanted, inputs, calm, usable, table>>

SendManifest ==
    /\ rpc = "register"
    /\ Broadcast(RegisterMsg)
    /\ rpc' = "recv"
    /\ UNCHANGED <<config, filter, held, cur, cut, down, objVars, histVars, table>>

TakeDown(type) ==
    /\ rpc = "recv"
    /\ down[cur] # <<>>
    /\ Head(down[cur]).type = type
    /\ down' = [down EXCEPT ![cur] = Tail(@)]

(* ivp_onError returns at once when the code is IvpError_none, also if the *)
(* level is fatal: the plugin stays connected.                             *)
OnError ==
    /\ TakeDown("error")
    /\ dismissed' = (dismissed \/ Head(down[cur]).level = "fatal")
    /\ UNCHANGED <<clientVars, cut, up, objVars, wanted, inputs, calm, usable, table>>

(* ivp_updateValueInCollection for every item.                             *)
Updated(values, new) ==
    [k \in Keys |-> IF k \in DOMAIN new THEN new[k] ELSE values[k]]

(* The values are taken under the lock, the state is looked at after it.   *)
OnConfig ==
    /\ TakeDown("config")
    /\ config' = Updated(config, Head(down[cur]).values)
    /\ rpc' = IF state = "connected" THEN "promote" ELSE "recv"
    /\ UNCHANGED <<state, filter, held, cur, cut, up, objVars, histVars, table>>

(* ... and set without it: a state that a failed send has set meanwhile is *)
(* overwritten.  plugin->filter is read as the argument of ivp_subscribe.  *)
Promote ==
    /\ rpc = "promote"
    /\ state' = "registered"
    /\ held' = filter
    /\ rpc' = "resubscribe"
    /\ UNCHANGED <<config, filter, cur, netVars, objVars, histVars, table>>

(* Mutant: no message when the filter is the one that is stored.           *)
ResubscribeIfChanged ==
    /\ rpc = "resubscribe"
    /\ filter' = filter
    /\ IF held = filter THEN UNCHANGED <<state, up>>
       ELSE Broadcast(SubscribeMsg(filter))
    /\ rpc' = "recv"
    /\ held' = NoFilter
    /\ UNCHANGED <<config, cur, cut, down, objVars, histVars, table>>

(* ivp_subscribe(plugin, filter) under the lock.  The application's filter *)
(* may have replaced the one that was read: NULL then deletes it, a freed  *)
(* one is duplicated, with whatever is in its memory.                      *)
Resubscribe ==
    /\ rpc = "resubscribe"
    /\ filter' \in CASE held = Freed -> AnyFilter
                     [] held = NoFilter -> {NoFilter}
                     [] OTHER -> {filter}
    /\ Broadcast(SubscribeMsg(filter'))
    /\ rpc' = "recv"
    /\ held' = NoFilter
    /\ UNCHANGED <<config, cur, cut, down, objVars, histVars, table>>

(* recv returns 0 or an error, or the loop sees that a send has failed:    *)
(* the socket is closed and the outer loop connects again.                 *)
Leave ==
    /\ rpc = "recv"
    /\ cut[cur] \/ state = "disconnected"
    /\ state' = "disconnected"
    /\ rpc' = "connect"
    /\ cut' = [cut EXCEPT ![cur] = TRUE]
    /\ down' = [down EXCEPT ![cur] = <<>>]
    /\ UNCHANGED <<config, filter, held, cur, up, objVars, histVars, table>>

Receive == Connect \/ SendManifest \/ OnError \/ OnConfig \/ Promote \/ Resubscribe \/ Leave

(* The application's own thread: ivp_subscribe, under the lock.            *)
Subscribe(f) ==
    /\ inputs < MaxInputs
    /\ ~(calm /\ rpc = "resubscribe")
    /\ inputs' = inputs + 1
    /\ wanted' = f
    /\ filter' = f
    /\ held' = IF rpc = "resubscribe" /\ held # NoFilter THEN Freed ELSE held
    /\ Broadcast(SubscribeMsg(f))
    /\ UNCHANGED <<config, rpc, cur, cut, down, objVars, dismissed, calm,
                   usable, table>>

(* ivp_setConfigurationValue saves nothing locally.                        *)
SetConfigurationValue(k, v) ==
    /\ inputs < MaxInputs
    /\ state \in Live
    /\ inputs' = inputs + 1
    /\ Broadcast(ConfigMsg([i \in {k} |-> v]))
    /\ UNCHANGED <<config, filter, rpc, held, cur, cut, down, objVars, wanted,
                   dismissed, calm, usable, table>>

-----------------------------------------------------------------------------
(* The core's objects.                                                     *)

BeingDestroyed(c) == status[c] \in {"closed", "erased"}

(* A descriptor that no open connection has: a number that has been used   *)
(* and closed, or another one.                                             *)
FreeFds(c) == {n \in 1 .. c : \A d \in Conns : status[d] = "open" => fd[d] # n}

(* PluginServer accepts, in the order of the connects, and constructs a    *)
(* PluginConnection.                                                       *)
Accept(c) ==
    /\ status[c] = "backlog"
    /\ \A d \in 1 .. c - 1 : status[d] # "backlog"
    /\ status' = [status EXCEPT ![c] = "open"]
    /\ \E n \in FreeFds(c) :
        /\ calm => ~\E d \in Conns : BeingDestroyed(d) /\ fd[d] = n
        /\ fd' = [fd EXCEPT ![c] = n]
    /\ UNCHANGED <<clientVars, netVars, mRegistered, mConfigValues, sub, fpc, copy,
                   snapshot, nameHeld, histVars, table>>

(* onMessageReceived writes to the number in mSocket, whoever has it now.  *)
Write(c, m) ==
    down' = [d \in Conns |->
               IF status[d] = "open" /\ fd[d] = fd[c] /\ ~cut[d]
               THEN Append(down[d], m) ELSE down[d]]

TakeUp(c, type) ==
    /\ status[c] = "open"
    /\ fpc[c] = "idle"
    /\ up[c] # <<>>
    /\ Head(up[c]).type = type
    /\ up' = [up EXCEPT ![c] = Tail(@)]

(* Mutant: the parameters are read without having been initialised.        *)
NotInitialized(t) == t

(* initializePluginConfigParameters: rows that are missing get the default,*)
(* rows that are there keep their value.                                   *)
Initialized(t) == [k \in Keys |-> IF t[k] = NoRow THEN Default[k] ELSE t[k]]

(* registerPlugin succeeds.  Reading the table and publishing the values   *)
(* is one step: a change in between is to the monitor one after it.        *)
Register(c) ==
    /\ TakeUp(c, "register")
    /\ usable
    /\ nameHeld = 0
    /\ nameHeld' = c
    /\ table' = Initialized(table)
    /\ mConfigValues' = [mConfigValues EXCEPT ![c] = table']
    /\ mRegistered' = [mRegistered EXCEPT ![c] = TRUE]
    /\ fpc' = [fpc EXCEPT ![c] = "copy"]
    /\ UNCHANGED <<clientVars, cut, down, status, fd, sub, copy, snapshot, histVars>>

(* Mutant: a plugin whose name is taken is not told.                       *)
RefuseSilently(c) ==
    /\ TakeUp(c, "register")
    /\ usable
    /\ nameHeld' = IF nameHeld = 0 THEN c ELSE nameHeld
    /\ UNCHANGED <<clientVars, cut, down, status, fd, mRegistered, mConfigValues, sub,
                   fpc, copy, snapshot, histVars, table>>

(* The name is taken, or the database fails after the name was reserved.   *)
Refuse(c) ==
    /\ TakeUp(c, "register")
    /\ usable
    /\ nameHeld' = IF nameHeld = 0 THEN c ELSE nameHeld
    /\ Write(c, ErrorMsg("fatal"))
    /\ UNCHANGED <<clientVars, cut, status, fd, mRegistered, mConfigValues, sub, fpc,
                   copy, snapshot, histVars, table>>

(* A manifest that cannot be parsed or validated is logged, and one that   *)
(* does not fit the framer's buffer is dropped; the plugin hears nothing.  *)
IgnoreManifest(c) ==
    /\ TakeUp(c, "register")
    /\ ~usable
    /\ UNCHANGED <<clientVars, cut, down, objVars, histVars, table>>

(* getAllConfigValues, under mConfigValueLock.                             *)
CopyValues(c) ==
    /\ fpc[c] = "copy"
    /\ copy' = [copy EXCEPT ![c] = mConfigValues[c]]
    /\ fpc' = [fpc EXCEPT ![c] = "reply"]
    /\ UNCHANGED <<clientVars, netVars, status, fd, mRegistered, mConfigValues, sub,
                   snapshot, nameHeld, histVars, table>>

Only(K, v) == [k \in K |-> v[k]]

(* Mutant: the reply carries no values.                                    *)
NothingSet(v) == {}

(* The reply leaves out the values that are the default.                   *)
NotDefault(v) == {k \in Keys : v[k] \notin {Default[k], NoRow}}

(* The reply to the registration.                                          *)
SendReply(c) ==
    /\ fpc[c] = "reply"
    /\ Write(c, ConfigMsg(Only(NotDefault(copy[c]), copy[c])))
    /\ fpc' = [fpc EXCEPT ![c] = "idle"]
    /\ copy' = [copy EXCEPT ![c] = None]
    /\ UNCHANGED <<clientVars, cut, up, status, fd, mRegistered, mConfigValues, sub,
                   snapshot, nameHeld, histVars, table>>

(* subscribeForMessages, or an error when it is not registered.            *)
ProcessSubscribe(c) ==
    /\ TakeUp(c, "subscribe")
    /\ IF mRegistered[c]
       THEN sub' = [sub EXCEPT ![c] = Head(up[c]).filter] /\ UNCHANGED down
       ELSE Write(c, ErrorMsg("error")) /\ UNCHANGED sub
    /\ UNCHANGED <<clientVars, cut, status, fd, mRegistered, mConfigValues, fpc, copy,
                   snapshot, nameHeld, histVars, table>>

(* setConfigValue updates the row and not the map; when the statement      *)
(* fails the value is lost.                                                *)
ProcessConfig(c) ==
    /\ TakeUp(c, "config")
    /\ mRegistered[c]
    /\ table' \in {table, Updated(table, Head(up[c]).values)}
    /\ UNCHANGED <<clientVars, cut, down, objVars, histVars>>

(* Mutant: the monitor does not look at mRegistered.                       *)
MayPollAlways(c) == snapshot[c] = None /\ status[c] \in {"open", "closed", "erased"}

(* The monitor has slept and sees mRegistered.                             *)
MayPoll(c) ==
    /\ snapshot[c] = None
    /\ status[c] \in {"open", "closed", "erased"}
    /\ mRegistered[c]

(* What is new in the table's rows t: a changed value, a row the map lacks;*)
(* an entry whose row has gone is passed over.                             *)
New(c, t) == {k \in Keys : t[k] \notin {NoRow, mConfigValues[c][k]}}

(* getPluginConfigParameters, before the lock.  A pass that finds nothing  *)
(* new has no effect and is left out.                                      *)
ReadTable(c) ==
    /\ MayPoll(c)
    /\ New(c, table) # {}
    /\ snapshot' = [snapshot EXCEPT ![c] = table]
    /\ UNCHANGED <<clientVars, netVars, status, fd, mRegistered, mConfigValues, sub, fpc,
                   copy, nameHeld, histVars, table>>

(* Mutant: the plugin is told of the change, the map is left as it was.    *)
KeepValues(old, new) == old

Merge(old, new) == Updated(old, new)

(* Under the lock: the map takes what has changed and the plugin is told,  *)
(* by PluginConnection::onConfigChanged as long as there is one: in        *)
(* ~Plugin the call goes to the empty function of the base class.  It is   *)
(* told of each key by a message of its own, here by one for all.          *)
ApplyChanges(c) ==
    /\ snapshot[c] # None
    /\ ~(calm /\ fpc[c] = "reply")
    /\ LET new == Only(New(c, snapshot[c]), snapshot[c]) IN
        /\ mConfigValues' = [mConfigValues EXCEPT ![c] = Merge(@, new)]
        /\ \/ Write(c, ConfigMsg(new))
           \/ status[c] = "erased" /\ UNCHANGED down
    /\ snapshot' = [snapshot EXCEPT ![c] = None]
    /\ UNCHANGED <<clientVars, cut, up, status, fd, mRegistered, sub, fpc, copy,
                   nameHeld, histVars, table>>

(* The receiver sees that the connection is closed and closes its socket;  *)
(* messages still in the queue are not handled any more.                   *)
CloseSocket(c) ==
    /\ status[c] = "open"
    /\ cut[c]
    /\ status' = [status EXCEPT ![c] = "closed"]
    /\ up' = [up EXCEPT ![c] = <<>>]
    /\ UNCHANGED <<clientVars, cut, down, fd, mRegistered, mConfigValues, sub, fpc, copy,
                   snapshot, nameHeld, histVars, table>>

(* The processors have been joined; ~Plugin gives the name of mInfo back,  *)
(* which is empty if registerPlugin did not get that far.                  *)
EraseName(c) ==
    /\ status[c] = "closed"
    /\ fpc[c] = "idle"
    /\ status' = [status EXCEPT ![c] = "erased"]
    /\ nameHeld' = IF mRegistered[c] THEN 0 ELSE nameHeld
    /\ UNCHANGED <<clientVars, netVars, fd, mRegistered, mConfigValues, sub, fpc, copy,
                   snapshot, histVars, table>>

(* The monitor, which can be interrupted only in its sleep, is joined, and *)
(* the subscriptions are withdrawn.                                        *)
Destroy(c) ==
    /\ status[c] = "erased"
    /\ snapshot[c] = None
    /\ status' = [status EXCEPT ![c] = "gone"]
    /\ mRegistered' = [mRegistered EXCEPT ![c] = FALSE]
    /\ mConfigValues' = [mConfigValues EXCEPT ![c] = [k \in Keys |-> NoRow]]
    /\ sub' = [sub EXCEPT ![c] = NoFilter]
    /\ fd' = [fd EXCEPT ![c] = 0]
    /\ UNCHANGED <<clientVars, netVars, fpc, copy, snapshot, nameHeld, histVars, table>>

(* The core dies and is started again: by an exception that nobody catches *)
(* (a configuration message before the registration), or for any reason.   *)
CoreDies ==
    /\ \E c \in Conns : status[c] \notin {"none", "gone"}
    /\ status' = [c \in Conns |-> IF status[c] = "none" THEN "none" ELSE "gone"]
    /\ cut' = [c \in Conns |-> status[c] # "none"]
    /\ fd' = [c \in Conns |-> 0]
    /\ up' = [c \in Conns |-> <<>>]
    /\ mRegistered' = [c \in Conns |-> FALSE]
    /\ mConfigValues' = [c \in Conns |-> [k \in Keys |-> NoRow]]
    /\ sub' = [c \in Conns |-> NoFilter]
    /\ fpc' = [c \in Conns |-> "idle"]
    /\ copy' = [c \in Conns |-> None]
    /\ snapshot' = [c \in Conns |-> None]
    /\ nameHeld' = 0
    /\ UNCHANGED <<clientVars, down, histVars, table>>

UncaughtNotRegistered(c) ==
    /\ status[c] = "open" /\ fpc[c] = "idle"
    /\ up[c] # <<>> /\ Head(up[c]).type = "config"
    /\ ~mRegistered[c]
    /\ CoreDies

FastProcessor(c) ==
    \/ Register(c) \/ Refuse(c) \/ IgnoreManifest(c) \/ CopyValues(c) \/ SendReply(c)
    \/ ProcessSubscribe(c) \/ ProcessConfig(c) \/ UncaughtNotRegistered(c)

ConfigMonitor(c) == ReadTable(c) \/ ApplyChanges(c)

TakeDownObject(c) == CloseSocket(c) \/ EraseName(c) \/ Destroy(c)

-----------------------------------------------------------------------------
(* The rest of the world.                                                  *)

(* The network, or the peer's machine, drops the connection.               *)
Break ==
    /\ cur # 0
    /\ ~cut[cur]
    /\ cut' = [cut EXCEPT ![cur] = TRUE]
    /\ UNCHANGED <<clientVars, up, down, objVars, histVars, table>>

(* The administrator changes a value in the table.                         *)
ChangeRow(k, v) ==
    /\ inputs < MaxInputs
    /\ table[k] \notin {NoRow, v}
    /\ inputs' = inputs + 1
    /\ table' = [table EXCEPT ![k] = v]
    /\ UNCHANGED <<clientVars, netVars, objVars, wanted, dismissed, calm, usable>>

Application ==
    \/ \E f \in Filters : Subscribe(f)
    \/ \E k \in Keys, v \in Values : SetConfigurationValue(k, v)

Next ==
    \/ Receive \/ Application \/ CoreDies \/ Break
    \/ \E c \in Conns : Accept(c) \/ FastProcessor(c) \/ ConfigMonitor(c) \/ TakeDownObject(c)
    \/ \E k \in Keys, v \in Values : ChangeRow(k, v)

Spec == Init /\ [][Next]_vars

(* Every thread runs and a broken connection is noticed at both ends.  The *)
(* writes and the database statements inside the steps are taken to return:*)
(* what a peer that does not read does is in PluginConnection.             *)
FairSpec ==
    /\ Spec
    /\ WF_vars(Receive)
    /\ WF_vars(\E c \in Conns : Accept(c))
    /\ \A c \in Conns :
        /\ WF_vars(FastProcessor(c))
        /\ WF_vars(ConfigMonitor(c))
        /\ WF_vars(TakeDownObject(c))

-----------------------------------------------------------------------------
TypeOK ==
    /\ state \in Live \union {"disconnected"}
    /\ config \in [Keys -> Values]
    /\ filter \in AnyFilter
    /\ rpc \in {"connect", "register", "recv", "promote", "resubscribe"}
    /\ held \in AnyFilter \union {Freed}
    /\ cur \in 0 .. MaxConns
    /\ cur = 0 => rpc = "connect" /\ state = "disconnected"
    /\ cut \in [Conns -> BOOLEAN]
    /\ up \in [Conns -> Seq(UpMsgs)]
    /\ down \in [Conns -> Seq(DownMsgs)]
    /\ table \in Rows
    /\ nameHeld \in 0 .. MaxConns
    /\ status \in [Conns -> {"none", "backlog", "open", "closed", "erased", "gone"}]
    /\ fd \in [Conns -> 0 .. MaxConns]
    /\ mRegistered \in [Conns -> BOOLEAN]
    /\ mConfigValues \in [Conns -> Rows]
    /\ sub \in [Conns -> AnyFilter]
    /\ fpc \in [Conns -> {"idle", "copy", "reply"}]
    /\ copy \in [Conns -> Rows \union {None}]
    /\ snapshot \in [Conns -> Rows \union {None}]
    /\ wanted \in AnyFilter
    /\ dismissed \in BOOLEAN
    /\ inputs \in 0 .. MaxInputs
    /\ calm \in BOOLEAN
    /\ usable \in BOOLEAN
    /\ \A c \in Conns : mRegistered[c] => mConfigValues[c] \in [Keys -> Values]

(* A plugin that takes itself for registered is registered on the          *)
(* connection it has, unless that is broken already: the configuration     *)
(* message it goes by comes from this registration, not from a thread of   *)
(* an object that is being destroyed, across reconnections, refusals and   *)
(* restarts of the core.                                                   *)
RegisteredMeansServedIfCalm ==
    calm /\ state = "registered" /\ ~cut[cur] => mRegistered[cur]

(* What a map has for a key, and what the filter is, once the messages of  *)
(* a queue have been read: the last message that sets it counts, or what   *)
(* there was.                                                              *)
Sets(m, k) == m.type = "config" /\ k \in DOMAIN m.values

EndsAs(q, k, old, v) ==
    \/ (\A i \in DOMAIN q : ~Sets(q[i], k)) /\ old = v
    \/ \E i \in DOMAIN q : /\ Sets(q[i], k) /\ q[i].values[k] = v
                            /\ \A j \in DOMAIN q : j > i => ~Sets(q[j], k)

EndsWith(q, old, f) ==
    \/ (\A i \in DOMAIN q : q[i].type # "subscribe") /\ old = f
    \/ \E i \in DOMAIN q : /\ q[i].type = "subscribe" /\ q[i].filter = f
                            /\ \A j \in DOMAIN q : j > i => q[j].type # "subscribe"

PluginIsTold ==
    calm /\ cur # 0 /\ ~cut[cur] /\ mRegistered[cur] /\ fpc[cur] = "idle" =>
        \A k \in Keys :
            \/ mConfigValues[cur][k] = Default[k]
            \/ EndsAs(down[cur], k, config[k], mConfigValues[cur][k])

CoreIsTold ==
    calm /\ cur # 0 /\ ~cut[cur] /\ state = "registered" /\ rpc = "recv" =>
        EndsWith(up[cur], sub[cur], wanted)

(* Nothing gets lost or overtaken between the two ends of a connection.    *)
(* Once the plugin has read what its connection holds, it has every value  *)
(* of the core's map, whether the reply to its registration or the         *)
(* configuration monitor has written it, and whatever it had kept from     *)
(* earlier connections (a value that is the default need not have been     *)
(* told).  Once the core has read what the plugin sent, it has the filter  *)
(* that the application asked for last, whichever thread has sent it.      *)
ToldIfCalm == PluginIsTold /\ CoreIsTold

(* A plugin with a usable manifest is answered on every connection that    *)
(* lasts: it does not stay connected without the configuration that makes  *)
(* it registered or the fatal error that refuses it.  What it does not do  *)
(* is act on the error: it stays connected, to a core that ignores it,     *)
(* until something else breaks the connection.                             *)
AnsweredIfUsable == []<>(usable => state # "connected" \/ dismissed)

(* The core's copy of the values catches up with the table, whatever the   *)
(* monitor had read when the table changed.                                *)
ValuesCatchUp ==
    \A c \in Conns :
        []<>(~mRegistered[c] \/ status[c] # "open" \/ mConfigValues[c] = table)

(* A plugin that stays registered does not stay without the table's value  *)
(* of a key whose value is not the default, however the changes fell       *)
(* between the connections, the registration's reply and the monitor's     *)
(* notifications.                                                          *)
UpToDate == \A k \in Keys : table[k] = Default[k] \/ config[k] = table[k]

ConfigArrivesIfCalm == []<>(calm => state # "registered" \/ UpToDate)

(* The router does not stay without the filter of a plugin that stays      *)
(* registered, and in a calm behaviour that is the one the application     *)
(* asked for last, before the registration, during it or between           *)
(* connections.                                                            *)
Subscribed == sub[cur] = filter /\ (calm => filter = wanted)

SubscriptionFollows ==
    []<>(state = "registered" /\ mRegistered[cur] => Subscribed)
=============================================================================
