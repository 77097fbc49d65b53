------------------------ MODULE PluginSessionProofs -------------------------
(***************************************************************************)
(* For every manifest, every set of filters and any number of connections, *)
(* a plugin that takes itself for registered is, in calm behaviours, and   *)
(* what the core believes to have told it has reached it or is on its way. *)
(*                                                                         *)
(* The argument follows the configuration message back to its writer: a    *)
(* thread of an object that has registered, which writes to its own        *)
(* connection because a closed socket's number is not given out again      *)
(* while threads of its object are left, and which goes back to being not  *)
(* registered only after the connection has been cut.  That makes the      *)
(* messages of a connection those of one object, in the order in which it  *)
(* changed its map.                                                        *)
(***************************************************************************)
EXTENDS PluginSession, TLAPS

(* Time for the leaves that name no prover.                                *)
USE ZenonT(30)

(* An object that is being destroyed, or has been, has lost its            *)
(* connection, and connections that are to come have no object.            *)
Objects ==
    /\ \A c \in Conns : c > cur <=> status[c] = "none"
    /\ \A c \in Conns : status[c] = "none" => down[c] = <<>> /\ ~cut[c]
    /\ \A c \in Conns : status[c] \in {"closed", "erased", "gone"} => cut[c]

(* Only the threads of a registered object are in the middle of a reply or *)
(* of a pass of the monitor; the copy a calm reply is made from is not     *)
(* outdated.                                                               *)
Threads ==
    \A c \in Conns :
        /\ mRegistered[c] => status[c] \in {"open", "closed", "erased"}
        /\ fpc[c] # "idle" => mRegistered[c] /\ status[c] \in {"open", "closed"}
        /\ snapshot[c] # None => mRegistered[c]
        /\ fpc[c] = "reply" => /\ copy[c] \in Rows
                               /\ calm => copy[c] = mConfigValues[c]

(* Descriptors are shared by no two open connections, and in calm          *)
(* behaviours by no open one and one whose object still has threads.       *)
Sockets ==
    \A c, d \in Conns :
        status[c] = "open" /\ c # d /\ fd[c] = fd[d] =>
            status[d] # "open" /\ (calm => ~BeingDestroyed(d))

(* Who is told of a registration has one.                                  *)
Told(c) == \E i \in DOMAIN down[c] : down[c][i].type = "config"

Served ==
    calm => /\ \A c \in Conns : Told(c) /\ ~cut[c] => mRegistered[c]
            /\ (rpc = "promote" \/ state = "registered") /\ ~cut[cur] => mRegistered[cur]

Inv == TypeOK /\ Objects /\ Threads /\ Sockets /\ Served

-----------------------------------------------------------------------------
(* What the messages carry.                                                *)

(* Some of the values of a map are a payload.                              *)
LEMMA OnlyIsPartial ==
    ASSUME NEW K \in SUBSET Keys, NEW v, \A k \in K : v[k] \in Values
    PROVE Only(K, v) \in Partial
<1>1. Only(K, v) \in [K -> Values]
    BY DEF Only
<1> QED BY <1>1 DEF Partial

(* A configuration message has a payload.                                  *)
LEMMA ConfigHasValues ==
    ASSUME NEW m \in UpMsgs \union DownMsgs, m.type = "config"
    PROVE m.values \in Partial
<1>1. m # RegisterMsg /\ \A l : m # ErrorMsg(l)
    BY SMTT(30) DEF RegisterMsg, ErrorMsg
<1>2. \A f : m # SubscribeMsg(f)
    BY SMTT(30) DEF SubscribeMsg
<1>3. PICK v \in Partial : m = ConfigMsg(v)
    BY <1>1, <1>2 DEF UpMsgs, DownMsgs
<1> QED BY <1>3 DEF ConfigMsg

(* What a subscription carries.                                            *)
LEMMA SubscribeHasFilter ==
    ASSUME NEW m \in UpMsgs, m.type = "subscribe"
    PROVE m.filter \in AnyFilter
<1>1. m # RegisterMsg
    BY SMTT(30) DEF RegisterMsg
<1>2. \A v : m # ConfigMsg(v)
    BY SMTT(30) DEF ConfigMsg
<1>3. PICK f \in AnyFilter : m = SubscribeMsg(f)
    BY <1>1, <1>2 DEF UpMsgs
<1> QED BY <1>3 DEF SubscribeMsg

(* Taking values over keeps the type of the map.                           *)
LEMMA UpdatedHasType ==
    ASSUME NEW S, Values \subseteq S, NEW v \in [Keys -> S], NEW p \in Partial
    PROVE Updated(v, p) \in [Keys -> S]
<1>1. PICK K \in SUBSET Keys : p \in [K -> Values]
    BY DEF Partial
<1>2. ASSUME NEW k \in Keys
      PROVE (IF k \in DOMAIN p THEN p[k] ELSE v[k]) \in S
    BY <1>1
<1> QED BY <1>2 DEF Updated

-----------------------------------------------------------------------------
(* The three ways messages move.                                           *)

(* ivp_broadcastMessage adds to `up' and can only leave the live states.   *)
LEMMA BroadcastMoves ==
    ASSUME TypeOK, NEW m \in UpMsgs, Broadcast(m)
    PROVE /\ up' \in [Conns -> Seq(UpMsgs)]
          /\ state' \in {state, "disconnected"}
          /\ state' \in Live \union {"disconnected"}
<1>1. state \in Live => cur \in Conns
    BY SessionAssumption, SMTT(30) DEF TypeOK, Live, Conns
<1>2. CASE state \in Live /\ ~cut[cur]
    <2>1. up' = [up EXCEPT ![cur] = Append(@, m)] /\ state' = state
        BY <1>2 DEF Broadcast
    <2>2. up[cur] \in Seq(UpMsgs)
        BY <1>1, <1>2 DEF TypeOK
    <2>3. Append(up[cur], m) \in Seq(UpMsgs)
        BY <2>2, SMTT(30)
    <2> QED BY <2>1, <2>3 DEF TypeOK
<1>3. CASE ~(state \in Live /\ ~cut[cur])
    BY <1>3 DEF Broadcast, TypeOK
<1> QED BY <1>2, <1>3

(* onMessageReceived reaches open connections with the writer's number.    *)
LEMMA WriteMoves ==
    ASSUME TypeOK, NEW c \in Conns, NEW m \in DownMsgs, Write(c, m)
    PROVE /\ down' \in [Conns -> Seq(DownMsgs)]
          /\ \A d \in Conns : status[d] = "none" => down'[d] = down[d]
          /\ \A d \in Conns :
                Told(d)' => \/ Told(d)
                            \/ /\ m.type = "config"
                               /\ status[d] = "open" /\ fd[d] = fd[c]
<1>1. ASSUME NEW d \in Conns
      PROVE /\ down'[d] \in Seq(DownMsgs)
            /\ Told(d)' => \/ Told(d)
                           \/ m.type = "config" /\ status[d] = "open" /\ fd[d] = fd[c]
    <2>0. down[d] \in Seq(DownMsgs)
        BY DEF TypeOK
    <2>1. CASE status[d] = "open" /\ fd[d] = fd[c] /\ ~cut[d]
        <3>1. down'[d] = Append(down[d], m)
            BY <2>1 DEF Write
        <3>2. \A i \in DOMAIN down'[d] :
                (i \in DOMAIN down[d] /\ down'[d][i] = down[d][i]) \/ down'[d][i] = m
            BY <2>0, <3>1, SMTT(30)
        <3> QED BY <2>0, <2>1, <3>1, <3>2, SMTT(30) DEF Told
    <2>2. CASE ~(status[d] = "open" /\ fd[d] = fd[c] /\ ~cut[d])
        <3>1. down'[d] = down[d]
            BY <2>2 DEF Write
        <3> QED BY <2>0, <3>1 DEF Told
    <2> QED BY <2>1, <2>2
<1>2. down' = [d \in Conns |-> down'[d]]
    BY DEF Write
<1>3. \A d \in Conns : status[d] = "none" => down'[d] = down[d]
    BY DEF Write
<1> QED BY <1>1, <1>2, <1>3

(* Reading a message off `down' tells nobody anything new.                 *)
LEMMA TakeDownMoves ==
    ASSUME TypeOK, Objects, NEW t, TakeDown(t)
    PROVE /\ cur \in Conns
          /\ down' \in [Conns -> Seq(DownMsgs)]
          /\ Head(down[cur]) \in DownMsgs
          /\ t = "config" => Told(cur)
          /\ \A d \in Conns : /\ Told(d)' => Told(d)
                              /\ status[d] = "none" => down'[d] = <<>>
<1>1. cur \in Conns
    BY SessionAssumption, SMTT(30) DEF TypeOK, TakeDown, Conns
<1>2. down[cur] \in Seq(DownMsgs) /\ down[cur] # <<>>
    BY <1>1 DEF TypeOK, TakeDown
<1>3. /\ Tail(down[cur]) \in Seq(DownMsgs)
      /\ Head(down[cur]) = down[cur][1] /\ 1 \in DOMAIN down[cur]
      /\ Head(down[cur]) \in DownMsgs
      /\ \A i \in DOMAIN Tail(down[cur]) :
            i + 1 \in DOMAIN down[cur] /\ Tail(down[cur])[i] = down[cur][i + 1]
    BY <1>2, SMTT(30)
<1>4. /\ down' \in [Conns -> Seq(DownMsgs)]
      /\ down'[cur] = Tail(down[cur])
      /\ \A d \in Conns \ {cur} : down'[d] = down[d]
    BY <1>1, <1>3 DEF TypeOK, TakeDown
<1>5. ASSUME NEW d \in Conns, Told(d)'
      PROVE Told(d)
    <2>1. PICK i \in DOMAIN down'[d] : down'[d][i].type = "config"
        BY <1>5 DEF Told
    <2>2. CASE d = cur
        <3>1. i + 1 \in DOMAIN down[d] /\ down[d][i + 1].type = "config"
            BY <1>3, <1>4, <2>1, <2>2
        <3> QED BY <3>1 DEF Told
    <2>3. CASE d # cur
        BY <1>4, <2>1, <2>3 DEF Told
    <2> QED BY <2>2, <2>3
<1>6. status[cur] # "none"
    BY <1>1, <1>2 DEF Objects
<1> QED BY <1>1, <1>3, <1>4, <1>5, <1>6 DEF TakeDown, Told, Objects

(* The fast processor takes the first message of an open connection.       *)
LEMMA TakeUpMoves ==
    ASSUME TypeOK, NEW c \in Conns, NEW t, TakeUp(c, t)
    PROVE /\ up' \in [Conns -> Seq(UpMsgs)]
          /\ Head(up[c]) \in UpMsgs
<1>1. up[c] \in Seq(UpMsgs) /\ up[c] # <<>>
    BY DEF TypeOK, TakeUp
<1>2. Tail(up[c]) \in Seq(UpMsgs) /\ Head(up[c]) \in UpMsgs
    BY <1>1, SMTT(30)
<1> QED BY <1>2 DEF TypeOK, TakeUp
-----------------------------------------------------------------------------
(* The plugin's threads.                                                   *)

(* A step that moves no message down, cuts nothing and leaves the core's   *)
(* objects alone keeps what is said of them.                               *)
LEMMA ObjectsApart ==
    ASSUME Inv, UNCHANGED <<cur, cut, down, objVars, calm>>
    PROVE /\ Objects' /\ Threads' /\ Sockets'
          /\ \A c \in Conns : Told(c)' <=> Told(c)
<1> USE DEF Inv, objVars
<1>1. Objects'
    BY DEF Objects
<1>2. Threads'
    BY DEF Threads
<1>3. Sockets'
    BY DEF Sockets, BeingDestroyed
<1>4. \A c \in Conns : Told(c)' <=> Told(c)
    BY DEF Told
<1> QED BY <1>1, <1>2, <1>3, <1>4

(* SendManifest, Resubscribe and the application's calls only send.        *)
LEMMA SendingKeepsInv ==
    ASSUME Inv,
           \/ SendManifest \/ Resubscribe
           \/ \E f \in Filters : Subscribe(f)
           \/ \E k \in Keys, v \in Values : SetConfigurationValue(k, v)
    PROVE Inv'
<1> USE SessionAssumption DEF Inv
<1>1. /\ RegisterMsg \in UpMsgs
      /\ \A f \in AnyFilter : SubscribeMsg(f) \in UpMsgs
      /\ \A k \in Keys, v \in Values : ConfigMsg([i \in {k} |-> v]) \in UpMsgs
    <2>1. \A k \in Keys, v \in Values : [i \in {k} |-> v] \in Partial
        <3> SUFFICES ASSUME NEW k \in Keys, NEW v \in Values
                     PROVE [i \in {k} |-> v] \in Partial
            OBVIOUS
        <3>1. {k} \in SUBSET Keys /\ [i \in {k} |-> v] \in [{k} -> Values]
            OBVIOUS
        <3> QED BY <3>1 DEF Partial
    <2> QED BY <2>1 DEF UpMsgs
<1>2. UNCHANGED <<cur, cut, down, objVars, calm>>
    BY DEF SendManifest, Resubscribe, Subscribe, SetConfigurationValue, histVars
<1> DEFINE Moves == /\ up' \in [Conns -> Seq(UpMsgs)]
                    /\ state' \in {state, "disconnected"}
                    /\ state' \in Live \union {"disconnected"}
                    /\ filter' \in AnyFilter
                    /\ rpc' \in {rpc, "recv"}
                    /\ rpc = "connect" => rpc' = "connect"
<1>3. Moves
    <2>1. CASE SendManifest
        BY <1>1, <2>1, BroadcastMoves DEF SendManifest, TypeOK
    <2>2. CASE Resubscribe
        <3>1. filter' \in AnyFilter
            BY <2>2 DEF Resubscribe, TypeOK, AnyFilter
        <3> QED BY <1>1, <2>2, <3>1, BroadcastMoves DEF Resubscribe
    <2>3. ASSUME NEW f \in Filters, Subscribe(f)
          PROVE Moves
        BY <1>1, <2>3, BroadcastMoves DEF Subscribe, AnyFilter
    <2>4. ASSUME NEW k \in Keys, NEW v \in Values, SetConfigurationValue(k, v)
          PROVE Moves
        BY <1>1, <2>4, BroadcastMoves DEF SetConfigurationValue, TypeOK
    <2> QED BY <2>1, <2>2, <2>3, <2>4
<1>4. /\ config' = config /\ table' = table /\ UNCHANGED <<dismissed, usable>>
      /\ held' \in {held, NoFilter, Freed}
      /\ wanted' \in Filters \union {wanted}
      /\ inputs' = inputs \/ (inputs < MaxInputs /\ inputs' = inputs + 1)
    BY DEF SendManifest, Resubscribe, Subscribe, SetConfigurationValue, histVars
<1>5. TypeOK'
    <2>1. /\ held' \in AnyFilter \union {Freed} /\ wanted' \in AnyFilter
          /\ inputs' \in 0 .. MaxInputs
        BY <1>4, SMTT(30) DEF TypeOK, AnyFilter
    <2>2. /\ rpc' \in {"connect", "register", "recv", "promote", "resubscribe"}
          /\ cur' = 0 => rpc' = "connect" /\ state' = "disconnected"
        BY <1>2, <1>3 DEF TypeOK
    <2> HIDE DEF Moves
    <2>3. /\ up' \in [Conns -> Seq(UpMsgs)] /\ filter' \in AnyFilter
          /\ state' \in Live \union {"disconnected"}
        BY <1>3 DEF Moves
    <2> QED BY <1>2, <1>4, <2>1, <2>2, <2>3 DEF TypeOK, objVars
<1>6. Served'
    <2>1. \A c \in Conns : Told(c)' <=> Told(c)
        BY <1>2, ObjectsApart
    <2>2. UNCHANGED <<cur, cut, mRegistered, calm>>
        BY <1>2 DEF objVars
    <2>3. rpc' = "promote" => rpc = "promote"
        BY <1>3
    <2>4. state' = "registered" => state = "registered"
        BY <1>3
    <2> QED BY <2>1, <2>2, <2>3, <2>4 DEF Served
<1> QED BY <1>2, <1>5, <1>6, ObjectsApart

(* The administrator's statement touches the table alone.                  *)
LEMMA ChangeRowKeepsInv ==
    ASSUME Inv, NEW k \in Keys, NEW v \in Values, ChangeRow(k, v)
    PROVE Inv'
<1> USE SessionAssumption DEF Inv
<1>1. UNCHANGED <<cur, cut, down, objVars, calm>>
    BY DEF ChangeRow, clientVars, netVars
<1>2. table' \in Rows /\ inputs' \in 0 .. MaxInputs
    BY SMTT(30) DEF ChangeRow, TypeOK, Rows
<1>3. TypeOK'
    BY <1>2 DEF ChangeRow, TypeOK, clientVars, netVars, objVars
<1>4. Served'
    BY <1>1, ObjectsApart, SMTT(60) DEF ChangeRow, Served, objVars, clientVars
<1> QED BY <1>1, <1>3, <1>4, ObjectsApart

(* The client becomes registered on a message of its own connection.       *)
LEMMA PromoteKeepsInv ==
    ASSUME Inv, Promote
    PROVE Inv'
<1> USE SessionAssumption DEF Inv
<1>1. UNCHANGED <<cur, cut, down, objVars, calm>>
    BY DEF Promote, netVars, histVars
<1>2. TypeOK'
    BY DEF Promote, TypeOK, netVars, objVars, histVars, Live
<1>3. Served'
    BY <1>1, ObjectsApart DEF Promote, Served, objVars
<1> QED BY <1>1, <1>2, <1>3, ObjectsApart

(* The plugin reads: a configuration message came from a registration.     *)
LEMMA ReadingKeepsInv ==
    ASSUME Inv, OnError \/ OnConfig
    PROVE Inv'
<1> USE SessionAssumption DEF Inv
<1>1. PICK t : TakeDown(t) /\ (OnConfig => t = "config")
    BY DEF OnError, OnConfig
<1>2. /\ cur \in Conns
      /\ down' \in [Conns -> Seq(DownMsgs)]
      /\ \A d \in Conns : /\ Told(d)' => Told(d)
                          /\ status[d] = "none" => down'[d] = <<>>
    BY <1>1, TakeDownMoves
<1>3. /\ UNCHANGED <<state, filter, held, cur, cut, up, objVars, wanted, inputs, calm,
                     usable, table>>
      /\ dismissed' \in BOOLEAN
    BY DEF OnError, OnConfig, clientVars, histVars, TypeOK
<1>4. /\ config' \in [Keys -> Values]
      /\ rpc' \in {"recv", "promote"}
      /\ rpc' = "promote" => Told(cur)
    <2>1. CASE OnError
        BY <2>1 DEF OnError, TakeDown, clientVars, TypeOK
    <2>2. CASE OnConfig
        <3>1. Head(down[cur]) \in DownMsgs /\ Head(down[cur]).type = "config" /\ Told(cur)
            BY <1>1, <2>2, TakeDownMoves DEF TakeDown
        <3>2. Head(down[cur]).values \in Partial
            BY <3>1, ConfigHasValues
        <3>3. Updated(config, Head(down[cur]).values) \in [Keys -> Values]
            BY <3>2, UpdatedHasType DEF TypeOK
        <3> QED BY <2>2, <3>1, <3>3 DEF OnConfig
    <2> QED BY <2>1, <2>2
<1>5. TypeOK'
    BY <1>2, <1>3, <1>4, SMTT(30) DEF TypeOK, objVars, Conns
<1>6. Objects' /\ Threads' /\ Sockets'
    BY <1>2, <1>3 DEF Objects, Threads, Sockets, BeingDestroyed, objVars
<1>7. Served'
    BY <1>2, <1>3, <1>4 DEF Served, objVars
<1> QED BY <1>5, <1>6, <1>7
(* The plugin closes its socket, or the network cuts the connection: less  *)
(* is claimed of a connection that is cut.                                 *)
LEMMA CuttingKeepsInv ==
    ASSUME Inv, Leave \/ Break
    PROVE Inv'
<1> USE SessionAssumption DEF Inv
<1>1. cur \in Conns
    BY SMTT(30) DEF Leave, Break, TypeOK, Conns
<1>2. /\ UNCHANGED <<cur, objVars, histVars, table, config, filter, held, up>>
      /\ cut' = [cut EXCEPT ![cur] = TRUE]
      /\ down' \in {down, [down EXCEPT ![cur] = <<>>]}
      /\ UNCHANGED <<state, rpc>> \/ (state' = "disconnected" /\ rpc' = "connect")
    BY DEF Leave, Break, clientVars
<1>3. down' \in [Conns -> Seq(DownMsgs)]
    <2>1. <<>> \in Seq(DownMsgs)
        BY SMTT(30)
    <2> QED BY <1>1, <1>2, <2>1 DEF TypeOK
<1>4. TypeOK'
    BY <1>1, <1>2, <1>3 DEF TypeOK, objVars, histVars
<1>5. status[cur] # "none"
    BY <1>1, SMTT(30) DEF Objects, TypeOK, Conns
<1>6. Objects'
    BY <1>1, <1>2, <1>5 DEF Objects, TypeOK, objVars
<1>7. Threads' /\ Sockets'
    BY <1>2 DEF Threads, Sockets, BeingDestroyed, objVars, histVars
<1>8. \A c \in Conns : cut'[c] = FALSE => cut[c] = FALSE /\ c # cur /\ down'[c] = down[c]
    BY <1>1, <1>2 DEF TypeOK
<1>9. Served'
    <2>1. \A c \in Conns : Told(c)' /\ ~cut'[c] => Told(c) /\ ~cut[c]
        BY <1>8, <1>4, SMTT(60) DEF Told, TypeOK
    <2>2. cut'[cur'] /\ UNCHANGED <<mRegistered, calm>>
        BY <1>1, <1>2 DEF TypeOK, objVars, histVars
    <2> QED BY <2>1, <2>2 DEF Served
<1> QED BY <1>4, <1>6, <1>7, <1>9

(* A new connection has no object yet.                                     *)
LEMMA ConnectKeepsInv ==
    ASSUME Inv, Connect
    PROVE Inv'
<1> USE SessionAssumption DEF Inv
<1>1. /\ cur + 1 \in Conns /\ cur' = cur + 1 /\ cur \in Nat
      /\ status' = [status EXCEPT ![cur + 1] = "backlog"]
      /\ UNCHANGED <<config, filter, held, netVars, fd, mRegistered, mConfigValues, sub, fpc,
                     copy, snapshot, nameHeld, wanted, inputs, calm, usable, table>>
      /\ state' = "connected" /\ rpc' = "register" /\ dismissed' = FALSE
    BY SMTT(30) DEF Connect, TypeOK, Conns
<1>2. TypeOK'
    <2>1. status' \in [Conns -> {"none", "backlog", "open", "closed", "erased", "gone"}]
        BY <1>1 DEF TypeOK
    <2>2. cur' \in 0 .. MaxConns /\ cur' # 0
        BY <1>1, SMTT(30) DEF Conns
    <2> QED BY <1>1, <2>1, <2>2 DEF TypeOK, netVars, Live
<1>3. status[cur + 1] = "none" /\ down[cur + 1] = <<>> /\ ~cut[cur + 1]
    BY <1>1, SMTT(30) DEF Objects
<1>4. Objects'
    <2>1. \A c \in Conns : /\ c # cur + 1 => status'[c] = status[c]
                           /\ c > cur' <=> c > cur /\ c # cur + 1
        BY <1>1, SMTT(30) DEF TypeOK, Conns
    <2>2. status'[cur + 1] = "backlog" /\ UNCHANGED <<cut, down>>
        BY <1>1 DEF TypeOK, netVars
    <2> QED BY <1>3, <2>1, <2>2 DEF Objects
<1>5. Threads' /\ Sockets'
    BY <1>1, <1>3, SMTT(30) DEF Threads, Sockets, BeingDestroyed, TypeOK
<1>6. Served'
    <2>1. \A c \in Conns : Told(c)' <=> Told(c)
        BY <1>1 DEF Told, netVars
    <2>2. UNCHANGED <<cut, mRegistered, calm>> /\ state' # "registered" /\ rpc' # "promote"
        BY <1>1 DEF netVars
    <2> QED BY <2>1, <2>2 DEF Served
<1> QED BY <1>2, <1>4, <1>5, <1>6

-----------------------------------------------------------------------------
(* The core's threads.                                                     *)

(* An accepted connection has a number that no open one has; that it may   *)
(* be the one of an object with threads left is what a calm behaviour      *)
(* excludes.                                                               *)
LEMMA AcceptKeepsInv ==
    ASSUME Inv, NEW c \in Conns, Accept(c)
    PROVE Inv'
<1> USE SessionAssumption DEF Inv
<1>1. /\ status[c] = "backlog"
      /\ status' = [status EXCEPT ![c] = "open"]
      /\ UNCHANGED <<clientVars, netVars, mRegistered, mConfigValues, sub, fpc, copy,
                     snapshot, nameHeld, histVars, table>>
    BY DEF Accept
<1>2. PICK n \in FreeFds(c) :
          /\ calm => ~\E d \in Conns : BeingDestroyed(d) /\ fd[d] = n
          /\ fd' = [fd EXCEPT ![c] = n]
    BY DEF Accept
<1>3. n \in 0 .. MaxConns /\ \A d \in Conns : status[d] = "open" => fd[d] # n
    BY <1>2, SMTT(30) DEF FreeFds, Conns
<1>4. TypeOK'
    <2>1. status' \in [Conns -> {"none", "backlog", "open", "closed", "erased", "gone"}]
        BY <1>1 DEF TypeOK
    <2>2. fd' \in [Conns -> 0 .. MaxConns]
        BY <1>2, <1>3 DEF TypeOK
    <2> QED BY <1>1, <2>1, <2>2 DEF TypeOK, clientVars, netVars, histVars
<1>5. /\ status'[c] = "open" /\ fd'[c] = n /\ calm' = calm
      /\ \A d \in Conns \ {c} : status'[d] = status[d] /\ fd'[d] = fd[d]
    BY <1>1, <1>2 DEF TypeOK, histVars
<1>6. Objects' /\ Threads'
    BY <1>1, <1>5 DEF Objects, Threads, clientVars, netVars
<1>7. Sockets'
    <2>1. \A d \in Conns : fd[d] = n => status[d] # "open" /\ (calm => ~BeingDestroyed(d))
        BY <1>2, <1>3
    <2>2. \A d \in Conns \ {c} : BeingDestroyed(d)' <=> BeingDestroyed(d)
        BY <1>5 DEF BeingDestroyed
    <2>3. ASSUME NEW a \in Conns, NEW b \in Conns, status'[a] = "open", a # b, fd'[a] = fd'[b]
          PROVE status'[b] # "open" /\ (calm => ~BeingDestroyed(b)')
        <3>1. CASE a = c
            BY <1>5, <2>1, <2>2, <2>3, <3>1
        <3>2. CASE b = c
            BY <1>3, <1>5, <2>3, <3>2
        <3>3. CASE a # c /\ b # c
            BY <1>5, <2>2, <2>3, <3>3 DEF Sockets
        <3> QED BY <3>1, <3>2, <3>3
    <2> QED BY <1>5, <2>3 DEF Sockets
<1>8. Served'
    BY <1>1 DEF Served, Told, clientVars, netVars, histVars
<1> QED BY <1>4, <1>6, <1>7, <1>8

(* A thread that writes to a connection in a calm behaviour writes to its  *)
(* own.                                                                    *)
LEMMA WritesToItsOwn ==
    ASSUME Inv, NEW c \in Conns, NEW m \in DownMsgs, Write(c, m),
           m.type = "config" => /\ mRegistered[c]
                                /\ status[c] \in {"open", "closed", "erased"},
           UNCHANGED <<rpc, state, cur, cut, calm>>,
           \A d \in Conns : mRegistered[d] => mRegistered'[d]
    PROVE Served'
<1> USE DEF Inv
<1>1. ASSUME calm, NEW d \in Conns, Told(d)', ~cut[d]
      PROVE mRegistered[d]
    <2>1. CASE Told(d)
        BY <1>1, <2>1 DEF Served
    <2>2. CASE ~Told(d)
        <3>1. m.type = "config" /\ status[d] = "open" /\ fd[d] = fd[c]
            BY <1>1, <2>2, WriteMoves
        <3>2. c = d
            BY <1>1, <3>1 DEF Sockets, BeingDestroyed
        <3> QED BY <3>1, <3>2
    <2> QED BY <2>1, <2>2
<1>2. cur # 0 => cur \in Conns
    BY SessionAssumption, SMTT(30) DEF TypeOK, Conns
<1>3. calm /\ (rpc = "promote" \/ state = "registered") /\ ~cut[cur] => mRegistered'[cur]
    BY <1>2 DEF Served, TypeOK
<1> QED BY <1>1, <1>3 DEF Served
(* Registration: the object is registered before it writes anything.       *)
LEMMA RegisterKeepsInv ==
    ASSUME Inv, NEW c \in Conns, Register(c)
    PROVE Inv'
<1> USE SessionAssumption DEF Inv
<1>1. /\ up' \in [Conns -> Seq(UpMsgs)]
      /\ status[c] = "open" /\ fpc[c] = "idle"
    BY TakeUpMoves DEF Register, TakeUp
<1>2. table' \in [Keys -> Values]
    BY DEF Register, Initialized, TypeOK, Rows
<1>3. table' \in Rows
    BY <1>2 DEF Rows
<1>4. TypeOK'
    <2>1. /\ mConfigValues' \in [Conns -> Rows] /\ mRegistered' \in [Conns -> BOOLEAN]
          /\ fpc' \in [Conns -> {"idle", "copy", "reply"}]
          /\ \A d \in Conns : mRegistered'[d] => mConfigValues'[d] \in [Keys -> Values]
        BY <1>2, <1>3 DEF Register, TypeOK
    <2>2. nameHeld' \in 0 .. MaxConns
        BY SMTT(30) DEF Register, Conns
    <2> QED BY <1>1, <1>3, <2>1, <2>2 DEF Register, TypeOK, clientVars, histVars
<1>5. Objects' /\ Sockets'
    BY DEF Register, Objects, Sockets, BeingDestroyed, clientVars, histVars
<1>6. Threads'
    BY <1>1, SMTT(30) DEF Register, Threads, TypeOK, histVars
<1>7. Served'
    <2>1. \A d \in Conns : /\ Told(d)' <=> Told(d)
                           /\ mRegistered[d] => mRegistered'[d]
        BY DEF Register, Told, TypeOK
    <2>2. cur # 0 => cur \in Conns
        BY SMTT(30) DEF TypeOK, Conns
    <2> QED BY <2>1, <2>2 DEF Register, Served, TypeOK, clientVars, histVars
<1> QED BY <1>4, <1>5, <1>6, <1>7

(* A refusal, the silence about a manifest that is of no use, and the error*)
(* for a subscription that comes too early.                                *)
LEMMA AnsweringKeepsInv ==
    ASSUME Inv, NEW c \in Conns, Refuse(c) \/ IgnoreManifest(c) \/ ProcessSubscribe(c)
    PROVE Inv'
<1> USE SessionAssumption DEF Inv
<1>1. PICK t : TakeUp(c, t) /\ (ProcessSubscribe(c) => t = "subscribe")
    BY DEF Refuse, IgnoreManifest, ProcessSubscribe
<1>2. up' \in [Conns -> Seq(UpMsgs)] /\ Head(up[c]) \in UpMsgs
    BY <1>1, TakeUpMoves
<1>3. \A l \in Levels : ErrorMsg(l) \in DownMsgs /\ ErrorMsg(l).type # "config"
    BY DEF DownMsgs, ErrorMsg
<1>4. UNCHANGED <<clientVars, cut, status, fd, mRegistered, mConfigValues, fpc, copy,
                  snapshot, histVars, table>>
    BY DEF Refuse, IgnoreManifest, ProcessSubscribe, objVars
<1>5. nameHeld' \in 0 .. MaxConns /\ sub' \in [Conns -> AnyFilter]
    <2>1. CASE Refuse(c) \/ IgnoreManifest(c)
        BY <2>1, SMTT(30) DEF Refuse, IgnoreManifest, TypeOK, Conns, objVars
    <2>2. CASE ProcessSubscribe(c)
        <3>1. Head(up[c]).filter \in AnyFilter
            BY <1>1, <1>2, <2>2, SubscribeHasFilter DEF TakeUp
        <3> QED BY <2>2, <3>1 DEF ProcessSubscribe, TypeOK
    <2> QED BY <2>1, <2>2
<1>6. down' = down \/ \E l \in Levels : Write(c, ErrorMsg(l))
    BY DEF Refuse, IgnoreManifest, ProcessSubscribe, Levels
<1>7. /\ down' \in [Conns -> Seq(DownMsgs)]
      /\ \A d \in Conns : status[d] = "none" => down'[d] = down[d]
    BY <1>3, <1>6, WriteMoves DEF TypeOK
<1>8. TypeOK'
    BY <1>2, <1>4, <1>5, <1>7 DEF TypeOK, clientVars, histVars
<1>9. Objects' /\ Threads' /\ Sockets'
    BY <1>4, <1>7 DEF Objects, Threads, Sockets, BeingDestroyed, clientVars, histVars
<1>10. Served'
    <2>1. ASSUME NEW l \in Levels, Write(c, ErrorMsg(l))
          PROVE Served'
        BY <1>3, <1>4, <2>1, WritesToItsOwn DEF clientVars, histVars
    <2>2. CASE down' = down
        BY <1>4, <2>2 DEF Served, Told, clientVars, histVars
    <2> QED BY <1>6, <2>1, <2>2
<1> QED BY <1>8, <1>9, <1>10

(* A value the plugin sets goes to the table.                              *)
LEMMA ProcessConfigKeepsInv ==
    ASSUME Inv, NEW c \in Conns, ProcessConfig(c)
    PROVE Inv'
<1> USE SessionAssumption DEF Inv
<1>1. /\ up' \in [Conns -> Seq(UpMsgs)]
      /\ Head(up[c]) \in UpMsgs /\ Head(up[c]).type = "config"
    BY TakeUpMoves DEF ProcessConfig, TakeUp
<1>2. Head(up[c]).values \in Partial
    BY <1>1, ConfigHasValues
<1>3. table' \in Rows
    <2>1. Updated(table, Head(up[c]).values) \in Rows
        BY <1>2, UpdatedHasType DEF TypeOK, Rows
    <2> QED BY <2>1 DEF ProcessConfig, TypeOK
<1>4. UNCHANGED <<clientVars, cut, down, objVars, histVars>>
    BY DEF ProcessConfig
<1>5. TypeOK'
    BY <1>1, <1>3, <1>4 DEF TypeOK, clientVars, objVars, histVars
<1>6. UNCHANGED <<cur, cut, down, objVars, calm>>
    BY <1>4 DEF clientVars, histVars
<1>7. Served'
    BY <1>4, <1>6, ObjectsApart DEF Served, objVars, clientVars
<1> QED BY <1>5, <1>6, <1>7, ObjectsApart
(* The copy that the reply is made from.                                   *)
LEMMA CopyValuesKeepsInv ==
    ASSUME Inv, NEW c \in Conns, CopyValues(c)
    PROVE Inv'
<1> USE SessionAssumption DEF Inv
<1>1. /\ copy' = [copy EXCEPT ![c] = mConfigValues[c]]
      /\ fpc' = [fpc EXCEPT ![c] = "reply"]
      /\ UNCHANGED <<clientVars, netVars, status, fd, mRegistered, mConfigValues, sub,
                     snapshot, nameHeld, histVars, table>>
    BY DEF CopyValues
<1>2. TypeOK'
    BY <1>1 DEF TypeOK, clientVars, netVars, histVars
<1>3. Objects' /\ Sockets'
    BY <1>1 DEF Objects, Sockets, BeingDestroyed, clientVars, netVars, histVars
<1>4. Threads'
    BY <1>1, SMTT(30) DEF CopyValues, Threads, TypeOK, histVars
<1>5. Served'
    BY <1>1 DEF Served, Told, clientVars, netVars, histVars
<1> QED BY <1>2, <1>3, <1>4, <1>5

(* The reply and the monitor's notifications are written by threads of a   *)
(* registered object.                                                      *)
LEMMA SendReplyKeepsInv ==
    ASSUME Inv, NEW c \in Conns, SendReply(c)
    PROVE Inv'
<1> USE SessionAssumption DEF Inv
<1>1. copy[c] \in Rows /\ mRegistered[c] /\ status[c] \in {"open", "closed"}
    BY DEF SendReply, Threads
<1> DEFINE m == ConfigMsg(Only(NotDefault(copy[c]), copy[c]))
<1>2. m \in DownMsgs
    <2>1. \A k \in NotDefault(copy[c]) : copy[c][k] \in Values
        BY <1>1 DEF NotDefault, Rows
    <2>2. Only(NotDefault(copy[c]), copy[c]) \in Partial
        BY <2>1, OnlyIsPartial DEF NotDefault
    <2> QED BY <2>2 DEF DownMsgs
<1>3. Write(c, m)
    BY DEF SendReply
<1> HIDE DEF m
<1>4. /\ UNCHANGED <<clientVars, cut, up, status, fd, mRegistered, mConfigValues, sub,
                     snapshot, nameHeld, histVars, table>>
      /\ fpc' = [fpc EXCEPT ![c] = "idle"]
      /\ copy' = [copy EXCEPT ![c] = None]
    BY DEF SendReply
<1>5. /\ down' \in [Conns -> Seq(DownMsgs)]
      /\ \A d \in Conns : status[d] = "none" => down'[d] = down[d]
    BY <1>2, <1>3, WriteMoves
<1>6. TypeOK'
    BY <1>4, <1>5 DEF TypeOK, clientVars, histVars
<1>7. Objects' /\ Sockets'
    BY <1>4, <1>5 DEF Objects, Sockets, BeingDestroyed, clientVars, histVars
<1>8. Threads'
    BY <1>4 DEF Threads, TypeOK, histVars
<1>9. Served'
    BY <1>1, <1>2, <1>3, <1>4, WritesToItsOwn DEF clientVars, histVars
<1> QED BY <1>6, <1>7, <1>8, <1>9

(* The monitor of a registered object reads the table.                     *)
LEMMA ReadTableKeepsInv ==
    ASSUME Inv, NEW c \in Conns, ReadTable(c)
    PROVE Inv'
<1> USE SessionAssumption DEF Inv
<1>1. /\ mRegistered[c] /\ status[c] \in {"open", "closed", "erased"}
      /\ snapshot' = [snapshot EXCEPT ![c] = table]
      /\ UNCHANGED <<clientVars, netVars, status, fd, mRegistered, mConfigValues, sub, fpc,
                     copy, nameHeld, histVars, table>>
    BY DEF ReadTable, MayPoll
<1>2. TypeOK'
    BY <1>1 DEF TypeOK, clientVars, netVars, histVars
<1>3. Objects' /\ Sockets'
    BY <1>1 DEF Objects, Sockets, BeingDestroyed, clientVars, netVars, histVars
<1>4. Threads'
    BY <1>1 DEF Threads, TypeOK, histVars
<1>5. Served'
    BY <1>1 DEF Served, Told, clientVars, netVars, histVars
<1> QED BY <1>2, <1>3, <1>4, <1>5

(* It writes what it changes, in calm behaviours to its own connection.    *)
LEMMA ApplyChangesKeepsInv ==
    ASSUME Inv, NEW c \in Conns, ApplyChanges(c)
    PROVE Inv'
<1> USE SessionAssumption DEF Inv
<1>1. /\ snapshot[c] \in Rows /\ mRegistered[c]
      /\ status[c] \in {"open", "closed", "erased"}
    BY DEF ApplyChanges, Threads, TypeOK
<1> DEFINE new == Only(New(c, snapshot[c]), snapshot[c])
<1>2. new \in Partial
    <2>1. \A k \in New(c, snapshot[c]) : snapshot[c][k] \in Values
        BY <1>1 DEF New, Rows
    <2> QED BY <2>1, OnlyIsPartial DEF New
<1>3. /\ mConfigValues' = [mConfigValues EXCEPT ![c] = Updated(@, new)]
      /\ down' = down \/ Write(c, ConfigMsg(new))
    BY DEF ApplyChanges, Merge
<1> HIDE DEF new
<1>4. /\ UNCHANGED <<clientVars, cut, up, status, fd, mRegistered, sub, fpc, copy,
                     nameHeld, histVars, table>>
      /\ snapshot' = [snapshot EXCEPT ![c] = None]
    BY DEF ApplyChanges
<1>5. ConfigMsg(new) \in DownMsgs
    BY <1>2 DEF DownMsgs
<1>6. /\ down' \in [Conns -> Seq(DownMsgs)]
      /\ \A d \in Conns : status[d] = "none" => down'[d] = down[d]
    BY <1>3, <1>5, WriteMoves DEF TypeOK
<1>7. /\ Updated(mConfigValues[c], new) \in [Keys -> Values]
      /\ Updated(mConfigValues[c], new) \in Rows
    <2>1. mConfigValues[c] \in [Keys -> Values]
        BY <1>1 DEF TypeOK
    <2> QED BY <1>2, <2>1, UpdatedHasType DEF Rows
<1>8. TypeOK'
    <2>1. /\ mConfigValues' \in [Conns -> Rows] /\ snapshot' \in [Conns -> Rows \union {None}]
          /\ \A d \in Conns : mRegistered'[d] => mConfigValues'[d] \in [Keys -> Values]
        BY <1>3, <1>4, <1>7 DEF TypeOK
    <2> QED BY <1>4, <1>6, <2>1 DEF TypeOK, clientVars, histVars
<1>9. Objects' /\ Sockets'
    BY <1>4, <1>6 DEF Objects, Sockets, BeingDestroyed, clientVars, histVars
<1>10. Threads'
    <2>1. /\ \A d \in Conns \ {c} : mConfigValues'[d] = mConfigValues[d]
          /\ ~(calm /\ fpc[c] = "reply") /\ calm' = calm
        BY <1>3, <1>4 DEF ApplyChanges, TypeOK, histVars
    <2> QED BY <1>4, <2>1 DEF Threads, TypeOK
<1>11. Served'
    <2>1. CASE Write(c, ConfigMsg(new))
        BY <1>1, <1>4, <1>5, <2>1, WritesToItsOwn DEF clientVars, histVars
    <2>2. CASE down' = down
        BY <1>4, <2>2 DEF Served, Told, clientVars, histVars
    <2> QED BY <1>3, <2>1, <2>2
<1> QED BY <1>8, <1>9, <1>10, <1>11
-----------------------------------------------------------------------------
(* Destruction.                                                            *)

(* The object goes through its stages behind a connection that is cut, and *)
(* nothing of the others or of the plugin is touched.                      *)
LEMMA TakingDownMoves ==
    ASSUME Inv, NEW c \in Conns, TakeDownObject(c)
    PROVE /\ cut[c]
          /\ UNCHANGED <<clientVars, cut, down, fpc, copy, snapshot, histVars, table>>
          /\ \/ /\ status[c] = "open" /\ status'[c] = "closed"
                /\ UNCHANGED <<fd, mRegistered, mConfigValues, sub>>
             \/ /\ status[c] = "closed" /\ status'[c] = "erased" /\ fpc[c] = "idle"
                /\ UNCHANGED <<fd, mRegistered, mConfigValues, sub>>
             \/ /\ status[c] = "erased" /\ status'[c] = "gone"
                /\ fpc[c] = "idle" /\ snapshot[c] = None /\ ~mRegistered'[c]
          /\ \A d \in Conns \ {c} : /\ status'[d] = status[d] /\ fd'[d] = fd[d]
                                    /\ up'[d] = up[d] /\ sub'[d] = sub[d]
                                    /\ mRegistered'[d] = mRegistered[d]
                                    /\ mConfigValues'[d] = mConfigValues[d]
<1> USE DEF Inv, TypeOK
<1>1. CASE CloseSocket(c)
    BY <1>1 DEF CloseSocket
<1>2. CASE EraseName(c)
    <2>1. cut[c]
        BY <1>2 DEF EraseName, Objects
    <2> QED BY <1>2, <2>1 DEF EraseName, netVars
<1>3. CASE Destroy(c)
    <2>1. cut[c] /\ fpc[c] = "idle"
        <3>1. status[c] = "erased"
            BY <1>3 DEF Destroy
        <3> QED BY <3>1 DEF Objects, Threads
    <2> QED BY <1>3, <2>1 DEF Destroy, netVars
<1> HIDE DEF Inv, TypeOK
<1> QED BY <1>1, <1>2, <1>3 DEF TakeDownObject

(* An object is taken down after its connection has been cut.              *)
LEMMA TakingDownKeepsInv ==
    ASSUME Inv, NEW c \in Conns, TakeDownObject(c)
    PROVE Inv'
<1> USE SessionAssumption DEF Inv
<1>1. TypeOK'
    <2>1. /\ UNCHANGED <<clientVars, cut, down, fpc, copy, snapshot, histVars, table>>
          /\ \E s \in {"closed", "erased", "gone"} : status' = [status EXCEPT ![c] = s]
          /\ up' \in {up, [up EXCEPT ![c] = <<>>]}
          /\ nameHeld' \in {nameHeld, 0}
        BY DEF TakeDownObject, CloseSocket, EraseName, Destroy, netVars
    <2>2. /\ fd' \in {fd, [fd EXCEPT ![c] = 0]}
          /\ sub' \in {sub, [sub EXCEPT ![c] = NoFilter]}
          /\ \/ UNCHANGED <<mRegistered, mConfigValues>>
             \/ /\ mRegistered' = [mRegistered EXCEPT ![c] = FALSE]
                /\ mConfigValues' = [mConfigValues EXCEPT ![c] = [k \in Keys |-> NoRow]]
        BY DEF TakeDownObject, CloseSocket, EraseName, Destroy
    <2>3. up' \in [Conns -> Seq(UpMsgs)]
        <3>1. <<>> \in Seq(UpMsgs) /\ up \in [Conns -> Seq(UpMsgs)]
            BY SMTT(30) DEF TypeOK
        <3> HIDE DEF Inv
        <3> QED BY <2>1, <3>1
    <2>4. /\ status' \in [Conns -> {"none", "backlog", "open", "closed", "erased", "gone"}]
          /\ nameHeld' \in 0 .. MaxConns
        BY <2>1, SMTT(30) DEF TypeOK
    <2>5. fd' \in [Conns -> 0 .. MaxConns]
        <3>1. fd \in [Conns -> 0 .. MaxConns] /\ 0 \in 0 .. MaxConns
            BY SMTT(30) DEF TypeOK
        <3> QED BY <2>2, <3>1
    <2>6. sub' \in [Conns -> AnyFilter]
        BY <2>2 DEF TypeOK, AnyFilter
    <2>7. /\ mRegistered' \in [Conns -> BOOLEAN] /\ mConfigValues' \in [Conns -> Rows]
        <3>1. [k \in Keys |-> NoRow] \in Rows
            BY DEF Rows
        <3>2. mRegistered \in [Conns -> BOOLEAN] /\ mConfigValues \in [Conns -> Rows]
            BY DEF TypeOK
        <3>3. mRegistered' \in {mRegistered, [mRegistered EXCEPT ![c] = FALSE]}
            BY <2>2
        <3>4. mConfigValues' \in {mConfigValues,
                                  [mConfigValues EXCEPT ![c] = [k \in Keys |-> NoRow]]}
            BY <2>2
        <3> HIDE DEF Inv
        <3> QED BY <3>1, <3>2, <3>3, <3>4
    <2>8. \A d \in Conns : mRegistered'[d] => mConfigValues'[d] \in [Keys -> Values]
        BY TakingDownMoves DEF TypeOK
    <2> QED BY <2>1, <2>3, <2>4, <2>5, <2>6, <2>7, <2>8 DEF TypeOK, clientVars, histVars
<1>2. Objects'
    BY TakingDownMoves, SMTT(30) DEF Objects, clientVars
<1>3. Threads'
    BY TakingDownMoves, SMTT(30) DEF Threads, histVars
<1>4. Sockets'
    <2>1. /\ BeingDestroyed(c)' => fd' = fd /\ (status[c] = "open" \/ BeingDestroyed(c))
          /\ status'[c] # "open" /\ calm' = calm
          /\ \A d \in Conns \ {c} : /\ BeingDestroyed(d)' <=> BeingDestroyed(d)
                                    /\ status'[d] = status[d] /\ fd'[d] = fd[d]
        BY TakingDownMoves DEF BeingDestroyed, histVars
    <2> SUFFICES ASSUME NEW e \in Conns, NEW d \in Conns,
                        status'[e] = "open", e # d, fd'[e] = fd'[d]
                 PROVE status'[d] # "open" /\ (calm => ~BeingDestroyed(d)')
        BY <2>1 DEF Sockets
    <2>2. e # c /\ status[e] = "open" /\ fd'[e] = fd[e]
        BY <2>1
    <2>3. CASE d # c
        BY <2>1, <2>2, <2>3 DEF Sockets
    <2>4. CASE d = c
        BY <2>1, <2>2, <2>4 DEF Sockets
    <2> QED BY <2>3, <2>4
<1>5. Served'
    <2>1. /\ \A d \in Conns : /\ Told(d)' <=> Told(d)
                              /\ ~cut[d] => mRegistered'[d] = mRegistered[d]
          /\ UNCHANGED <<cur, cut, rpc, state, calm>>
        BY TakingDownMoves, SMTT(30) DEF Told, clientVars, histVars
    <2>2. cur # 0 => cur \in Conns
        BY SMTT(30) DEF TypeOK, Conns
    <2> QED BY <2>1, <2>2 DEF Served, TypeOK
<1> QED BY <1>1, <1>2, <1>3, <1>4, <1>5

(* After the core's death every connection there was is cut.               *)
LEMMA CoreDiesKeepsInv ==
    ASSUME Inv, CoreDies
    PROVE Inv'
<1> USE SessionAssumption DEF Inv
<1>1. TypeOK'
    <2>1. <<>> \in Seq(UpMsgs) /\ [k \in Keys |-> NoRow] \in Rows
        BY SMTT(30) DEF Rows
    <2>2. /\ status' \in [Conns -> {"none", "backlog", "open", "closed", "erased", "gone"}]
          /\ cut' \in [Conns -> BOOLEAN]
          /\ fd' \in [Conns -> 0 .. MaxConns]
        BY SMTT(30) DEF CoreDies, TypeOK
    <2>3. /\ up' \in [Conns -> Seq(UpMsgs)]
          /\ mConfigValues' \in [Conns -> Rows]
        BY <2>1 DEF CoreDies
    <2>4. /\ mRegistered' \in [Conns -> BOOLEAN]
          /\ \A c \in Conns : ~mRegistered'[c]
          /\ sub' \in [Conns -> AnyFilter]
          /\ fpc' \in [Conns -> {"idle", "copy", "reply"}]
          /\ copy' \in [Conns -> Rows \union {None}]
          /\ snapshot' \in [Conns -> Rows \union {None}]
        BY DEF CoreDies, AnyFilter
    <2>5. nameHeld' \in 0 .. MaxConns
        BY SMTT(30) DEF CoreDies
    <2>6. UNCHANGED <<clientVars, down, histVars, table>>
        BY DEF CoreDies
    <2> QED BY <2>2, <2>3, <2>4, <2>5, <2>6 DEF TypeOK, clientVars, histVars
<1>2. \A c \in Conns : /\ status'[c] = "none" <=> status[c] = "none"
                       /\ status'[c] \in {"none", "gone"}
                       /\ cut'[c] <=> status[c] # "none"
    BY DEF CoreDies, TypeOK
<1>3. Objects'
    BY <1>2 DEF CoreDies, Objects, clientVars
<1>4. Threads' /\ Sockets'
    BY <1>2 DEF CoreDies, Threads, Sockets
<1>5. Served'
    <2>1. ASSUME NEW d \in Conns, ~cut'[d]
          PROVE ~Told(d)'
        BY <1>2, <2>1, SMTT(30) DEF CoreDies, Objects, Told
    <2>2. cur # 0 => cur \in Conns /\ cut'[cur]
        BY <1>2, SMTT(30) DEF TypeOK, Conns, Objects
    <2> QED BY <2>1, <2>2 DEF CoreDies, Served, TypeOK, clientVars
<1> QED BY <1>1, <1>3, <1>4, <1>5

-----------------------------------------------------------------------------
(* The inductive invariant of a plugin and the core: every behaviour of    *)
(* the specification, calm or not, keeps types, objects, threads and       *)
(* sockets in step, and in calm ones nobody is told of a registration that *)
(* does not exist.                                                         *)
THEOREM SessionInvariance == Spec => []Inv
<1>1. Init => Inv
    <2> SUFFICES ASSUME Init PROVE Inv
        OBVIOUS
    <2> USE SessionAssumption DEF Init
    <2>1. TypeOK
        <3>1. <<>> \in Seq(UpMsgs) /\ <<>> \in Seq(DownMsgs) /\ [k \in Keys |-> NoRow] \in Rows
            BY SMTT(30) DEF Rows
        <3>2. /\ cut \in [Conns -> BOOLEAN] /\ up \in [Conns -> Seq(UpMsgs)]
              /\ down \in [Conns -> Seq(DownMsgs)] /\ table \in Rows
              /\ status \in [Conns -> {"none", "backlog", "open", "closed", "erased", "gone"}]
              /\ sub \in [Conns -> AnyFilter]
            BY <3>1 DEF AnyFilter
        <3>3. /\ fd \in [Conns -> 0 .. MaxConns] /\ mRegistered \in [Conns -> BOOLEAN]
              /\ mConfigValues \in [Conns -> Rows]
              /\ fpc \in [Conns -> {"idle", "copy", "reply"}]
              /\ copy \in [Conns -> Rows \union {None}]
              /\ snapshot \in [Conns -> Rows \union {None}]
            BY <3>1, SMTT(30)
        <3>4. \A c \in Conns : ~mRegistered[c]
            OBVIOUS
        <3>5. /\ cur \in 0 .. MaxConns /\ nameHeld \in 0 .. MaxConns
              /\ inputs \in 0 .. MaxInputs
            BY SMTT(30)
        <3> QED BY <3>2, <3>3, <3>4, <3>5 DEF TypeOK, AnyFilter
    <2>2. Objects
        BY SMTT(30) DEF Objects, Conns
    <2>3. Threads /\ Sockets
        <3>1. \A c \in Conns : fpc[c] = "idle" /\ snapshot[c] = None /\ status[c] = "none"
            OBVIOUS
        <3>2. Threads
            BY <3>1 DEF Threads
        <3>3. Sockets
            BY <3>1 DEF Sockets
        <3> QED BY <3>2, <3>3
    <2>4. Served
        BY SMTT(30) DEF Served, Told
    <2> QED BY <2>1, <2>2, <2>3, <2>4 DEF Inv
<1>2. Inv /\ [Next]_vars => Inv'
    <2> SUFFICES ASSUME Inv, [Next]_vars PROVE Inv'
        OBVIOUS
    <2>1. CASE Receive
        BY <2>1, ConnectKeepsInv, SendingKeepsInv, ReadingKeepsInv, PromoteKeepsInv,
            CuttingKeepsInv DEF Receive
    <2>2. CASE Application
        BY <2>2, SendingKeepsInv DEF Application
    <2>3. CASE CoreDies
        BY <2>3, CoreDiesKeepsInv
    <2>4. CASE Break
        BY <2>4, CuttingKeepsInv
    <2>5. ASSUME NEW c \in Conns, FastProcessor(c)
          PROVE Inv'
        BY <2>5, RegisterKeepsInv, AnsweringKeepsInv, CopyValuesKeepsInv, SendReplyKeepsInv,
            ProcessConfigKeepsInv, CoreDiesKeepsInv DEF FastProcessor, UncaughtNotRegistered
    <2>6. ASSUME NEW c \in Conns, ConfigMonitor(c)
          PROVE Inv'
        BY <2>6, ReadTableKeepsInv, ApplyChangesKeepsInv DEF ConfigMonitor
    <2>7. ASSUME NEW c \in Conns, TakeDownObject(c)
          PROVE Inv'
        BY <2>7, TakingDownKeepsInv
    <2>8. ASSUME NEW k \in Keys, NEW v \in Values, ChangeRow(k, v)
          PROVE Inv'
        BY <2>8, ChangeRowKeepsInv
    <2>9. ASSUME NEW c \in Conns, Accept(c)
          PROVE Inv'
        BY <2>9, AcceptKeepsInv
    <2>10. CASE UNCHANGED vars
        <3>1. UNCHANGED <<clientVars, netVars, objVars, histVars, table>>
            BY <2>10 DEF vars
        <3>2. UNCHANGED <<cur, cut, down, objVars, calm>>
            BY <3>1 DEF clientVars, netVars, histVars
        <3>3. TypeOK'
            BY <3>1 DEF Inv, TypeOK, clientVars, netVars, objVars, histVars
        <3>4. Served'
            BY <3>1, <3>2, ObjectsApart DEF Inv, Served, clientVars, objVars
        <3> QED BY <3>2, <3>3, <3>4, ObjectsApart DEF Inv
    <2> QED BY <2>1, <2>2, <2>3, <2>4, <2>5, <2>6, <2>7, <2>8, <2>9, <2>10 DEF Next
<1> QED BY <1>1, <1>2, PTL DEF Spec

(* The session's state keeps its types; above all, a registered object has *)
(* a value for every key of the manifest.                                  *)
THEOREM SessionTypes == Spec => []TypeOK
<1>1. Inv => TypeOK
    BY DEF Inv
<1> QED BY <1>1, SessionInvariance, PTL

(* In calm behaviours a plugin whose state is registered is registered on  *)
(* the connection it has, for any number of connections, breaks and        *)
(* restarts of the core.                                                   *)
THEOREM RegisteredIsServed == Spec => []RegisteredMeansServedIfCalm
<1>1. Inv => RegisteredMeansServedIfCalm
    BY DEF Inv, Served, RegisteredMeansServedIfCalm
<1> QED BY <1>1, SessionInvariance, PTL

-----------------------------------------------------------------------------
(* What is on the way.                                                     *)

(* A message that is added decides if it says something about the key.     *)
LEMMA AddedValue ==
    ASSUME NEW S, NEW q \in Seq(S), NEW m, NEW k, NEW old, NEW v
    PROVE /\ Sets(m, k) /\ m.values[k] = v => EndsAs(Append(q, m), k, old, v)
          /\ ~Sets(m, k) /\ EndsAs(q, k, old, v) => EndsAs(Append(q, m), k, old, v)
<1> DEFINE a == Append(q, m)
<1>0. q \in Seq(S \union {m})
    BY SMTT(30)
<1>1. /\ Len(q) + 1 \in DOMAIN a /\ a[Len(q) + 1] = m
      /\ \A j \in DOMAIN a : j <= Len(q) + 1
      /\ \A i \in DOMAIN q : i \in DOMAIN a /\ a[i] = q[i]
      /\ \A j \in DOMAIN a : a[j] = m \/ (j \in DOMAIN q /\ a[j] = q[j])
      /\ DOMAIN a \subseteq Nat /\ Len(q) + 1 \in Nat
    BY <1>0, SMTT(30)
<1> HIDE DEF a
<1>2. ASSUME Sets(m, k), m.values[k] = v
      PROVE EndsAs(a, k, old, v)
    BY <1>1, <1>2, SMTT(30) DEF EndsAs
<1>3. ASSUME ~Sets(m, k), EndsAs(q, k, old, v)
      PROVE EndsAs(a, k, old, v)
    BY <1>1, <1>3 DEF EndsAs
<1> QED BY <1>2, <1>3 DEF a

(* It decides if it is a subscription.                                     *)
LEMMA AddedFilter ==
    ASSUME NEW S, NEW q \in Seq(S), NEW m, NEW old, NEW f
    PROVE /\ m.type = "subscribe" /\ m.filter = f => EndsWith(Append(q, m), old, f)
          /\ m.type # "subscribe" /\ EndsWith(q, old, f) => EndsWith(Append(q, m), old, f)
<1> DEFINE a == Append(q, m)
<1>0. q \in Seq(S \union {m})
    BY SMTT(30)
<1>1. /\ Len(q) + 1 \in DOMAIN a /\ a[Len(q) + 1] = m
      /\ \A j \in DOMAIN a : j <= Len(q) + 1
      /\ \A i \in DOMAIN q : i \in DOMAIN a /\ a[i] = q[i]
      /\ \A j \in DOMAIN a : a[j] = m \/ (j \in DOMAIN q /\ a[j] = q[j])
      /\ DOMAIN a \subseteq Nat /\ Len(q) + 1 \in Nat
    BY <1>0, SMTT(30)
<1> HIDE DEF a
<1>2. ASSUME m.type = "subscribe", m.filter = f
      PROVE EndsWith(a, old, f)
    BY <1>1, <1>2, SMTT(30) DEF EndsWith
<1>3. ASSUME m.type # "subscribe", EndsWith(q, old, f)
      PROVE EndsWith(a, old, f)
    BY <1>1, <1>3, SMTT(30) DEF EndsWith
<1> QED BY <1>2, <1>3 DEF a

(* Reading the first message applies it and leaves the outcome as it was.  *)
LEMMA TakenValue ==
    ASSUME NEW S, NEW q \in Seq(S), q # <<>>, NEW k, NEW old, NEW v,
           EndsAs(q, k, old, v)
    PROVE EndsAs(Tail(q), k, IF Sets(Head(q), k) THEN Head(q).values[k] ELSE old, v)
<1> DEFINE r == Tail(q)
           h == Head(q)
<1>1. /\ 1 \in DOMAIN q /\ q[1] = h
      /\ \A i \in DOMAIN r : i + 1 \in DOMAIN q /\ r[i] = q[i + 1]
      /\ \A i \in DOMAIN q : i # 1 => i - 1 \in DOMAIN r
      /\ \A i \in DOMAIN q : i \in Nat /\ i >= 1
      /\ \A i \in DOMAIN r : i \in Nat /\ i >= 1
    BY SMTT(30)
<1> HIDE DEF r, h
<1>2. CASE \A i \in DOMAIN q : ~Sets(q[i], k)
    BY <1>1, <1>2 DEF EndsAs, r, h
<1>3. ASSUME NEW i \in DOMAIN q, Sets(q[i], k), q[i].values[k] = v,
             \A j \in DOMAIN q : j > i => ~Sets(q[j], k)
      PROVE EndsAs(r, k, IF Sets(h, k) THEN h.values[k] ELSE old, v)
    <2>1. CASE i = 1
        <3>1. \A j \in DOMAIN r : ~Sets(r[j], k)
            BY <1>1, <1>3, <2>1, SMTT(30)
        <3> QED BY <1>1, <1>3, <2>1, <3>1 DEF EndsAs
    <2>2. CASE i # 1
        <3>1. i - 1 \in DOMAIN r /\ r[i - 1] = q[i]
            BY <1>1, <2>2, SMTT(30)
        <3>2. \A j \in DOMAIN r : j > i - 1 => ~Sets(r[j], k)
            BY <1>1, <1>3, SMTT(30)
        <3> QED BY <1>3, <3>1, <3>2 DEF EndsAs
    <2> QED BY <2>1, <2>2
<1> QED BY <1>2, <1>3 DEF EndsAs, r, h

(* So does taking the first message that the plugin has sent.              *)
LEMMA TakenFilter ==
    ASSUME NEW S, NEW q \in Seq(S), q # <<>>, NEW old, NEW f, EndsWith(q, old, f)
    PROVE EndsWith(Tail(q), IF Head(q).type = "subscribe" THEN Head(q).filter ELSE old, f)
<1> DEFINE r == Tail(q)
           h == Head(q)
<1>1. /\ 1 \in DOMAIN q /\ q[1] = h
      /\ \A i \in DOMAIN r : i + 1 \in DOMAIN q /\ r[i] = q[i + 1]
      /\ \A i \in DOMAIN q : i # 1 => i - 1 \in DOMAIN r
      /\ \A i \in DOMAIN q : i \in Nat /\ i >= 1
      /\ \A i \in DOMAIN r : i \in Nat /\ i >= 1
    BY SMTT(30)
<1> HIDE DEF r, h
<1>2. CASE \A i \in DOMAIN q : q[i].type # "subscribe"
    BY <1>1, <1>2 DEF EndsWith, r, h
<1>3. ASSUME NEW i \in DOMAIN q, q[i].type = "subscribe", q[i].filter = f,
             \A j \in DOMAIN q : j > i => q[j].type # "subscribe"
      PROVE EndsWith(r, IF h.type = "subscribe" THEN h.filter ELSE old, f)
    <2>1. CASE i = 1
        <3>1. \A j \in DOMAIN r : r[j].type # "subscribe"
            BY <1>1, <1>3, <2>1, SMTT(30)
        <3> QED BY <1>1, <1>3, <2>1, <3>1 DEF EndsWith
    <2>2. CASE i # 1
        <3>1. i - 1 \in DOMAIN r /\ r[i - 1] = q[i]
            BY <1>1, <2>2, SMTT(30)
        <3>2. \A j \in DOMAIN r : j > i - 1 => r[j].type # "subscribe"
            BY <1>1, <1>3, SMTT(30)
        <3> QED BY <1>3, <3>1, <3>2 DEF EndsWith
    <2> QED BY <2>1, <2>2
<1> QED BY <1>2, <1>3 DEF EndsWith, r, h

(* The plugin's filter is the one the application wants, and it is not     *)
(* registered before it has sent its manifest.                             *)
Phases ==
    /\ calm => filter = wanted /\ (rpc = "resubscribe" => held = filter)
    /\ rpc \in {"connect", "register"} => state # "registered"

(* Every step keeps it so: in calm behaviours nothing comes between the    *)
(* read of the filter and the subscription.                                *)
LEMMA NextPhases ==
    ASSUME Inv, Phases, [Next]_vars
    PROVE Phases'
<1>1. UNCHANGED <<clientVars, wanted, calm>> => Phases'
    BY SMTT(30) DEF Phases, clientVars
<1>2. CASE Connect \/ Leave \/ Promote \/ SendManifest
    BY <1>2, SMTT(30) DEF Connect, Leave, Promote, SendManifest, Phases, histVars
<1>3. CASE OnError \/ OnConfig
    BY <1>3, SMTT(30) DEF OnError, OnConfig, TakeDown, Phases, clientVars, histVars
<1>4. CASE Resubscribe
    <2>1. rpc = "resubscribe" /\ rpc' = "recv" /\ UNCHANGED <<wanted, calm>>
        BY <1>4 DEF Resubscribe, histVars
    <2>2. calm => held = filter /\ filter = wanted /\ held # Freed
        BY <2>1, SessionAssumption DEF Phases, Inv, TypeOK, AnyFilter
    <2>3. calm => filter' = filter
        BY <1>4, <2>2 DEF Resubscribe
    <2> QED BY <2>1, <2>2, <2>3 DEF Phases
<1>5. CASE Application
    <2>1. ASSUME NEW f \in Filters, Subscribe(f)
          PROVE Phases'
        BY <2>1 DEF Subscribe, Broadcast, Phases
    <2>2. ASSUME NEW k \in Keys, NEW v \in Values, SetConfigurationValue(k, v)
          PROVE Phases'
        BY <2>2 DEF SetConfigurationValue, Broadcast, Phases
    <2> QED BY <1>5, <2>1, <2>2 DEF Application
<1>6. CASE CoreDies \/ Break \/ UNCHANGED vars
    BY <1>1, <1>6 DEF CoreDies, Break, vars, histVars
<1>7. ASSUME NEW c \in Conns,
             Accept(c) \/ FastProcessor(c) \/ ConfigMonitor(c) \/ TakeDownObject(c)
      PROVE UNCHANGED <<clientVars, wanted, calm>>
    <2>1. CASE FastProcessor(c)
        BY <2>1 DEF FastProcessor, Register, Refuse, IgnoreManifest, CopyValues, SendReply,
            ProcessSubscribe, ProcessConfig, UncaughtNotRegistered, CoreDies, histVars
    <2>2. CASE Accept(c) \/ ConfigMonitor(c) \/ TakeDownObject(c)
        BY <2>2 DEF Accept, ConfigMonitor, ReadTable, ApplyChanges, TakeDownObject, CloseSocket,
            EraseName, Destroy, histVars
    <2> QED BY <1>7, <2>1, <2>2
<1>8. ASSUME NEW k \in Keys, NEW v \in Values, ChangeRow(k, v)
      PROVE UNCHANGED <<clientVars, wanted, calm>>
    BY <1>8 DEF ChangeRow
<1> QED BY <1>1, <1>2, <1>3, <1>4, <1>5, <1>6, <1>7, <1>8 DEF Next, Receive

(* In a calm behaviour what the plugin's own object writes is added to its *)
(* connection, and no other object's configuration is.                     *)
LEMMA OwnWriter ==
    ASSUME Inv, calm, cur \in Conns, ~cut[cur], NEW c \in Conns, NEW m, Write(c, m),
           status[c] \in {"open", "closed", "erased"}
    PROVE down'[cur] = IF c = cur THEN Append(down[cur], m) ELSE down[cur]
<1>1. c = cur => status[cur] = "open"
    BY DEF Inv, Objects
<1>2. c # cur => ~(status[cur] = "open" /\ fd[cur] = fd[c])
    BY DEF Inv, Sockets, BeingDestroyed
<1> QED BY <1>1, <1>2 DEF Write

(* A step that touches neither the values nor their way.                   *)
LEMMA ValuesApart ==
    ASSUME PluginIsTold, UNCHANGED <<calm, cur, cut, mRegistered, fpc, mConfigValues, down, config>>
    PROVE PluginIsTold'
BY DEF PluginIsTold

(* The plugin reads one message.                                           *)
LEMMA ReadingKeepsValues ==
    ASSUME Inv, PluginIsTold, OnError \/ OnConfig
    PROVE PluginIsTold'
<1>1. PICK t : TakeDown(t)
    BY DEF OnError, OnConfig
<1>2. cur \in Conns
    BY <1>1, TakeDownMoves DEF Inv
<1>3. /\ down[cur] \in Seq(DownMsgs) /\ down[cur] # <<>>
      /\ down'[cur] = Tail(down[cur])
    BY <1>1, <1>2 DEF Inv, TypeOK, TakeDown
<1>4. UNCHANGED <<calm, cur, cut, mRegistered, fpc, mConfigValues>>
    BY DEF OnError, OnConfig, clientVars, objVars, histVars
<1>5. ASSUME NEW k \in Keys
      PROVE config'[k] = IF Sets(Head(down[cur]), k) THEN Head(down[cur]).values[k] ELSE config[k]
    <2>1. CASE OnError
        BY <2>1 DEF OnError, TakeDown, Sets, clientVars
    <2>2. CASE OnConfig
        BY <2>2 DEF OnConfig, TakeDown, Sets, Updated
    <2> QED BY <2>1, <2>2
<1>6. ASSUME NEW k \in Keys, NEW v, EndsAs(down[cur], k, config[k], v)
      PROVE EndsAs(down'[cur], k, config'[k], v)
    BY <1>3, <1>5, <1>6, TakenValue
<1> QED BY <1>4, <1>6 DEF PluginIsTold

(* The reply to the registration tells every value that is not the         *)
(* default, the monitor every change.                                      *)
LEMMA SendReplyKeepsValues ==
    ASSUME Inv, PluginIsTold, NEW c \in Conns, SendReply(c)
    PROVE PluginIsTold'
<1> DEFINE new == Only(NotDefault(copy[c]), copy[c])
<1>1. /\ status[c] \in {"open", "closed"} /\ Write(c, ConfigMsg(new))
      /\ fpc'[c] = "idle" /\ \A d \in Conns \ {c} : fpc'[d] = fpc[d]
      /\ UNCHANGED <<calm, cur, cut, mRegistered, mConfigValues, config>>
    BY DEF SendReply, Inv, TypeOK, Threads, clientVars, histVars
<1> SUFFICES ASSUME calm, cur # 0, ~cut[cur], mRegistered[cur], fpc'[cur] = "idle",
                    NEW k \in Keys, mConfigValues[cur][k] # Default[k]
             PROVE EndsAs(down'[cur], k, config[k], mConfigValues[cur][k])
    BY <1>1 DEF PluginIsTold
<1>2. cur \in Conns
    BY SMTT(30) DEF Inv, TypeOK, Conns
<1>3. CASE c # cur
    <2>1. down'[cur] = down[cur]
        BY <1>1, <1>2, <1>3, OwnWriter
    <2> QED BY <1>1, <1>2, <1>3, <2>1 DEF PluginIsTold
<1>4. CASE c = cur
    <2>1. down'[cur] = Append(down[cur], ConfigMsg(new))
        BY <1>1, <1>2, <1>4, OwnWriter
    <2>2. copy[c] = mConfigValues[cur]
        BY <1>4 DEF Inv, Threads, SendReply
    <2>3. mConfigValues[cur][k] \in Values
        BY <1>2 DEF Inv, TypeOK
    <2>4. k \in NotDefault(copy[c])
        BY <2>2, <2>3, SessionAssumption DEF NotDefault
    <2>5. Sets(ConfigMsg(new), k) /\ ConfigMsg(new).values[k] = mConfigValues[cur][k]
        BY <2>2, <2>4 DEF Sets, ConfigMsg, Only
    <2>6. down[cur] \in Seq(DownMsgs)
        BY <1>2 DEF Inv, TypeOK
    <2> HIDE DEF new
    <2> QED BY <2>1, <2>5, <2>6, AddedValue
<1> QED BY <1>3, <1>4

(* The monitor tells the plugin what it changes, behind what it was told.  *)
LEMMA ApplyChangesKeepsValues ==
    ASSUME Inv, PluginIsTold, NEW c \in Conns, ApplyChanges(c)
    PROVE PluginIsTold'
<1> DEFINE new == Only(New(c, snapshot[c]), snapshot[c])
<1>1. /\ status[c] \in {"open", "closed", "erased"} /\ mRegistered[c]
      /\ Write(c, ConfigMsg(new)) \/ (status[c] = "erased" /\ down' = down)
      /\ mConfigValues' = [mConfigValues EXCEPT ![c] = Updated(@, new)]
      /\ UNCHANGED <<calm, cur, cut, mRegistered, fpc, config>>
    BY DEF ApplyChanges, Merge, Inv, Threads, clientVars, histVars
<1> SUFFICES ASSUME calm, cur # 0, ~cut[cur], mRegistered[cur], fpc[cur] = "idle",
                    NEW k \in Keys, mConfigValues'[cur][k] # Default[k]
             PROVE EndsAs(down'[cur], k, config[k], mConfigValues'[cur][k])
    BY <1>1 DEF PluginIsTold
<1>2. cur \in Conns
    BY SMTT(30) DEF Inv, TypeOK, Conns
<1>3. CASE c # cur
    <2>1. down'[cur] = down[cur]
        BY <1>1, <1>2, <1>3, OwnWriter
    <2>2. mConfigValues'[cur] = mConfigValues[cur]
        BY <1>1, <1>2, <1>3 DEF Inv, TypeOK
    <2> QED BY <1>2, <2>1, <2>2 DEF PluginIsTold
<1>4. CASE c = cur
    <2>1. status[c] # "erased"
        BY <1>2, <1>4 DEF Inv, Objects
    <2>2. down'[cur] = Append(down[cur], ConfigMsg(new))
        BY <1>1, <1>2, <1>4, <2>1, OwnWriter
    <2>3. mConfigValues'[cur][k] = IF k \in DOMAIN new THEN new[k] ELSE mConfigValues[cur][k]
        BY <1>1, <1>2, <1>4 DEF Inv, TypeOK, Updated
    <2>4. /\ Sets(ConfigMsg(new), k) <=> k \in DOMAIN new
          /\ ConfigMsg(new).values[k] = new[k]
        BY DEF Sets, ConfigMsg
    <2>5. down[cur] \in Seq(DownMsgs)
        BY <1>2 DEF Inv, TypeOK
    <2> HIDE DEF new
    <2>6. CASE k \in DOMAIN new
        BY <2>2, <2>3, <2>4, <2>5, <2>6, AddedValue
    <2>7. CASE k \notin DOMAIN new
        <3>1. EndsAs(down[cur], k, config[k], mConfigValues[cur][k])
            BY <2>3, <2>7 DEF PluginIsTold
        <3> QED BY <2>2, <2>3, <2>4, <2>5, <2>7, <3>1, AddedValue
    <2> QED BY <2>6, <2>7
<1> QED BY <1>3, <1>4

(* An error says nothing about values.                                     *)
LEMMA AnsweringKeepsValues ==
    ASSUME Inv, PluginIsTold, NEW c \in Conns,
           Refuse(c) \/ IgnoreManifest(c) \/ ProcessSubscribe(c)
    PROVE PluginIsTold'
<1>1. UNCHANGED <<calm, cur, cut, mRegistered, fpc, mConfigValues, config>>
    BY DEF Refuse, IgnoreManifest, ProcessSubscribe, clientVars, objVars, histVars
<1>2. down' = down \/ \E l \in Levels : Write(c, ErrorMsg(l))
    BY DEF Refuse, IgnoreManifest, ProcessSubscribe, Levels
<1>3. CASE down' = down
    BY <1>1, <1>3, ValuesApart
<1>4. ASSUME NEW l \in Levels, Write(c, ErrorMsg(l))
      PROVE PluginIsTold'
    <2>1. cur # 0 => cur \in Conns
        BY SessionAssumption, SMTT(30) DEF Inv, TypeOK, Conns
    <2>2. cur # 0 => down'[cur] \in {down[cur], Append(down[cur], ErrorMsg(l))}
        BY <1>4, <2>1 DEF Write
    <2>3. cur # 0 => down[cur] \in Seq(DownMsgs)
        BY <2>1 DEF Inv, TypeOK
    <2>4. \A k : ~Sets(ErrorMsg(l), k)
        BY DEF ErrorMsg, Sets
    <2>5. ASSUME cur # 0, NEW k, NEW v, EndsAs(down[cur], k, config[k], v)
          PROVE EndsAs(down'[cur], k, config[k], v)
        BY <2>2, <2>3, <2>4, <2>5, AddedValue
    <2> QED BY <1>1, <2>5 DEF PluginIsTold
<1> QED BY <1>2, <1>3, <1>4

(* A connection that is new has no registered object, one that has just    *)
(* registered is about to be told, and of one that is cut nothing is said. *)
LEMMA TurningKeepsValues ==
    ASSUME Inv, PluginIsTold,
           \/ Connect \/ Leave \/ Break \/ CoreDies
           \/ \E c \in Conns : Register(c) \/ CopyValues(c) \/ TakeDownObject(c)
    PROVE PluginIsTold'
<1> USE SessionAssumption DEF Inv
<1>1. cur # 0 => cur \in Conns
    BY SMTT(30) DEF TypeOK, Conns
<1>2. CASE Connect
    <2>1. cur' \in Conns /\ status[cur'] = "none" /\ UNCHANGED mRegistered
        BY <1>2, SMTT(30) DEF Connect, TypeOK, Conns, Objects
    <2>2. ~mRegistered'[cur']
        BY <2>1 DEF Threads
    <2> QED BY <2>2 DEF PluginIsTold
<1>3. CASE Leave \/ Break \/ CoreDies
    <2>1. cur' = cur /\ (cur # 0 => cut'[cur])
        <3>1. CASE Leave \/ Break
            BY <1>1, <3>1 DEF Leave, Break, TypeOK, clientVars
        <3>2. CASE CoreDies
            <4>1. cur # 0 => status[cur] # "none"
                BY <1>1, SMTT(30) DEF Objects, TypeOK
            <4> QED BY <1>1, <3>2, <4>1 DEF CoreDies, clientVars
        <3> QED BY <1>3, <3>1, <3>2
    <2> QED BY <2>1 DEF PluginIsTold
<1>4. ASSUME NEW c \in Conns, Register(c) \/ CopyValues(c)
      PROVE PluginIsTold'
    <2>1. /\ UNCHANGED <<calm, cur, cut, down, config>> /\ fpc'[c] # "idle"
          /\ \A d \in Conns \ {c} : /\ fpc'[d] = fpc[d] /\ mRegistered'[d] = mRegistered[d]
                                    /\ mConfigValues'[d] = mConfigValues[d]
        BY <1>4 DEF Register, CopyValues, TypeOK, clientVars, netVars, histVars
    <2> QED BY <1>1, <2>1 DEF PluginIsTold
<1>5. ASSUME NEW c \in Conns, TakeDownObject(c)
      PROVE PluginIsTold'
    <2>1. /\ cut[c] /\ UNCHANGED <<calm, cur, cut, down, config, fpc>>
          /\ \A d \in Conns \ {c} : /\ mRegistered'[d] = mRegistered[d]
                                    /\ mConfigValues'[d] = mConfigValues[d]
        BY <1>5, TakingDownMoves DEF clientVars, histVars
    <2> QED BY <1>1, <2>1 DEF PluginIsTold
<1> QED BY <1>2, <1>3, <1>4, <1>5

(* Every step keeps the plugin told.                                       *)
LEMMA NextValues ==
    ASSUME Inv, PluginIsTold, [Next]_vars
    PROVE PluginIsTold'
<1> DEFINE Apart == UNCHANGED <<calm, cur, cut, mRegistered, fpc, mConfigValues, down, config>>
<1>1. Apart => PluginIsTold'
    BY ValuesApart
<1>2. CASE Receive
    <2>1. CASE SendManifest \/ Promote \/ Resubscribe
        BY <1>1, <2>1 DEF SendManifest, Promote, Resubscribe, netVars, objVars, histVars
    <2> QED BY <1>2, <2>1, ReadingKeepsValues, TurningKeepsValues DEF Receive
<1>3. CASE Application
    BY <1>1, <1>3 DEF Application, Subscribe, SetConfigurationValue, objVars
<1>4. CASE CoreDies \/ Break
    BY <1>4, TurningKeepsValues
<1>5. ASSUME NEW c \in Conns, Accept(c) \/ ReadTable(c) \/ ProcessConfig(c)
      PROVE PluginIsTold'
    BY <1>1, <1>5 DEF Accept, ReadTable, ProcessConfig, clientVars, netVars, objVars, histVars
<1>6. ASSUME NEW c \in Conns, FastProcessor(c) \/ ConfigMonitor(c) \/ TakeDownObject(c)
      PROVE PluginIsTold'
    BY <1>5, <1>6, SendReplyKeepsValues, ApplyChangesKeepsValues, AnsweringKeepsValues,
        TurningKeepsValues DEF FastProcessor, ConfigMonitor, UncaughtNotRegistered
<1>7. ASSUME NEW k \in Keys, NEW v \in Values, ChangeRow(k, v)
      PROVE PluginIsTold'
    BY <1>1, <1>7 DEF ChangeRow, clientVars, netVars, objVars
<1>8. CASE UNCHANGED vars
    BY <1>1, <1>8 DEF vars, clientVars, netVars, objVars, histVars
<1> QED BY <1>2, <1>3, <1>4, <1>5, <1>6, <1>7, <1>8 DEF Next

(* What the plugin sends is the last word about the filter, or says        *)
(* nothing about it.                                                       *)
LEMMA SendingKeepsFilter ==
    ASSUME Inv, NEW m \in UpMsgs, Broadcast(m),
           UNCHANGED <<calm, cur, cut, sub>>,
           \/ m.type = "subscribe" /\ (calm => m.filter = wanted')
           \/ m.type # "subscribe" /\ CoreIsTold /\ UNCHANGED <<rpc, wanted>>
    PROVE CoreIsTold'
<1> SUFFICES ASSUME calm, cur # 0, ~cut[cur], state' = "registered", rpc' = "recv"
             PROVE EndsWith(up'[cur], sub[cur], wanted')
    BY DEF CoreIsTold
<1>1. cur \in Conns
    BY SessionAssumption, SMTT(30) DEF Inv, TypeOK, Conns
<1>2. state = "registered" /\ up'[cur] = Append(up[cur], m)
    BY <1>1 DEF Broadcast, Live, Inv, TypeOK
<1>3. up[cur] \in Seq(UpMsgs)
    BY <1>1 DEF Inv, TypeOK
<1>4. CASE m.type = "subscribe" /\ m.filter = wanted'
    BY <1>2, <1>3, <1>4, AddedFilter
<1>5. CASE m.type # "subscribe" /\ CoreIsTold /\ UNCHANGED <<rpc, wanted>>
    <2>1. EndsWith(up[cur], sub[cur], wanted')
        BY <1>2, <1>5 DEF CoreIsTold
    <2> QED BY <1>2, <1>3, <1>5, <2>1, AddedFilter
<1> QED BY <1>4, <1>5

(* The fast processor applies a subscription when it takes it, since the   *)
(* plugin is registered.                                                   *)
LEMMA TakingKeepsFilter ==
    ASSUME Inv, CoreIsTold, NEW c \in Conns, NEW t, TakeUp(c, t),
           UNCHANGED <<calm, cur, cut, state, rpc, wanted>>,
           IF t = "subscribe" /\ mRegistered[c]
           THEN sub' = [sub EXCEPT ![c] = Head(up[c]).filter] ELSE sub' = sub
    PROVE CoreIsTold'
<1> SUFFICES ASSUME calm, cur # 0, ~cut[cur], state = "registered", rpc = "recv"
             PROVE EndsWith(up'[cur], sub'[cur], wanted)
    BY DEF CoreIsTold
<1>1. cur \in Conns /\ mRegistered[cur]
    BY SessionAssumption, SMTT(30) DEF Inv, TypeOK, Conns, Served
<1>2. EndsWith(up[cur], sub[cur], wanted)
    BY DEF CoreIsTold
<1>3. CASE c # cur
    <2>1. up'[cur] = up[cur] /\ sub'[cur] = sub[cur]
        BY <1>1, <1>3 DEF TakeUp, Inv, TypeOK
    <2> QED BY <1>2, <2>1
<1>4. CASE c = cur
    <2>1. /\ up'[cur] = Tail(up[cur]) /\ up[cur] \in Seq(UpMsgs) /\ up[cur] # <<>>
          /\ Head(up[cur]).type = t
        BY <1>1, <1>4 DEF TakeUp, Inv, TypeOK
    <2>2. sub'[cur] = IF t = "subscribe" THEN Head(up[cur]).filter ELSE sub[cur]
        BY <1>1, <1>4 DEF Inv, TypeOK
    <2> QED BY <1>2, <2>1, <2>2, TakenFilter
<1> QED BY <1>3, <1>4

(* Every step keeps the core told.                                         *)
LEMMA NextFilter ==
    ASSUME Inv, Phases, Phases', CoreIsTold, [Next]_vars
    PROVE CoreIsTold'
<1>1. UNCHANGED <<calm, cur, cut, state, rpc, up, sub, wanted>> => CoreIsTold'
    BY DEF CoreIsTold
<1>2. CASE Connect \/ Leave \/ Promote
    BY <1>2 DEF Connect, Leave, Promote, CoreIsTold
<1>3. CASE SendManifest
    <2>1. RegisterMsg \in UpMsgs
        BY DEF UpMsgs
    <2>2. state' \in {state, "disconnected"} /\ state # "registered"
        BY <1>3, <2>1, BroadcastMoves DEF SendManifest, Inv, Phases
    <2> QED BY <2>2 DEF CoreIsTold
<1>4. CASE OnError \/ OnConfig
    <2>1. UNCHANGED <<calm, cur, cut, state, up, sub, wanted>> /\ rpc = "recv"
        BY <1>4 DEF OnError, OnConfig, TakeDown, clientVars, objVars, histVars
    <2> QED BY <2>1 DEF CoreIsTold
<1>5. CASE Resubscribe
    <2>1. filter' \in AnyFilter
        BY <1>5 DEF Resubscribe, Inv, TypeOK, AnyFilter
    <2>2. calm => filter' = wanted'
        BY <1>5 DEF Phases, Resubscribe, histVars
    <2> QED BY <1>5, <2>1, <2>2, SendingKeepsFilter DEF Resubscribe, SubscribeMsg, UpMsgs,
            objVars, histVars
<1>6. ASSUME NEW f \in Filters, Subscribe(f)
      PROVE CoreIsTold'
    BY <1>6, SendingKeepsFilter DEF Subscribe, SubscribeMsg, UpMsgs, AnyFilter, objVars
<1>7. ASSUME NEW k \in Keys, NEW v \in Values, SetConfigurationValue(k, v)
      PROVE CoreIsTold'
    <2>1. [i \in {k} |-> v] \in Partial
        <3>1. {k} \in SUBSET Keys /\ [i \in {k} |-> v] \in [{k} -> Values]
            OBVIOUS
        <3> QED BY <3>1 DEF Partial
    <2> QED BY <1>7, <2>1, SendingKeepsFilter DEF SetConfigurationValue, ConfigMsg, UpMsgs, objVars
<1>8. CASE CoreDies \/ Break
    <2>1. cur # 0 => cur \in Conns /\ status[cur] # "none"
        BY SessionAssumption, SMTT(30) DEF Inv, TypeOK, Conns, Objects
    <2>2. cur' = cur /\ (cur # 0 => cut'[cur])
        BY <1>8, <2>1 DEF CoreDies, Break, Inv, TypeOK, clientVars
    <2> QED BY <2>2 DEF CoreIsTold
<1>9. ASSUME NEW c \in Conns, FastProcessor(c)
      PROVE CoreIsTold'
    <2>1. CASE Register(c) \/ Refuse(c) \/ IgnoreManifest(c)
        BY <2>1, TakingKeepsFilter DEF Register, Refuse, IgnoreManifest, clientVars, objVars,
            histVars
    <2>2. CASE ProcessConfig(c)
        BY <2>2, TakingKeepsFilter DEF ProcessConfig, clientVars, objVars, histVars
    <2>3. CASE ProcessSubscribe(c)
        BY <2>3, TakingKeepsFilter DEF ProcessSubscribe, clientVars, histVars
    <2>4. CASE CopyValues(c) \/ SendReply(c)
        BY <1>1, <2>4 DEF CopyValues, SendReply, clientVars, netVars, histVars
    <2> QED BY <1>8, <1>9, <2>1, <2>2, <2>3, <2>4 DEF FastProcessor, UncaughtNotRegistered
<1>10. ASSUME NEW c \in Conns, Accept(c) \/ ConfigMonitor(c)
       PROVE CoreIsTold'
    BY <1>1, <1>10 DEF Accept, ConfigMonitor, ReadTable, ApplyChanges, clientVars, netVars,
        histVars
<1>11. ASSUME NEW c \in Conns, TakeDownObject(c)
       PROVE CoreIsTold'
    <2>1. cur # 0 => cur \in Conns
        BY SessionAssumption, SMTT(30) DEF Inv, TypeOK, Conns
    <2>2. /\ cut[c] /\ UNCHANGED <<calm, cur, cut, state, rpc, wanted>>
          /\ \A d \in Conns \ {c} : up'[d] = up[d] /\ sub'[d] = sub[d]
        BY <1>11, TakingDownMoves DEF clientVars, histVars
    <2> QED BY <2>1, <2>2 DEF CoreIsTold
<1>12. ASSUME NEW k \in Keys, NEW v \in Values, ChangeRow(k, v)
       PROVE CoreIsTold'
    BY <1>1, <1>12 DEF ChangeRow, clientVars, netVars, objVars
<1>13. CASE UNCHANGED vars
    BY <1>1, <1>13 DEF vars, clientVars, netVars, objVars, histVars
<1>14. CASE Receive \/ Application
    BY <1>2, <1>3, <1>4, <1>5, <1>6, <1>7, <1>14 DEF Receive, Application
<1> QED BY <1>8, <1>9, <1>10, <1>11, <1>12, <1>13, <1>14 DEF Next

(* In calm behaviours the two ends agree up to what their connection       *)
(* holds, for every manifest, every set of filters and any number of       *)
(* connections, breaks and restarts of the core.                           *)
THEOREM BothEndsAreTold == Spec => []ToldIfCalm
<1> DEFINE ToldInv == Phases /\ PluginIsTold /\ CoreIsTold
<1>1. Init => ToldInv
    BY DEF Init, Phases, PluginIsTold, CoreIsTold
<1>2. Inv /\ ToldInv /\ [Next]_vars => ToldInv'
    BY NextPhases, NextValues, NextFilter
<1>3. ToldInv => ToldIfCalm
    BY DEF ToldIfCalm
<1> QED BY <1>1, <1>2, <1>3, SessionInvariance, PTL DEF Spec
=============================================================================
