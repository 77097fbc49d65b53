--------------------------- MODULE PluginMonitor ---------------------------
(***************************************************************************)
(* TmxCore's PluginMonitor: it starts the enabled plugins, notes when each *)
(* was last heard of, and kills and restarts those that have fallen        *)
(* silent.                                                                 *)
(*                                                                         *)
(* The monitor's thread takes the steps of one round; between any two of   *)
(* them plugins exit, messages arrive (onMessageReceived runs on the       *)
(* threads of the connections), an administrator changes the table of      *)
(* installed plugins, and time passes.  Times are kept as ages, which stop *)
(* at the limit they are compared with.  A pid is free again once the      *)
(* process has been waited for, and the system may give it to any process, *)
(* also to one that is not a plugin.                                       *)
(*                                                                         *)
(* A round also writes a status and a count for display, which the monitor *)
(* never reads; neither is kept.  Building the path of the executable is   *)
(* not modelled: a bad path or a fork that fails is StartFails.  A failed  *)
(* exec is a Start and an Exit: close_fds_if has closed the pipe on which  *)
(* the child would report it.                                              *)
(***************************************************************************)
EXTENDS Naturals

CONSTANTS
    Plugins,       \* the rows of installedPlugin
    Pids,
    MaxStartup,    \* "Max Startup Time (ms)"
    MaxInterval,   \* a maxMessageInterval that is not 0
    Stranger,      \* whatever is not a plugin
    None

VARIABLES
    enabled,    \* installedPlugin.enabled
    interval,   \* installedPlugin.maxMessageInterval
    os,         \* the system's processes
    late,       \* plugins with a message of a dead process still queued
    mMessages,  \* the age of the last message since the last round
    running,    \* mRunningPlugins
    pc,         \* where the monitor's thread is
    listed,     \* enabledPlugins: the interval of each enabled plugin
    todo,       \* the plugins its present loop still has to look at
    waited,     \* the plugin whose pid has been waited for and not yet probed
    dead,       \* deadPlugins
    calm        \* no pid is given away between its waitpid and its probe

vars == <<enabled, interval, os, late, mMessages, running, pc, listed, todo, waited,
          dead, calm>>

tableVars == <<enabled, interval>>
reapVars == <<waited, dead, calm>>
roundVars == <<pc, listed, todo, reapVars>>

(* A process that has been sent SIGKILL is doomed; the other signals need  *)
(* not have any effect.                                                    *)
Free == [of |-> None, state |-> "free"]

Processes ==
    {Free} \union [of : Plugins \union {Stranger}, state : {"alive", "doomed", "zombie"}]

KillStates == {"alive", "TERM", "INT", "KILL"}

Intervals == {0, MaxInterval}

(* PluginMonitoringData and the key it is stored under; `heard` is the age *)
(* of lastReceivedTime, None while that is 0.                              *)
MonitoringData ==
    [pid : Pids, age : 0 .. MaxStartup, heard : (0 .. MaxInterval) \union {None},
     killStatus : KillStates, interval : Intervals]

ASSUME MonitorAssumption ==
    /\ MaxStartup \in Nat \ {0}
    /\ MaxInterval \in Nat \ {0}
    /\ None \notin Nat \union Plugins \union MonitoringData
    /\ Stranger \notin Plugins \union {None}

Init ==
    /\ enabled \in [Plugins -> BOOLEAN]
    /\ interval \in [Plugins -> Intervals]
    /\ os = [pid \in Pids |-> Free]
    /\ late = {}
    /\ mMessages = [p \in Plugins |-> None]
    /\ running = [p \in Plugins |-> None]
    /\ pc = "sleep"
    /\ listed = [p \in Plugins |-> None]
    /\ todo = {}
    /\ waited = None
    /\ dead = {}
    /\ calm \in BOOLEAN

IsTracked(p) == running[p] # None

ProcessesOf(p) == {pid \in Pids : os[pid].of = p}

AliveOf(p) == {pid \in ProcessesOf(p) : os[pid].state = "alive"}

-----------------------------------------------------------------------------
(* The plugins, other processes, the administrator and the clock.          *)

(* onMessageReceived: a message from p, which has been heard of now.       *)
Hear(p) == mMessages' = [mMessages EXCEPT ![p] = 0]

(* A live process has sent something; its registration is the first.       *)
Message(p) ==
    /\ AliveOf(p) # {}
    /\ Hear(p)
    /\ UNCHANGED <<tableVars, os, late, running, roundVars>>

(* What a dead process sent last was still in a queue of its connection.   *)
LateMessage(p) ==
    /\ p \in late
    /\ late' = late \ {p}
    /\ Hear(p)
    /\ UNCHANGED <<tableVars, os, running, roundVars>>

(* A plugin's process ends, of its own accord or by a signal, and keeps    *)
(* its pid; if it was connected it may leave messages behind.              *)
Exit(pid) ==
    /\ os[pid].of \in Plugins
    /\ os[pid].state \in {"alive", "doomed"}
    /\ os' = [os EXCEPT ![pid].state = "zombie"]
    /\ late' \in {late, late \union {os[pid].of}}
    /\ UNCHANGED <<tableVars, mMessages, running, roundVars>>

(* A process that is not a plugin gets a free pid; there is always another *)
(* one left.  When it ends somebody else waits for it.                     *)
StrangerStarts(pid) ==
    /\ os[pid] = Free
    /\ \E other \in Pids \ {pid} : os[other] = Free
    /\ calm /\ waited # None => running[waited].pid # pid
    /\ os' = [os EXCEPT ![pid] = [of |-> Stranger, state |-> "alive"]]
    /\ UNCHANGED <<tableVars, late, mMessages, running, roundVars>>

StrangerEnds(pid) ==
    /\ os[pid].of = Stranger
    /\ os' = [os EXCEPT ![pid] = Free]
    /\ UNCHANGED <<tableVars, late, mMessages, running, roundVars>>

SetEnabled(p, b) ==
    /\ enabled' = [enabled EXCEPT ![p] = b]
    /\ UNCHANGED <<interval, os, late, mMessages, running, roundVars>>

SetInterval(p, i) ==
    /\ interval' = [interval EXCEPT ![p] = i]
    /\ UNCHANGED <<enabled, os, late, mMessages, running, roundVars>>

Older(age, limit) == IF age = limit THEN limit ELSE age + 1

Tick ==
    /\ running' = [p \in Plugins |->
            IF ~IsTracked(p) THEN None
            ELSE [running[p] EXCEPT
                    !.age = Older(@, MaxStartup),
                    !.heard = IF @ = None THEN None ELSE Older(@, MaxInterval)]]
    /\ mMessages' = [p \in Plugins |->
            IF mMessages[p] = None THEN None ELSE Older(mMessages[p], MaxInterval)]
    /\ UNCHANGED <<tableVars, os, late, roundVars>>

-----------------------------------------------------------------------------
(* A round of monitorThreadEntry.                                          *)

(* Under mMessagesLock: the messages of the last round are accounted for.  *)
Fold ==
    /\ pc = "sleep"
    /\ running' = [p \in Plugins |->
            IF IsTracked(p) /\ mMessages[p] # None
            THEN [running[p] EXCEPT !.heard = mMessages[p]]
            ELSE running[p]]
    /\ mMessages' = [p \in Plugins |-> None]
    /\ pc' = "read"
    /\ UNCHANGED <<tableVars, os, late, listed, todo, reapVars>>

(* getInstalledPlugins(true), or a DbException and the round is over.      *)
ReadEnabled ==
    /\ pc = "read"
    /\ listed' = [p \in Plugins |-> IF enabled[p] THEN interval[p] ELSE None]
    /\ todo' = {p \in Plugins : IsTracked(p)}
    /\ pc' = "reap"
    /\ UNCHANGED <<tableVars, os, late, mMessages, running, reapVars>>

ReadFails ==
    /\ pc = "read"
    /\ pc' = "sleep"
    /\ UNCHANGED <<tableVars, os, late, mMessages, running, listed, todo,
                   reapVars>>

(* waitpid(pid, WNOHANG): a child that has ended gives its pid back.       *)
Waitpid(p) ==
    /\ pc = "reap"
    /\ waited = None
    /\ p \in todo
    /\ todo' = todo \ {p}
    /\ waited' = p
    /\ LET pid == running[p].pid IN
        os' = IF os[pid].state = "zombie" THEN [os EXCEPT ![pid] = Free] ELSE os
    /\ UNCHANGED <<tableVars, late, mMessages, running, pc, listed, dead, calm>>

NeverDead(p) == FALSE

DeadOrSignalled(p) ==
    os[running[p].pid] = Free \/ running[p].killStatus # "alive"

(* kill(pid, 0) fails: nobody has the pid.                                 *)
IsDead(p) == os[running[p].pid] = Free

(* A plugin whose pid has been waited for is probed, some time later.      *)
Probe ==
    /\ waited # None
    /\ dead' = IF IsDead(waited) THEN dead \union {waited} ELSE dead
    /\ waited' = None
    /\ UNCHANGED <<tableVars, os, late, mMessages, running, pc, listed, todo, calm>>

(* The dead plugins are erased.                                            *)
Erase ==
    /\ pc = "reap"
    /\ waited = None
    /\ todo = {}
    /\ running' = [p \in Plugins |-> IF p \in dead THEN None ELSE running[p]]
    /\ dead' = {}
    /\ pc' = "signal"
    /\ UNCHANGED <<tableVars, os, late, mMessages, listed, todo, waited, calm>>

(* killIt: p is no longer enabled, has not been heard of in time after its *)
(* start, or not for its interval.                                         *)
MustGo(p) ==
    \/ listed[p] = None
    \/ running[p].heard = None /\ running[p].age = MaxStartup
    \/ /\ running[p].heard # None
       /\ running[p].interval # 0
       /\ listed[p] = 0 \/ running[p].heard = MaxInterval

NextKillStateNoKill(p) ==
    CASE running[p].killStatus = "alive" -> IF MustGo(p) THEN "TERM" ELSE "alive"
      [] running[p].killStatus # "alive" -> "INT"

(* The signal sent to p, after those it has been sent before.              *)
NextKillState(p) ==
    CASE running[p].killStatus = "alive" -> IF MustGo(p) THEN "TERM" ELSE "alive"
      [] running[p].killStatus = "TERM" -> "INT"
      [] running[p].killStatus \in {"INT", "KILL"} -> "KILL"

AllInstalled == Plugins

EnabledPlugins == {p \in Plugins : listed[p] # None}

(* The signals of this round; SIGKILL is sent once.                        *)
Signal ==
    /\ pc = "signal"
    /\ running' = [p \in Plugins |->
            IF IsTracked(p) THEN [running[p] EXCEPT !.killStatus = NextKillState(p)]
            ELSE None]
    /\ os' = [pid \in Pids |->
            IF /\ os[pid].state = "alive"
               /\ \E p \in Plugins : /\ IsTracked(p)
                                     /\ running[p].pid = pid
                                     /\ running[p].killStatus # "KILL"
                                     /\ NextKillState(p) = "KILL"
            THEN [os[pid] EXCEPT !.state = "doomed"]
            ELSE os[pid]]
    /\ todo' = EnabledPlugins
    /\ pc' = "start"
    /\ UNCHANGED <<tableVars, late, mMessages, listed, reapVars>>

(* The last loop looks at p.                                               *)
Visit(p) ==
    /\ pc = "start"
    /\ p \in todo
    /\ todo' = todo \ {p}

Skip(p) ==
    /\ Visit(p)
    /\ IsTracked(p)
    /\ UNCHANGED <<tableVars, os, late, mMessages, running, pc, listed,
                   reapVars>>

Start(p) ==
    /\ Visit(p)
    /\ ~IsTracked(p)
    /\ \E pid \in Pids :
        /\ os[pid] = Free
        /\ os' = [os EXCEPT ![pid] = [of |-> p, state |-> "alive"]]
        /\ running' = [running EXCEPT ![p] =
                [pid |-> pid, age |-> 0, heard |-> None,
                 killStatus |-> "alive", interval |-> listed[p]]]
    /\ UNCHANGED <<tableVars, late, mMessages, pc, listed, reapVars>>

(* What cannot be started is disabled, unless the database fails.          *)
StartFails(p) ==
    /\ Visit(p)
    /\ ~IsTracked(p)
    /\ enabled' \in {enabled, [enabled EXCEPT ![p] = FALSE]}
    /\ UNCHANGED <<interval, os, late, mMessages, running, pc, listed,
                   reapVars>>

(* enabledPlugins goes out of scope.                                       *)
EndRound ==
    /\ pc = "start"
    /\ todo = {}
    /\ listed' = [p \in Plugins |-> None]
    /\ pc' = "sleep"
    /\ UNCHANGED <<tableVars, os, late, mMessages, running, todo, reapVars>>

Monitor ==
    \/ Fold \/ ReadEnabled \/ ReadFails \/ Probe \/ Erase \/ Signal \/ EndRound
    \/ \E p \in Plugins : Waitpid(p) \/ Skip(p) \/ Start(p) \/ StartFails(p)

Environment ==
    \/ \E p \in Plugins :
        \/ Message(p) \/ LateMessage(p)
        \/ \E b \in BOOLEAN : SetEnabled(p, b)
        \/ \E i \in Intervals : SetInterval(p, i)
    \/ \E pid \in Pids : Exit(pid) \/ StrangerStarts(pid) \/ StrangerEnds(pid)
    \/ Tick

Next == Monitor \/ Environment

(* The monitor's thread keeps running, time passes and SIGKILL works.  The *)
(* database does not fail for ever, and neither does every attempt to      *)
(* start a plugin that is left enabled.                                    *)
Fairness ==
    /\ WF_vars(Monitor)
    /\ WF_vars(Tick)
    /\ \A pid \in Pids : WF_vars(os[pid].state = "doomed" /\ Exit(pid))
    /\ SF_vars(ReadEnabled)
    /\ \A p \in Plugins : SF_vars(Start(p))

Spec == Init /\ [][Next]_vars /\ Fairness

-----------------------------------------------------------------------------
TypeOK ==
    /\ enabled \in [Plugins -> BOOLEAN]
    /\ interval \in [Plugins -> Intervals]
    /\ os \in [Pids -> Processes]
    /\ late \subseteq Plugins
    /\ mMessages \in [Plugins -> (0 .. MaxInterval) \union {None}]
    /\ running \in [Plugins -> MonitoringData \union {None}]
    /\ pc \in {"sleep", "read", "reap", "signal", "start"}
    /\ listed \in [Plugins -> Intervals \union {None}]
    /\ todo \subseteq Plugins
    /\ pc = "start" => \A p \in todo : listed[p] # None
    /\ pc = "reap" => \A p \in todo : IsTracked(p)
    /\ waited \in Plugins \union {None}
    /\ dead \subseteq Plugins
    /\ calm \in BOOLEAN

(* There are never two processes of one plugin, however a start, an exit,  *)
(* a kill and the next start follow one another, and whoever is given the  *)
(* pid of one that has ended.                                              *)
OneProcess ==
    \A p \in Plugins : \A pid1, pid2 \in ProcessesOf(p) : pid1 = pid2

(* When the monitor sends its signals and looks for plugins to start, what *)
(* it has on record for a plugin is a process of that plugin, alive or not *)
(* yet waited for, and nobody else's: the system gives no pid away before  *)
(* waitpid, and the record goes with the pid.  Only if the pid was given   *)
(* away between waitpid and kill(pid, 0) does the probe take the new owner *)
(* for the plugin.                                                         *)
TracksItsOwnIfCalm ==
    calm /\ pc # "reap" =>
        \A p \in Plugins : IsTracked(p) => os[running[p].pid].of = p

(* A plugin with a process it should not have, or should not keep.         *)
Unfit(p) ==
    /\ IsTracked(p)
    /\ \/ ~enabled[p]
       \/ running[p].heard = None /\ running[p].age = MaxStartup
       \/ /\ running[p].heard = MaxInterval
          /\ running[p].interval # 0 /\ interval[p] # 0

(* No plugin that is disabled, late or silent stays so for ever: it is     *)
(* heard of again, it is made fit by the administrator, or its process is  *)
(* stopped, even if it ignores SIGTERM and SIGINT.  A plugin whose         *)
(* interval was 0 when it was started is never too silent.                 *)
UnfitIsStoppedIfCalm == calm => \A p \in Plugins : []<>~Unfit(p)

(* A plugin that stays enabled is running again and again, whatever its    *)
(* processes do; the monitor gives it up only by disabling it.  A pid that *)
(* was given away in the window keeps the monitor from starting the plugin *)
(* for as long as its new owner lives.                                     *)
EnabledIsRunningIfCalm ==
    calm => \A p \in Plugins : <>[]enabled[p] => []<>(AliveOf(p) # {})

=============================================================================
