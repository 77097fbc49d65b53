------------------------ MODULE PluginMonitorProofs ------------------------
(***************************************************************************)
(* For every set of plugins, every pool of pids and all limits: a plugin   *)
(* has one process at most, whoever is given the pids of dead ones; and if *)
(* no pid is given away between its waitpid and its probe, then what the   *)
(* monitor has on record for a plugin is a process of that plugin.         *)
(*                                                                         *)
(* The invariant follows a pid through the loop that buries the dead: the  *)
(* processes of a plugin are the one on record (AllOnRecord), a plugin in  *)
(* deadPlugins has none left (DeadHaveNone), and in a calm behaviour a pid *)
(* on record belongs to its plugin, unless that is among the dead or has   *)
(* just been waited for, when the pid may be free (OnRecordIfCalm).        *)
(***************************************************************************)
EXTENDS PluginMonitor, TLAPS

(* Time for the leaves that name no prover.                                *)
USE ZenonT(30)

LoopsOver ==
    /\ pc \notin {"reap", "start"} => todo = {}
    /\ pc # "reap" => waited = None /\ dead = {}
    /\ pc = "reap" => waited \notin todo /\ dead \cap todo = {}
    /\ waited # None => IsTracked(waited)

AllOnRecord ==
    \A pid \in Pids : os[pid].of \in Plugins =>
        /\ IsTracked(os[pid].of)
        /\ running[os[pid].of].pid = pid

DeadHaveNone == \A p \in dead : \A pid \in Pids : os[pid].of # p

OnRecordIfCalm ==
    calm => \A p \in Plugins : IsTracked(p) =>
        \/ os[running[p].pid].of = p
        \/ p \in dead
        \/ p = waited /\ os[running[p].pid].of = None

Inv == TypeOK /\ LoopsOver /\ AllOnRecord /\ DeadHaveNone /\ OnRecordIfCalm

(* A step that moves no pid on record and no owner of a pid.               *)
SamePids ==
    \A p \in Plugins : /\ running'[p] = None <=> running[p] = None
                       /\ running[p] # None => running'[p].pid = running[p].pid

SameOwners == \A pid \in Pids : os'[pid].of = os[pid].of

(* Such a step preserves what the invariant says of the processes.         *)
LEMMA SameKeepsInv ==
    ASSUME Inv, TypeOK', LoopsOver', SamePids, SameOwners, UNCHANGED reapVars
    PROVE Inv'
<1> USE MonitorAssumption DEF Inv
<1>0. \A p \in Plugins : running[p] # None => running[p].pid \in Pids
    BY DEF TypeOK, MonitoringData
<1>1. AllOnRecord'
    BY DEF AllOnRecord, SamePids, SameOwners, IsTracked
<1>2. DeadHaveNone'
    BY DEF DeadHaveNone, SameOwners, reapVars
<1>3. OnRecordIfCalm'
    BY <1>0 DEF OnRecordIfCalm, SamePids, SameOwners, IsTracked, reapVars
<1> QED BY <1>1, <1>2, <1>3

(* What a free pid says of its owner, and a taken one.                     *)
LEMMA FreeIsNobodys ==
    ASSUME TypeOK, NEW pid \in Pids
    PROVE /\ os[pid] = Free <=> os[pid].of = None
          /\ os[pid] # Free =>
                os[pid] \in [of : Plugins \union {Stranger},
                             state : {"alive", "doomed", "zombie"}]
<1>1. os[pid] \in Processes
    BY DEF TypeOK
<1>2. Free.of = None
    BY SMTT(30) DEF Free
<1>3. None \notin Plugins \union {Stranger}
    BY MonitorAssumption
<1> QED BY <1>1, <1>2, <1>3, SMTT(30) DEF Processes

(* The plugins, the administrator and the clock leave the owners of the    *)
(* pids alone: an exit leaves a zombie that keeps its pid.                 *)
LEMMA EnvironmentKeepsInv ==
    ASSUME Inv,
           \/ \E p \in Plugins :
                \/ Message(p) \/ LateMessage(p)
                \/ \E b \in BOOLEAN : SetEnabled(p, b)
                \/ \E i \in Intervals : SetInterval(p, i)
           \/ \E pid \in Pids : Exit(pid)
           \/ Tick
    PROVE Inv'
<1> USE MonitorAssumption DEF Inv, Intervals
<1>a. UNCHANGED roundVars
    BY DEF Message, LateMessage, SetEnabled, SetInterval, Exit, Tick
<1>b. UNCHANGED <<pc, listed, todo, waited, dead, calm>>
    BY <1>a DEF roundVars, reapVars
<1>1. ASSUME NEW p \in Plugins, Message(p) \/ LateMessage(p)
      PROVE Inv'
    <2>1. UNCHANGED <<os, running>>
        BY <1>1 DEF Message, LateMessage
    <2>2. TypeOK'
        BY <1>1, <1>b, <2>1, SMTT(30) DEF Message, LateMessage, Hear, tableVars, TypeOK,
            IsTracked
    <2> QED BY <1>b, <2>1, <2>2, SameKeepsInv DEF LoopsOver, SamePids, SameOwners,
            IsTracked, reapVars
<1>2. ASSUME NEW p \in Plugins,
             \/ \E b \in BOOLEAN : SetEnabled(p, b)
             \/ \E i \in Intervals : SetInterval(p, i)
      PROVE Inv'
    <2>1. UNCHANGED <<os, running>>
        BY <1>2 DEF SetEnabled, SetInterval
    <2>2. /\ enabled' \in [Plugins -> BOOLEAN]
          /\ interval' \in [Plugins -> Intervals]
          /\ UNCHANGED <<late, mMessages>>
        <3>1. CASE \E b \in BOOLEAN : SetEnabled(p, b)
            BY <3>1, SMTT(30) DEF SetEnabled, TypeOK
        <3>2. CASE \E i \in Intervals : SetInterval(p, i)
            BY <3>2, SMTT(30) DEF SetInterval, TypeOK
        <3> QED BY <1>2, <3>1, <3>2
    <2>3. TypeOK'
        BY <1>b, <2>1, <2>2 DEF TypeOK, IsTracked
    <2> QED BY <1>b, <2>1, <2>3, SameKeepsInv DEF LoopsOver, SamePids, SameOwners,
            IsTracked, reapVars
<1>4. ASSUME NEW pid \in Pids, Exit(pid)
      PROVE Inv'
    <2>1. os[pid] \in [of : Plugins \union {Stranger},
                       state : {"alive", "doomed", "zombie"}]
        BY <1>4, FreeIsNobodys DEF Exit
    <2>2. os' = [os EXCEPT ![pid] = [of |-> os[pid].of, state |-> "zombie"]]
        <3>1. [os[pid] EXCEPT !.state = "zombie"]
                = [of |-> os[pid].of, state |-> "zombie"]
            BY <2>1, SMTT(30)
        <3> QED BY <1>4, <3>1 DEF Exit
    <2>3. os' \in [Pids -> Processes]
        BY <2>1, <2>2 DEF TypeOK, Processes
    <2>4. late' \subseteq Plugins
        BY <1>4 DEF Exit, TypeOK
    <2>5. UNCHANGED <<enabled, interval, mMessages, running>>
        BY <1>4 DEF Exit, tableVars
    <2>6. TypeOK'
        BY <1>b, <2>3, <2>4, <2>5 DEF TypeOK, IsTracked
    <2>7. SameOwners
        BY <2>1, <2>2, SMTT(30) DEF TypeOK, SameOwners
    <2> QED BY <1>b, <2>5, <2>6, <2>7, SameKeepsInv DEF LoopsOver, SamePids, IsTracked,
            reapVars
<1>5. CASE Tick
    <2>1. \A n \in Nat : \A a \in 0 .. n : Older(a, n) \in 0 .. n
        BY SMTT(30) DEF Older
    <2>2. mMessages' \in [Plugins -> (0 .. MaxInterval) \union {None}]
        BY <1>5, <2>1 DEF Tick, TypeOK
    <2>3. ASSUME NEW p \in Plugins
          PROVE /\ running'[p] \in MonitoringData \union {None}
                /\ running'[p] = None <=> running[p] = None
                /\ running[p] # None => running'[p].pid = running[p].pid
        <3>1. CASE running[p] = None
            BY <1>5, <3>1 DEF Tick, IsTracked
        <3>2. CASE running[p] # None
            <4> DEFINE r == running[p]
            <4>1. r \in MonitoringData
                BY <3>2 DEF TypeOK
            <4>2. PICK a \in 0 .. MaxStartup, h \in (0 .. MaxInterval) \union {None} :
                    running'[p] = [r EXCEPT !.age = a, !.heard = h]
                <5>1. Older(r.age, MaxStartup) \in 0 .. MaxStartup
                    BY <2>1, <4>1 DEF MonitoringData
                <5>2. (IF r.heard = None THEN None ELSE Older(r.heard, MaxInterval))
                        \in (0 .. MaxInterval) \union {None}
                    BY <2>1, <4>1 DEF MonitoringData
                <5>3. running'[p] = [r EXCEPT
                        !.age = Older(r.age, MaxStartup),
                        !.heard = IF r.heard = None THEN None
                                  ELSE Older(r.heard, MaxInterval)]
                    BY <1>5, <3>2 DEF Tick, IsTracked
                <5> QED BY <5>1, <5>2, <5>3
            <4>3. running'[p] \in MonitoringData /\ running'[p].pid = r.pid
                BY <4>1, <4>2 DEF MonitoringData
            <4>4. None \notin MonitoringData
                OBVIOUS
            <4> QED BY <4>3, <4>4, <3>2
        <3> QED BY <3>1, <3>2
    <2>4. running' \in [Plugins -> MonitoringData \union {None}]
        BY <1>5, <2>3 DEF Tick
    <2>5. SamePids
        BY <2>3 DEF SamePids
    <2>6. UNCHANGED <<enabled, interval, os, late>>
        BY <1>5 DEF Tick, tableVars
    <2>7. TypeOK'
        BY <1>b, <2>2, <2>3, <2>4, <2>6 DEF TypeOK, IsTracked
    <2>8. LoopsOver'
        BY <1>b, <2>5 DEF LoopsOver, SamePids, IsTracked, TypeOK
    <2> QED BY <1>b, <2>5, <2>6, <2>7, <2>8, SameKeepsInv DEF SameOwners, reapVars
<1> QED BY <1>1, <1>2, <1>4, <1>5

(* A stranger takes a free pid: it is on nobody's record, except that of a *)
(* dead plugin, or of one waited for in a behaviour that is not calm.      *)
LEMMA StrangersKeepInv ==
    ASSUME Inv, NEW pid \in Pids, StrangerStarts(pid) \/ StrangerEnds(pid)
    PROVE Inv'
<1> USE MonitorAssumption DEF Inv
<1>1. UNCHANGED <<enabled, interval, late, mMessages, running, pc, listed, todo,
                  waited, dead, calm>>
    BY DEF StrangerStarts, StrangerEnds, tableVars, roundVars, reapVars
<1>2. \E r \in {Free, [of |-> Stranger, state |-> "alive"]} :
        os' = [os EXCEPT ![pid] = r]
    BY DEF StrangerStarts, StrangerEnds
<1>3. os' \in [Pids -> Processes]
    <2>1. {Free, [of |-> Stranger, state |-> "alive"]} \subseteq Processes
        BY SMTT(30) DEF Processes
    <2> QED BY <1>2, <2>1 DEF TypeOK
<1>4. TypeOK'
    BY <1>1, <1>3 DEF TypeOK, IsTracked
<1>5. LoopsOver'
    BY <1>1 DEF LoopsOver, IsTracked
<1>6. os'[pid].of \in {None, Stranger}
    BY <1>2, SMTT(30) DEF TypeOK, Free
<1>7. \A d \in Pids \ {pid} : os'[d] = os[d]
    BY <1>2 DEF TypeOK
<1>8. AllOnRecord'
    <2> SUFFICES ASSUME NEW d \in Pids, os'[d].of \in Plugins
                 PROVE running[os'[d].of] # None /\ running[os'[d].of].pid = d
        BY <1>1 DEF AllOnRecord, IsTracked
    <2>1. d # pid
        BY <1>6
    <2>2. os'[d] = os[d]
        BY <1>7, <2>1
    <2> QED BY <2>2 DEF AllOnRecord, IsTracked
<1>9. DeadHaveNone'
    BY <1>1, <1>6, <1>7 DEF DeadHaveNone, TypeOK
<1>10. ASSUME calm, NEW p \in Plugins, running[p] # None
       PROVE \/ os'[running[p].pid].of = p
             \/ p \in dead
             \/ p = waited /\ os'[running[p].pid].of = None
    <2>1. CASE running[p].pid = pid
        <3>1. os[pid].of \in {None, Stranger}
            BY FreeIsNobodys DEF StrangerStarts, StrangerEnds
        <3>2. p \in dead \/ (p = waited /\ os[pid].of = None)
            BY <1>10, <2>1, <3>1 DEF OnRecordIfCalm, IsTracked
        <3>3. CASE p = waited /\ os[pid].of = None
            <4>1. ~StrangerStarts(pid)
                BY <1>10, <2>1, <3>3 DEF StrangerStarts
            <4>2. ~StrangerEnds(pid)
                BY <3>3 DEF StrangerEnds
            <4> QED BY <4>1, <4>2
        <3> QED BY <3>2, <3>3
    <2>2. CASE running[p].pid # pid
        <3>1. running[p].pid \in Pids
            BY <1>10 DEF TypeOK, MonitoringData
        <3>2. os'[running[p].pid] = os[running[p].pid]
            BY <1>7, <2>2, <3>1
        <3> QED BY <1>10, <3>2 DEF OnRecordIfCalm, IsTracked
    <2> QED BY <2>1, <2>2
<1>11. OnRecordIfCalm'
    BY <1>1, <1>10 DEF OnRecordIfCalm, IsTracked
<1> QED BY <1>4, <1>5, <1>8, <1>9, <1>11

(* Steps of the round that leave the processes and the record alone.       *)
LEMMA BookkeepingKeepsInv ==
    ASSUME Inv,
           \/ ReadEnabled \/ ReadFails \/ EndRound
           \/ \E p \in Plugins : Skip(p) \/ StartFails(p)
    PROVE Inv'
<1> USE MonitorAssumption DEF Inv
<1>1. UNCHANGED <<interval, os, late, mMessages, running, waited, dead, calm>>
    BY DEF ReadEnabled, ReadFails, EndRound, Skip, StartFails, tableVars, reapVars
<1>2. TypeOK'
    <2>1. CASE ReadEnabled
        <3>1. listed' \in [Plugins -> Intervals \union {None}]
            BY <2>1 DEF ReadEnabled, TypeOK
        <3> QED BY <2>1, <1>1, <3>1 DEF ReadEnabled, tableVars, TypeOK, IsTracked
    <2>2. CASE ReadFails
        BY <1>1, <2>2 DEF ReadFails, tableVars, TypeOK
    <2>3. CASE EndRound
        <3>1. listed' \in [Plugins -> Intervals \union {None}]
            BY <2>3 DEF EndRound
        <3> QED BY <1>1, <2>3, <3>1 DEF EndRound, tableVars, TypeOK
    <2>4. ASSUME NEW p \in Plugins, Skip(p) \/ StartFails(p)
          PROVE TypeOK'
        <3>1. enabled' \in [Plugins -> BOOLEAN]
            BY <2>4 DEF Skip, StartFails, tableVars, TypeOK
        <3>2. /\ pc = "start" /\ UNCHANGED <<pc, listed>>
              /\ todo' \subseteq todo
            BY <2>4 DEF Skip, StartFails, Visit
        <3> QED BY <1>1, <3>1, <3>2 DEF TypeOK
    <2> QED BY <2>1, <2>2, <2>3, <2>4
<1>3. LoopsOver'
    BY <1>1 DEF ReadEnabled, ReadFails, EndRound, Skip, StartFails, Visit, LoopsOver,
        IsTracked
<1> QED BY <1>1, <1>2, <1>3, SameKeepsInv DEF SamePids, SameOwners, reapVars

(* Fold changes when a plugin was heard of, and nothing else of its record.*)
LEMMA FoldKeepsInv ==
    ASSUME Inv, Fold
    PROVE Inv'
<1> USE MonitorAssumption DEF Inv
<1>1. ASSUME NEW p \in Plugins
      PROVE /\ running'[p] \in MonitoringData \union {None}
            /\ running'[p] = None <=> running[p] = None
            /\ running[p] # None => running'[p].pid = running[p].pid
    <2>1. CASE running'[p] = running[p]
        BY <2>1 DEF TypeOK
    <2>2. CASE running'[p] # running[p]
        <3>1. /\ running'[p] = [running[p] EXCEPT !.heard = mMessages[p]]
              /\ running[p] \in MonitoringData
              /\ mMessages[p] \in 0 .. MaxInterval
            BY <2>2 DEF Fold, IsTracked, TypeOK
        <3>2. running'[p] \in MonitoringData /\ running'[p].pid = running[p].pid
            BY <3>1 DEF MonitoringData
        <3> QED BY <3>1, <3>2
    <2> QED BY <2>1, <2>2
<1>2. running' \in [Plugins -> MonitoringData \union {None}]
    BY <1>1 DEF Fold
<1>3. UNCHANGED <<enabled, interval, os, late, listed, todo, waited, dead, calm>>
    BY DEF Fold, tableVars, reapVars
<1>4. TypeOK'
    BY <1>2, <1>3 DEF Fold, TypeOK
<1>5. SamePids
    BY <1>1 DEF SamePids
<1>6. LoopsOver'
    BY <1>3 DEF Fold, LoopsOver
<1> QED BY <1>3, <1>4, <1>5, <1>6, SameKeepsInv DEF SameOwners, reapVars

(* waitpid gives a pid back only when the plugin it belonged to has just   *)
(* been waited for, by whoever had the pid on record.                      *)
LEMMA WaitpidKeepsInv ==
    ASSUME Inv, NEW p \in Plugins, Waitpid(p)
    PROVE Inv'
<1> USE MonitorAssumption DEF Inv
<1> DEFINE pid == running[p].pid
<1>1. /\ UNCHANGED <<enabled, interval, late, mMessages, running, pc, listed, dead, calm>>
      /\ pc = "reap" /\ waited = None /\ waited' = p /\ p \in todo
      /\ todo' = todo \ {p}
    BY DEF Waitpid, tableVars
<1>2. IsTracked(p) /\ pid \in Pids
    BY <1>1 DEF TypeOK, IsTracked, MonitoringData
<1>3. os' = os \/ os' = [os EXCEPT ![pid] = Free]
    BY DEF Waitpid
<1>4. os' \in [Pids -> Processes]
    BY <1>3 DEF TypeOK, Processes
<1>5. TypeOK'
    BY <1>1, <1>4 DEF TypeOK, IsTracked
<1>6. LoopsOver'
    BY <1>1, <1>2 DEF LoopsOver, IsTracked
<1>7. \A d \in Pids : os'[d] = os[d] \/ (d = pid /\ os'[d].of = None)
    BY <1>3, SMTT(30) DEF TypeOK, Free
<1>8. AllOnRecord'
    BY <1>1, <1>7 DEF AllOnRecord, IsTracked
<1>9. DeadHaveNone'
    BY <1>1, <1>7 DEF DeadHaveNone, TypeOK
<1>10. ASSUME calm, NEW q \in Plugins, running[q] # None
       PROVE \/ os'[running[q].pid].of = q
             \/ q \in dead
             \/ q = p /\ os'[running[q].pid].of = None
    <2>1. running[q].pid \in Pids
        BY <1>10 DEF TypeOK, MonitoringData
    <2>2. os[running[q].pid].of = q \/ q \in dead
        BY <1>1, <1>10 DEF OnRecordIfCalm, IsTracked
    <2>3. CASE running[q].pid = pid /\ q # p
        <3>1. p \notin dead
            BY <1>1 DEF LoopsOver
        <3>2. os[pid].of = p
            BY <1>1, <1>2, <1>10, <3>1 DEF OnRecordIfCalm
        <3> QED BY <2>2, <2>3, <3>2
    <2>4. CASE running[q].pid # pid \/ q = p
        BY <1>7, <2>1, <2>2, <2>4
    <2> QED BY <2>3, <2>4
<1>11. OnRecordIfCalm'
    BY <1>1, <1>10 DEF OnRecordIfCalm, IsTracked
<1> QED BY <1>5, <1>6, <1>8, <1>9, <1>11

(* A plugin found dead has no process: the one it had on record was its    *)
(* only one, and nobody has that pid.                                      *)
LEMMA ProbeKeepsInv ==
    ASSUME Inv, Probe
    PROVE Inv'
<1> USE MonitorAssumption DEF Inv
<1>1. /\ UNCHANGED <<enabled, interval, os, late, mMessages, running, pc, listed, todo,
                     calm>>
      /\ waited # None /\ waited' = None
      /\ dead' = IF IsDead(waited) THEN dead \union {waited} ELSE dead
    BY DEF Probe, tableVars
<1>2. /\ waited \in Plugins /\ IsTracked(waited) /\ pc = "reap"
      /\ running[waited].pid \in Pids
    BY <1>1 DEF TypeOK, LoopsOver, IsTracked, MonitoringData
<1>3. TypeOK'
    BY <1>1, <1>2 DEF TypeOK, IsTracked
<1>4. LoopsOver'
    <2>1. None \notin todo
        BY DEF TypeOK
    <2>2. dead' \cap todo = {}
        BY <1>1, <1>2 DEF LoopsOver
    <2> QED BY <1>1, <1>2, <2>1, <2>2 DEF LoopsOver
<1>5. AllOnRecord'
    BY <1>1 DEF AllOnRecord, IsTracked
<1>6. IsDead(waited) <=> os[running[waited].pid].of = None
    BY <1>2, FreeIsNobodys DEF IsDead
<1>7. IsDead(waited) => \A pid \in Pids : os[pid].of # waited
    <2> SUFFICES ASSUME os[running[waited].pid].of = None, NEW pid \in Pids,
                        os[pid].of = waited
                 PROVE FALSE
        BY <1>6
    <2>1. running[waited].pid = pid
        BY <1>2 DEF AllOnRecord
    <2> QED BY <1>1, <2>1
<1>8. DeadHaveNone'
    BY <1>1, <1>7 DEF DeadHaveNone
<1>9. OnRecordIfCalm'
    BY <1>1, <1>6 DEF OnRecordIfCalm, IsTracked
<1> QED BY <1>3, <1>4, <1>5, <1>8, <1>9

(* Erasing the dead loses sight of no process.                             *)
LEMMA EraseKeepsInv ==
    ASSUME Inv, Erase
    PROVE Inv'
<1> USE MonitorAssumption DEF Inv
<1>1. /\ UNCHANGED <<enabled, interval, os, late, mMessages, listed, todo, waited, calm>>
      /\ pc = "reap" /\ waited = None /\ todo = {} /\ dead' = {} /\ pc' = "signal"
      /\ running' = [p \in Plugins |-> IF p \in dead THEN None ELSE running[p]]
    BY DEF Erase, tableVars
<1>2. running' \in [Plugins -> MonitoringData \union {None}]
    BY <1>1 DEF TypeOK
<1>3. TypeOK'
    BY <1>1, <1>2 DEF TypeOK
<1>4. LoopsOver'
    BY <1>1 DEF LoopsOver
<1>5. AllOnRecord'
    <2> SUFFICES ASSUME NEW pid \in Pids, os[pid].of \in Plugins
                 PROVE running'[os[pid].of] # None /\ running'[os[pid].of].pid = pid
        BY <1>1 DEF AllOnRecord, IsTracked
    <2>1. os[pid].of \notin dead
        BY DEF DeadHaveNone
    <2>2. running'[os[pid].of] = running[os[pid].of]
        BY <1>1, <2>1
    <2> QED BY <2>2 DEF AllOnRecord, IsTracked
<1>6. DeadHaveNone'
    BY <1>1 DEF DeadHaveNone
<1>7. OnRecordIfCalm'
    <2> SUFFICES ASSUME calm, NEW p \in Plugins, running'[p] # None
                 PROVE os[running'[p].pid].of = p
        BY <1>1 DEF OnRecordIfCalm, IsTracked
    <2>1. p \notin dead /\ running'[p] = running[p]
        BY <1>1
    <2> QED BY <1>1, <2>1 DEF OnRecordIfCalm, IsTracked
<1> QED BY <1>3, <1>4, <1>5, <1>6, <1>7

(* Signal moves kill states and dooms processes; no pid changes hands.     *)
LEMMA SignalKeepsInv ==
    ASSUME Inv, Signal
    PROVE Inv'
<1> USE MonitorAssumption DEF Inv
<1>1. ASSUME NEW p \in Plugins
      PROVE /\ running'[p] \in MonitoringData \union {None}
            /\ running'[p] = None <=> running[p] = None
            /\ running[p] # None => running'[p].pid = running[p].pid
    <2>1. CASE running[p] = None
        BY <2>1 DEF Signal, IsTracked
    <2>2. CASE running[p] # None
        <3>1. running[p] \in MonitoringData
            BY <2>2 DEF TypeOK
        <3>2. NextKillState(p) \in KillStates
            <4>1. running[p].killStatus \in KillStates
                BY <3>1 DEF MonitoringData
            <4>2. CASE running[p].killStatus = "alive"
                BY <4>2 DEF NextKillState, KillStates
            <4>3. CASE running[p].killStatus = "TERM"
                BY <4>3 DEF NextKillState, KillStates
            <4>4. CASE running[p].killStatus \in {"INT", "KILL"}
                BY <4>4 DEF NextKillState, KillStates
            <4> QED BY <4>1, <4>2, <4>3, <4>4 DEF KillStates
        <3>3. running'[p] = [running[p] EXCEPT !.killStatus = NextKillState(p)]
            BY <2>2 DEF Signal, IsTracked
        <3>4. running'[p] \in MonitoringData /\ running'[p].pid = running[p].pid
            BY <3>1, <3>2, <3>3 DEF MonitoringData
        <3> QED BY <2>2, <3>4
    <2> QED BY <2>1, <2>2
<1>2. running' \in [Plugins -> MonitoringData \union {None}]
    BY <1>1 DEF Signal
<1>3. ASSUME NEW pid \in Pids
      PROVE os'[pid] \in Processes /\ os'[pid].of = os[pid].of
    <2>1. CASE os'[pid] = os[pid]
        BY <2>1 DEF TypeOK
    <2>2. CASE os'[pid] # os[pid]
        <3>1. /\ os'[pid] = [os[pid] EXCEPT !.state = "doomed"]
              /\ os[pid].state = "alive"
            BY <2>2 DEF Signal
        <3>2. os[pid] # Free
            BY <3>1, SMTT(30) DEF Free
        <3>3. os[pid] \in [of : Plugins \union {Stranger},
                           state : {"alive", "doomed", "zombie"}]
            BY <3>2, FreeIsNobodys
        <3>4. os'[pid] = [of |-> os[pid].of, state |-> "doomed"]
            BY <3>1, <3>3
        <3> QED BY <3>3, <3>4, SMTT(30) DEF Processes
    <2> QED BY <2>1, <2>2
<1>4. os' \in [Pids -> Processes]
    BY <1>3 DEF Signal
<1>5. UNCHANGED <<enabled, interval, late, mMessages, listed, waited, dead, calm>>
    BY DEF Signal, tableVars, reapVars
<1>6. TypeOK'
    BY <1>2, <1>4, <1>5 DEF Signal, EnabledPlugins, TypeOK
<1>7. SamePids /\ SameOwners
    BY <1>1, <1>3 DEF SamePids, SameOwners
<1>8. LoopsOver'
    BY <1>5 DEF Signal, LoopsOver
<1> QED BY <1>5, <1>6, <1>7, <1>8, SameKeepsInv DEF reapVars

(* A plugin that is not tracked has no process, so the new one is the only *)
(* one.  In a calm behaviour the free pid was on nobody's record.          *)
LEMMA StartKeepsInv ==
    ASSUME Inv, NEW p \in Plugins, Start(p)
    PROVE Inv'
<1> USE MonitorAssumption DEF Inv
<1>1. PICK pid \in Pids :
        /\ os[pid] = Free
        /\ os' = [os EXCEPT ![pid] = [of |-> p, state |-> "alive"]]
        /\ running' = [running EXCEPT ![p] =
                [pid |-> pid, age |-> 0, heard |-> None,
                 killStatus |-> "alive", interval |-> listed[p]]]
    BY DEF Start
<1>a. /\ UNCHANGED <<enabled, interval, late, mMessages, pc, listed, waited, dead, calm>>
      /\ pc = "start" /\ p \in todo /\ todo' = todo \ {p} /\ running[p] = None
    BY DEF Start, Visit, tableVars, reapVars, IsTracked
<1>b. waited = None /\ dead = {}
    BY <1>a DEF LoopsOver
<1>2. listed[p] \in Intervals
    BY <1>a DEF TypeOK
<1>3. [pid |-> pid, age |-> 0, heard |-> None,
       killStatus |-> "alive", interval |-> listed[p]] \in MonitoringData
    BY <1>2, SMTT(30) DEF MonitoringData, KillStates
<1>4. [of |-> p, state |-> "alive"] \in Processes
    BY DEF Processes
<1>5. running' \in [Plugins -> MonitoringData \union {None}] /\ os' \in [Pids -> Processes]
    BY <1>1, <1>3, <1>4 DEF TypeOK
<1>6. TypeOK'
    BY <1>a, <1>5 DEF TypeOK
<1>7. LoopsOver'
    BY <1>a, <1>b DEF LoopsOver
<1>8. running'[p] # None /\ running'[p].pid = pid /\ os'[pid].of = p
    BY <1>1, <1>3 DEF TypeOK
<1>9. ASSUME calm, NEW q \in Plugins, running'[q] # None
      PROVE os'[running'[q].pid].of = q
    <2>1. CASE q = p
        BY <1>8, <2>1
    <2>2. CASE q # p
        <3>1. running'[q] = running[q] /\ running[q].pid \in Pids
            BY <1>1, <1>9, <2>2 DEF TypeOK, MonitoringData
        <3>2. os[running[q].pid].of = q
            BY <1>9, <1>b, <3>1 DEF OnRecordIfCalm, IsTracked
        <3>3. running[q].pid # pid
            BY <1>1, <3>2, SMTT(30) DEF Free
        <3> QED BY <1>1, <3>1, <3>2, <3>3 DEF TypeOK
    <2> QED BY <2>1, <2>2
<1>10. OnRecordIfCalm'
    BY <1>9, <1>a DEF OnRecordIfCalm, IsTracked
<1>11. ASSUME NEW d \in Pids, os'[d].of \in Plugins
       PROVE running'[os'[d].of] # None /\ running'[os'[d].of].pid = d
    <2>1. CASE d = pid
        BY <1>8, <2>1
    <2>2. CASE d # pid
        <3>1. os'[d] = os[d]
            BY <1>1, <2>2 DEF TypeOK
        <3>2. running[os[d].of] # None /\ running[os[d].of].pid = d
            BY <1>11, <3>1 DEF AllOnRecord, IsTracked
        <3>3. os[d].of # p
            BY <1>a, <3>2
        <3> QED BY <1>1, <1>11, <3>1, <3>2, <3>3 DEF TypeOK
    <2> QED BY <2>1, <2>2
<1>12. AllOnRecord'
    BY <1>11 DEF AllOnRecord, IsTracked
<1>13. DeadHaveNone'
    BY <1>a, <1>b DEF DeadHaveNone
<1> QED BY <1>6, <1>7, <1>10, <1>12, <1>13

(* The inductive invariant holds in every state.                           *)
THEOREM MonitorInvariance == Spec => []Inv
<1>1. Init => Inv
    <2>1. Init => \A pid \in Pids : os[pid].of = None
        BY SMTT(30) DEF Init, Free
    <2> QED BY <2>1, MonitorAssumption DEF Init, Inv, TypeOK, LoopsOver, AllOnRecord,
            DeadHaveNone, OnRecordIfCalm, IsTracked, Processes
<1>2. Inv /\ [Next]_vars => Inv'
    <2>1. Inv /\ Next => Inv'
        BY EnvironmentKeepsInv, StrangersKeepInv, BookkeepingKeepsInv, FoldKeepsInv,
            WaitpidKeepsInv, ProbeKeepsInv, EraseKeepsInv, SignalKeepsInv,
            StartKeepsInv DEF Next, Monitor, Environment
    <2>2. Inv /\ UNCHANGED vars => Inv'
        <3> SUFFICES ASSUME Inv, UNCHANGED vars PROVE Inv'
            OBVIOUS
        <3>1. TypeOK' /\ LoopsOver'
            BY DEF vars, Inv, TypeOK, LoopsOver, IsTracked
        <3> QED BY <3>1, SameKeepsInv DEF vars, SamePids, SameOwners, reapVars
    <2> QED BY <2>1, <2>2
<1> QED BY <1>1, <1>2, PTL DEF Spec

(* TypeOK always holds; the last loop of a round never visits a plugin     *)
(* that was not read as enabled.                                           *)
THEOREM MonitorTypes == Spec => []TypeOK
<1>1. Inv => TypeOK
    BY DEF Inv
<1> QED BY <1>1, MonitorInvariance, PTL

(* In a calm behaviour the record and the processes agree whenever the     *)
(* signals are sent, for every pool of pids and whoever else uses it: what *)
(* the monitor signals is a process it started for that plugin.            *)
THEOREM SignalsItsOwnIfCalm == Spec => []TracksItsOwnIfCalm
<1>1. Inv => TracksItsOwnIfCalm
    BY DEF Inv, LoopsOver, OnRecordIfCalm, TracksItsOwnIfCalm, TypeOK
<1> QED BY <1>1, MonitorInvariance, PTL

(* A plugin never has two processes, in any behaviour.                     *)
THEOREM AtMostOneProcess == Spec => []OneProcess
<1>1. Inv => OneProcess
    BY DEF Inv, AllOnRecord, OneProcess, ProcessesOf
<1> QED BY <1>1, MonitorInvariance, PTL

=============================================================================
