--------------------------- MODULE PluginRegistry ---------------------------
(***************************************************************************)
(* The life of the Plugin objects of TmxCore: the set of names they share, *)
(* their registration, their destruction, and the rows they leave in the   *)
(* pluginStatus table, across restarts of the core.                        *)
(*                                                                         *)
(* Every object is driven by threads of its own, and so are its            *)
(* registration and its destructor; only clientNames has a lock.  Each     *)
(* database statement is one step and may fail with a DbException.  The    *)
(* table is keyed by the plugin's id, which insertOrUpdatePlugin makes a   *)
(* function of its name: a row is known by the name.                       *)
(*                                                                         *)
(* A plugin registers once per object (ivp_receive sends one registration  *)
(* on each connection), but may try again after a refusal.                 *)
(***************************************************************************)
EXTENDS Naturals

CONSTANTS Plugins,       \* Plugin objects (memory that holds one)
          Names,         \* plugin names
          NoName         \* the empty name

ASSUME NamesAssumption == NoName \notin Names

VARIABLES
    core,          \* "down", "starting" or "up"
    sig,           \* where the signal handler is
    clientNames,   \* Plugin::clientNames
    pc,            \* where each object is in its life
    wanted,        \* info.pluginInfo.name of the registration it is in
    mName,         \* mInfo.pluginInfo.name
    mRegistered,
    status,        \* pluginStatus, key '': no row ("none"), "stopped", or a
                   \* status of a live plugin ("running")
    items,         \* pluginStatus, other keys: the name has some
    staleStatus,   \* names whose status outlived a failed write or a crash
    staleItems     \* the same for the status items

vars == <<core, sig, clientNames, pc, wanted, mName, mRegistered,
          status, items, staleStatus, staleItems>>

objVars == <<pc, wanted, mName, mRegistered>>
statusVars == <<status, staleStatus>>
itemVars == <<items, staleItems>>
rowVars == <<statusVars, itemVars>>

PCs == {"none", "idle", "regDb", "regStatus", "dtorJoin", "dtorStatus", "dtorItems"}

AllPlugins(v) == [p \in Plugins |-> v]

(* A fresh database and a core that has not been started.                  *)
Init ==
    /\ core = "down"
    /\ sig = "none"
    /\ clientNames = {}
    /\ pc = AllPlugins("none")
    /\ wanted = AllPlugins(NoName)
    /\ mName = AllPlugins(NoName)
    /\ mRegistered = AllPlugins(FALSE)
    /\ status = [n \in Names |-> "none"]
    /\ items = [n \in Names |-> FALSE]
    /\ staleStatus = {}
    /\ staleItems = {}

Goto(p, from, to) == pc[p] = from /\ pc' = [pc EXCEPT ![p] = to]

-----------------------------------------------------------------------------
(* ivpcore: main, the signal handler, and a death without one.             *)

Start ==
    /\ core = "down"
    /\ core' = "starting"
    /\ UNCHANGED <<sig, clientNames, objVars, rowVars>>

(* UPDATE pluginStatus SET value = 'Stopped / Disconnected' WHERE key = '' *)
AllStopped == [n \in Names |-> IF status[n] = "none" THEN "none" ELSE "stopped"]

(* main marks every plugin stopped before it opens for business.  A        *)
(* failure is logged and ignored.                                          *)
ResetStatuses ==
    /\ core = "starting"
    /\ core' = "up"
    /\ \/ status' = AllStopped /\ staleStatus' = {}
       \/ UNCHANGED statusVars
    /\ UNCHANGED <<sig, clientNames, objVars, itemVars>>

(* The handler for SIGTERM and its like runs beside the other threads,     *)
(* resets the table in two statements and re-raises the signal.  The first *)
(* failure skips the rest.                                                 *)
Signalled ==
    /\ core = "up" /\ sig = "none"
    /\ sig' = "status"
    /\ UNCHANGED <<core, clientNames, objVars, rowVars>>

SigStatus ==
    /\ core = "up" /\ sig = "status"
    /\ \/ sig' = "items" /\ status' = AllStopped
       \/ sig' = "raise" /\ UNCHANGED status
    /\ UNCHANGED <<core, clientNames, objVars, staleStatus, itemVars>>

SigItems ==
    /\ core = "up" /\ sig = "items"
    /\ sig' = "raise"
    /\ \/ items' = [n \in Names |-> FALSE]
       \/ UNCHANGED items
    /\ UNCHANGED <<core, clientNames, objVars, statusVars, staleItems>>

(* The process ends: re-raised, killed, or by an uncaught exception.       *)
Die ==
    /\ core # "down"
    /\ core' = "down"
    /\ sig' = "none"
    /\ clientNames' = {}
    /\ pc' = AllPlugins("none")
    /\ wanted' = AllPlugins(NoName)
    /\ mName' = AllPlugins(NoName)
    /\ mRegistered' = AllPlugins(FALSE)
    /\ staleStatus' = Names
    /\ staleItems' = Names
    /\ UNCHANGED <<status, items>>

-----------------------------------------------------------------------------
(* Plugin::Plugin *)
Construct(p) ==
    /\ Goto(p, "none", "idle")
    /\ UNCHANGED <<core, sig, clientNames, wanted, mName, mRegistered, rowVars>>

(* registerPlugin, first part: under clientLock the name is found free and *)
(* inserted, or the call throws.                                           *)
MayRegister(p) == pc[p] = "idle" /\ ~mRegistered[p]

(* Mutant: the name is inserted without looking.                           *)
TakenNever(n) == FALSE

Taken(n) == n \in clientNames

Reserve(p, n) ==
    /\ MayRegister(p)
    /\ ~Taken(n)
    /\ clientNames' = clientNames \union {n}
    /\ wanted' = [wanted EXCEPT ![p] = n]
    /\ pc' = [pc EXCEPT ![p] = "regDb"]
    /\ UNCHANGED <<core, sig, mName, mRegistered, rowVars>>

(* "Another plugin is registered with the same name."                      *)
Refuse(p, n) ==
    /\ MayRegister(p)
    /\ Taken(n)
    /\ UNCHANGED vars

(* Second part: the plugin's rows are written and its members assigned.    *)
RegisterDb(p) ==
    /\ Goto(p, "regDb", "regStatus")
    /\ mName' = [mName EXCEPT ![p] = wanted[p]]
    /\ mRegistered' = [mRegistered EXCEPT ![p] = TRUE]
    /\ wanted' = [wanted EXCEPT ![p] = NoName]
    /\ UNCHANGED <<core, sig, clientNames, rowVars>>

(* A DbException instead: the call throws and the name stays inserted.     *)
RegisterDbFails(p) ==
    /\ Goto(p, "regDb", "idle")
    /\ wanted' = [wanted EXCEPT ![p] = NoName]
    /\ UNCHANGED <<core, sig, clientNames, mName, mRegistered, rowVars>>

(* Last part: setPluginStatus(RUNNING), whose failure is only logged, and  *)
(* a first message to the router.                                          *)
RegisterStatus(p) ==
    /\ Goto(p, "regStatus", "idle")
    /\ \/ status' = [status EXCEPT ![mName[p]] = "running"]
       \/ UNCHANGED status
    /\ UNCHANGED <<core, sig, clientNames, wanted, mName, mRegistered, staleStatus, itemVars>>

(* setStatusItems and removeStatusItems, on the slow processor thread: it  *)
(* may run beside the registration, but is joined before the destructor.   *)
(* ivp_setStatus sends an item without a key, which is the status itself.  *)
SetStatusItems(p, some) ==
    /\ pc[p] \in {"idle", "regStatus"}
    /\ mRegistered[p]
    /\ items' = [items EXCEPT ![mName[p]] = some]
    /\ \/ status' = [status EXCEPT ![mName[p]] = "running"]
       \/ UNCHANGED status
    /\ UNCHANGED <<core, sig, clientNames, objVars, staleStatus, staleItems>>

-----------------------------------------------------------------------------
(* Plugin::~Plugin.  The name is given back first ...                      *)
DestroyName(p) ==
    /\ Goto(p, "idle", "dtorJoin")
    /\ clientNames' = clientNames \ {mName[p]}
    /\ UNCHANGED <<core, sig, wanted, mName, mRegistered, rowVars>>

(* ... then the configuration monitor is joined and, if the plugin is      *)
(* registered, its subscriptions are withdrawn ...                         *)
DestroyJoin(p) ==
    /\ Goto(p, "dtorJoin", "dtorStatus")
    /\ UNCHANGED <<core, sig, clientNames, wanted, mName, mRegistered, rowVars>>

(* Mutant: the status is not written.                                      *)
DestroyStatusMissing(p) ==
    /\ Goto(p, "dtorStatus", "dtorItems")
    /\ UNCHANGED <<core, sig, clientNames, wanted, mName, mRegistered, rowVars>>

(* setPluginStatus(STOPPED), or a failure that is logged.                  *)
SetStopped(n) ==
    \/ /\ status' = [status EXCEPT ![n] = "stopped"]
       /\ staleStatus' = staleStatus \ {n}
    \/ /\ staleStatus' = staleStatus \union {n}
       /\ UNCHANGED status

(* Mutant: it is written for objects that are not registered, too.         *)
DestroyStatusUnguarded(p) ==
    /\ Goto(p, "dtorStatus", "dtorItems")
    /\ SetStopped(mName[p])
    /\ UNCHANGED <<core, sig, clientNames, wanted, mName, mRegistered, itemVars>>

(* ... and its status is set to stopped.                                   *)
DestroyStatus(p) ==
    /\ Goto(p, "dtorStatus", "dtorItems")
    /\ IF mRegistered[p] THEN SetStopped(mName[p]) ELSE UNCHANGED statusVars
    /\ UNCHANGED <<core, sig, clientNames, wanted, mName, mRegistered, itemVars>>

(* Mutant: the items are left behind.                                      *)
RemoveItemsMissing(p) == UNCHANGED itemVars

(* Its status items go last, by the id in mInfo.  An object that has not   *)
(* registered has never assigned that id: the statement then deletes the   *)
(* items of whatever plugin the memory happens to name, or nothing.        *)
RemoveItems(p) ==
    IF mRegistered[p]
    THEN \/ /\ items' = [items EXCEPT ![mName[p]] = FALSE]
            /\ staleItems' = staleItems \ {mName[p]}
         \/ /\ staleItems' = staleItems \union {mName[p]}
            /\ UNCHANGED items
    ELSE /\ \/ \E n \in Names : items' = [items EXCEPT ![n] = FALSE]
            \/ UNCHANGED items
         /\ UNCHANGED staleItems

DestroyItems(p) ==
    /\ Goto(p, "dtorItems", "none")
    /\ RemoveItems(p)
    /\ mName' = [mName EXCEPT ![p] = NoName]
    /\ mRegistered' = [mRegistered EXCEPT ![p] = FALSE]
    /\ UNCHANGED <<core, sig, clientNames, wanted, statusVars>>

-----------------------------------------------------------------------------
Core ==
    Start \/ ResetStatuses \/ Signalled \/ SigStatus \/ SigItems \/ Die

Object(p) ==
    \/ Construct(p)
    \/ \E n \in Names : Reserve(p, n) \/ Refuse(p, n)
    \/ RegisterDb(p) \/ RegisterDbFails(p) \/ RegisterStatus(p)
    \/ \E some \in BOOLEAN : SetStatusItems(p, some)
    \/ DestroyName(p) \/ DestroyJoin(p) \/ DestroyStatus(p) \/ DestroyItems(p)

Next == Core \/ (core = "up" /\ \E p \in Plugins : Object(p))

Spec == Init /\ [][Next]_vars

-----------------------------------------------------------------------------
TypeOK ==
    /\ core \in {"down", "starting", "up"}
    /\ sig \in {"none", "status", "items", "raise"}
    /\ clientNames \subseteq Names
    /\ pc \in [Plugins -> PCs]
    /\ wanted \in [Plugins -> Names \union {NoName}]
    /\ mName \in [Plugins -> Names \union {NoName}]
    /\ mRegistered \in [Plugins -> BOOLEAN]
    /\ status \in [Names -> {"none", "running", "stopped"}]
    /\ items \in [Names -> BOOLEAN]
    /\ staleStatus \subseteq Names
    /\ staleItems \subseteq Names

(* The object has the name to itself: from the insertion into clientNames  *)
(* to its erasure.                                                         *)
Holds(p, n) ==
    \/ pc[p] = "regDb" /\ wanted[p] = n
    \/ pc[p] \in {"idle", "regStatus"} /\ mRegistered[p] /\ mName[p] = n

(* What makes the invariants below inductive: an object has a name if and  *)
(* only if it is registered, and is registered once it writes its status;  *)
(* a running row that is not stale belongs to an object that has yet to    *)
(* write "stopped".                                                        *)
NameInv ==
    \A p \in Plugins :
        /\ mRegistered[p] <=> mName[p] # NoName
        /\ pc[p] = "regDb" => wanted[p] \in Names /\ ~mRegistered[p]
        /\ pc[p] = "regStatus" => mRegistered[p]
        /\ pc[p] = "none" => ~mRegistered[p]

StatusInv ==
    \A n \in Names \ staleStatus : status[n] = "running" =>
        \E p \in Plugins : mRegistered[p] /\ mName[p] = n /\ pc[p] # "dtorItems"

(* No two objects hold a name, and a name that is held is in clientNames:  *)
(* the check and the insertion are one critical section, and the erasure   *)
(* in ~Plugin takes nobody else's name away.                               *)
HeldByOne ==
    \A p \in Plugins, n \in Names : Holds(p, n) =>
        /\ n \in clientNames
        /\ \A q \in Plugins \ {p} : ~Holds(q, n)

(* When the last object of a name is gone the table does not go on saying  *)
(* that the plugin runs: not after a restart that followed a crash, and in *)
(* whatever order an old object's destructor and a new one's registration  *)
(* have written.  Only a failed statement may leave such a row.            *)
Alive(n) == \E p \in Plugins : mRegistered[p] /\ mName[p] = n

GoneMeansStopped ==
    \A n \in Names \ staleStatus : status[n] = "running" => Alive(n)

(* The same for the status items of a plugin.                              *)
GoneMeansNoItems ==
    \A n \in Names \ staleItems : items[n] => Alive(n)

Inv == TypeOK /\ NameInv /\ HeldByOne /\ StatusInv /\ GoneMeansNoItems

-----------------------------------------------------------------------------
(* Plugin.h: "Only one plugin can be registered with the same name at a    *)
(* given time."                                                            *)
OneRegisteredPerName ==
    \A p, q \in Plugins :
        p # q /\ mRegistered[p] /\ mRegistered[q] => mName[p] # mName[q]

(* Plugin.cpp: a registration is refused because "Another plugin is        *)
(* registered with the same name", or is about to be.                      *)
RefusedForAnother ==
    \A p \in Plugins, n \in Names :
        core = "up" /\ MayRegister(p) /\ Taken(n) =>
            \E q \in Plugins \ {p} : Holds(q, n)
=============================================================================
