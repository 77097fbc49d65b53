------------------------ MODULE PluginRegistryProofs ------------------------
(***************************************************************************)
(* PluginRegistry's invariants, for any sets of objects and names.         *)
(***************************************************************************)
EXTENDS PluginRegistry, TLAPS

(* Time for the leaves that name no prover.                                *)
USE SMTT(40), ZenonT(40)

(* A core that has not been started satisfies the invariant.               *)
LEMMA InitInv == Init => Inv
BY NamesAssumption DEF Init, Inv, TypeOK, NameInv, HeldByOne, Holds, StatusInv,
   GoneMeansNoItems, AllPlugins, PCs

(* The fields keep their types.                                            *)
LEMMA NextTypeOK == Inv /\ [Next]_vars => TypeOK'
<1>. SUFFICES ASSUME Inv, [Next]_vars PROVE TypeOK'
  OBVIOUS
<1>. USE DEF Inv, TypeOK, PCs, Goto, objVars, rowVars, statusVars, itemVars
<1>1. CASE UNCHANGED vars
  BY <1>1 DEF vars
<1>2. CASE Core
  BY <1>2, ZenonT(30) DEF Core, Start, ResetStatuses, Signalled, SigStatus, SigItems, Die,
              AllStopped, AllPlugins
<1>3. ASSUME NEW p \in Plugins, Object(p) PROVE TypeOK'
  <2>1. CASE Construct(p) \/ \E n \in Names : Reserve(p, n) \/ Refuse(p, n)
    BY <2>1 DEF Construct, Reserve, Refuse, vars
  <2>2. CASE RegisterDb(p) \/ RegisterDbFails(p) \/ RegisterStatus(p)
    BY <2>2, ZenonT(30) DEF RegisterDb, RegisterDbFails, RegisterStatus
  <2>3. CASE \E some \in BOOLEAN : SetStatusItems(p, some)
    BY <2>3, ZenonT(30) DEF SetStatusItems
  <2>4. CASE DestroyName(p) \/ DestroyJoin(p)
    BY <2>4 DEF DestroyName, DestroyJoin
  <2>5. CASE DestroyStatus(p)
    BY <2>5 DEF DestroyStatus, SetStopped, NameInv
  <2>6. CASE DestroyItems(p)
    <3>1. items' \in [Names -> BOOLEAN]
      BY <2>6, ZenonT(30) DEF DestroyItems, RemoveItems
    <3>2. staleItems' \subseteq Names
      BY <2>6 DEF DestroyItems, RemoveItems, NameInv
    <3>. QED
      BY <2>6, <3>1, <3>2 DEF DestroyItems
  <2>. QED
    BY <1>3, <2>1, <2>2, <2>3, <2>4, <2>5, <2>6 DEF Object
<1>. QED
  BY <1>1, <1>2, <1>3 DEF Next

(* An object has a name if and only if it is registered.                   *)
LEMMA NextNameInv == Inv /\ [Next]_vars => NameInv'
<1>. SUFFICES ASSUME Inv, [Next]_vars PROVE NameInv'
  OBVIOUS
<1>. USE NamesAssumption DEF Inv, TypeOK, NameInv, PCs, Goto, objVars
<1>1. CASE UNCHANGED vars
  BY <1>1 DEF vars
<1>2. CASE Core
  BY <1>2 DEF Core, Start, ResetStatuses, Signalled, SigStatus, SigItems, Die, AllPlugins
<1>3. ASSUME NEW p \in Plugins, Object(p) PROVE NameInv'
  <2>1. CASE Construct(p) \/ \E n \in Names : Reserve(p, n) \/ Refuse(p, n)
    BY <2>1 DEF Construct, Reserve, Refuse, MayRegister, vars
  <2>2. CASE RegisterDb(p) \/ RegisterDbFails(p) \/ RegisterStatus(p)
    BY <2>2 DEF RegisterDb, RegisterDbFails, RegisterStatus
  <2>3. CASE \E some \in BOOLEAN : SetStatusItems(p, some)
    BY <2>3 DEF SetStatusItems
  <2>4. CASE DestroyName(p) \/ DestroyJoin(p) \/ DestroyStatus(p)
    BY <2>4 DEF DestroyName, DestroyJoin, DestroyStatus
  <2>5. CASE DestroyItems(p)
    BY <2>5 DEF DestroyItems
  <2>. QED
    BY <1>3, <2>1, <2>2, <2>3, <2>4, <2>5 DEF Object
<1>. QED
  BY <1>1, <1>2, <1>3 DEF Next

(* Reserving inserts a name nobody held; ~Plugin erases the object's own.  *)
LEMMA NextHeldByOne == Inv /\ [Next]_vars => HeldByOne'
<1>. SUFFICES ASSUME Inv, [Next]_vars PROVE HeldByOne'
  OBVIOUS
<1>. USE NamesAssumption DEF Inv, TypeOK, NameInv, HeldByOne, Holds, PCs, Goto, objVars
<1>1. CASE UNCHANGED vars
  BY <1>1 DEF vars
<1>2. CASE Core
  BY <1>2 DEF Core, Start, ResetStatuses, Signalled, SigStatus, SigItems, Die, AllPlugins
<1>3. ASSUME NEW p \in Plugins, Object(p) PROVE HeldByOne'
  <2>1. CASE Construct(p) \/ \E n \in Names : Refuse(p, n)
    BY <2>1 DEF Construct, Refuse, vars
  <2>2. CASE \E n \in Names : Reserve(p, n)
    BY <2>2 DEF Reserve, MayRegister, Taken
  <2>3. CASE RegisterDb(p) \/ RegisterDbFails(p) \/ RegisterStatus(p)
    BY <2>3 DEF RegisterDb, RegisterDbFails, RegisterStatus
  <2>4. CASE \E some \in BOOLEAN : SetStatusItems(p, some)
    BY <2>4 DEF SetStatusItems
  <2>5. CASE DestroyName(p)
    BY <2>5 DEF DestroyName
  <2>6. CASE DestroyJoin(p) \/ DestroyStatus(p) \/ DestroyItems(p)
    BY <2>6 DEF DestroyJoin, DestroyStatus, DestroyItems
  <2>. QED
    BY <1>3, <2>1, <2>2, <2>3, <2>4, <2>5, <2>6 DEF Object
<1>. QED
  BY <1>1, <1>2, <1>3 DEF Next

(* A row that says "running" is answered for by an object whose destructor *)
(* has not written the status yet.                                         *)
LEMMA NextStatusInv == Inv /\ [Next]_vars => StatusInv'
<1>. SUFFICES ASSUME Inv, [Next]_vars PROVE StatusInv'
  OBVIOUS
<1>. USE NamesAssumption
     DEF Inv, TypeOK, NameInv, StatusInv, PCs, Goto, objVars, rowVars, statusVars
<1>1. CASE UNCHANGED vars
  BY <1>1 DEF vars
<1>2. CASE Core
  <2>1. CASE status' = AllStopped
    BY <2>1 DEF AllStopped
  <2>2. CASE Die
    BY <2>2 DEF Die
  <2>. QED
    BY <1>2, <2>1, <2>2 DEF Core, Start, ResetStatuses, Signalled, SigStatus, SigItems
<1>3. ASSUME NEW p \in Plugins, Object(p) PROVE StatusInv'
  <2>1. CASE Construct(p) \/ \E n \in Names : Reserve(p, n) \/ Refuse(p, n)
    BY <2>1 DEF Construct, Reserve, Refuse, MayRegister, vars
  <2>2. CASE RegisterDb(p) \/ RegisterDbFails(p)
    BY <2>2 DEF RegisterDb, RegisterDbFails
  <2>3. CASE RegisterStatus(p)
    BY <2>3 DEF RegisterStatus
  <2>4. CASE \E some \in BOOLEAN : SetStatusItems(p, some)
    BY <2>4 DEF SetStatusItems
  <2>5. CASE DestroyName(p) \/ DestroyJoin(p)
    BY <2>5 DEF DestroyName, DestroyJoin
  <2>6. CASE DestroyStatus(p)
    BY <2>6 DEF DestroyStatus, SetStopped
  <2>7. CASE DestroyItems(p)
    BY <2>7 DEF DestroyItems
  <2>. QED
    BY <1>3, <2>1, <2>2, <2>3, <2>4, <2>5, <2>6, <2>7 DEF Object
<1>. QED
  BY <1>1, <1>2, <1>3 DEF Next

(* Status items belong to a registered object until its last step.         *)
LEMMA NextNoItems == Inv /\ [Next]_vars => GoneMeansNoItems'
<1>. SUFFICES ASSUME Inv, [Next]_vars PROVE GoneMeansNoItems'
  OBVIOUS
<1>. USE NamesAssumption
     DEF Inv, TypeOK, NameInv, GoneMeansNoItems, Alive, PCs, Goto, objVars, rowVars, itemVars
<1>1. CASE UNCHANGED vars
  BY <1>1 DEF vars
<1>2. CASE Core
  BY <1>2, ZenonT(30) DEF Core, Start, ResetStatuses, Signalled, SigStatus, SigItems, Die
<1>3. ASSUME NEW p \in Plugins, Object(p) PROVE GoneMeansNoItems'
  <2>1. CASE Construct(p) \/ \E n \in Names : Reserve(p, n) \/ Refuse(p, n)
    BY <2>1 DEF Construct, Reserve, Refuse, vars
  <2>2. CASE RegisterDb(p) \/ RegisterDbFails(p) \/ RegisterStatus(p)
    BY <2>2 DEF RegisterDb, RegisterDbFails, RegisterStatus
  <2>3. CASE \E some \in BOOLEAN : SetStatusItems(p, some)
    BY <2>3 DEF SetStatusItems
  <2>4. CASE DestroyName(p) \/ DestroyJoin(p) \/ DestroyStatus(p)
    BY <2>4 DEF DestroyName, DestroyJoin, DestroyStatus
  <2>5. CASE DestroyItems(p)
    <3>1. CASE mRegistered[p]
      BY <2>5, <3>1 DEF DestroyItems, RemoveItems
    <3>2. CASE ~mRegistered[p]
      BY <2>5, <3>2 DEF DestroyItems, RemoveItems
    <3>. QED
      BY <3>1, <3>2
  <2>. QED
    BY <1>3, <2>1, <2>2, <2>3, <2>4, <2>5 DEF Object
<1>. QED
  BY <1>1, <1>2, <1>3 DEF Next

(* The inductive invariant holds in every reachable state of the registry. *)
THEOREM Invariance == Spec => []Inv
<1>1. Inv /\ [Next]_vars => Inv'
  BY NextTypeOK, NextNameInv, NextHeldByOne, NextStatusInv, NextNoItems DEF Inv
<1>. QED
  BY InitInv, <1>1, PTL DEF Spec

(* Every field of the registry keeps its type.                             *)
THEOREM TypeCorrectness == Spec => []TypeOK
<1>1. Inv => TypeOK
  BY DEF Inv
<1>. QED
  BY <1>1, Invariance, PTL

(* registerPlugin and ~Plugin give every name to one object at a time.     *)
THEOREM NamesAreExclusive == Spec => []HeldByOne
<1>1. Inv => HeldByOne
  BY DEF Inv
<1>. QED
  BY <1>1, Invariance, PTL

(* Short of a failed statement, a plugin whose objects are all gone is not *)
(* shown as running, across crashes, restarts and overlapping objects.     *)
THEOREM NoGhostIsRunning == Spec => []GoneMeansStopped
<1>1. Inv => GoneMeansStopped
  BY DEF Inv, StatusInv, GoneMeansStopped, Alive
<1>. QED
  BY <1>1, Invariance, PTL

(* Short of a failed statement or a crash, it has no status items either.  *)
THEOREM NoGhostHasItems == Spec => []GoneMeansNoItems
<1>1. Inv => GoneMeansNoItems
  BY DEF Inv
<1>. QED
  BY <1>1, Invariance, PTL
=============================================================================
