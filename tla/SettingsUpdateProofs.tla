------------------------ MODULE SettingsUpdateProofs ------------------------
(***************************************************************************)
(* SettingsUpdate for any snapshots and any list of executors: types, what *)
(* survives a crash, and which settings are in effect between updates; and *)
(* EngineRouting for any list of leaves and any calls: each leaf is made   *)
(* once and follows the updates.                                           *)
(***************************************************************************)
EXTENDS EngineRouting, TLAPS

\* Every executor has a position in the list, every position an executor.
LEMMA ChildrenTyped ==
    /\ Len(Children) \in Nat
    /\ \A i \in 1 .. Len(Children) : Children[i] \in Child
    /\ \A c \in Child : \E i \in 1 .. Len(Children) : c = Children[i]
BY SettingsAssumption DEF Child

\* The process starts at rest, on the settings of the file.
LEMMA InitIInv == Init => IInv
BY ChildrenTyped DEF Init, IInv, TypeOK, AcknowledgedIsDurable, NothingUnexpected,
     AtRest, Updating, NoBuild, NoUpdate

\* Types are kept by every step of an update, of a construction and by a crash.
LEMMA TypeStep == ASSUME TypeOK, [Next]_vars PROVE TypeOK'
<1> USE SettingsAssumption, ChildrenTyped DEF TypeOK, NoBuild, NoUpdate, Mishap
<1>1. ASSUME NEW s \in Snapshots, UpdateBegin(s) PROVE TypeOK'
  BY <1>1 DEF UpdateBegin
<1>2. ASSUME NEW c \in Child, ConfigureExecutor(c) PROVE TypeOK'
  <2>1. held' \in [Child -> Snapshots]
    BY <1>2 DEF ConfigureExecutor
  <2>2. upd' \in [pc : {"none", "configure", "adapter", "publish"}, target : Snapshots,
                  undo : BOOLEAN, next : 1 .. Len(Children) + 1]
    <3>1. CASE adapter[c] = NotBuilt
      <4>1. upd' = [upd EXCEPT !.next = upd.next + 1] /\ upd.next <= Len(Children)
        BY <1>2, <3>1 DEF ConfigureExecutor, Turn
      <4>2. upd.next + 1 \in 1 .. Len(Children) + 1
        BY <4>1, SMTT(30)
      <4> QED BY <4>1, <4>2
    <3>2. CASE adapter[c] # NotBuilt
      BY <1>2, <3>2 DEF ConfigureExecutor
    <3> QED BY <3>1, <3>2
  <2> QED BY <1>2, <2>1, <2>2 DEF ConfigureExecutor
<1>3. ASSUME NEW c \in Child, ConnectionInvalid(c) PROVE TypeOK'
  BY <1>3, SMTT(30) DEF ConnectionInvalid
<1>4. ASSUME NEW c \in Child, AdapterAccepts(c) PROVE TypeOK'
  <2>1. upd' = [upd EXCEPT !.pc = "configure", !.next = upd.next + 1]
        /\ upd.next <= Len(Children)
    BY <1>4 DEF AdapterAccepts, Turn
  <2>2. upd' \in [pc : {"none", "configure", "adapter", "publish"}, target : Snapshots,
                  undo : BOOLEAN, next : 1 .. Len(Children) + 1]
    <3>1. upd.next + 1 \in 1 .. Len(Children) + 1
      BY <2>1, SMTT(30)
    <3> QED BY <2>1, <3>1
  <2>3. adapter' \in [Child -> Snapshots \cup {NotBuilt, Unset}]
    BY <1>4 DEF AdapterAccepts
  <2> QED BY <1>4, <2>2, <2>3 DEF AdapterAccepts
<1>5. ASSUME NEW c \in Child, AdapterRefuses(c) PROVE TypeOK'
  BY <1>5, SMTT(30) DEF AdapterRefuses
<1>6. ASSUME NEW c \in Child, Build(c) PROVE TypeOK'
  <2>1. build' \in [Child -> [pc : {"none", "read", "apply"}, got : Snapshots \cup {Unset}]]
    <3>1. build' = [build EXCEPT ![c] = [build[c] EXCEPT !.pc = "read"]]
      BY <1>6 DEF Build
    <3>2. build[c] \in [pc : {"none", "read", "apply"}, got : Snapshots \cup {Unset}]
      BY <1>6
    <3>3. [build[c] EXCEPT !.pc = "read"]
            \in [pc : {"none", "read", "apply"}, got : Snapshots \cup {Unset}]
      BY <3>2
    <3> QED BY <3>1, <3>3
  <2>2. adapter' \in [Child -> Snapshots \cup {NotBuilt, Unset}]
    BY <1>6 DEF Build
  <2>3. mishaps' \subseteq {"overlap", "refusal"}
    BY <1>6 DEF Build
  <2> QED BY <1>6, <2>1, <2>2, <2>3 DEF Build
<1>7. ASSUME NEW c \in Child, BuildReads(c) PROVE TypeOK'
  BY <1>7 DEF BuildReads
<1>8. ASSUME NEW c \in Child, BuildApplies(c) PROVE TypeOK'
  BY <1>8 DEF BuildApplies
<1>9. ASSUME NEW c \in Child, BuildRefused(c) PROVE TypeOK'
  BY <1>9 DEF BuildRefused
<1>10. ASSUME RollbackEnds PROVE TypeOK'
  BY <1>10 DEF RollbackEnds
<1>11. ASSUME Store PROVE TypeOK'
  BY <1>11 DEF Store
<1>12. ASSUME StoreFails PROVE TypeOK'
  BY <1>12 DEF StoreFails, Rollback
<1>13. ASSUME Publish PROVE TypeOK'
  BY <1>13 DEF Publish
<1>14. ASSUME Crash PROVE TypeOK'
  BY <1>14 DEF Crash, Loaded
<1>15. ASSUME UNCHANGED vars PROVE TypeOK'
  BY <1>15 DEF vars
<1> QED
  BY <1>1, <1>2, <1>3, <1>4, <1>5, <1>6, <1>7, <1>8, <1>9, <1>10, <1>11, <1>12,
     <1>13, <1>14, <1>15 DEF Next

\* Only Store writes the file, and only Publish comes after it.
LEMMA DurableStep ==
  ASSUME TypeOK, AcknowledgedIsDurable, [Next]_vars PROVE AcknowledgedIsDurable'
<1> USE DEF AcknowledgedIsDurable
<1>1. CASE Store
  BY <1>1 DEF Store, TypeOK
<1>2. CASE Publish
  BY <1>2 DEF Publish, TypeOK
<1>3. CASE StoreFails
  BY <1>3 DEF StoreFails, Configured, Rollback, TypeOK
<1>4. CASE Crash
  BY <1>4 DEF Crash, Loaded
<1>5. CASE RollbackEnds
  BY <1>5 DEF RollbackEnds, Configured, NoUpdate
<1>6. CASE UNCHANGED vars
  BY <1>6 DEF vars
<1>7. ASSUME NEW s \in Snapshots, UpdateBegin(s) PROVE AcknowledgedIsDurable'
  BY <1>7 DEF UpdateBegin, Updating
<1>8. ASSUME NEW c \in Child,
             \/ ConfigureExecutor(c) \/ ConnectionInvalid(c)
             \/ AdapterAccepts(c) \/ AdapterRefuses(c)
      PROVE  AcknowledgedIsDurable'
  <2>1. upd.pc \in {"configure", "adapter"} /\ UNCHANGED <<settings, disk>>
    BY <1>8 DEF ConfigureExecutor, ConnectionInvalid, AdapterAccepts, AdapterRefuses
  <2>2. upd'.pc # "publish"
    <3>1. CASE ConfigureExecutor(c)
      BY <3>1 DEF ConfigureExecutor, TypeOK
    <3>2. CASE ConnectionInvalid(c) \/ AdapterRefuses(c)
      BY <3>2 DEF ConnectionInvalid, AdapterRefuses, NoUpdate
    <3>3. CASE AdapterAccepts(c)
      BY <3>3 DEF AdapterAccepts, TypeOK
    <3> QED BY <1>8, <3>1, <3>2, <3>3
  <2> QED BY <2>1, <2>2
<1>9. ASSUME NEW c \in Child, Build(c) \/ BuildReads(c) \/ BuildApplies(c) \/ BuildRefused(c)
      PROVE  AcknowledgedIsDurable'
  BY <1>9 DEF Build, BuildReads, BuildApplies, BuildRefused
<1> QED
  BY <1>1, <1>2, <1>3, <1>4, <1>5, <1>6, <1>7, <1>8, <1>9 DEF Next

\* An executor passed by the update is on its target; at the end all have been passed.
LEMMA AllPassed ==
  ASSUME TypeOK, UpdateOnItsWay, upd.next > Len(Children)
  PROVE  \A c \in Child : held[c] = upd.target /\ adapter[c] \in {NotBuilt, upd.target}
BY ChildrenTyped DEF TypeOK, UpdateOnItsWay, Passed

\* The executor whose turn it is joins those that run on the target.
LEMMA TurnPassed ==
  ASSUME TypeOK, TypeOK', UpdateOnItsWay, NEW c \in Child, Turn(c),
         upd'.target = upd.target, upd'.next = upd.next + 1,
         \A d \in Child : held'[d] = IF d = c THEN upd.target ELSE held[d],
         \A d \in Child : adapter'[d] = adapter[d] \/ (d = c /\ adapter'[d] = upd.target),
         adapter'[c] \in {NotBuilt, upd.target}
  PROVE  Passed(upd.next - 1)'
BY ChildrenTyped DEF TypeOK, UpdateOnItsWay, Passed, Turn

\* Without a mishap an update and the construction of an adapter do not overlap, an
\* update leaves every executor it passed on its target, and whatever ends it leaves
\* all of them on the settings of the module.
LEMMA EffectStep ==
  ASSUME IInv, TypeOK', [Next]_vars PROVE NothingUnexpected'
<1> USE DEF IInv, NothingUnexpected, Mishap, NoBuild, NoUpdate
<1> SUFFICES ASSUME mishaps' = {}
             PROVE  IF Updating' THEN UpdateOnItsWay' ELSE AtRest'
  OBVIOUS
<1> USE ChildrenTyped DEF TypeOK
<1>1. ASSUME NEW s \in Snapshots, UpdateBegin(s) PROVE NothingUnexpected'
  BY <1>1 DEF UpdateBegin, UpdateOnItsWay, Passed, Updating, Building
<1>2. ASSUME NEW c \in Child, ConfigureExecutor(c) PROVE NothingUnexpected'
  <2>1. UpdateOnItsWay /\ mishaps = {} /\ Turn(c)
    BY <1>2 DEF ConfigureExecutor, Updating
  <2>2. CASE adapter[c] = NotBuilt
    <3>1. Passed(upd.next - 1)'
      BY <1>2, <2>1, <2>2, TurnPassed DEF ConfigureExecutor
    <3> QED BY <1>2, <2>1, <2>2, <3>1 DEF ConfigureExecutor, UpdateOnItsWay, Updating, Turn
  <2>3. CASE adapter[c] # NotBuilt
    BY <1>2, <2>1, <2>3 DEF ConfigureExecutor, UpdateOnItsWay, Passed, Updating, Turn
  <2> QED BY <2>2, <2>3
<1>3. ASSUME NEW c \in Child, ConnectionInvalid(c) PROVE NothingUnexpected'
  BY <1>3 DEF ConnectionInvalid
<1>4. ASSUME NEW c \in Child, AdapterAccepts(c) PROVE NothingUnexpected'
  <2>1. UpdateOnItsWay /\ mishaps = {} /\ Turn(c)
    BY <1>4 DEF AdapterAccepts, Updating
  <2>2. Passed(upd.next - 1)'
    <3>1. held[c] = upd.target
      BY <1>4, <2>1 DEF AdapterAccepts, UpdateOnItsWay, Turn
    <3> QED BY <1>4, <2>1, <3>1, TurnPassed DEF AdapterAccepts
  <2> QED BY <1>4, <2>1, <2>2 DEF AdapterAccepts, UpdateOnItsWay, Updating, Turn
<1>5. ASSUME NEW c \in Child, AdapterRefuses(c) PROVE NothingUnexpected'
  BY <1>5 DEF AdapterRefuses
<1>6. ASSUME NEW c \in Child, Build(c) PROVE NothingUnexpected'
  <2>1. ~Updating /\ AtRest /\ mishaps = {}
    BY <1>6 DEF Build
  <2> QED BY <1>6, <2>1 DEF Build, AtRest, Updating
<1>7. ASSUME NEW c \in Child, BuildReads(c) PROVE NothingUnexpected'
  <2>1. ~Updating /\ AtRest
    BY <1>7 DEF BuildReads, UpdateOnItsWay
  <2> QED BY <1>7, <2>1 DEF BuildReads, AtRest, Updating
<1>8. ASSUME NEW c \in Child, BuildApplies(c) PROVE NothingUnexpected'
  <2>1. ~Updating /\ AtRest
    BY <1>8 DEF BuildApplies, UpdateOnItsWay
  <2> QED BY <1>8, <2>1 DEF BuildApplies, AtRest, Updating
<1>9. ASSUME NEW c \in Child, BuildRefused(c) PROVE NothingUnexpected'
  BY <1>9 DEF BuildRefused
<1>10. ASSUME RollbackEnds PROVE NothingUnexpected'
  <2>1. UpdateOnItsWay /\ upd.next > Len(Children) /\ upd.target = settings
    BY <1>10 DEF RollbackEnds, Configured, Updating, UpdateOnItsWay
  <2> QED BY <1>10, <2>1, AllPassed DEF RollbackEnds, AtRest, UpdateOnItsWay, Updating
<1>11. ASSUME Store PROVE NothingUnexpected'
  BY <1>11 DEF Store, Configured, UpdateOnItsWay, Passed, Updating
<1>12. ASSUME StoreFails PROVE NothingUnexpected'
  BY <1>12 DEF StoreFails, Configured, Rollback, UpdateOnItsWay, Passed, Updating
<1>13. ASSUME Publish PROVE NothingUnexpected'
  <2>1. UpdateOnItsWay /\ upd.next > Len(Children)
    BY <1>13 DEF Publish, Updating, UpdateOnItsWay
  <2> QED BY <1>13, <2>1, AllPassed DEF Publish, AtRest, UpdateOnItsWay, Updating
<1>14. ASSUME Crash PROVE NothingUnexpected'
  BY <1>14 DEF Crash, Loaded, AtRest, Updating
<1>15. ASSUME UNCHANGED vars PROVE NothingUnexpected'
  BY <1>15 DEF vars, UpdateOnItsWay, Passed, AtRest, Updating
<1> QED
  BY <1>1, <1>2, <1>3, <1>4, <1>5, <1>6, <1>7, <1>8, <1>9, <1>10, <1>11, <1>12,
     <1>13, <1>14, <1>15 DEF Next

\* The invariant holds throughout, for any executors, adapters and snapshots.
THEOREM Invariance == Spec => []IInv
<1>1. IInv /\ [Next]_vars => IInv'
  BY TypeStep, DurableStep, EffectStep DEF IInv
<1> QED BY InitIInv, <1>1, PTL DEF Spec

\* Type correctness of the settings state.
THEOREM TypeCorrect == Spec => []TypeOK
BY Invariance, PTL DEF IInv

\* The file holds the acknowledged settings or those about to be acknowledged,
\* wherever a crash, a refusal or a failed store cuts an update short.
THEOREM Durability == Spec => []AcknowledgedIsDurable
BY Invariance, PTL DEF IInv

\* Between updates every executor and every adapter runs on the module's settings,
\* unless an executor raised or an adapter was built during an update.
THEOREM InEffectBetweenUpdates == Spec => []SettingsInEffect
<1>1. IInv => SettingsInEffect
  BY DEF IInv, TypeOK, NothingUnexpected, SettingsInEffect, InEffect, AtRest, Building
<1> QED BY Invariance, <1>1, PTL

-----------------------------------------------------------------------------
(* The leaves of the routing adapter (EngineRouting).                        *)

routed == <<vars, routing>>

LEMMA LeavesTyped ==
    /\ Len(Leaves) \in Nat \ {0} /\ Router \in Child
    /\ \A i \in 1 .. Len(Leaves) : Leaves[i] \in Leaf
    /\ \A l \in Leaf : \E i \in 1 .. Len(Leaves) : l = Leaves[i]
    /\ Leaves[1] \in Leaf
<1>1. Leaves \in Seq(Leaf) /\ Leaves # <<>> /\ Router \in Child
  BY RoutingAssumption
<1>2. Len(Leaves) \in Nat \ {0} /\ DOMAIN Leaves = 1 .. Len(Leaves)
  BY <1>1
<1> QED BY <1>1, <1>2 DEF Leaf

LEMMA Handings ==
  /\ Handing("update") <=> upd.pc = "adapter" /\ Turn(Router)
  /\ Handing("build") <=> build[Router].pc = "apply"
  /\ Handlers = {"update", "build"}
BY DEF Handing, Handlers

\* A leaf refuses as its adapter does, also while nothing overlaps.
LEMMA RoutedRefines ==
  ASSUME [RoutedNext]_routed
  PROVE  [Next]_vars \/ \E who \in Handlers : LeafRefuses(who)
BY LeavesTyped
   DEF RoutedNext, Unrouted, Use, Lock, Make, MakeFails, PassOn, RouterAccepts, RouterBuilt,
       RoutedCrash, Next, routed

LEMMA LeafRefusal ==
  ASSUME IInv, NEW who \in Handlers, LeafRefuses(who)
  PROVE  IInv'
<1>1. /\ UNCHANGED <<settings, disk, held, adapter>>
      /\ mishaps' = mishaps \cup {"refusal"}
      /\ IF who = "update" THEN upd' = NoUpdate /\ UNCHANGED build
         ELSE build' = [build EXCEPT ![Router] = NoBuild] /\ UNCHANGED upd
      /\ Handing(who)
  BY DEF LeafRefuses, Mishap
<1>2. TypeOK'
  <2>0. TypeOK
    BY DEF IInv
  <2>1. upd' \in [pc : {"none", "configure", "adapter", "publish"}, target : Snapshots,
                  undo : BOOLEAN, next : 1 .. Len(Children) + 1]
    <3>1. settings \in Snapshots /\ 1 \in 1 .. Len(Children) + 1
      BY <2>0, ChildrenTyped DEF TypeOK
    <3>2. upd' = upd \/ upd' = NoUpdate
      BY <1>1
    <3>3. NoUpdate \in [pc : {"none", "configure", "adapter", "publish"}, target : Snapshots,
                          undo : BOOLEAN, next : 1 .. Len(Children) + 1]
      BY <3>1 DEF NoUpdate
    <3> QED BY <2>0, <3>2, <3>3 DEF TypeOK
  <2>2. build' \in [Child -> [pc : {"none", "read", "apply"}, got : Snapshots \cup {Unset}]]
    BY <1>1, <2>0 DEF TypeOK, NoBuild
  <2> QED BY <1>1, <2>0, <2>1, <2>2 DEF TypeOK
<1>3. AcknowledgedIsDurable'
  <2>1. CASE who = "update"
    <3>1. upd.pc = "adapter" /\ upd'.pc = "none"
      BY <1>1, <2>1, Handings DEF NoUpdate
    <3> QED BY <1>1, <3>1 DEF IInv, AcknowledgedIsDurable
  <2>2. CASE who # "update"
    BY <1>1, <2>2 DEF IInv, AcknowledgedIsDurable
  <2> QED BY <2>1, <2>2
<1>4. NothingUnexpected'
  BY <1>1 DEF NothingUnexpected
<1> QED BY <1>2, <1>3, <1>4 DEF IInv

LEMMA InnerStep == IInv /\ [RoutedNext]_routed => IInv'
BY RoutedRefines, LeafRefusal, TypeStep, DurableStep, EffectStep DEF IInv

\* The kinds of steps, by what they leave alone.
LEMMA RoutedKinds ==
  ASSUME [RoutedNext]_routed
  PROVE  \/ UNCHANGED routing /\ [Unrouted]_vars
         \/ UNCHANGED <<vars, passed>> /\ \E t \in Calls :
              (\E l \in Leaf : Use(t, l)) \/ Lock(t) \/ Make(t) \/ MakeFails(t)
         \/ \E who \in Handlers : PassOn(who) \/ LeafRefuses(who)
         \/ RouterAccepts \/ RouterBuilt \/ RoutedCrash
BY DEF RoutedNext, routed, Use, Lock, Make, MakeFails

CallType == [pc : {"idle", "lock", "make"}, leaf : Leaf]

\* What a call does: it moves alone.
LEMMA Calling ==
  ASSUME RoutedTypeOK, NEW t \in Calls,
         (\E l \in Leaf : Use(t, l)) \/ Lock(t) \/ Make(t) \/ MakeFails(t)
  PROVE  /\ call' \in [Calls -> CallType] /\ \A u \in Calls \ {t} : call'[u] = call[u]
         /\ (\E l \in Leaf : Use(t, l)) => /\ call'[t].pc = "lock" /\ adapter[Router] # NotBuilt
         /\ Lock(t) => /\ call[t].pc = "lock"
                       /\ \/ call'[t].pc = "idle"
                          \/ /\ call'[t].pc = "make" /\ call'[t].leaf = call[t].leaf
                             /\ leaf[call[t].leaf] = NotBuilt
         /\ Make(t) \/ MakeFails(t) => call[t].pc = "make" /\ call'[t].pc = "idle"
         /\ Make(t) \/ UNCHANGED <<leaf, made>>
<1>0. call \in [Calls -> CallType] /\ Idle \in CallType /\ Idle.pc = "idle"
  BY LeavesTyped DEF RoutedTypeOK, CallType, Idle
<1>1. ASSUME NEW l \in Leaf, Use(t, l)
      PROVE  /\ call' \in [Calls -> CallType] /\ \A u \in Calls \ {t} : call'[u] = call[u]
             /\ call'[t].pc = "lock" /\ adapter[Router] # NotBuilt
             /\ UNCHANGED <<leaf, made>> /\ call[t].pc = "idle"
  <2>1. PICK r : r = [pc |-> "lock", leaf |-> l]
    OBVIOUS
  <2>2. r \in CallType /\ r.pc = "lock"
    BY <2>1 DEF CallType
  <2>3. call' = [call EXCEPT ![t] = r]
    BY <1>1, <2>1 DEF Use
  <2> QED BY <1>0, <1>1, <2>2, <2>3 DEF Use
<1>2. CASE Lock(t)
  <2>1. PICK r : r = IF Missing(call[t].leaf) THEN [call[t] EXCEPT !.pc = "make"] ELSE Idle
    OBVIOUS
  <2>2. r \in CallType /\ (r.pc = "idle" \/ (r.pc = "make" /\ r.leaf = call[t].leaf
                                             /\ leaf[call[t].leaf] = NotBuilt))
    BY <1>0, <2>1 DEF CallType, Missing
  <2>3. call' = [call EXCEPT ![t] = r]
    BY <1>2, <2>1 DEF Lock
  <2>4. call[t].pc = "lock" /\ UNCHANGED <<leaf, made>>
    BY <1>2 DEF Lock
  <2> QED BY <1>0, <2>2, <2>3, <2>4 DEF Use, Make, MakeFails
<1>3. CASE Make(t) \/ MakeFails(t)
  <2>1. call' = [call EXCEPT ![t] = Idle] /\ call[t].pc = "make"
        /\ (Make(t) \/ UNCHANGED <<leaf, made>>)
    BY <1>3 DEF Make, MakeFails
  <2> QED BY <1>0, <2>1 DEF Use, Lock
<1>4. CASE \E l \in Leaf : Use(t, l)
  BY <1>1, <1>4 DEF Lock, Make, MakeFails
<1> QED BY <1>2, <1>3, <1>4

\* How a snapshot comes to a leaf.
ToHand(who) == Leaves[passed[who] + 1]
LEMMA Handling ==
  ASSUME IInv, RoutedTypeOK, NEW who \in Handlers, PassOn(who) \/ LeafRefuses(who)
  PROVE  /\ Handing(who) /\ passed[who] \in 0 .. (Len(Leaves) - 1) /\ ToHand(who) \in Leaf
         /\ Handed(who) \in Snapshots \cup {Unset} /\ UNCHANGED <<made, call>>
         /\ \A l \in Leaf \ {ToHand(who)} : leaf'[l] = leaf[l]
         /\ leaf'[ToHand(who)] = IF leaf[ToHand(who)] = NotBuilt THEN NotBuilt ELSE Handed(who)
         /\ leaf' \in [Leaf -> Snapshots \cup {NotBuilt, Unset}]
         /\ passed' \in [Handlers -> 0 .. Len(Leaves)]
         /\ \A x \in Handlers \ {who} : passed'[x] = passed[x]
         /\ passed'[who] = IF PassOn(who) THEN passed[who] + 1 ELSE 0
<1>0. /\ leaf \in [Leaf -> Snapshots \cup {NotBuilt, Unset}]
      /\ passed \in [Handlers -> 0 .. Len(Leaves)] /\ Len(Leaves) \in Nat
  BY LeavesTyped DEF RoutedTypeOK
<1>1. Handing(who) /\ ~PassedAll(who)
  BY DEF PassOn, LeafRefuses
<1>2. passed[who] \in 0 .. (Len(Leaves) - 1) /\ ToHand(who) \in Leaf
  <2>1. passed[who] \in 0 .. Len(Leaves) /\ passed[who] # Len(Leaves)
    BY <1>0, <1>1 DEF PassedAll
  <2>2. passed[who] + 1 \in 1 .. Len(Leaves)
    BY <1>0, <2>1
  <2> QED BY <1>0, <2>1, <2>2, LeavesTyped DEF ToHand
<1>3. Handed(who) \in Snapshots \cup {Unset}
  BY LeavesTyped DEF IInv, TypeOK, Handed
<1>4. PICK v \in Snapshots \cup {NotBuilt, Unset} :
        /\ leaf' = [leaf EXCEPT ![ToHand(who)] = v]
        /\ v = IF leaf[ToHand(who)] = NotBuilt THEN NotBuilt ELSE Handed(who)
  BY <1>0, <1>2, <1>3 DEF PassOn, LeafRefuses, ToHand
<1>5. UNCHANGED <<made, call>>
  BY DEF PassOn, LeafRefuses
<1>6. CASE PassOn(who)
  <2>1. passed' = [passed EXCEPT ![who] = passed[who] + 1]
    BY <1>6 DEF PassOn
  <2> QED BY <1>0, <1>1, <1>2, <1>3, <1>4, <1>5, <1>6, <2>1
<1>7. CASE ~PassOn(who)
  <2>1. passed' = [passed EXCEPT ![who] = 0]
    BY <1>7 DEF LeafRefuses
  <2> QED BY <1>0, <1>1, <1>2, <1>3, <1>4, <1>5, <1>7, <2>1
<1> QED BY <1>6, <1>7

LEMMA RoutedTypeStep ==
  ASSUME IInv, RoutedTypeOK, MadeOnce, [RoutedNext]_routed
  PROVE  RoutedTypeOK'
<1>0. /\ TypeOK' /\ Len(Leaves) \in Nat
      /\ leaf \in [Leaf -> Snapshots \cup {NotBuilt, Unset}] /\ made \in [Leaf -> Nat]
      /\ call \in [Calls -> CallType] /\ passed \in [Handlers -> 0 .. Len(Leaves)]
  BY InnerStep, LeavesTyped DEF IInv, RoutedTypeOK, CallType
<1>1. CASE UNCHANGED routing
  BY <1>0, <1>1 DEF routing, RoutedTypeOK, CallType
<1>2. ASSUME NEW t \in Calls, UNCHANGED <<vars, passed>>,
             (\E l \in Leaf : Use(t, l)) \/ Lock(t) \/ Make(t) \/ MakeFails(t)
      PROVE  RoutedTypeOK'
  <2>1. call' \in [Calls -> CallType] /\ (Make(t) \/ UNCHANGED <<leaf, made>>)
    BY <1>2, Calling
  <2>2. /\ leaf' \in [Leaf -> Snapshots \cup {NotBuilt, Unset}] /\ made' \in [Leaf -> Nat]
    <3>1. CASE Make(t)
      <4>1. /\ leaf' = [leaf EXCEPT ![call[t].leaf] = Unset]
            /\ made' = [made EXCEPT ![call[t].leaf] = made[call[t].leaf] + 1]
        BY <3>1 DEF Make
      <4>2. call[t].leaf \in Leaf
        BY <1>0 DEF CallType
      <4> QED BY <1>0, <4>1, <4>2
    <3> QED BY <1>0, <2>1, <3>1
  <2> QED BY <1>0, <1>2, <2>1, <2>2 DEF RoutedTypeOK, CallType
<1>3. ASSUME NEW who \in Handlers, PassOn(who) \/ LeafRefuses(who) PROVE RoutedTypeOK'
  <2>1. /\ UNCHANGED <<made, call>> /\ leaf' \in [Leaf -> Snapshots \cup {NotBuilt, Unset}]
        /\ passed' \in [Handlers -> 0 .. Len(Leaves)]
    BY <1>3, Handling
  <2> QED BY <1>0, <2>1 DEF RoutedTypeOK, CallType
<1>4. CASE RouterAccepts \/ RouterBuilt
  <2>1. UNCHANGED <<leaf, made, call>> /\ passed' \in [Handlers -> 0 .. Len(Leaves)]
    BY <1>0, <1>4 DEF RouterAccepts, RouterBuilt
  <2> QED BY <1>0, <2>1 DEF RoutedTypeOK, CallType
<1>5. CASE RoutedCrash
  <2>1. Idle \in CallType
    BY LeavesTyped DEF Idle, CallType
  <2> QED BY <1>0, <1>5, <2>1 DEF RoutedCrash, RoutedTypeOK, CallType
<1> QED BY <1>1, <1>2, <1>3, <1>4, <1>5, RoutedKinds

\* A leaf is made under its lock, by one call, and only if it is not there.
LEMMA MadeOnceStep ==
  ASSUME IInv, RoutedTypeOK, MadeOnce, [RoutedNext]_routed
  PROVE  MadeOnce'
<1>0. /\ leaf \in [Leaf -> Snapshots \cup {NotBuilt, Unset}] /\ made \in [Leaf -> Nat]
      /\ call \in [Calls -> CallType] /\ NotBuilt # Unset /\ NotBuilt \notin Snapshots
  BY SettingsAssumption DEF RoutedTypeOK, CallType
<1>1. CASE UNCHANGED <<leaf, made, call>>
  BY <1>1 DEF MadeOnce
<1>2. ASSUME NEW t \in Calls, UNCHANGED <<vars, passed>>,
             (\E l \in Leaf : Use(t, l)) \/ Lock(t) \/ Make(t) \/ MakeFails(t)
      PROVE  MadeOnce'
  <2>1. call' \in [Calls -> CallType] /\ \A u \in Calls \ {t} : call'[u] = call[u]
    BY <1>2, Calling
  <2>2. CASE Make(t)
    <3>1. PICK l \in Leaf : l = call[t].leaf
      BY <1>0 DEF CallType
    <3>2. call[t].pc = "make" /\ call'[t].pc = "idle" /\ leaf[l] = NotBuilt
      BY <2>2, <3>1, Calling DEF MadeOnce
    <3>3. leaf' = [leaf EXCEPT ![l] = Unset] /\ made' = [made EXCEPT ![l] = made[l] + 1]
      BY <2>2, <3>1 DEF Make
    <3>4. \A u \in Calls \ {t} : call[u].pc = "make" => call[u].leaf # l
      <4>1. \A u \in Calls : call[u].pc = "make" /\ call[u].leaf = l => call[u] = call[t]
        BY <1>0, <3>1, <3>2 DEF CallType
      <4> QED BY <3>2, <4>1 DEF MadeOnce
    <3>5. \A x \in Leaf : made'[x] = IF leaf'[x] = NotBuilt THEN 0 ELSE 1
      BY <1>0, <3>2, <3>3 DEF MadeOnce
    <3>6. \A x \in Leaf \ {l} : leaf'[x] = leaf[x]
      BY <1>0, <3>3
    <3>7. ASSUME NEW u \in Calls, call'[u].pc = "make"
          PROVE  leaf'[call'[u].leaf] = NotBuilt /\ \A x \in Calls : call'[x] = call'[u] => x = u
      <4>1. u # t /\ call'[u] = call[u]
        BY <2>1, <3>2, <3>7
      <4>2. call[u].leaf \in Leaf \ {l}
        BY <1>0, <3>4, <3>7, <4>1 DEF CallType
      <4> QED BY <2>1, <3>2, <3>6, <3>7, <4>1, <4>2 DEF MadeOnce
    <3> QED BY <3>5, <3>7 DEF MadeOnce
  <2>3. CASE ~Make(t)
    <3>1. UNCHANGED <<leaf, made>>
      BY <1>2, <2>3, Calling
    <3>2. CASE call'[t].pc # "make"
      BY <2>1, <3>1, <3>2 DEF MadeOnce
    <3>3. CASE call'[t].pc = "make"
      <4>1. Lock(t) /\ call'[t].leaf = call[t].leaf /\ leaf[call[t].leaf] = NotBuilt
        BY <1>2, <2>3, <3>3, Calling
      <4>2. call'[t] = [pc |-> "make", leaf |-> call[t].leaf]
        BY <2>1, <3>3, <4>1 DEF CallType
      <4>3. \A u \in Calls \ {t} : call[u] # call'[t]
        BY <4>1, <4>2 DEF Lock, Locked
      <4> QED BY <2>1, <3>1, <4>1, <4>3 DEF MadeOnce
    <3> QED BY <3>2, <3>3
  <2> QED BY <2>2, <2>3
<1>3. ASSUME NEW who \in Handlers, PassOn(who) \/ LeafRefuses(who) PROVE MadeOnce'
  <2>1. /\ UNCHANGED <<made, call>>
        /\ \A l \in Leaf : leaf'[l] = NotBuilt <=> leaf[l] = NotBuilt
    BY <1>0, <1>3, Handling
  <2>2. \A t \in Calls : call[t].leaf \in Leaf
    BY <1>0 DEF CallType
  <2> QED BY <2>1, <2>2 DEF MadeOnce
<1>4. CASE RoutedCrash
  BY <1>4 DEF RoutedCrash, MadeOnce, Idle
<1> QED BY <1>1, <1>2, <1>3, <1>4, RoutedKinds DEF routing, RouterAccepts, RouterBuilt

\* The adapter is taken down by a crash alone.
LEMMA AdapterStays ==
  ASSUME IInv, adapter[Router] # NotBuilt,
         [Unrouted]_vars \/ AdapterAccepts(Router) \/ BuildApplies(Router)
  PROVE  adapter'[Router] # NotBuilt
<1>0. /\ Router \in Child /\ adapter \in [Child -> Snapshots \cup {NotBuilt, Unset}]
      /\ NotBuilt # Unset /\ NotBuilt \notin Snapshots /\ upd.target \in Snapshots
      /\ \A c \in Child : build[c].got \in Snapshots \cup {Unset}
  BY SettingsAssumption, LeavesTyped DEF IInv, TypeOK
<1>1. ASSUME NEW c \in Child, AdapterAccepts(c) PROVE adapter'[Router] # NotBuilt
  BY <1>0, <1>1 DEF AdapterAccepts
<1>2. ASSUME NEW c \in Child, AdapterRefuses(c) PROVE adapter'[Router] # NotBuilt
  BY <1>0, <1>2 DEF AdapterRefuses
<1>3. ASSUME NEW c \in Child, Build(c) \/ BuildApplies(c) PROVE adapter'[Router] # NotBuilt
  BY <1>0, <1>3 DEF Build, BuildApplies
<1> QED BY <1>0, <1>1, <1>2, <1>3
       DEF Unrouted, vars, UpdateBegin, ConfigureExecutor, ConnectionInvalid, BuildReads,
           BuildRefused, RollbackEnds, Store, StoreFails, Publish

LEMMA RouterFirstStep ==
  ASSUME IInv, RoutedTypeOK, MadeOnce, RouterFirst, [RoutedNext]_routed
  PROVE  RouterFirst'
<1>0. /\ leaf \in [Leaf -> Snapshots \cup {NotBuilt, Unset}] /\ Router \in Child
      /\ build \in [Child -> [pc : {"none", "read", "apply"}, got : Snapshots \cup {Unset}]]
      /\ adapter \in [Child -> Snapshots \cup {NotBuilt, Unset}] /\ NotBuilt # Unset
      /\ upd.target \in Snapshots /\ NotBuilt \notin Snapshots
  BY SettingsAssumption, LeavesTyped DEF IInv, TypeOK, RoutedTypeOK
<1>1. CASE RoutedCrash
  BY <1>0, <1>1 DEF RoutedCrash, Crash, RouterFirst, Idle, NoBuild
<1>2. CASE ~RoutedCrash
  <2>1. adapter[Router] # NotBuilt => adapter'[Router] # NotBuilt
    <3>1. (\E who \in Handlers : PassOn(who) \/ LeafRefuses(who)) => adapter' = adapter
      BY DEF LeafRefuses, PassOn, vars
    <3>2. \/ [Unrouted]_vars \/ AdapterAccepts(Router) \/ BuildApplies(Router)
          \/ \E who \in Handlers : PassOn(who) \/ LeafRefuses(who)
      BY <1>2, RoutedKinds DEF RouterAccepts, RouterBuilt, vars
    <3> QED BY <3>1, <3>2, AdapterStays
  <2>2. SUFFICES ASSUME adapter[Router] = NotBuilt, adapter'[Router] = NotBuilt
                 PROVE  /\ \A l \in Leaf : leaf'[l] = NotBuilt
                        /\ \A t \in Calls : call'[t].pc = "idle"
                        /\ build'[Router].pc = "none"
    BY <2>1 DEF RouterFirst
  <2>3. /\ \A l \in Leaf : leaf[l] = NotBuilt
        /\ \A t \in Calls : call[t].pc = "idle"
        /\ build[Router].pc = "none"
    BY <2>2 DEF RouterFirst
  <2>4. [Unrouted]_vars => build'[Router].pc = "none"
    <3>1. ~Build(Router)
      BY <1>0, <2>2 DEF Build
    <3>2. \A c \in Child : Build(c) \/ BuildReads(c) \/ BuildApplies(c) \/ BuildRefused(c) =>
            c # Router /\ build'[Router] = build[Router]
      BY <1>0, <2>3, <3>1 DEF Build, BuildReads, BuildApplies, BuildRefused
    <3>3. [Unrouted]_vars =>
            build' = build \/ \E c \in Child : \/ Build(c) \/ BuildReads(c)
                                               \/ BuildApplies(c) \/ BuildRefused(c)
      BY DEF Unrouted, vars, UpdateBegin, ConfigureExecutor, ConnectionInvalid, AdapterAccepts,
             AdapterRefuses, RollbackEnds, Store, StoreFails, Publish
    <3> QED BY <2>3, <3>2, <3>3
  <2>5. ASSUME NEW t \in Calls,
               (\E l \in Leaf : Use(t, l)) \/ Lock(t) \/ Make(t) \/ MakeFails(t)
        PROVE  FALSE
    BY <2>2, <2>3, <2>5, Calling
  <2>6. ASSUME NEW who \in Handlers, PassOn(who) \/ LeafRefuses(who)
        PROVE  /\ call' = call /\ build' = build /\ \A l \in Leaf : leaf'[l] = NotBuilt
    <3>1. Handing(who) /\ call' = call /\ \A l \in Leaf : leaf'[l] = NotBuilt
      BY <2>3, <2>6, Handling
    <3>2. who = "update"
      BY <2>3, <3>1, Handings
    <3> QED BY <2>6, <3>1, <3>2 DEF PassOn, LeafRefuses, vars
  <2>7. ~RouterAccepts
    BY <1>0, <2>2 DEF RouterAccepts, AdapterAccepts
  <2>8. ~RouterBuilt
    BY <2>3 DEF RouterBuilt, BuildApplies
  <2> QED BY <1>2, <2>3, <2>4, <2>5, <2>6, <2>7, <2>8, RoutedKinds DEF routing
<1> QED BY <1>1, <1>2

\* Whoever hands a snapshot to the leaves does so in one go.
LEMMA HandedInTurnStep ==
  ASSUME IInv, RoutedTypeOK, RouterFirst, HandedInTurn, [RoutedNext]_routed
  PROVE  HandedInTurn'
<1>0. /\ Router \in Child /\ passed \in [Handlers -> 0 .. Len(Leaves)] /\ TypeOK
      /\ build[Router].pc # "none" => adapter[Router] # NotBuilt
      /\ passed["update"] # 0 => upd.pc = "adapter" /\ Turn(Router)
      /\ passed["build"] # 0 => build[Router].pc = "apply"
  BY LeavesTyped, Handings DEF IInv, RoutedTypeOK, RouterFirst, HandedInTurn
<1>1. SUFFICES /\ passed'["update"] # 0 => upd'.pc = "adapter" /\ Turn(Router)'
               /\ passed'["build"] # 0 => build'[Router].pc = "apply"
  BY Handings DEF HandedInTurn, Handing
<1>2. [Unrouted]_vars /\ upd.pc = "adapter" /\ Turn(Router) => upd' = upd
  <2>1. \A c \in Child : Turn(c) /\ Turn(Router) => c = Router
    BY DEF Turn
  <2>2. [Unrouted]_vars /\ upd.pc = "adapter" =>
          upd' = upd \/ \E c \in Child \ {Router} : AdapterAccepts(c) \/ AdapterRefuses(c)
    BY DEF Unrouted, vars, UpdateBegin, Updating, ConfigureExecutor, ConnectionInvalid,
           Build, BuildReads, BuildApplies, BuildRefused, Configured, RollbackEnds, Store,
           StoreFails, Publish
  <2> QED BY <2>1, <2>2 DEF AdapterAccepts, AdapterRefuses
<1>3. [Unrouted]_vars /\ build[Router].pc = "apply" => build'[Router] = build[Router]
  <2>1. [Unrouted]_vars => build' = build \/ \E c \in Child : Build(c) \/ BuildReads(c)
                        \/ (c # Router /\ (BuildApplies(c) \/ BuildRefused(c)))
    BY DEF Unrouted, vars, UpdateBegin, ConfigureExecutor, ConnectionInvalid, AdapterAccepts,
           AdapterRefuses, RollbackEnds, Store, StoreFails, Publish
  <2>2. build[Router].pc = "apply" =>
          \A c \in Child : Build(c) \/ BuildReads(c) => c # Router
    BY <1>0 DEF Build, BuildReads
  <2>3. \A c \in Child : Build(c) \/ BuildReads(c) \/ BuildApplies(c) \/ BuildRefused(c) =>
          (c # Router => build'[Router] = build[Router])
    BY <1>0 DEF Build, BuildReads, BuildApplies, BuildRefused, TypeOK
  <2> QED BY <2>1, <2>2, <2>3
<1>4. CASE UNCHANGED routing /\ [Unrouted]_vars
  <2>1. passed' = passed
    BY <1>4 DEF routing
  <2>2. upd' = upd => (Turn(Router)' <=> Turn(Router))
    BY DEF Turn
  <2> QED BY <1>0, <1>2, <1>3, <1>4, <2>1, <2>2
<1>5. CASE UNCHANGED <<vars, passed>>
  BY <1>0, <1>5 DEF vars, Turn
<1>6. ASSUME NEW who \in Handlers, PassOn(who) \/ LeafRefuses(who)
      PROVE  /\ passed'["update"] # 0 => upd'.pc = "adapter" /\ Turn(Router)'
             /\ passed'["build"] # 0 => build'[Router].pc = "apply"
  <2>1. /\ Handing(who) /\ \A x \in Handlers \ {who} : passed'[x] = passed[x]
        /\ PassOn(who) \/ passed'[who] = 0
    BY <1>6, Handling
  <2>2. CASE PassOn(who)
    <3>1. UNCHANGED <<upd, build>>
      BY <2>2 DEF PassOn, vars
    <3> QED BY <1>0, <2>1, <3>1, Handings DEF Turn
  <2>3. CASE ~PassOn(who) /\ who = "update"
    <3>1. build' = build /\ passed'["update"] = 0 /\ passed'["build"] = passed["build"]
      BY <1>6, <2>1, <2>3, Handings DEF LeafRefuses
    <3> QED BY <1>0, <3>1
  <2>4. CASE ~PassOn(who) /\ who = "build"
    <3>1. upd' = upd /\ passed'["build"] = 0 /\ passed'["update"] = passed["update"]
      BY <1>6, <2>1, <2>4, Handings DEF LeafRefuses
    <3> QED BY <1>0, <3>1 DEF Turn
  <2> QED BY <2>2, <2>3, <2>4, Handings
<1>7. CASE RouterAccepts
  BY <1>0, <1>7, Handings DEF RouterAccepts, AdapterAccepts
<1>8. CASE RouterBuilt
  BY <1>0, <1>8, Handings DEF RouterBuilt, BuildApplies, Turn
<1>9. CASE RoutedCrash
  BY <1>9, Handings DEF RoutedCrash
<1> QED BY <1>4, <1>5, <1>6, <1>7, <1>8, <1>9, RoutedKinds

\* Where an update has been, without a mishap, the leaves are on its target; where it
\* ends they are on the settings in effect.
LEMMA LeavesOnTheirWayStep ==
  ASSUME RoutedInv, [RoutedNext]_routed
  PROVE  LeavesOnTheirWay'
<1>0. /\ IInv /\ TypeOK /\ NothingUnexpected /\ RoutedTypeOK /\ LeavesOnTheirWay /\ RouterFirst
      /\ Router \in Child /\ Len(Leaves) \in Nat /\ Len(Children) \in Nat
      /\ leaf \in [Leaf -> Snapshots \cup {NotBuilt, Unset}]
      /\ passed["update"] # 0 => upd.pc = "adapter" /\ Turn(Router)
      /\ passed \in [Handlers -> 0 .. Len(Leaves)] /\ passed["update"] \in 0 .. Len(Leaves)
      /\ \A i \in 1 .. Len(Leaves) : Leaves[i] \in Leaf
      /\ \A l \in Leaf : \E i \in 1 .. Len(Leaves) : l = Leaves[i]
  BY LeavesTyped, ChildrenTyped, Handings DEF RoutedInv, IInv, RoutedTypeOK, HandedInTurn
<1> SUFFICES ASSUME mishaps' = {}
             PROVE  IF Updating'
                    THEN /\ RouterPassed' =>
                              \A l \in Leaf : leaf'[l] \in {NotBuilt, Unset, upd'.target}
                         /\ \A i \in 1 .. Len(Leaves) : i <= passed'["update"] =>
                              leaf'[Leaves[i]] \in {NotBuilt, Unset, upd'.target}
                    ELSE \A l \in Leaf : leaf'[l] \in {NotBuilt, Unset, settings'}
  BY DEF LeavesOnTheirWay, On
<1> USE DEF LeavesOnTheirWay, On
<1>1. CASE UNCHANGED routing /\ [Unrouted]_vars
  <2>0. leaf' = leaf /\ passed' = passed
    BY <1>1 DEF routing
  <2>1. ASSUME NEW s \in Snapshots, UpdateBegin(s) PROVE LeavesOnTheirWay'
    <3>1. passed["update"] = 0 /\ upd'.next = 1
      BY <1>0, <2>1 DEF UpdateBegin, Updating
    <3>2. ~RouterPassed' /\ upd'.pc = "configure"
      BY <2>1, <3>1 DEF RouterPassed, UpdateBegin
    <3> QED BY <2>0, <3>1, <3>2 DEF Updating
  <2>2. ASSUME NEW c \in Child, ConfigureExecutor(c) PROVE LeavesOnTheirWay'
    <3>1. upd.pc = "configure" /\ mishaps = {} /\ passed["update"] = 0 /\ Turn(c)
      BY <1>0, <2>2 DEF ConfigureExecutor
    <3>2. CASE adapter[c] = NotBuilt
      <4>1. upd'.next = upd.next + 1 /\ upd'.target = upd.target /\ upd'.pc = "configure"
        BY <1>0, <2>2, <3>1, <3>2 DEF ConfigureExecutor, TypeOK
      <4>2. CASE c = Router
        <5>1. \A l \in Leaf : leaf[l] = NotBuilt
          BY <1>0, <3>2, <4>2 DEF RouterFirst
        <5> QED BY <2>0, <3>1, <4>1, <5>1 DEF Updating
      <4>3. CASE c # Router
        <5>1. RouterPassed' => RouterPassed
          BY <1>0, <3>1, <4>1, <4>3 DEF RouterPassed, Turn, TypeOK
        <5> QED BY <1>0, <2>0, <3>1, <4>1, <5>1 DEF Updating
      <4> QED BY <4>2, <4>3
    <3>3. CASE adapter[c] # NotBuilt
      <4>1. upd'.next = upd.next /\ upd'.target = upd.target /\ upd'.pc = "adapter"
        BY <1>0, <2>2, <3>1, <3>3 DEF ConfigureExecutor, TypeOK
      <4> QED BY <1>0, <2>0, <3>1, <4>1 DEF Updating, RouterPassed
    <3> QED BY <3>2, <3>3
  <2>3. ASSUME NEW c \in Child \ {Router}, AdapterAccepts(c) PROVE LeavesOnTheirWay'
    <3>1. /\ upd.pc = "adapter" /\ mishaps = {} /\ Turn(c)
          /\ upd'.next = upd.next + 1 /\ upd'.target = upd.target /\ upd'.pc = "configure"
      BY <1>0, <2>3 DEF AdapterAccepts, TypeOK
    <3>2. RouterPassed' => RouterPassed
      BY <1>0, <2>3, <3>1 DEF RouterPassed, Turn, TypeOK
    <3> QED BY <1>0, <2>0, <3>1, <3>2 DEF Updating
  <2>4. ASSUME NEW c \in Child, Build(c) \/ BuildReads(c) \/ BuildApplies(c) \/ BuildRefused(c)
        PROVE  LeavesOnTheirWay'
    <3>1. mishaps = {} /\ UNCHANGED <<upd, settings>>
      BY <2>4 DEF Build, BuildReads, BuildApplies, BuildRefused, Mishap
    <3> QED BY <2>0, <3>1, <1>0 DEF Updating, RouterPassed
  <2>5. ASSUME NEW c \in Child, ConnectionInvalid(c) \/ AdapterRefuses(c) PROVE FALSE
    BY <2>5 DEF ConnectionInvalid, AdapterRefuses, Mishap
  <2>6. CASE RollbackEnds \/ Publish
    <3>1. mishaps = {} /\ Updating /\ UpdateOnItsWay /\ upd.next > Len(Children)
      BY <1>0, <2>6 DEF RollbackEnds, Publish, Configured, Updating, NothingUnexpected,
                        UpdateOnItsWay
    <3>2. RouterPassed
      <4>1. PICK i \in 1 .. Len(Children) : Children[i] = Router
        BY <1>0, ChildrenTyped
      <4>2. i < upd.next
        BY <1>0, <3>1, <4>1 DEF TypeOK
      <4> QED BY <4>1, <4>2 DEF RouterPassed
    <3>3. settings' = upd.target /\ ~Updating'
      BY <2>6, <3>1 DEF RollbackEnds, Publish, Configured, Updating, NoUpdate, UpdateOnItsWay
    <3> QED BY <1>0, <2>0, <3>1, <3>2, <3>3
  <2>7. CASE Store
    <3>1. mishaps = {} /\ upd.pc = "configure" /\ upd'.next = upd.next /\ upd'.target = upd.target
          /\ upd'.pc = "publish"
      BY <1>0, <2>7 DEF Store, Configured, TypeOK
    <3> QED BY <1>0, <2>0, <3>1 DEF Updating, RouterPassed
  <2>8. CASE StoreFails
    <3>1. passed["update"] = 0 /\ upd'.next = 1 /\ upd'.pc = "configure"
      BY <1>0, <2>8 DEF StoreFails, Configured, Rollback
    <3>2. ~RouterPassed'
      BY <3>1 DEF RouterPassed
    <3> QED BY <2>0, <3>1, <3>2 DEF Updating
  <2>9. CASE UNCHANGED vars
    BY <1>0, <2>0, <2>9 DEF vars, On, Updating, RouterPassed
  <2> QED BY <1>1, <2>1, <2>2, <2>3, <2>4, <2>5, <2>6, <2>7, <2>8, <2>9 DEF Unrouted
<1>2. ASSUME NEW t \in Calls, UNCHANGED <<vars, passed>>,
             (\E l \in Leaf : Use(t, l)) \/ Lock(t) \/ Make(t) \/ MakeFails(t)
      PROVE  LeavesOnTheirWay'
  <2>1. \A l \in Leaf : leaf'[l] = leaf[l] \/ leaf'[l] = Unset
    <3>1. CASE Make(t)
      <4>1. leaf' = [leaf EXCEPT ![call[t].leaf] = Unset]
        BY <3>1 DEF Make
      <4> QED BY <1>0, <4>1
    <3> QED BY <1>0, <1>2, <3>1, Calling
  <2>2. \A l \in Leaf : /\ On(settings, l) => leaf'[l] \in {NotBuilt, Unset, settings}
                        /\ On(upd.target, l) => leaf'[l] \in {NotBuilt, Unset, upd.target}
    BY <2>1
  <2>3. /\ mishaps = {} /\ UNCHANGED <<upd, settings, passed>>
    BY <1>2 DEF vars
  <2> QED BY <1>0, <2>2, <2>3 DEF Updating, RouterPassed
<1>3. CASE PassOn("update")
  <2>1. /\ mishaps = {} /\ UNCHANGED <<upd, settings>> /\ "update" \in Handlers
    BY <1>3, Handings DEF PassOn, vars
  <2>2. /\ upd.pc = "adapter" /\ ToHand("update") \in Leaf
        /\ \A l \in Leaf \ {ToHand("update")} : leaf'[l] = leaf[l]
        /\ leaf'[ToHand("update")] \in {NotBuilt, upd.target}
        /\ passed'["update"] = passed["update"] + 1
    BY <1>0, <1>3, <2>1, Handling, Handings DEF Handed
  <2>3. \A l \in Leaf : (On(upd.target, l) \/ l = ToHand("update")) =>
          leaf'[l] \in {NotBuilt, Unset, upd'.target}
    BY <2>1, <2>2
  <2>4. \A i \in 1 .. Len(Leaves) :
          i <= passed'["update"] => i <= passed["update"] \/ Leaves[i] = ToHand("update")
    BY <1>0, <2>2 DEF ToHand
  <2>5. Updating /\ Updating' /\ (RouterPassed' <=> RouterPassed)
    BY <2>1, <2>2 DEF Updating, RouterPassed
  <2> QED BY <1>0, <2>1, <2>3, <2>4, <2>5
<1>4. CASE PassOn("build")
  <2>1. mishaps = {} /\ UNCHANGED <<upd, settings>> /\ "build" \in Handlers /\ UNCHANGED vars
    BY <1>4, Handings DEF PassOn, vars
  <2>2. build[Router].pc = "apply"
    BY <1>0, <1>4, <2>1, Handling, Handings
  <2>3. ~Updating /\ build[Router].got = settings
    BY <1>0, <2>1, <2>2 DEF NothingUnexpected, UpdateOnItsWay, AtRest
  <2>4. \A l \in Leaf : leaf'[l] \in {leaf[l], NotBuilt, settings}
    BY <1>0, <1>4, <2>1, <2>3, Handling DEF Handed
  <2> QED BY <1>0, <2>1, <2>3, <2>4 DEF Updating
<1>5. ASSUME NEW who \in Handlers, LeafRefuses(who) PROVE FALSE
  BY <1>5 DEF LeafRefuses, Mishap
<1>6. CASE RouterAccepts
  <2>1. /\ leaf' = leaf /\ passed'["update"] = 0 /\ passed["update"] = Len(Leaves)
        /\ mishaps = {} /\ upd.pc = "adapter" /\ upd'.target = upd.target /\ upd'.pc = "configure"
    BY <1>0, <1>6, Handings DEF RouterAccepts, AdapterAccepts, PassedAll, TypeOK
  <2>2. \A l \in Leaf : On(upd.target, l)
    BY <1>0, <2>1 DEF Updating
  <2> QED BY <1>0, <2>1, <2>2 DEF Updating
<1>7. CASE RouterBuilt
  <2>1. /\ leaf' = leaf /\ passed'["update"] = passed["update"] /\ mishaps = {}
        /\ UNCHANGED <<upd, settings>>
    BY <1>0, <1>7, Handings DEF RouterBuilt, BuildApplies
  <2> QED BY <1>0, <2>1 DEF Updating, RouterPassed
<1>8. CASE RoutedCrash
  BY <1>8 DEF RoutedCrash, Crash, On, Updating
<1> QED BY <1>1, <1>2, <1>3, <1>4, <1>5, <1>6, <1>7, <1>8, RoutedKinds, Handings

LEMMA RoutedInitInv == RoutedInit => RoutedInv
<1> SUFFICES ASSUME RoutedInit PROVE RoutedInv
  OBVIOUS
<1>0. /\ Init /\ leaf = [l \in Leaf |-> NotBuilt] /\ made = [l \in Leaf |-> 0]
      /\ call = [t \in Calls |-> Idle] /\ passed = [x \in Handlers |-> 0]
      /\ Len(Leaves) \in Nat \ {0} /\ Router \in Child
  BY LeavesTyped DEF RoutedInit
<1>1. IInv
  BY <1>0, InitIInv
<1>2. RoutedTypeOK
  BY <1>0, <1>1, LeavesTyped DEF RoutedTypeOK, IInv, Idle
<1>3. MadeOnce
  BY <1>0 DEF MadeOnce, Idle
<1>4. RouterFirst
  BY <1>0 DEF RouterFirst, Init, NoBuild, Idle
<1>5. HandedInTurn
  BY <1>0 DEF HandedInTurn
<1>6. LeavesOnTheirWay
  BY <1>0 DEF LeavesOnTheirWay, Init, NoUpdate, Updating, On
<1> QED BY <1>1, <1>2, <1>3, <1>4, <1>5, <1>6 DEF RoutedInv

LEMMA RoutedStep == RoutedInv /\ [RoutedNext]_routed => RoutedInv'
<1> SUFFICES ASSUME RoutedInv, [RoutedNext]_routed PROVE RoutedInv'
  OBVIOUS
<1>1. IInv' /\ RoutedTypeOK' /\ MadeOnce'
  BY InnerStep, RoutedTypeStep, MadeOnceStep DEF RoutedInv
<1>2. RouterFirst' /\ HandedInTurn' /\ LeavesOnTheirWay'
  BY RouterFirstStep, HandedInTurnStep, LeavesOnTheirWayStep DEF RoutedInv
<1> QED BY <1>1, <1>2 DEF RoutedInv

\* What holds of updates holds with the leaves of the routing adapter too, and the
\* leaves are made once and configured in their turn.
THEOREM RoutedInvariance == RoutedSpec => []RoutedInv
BY RoutedInitInv, RoutedStep, PTL DEF RoutedSpec, routed

\* Each lazily built leaf exists once, however many calls meet at its first use
\* (LazyEngineHandle.instance), and between updates without a mishap it has the
\* settings in effect or none yet.
THEOREM LeavesAreInEffect == RoutedSpec => []LeavesFollow
<1>1. RoutedInv => LeavesFollow
  BY SMTT(30) DEF RoutedInv, RoutedTypeOK, MadeOnce, LeavesOnTheirWay, On, LeavesFollow
<1> QED BY <1>1, RoutedInvariance, PTL

\* The durability and the effect of updates, with the leaves.
THEOREM RoutedUpdates == RoutedSpec => [](AcknowledgedIsDurable /\ SettingsInEffect)
<1>1. RoutedInv => AcknowledgedIsDurable /\ SettingsInEffect
  BY DEF RoutedInv, IInv, TypeOK, NothingUnexpected, SettingsInEffect, InEffect, AtRest, Building
<1> QED BY <1>1, RoutedInvariance, PTL

=============================================================================
