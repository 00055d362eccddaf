---------------------------- MODULE EngineRouting ----------------------------
(***************************************************************************)
(* SettingsUpdate with the adapter of the recognition executor opened up.  *)
(* That adapter is an OcrEngineRoutingAdapter: it hands a snapshot to the  *)
(* leaves that exist, in their order, and jobs and preloads build a leaf   *)
(* when they first need it (LazyEngineHandle.instance for the PaddleOCR    *)
(* engine, OcrEngineRoutingAdapter.fallback for every other pipeline).     *)
(* A leaf is a PaddleProcessAdapter; engines without settings are left out.*)
(***************************************************************************)
EXTENDS SettingsUpdate

CONSTANTS
    Router, \* the child with the routing adapter
    Leaves, \* the leaves in the order in which they are configured
    Calls   \* jobs and preloads that use a leaf

Leaf == {Leaves[i] : i \in DOMAIN Leaves}

ASSUME RoutingAssumption == Router \in Child /\ Leaves \in Seq(Leaf) /\ Leaves # <<>>

VARIABLES
    leaf,  \* the settings of each leaf: not built, built without settings, configured
    made,  \* history: how many instances of the leaf this process has made
    call,  \* each call: [pc, leaf]
    passed \* the leaves an update and the building thread have handed a snapshot to

routing == <<leaf, made, call, passed>>

Handlers == {"update", "build"}
Idle == [pc |-> "idle", leaf |-> Leaves[1]]

\* The double-checked lock of a leaf is held by the call that makes its instance.
Locked(l) == \E t \in Calls : call[t] = [pc |-> "make", leaf |-> l]

-----------------------------------------------------------------------------
(* Calls.                                                                    *)

\* A call finds the routing adapter, published before it is configured, but not the
\* leaf it needs, and goes for the leaf's lock.
Use(t, l) ==
    /\ call[t].pc = "idle" /\ adapter[Router] # NotBuilt /\ leaf[l] = NotBuilt
    /\ call' = [call EXCEPT ![t] = [pc |-> "lock", leaf |-> l]]
    /\ UNCHANGED <<vars, leaf, made, passed>>

\* The second look, with the lock.
Missing_Unchecked(l) == TRUE
Missing(l) == leaf[l] = NotBuilt

Lock(t) ==
    /\ call[t].pc = "lock" /\ ~Locked(call[t].leaf)
    /\ call' = [call EXCEPT ![t] = IF Missing(@.leaf) THEN [@ EXCEPT !.pc = "make"]
                                   ELSE Idle]
    /\ UNCHANGED <<vars, leaf, made, passed>>

\* The factory makes an adapter with default settings; nobody configures it.
Make(t) ==
    /\ call[t].pc = "make"
    /\ leaf' = [leaf EXCEPT ![call[t].leaf] = Unset]
    /\ made' = [made EXCEPT ![call[t].leaf] = @ + 1]
    /\ call' = [call EXCEPT ![t] = Idle]
    /\ UNCHANGED <<vars, passed>>

\* The factory raises: the import fails.
MakeFails(t) ==
    /\ call[t].pc = "make"
    /\ call' = [call EXCEPT ![t] = Idle]
    /\ UNCHANGED <<vars, leaf, made, passed>>

-----------------------------------------------------------------------------
(* OcrEngineRoutingAdapter.configure_settings, called by an update and by    *)
(* the thread that builds the adapter.                                       *)

Handing(who) == CASE who = "update" -> upd.pc = "adapter" /\ Turn(Router)
                  [] who = "build"  -> build[Router].pc = "apply"
Handed(who) == IF who = "update" THEN upd.target ELSE build[Router].got
PassedAll(who) == passed[who] = Len(Leaves)

\* A leaf that is not built is passed over.
PassOn(who) ==
    /\ Handing(who) /\ ~PassedAll(who)
    /\ LET l == Leaves[passed[who] + 1] IN
       leaf' = [leaf EXCEPT ![l] = IF @ = NotBuilt THEN NotBuilt ELSE Handed(who)]
    /\ passed' = [passed EXCEPT ![who] = @ + 1]
    /\ UNCHANGED <<vars, made, call>>

RouterAccepts ==
    /\ PassedAll("update") /\ AdapterAccepts(Router)
    /\ passed' = [passed EXCEPT !["update"] = 0]
    /\ UNCHANGED <<leaf, made, call>>

RouterBuilt ==
    /\ PassedAll("build") /\ BuildApplies(Router)
    /\ passed' = [passed EXCEPT !["build"] = 0]
    /\ UNCHANGED <<leaf, made, call>>

\* A leaf records the snapshot and then fails to reach its worker: the leaves after
\* it are not reached.
LeafRefuses(who) ==
    /\ Handing(who) /\ ~PassedAll(who)
    /\ LET l == Leaves[passed[who] + 1] IN
       leaf[l] # NotBuilt /\ leaf' = [leaf EXCEPT ![l] = Handed(who)]
    /\ passed' = [passed EXCEPT ![who] = 0]
    /\ IF who = "update" THEN upd' = NoUpdate /\ UNCHANGED build
       ELSE build' = [build EXCEPT ![Router] = NoBuild] /\ UNCHANGED upd
    /\ Mishap({"refusal"})
    /\ UNCHANGED <<settings, disk, held, adapter, made, call>>

RoutedCrash ==
    /\ Crash
    /\ leaf' = [l \in Leaf |-> NotBuilt] /\ made' = [l \in Leaf |-> 0]
    /\ call' = [t \in Calls |-> Idle]
    /\ passed' = [w \in Handlers |-> 0]

-----------------------------------------------------------------------------
RoutedInit ==
    /\ Init
    /\ leaf = [l \in Leaf |-> NotBuilt] /\ made = [l \in Leaf |-> 0]
    /\ call = [t \in Calls |-> Idle]
    /\ passed = [w \in Handlers |-> 0]

Unrouted ==
    \/ \E s \in Snapshots : UpdateBegin(s)
    \/ \E c \in Child : ConfigureExecutor(c) \/ Build(c) \/ BuildReads(c)
    \/ \E c \in Child \ {Router} :
         \/ ConnectionInvalid(c) \/ AdapterAccepts(c) \/ AdapterRefuses(c)
         \/ BuildApplies(c) \/ BuildRefused(c)
    \/ RollbackEnds \/ Store \/ StoreFails \/ Publish

RoutedNext ==
    \/ Unrouted /\ UNCHANGED routing
    \/ \E t \in Calls, l \in Leaf : Use(t, l)
    \/ \E t \in Calls : Lock(t) \/ Make(t) \/ MakeFails(t)
    \/ \E who \in Handlers : PassOn(who) \/ LeafRefuses(who)
    \/ RouterAccepts \/ RouterBuilt \/ RoutedCrash

RoutedSpec == RoutedInit /\ [][RoutedNext]_<<vars, routing>>

-----------------------------------------------------------------------------
(* Properties                                                                *)

RoutedTypeOK ==
    /\ TypeOK
    /\ leaf \in [Leaf -> Snapshots \cup {NotBuilt, Unset}]
    /\ made \in [Leaf -> Nat]
    /\ call \in [Calls -> [pc : {"idle", "lock", "make"}, leaf : Leaf]]
    /\ passed \in [Handlers -> 0 .. Len(Leaves)]

\* Each adapter that was built lazily exists once, however many jobs and preloads met
\* at its first use: there is one Paddle process for it, not one per thread.  Between
\* updates it has the settings in effect, or none yet: never those of an update that
\* was rolled back, also when it was built in the middle of one.
LeavesFollow ==
    /\ \A l \in Leaf : made[l] <= 1
    /\ mishaps = {} /\ ~Updating /\ ~Building =>
           \A l \in Leaf : leaf[l] \in {NotBuilt, Unset, settings}

-----------------------------------------------------------------------------
(* What makes LeavesFollow inductive (the proofs are in                      *)
(* SettingsUpdateProofs).                                                    *)

\* One call at a time makes a leaf, and only one that is not there.
MadeOnce ==
    /\ \A l \in Leaf : made[l] = IF leaf[l] = NotBuilt THEN 0 ELSE 1
    /\ \A t \in Calls : call[t].pc = "make" =>
           /\ leaf[call[t].leaf] = NotBuilt
           /\ \A u \in Calls : call[u] = call[t] => u = t

\* Leaves are made and configured through the adapter that was built before them.
RouterFirst ==
    \/ \E l \in Leaf : leaf[l] # NotBuilt
    \/ \E t \in Calls : call[t].pc # "idle"
    \/ build[Router].pc # "none"
    => adapter[Router] # NotBuilt

HandedInTurn == \A who \in Handlers : passed[who] # 0 => Handing(who)

\* The leaves run on the settings in effect, and during an update those that it has
\* reached on its target: all of them once it has passed the adapter.
On(s, l) == leaf[l] \in {NotBuilt, Unset, s}
RouterPassed == \E i \in 1 .. Len(Children) : i < upd.next /\ Children[i] = Router
LeavesOnTheirWay ==
    mishaps = {} =>
        IF Updating
        THEN /\ RouterPassed => \A l \in Leaf : On(upd.target, l)
             /\ \A i \in 1 .. Len(Leaves) : i <= passed["update"] => On(upd.target, Leaves[i])
        ELSE \A l \in Leaf : On(settings, l)

RoutedInv == IInv /\ RoutedTypeOK /\ MadeOnce /\ RouterFirst /\ HandedInTurn /\ LeavesOnTheirWay

=============================================================================
