---------------------------- MODULE MineruProofs ----------------------------
(***************************************************************************)
(* MinerU, for any workers, connections, tiers, calls, files and mishaps.  *)
(* First the adapter of the service (MinerUSession): the leases guard the  *)
(* subprocess, calls keep their connection, and the catalog                *)
(* shows no tier as ready that another connection served.  Then a parse    *)
(* on the server (MineruJob): a job that may still run has the files and   *)
(* the mode it was made for.                                               *)
(***************************************************************************)
EXTENDS MinerUSession, MineruJob, TLAPS

\* Nobody uses MinerU when the process starts, and no tier is observed.
LEMMA InitIInv == Init => IInv
<1> SUFFICES ASSUME Init PROVE IInv
  OBVIOUS
<1> USE SessionAssumption DEF Init
<1>1. TypeOK
  BY DEF TypeOK, Pcs, UpdatePcs
<1>2. WorkersAreEquipped /\ NotesAreDistinct /\ ReliedIsOwned
  BY DEF WorkersAreEquipped, NotesAreDistinct, ReliedIsOwned, Leased
<1>4. ProcessOutlivesTheCall /\ ProcessIsOwned
  BY DEF ProcessOutlivesTheCall, ProcessIsOwned
<1>3. CallsKeepTheConnection /\ ReadyTiersWereServed
  BY DEF CallsKeepTheConnection, ReadyTiersWereServed
<1> QED BY <1>1, <1>2, <1>3, <1>4 DEF IInv

\* Types are kept by every step of a worker, of the process and of an update.
LEMMA TypeStep ==
  ASSUME TypeOK, WorkersAreEquipped, [Next]_vars PROVE TypeOK'
<1> USE SessionAssumption DEF TypeOK, Pcs, Leased, UpdatePcs, connVars, procVars, cfgVars, callVars
<1>1. ASSUME NEW w \in Workers, Arrive(w) PROVE TypeOK'
  BY <1>1 DEF Arrive, Goto
<1>2. ASSUME NEW w \in Workers, FindAdapter(w) PROVE TypeOK'
  BY <1>2 DEF FindAdapter, Goto
<1>3. ASSUME NEW w \in Workers, BuildAdapter(w) PROVE TypeOK'
  BY <1>3 DEF BuildAdapter, Goto
<1>4. ASSUME NEW w \in Workers, ReadSettings(w) PROVE TypeOK'
  BY <1>4 DEF ReadSettings, Goto
<1>5. ASSUME NEW w \in Workers, ConfigureBuilt(w) PROVE TypeOK'
  BY <1>5 DEF WorkersAreEquipped, ConfigureBuilt, Goto, Forget, SetConnection, Refused, Active, Leased
<1>6. ASSUME NEW w \in Workers, EnsureStarted(w) PROVE TypeOK'
  BY <1>6 DEF EnsureStarted, Goto, Construct
<1>7. ASSUME NEW w \in Workers, StartFails(w) PROVE TypeOK'
  BY <1>7 DEF StartFails, Goto
<1>8. ASSUME NEW w \in Workers, TakeLease(w) PROVE TypeOK'
  BY <1>8 DEF TakeLease, Goto
<1>9. ASSUME NEW w \in Workers, GetClient(w) PROVE TypeOK'
  BY <1>9 DEF GetClient, Goto, Construct
<1>10. ASSUME NEW w \in Workers, NoteConnection(w) PROVE TypeOK'
  BY <1>10 DEF NoteConnection
<1>11. ASSUME NEW w \in Workers, FixConnection(w) PROVE TypeOK'
  BY <1>11 DEF FixConnection, Goto
<1>12. ASSUME NEW w \in Workers, EnterCall(w) PROVE TypeOK'
  BY <1>12 DEF EnterCall, Goto
<1>13. ASSUME NEW w \in Workers, Executed(w) PROVE TypeOK'
  BY <1>13 DEF Executed, Goto, ObservedOn, Forget
<1>14. ASSUME NEW w \in Workers, Parsed(w) PROVE TypeOK'
  BY <1>14 DEF Parsed, Goto, Forget
<1>15. ASSUME NEW w \in Workers, CallFails(w) PROVE TypeOK'
  BY <1>15 DEF CallFails, Goto, Forget
<1>16. ASSUME NEW w \in Workers, DropLease(w) PROVE TypeOK'
  BY <1>16 DEF DropLease, Goto
<1>17. CASE TimePasses
  BY <1>17 DEF TimePasses
<1>18. CASE WatcherStops
  BY <1>18 DEF WatcherStops, MayEvict, Stop, Active, Leased
<1>19. CASE ReleaseIdle
  BY <1>19 DEF ReleaseIdle, MayEvict, Stop, Active, Leased
<1>20. CASE \E c \in Conns : UpdateBegin(c)
  BY <1>20 DEF UpdateBegin
<1>21. CASE UpdateLooks
  BY <1>21 DEF UpdateLooks, UpdateAt
<1>22. CASE UpdateBlind
  BY <1>22 DEF UpdateBlind, UpdateAt, SetConnection
<1>23. CASE UpdateExecutor
  BY <1>23 DEF UpdateExecutor, UpdateAt, AfterConfigure
<1>24. CASE UpdateAdapter
  <2>1. CASE Refused(upd.target)
    BY <1>24, <2>1 DEF UpdateAdapter, UpdateAt
  <2>2. CASE ~Refused(upd.target)
    BY <1>24, <2>2 DEF UpdateAdapter, UpdateAt, AfterConfigure, SetConnection
  <2> QED BY <2>1, <2>2
<1>25. CASE UpdateStored
  BY <1>25 DEF UpdateStored, UpdateAt
<1>26. CASE StoreFails
  BY <1>26 DEF StoreFails
<1>27. CASE UNCHANGED vars
  BY <1>27 DEF vars
<1>28. CASE Close
  BY <1>28 DEF Close, Stop
<1> QED
  BY <1>1, <1>2, <1>3, <1>4, <1>5, <1>6, <1>7, <1>8, <1>9, <1>10, <1>11, <1>12,
     <1>13, <1>14, <1>15, <1>16, <1>17, <1>18, <1>19, <1>20, <1>21, <1>22, <1>23,
     <1>24, <1>25, <1>26, <1>27, <1>28
  DEF Next, Use, Update

\* Nobody gets past the adapter before it is built, to a call before there is a client,
\* or to configure the adapter without settings.
LEMMA EquippedStep ==
  ASSUME TypeOK, WorkersAreEquipped, [Next]_vars PROVE WorkersAreEquipped'
<1> USE SessionAssumption DEF TypeOK, WorkersAreEquipped, connVars, procVars, cfgVars, callVars
<1>1. ASSUME NEW w \in Workers, Arrive(w) PROVE WorkersAreEquipped'
  BY <1>1 DEF Arrive, Goto
<1>2. ASSUME NEW w \in Workers, FindAdapter(w) PROVE WorkersAreEquipped'
  BY <1>2 DEF FindAdapter, Goto
<1>3. ASSUME NEW w \in Workers, BuildAdapter(w) PROVE WorkersAreEquipped'
  BY <1>3 DEF BuildAdapter, Goto
<1>4. ASSUME NEW w \in Workers, ReadSettings(w) PROVE WorkersAreEquipped'
  BY <1>4 DEF ReadSettings, Goto
<1>5. ASSUME NEW w \in Workers, ConfigureBuilt(w) PROVE WorkersAreEquipped'
  BY <1>5 DEF ConfigureBuilt, Goto, Forget, SetConnection, Refused, Active, Leased
<1>6. ASSUME NEW w \in Workers, EnsureStarted(w) PROVE WorkersAreEquipped'
  BY <1>6 DEF EnsureStarted, Goto, Construct
<1>7. ASSUME NEW w \in Workers, StartFails(w) PROVE WorkersAreEquipped'
  BY <1>7 DEF StartFails, Goto
<1>8. ASSUME NEW w \in Workers, TakeLease(w) PROVE WorkersAreEquipped'
  BY <1>8 DEF TakeLease, Goto
<1>9. ASSUME NEW w \in Workers, GetClient(w) PROVE WorkersAreEquipped'
  BY <1>9 DEF GetClient, Goto, Construct
<1>10. ASSUME NEW w \in Workers, NoteConnection(w) PROVE WorkersAreEquipped'
  BY <1>10 DEF NoteConnection
<1>11. ASSUME NEW w \in Workers, FixConnection(w) PROVE WorkersAreEquipped'
  BY <1>11 DEF FixConnection, Goto
<1>12. ASSUME NEW w \in Workers, EnterCall(w) PROVE WorkersAreEquipped'
  BY <1>12 DEF EnterCall, Goto
<1>13. ASSUME NEW w \in Workers, Executed(w) PROVE WorkersAreEquipped'
  BY <1>13 DEF Executed, Goto, ObservedOn, Forget
<1>14. ASSUME NEW w \in Workers, Parsed(w) PROVE WorkersAreEquipped'
  BY <1>14 DEF Parsed, Goto, Forget
<1>15. ASSUME NEW w \in Workers, CallFails(w) PROVE WorkersAreEquipped'
  BY <1>15 DEF CallFails, Goto, Forget
<1>16. ASSUME NEW w \in Workers, DropLease(w) PROVE WorkersAreEquipped'
  BY <1>16 DEF DropLease, Goto
<1>17. CASE TimePasses
  BY <1>17 DEF TimePasses
<1>18. CASE WatcherStops
  BY <1>18 DEF WatcherStops, MayEvict, Stop, Active, Leased
<1>19. CASE ReleaseIdle
  BY <1>19 DEF ReleaseIdle, MayEvict, Stop, Active, Leased
<1>20. CASE \E c \in Conns : UpdateBegin(c)
  BY <1>20 DEF UpdateBegin
<1>21. CASE UpdateLooks
  BY <1>21 DEF UpdateLooks, UpdateAt
<1>22. CASE UpdateBlind
  BY <1>22 DEF UpdateBlind, UpdateAt, SetConnection
<1>23. CASE UpdateExecutor
  BY <1>23 DEF UpdateExecutor, UpdateAt, AfterConfigure
<1>24. CASE UpdateAdapter
  BY <1>24 DEF UpdateAdapter, UpdateAt, AfterConfigure, SetConnection, Refused, Active, Leased
<1>25. CASE UpdateStored
  BY <1>25 DEF UpdateStored, UpdateAt
<1>26. CASE StoreFails
  BY <1>26 DEF StoreFails
<1>27. CASE UNCHANGED vars
  BY <1>27 DEF vars
<1>28. CASE Close
  BY <1>28 DEF Close, Stop
<1> QED
  BY <1>1, <1>2, <1>3, <1>4, <1>5, <1>6, <1>7, <1>8, <1>9, <1>10, <1>11, <1>12,
     <1>13, <1>14, <1>15, <1>16, <1>17, <1>18, <1>19, <1>20, <1>21, <1>22, <1>23,
     <1>24, <1>25, <1>26, <1>27, <1>28
  DEF Next, Use, Update

\* A stop by the watcher or a release needs an adapter without leases, a failed start a
\* service that was never constructed: neither is the case while a call is in progress.
\* Close stops it, and remembers the calls it cut.
LEMMA ProcessStep ==
  ASSUME TypeOK, WorkersAreEquipped, ProcessOutlivesTheCall, [Next]_vars
  PROVE  ProcessOutlivesTheCall'
<1> USE DEF TypeOK, WorkersAreEquipped, ProcessOutlivesTheCall, connVars, procVars, cfgVars, callVars
<1>1. ASSUME NEW w \in Workers, Arrive(w) PROVE ProcessOutlivesTheCall'
  BY <1>1 DEF Arrive, Goto
<1>2. ASSUME NEW w \in Workers, FindAdapter(w) PROVE ProcessOutlivesTheCall'
  BY <1>2 DEF FindAdapter, Goto
<1>3. ASSUME NEW w \in Workers, BuildAdapter(w) PROVE ProcessOutlivesTheCall'
  BY <1>3 DEF BuildAdapter, Goto
<1>4. ASSUME NEW w \in Workers, ReadSettings(w) PROVE ProcessOutlivesTheCall'
  BY <1>4 DEF ReadSettings, Goto
<1>5. ASSUME NEW w \in Workers, ConfigureBuilt(w) PROVE ProcessOutlivesTheCall'
  BY <1>5 DEF ConfigureBuilt, Goto, Forget, SetConnection, Refused, Active, Leased
<1>6. ASSUME NEW w \in Workers, EnsureStarted(w) PROVE ProcessOutlivesTheCall'
  BY <1>6 DEF EnsureStarted, Goto, Construct
<1>7. ASSUME NEW w \in Workers, StartFails(w) PROVE ProcessOutlivesTheCall'
  BY <1>7 DEF StartFails, Goto
<1>8. ASSUME NEW w \in Workers, TakeLease(w) PROVE ProcessOutlivesTheCall'
  BY <1>8 DEF TakeLease, Goto
<1>9. ASSUME NEW w \in Workers, GetClient(w) PROVE ProcessOutlivesTheCall'
  BY <1>9 DEF GetClient, Goto, Construct
<1>10. ASSUME NEW w \in Workers, NoteConnection(w) PROVE ProcessOutlivesTheCall'
  BY <1>10 DEF NoteConnection
<1>11. ASSUME NEW w \in Workers, FixConnection(w) PROVE ProcessOutlivesTheCall'
  BY <1>11 DEF FixConnection, Goto
<1>12. ASSUME NEW w \in Workers, EnterCall(w) PROVE ProcessOutlivesTheCall'
  BY <1>12 DEF EnterCall, Goto
<1>13. ASSUME NEW w \in Workers, Executed(w) PROVE ProcessOutlivesTheCall'
  BY <1>13 DEF Executed, Goto, ObservedOn, Forget
<1>14. ASSUME NEW w \in Workers, Parsed(w) PROVE ProcessOutlivesTheCall'
  BY <1>14 DEF Parsed, Goto, Forget
<1>15. ASSUME NEW w \in Workers, CallFails(w) PROVE ProcessOutlivesTheCall'
  BY <1>15 DEF CallFails, Goto, Forget
<1>16. ASSUME NEW w \in Workers, DropLease(w) PROVE ProcessOutlivesTheCall'
  BY <1>16 DEF DropLease, Goto
<1>17. CASE TimePasses
  BY <1>17 DEF TimePasses
<1>18. CASE WatcherStops
  BY <1>18 DEF WatcherStops, MayEvict, Stop, Active, Leased
<1>19. CASE ReleaseIdle
  BY <1>19 DEF ReleaseIdle, MayEvict, Stop, Active, Leased
<1>20. CASE \E c \in Conns : UpdateBegin(c)
  BY <1>20 DEF UpdateBegin
<1>21. CASE UpdateLooks
  BY <1>21 DEF UpdateLooks, UpdateAt
<1>22. CASE UpdateBlind
  BY <1>22 DEF UpdateBlind, UpdateAt, SetConnection
<1>23. CASE UpdateExecutor
  BY <1>23 DEF UpdateExecutor, UpdateAt, AfterConfigure
<1>24. CASE UpdateAdapter
  BY <1>24 DEF UpdateAdapter, UpdateAt, AfterConfigure, SetConnection, Refused, Active, Leased
<1>25. CASE UpdateStored
  BY <1>25 DEF UpdateStored, UpdateAt
<1>26. CASE StoreFails
  BY <1>26 DEF StoreFails
<1>27. CASE UNCHANGED vars
  BY <1>27 DEF vars
<1>28. CASE Close
  BY <1>28 DEF Close, Stop
<1> QED
  BY <1>1, <1>2, <1>3, <1>4, <1>5, <1>6, <1>7, <1>8, <1>9, <1>10, <1>11, <1>12,
     <1>13, <1>14, <1>15, <1>16, <1>17, <1>18, <1>19, <1>20, <1>21, <1>22, <1>23,
     <1>24, <1>25, <1>26, <1>27, <1>28
  DEF Next, Use, Update

\* A stop or a change of the connection under one that relies on ensure_started is a gap,
\* and without it ensure_started leaves a local subprocess started.
LEMMA ReliedStep ==
  ASSUME TypeOK, WorkersAreEquipped, ReliedIsOwned, [Next]_vars
  PROVE  ReliedIsOwned'
<1> USE SessionAssumption DEF TypeOK, WorkersAreEquipped, ReliedIsOwned, Leased, connVars, procVars, cfgVars, callVars
<1>1. ASSUME NEW w \in Workers, Arrive(w) PROVE ReliedIsOwned'
  BY <1>1 DEF Arrive, Goto
<1>2. ASSUME NEW w \in Workers, FindAdapter(w) PROVE ReliedIsOwned'
  BY <1>2 DEF FindAdapter, Goto
<1>3. ASSUME NEW w \in Workers, BuildAdapter(w) PROVE ReliedIsOwned'
  BY <1>3 DEF BuildAdapter, Goto
<1>4. ASSUME NEW w \in Workers, ReadSettings(w) PROVE ReliedIsOwned'
  BY <1>4 DEF ReadSettings, Goto
<1>5. ASSUME NEW w \in Workers, ConfigureBuilt(w) PROVE ReliedIsOwned'
  BY <1>5 DEF ConfigureBuilt, Goto, Forget, SetConnection, Refused, Active, Relied, Leased
<1>6. ASSUME NEW w \in Workers, EnsureStarted(w) PROVE ReliedIsOwned'
  BY <1>6 DEF EnsureStarted, Goto, Construct
<1>7. ASSUME NEW w \in Workers, StartFails(w) PROVE ReliedIsOwned'
  BY <1>7 DEF StartFails, Goto
<1>8. ASSUME NEW w \in Workers, TakeLease(w) PROVE ReliedIsOwned'
  BY <1>8 DEF TakeLease, Goto
<1>9. ASSUME NEW w \in Workers, GetClient(w) PROVE ReliedIsOwned'
  BY <1>9 DEF GetClient, Goto, Construct
<1>10. ASSUME NEW w \in Workers, NoteConnection(w) PROVE ReliedIsOwned'
  BY <1>10 DEF NoteConnection
<1>11. ASSUME NEW w \in Workers, FixConnection(w) PROVE ReliedIsOwned'
  BY <1>11 DEF FixConnection, Goto
<1>12. ASSUME NEW w \in Workers, EnterCall(w) PROVE ReliedIsOwned'
  BY <1>12 DEF EnterCall, Goto
<1>13. ASSUME NEW w \in Workers, Executed(w) PROVE ReliedIsOwned'
  BY <1>13 DEF Executed, Goto, ObservedOn, Forget
<1>14. ASSUME NEW w \in Workers, Parsed(w) PROVE ReliedIsOwned'
  BY <1>14 DEF Parsed, Goto, Forget
<1>15. ASSUME NEW w \in Workers, CallFails(w) PROVE ReliedIsOwned'
  BY <1>15 DEF CallFails, Goto, Forget
<1>16. ASSUME NEW w \in Workers, DropLease(w) PROVE ReliedIsOwned'
  BY <1>16 DEF DropLease, Goto
<1>17. CASE TimePasses
  BY <1>17 DEF TimePasses
<1>18. CASE WatcherStops
  BY <1>18 DEF WatcherStops, MayEvict, Stop, Active, Relied, Leased
<1>19. CASE ReleaseIdle
  BY <1>19 DEF ReleaseIdle, MayEvict, Stop, Active, Relied, Leased
<1>20. CASE \E c \in Conns : UpdateBegin(c)
  BY <1>20 DEF UpdateBegin
<1>21. CASE UpdateLooks
  BY <1>21 DEF UpdateLooks, UpdateAt
<1>22. CASE UpdateBlind
  BY <1>22 DEF UpdateBlind, UpdateAt, SetConnection, Active, Relied, Leased
<1>23. CASE UpdateExecutor
  BY <1>23 DEF UpdateExecutor, UpdateAt, AfterConfigure
<1>24. CASE UpdateAdapter
  BY <1>24 DEF UpdateAdapter, UpdateAt, AfterConfigure, SetConnection, Refused, Active, Relied, Leased
<1>25. CASE UpdateStored
  BY <1>25 DEF UpdateStored, UpdateAt
<1>26. CASE StoreFails
  BY <1>26 DEF StoreFails
<1>27. CASE UNCHANGED vars
  BY <1>27 DEF vars
<1>28. CASE Close
  BY <1>28 DEF Close, Stop, Active, Relied, Leased
<1> QED
  BY <1>1, <1>2, <1>3, <1>4, <1>5, <1>6, <1>7, <1>8, <1>9, <1>10, <1>11, <1>12,
     <1>13, <1>14, <1>15, <1>16, <1>17, <1>18, <1>19, <1>20, <1>21, <1>22, <1>23,
     <1>24, <1>25, <1>26, <1>27, <1>28
  DEF Next, Use, Update

\* A subprocess appears with ensure_started, in a failed start, or for a call that relies
\* on one that was started.
LEMMA OwnedStep ==
  ASSUME TypeOK, WorkersAreEquipped, ReliedIsOwned, ProcessIsOwned, [Next]_vars
  PROVE  ProcessIsOwned'
<1> USE DEF TypeOK, ReliedIsOwned, ProcessIsOwned, Leased, connVars, procVars, cfgVars, callVars
<1>1. ASSUME NEW w \in Workers, Arrive(w) PROVE ProcessIsOwned'
  BY <1>1 DEF Arrive, Goto
<1>2. ASSUME NEW w \in Workers, FindAdapter(w) PROVE ProcessIsOwned'
  BY <1>2 DEF FindAdapter, Goto
<1>3. ASSUME NEW w \in Workers, BuildAdapter(w) PROVE ProcessIsOwned'
  BY <1>3 DEF BuildAdapter, Goto
<1>4. ASSUME NEW w \in Workers, ReadSettings(w) PROVE ProcessIsOwned'
  BY <1>4 DEF ReadSettings, Goto
<1>5. ASSUME NEW w \in Workers, ConfigureBuilt(w) PROVE ProcessIsOwned'
  BY <1>5 DEF ConfigureBuilt, Goto, Forget, SetConnection, Refused, Active, Relied, Leased
<1>6. ASSUME NEW w \in Workers, EnsureStarted(w) PROVE ProcessIsOwned'
  BY <1>6 DEF EnsureStarted, Goto, Construct
<1>7. ASSUME NEW w \in Workers, StartFails(w) PROVE ProcessIsOwned'
  BY <1>7 DEF StartFails, Goto
<1>8. ASSUME NEW w \in Workers, TakeLease(w) PROVE ProcessIsOwned'
  BY <1>8 DEF TakeLease, Goto
<1>9. ASSUME NEW w \in Workers, GetClient(w) PROVE ProcessIsOwned'
  BY <1>9 DEF GetClient, Goto, Construct
<1>10. ASSUME NEW w \in Workers, NoteConnection(w) PROVE ProcessIsOwned'
  BY <1>10 DEF NoteConnection
<1>11. ASSUME NEW w \in Workers, FixConnection(w) PROVE ProcessIsOwned'
  BY <1>11 DEF FixConnection, Goto
<1>12. ASSUME NEW w \in Workers, EnterCall(w) PROVE ProcessIsOwned'
  BY <1>12 DEF EnterCall, Goto
<1>13. ASSUME NEW w \in Workers, Executed(w) PROVE ProcessIsOwned'
  BY <1>13 DEF Executed, Goto, ObservedOn, Forget
<1>14. ASSUME NEW w \in Workers, Parsed(w) PROVE ProcessIsOwned'
  BY <1>14 DEF Parsed, Goto, Forget
<1>15. ASSUME NEW w \in Workers, CallFails(w) PROVE ProcessIsOwned'
  BY <1>15 DEF CallFails, Goto, Forget
<1>16. ASSUME NEW w \in Workers, DropLease(w) PROVE ProcessIsOwned'
  BY <1>16 DEF DropLease, Goto
<1>17. CASE TimePasses
  BY <1>17 DEF TimePasses
<1>18. CASE WatcherStops
  BY <1>18 DEF WatcherStops, MayEvict, Stop, Active, Relied, Leased
<1>19. CASE ReleaseIdle
  BY <1>19 DEF ReleaseIdle, MayEvict, Stop, Active, Relied, Leased
<1>20. CASE \E c \in Conns : UpdateBegin(c)
  BY <1>20 DEF UpdateBegin
<1>21. CASE UpdateLooks
  BY <1>21 DEF UpdateLooks, UpdateAt
<1>22. CASE UpdateBlind
  BY <1>22 DEF UpdateBlind, UpdateAt, SetConnection, Active, Relied, Leased
<1>23. CASE UpdateExecutor
  BY <1>23 DEF UpdateExecutor, UpdateAt, AfterConfigure
<1>24. CASE UpdateAdapter
  BY <1>24 DEF UpdateAdapter, UpdateAt, AfterConfigure, SetConnection, Refused, Active, Relied, Leased
<1>25. CASE UpdateStored
  BY <1>25 DEF UpdateStored, UpdateAt
<1>26. CASE StoreFails
  BY <1>26 DEF StoreFails
<1>27. CASE UNCHANGED vars
  BY <1>27 DEF vars
<1>28. CASE Close
  BY <1>28 DEF Close, Stop, Active, Relied, Leased
<1> QED
  BY <1>1, <1>2, <1>3, <1>4, <1>5, <1>6, <1>7, <1>8, <1>9, <1>10, <1>11, <1>12,
     <1>13, <1>14, <1>15, <1>16, <1>17, <1>18, <1>19, <1>20, <1>21, <1>22, <1>23,
     <1>24, <1>25, <1>26, <1>27, <1>28
  DEF Next, Use, Update

\* A change of the connection needs an adapter without leases, or no adapter.
LEMMA ConnectionStep ==
  ASSUME TypeOK, WorkersAreEquipped, CallsKeepTheConnection, [Next]_vars
  PROVE  CallsKeepTheConnection'
<1> USE DEF TypeOK, WorkersAreEquipped, CallsKeepTheConnection, connVars, procVars, cfgVars, callVars
<1>1. ASSUME NEW w \in Workers, Arrive(w) PROVE CallsKeepTheConnection'
  BY <1>1 DEF Arrive, Goto
<1>2. ASSUME NEW w \in Workers, FindAdapter(w) PROVE CallsKeepTheConnection'
  BY <1>2 DEF FindAdapter, Goto
<1>3. ASSUME NEW w \in Workers, BuildAdapter(w) PROVE CallsKeepTheConnection'
  BY <1>3 DEF BuildAdapter, Goto
<1>4. ASSUME NEW w \in Workers, ReadSettings(w) PROVE CallsKeepTheConnection'
  BY <1>4 DEF ReadSettings, Goto
<1>5. ASSUME NEW w \in Workers, ConfigureBuilt(w) PROVE CallsKeepTheConnection'
  BY <1>5 DEF ConfigureBuilt, Goto, Forget, SetConnection, Refused, Active, Leased
<1>6. ASSUME NEW w \in Workers, EnsureStarted(w) PROVE CallsKeepTheConnection'
  BY <1>6 DEF EnsureStarted, Goto, Construct
<1>7. ASSUME NEW w \in Workers, StartFails(w) PROVE CallsKeepTheConnection'
  BY <1>7 DEF StartFails, Goto
<1>8. ASSUME NEW w \in Workers, TakeLease(w) PROVE CallsKeepTheConnection'
  BY <1>8 DEF TakeLease, Goto
<1>9. ASSUME NEW w \in Workers, GetClient(w) PROVE CallsKeepTheConnection'
  BY <1>9 DEF GetClient, Goto, Construct
<1>10. ASSUME NEW w \in Workers, NoteConnection(w) PROVE CallsKeepTheConnection'
  BY <1>10 DEF NoteConnection
<1>11. ASSUME NEW w \in Workers, FixConnection(w) PROVE CallsKeepTheConnection'
  BY <1>11 DEF FixConnection, Goto
<1>12. ASSUME NEW w \in Workers, EnterCall(w) PROVE CallsKeepTheConnection'
  BY <1>12 DEF EnterCall, Goto
<1>13. ASSUME NEW w \in Workers, Executed(w) PROVE CallsKeepTheConnection'
  BY <1>13 DEF Executed, Goto, ObservedOn, Forget
<1>14. ASSUME NEW w \in Workers, Parsed(w) PROVE CallsKeepTheConnection'
  BY <1>14 DEF Parsed, Goto, Forget
<1>15. ASSUME NEW w \in Workers, CallFails(w) PROVE CallsKeepTheConnection'
  BY <1>15 DEF CallFails, Goto, Forget
<1>16. ASSUME NEW w \in Workers, DropLease(w) PROVE CallsKeepTheConnection'
  BY <1>16 DEF DropLease, Goto
<1>17. CASE TimePasses
  BY <1>17 DEF TimePasses
<1>18. CASE WatcherStops
  BY <1>18 DEF WatcherStops, MayEvict, Stop, Active, Leased
<1>19. CASE ReleaseIdle
  BY <1>19 DEF ReleaseIdle, MayEvict, Stop, Active, Leased
<1>20. CASE \E c \in Conns : UpdateBegin(c)
  BY <1>20 DEF UpdateBegin
<1>21. CASE UpdateLooks
  BY <1>21 DEF UpdateLooks, UpdateAt
<1>22. CASE UpdateBlind
  BY <1>22 DEF UpdateBlind, UpdateAt, SetConnection
<1>23. CASE UpdateExecutor
  BY <1>23 DEF UpdateExecutor, UpdateAt, AfterConfigure
<1>24. CASE UpdateAdapter
  BY <1>24 DEF UpdateAdapter, UpdateAt, AfterConfigure, SetConnection, Refused, Active, Leased
<1>25. CASE UpdateStored
  BY <1>25 DEF UpdateStored, UpdateAt
<1>26. CASE StoreFails
  BY <1>26 DEF StoreFails
<1>27. CASE UNCHANGED vars
  BY <1>27 DEF vars
<1>28. CASE Close
  BY <1>28 DEF Close, Stop
<1> QED
  BY <1>1, <1>2, <1>3, <1>4, <1>5, <1>6, <1>7, <1>8, <1>9, <1>10, <1>11, <1>12,
     <1>13, <1>14, <1>15, <1>16, <1>17, <1>18, <1>19, <1>20, <1>21, <1>22, <1>23,
     <1>24, <1>25, <1>26, <1>27, <1>28
  DEF Next, Use, Update

\* A blind update comes to an adapter that was built meanwhile at most once.
LEMMA NotesStep ==
  ASSUME TypeOK, WorkersAreEquipped, NotesAreDistinct, [Next]_vars
  PROVE  NotesAreDistinct'
<1> USE SessionAssumption DEF TypeOK, WorkersAreEquipped, NotesAreDistinct, connVars, procVars, cfgVars, callVars
<1>1. ASSUME NEW w \in Workers, Arrive(w) PROVE NotesAreDistinct'
  BY <1>1 DEF Arrive, Goto
<1>2. ASSUME NEW w \in Workers, FindAdapter(w) PROVE NotesAreDistinct'
  BY <1>2 DEF FindAdapter, Goto
<1>3. ASSUME NEW w \in Workers, BuildAdapter(w) PROVE NotesAreDistinct'
  BY <1>3 DEF BuildAdapter, Goto
<1>4. ASSUME NEW w \in Workers, ReadSettings(w) PROVE NotesAreDistinct'
  BY <1>4 DEF ReadSettings, Goto
<1>5. ASSUME NEW w \in Workers, ConfigureBuilt(w) PROVE NotesAreDistinct'
  BY <1>5 DEF ConfigureBuilt, Goto, Forget, SetConnection, Refused, Active, Leased
<1>6. ASSUME NEW w \in Workers, EnsureStarted(w) PROVE NotesAreDistinct'
  BY <1>6 DEF EnsureStarted, Goto, Construct
<1>7. ASSUME NEW w \in Workers, StartFails(w) PROVE NotesAreDistinct'
  BY <1>7 DEF StartFails, Goto
<1>8. ASSUME NEW w \in Workers, TakeLease(w) PROVE NotesAreDistinct'
  BY <1>8 DEF TakeLease, Goto
<1>9. ASSUME NEW w \in Workers, GetClient(w) PROVE NotesAreDistinct'
  BY <1>9 DEF GetClient, Goto, Construct
<1>10. ASSUME NEW w \in Workers, NoteConnection(w) PROVE NotesAreDistinct'
  BY <1>10 DEF NoteConnection
<1>11. ASSUME NEW w \in Workers, FixConnection(w) PROVE NotesAreDistinct'
  BY <1>11 DEF FixConnection, Goto
<1>12. ASSUME NEW w \in Workers, EnterCall(w) PROVE NotesAreDistinct'
  BY <1>12 DEF EnterCall, Goto
<1>13. ASSUME NEW w \in Workers, Executed(w) PROVE NotesAreDistinct'
  BY <1>13 DEF Executed, Goto, ObservedOn, Forget
<1>14. ASSUME NEW w \in Workers, Parsed(w) PROVE NotesAreDistinct'
  BY <1>14 DEF Parsed, Goto, Forget
<1>15. ASSUME NEW w \in Workers, CallFails(w) PROVE NotesAreDistinct'
  BY <1>15 DEF CallFails, Goto, Forget
<1>16. ASSUME NEW w \in Workers, DropLease(w) PROVE NotesAreDistinct'
  BY <1>16 DEF DropLease, Goto
<1>17. CASE TimePasses
  BY <1>17 DEF TimePasses
<1>18. CASE WatcherStops
  BY <1>18 DEF WatcherStops, MayEvict, Stop, Active, Leased
<1>19. CASE ReleaseIdle
  BY <1>19 DEF ReleaseIdle, MayEvict, Stop, Active, Leased
<1>20. CASE \E c \in Conns : UpdateBegin(c)
  BY <1>20 DEF UpdateBegin
<1>21. CASE UpdateLooks
  BY <1>21 DEF UpdateLooks, UpdateAt
<1>22. CASE UpdateBlind
  BY <1>22 DEF UpdateBlind, UpdateAt, SetConnection
<1>23. CASE UpdateExecutor
  BY <1>23 DEF UpdateExecutor, UpdateAt, AfterConfigure
<1>24. CASE UpdateAdapter
  BY <1>24 DEF UpdateAdapter, UpdateAt, AfterConfigure, SetConnection, Refused, Active, Leased
<1>25. CASE UpdateStored
  BY <1>25 DEF UpdateStored, UpdateAt
<1>26. CASE StoreFails
  BY <1>26 DEF StoreFails
<1>27. CASE UNCHANGED vars
  BY <1>27 DEF vars
<1>28. CASE Close
  BY <1>28 DEF Close, Stop
<1> QED
  BY <1>1, <1>2, <1>3, <1>4, <1>5, <1>6, <1>7, <1>8, <1>9, <1>10, <1>11, <1>12,
     <1>13, <1>14, <1>15, <1>16, <1>17, <1>18, <1>19, <1>20, <1>21, <1>22, <1>23,
     <1>24, <1>25, <1>26, <1>27, <1>28
  DEF Next, Use, Update

\* A change of the connection clears the observations, and an execution files its
\* observation under the connection noted before the call.
LEMMA ServedStep ==
  ASSUME TypeOK, WorkersAreEquipped, NotesAreDistinct, ReadyTiersWereServed, [Next]_vars
  PROVE  ReadyTiersWereServed'
<1> USE SessionAssumption DEF TypeOK, ReadyTiersWereServed, connVars, procVars, cfgVars, callVars
<1>1. ASSUME NEW w \in Workers, Arrive(w) PROVE ReadyTiersWereServed'
  BY <1>1 DEF Arrive, Goto
<1>2. ASSUME NEW w \in Workers, FindAdapter(w) PROVE ReadyTiersWereServed'
  BY <1>2 DEF FindAdapter, Goto
<1>3. ASSUME NEW w \in Workers, BuildAdapter(w) PROVE ReadyTiersWereServed'
  BY <1>3 DEF BuildAdapter, Goto
<1>4. ASSUME NEW w \in Workers, ReadSettings(w) PROVE ReadyTiersWereServed'
  BY <1>4 DEF ReadSettings, Goto
<1>5. ASSUME NEW w \in Workers, ConfigureBuilt(w) PROVE ReadyTiersWereServed'
  BY <1>5 DEF WorkersAreEquipped, ConfigureBuilt, Goto, Forget, SetConnection, Refused, Active, Leased
<1>6. ASSUME NEW w \in Workers, EnsureStarted(w) PROVE ReadyTiersWereServed'
  BY <1>6 DEF EnsureStarted, Goto, Construct
<1>7. ASSUME NEW w \in Workers, StartFails(w) PROVE ReadyTiersWereServed'
  BY <1>7 DEF StartFails, Goto
<1>8. ASSUME NEW w \in Workers, TakeLease(w) PROVE ReadyTiersWereServed'
  BY <1>8 DEF TakeLease, Goto
<1>9. ASSUME NEW w \in Workers, GetClient(w) PROVE ReadyTiersWereServed'
  BY <1>9 DEF GetClient, Goto, Construct
<1>10. ASSUME NEW w \in Workers, NoteConnection(w) PROVE ReadyTiersWereServed'
  BY <1>10 DEF NoteConnection
<1>11. ASSUME NEW w \in Workers, FixConnection(w) PROVE ReadyTiersWereServed'
  BY <1>11 DEF FixConnection, Goto
<1>12. ASSUME NEW w \in Workers, EnterCall(w) PROVE ReadyTiersWereServed'
  BY <1>12 DEF EnterCall, Goto
<1>13. ASSUME NEW w \in Workers, Executed(w) PROVE ReadyTiersWereServed'
  BY <1>13 DEF NotesAreDistinct, Executed, Goto, ObservedOn, Forget
<1>14. ASSUME NEW w \in Workers, Parsed(w) PROVE ReadyTiersWereServed'
  BY <1>14 DEF Parsed, Goto, Forget
<1>15. ASSUME NEW w \in Workers, CallFails(w) PROVE ReadyTiersWereServed'
  BY <1>15 DEF CallFails, Goto, Forget
<1>16. ASSUME NEW w \in Workers, DropLease(w) PROVE ReadyTiersWereServed'
  BY <1>16 DEF DropLease, Goto
<1>17. CASE TimePasses
  BY <1>17 DEF TimePasses
<1>18. CASE WatcherStops
  BY <1>18 DEF WatcherStops, MayEvict, Stop, Active, Leased
<1>19. CASE ReleaseIdle
  BY <1>19 DEF ReleaseIdle, MayEvict, Stop, Active, Leased
<1>20. CASE \E c \in Conns : UpdateBegin(c)
  BY <1>20 DEF UpdateBegin
<1>21. CASE UpdateLooks
  BY <1>21 DEF UpdateLooks, UpdateAt
<1>22. CASE UpdateBlind
  BY <1>22 DEF UpdateBlind, UpdateAt, SetConnection
<1>23. CASE UpdateExecutor
  BY <1>23 DEF UpdateExecutor, UpdateAt, AfterConfigure
<1>24. CASE UpdateAdapter
  BY <1>24 DEF UpdateAdapter, UpdateAt, AfterConfigure, SetConnection, Refused, Active, Leased
<1>25. CASE UpdateStored
  BY <1>25 DEF UpdateStored, UpdateAt
<1>26. CASE StoreFails
  BY <1>26 DEF StoreFails
<1>27. CASE UNCHANGED vars
  BY <1>27 DEF vars
<1>28. CASE Close
  BY <1>28 DEF Close, Stop
<1> QED
  BY <1>1, <1>2, <1>3, <1>4, <1>5, <1>6, <1>7, <1>8, <1>9, <1>10, <1>11, <1>12,
     <1>13, <1>14, <1>15, <1>16, <1>17, <1>18, <1>19, <1>20, <1>21, <1>22, <1>23,
     <1>24, <1>25, <1>26, <1>27, <1>28
  DEF Next, Use, Update

\* The invariant holds throughout, for any workers, connections and tiers.
THEOREM Invariance == Spec => []IInv
<1>1. IInv /\ [Next]_vars => IInv'
  BY TypeStep, EquippedStep, NotesStep, ReliedStep, ProcessStep, OwnedStep, ConnectionStep, ServedStep DEF IInv
<1> QED BY InitIInv, <1>1, PTL DEF Spec

\* Type correctness of the session state.
THEOREM TypeCorrect == Spec => []TypeOK
BY Invariance, PTL DEF IInv

\* Nothing but the shutdown stops the local subprocess under a call, and one that exists
\* is known to the adapter, which will stop it, unless something came between an
\* ensure_started and the lease or the call that relied on it.
THEOREM ProcessOutlives == Spec => []LeasesGuardTheProcess
<1>1. IInv => LeasesGuardTheProcess
  BY DEF IInv, LeasesGuardTheProcess
<1> QED BY Invariance, <1>1, PTL

\* Nothing moves the connection under a call, unless an update overtook the
\* construction of the adapter.
THEOREM ConnectionKept == Spec => []CallsKeepTheConnection
BY Invariance, PTL DEF IInv

\* The catalog never shows a tier as ready that another connection served.
THEOREM ReadyIsServed == Spec => []ReadyTiersWereServed
BY Invariance, PTL DEF IInv

\* A settings update takes effect between calls, and what was seen before it no longer
\* counts (configure_settings, the catalog's readiness).
THEOREM UpdatesAreClean == Spec => []UpdatesComeBetweenCalls
BY ConnectionKept, ReadyIsServed, PTL DEF UpdatesComeBetweenCalls

-----------------------------------------------------------------------------
(* A parse on the server.                                                    *)

ServerType ==
    [uploads : SUBSET Ids, files : SUBSET (Calls \X {"input", "output"} \X Names),
     jobs : [Calls -> {"none"} \cup Ongoing \cup Terminal]]

\* Locals with which the call that has the lock may go on.
Good(r, files) ==
    /\ r \in RunType /\ r.pc # "idle"
    /\ r.pc \in Uploading /\ Reachable =>
         \A n \in Files[lock] \ r.todo : Input(n) \in files
    /\ r.pc = "create" => r.todo = {}
    /\ \A f \in r.owned : f[1] = lock
    /\ r.pc \in Uploading \cup {"ensure"} => r.job = "none"
    /\ remote => r.pc # "ensure"
    /\ r.clean => r.pc = "cleanup"
    /\ server.jobs[lock] \in Ongoing /\ lock \notin orphaned => r.job = "open" /\ ~r.clean

LEMMA Typed == JobTypeOK => server \in ServerType /\ (lock # Free => lock \in Calls)
BY DEF JobTypeOK, ServerType

LEMMA InitWhole == JobInit => JobIInv
<1> SUFFICES ASSUME JobInit PROVE JobIInv
  OBVIOUS
<1> USE DEF JobInit, Idle, Empty, Dead
<1>1. JobTypeOK
  <2>1. server \in ServerType
    BY DEF ServerType
  <2>2. local \in [at : {"none", "known", "unknown"}, serves : Modes] /\ mode \in Modes
    BY JobAssumption
  <2>3. state \in [Calls -> {"idle", "in", "returned", "raised"}]
    OBVIOUS
  <2> QED BY <2>1, <2>2, <2>3 DEF JobTypeOK, ServerType
<1>2. HolderAlone
  BY DEF HolderAlone, RunType
<1>3. ModeServed
  BY DEF ModeServed
<1>4. UploadsStand
  BY DEF UploadsStand, Uploading
<1>5. CleanupIsSafe
  BY DEF CleanupIsSafe, Uploading
<1>6. RunningJobsAreWhole
  BY DEF RunningJobsAreWhole, Ongoing
<1> QED BY <1>1, <1>2, <1>3, <1>4, <1>5, <1>6 DEF JobIInv

\* What the call holds is good.
LEMMA RunIsGood ==
  ASSUME JobIInv, run.pc # "idle"
  PROVE  Good(run, server.files) /\ lock \in Calls
BY DEF JobIInv, Good, HolderAlone, ModeServed, UploadsStand, CleanupIsSafe, JobTypeOK

LEMMA RaisedIsGood ==
  ASSUME NEW r, NEW files, Good(r, files), r.pc # "cleanup"
  PROVE  Good(Raised(r), files)
<1>1. Raised(r) \in RunType
  BY DEF Good, RunType, Raised
<1>2. /\ Raised(r).pc = "stop" /\ Raised(r).owned = r.owned
      /\ Raised(r).job = r.job /\ Raised(r).clean = r.clean
  BY DEF Good, RunType, Raised
<1> QED BY <1>1, <1>2 DEF Good, Uploading

-----------------------------------------------------------------------------
(* Steps of the call that has the lock which start and stop no job.          *)

LEMMA GoesOn ==
  ASSUME JobIInv, run.pc # "idle", UNCHANGED <<serviceVars, cancelled>>, late' \in BOOLEAN,
         server' \in ServerType, server'.jobs = server.jobs,
         server.files \subseteq server'.files,
         orphaned \subseteq orphaned', orphaned' \subseteq excused', excused' \subseteq Calls,
         Good(run', server'.files)
  PROVE  JobIInv'
<1> USE DEF serviceVars
<1>1. lock \in Calls
  BY RunIsGood
<1>2. JobTypeOK'
  BY DEF JobIInv, JobTypeOK, ServerType, Good, RunType
<1>3. HolderAlone'
  BY <1>1 DEF JobIInv, HolderAlone, Good
<1>4. ModeServed'
  BY DEF JobIInv, ModeServed, Good
<1>5. UploadsStand'
  BY DEF UploadsStand, Good, Reachable, Input
<1>6. CleanupIsSafe'
  BY DEF CleanupIsSafe, Good
<1>7. RunningJobsAreWhole'
  BY DEF JobIInv, RunningJobsAreWhole
<1> QED BY <1>2, <1>3, <1>4, <1>5, <1>6, <1>7 DEF JobIInv

LEMMA GiveUpKeeps ==
  ASSUME NEW r, JobIInv, run.pc # "idle", Good(r, server.files), r.pc # "cleanup", GiveUp(r)
  PROVE  JobIInv'
<1>1. Good(run', server'.files)
  BY RaisedIsGood DEF GiveUp
<1> QED BY <1>1, GoesOn, Typed DEF GiveUp, serviceVars, historyVars, JobIInv, JobTypeOK

LEMMA AnsweredKeeps ==
  ASSUME NEW effect \in ServerType, NEW r, JobIInv, run.pc # "idle",
         effect.jobs = server.jobs, server.files \subseteq effect.files,
         Good(r, effect.files), Answered(effect, r)
  PROVE  JobIInv'
BY GoesOn DEF Answered, serviceVars, historyVars, JobIInv, JobTypeOK

LEMMA UnansweredKeeps ==
  ASSUME NEW effect \in ServerType, NEW r, JobIInv, run.pc # "idle",
         effect.jobs = server.jobs, server.files \subseteq effect.files,
         Good(r, server.files), r.pc # "cleanup", Unanswered(effect, r)
  PROVE  JobIInv'
<1>1. server' \in {server, effect} /\ run' = Raised(r)
  BY DEF Unanswered
<1>2. Good(Raised(r), server'.files)
  <2>1. /\ Good(Raised(r), server.files) /\ Raised(r).pc = "stop"
    BY RaisedIsGood DEF Raised, Good, RunType
  <2> QED BY <2>1 DEF Good, Uploading
<1>3. lock \in Calls
  BY RunIsGood
<1>4. orphaned' = orphaned /\ excused \subseteq excused' /\ excused' \subseteq Calls
  BY <1>1, <1>3 DEF Unanswered, Excuse, JobIInv, JobTypeOK
<1>5. server' \in ServerType /\ server'.jobs = server.jobs
      /\ server.files \subseteq server'.files
  BY <1>1, Typed DEF JobIInv
<1> QED BY <1>1, <1>2, <1>4, <1>5, GoesOn DEF Unanswered, serviceVars, JobIInv, JobTypeOK

LEMMA RequestKeeps ==
  ASSUME NEW effect \in ServerType, NEW r, JobIInv, run.pc \notin {"idle", "cleanup"},
         effect.jobs = server.jobs, server.files \subseteq effect.files,
         Good(r, effect.files), Request(effect, r)
  PROVE  JobIInv'
<1>1. Good(run, server.files)
  BY RunIsGood
<1>2. CASE Answered(effect, r)
  BY <1>2, AnsweredKeeps
<1>3. CASE Unanswered(effect, run)
  BY <1>1, <1>3, UnansweredKeeps
<1>4. CASE GiveUp(run)
  BY <1>1, <1>4, GiveUpKeeps
<1> QED BY <1>2, <1>3, <1>4 DEF Request

LEMMA UploadKeeps ==
  ASSUME JobIInv, NEW n \in Names, Upload(n) \/ Content(n) \/ Complete(n)
  PROVE  JobIInv'
<1>1. run.pc \in Uploading \ {"create"}
  BY DEF Upload, Content, Complete, Uploading
<1>2. Good(run, server.files) /\ lock \in Calls /\ server \in ServerType
  BY <1>1, RunIsGood, Typed DEF JobIInv, Uploading
<1>3. CASE Upload(n)
  <2> DEFINE effect == [server EXCEPT !.uploads = @ \cup {<<lock, n>>}]
             r == [run EXCEPT !.pc = "content", !.pending = {n}]
  <2>1. effect \in ServerType /\ effect.jobs = server.jobs /\ effect.files = server.files
    BY <1>2 DEF ServerType, Ids
  <2>2. /\ r \in RunType /\ r.pc = "content" /\ r.todo = run.todo
        /\ r.owned = run.owned /\ r.job = run.job /\ r.clean = run.clean
    BY <1>2 DEF Good, RunType, Uploading
  <2>3. Good(r, effect.files)
    BY <1>1, <1>2, <2>1, <2>2 DEF Good, Uploading
  <2>4. GiveUp(run) \/ Request(effect, r)
    BY <1>3 DEF Upload
  <2> HIDE DEF effect, r
  <2> QED BY <1>1, <1>2, <2>1, <2>3, <2>4, RequestKeeps, GiveUpKeeps DEF Uploading
<1>4. CASE Content(n)
  <2> DEFINE r == [run EXCEPT !.pc = "complete"]
  <2>1. /\ r \in RunType /\ r.pc = "complete" /\ r.todo = run.todo
        /\ r.owned = run.owned /\ r.job = run.job /\ r.clean = run.clean
    BY <1>2 DEF Good, RunType, Uploading
  <2>2. Good(r, server.files)
    BY <1>1, <1>2, <2>1 DEF Good, Uploading
  <2>3. Request(server, r)
    BY <1>4 DEF Content
  <2> HIDE DEF r
  <2> QED BY <1>1, <1>2, <2>2, <2>3, RequestKeeps DEF Uploading
<1>5. CASE Complete(n)
  <2> DEFINE done == [run EXCEPT !.pc = IF run.todo = {n} THEN "create" ELSE "upload",
                                 !.todo = @ \ {n}, !.pending = {},
                                 !.owned = @ \cup {Input(n)}]
             effect == [server EXCEPT !.uploads = @ \ {<<lock, n>>},
                                      !.files = @ \cup {Input(n)}]
  <2>1. PICK f : f = Input(n) /\ f \in Calls \X {"input", "output"} \X Names
    <3>1. Input(n) \in Calls \X {"input", "output"} \X Names
      BY <1>2 DEF Input
    <3> QED BY <3>1
  <2>2. /\ effect \in ServerType /\ effect.jobs = server.jobs
        /\ effect.files = server.files \cup {f}
    BY <1>2, <2>1 DEF ServerType
  <2>3. done.pc \in {"create", "upload"} /\ (done.pc = "create" => done.todo = {})
    BY <1>2 DEF Good, RunType
  <2>4. /\ done \in RunType /\ done.pc \in {"create", "upload"}
        /\ (done.pc = "create" => done.todo = {}) /\ done.todo = run.todo \ {n}
        /\ done.owned = run.owned \cup {f}
        /\ done.job = run.job /\ done.clean = run.clean
    BY <1>2, <2>1, <2>3 DEF Good, RunType, Uploading
  <2>5. Good(done, effect.files)
    BY <1>1, <1>2, <2>1, <2>4, <2>2 DEF Good, Uploading, Input
  <2>6. Good(Raised(done), effect.files)
    BY <2>4, <2>5, RaisedIsGood
  <2>7. Request(effect, done) \/ Request(effect, Raised(done))
    BY <1>5 DEF Complete
  <2> HIDE DEF effect, done
  <2> QED BY <1>1, <2>5, <2>6, <2>7, <2>2, RequestKeeps DEF Uploading
<1> QED BY <1>3, <1>4, <1>5

LEMMA PollKeeps ==
  ASSUME JobIInv, Poll
  PROVE  JobIInv'
<1> DEFINE ended == [run EXCEPT !.pc = "results", !.job = "terminal", !.todo = Files[lock]]
<1>1. run.pc = "poll"
  BY DEF Poll
<1>2. Good(run, server.files) /\ lock \in Calls /\ server \in ServerType
  BY <1>1, RunIsGood, Typed DEF JobIInv
<1>3. CASE GiveUp(run) \/ Request(server, run)
  BY <1>1, <1>2, <1>3, GiveUpKeeps, RequestKeeps
<1>4. CASE server.jobs[lock] \notin Ongoing
  <2>1. /\ ended \in RunType /\ ended.pc = "results"
        /\ ended.owned = run.owned /\ ended.clean = run.clean
    BY <1>2, JobAssumption DEF Good, RunType
  <2>2. Good(ended, server.files)
    BY <1>1, <1>2, <1>4, <2>1 DEF Good, Uploading
  <2>3. Good(Raised(ended), server.files)
    BY <2>1, <2>2, RaisedIsGood
  <2>4. \/ GiveUp(run) \/ Request(server, ended)
        \/ Request(server, Raised(ended))
    BY <1>4 DEF Poll
  <2> HIDE DEF ended
  <2> QED BY <1>1, <1>2, <2>2, <2>3, <2>4, GiveUpKeeps, RequestKeeps
<1> QED BY <1>3, <1>4 DEF Poll

LEMMA ResultKeeps ==
  ASSUME JobIInv, NEW n \in Names, Result(n)
  PROVE  JobIInv'
<1> DEFINE noted == [run EXCEPT !.owned = @ \cup ({Output(n)} \cap server.files)]
           done == [noted EXCEPT !.todo = @ \ {n}]
<1>1. run.pc = "results"
  BY DEF Result
<1>2. Good(run, server.files) /\ lock \in Calls /\ server \in ServerType
  BY <1>1, RunIsGood, Typed DEF JobIInv
<1>3. /\ noted \in RunType /\ noted.pc = "results" /\ noted.todo = run.todo
      /\ noted.owned = run.owned \cup ({Output(n)} \cap server.files)
      /\ noted.job = run.job /\ noted.clean = run.clean
  BY <1>1, <1>2 DEF Good, RunType, Output
<1>4. /\ done \in RunType /\ done.pc = "results" /\ done.owned = noted.owned
      /\ done.job = run.job /\ done.clean = run.clean
  BY <1>3 DEF RunType
<1>5. Good(noted, server.files) /\ Good(done, server.files)
  BY <1>1, <1>2, <1>3, <1>4 DEF Good, Uploading, Output
<1>6. \/ run' = done /\ UNCHANGED <<serviceVars, server, late, cancelled, historyVars, mishaps>>
      \/ GiveUp(noted) \/ Answered(server, done) \/ Unanswered(server, noted)
  BY DEF Result
<1> HIDE DEF noted, done
<1>7. CASE run' = done /\ UNCHANGED <<serviceVars, server, late, cancelled, historyVars, mishaps>>
  <2>1. Good(run', server'.files)
    BY <1>5, <1>7
  <2> QED BY <1>1, <1>2, <1>7, <2>1, GoesOn DEF historyVars, serviceVars, JobIInv, JobTypeOK
<1>8. CASE GiveUp(noted)
  BY <1>1, <1>3, <1>5, <1>8, GiveUpKeeps
<1>9. CASE Answered(server, done)
  BY <1>1, <1>2, <1>5, <1>9, AnsweredKeeps
<1>10. CASE Unanswered(server, noted)
  BY <1>1, <1>2, <1>3, <1>5, <1>10, UnansweredKeeps
<1> QED BY <1>6, <1>7, <1>8, <1>9, <1>10

-----------------------------------------------------------------------------
(* The steps that end a call.                                                *)

LEMMA NoJobToStopKeeps ==
  ASSUME JobIInv, NoJobToStop
  PROVE  JobIInv'
<1> USE DEF NoJobToStop
<1>1. Good(run, server.files) /\ lock \in Calls /\ server \in ServerType
  BY RunIsGood, Typed DEF JobIInv
<1>2. /\ run' \in RunType /\ run'.pc = "cleanup" /\ run'.owned = run.owned
      /\ run'.job = run.job
  BY <1>1 DEF Good, RunType, CleanupFiles, NothingRuns
<1>3. server.jobs[lock] \in Ongoing => lock \in orphaned
  BY <1>1 DEF Good, NothingRuns
<1>4. Good(run', server'.files)
  BY <1>1, <1>2, <1>3 DEF Good, Uploading
<1> QED BY <1>1, <1>4, GoesOn DEF historyVars, serviceVars, JobIInv, JobTypeOK

\* A step that may change the status of the caller's own job, but makes none run.
LEMMA StatusKeeps ==
  ASSUME JobIInv, run.pc \in {"stop", "cleanup"}, NEW status, NEW files \in SUBSET server.files,
         UNCHANGED <<serviceVars, late, cancelled, orphaned>>,
         status \in {server.jobs[lock]} \cup Ongoing \cup Terminal,
         status \in Ongoing => server.jobs[lock] \in Ongoing,
         server' \in ServerType,
         server'.files = files, server'.jobs = [server.jobs EXCEPT ![lock] = status],
         \A f \in server.files \ files : f[1] = lock,
         status \in Ongoing /\ lock \notin orphaned =>
           files = server.files /\ run'.job = "open" /\ ~run'.clean,
         run' \in RunType, run'.pc = "cleanup", run'.owned \subseteq run.owned,
         excused \subseteq excused', excused' \subseteq Calls
  PROVE  JobIInv'
<1> USE DEF serviceVars
<1>1. Good(run, server.files) /\ lock \in Calls /\ server \in ServerType
  BY RunIsGood, Typed DEF JobIInv
<1>2. /\ server'.jobs[lock] = status
      /\ \A c \in Calls \ {lock} : server'.jobs[c] = server.jobs[c]
  BY <1>1 DEF ServerType
<1>3. JobTypeOK'
  BY <1>1 DEF JobIInv, JobTypeOK, ServerType, RunType
<1>4. HolderAlone'
  <2>1. \A c \in Calls : state[c] = "idle" => c # lock
    BY <1>1 DEF JobIInv, HolderAlone, JobTypeOK
  <2> QED BY <1>1, <1>2, <2>1 DEF JobIInv, HolderAlone
<1>5. ModeServed'
  BY DEF JobIInv, ModeServed
<1>6. UploadsStand'
  BY DEF UploadsStand, Uploading
<1>7. CleanupIsSafe'
  BY <1>1, <1>2 DEF CleanupIsSafe, Uploading, Good
<1>8. RunningJobsAreWhole'
  <2>1. ASSUME NEW c \in Calls, server'.jobs[c] \in Ongoing
        PROVE  server.jobs[c] \in Ongoing
    BY <1>2, <2>1
  <2>2. ASSUME NEW c \in Calls, server'.jobs[c] \in Ongoing, c \notin orphaned,
               NEW f \in FilesOf(c, "input")
        PROVE  f \in server'.files
    <3>1. f \in server.files
      BY <2>1, <2>2 DEF JobIInv, RunningJobsAreWhole
    <3>2. CASE c = lock
      BY <1>2, <2>2, <3>1, <3>2
    <3>3. CASE c # lock
      BY <2>2, <3>1, <3>3 DEF FilesOf
    <3> QED BY <3>2, <3>3
  <2> QED BY <2>1, <2>2 DEF JobIInv, RunningJobsAreWhole
<1> QED BY <1>3, <1>4, <1>5, <1>6, <1>7, <1>8 DEF JobIInv

LEMMA StopJobKeeps ==
  ASSUME JobIInv, StopJob \/ StopJobFails
  PROVE  JobIInv'
<1>1. run.pc = "stop" /\ run.job = "open"
  <2>1. run.pc = "stop" /\ ~NothingRuns
    BY DEF StopJob, StopJobFails
  <2> QED BY <2>1 DEF NothingRuns, JobIInv, HolderAlone, RunType
<1>2. Good(run, server.files) /\ lock \in Calls /\ server \in ServerType
  BY <1>1, RunIsGood, Typed DEF JobIInv
<1>3. server.jobs[lock] \in {"none"} \cup Ongoing \cup Terminal
  BY <1>2 DEF ServerType
<1>4. \A status \in Cancelled(server.jobs[lock]) :
         /\ status \in {server.jobs[lock]} \cup Ongoing \cup Terminal
         /\ status \in Ongoing => server.jobs[lock] \in Ongoing
  BY <1>3, SMTT(30) DEF Cancelled, Ongoing, Terminal
<1>5. PICK status :
         /\ status \in {server.jobs[lock]} \cup Ongoing \cup Terminal
         /\ status \in Ongoing => server.jobs[lock] \in Ongoing
         /\ server' = [server EXCEPT !.jobs[lock] = status]
         /\ \/ run' = [run EXCEPT !.pc = "cleanup", !.clean = Confirmed(status)]
               /\ Excuse(status \notin Terminal)
            \/ run' = [run EXCEPT !.pc = "cleanup"] /\ Excuse(TRUE)
  <2>1. CASE StopJob
    BY <1>4, <2>1 DEF StopJob
  <2>2. CASE StopJobFails
    BY <1>4, <2>2 DEF StopJobFails, Fails
  <2> QED BY <2>1, <2>2
<1>6. /\ server' \in ServerType /\ server'.files = server.files
      /\ server'.jobs = [server.jobs EXCEPT ![lock] = status]
  BY <1>2, <1>3, <1>5 DEF ServerType
<1>7. /\ run' \in RunType /\ run'.pc = "cleanup" /\ run'.owned = run.owned
      /\ run'.job = "open" /\ (run'.clean => run.clean \/ status \in Terminal)
  <2>1. run \in RunType
    BY <1>2 DEF Good
  <2>2. CASE run' = [run EXCEPT !.pc = "cleanup", !.clean = Confirmed(status)]
    <3>0. Confirmed(status) \in BOOLEAN /\ (Confirmed(status) => status \in Terminal)
      BY DEF Confirmed
    <3>1. PICK b \in BOOLEAN : b = Confirmed(status) /\ (b => status \in Terminal)
      BY <3>0
    <3>2. run' = [run EXCEPT !.pc = "cleanup", !.clean = b]
      BY <2>2, <3>1
    <3> QED BY <1>1, <2>1, <3>1, <3>2 DEF RunType
  <2>3. CASE run' = [run EXCEPT !.pc = "cleanup"]
    BY <1>1, <2>1, <2>3 DEF RunType
  <2> QED BY <1>5, <2>2, <2>3
<1>8. excused \subseteq excused' /\ excused' \subseteq Calls
  BY <1>2, <1>5 DEF Excuse, JobIInv, JobTypeOK
<1>9. status \in Ongoing => ~run'.clean
  BY <1>1, <1>2, <1>7 DEF Good, Ongoing, Terminal
<1>10. UNCHANGED <<serviceVars, late, cancelled, orphaned>>
  BY DEF StopJob, StopJobFails, Fails
<1> QED BY <1>1, <1>5, <1>6, <1>7, <1>8, <1>9, <1>10, StatusKeeps

LEMMA RemoveKeeps ==
  ASSUME JobIInv, NEW x,
         run.pc = "cleanup",
         \/ CancelUpload(x) /\ x \in Names
         \/ DeleteFile(x) /\ x \in run.owned
  PROVE  JobIInv'
<1>1. Good(run, server.files) /\ lock \in Calls /\ server \in ServerType
  BY RunIsGood, Typed DEF JobIInv
<1>2. server.jobs[lock] \in {"none"} \cup Ongoing \cup Terminal
  BY <1>1 DEF ServerType
<1>3. UNCHANGED <<serviceVars, late, cancelled, orphaned>>
      /\ excused \subseteq excused' /\ excused' \subseteq Calls
  <2>1. excused' = excused \/ excused' = excused \cup {lock}
    BY DEF CancelUpload, DeleteFile, Fails, Excuse, historyVars
  <2>2. UNCHANGED <<serviceVars, late, cancelled, orphaned>>
    BY DEF CancelUpload, DeleteFile, Fails, historyVars
  <2> QED BY <1>1, <2>1, <2>2 DEF JobIInv, JobTypeOK
<1>4. server'.jobs = server.jobs /\ server' \in ServerType
  BY <1>1 DEF CancelUpload, DeleteFile, ServerType
<1>5. server.jobs = [server.jobs EXCEPT ![lock] = server.jobs[lock]]
  BY <1>1 DEF ServerType
<1>6. CASE CancelUpload(x)
  <2>1. server'.files = server.files
    BY <1>1, <1>6 DEF CancelUpload, ServerType
  <2>2. /\ run' \in RunType /\ run'.pc = "cleanup" /\ run'.owned = run.owned
        /\ run'.job = run.job /\ run'.clean = run.clean
    BY <1>1, <1>6 DEF CancelUpload, Good, RunType
  <2> QED BY <1>1, <1>2, <1>3, <1>4, <1>5, <2>1, <2>2, StatusKeeps DEF Good
<1>7. CASE DeleteFile(x) /\ x \in run.owned
  <2>1. server'.files \in SUBSET server.files /\ server.files \ server'.files \subseteq {x}
    BY <1>1, <1>7 DEF DeleteFile, ServerType
  <2>2. x[1] = lock /\ run.clean
    BY <1>1, <1>7 DEF Good, DeleteFile
  <2>3. /\ run' \in RunType /\ run'.pc = "cleanup" /\ run'.owned \subseteq run.owned
        /\ run'.clean = run.clean
    BY <1>1, <1>7 DEF DeleteFile, Good, RunType
  <2>4. server.jobs[lock] \in Ongoing => lock \in orphaned
    BY <1>1, <2>2 DEF Good
  <2> QED BY <1>2, <1>3, <1>4, <1>5, <2>1, <2>2, <2>3, <2>4, StatusKeeps
<1> QED BY <1>6, <1>7

LEMMA LeaveKeeps ==
  ASSUME JobIInv, Leave
  PROVE  JobIInv'
<1> USE DEF Leave, serviceVars, historyVars
<1>1. Good(run, server.files) /\ lock \in Calls /\ run.outcome \in {"returned", "raised"}
  BY RunIsGood DEF Good, RunType
<1>2. run' \in RunType /\ run'.pc = "idle" /\ run'.owned = {} /\ ~run'.clean /\ lock' = Free
  BY DEF Idle, RunType
<1>3. JobTypeOK'
  BY <1>1, <1>2 DEF JobIInv, JobTypeOK, RunType
<1>4. HolderAlone'
  BY <1>1, <1>2 DEF JobIInv, HolderAlone, JobTypeOK
<1>5. ModeServed'
  BY <1>2 DEF JobIInv, ModeServed
<1>6. UploadsStand' /\ CleanupIsSafe'
  BY <1>2 DEF UploadsStand, CleanupIsSafe, Uploading
<1>7. RunningJobsAreWhole'
  BY DEF JobIInv, RunningJobsAreWhole
<1> QED BY <1>3, <1>4, <1>5, <1>6, <1>7 DEF JobIInv

-----------------------------------------------------------------------------
(* The steps that start the server or a job, and those of the environment.   *)


LEMMA FindRunningKeeps ==
  ASSUME JobIInv, FindRunning
  PROVE  JobIInv'
<1> USE DEF FindRunning, Ensured
<1>1. Good(run, server.files) /\ lock \in Calls /\ run.job = "none"
  BY RunIsGood DEF JobIInv, CleanupIsSafe
<1>2. /\ run' \in RunType /\ run'.pc = "upload" /\ run'.todo = Files[lock]
      /\ run'.owned = run.owned /\ run'.job = run.job /\ run'.clean = run.clean
  BY <1>1, JobAssumption DEF Good, RunType, Uploading
<1>3. Good(run', server'.files)
  BY <1>1, <1>2 DEF Good
<1> QED BY <1>3, GoesOn, Typed DEF historyVars, serviceVars, JobIInv, JobTypeOK

LEMMA StartKeeps ==
  ASSUME JobIInv, StartApi \/ FailStart
  PROVE  JobIInv'
<1> USE DEF StartApi, FailStart, Ensured, historyVars, Empty
<1>1. Good(run, server.files) /\ lock \in Calls /\ run.job = "none" /\ run.pc = "ensure"
  BY RunIsGood DEF JobIInv, CleanupIsSafe
<1>2. /\ run' \in RunType /\ run'.pc \in {"upload", "leave"}
      /\ (run'.pc = "upload" => run'.todo = Files[lock])
      /\ run'.owned = run.owned /\ run'.job = run.job /\ run'.clean = run.clean
  <2>1. Files[lock] \in SUBSET Names /\ run \in RunType
    BY <1>1, JobAssumption DEF Good
  <2>2. CASE StartApi
    BY <2>1, <2>2 DEF RunType, Uploading
  <2>3. CASE FailStart
    BY <2>1, <2>3 DEF RunType
  <2> QED BY <2>2, <2>3
<1>3. server' \in ServerType /\ \A c \in Calls : server'.jobs[c] = "none"
  BY DEF ServerType
<1>4. local' \in [at : {"known", "unknown"}, serves : {mode}] /\ mode \in Modes
  BY DEF JobIInv, JobTypeOK
<1>5. JobTypeOK'
  <2>1. local' \in [at : {"none", "known", "unknown"}, serves : Modes]
    BY <1>4
  <2> QED BY <1>2, <1>3, <2>1 DEF JobIInv, JobTypeOK, ServerType, RunType
<1>6. HolderAlone'
  BY <1>1, <1>2, <1>3 DEF JobIInv, HolderAlone
<1>7. ModeServed'
  BY <1>1, <1>2, <1>4 DEF JobIInv, ModeServed
<1>8. UploadsStand'
  BY <1>2 DEF UploadsStand, Uploading
<1>9. CleanupIsSafe'
  BY <1>1, <1>2, <1>3 DEF CleanupIsSafe, Good, Ongoing
<1>10. RunningJobsAreWhole'
  BY <1>3 DEF RunningJobsAreWhole, Ongoing
<1> QED BY <1>5, <1>6, <1>7, <1>8, <1>9, <1>10 DEF JobIInv

LEMMA EnterKeeps ==
  ASSUME JobIInv, NEW c \in Calls, Enter(c)
  PROVE  JobIInv'
<1> USE DEF historyVars
<1>1. /\ lock = Free /\ lock' = c /\ state[c] = "idle" /\ server.jobs[c] = "none"
      /\ state' = [state EXCEPT ![c] = "in"] /\ c # Free
  BY JobAssumption DEF Enter, JobIInv, HolderAlone
<1>2. /\ run' \in RunType /\ run'.owned = {} /\ run'.job = "none" /\ ~run'.clean
      /\ run'.pc = (IF remote THEN "upload" ELSE "ensure")
      /\ run'.todo = (IF remote THEN Files[c] ELSE {})
  BY JobAssumption DEF Enter, Idle, RunType, Uploading
<1>3. /\ UNCHANGED <<local, server>> \/ (~remote /\ local' = Dead /\ server' = Empty)
      /\ mode' = (IF remote THEN mode ELSE Wants[c])
      /\ ~remote /\ mode # mode' => local' = Dead /\ server' = Empty
      /\ UNCHANGED <<remote, late, cancelled, historyVars>> \/ late' = FALSE
      /\ UNCHANGED <<remote, cancelled, orphaned, excused>>
      /\ late' = FALSE
  BY DEF Enter
<1>4. server' \in ServerType
      /\ (server' = server \/ \A d \in Calls : server'.jobs[d] = "none")
  BY <1>3, Typed DEF JobIInv, ServerType, Empty
<1>5. server'.jobs[c] = "none"
  BY <1>1, <1>4
<1>6. mode' \in Modes /\ Wants[c] \in Modes
  BY <1>3, JobAssumption DEF JobIInv, JobTypeOK
<1>7. JobTypeOK'
  <2>1. local' \in [at : {"none", "known", "unknown"}, serves : Modes]
    BY <1>3, JobAssumption DEF JobIInv, JobTypeOK, Dead
  <2> QED BY <1>1, <1>2, <1>3, <1>4, <1>6, <2>1 DEF JobIInv, JobTypeOK, ServerType, RunType
<1>8. HolderAlone'
  <2>1. \A d \in Calls : state'[d] = "idle" => state[d] = "idle"
    BY <1>1 DEF JobIInv, JobTypeOK
  <2>2. state'[c] = "in"
    BY <1>1 DEF JobIInv, JobTypeOK
  <2> QED BY <1>1, <1>2, <1>4, <2>1, <2>2 DEF JobIInv, HolderAlone
<1>9. ModeServed'
  BY <1>1, <1>2, <1>3 DEF JobIInv, ModeServed, Dead
<1>10. UploadsStand'
  BY <1>1, <1>2 DEF UploadsStand, Uploading
<1>11. CleanupIsSafe'
  BY <1>1, <1>2, <1>5 DEF CleanupIsSafe, Ongoing
<1>12. RunningJobsAreWhole'
  <2>1. CASE UNCHANGED <<local, server>>
    BY <1>3, <2>1 DEF JobIInv, RunningJobsAreWhole
  <2>2. CASE server' = Empty
    BY <2>2 DEF RunningJobsAreWhole, Empty, Ongoing
  <2> QED BY <1>3, <2>1, <2>2
<1> QED BY <1>7, <1>8, <1>9, <1>10, <1>11, <1>12 DEF JobIInv

LEMMA CreateKeeps ==
  ASSUME JobIInv, Create
  PROVE  JobIInv'
<1> DEFINE made == [server EXCEPT !.jobs[lock] = "queued"]
           open == [run EXCEPT !.pc = "poll", !.job = "open"]
<1>1. /\ Good(run, server.files) /\ lock \in Calls /\ server \in ServerType
      /\ run.pc = "create"
  BY RunIsGood, Typed DEF Create, JobIInv
<1>2. /\ made \in ServerType /\ made.files = server.files /\ made.jobs[lock] = "queued"
      /\ \A c \in Calls \ {lock} : made.jobs[c] = server.jobs[c]
  BY <1>1 DEF ServerType, Ongoing
<1>3. CASE GiveUp(run)
  BY <1>1, <1>3, GiveUpKeeps
<1>4. CASE server' = server /\ Unanswered(made, run)
  <2>1. Good(Raised(run), server.files)
    BY <1>1, RaisedIsGood
  <2>2. orphaned' = orphaned /\ excused' = excused
    BY <1>4 DEF Unanswered, Excuse
  <2> QED BY <1>1, <1>4, <2>1, <2>2, GoesOn DEF Unanswered, serviceVars, JobIInv, JobTypeOK
<1>5. CASE /\ Reachable /\ server' = made /\ UNCHANGED <<serviceVars, late, cancelled>>
           /\ \/ run' = open /\ UNCHANGED historyVars
              \/ /\ run' = Raised(run) /\ excused' \in {excused, excused \cup {lock}}
                 /\ orphaned' \in {orphaned, orphaned \cup {lock}}
                 /\ orphaned' \subseteq excused'
                 /\ made.jobs # server.jobs => lock \in orphaned'
  <2> USE <1>5 DEF serviceVars, historyVars
  <2>1. /\ run' \in RunType /\ run'.pc \in {"poll", "stop"} /\ run'.owned = run.owned
        /\ run'.clean = run.clean /\ ~run.clean
    BY <1>1 DEF Good, RunType, Raised
  <2>2. run'.job = "open" \/ lock \in orphaned'
    <3>1. CASE run' = open
      BY <1>1, <3>1 DEF Good, RunType
    <3>2. CASE run' = Raised(run)
      <4>1. CASE made.jobs # server.jobs
        <5>1. Raised(run).pc = "stop" /\ open.pc = "poll"
          BY <1>1 DEF Raised, Good, RunType
        <5> HIDE DEF open
        <5> QED BY <3>2, <4>1, <5>1
      <4>2. CASE made.jobs = server.jobs
        BY <1>1, <1>2, <4>2 DEF Good, Uploading, Ongoing
      <4> QED BY <4>1, <4>2
    <3> QED BY <3>1, <3>2
  <2>3. JobTypeOK'
    BY <1>1, <1>2, <2>1 DEF JobIInv, JobTypeOK, ServerType, RunType
  <2>4. HolderAlone'
    <3>1. state[lock] = "in" /\ lock # Free
      BY <1>1 DEF JobIInv, HolderAlone
    <3> QED BY <1>2, <2>1, <3>1 DEF JobIInv, HolderAlone
  <2>5. ModeServed'
    BY <2>1 DEF JobIInv, ModeServed
  <2>6. UploadsStand' /\ CleanupIsSafe'
    BY <1>1, <2>1, <2>2 DEF UploadsStand, CleanupIsSafe, Uploading, Good
  <2>7. RunningJobsAreWhole'
    <3>1. FilesOf(lock, "input") \subseteq server'.files
      BY <1>1, <1>2 DEF Good, Uploading, FilesOf, Input
    <3>2. remote \/ local.serves = Wants[lock]
      BY <1>1, JobAssumption DEF JobIInv, ModeServed, Reachable
    <3> QED BY <1>2, <3>1, <3>2 DEF JobIInv, RunningJobsAreWhole, FilesOf
  <2> QED BY <2>3, <2>4, <2>5, <2>6, <2>7 DEF JobIInv
<1>6. Answered(made, open) \/ Unanswered(made, run) \/ GiveUp(run)
  BY DEF Create, Request
<1>7. CASE Answered(made, open)
  BY <1>5, <1>7 DEF Answered
<1>8. CASE Unanswered(made, run) /\ server' # server
  <2>1. Reachable /\ server' = made /\ excused' = excused \cup {lock}
    BY <1>8 DEF Unanswered, Excuse
  <2>2. orphaned' = (IF server'.jobs # server.jobs THEN orphaned \cup {lock} ELSE orphaned)
    BY <1>8 DEF Unanswered
  <2>3. orphaned \subseteq excused
    BY DEF JobIInv, JobTypeOK
  <2> QED BY <1>5, <1>8, <2>1, <2>2, <2>3 DEF Unanswered
<1> QED BY <1>3, <1>4, <1>6, <1>7, <1>8

LEMMA EnvironmentKeeps ==
  ASSUME JobIInv, NEW c \in Calls, RequestCancel(c) \/ Expire
  PROVE  JobIInv'
<1> USE DEF RequestCancel, Expire, serviceVars, historyVars
<1>1. UNCHANGED <<serviceVars, server, run, historyVars>>
  OBVIOUS
<1>2. JobTypeOK'
  BY DEF JobIInv, JobTypeOK
<1>3. HolderAlone' /\ ModeServed' /\ UploadsStand' /\ CleanupIsSafe'
  BY <1>1 DEF JobIInv, HolderAlone, ModeServed, UploadsStand, CleanupIsSafe, Reachable, Input
<1>4. RunningJobsAreWhole'
  BY <1>1 DEF JobIInv, RunningJobsAreWhole
<1> QED BY <1>2, <1>3, <1>4 DEF JobIInv

LEMMA WorkKeeps ==
  ASSUME JobIInv, NEW c \in Calls, Work(c)
  PROVE  JobIInv'
<1> USE DEF Work, serviceVars, historyVars
<1>1. server \in ServerType /\ server.jobs[c] \in Ongoing
  BY Typed DEF JobIInv, Ongoing
<1>2. PICK status \in Ongoing \cup Terminal :
         server'.jobs = [server.jobs EXCEPT ![c] = status]
  BY <1>1 DEF ServerType, Ongoing, Terminal
<1>3. server' \in ServerType /\ server.files \subseteq server'.files
  <2>1. CASE \E parsed \in SUBSET {n \in Files[c] : <<c, "input", n>> \in server.files} :
               server' = [server EXCEPT
                 !.files = @ \cup {<<c, "output", n>> : n \in parsed},
                 !.jobs[c] = IF parsed = Files[c] THEN "completed"
                             ELSE IF parsed = {} THEN "failed" ELSE "partial"]
    <3>1. Files[c] \subseteq Names
      BY JobAssumption
    <3>2. PICK outputs \in SUBSET (Calls \X {"input", "output"} \X Names), ending \in Terminal :
            server' = [server EXCEPT !.files = @ \cup outputs, !.jobs[c] = ending]
      <4>1. PICK parsed \in SUBSET Files[c] :
              server' = [server EXCEPT
                 !.files = @ \cup {<<c, "output", n>> : n \in parsed},
                 !.jobs[c] = IF parsed = Files[c] THEN "completed"
                             ELSE IF parsed = {} THEN "failed" ELSE "partial"]
        BY <2>1
      <4>2. \A n \in parsed : <<c, "output", n>> \in Calls \X {"input", "output"} \X Names
        BY <3>1
      <4>3. {<<c, "output", n>> : n \in parsed} \in SUBSET (Calls \X {"input", "output"} \X Names)
        BY <4>2, Zenon
      <4> QED BY <4>1, <4>3 DEF Terminal
    <3> QED BY <1>1, <3>2 DEF ServerType
  <2>2. CASE server' = [server EXCEPT !.jobs[c] = "running"]
    BY <1>1, <2>2 DEF ServerType, Ongoing
  <2>3. CASE server' = [server EXCEPT !.jobs[c] = "canceled"]
    BY <1>1, <2>3 DEF ServerType, Terminal
  <2> QED BY <2>1, <2>2, <2>3
<1>4. \A d \in Calls : /\ server'.jobs[d] \in Ongoing => server.jobs[d] \in Ongoing
                       /\ server'.jobs[d] = "none" <=> server.jobs[d] = "none"
  BY <1>1, <1>2 DEF ServerType, Ongoing, Terminal
<1>5. JobTypeOK'
  BY <1>3 DEF JobIInv, JobTypeOK, ServerType
<1>6. HolderAlone'
  BY <1>4 DEF JobIInv, HolderAlone
<1>7. ModeServed'
  BY DEF JobIInv, ModeServed
<1>8. UploadsStand'
  BY <1>3 DEF JobIInv, UploadsStand, Reachable, Input
<1>9. CleanupIsSafe'
  <2>1. lock # Free => lock \in Calls
    BY Typed DEF JobIInv
  <2> QED BY <1>4, <2>1 DEF JobIInv, CleanupIsSafe
<1>10. RunningJobsAreWhole'
  BY <1>3, <1>4 DEF JobIInv, RunningJobsAreWhole
<1> QED BY <1>5, <1>6, <1>7, <1>8, <1>9, <1>10 DEF JobIInv

LEMMA BreakDownKeeps ==
  ASSUME JobIInv, BreakDown
  PROVE  JobIInv'
<1> USE DEF BreakDown, historyVars, Empty
<1>1. local' \in [at : {"none", "known", "unknown"}, serves : Modes] /\ local'.at = "unknown"
  BY DEF JobIInv, JobTypeOK
<1>2. server' \in ServerType /\ \A c \in Calls : server'.jobs[c] = "none"
  BY DEF ServerType
<1>3. ~remote /\ ~Reachable'
  BY <1>1 DEF JobIInv, ModeServed, Reachable
<1>4. JobTypeOK'
  BY <1>1, <1>2 DEF JobIInv, JobTypeOK, ServerType
<1>5. HolderAlone' /\ ModeServed'
  BY <1>1, <1>2, <1>3 DEF JobIInv, HolderAlone, ModeServed
<1>6. UploadsStand'
  BY <1>3 DEF JobIInv, UploadsStand
<1>7. CleanupIsSafe'
  <2>1. lock # Free => lock \in Calls
    BY Typed DEF JobIInv
  <2> QED BY <1>2, <2>1 DEF JobIInv, CleanupIsSafe, Ongoing
<1>8. RunningJobsAreWhole'
  BY <1>2 DEF RunningJobsAreWhole, Ongoing
<1> QED BY <1>4, <1>5, <1>6, <1>7, <1>8 DEF JobIInv

LEMMA StepWhole == JobIInv /\ [JobNext]_jobVars => JobIInv'
<1> SUFFICES ASSUME JobIInv, [JobNext]_jobVars PROVE JobIInv'
  OBVIOUS
<1>1. CASE FindRunning \/ StartApi \/ FailStart
  BY <1>1, FindRunningKeeps, StartKeeps
<1>2. CASE Parse
  <2>1. CASE Return
    <3>1. run.pc # "idle" /\ run.pc = "results"
      BY <2>1 DEF Return
    <3>2. Good(run', server'.files)
      BY <2>1, <3>1, RunIsGood DEF Return, Good, RunType, Uploading
    <3> QED BY <2>1, <3>1, <3>2, GoesOn, Typed DEF Return, historyVars, serviceVars, JobIInv, JobTypeOK
  <2> QED BY <1>2, <2>1, UploadKeeps, ResultKeeps, CreateKeeps, PollKeeps DEF Parse
<1>3. CASE CleanUp
  <2>1. ASSUME NEW n \in Names, CancelUpload(n) PROVE JobIInv'
    BY <2>1, RemoveKeeps DEF CancelUpload
  <2>2. ASSUME NEW f \in run.owned, DeleteFile(f) PROVE JobIInv'
    BY <2>2, RemoveKeeps DEF DeleteFile
  <2> QED BY <1>3, <2>1, <2>2, NoJobToStopKeeps, StopJobKeeps, LeaveKeeps DEF CleanUp
<1>4. ASSUME NEW c \in Calls, Enter(c) PROVE JobIInv'
  BY <1>4, EnterKeeps
<1>5. ASSUME NEW c \in Calls, RequestCancel(c) PROVE JobIInv'
  BY <1>5, EnvironmentKeeps
<1>6. CASE Expire
  <2>1. run.pc # "idle"
    BY <1>6 DEF Expire
  <2> QED BY <1>6, <2>1, RunIsGood, EnvironmentKeeps
<1>7. ASSUME NEW c \in Calls, Work(c) PROVE JobIInv'
  BY <1>7, WorkKeeps
<1>8. CASE BreakDown
  BY <1>8, BreakDownKeeps
<1>9. CASE UNCHANGED jobVars
  <2> USE <1>9 DEF jobVars, serviceVars, historyVars
  <2>1. JobTypeOK'
    BY DEF JobIInv, JobTypeOK
  <2>2. HolderAlone' /\ ModeServed' /\ UploadsStand' /\ CleanupIsSafe'
    BY DEF JobIInv, HolderAlone, ModeServed, UploadsStand, CleanupIsSafe, Reachable, Input
  <2>3. RunningJobsAreWhole'
    BY DEF JobIInv, RunningJobsAreWhole
  <2> QED BY <2>1, <2>2, <2>3 DEF JobIInv
<1> QED BY <1>1, <1>2, <1>3, <1>4, <1>5, <1>6, <1>7, <1>8, <1>9 DEF JobNext, Holder

\* Cleanups, restarts of the server and lost replies notwithstanding: a job that may
\* still run has its inputs and its mode, unless the reply to its creation was lost.
THEOREM RunningJobsKeepTheirFiles == JobSpec => []RunningJobsAreWhole
<1>1. JobSpec => []JobIInv
  BY InitWhole, StepWhole, PTL DEF JobSpec
<1>2. JobIInv => RunningJobsAreWhole
  BY DEF JobIInv
<1> QED BY <1>1, <1>2, PTL

-----------------------------------------------------------------------------
(* A call that is over has left nothing on the server.                       *)

Ordered(r) ==
    /\ \A m, n \in r.pending : m = n
    /\ r.pending # {} => r.pc \in {"content", "complete", "stop", "cleanup"}
    /\ r.pc \in {"ensure", "leave"} => r.owned = {} /\ r.job = "none"
    /\ r.pc = "results" \/ r.outcome = "returned" => r.job = "terminal"
    /\ r.outcome = "returned" => r.pc \in {"stop", "cleanup"}

\* Locals in which the call that has the lock knows what it has in s.
Knows(r, s) ==
    /\ \A n \in Names : <<lock, n>> \in s.uploads => n \in r.pending
    /\ \A n \in Files[lock] :
         /\ Input(n) \in s.files => Input(n) \in r.owned
         /\ Output(n) \in s.files =>
              /\ r.pc = "results" => n \in r.todo \/ Output(n) \in r.owned
              /\ r.outcome = "returned" => Output(n) \in r.owned
    /\ r.pc = "cleanup" => r.clean

\* The server s holds no more of a call than it did.
NoMore(c, s) ==
    /\ \A n \in Names : <<c, n>> \in s.uploads => <<c, n>> \in server.uploads
    /\ \A n \in Names, kind \in {"input", "output"} :
         <<c, kind, n>> \in s.files => <<c, kind, n>> \in server.files
    /\ s.jobs[c] \in Ongoing => server.jobs[c] \in Ongoing

Bare(c, s, returned) ==
    /\ \A n \in Names : <<c, n>> \notin s.uploads
    /\ \A n \in Files[c] : <<c, "input", n>> \notin s.files
    /\ s.jobs[c] \notin Ongoing
    /\ returned => \A n \in Files[c] : <<c, "output", n>> \notin s.files

Tidy == JobIInv /\ TidyInv

LEMMA Pointwise ==
  ASSUME NEW c, NEW s, NEW returned \in BOOLEAN
  PROVE  Bare(c, s, returned) <=>
           /\ s.uploads \cap ({c} \X Names) = {}
           /\ s.files \cap FilesOf(c, "input") = {} /\ s.jobs[c] \notin Ongoing
           /\ returned => s.files \cap FilesOf(c, "output") = {}
<1>1. s.uploads \cap ({c} \X Names) = {} <=> \A n \in Names : <<c, n>> \notin s.uploads
  OBVIOUS
<1>2. ASSUME NEW kind
      PROVE  s.files \cap FilesOf(c, kind) = {}
               <=> \A n \in Files[c] : <<c, kind, n>> \notin s.files
  BY DEF FilesOf
<1> QED BY <1>1, <1>2 DEF Bare

LEMMA TidyRun ==
  ASSUME Tidy, run.pc # "idle"
  PROVE  /\ Good(run, server.files) /\ lock \in Calls /\ server \in ServerType
         /\ state[lock] = "in" /\ Ordered(run)
         /\ lock \notin excused => Knows(run, server) /\ lock \notin orphaned
BY RunIsGood, Typed
   DEF Tidy, TidyInv, RequestsInOrder, HolderKnows, Ordered, Knows, JobIInv, HolderAlone, JobTypeOK

\* A call to which no more is made stays as bare as it was.
LEMMA BareStays ==
  ASSUME NEW c \in Calls, Tidy, state' = state, NoMore(c, server'), excused \subseteq excused'
  PROVE  /\ state'[c] = "idle" =>
              \A n \in Names : /\ <<c, n>> \notin server'.uploads
                               /\ \A kind \in {"input", "output"} :
                                    <<c, kind, n>> \notin server'.files
         /\ state'[c] \in {"returned", "raised"} /\ c \notin excused' =>
              Bare(c, server', state'[c] = "returned")
<1>1. CASE state[c] = "idle"
  BY <1>1 DEF Tidy, TidyInv, NewCallsHaveNothing, NoMore
<1>2. CASE state[c] \in {"returned", "raised"} /\ c \notin excused'
  <2>1. Bare(c, server, state[c] = "returned")
    BY <1>2, Pointwise DEF Tidy, TidyInv, NothingIsLeftBehind
  <2>2. Files[c] \subseteq Names
    BY JobAssumption
  <2> QED BY <1>2, <2>1, <2>2 DEF Bare, NoMore
<1> QED BY <1>1, <1>2

LEMMA NothingLeft ==
  ASSUME \A c \in Calls : state'[c] \in {"returned", "raised"} /\ c \notin excused' =>
                            Bare(c, server', state'[c] = "returned")
  PROVE  NothingIsLeftBehind'
<1> SUFFICES ASSUME NEW c \in Calls, state'[c] \in {"returned", "raised"}, c \notin excused'
             PROVE  /\ server'.uploads \cap ({c} \X Names) = {}
                    /\ server'.files \cap FilesOf(c, "input") = {}
                    /\ server'.jobs[c] \notin Ongoing
                    /\ state'[c] = "returned" => server'.files \cap FilesOf(c, "output") = {}
  BY DEF NothingIsLeftBehind
<1> QED BY Pointwise

\* A step of the call that has the lock.
LEMMA HolderTidies ==
  ASSUME Tidy, run.pc # "idle", UNCHANGED <<lock, state>>, excused \subseteq excused',
         \A c \in Calls \ {lock} : NoMore(c, server'),
         Ordered(run'), lock \notin excused' => Knows(run', server')
  PROVE  TidyInv'
<1>1. state[lock] = "in" /\ lock \in Calls
  BY TidyRun
<1>2. NewCallsHaveNothing'
  BY <1>1, BareStays DEF NewCallsHaveNothing
<1>3. NothingIsLeftBehind'
  BY <1>1, BareStays, NothingLeft
<1>4. RequestsInOrder' /\ HolderKnows'
  BY DEF RequestsInOrder, HolderKnows, Ordered, Knows, Input, Output
<1> QED BY <1>2, <1>3, <1>4 DEF TidyInv

LEMMA RaisedKnows ==
  ASSUME NEW r \in RunType, NEW s, Ordered(r)
  PROVE  /\ r.pc # "cleanup" /\ r.pc # "leave" => Ordered(Raised(r))
         /\ Knows(r, s) => Knows(Raised(r), s)
<1>1. /\ Raised(r).pc = "stop" /\ Raised(r).outcome = "raised" /\ Raised(r).pending = r.pending
      /\ Raised(r).owned = r.owned /\ Raised(r).job = r.job /\ Raised(r).todo = r.todo
  BY DEF RunType, Raised
<1> QED BY <1>1 DEF Ordered, Knows

\* An unanswered request that had an effect is an excuse.
LEMMA RequestTidies ==
  ASSUME Tidy, run.pc \notin {"idle", "cleanup", "leave"}, NEW effect, NEW r, NEW before \in RunType,
         \A c \in Calls \ {lock} : NoMore(c, effect) /\ NoMore(c, server),
         Ordered(r), lock \notin excused => Knows(r, effect),
         Ordered(before), before.pc \notin {"cleanup", "leave"},
         lock \notin excused => Knows(before, server),
         Answered(effect, r) \/ Unanswered(effect, before) \/ GiveUp(before)
  PROVE  TidyInv'
<1>1. UNCHANGED <<lock, state>>
  BY DEF Answered, Unanswered, GiveUp, serviceVars
<1>2. CASE Answered(effect, r)
  BY <1>1, <1>2, HolderTidies DEF Answered, historyVars
<1>3. CASE GiveUp(before)
  BY <1>1, <1>3, RaisedKnows, HolderTidies DEF GiveUp, historyVars
<1>4. CASE Unanswered(effect, before)
  <2>1. /\ server' \in {server, effect} /\ run' = Raised(before)
        /\ excused \subseteq excused'
        /\ lock \notin excused' => server' = server /\ lock \notin excused
    BY <1>4 DEF Unanswered, Excuse
  <2> QED BY <1>1, <2>1, RaisedKnows, HolderTidies
<1> QED BY <1>2, <1>3, <1>4

LEMMA ServerStands ==
  ASSUME NEW c
  PROVE  NoMore(c, server)
BY DEF NoMore

LEMMA UploadTidies ==
  ASSUME Tidy, NEW n \in Names, Upload(n) \/ Content(n) \/ Complete(n)
  PROVE  TidyInv'
<1>1. run.pc \in {"upload", "content", "complete"}
  BY DEF Upload, Content, Complete
<1>2. /\ run \in RunType /\ lock \in Calls /\ server \in ServerType /\ Ordered(run)
      /\ lock \notin excused => Knows(run, server)
  BY <1>1, TidyRun DEF Good
<1>3. CASE Upload(n)
  <2> DEFINE effect == [server EXCEPT !.uploads = @ \cup {<<lock, n>>}]
             r == [run EXCEPT !.pc = "content", !.pending = {n}]
  <2>1. /\ effect.uploads = server.uploads \cup {<<lock, n>>}
        /\ effect.files = server.files /\ effect.jobs = server.jobs
    BY <1>2 DEF ServerType
  <2>2. /\ r.pc = "content" /\ r.pending = {n} /\ r.owned = run.owned /\ r.todo = run.todo
        /\ r.job = run.job /\ r.outcome = run.outcome
    BY <1>2 DEF RunType
  <2>3. run.pc = "upload" /\ (GiveUp(run) \/ Answered(effect, r) \/ Unanswered(effect, run))
    BY <1>3 DEF Upload, Request
  <2> HIDE DEF effect, r
  <2>4. \A c \in Calls \ {lock} : NoMore(c, effect) /\ NoMore(c, server)
    BY <2>1 DEF NoMore
  <2>5. Ordered(r) /\ (Knows(run, server) => Knows(r, effect))
    BY <1>2, <2>1, <2>2, <2>3 DEF Ordered, Knows
  <2> QED BY <1>2, <2>3, <2>4, <2>5, RequestTidies
<1>4. CASE Content(n)
  <2> DEFINE r == [run EXCEPT !.pc = "complete"]
  <2>1. /\ r.pc = "complete" /\ r.pending = run.pending /\ r.owned = run.owned
        /\ r.todo = run.todo /\ r.job = run.job /\ r.outcome = run.outcome
    BY <1>2 DEF RunType, Uploading
  <2>2. run.pc = "content" /\ (GiveUp(run) \/ Answered(server, r) \/ Unanswered(server, run))
    BY <1>4 DEF Content, Request
  <2> HIDE DEF r
  <2>3. Ordered(r) /\ (Knows(run, server) => Knows(r, server))
    BY <1>2, <2>1, <2>2 DEF Ordered, Knows
  <2> QED BY <1>2, <2>2, <2>3, RequestTidies, ServerStands
<1>5. CASE Complete(n)
  <2> DEFINE done == [run EXCEPT !.pc = IF run.todo = {n} THEN "create" ELSE "upload",
                                 !.todo = @ \ {n}, !.pending = {},
                                 !.owned = @ \cup {Input(n)}]
             effect == [server EXCEPT !.uploads = @ \ {<<lock, n>>},
                                      !.files = @ \cup {Input(n)}]
  <2>1. /\ effect.uploads = server.uploads \ {<<lock, n>>}
        /\ effect.files = server.files \cup {Input(n)} /\ effect.jobs = server.jobs
    BY <1>2 DEF ServerType
  <2>2. /\ done.pc \in {"create", "upload"} /\ done.pending = {}
        /\ done.owned = run.owned \cup {Input(n)} /\ done.job = run.job
        /\ done.outcome = run.outcome
    BY <1>2 DEF RunType
  <2>3. done \in RunType
    <3>1. PICK f : f = Input(n) /\ f \in Calls \X {"input", "output"} \X Names
      <4>1. Input(n) \in Calls \X {"input", "output"} \X Names
        BY <1>2 DEF Input
      <4> QED BY <4>1
    <3> QED BY <1>2, <2>2, <3>1 DEF RunType, Uploading
  <2>4. run.pc = "complete" /\ n \in run.pending
    BY <1>5 DEF Complete
  <2>5. \E next \in {done, Raised(done)} :
          GiveUp(run) \/ Answered(effect, next) \/ Unanswered(effect, run)
    BY <1>5 DEF Complete, Request
  <2> HIDE DEF done, effect
  <2>6. \A c \in Calls \ {lock} : NoMore(c, effect) /\ NoMore(c, server)
    BY <2>1 DEF NoMore, Input
  <2>7. Ordered(done) /\ (Knows(run, server) => Knows(done, effect))
    BY <1>2, <2>1, <2>2, <2>4 DEF Ordered, Knows
  <2>8. Ordered(Raised(done)) /\ (Knows(run, server) => Knows(Raised(done), effect))
    BY <2>2, <2>3, <2>7, RaisedKnows
  <2> QED BY <1>2, <2>4, <2>5, <2>6, <2>7, <2>8, RequestTidies
<1> QED BY <1>3, <1>4, <1>5

LEMMA CreateTidies ==
  ASSUME Tidy, Create
  PROVE  TidyInv'
<1> DEFINE made == [server EXCEPT !.jobs[lock] = "queued"]
           open == [run EXCEPT !.pc = "poll", !.job = "open"]
<1>1. run.pc = "create" /\ (GiveUp(run) \/ Answered(made, open) \/ Unanswered(made, run))
  BY DEF Create, Request
<1>2. /\ run \in RunType /\ lock \in Calls /\ server \in ServerType /\ Ordered(run)
      /\ lock \notin excused => Knows(run, server)
  BY <1>1, TidyRun DEF Good
<1>3. /\ made.uploads = server.uploads /\ made.files = server.files
      /\ \A c \in Calls \ {lock} : made.jobs[c] = server.jobs[c]
  BY <1>2 DEF ServerType
<1>4. /\ open.pc = "poll" /\ open.pending = run.pending /\ open.owned = run.owned
      /\ open.outcome = run.outcome
  BY <1>2 DEF RunType
<1> HIDE DEF made, open
<1>5. \A c \in Calls \ {lock} : NoMore(c, made) /\ NoMore(c, server)
  BY <1>3 DEF NoMore
<1>6. Ordered(open) /\ (Knows(run, server) => Knows(open, made))
  BY <1>1, <1>2, <1>3, <1>4 DEF Ordered, Knows
<1> QED BY <1>1, <1>2, <1>5, <1>6, RequestTidies

LEMMA PollTidies ==
  ASSUME Tidy, Poll
  PROVE  TidyInv'
<1> DEFINE ended == [run EXCEPT !.pc = "results", !.job = "terminal", !.todo = Files[lock]]
<1>1. run.pc = "poll"
  BY DEF Poll
<1>2. /\ run \in RunType /\ lock \in Calls /\ server \in ServerType /\ Ordered(run)
      /\ lock \notin excused => Knows(run, server)
  BY <1>1, TidyRun DEF Good
<1>3. ended \in RunType
  BY <1>2, JobAssumption DEF RunType
<1>4. /\ ended.pc = "results" /\ ended.pending = run.pending /\ ended.owned = run.owned
      /\ ended.outcome = run.outcome /\ ended.job = "terminal" /\ ended.todo = Files[lock]
  BY <1>2 DEF RunType
<1>5. \/ GiveUp(run) \/ Answered(server, run) \/ Answered(server, ended)
      \/ Answered(server, Raised(ended)) \/ Unanswered(server, run)
  BY DEF Poll, Request
<1> HIDE DEF ended
<1>6. Ordered(ended) /\ (Knows(run, server) => Knows(ended, server))
  BY <1>1, <1>2, <1>4 DEF Ordered, Knows
<1>7. Ordered(Raised(ended)) /\ (Knows(run, server) => Knows(Raised(ended), server))
  BY <1>3, <1>4, <1>6, RaisedKnows
<1>8. CASE Answered(server, run)
  BY <1>1, <1>2, <1>8, RequestTidies, ServerStands
<1>9. CASE Answered(server, ended)
  BY <1>1, <1>2, <1>6, <1>9, RequestTidies, ServerStands
<1>10. CASE Answered(server, Raised(ended))
  BY <1>1, <1>2, <1>7, <1>10, RequestTidies, ServerStands
<1>11. CASE GiveUp(run) \/ Unanswered(server, run)
  BY <1>1, <1>2, <1>11, RequestTidies, ServerStands
<1> QED BY <1>5, <1>8, <1>9, <1>10, <1>11

LEMMA ResultTidies ==
  ASSUME Tidy, NEW n \in Names, Result(n)
  PROVE  TidyInv'
<1> DEFINE noted == [run EXCEPT !.owned = @ \cup ({Output(n)} \cap server.files)]
           done == [noted EXCEPT !.todo = @ \ {n}]
<1>1. run.pc = "results"
  BY DEF Result
<1>2. /\ run \in RunType /\ lock \in Calls /\ server \in ServerType /\ Ordered(run)
      /\ lock \notin excused => Knows(run, server)
  BY <1>1, TidyRun DEF Good
<1>3. /\ noted \in RunType /\ noted.pc = "results" /\ noted.todo = run.todo
      /\ noted.owned = run.owned \cup ({Output(n)} \cap server.files)
      /\ noted.pending = run.pending /\ noted.job = run.job /\ noted.outcome = run.outcome
  BY <1>1, <1>2 DEF RunType, Output
<1>4. /\ done.pc = "results" /\ done.owned = noted.owned /\ done.todo = noted.todo \ {n}
      /\ done.pending = run.pending /\ done.job = run.job /\ done.outcome = run.outcome
  BY <1>3 DEF RunType
<1>5. \/ run' = done /\ UNCHANGED <<serviceVars, server, late, cancelled, historyVars, mishaps>>
      \/ GiveUp(noted) \/ Answered(server, done) \/ Unanswered(server, noted)
  BY DEF Result
<1> HIDE DEF noted, done
<1>6. Ordered(noted) /\ (Knows(run, server) => Knows(noted, server))
  BY <1>1, <1>2, <1>3 DEF Ordered, Knows
<1>7. Ordered(done) /\ (Knows(run, server) => Knows(done, server))
  BY <1>1, <1>2, <1>3, <1>4 DEF Ordered, Knows
<1>8. CASE run' = done /\ UNCHANGED <<serviceVars, server, late, cancelled, historyVars, mishaps>>
  BY <1>1, <1>2, <1>7, <1>8, HolderTidies, ServerStands DEF serviceVars, historyVars
<1>9. CASE GiveUp(noted) \/ Answered(server, done) \/ Unanswered(server, noted)
  BY <1>1, <1>2, <1>3, <1>6, <1>7, <1>9, RequestTidies, ServerStands
<1> QED BY <1>5, <1>8, <1>9

LEMMA ReturnTidies ==
  ASSUME Tidy, Return \/ FindRunning
  PROVE  TidyInv'
<1>1. run.pc # "idle"
  BY DEF Return, FindRunning
<1>2. /\ run \in RunType /\ lock \in Calls /\ Ordered(run)
      /\ lock \notin excused => Knows(run, server)
  BY <1>1, TidyRun DEF Good
<1>3. UNCHANGED <<lock, state, server, excused>>
  BY DEF Return, FindRunning, serviceVars, historyVars
<1>4. /\ run'.pending = run.pending /\ run'.owned = run.owned
      /\ \/ /\ run.pc = "results" /\ run.todo = {} /\ run'.pc = "stop" /\ run'.job = run.job
         \/ run.pc = "ensure" /\ run'.pc = "upload" /\ run'.outcome = run.outcome
  BY <1>2 DEF Return, FindRunning, Ensured, RunType
<1>5. Ordered(run') /\ (Knows(run, server) => Knows(run', server'))
  BY <1>2, <1>3, <1>4 DEF Ordered, Knows
<1> QED BY <1>1, <1>2, <1>3, <1>5, HolderTidies, ServerStands

\* The cleanup: what is given up is an excuse.
LEMMA CleanUpTidies ==
  ASSUME Tidy, run.pc \in {"stop", "cleanup"}, UNCHANGED <<lock, state>>,
         excused \subseteq excused', \A c \in Calls \ {lock} : NoMore(c, server'),
         run'.pc = "cleanup", run'.pending \subseteq run.pending,
         run'.job = run.job, run'.outcome = run.outcome,
         lock \notin excused' =>
           /\ run'.clean
           /\ \A n \in Names : <<lock, n>> \in server'.uploads =>
                <<lock, n>> \in server.uploads /\ n \notin run.pending \ run'.pending
           /\ \A n \in Names, kind \in {"input", "output"} :
                <<lock, kind, n>> \in server'.files =>
                  /\ <<lock, kind, n>> \in server.files
                  /\ <<lock, kind, n>> \notin run.owned \ run'.owned
  PROVE  TidyInv'
<1>1. /\ Ordered(run) /\ lock \in Calls
      /\ lock \notin excused => Knows(run, server)
  BY TidyRun
<1>2. Files[lock] \subseteq Names
  BY <1>1, JobAssumption
<1>3. Ordered(run')
  BY <1>1 DEF Ordered
<1>4. lock \notin excused' => Knows(run', server')
  BY <1>1, <1>2 DEF Knows, Input, Output
<1> QED BY <1>3, <1>4, HolderTidies

LEMMA StopTidies ==
  ASSUME Tidy, NoJobToStop \/ StopJob \/ StopJobFails
  PROVE  TidyInv'
<1>1. run.pc = "stop" /\ UNCHANGED <<lock, state>>
  <2>1. UNCHANGED serviceVars
    BY DEF NoJobToStop, StopJob, StopJobFails, Fails
  <2>2. run.pc = "stop"
    BY DEF NoJobToStop, StopJob, StopJobFails
  <2> QED BY <2>1, <2>2 DEF serviceVars
<1>2. run \in RunType /\ lock \in Calls /\ server \in ServerType
  BY <1>1, TidyRun DEF Good
<1>3. CASE NoJobToStop
  <2>1. /\ run'.pc = "cleanup" /\ run'.pending = run.pending /\ run'.owned = run.owned
        /\ run'.job = run.job /\ run'.outcome = run.outcome /\ run'.clean
    BY <1>2, <1>3 DEF NoJobToStop, CleanupFiles, RunType
  <2>2. UNCHANGED <<server, excused>>
    BY <1>3 DEF NoJobToStop, historyVars
  <2> QED BY <1>1, <2>1, <2>2, CleanUpTidies, ServerStands
<1>4. CASE StopJob \/ StopJobFails
  <2>1. PICK status :
          /\ server' = [server EXCEPT !.jobs[lock] = status]
          /\ \/ /\ run' = [run EXCEPT !.pc = "cleanup", !.clean = Confirmed(status)]
                /\ Excuse(status \notin Terminal)
             \/ run' = [run EXCEPT !.pc = "cleanup"] /\ Excuse(TRUE)
    <3>1. CASE StopJob
      BY <3>1 DEF StopJob
    <3>2. CASE StopJobFails
      BY <3>2 DEF StopJobFails, Fails
    <3> QED BY <1>4, <3>1, <3>2
  <2>2. /\ server'.uploads = server.uploads /\ server'.files = server.files
        /\ \A c \in Calls \ {lock} : server'.jobs[c] = server.jobs[c]
    BY <1>2, <2>1 DEF ServerType
  <2>3. /\ run'.pc = "cleanup" /\ run'.pending = run.pending /\ run'.owned = run.owned
        /\ run'.job = run.job /\ run'.outcome = run.outcome
    BY <1>2, <2>1 DEF RunType
  <2>4. excused \subseteq excused' /\ (lock \notin excused' => run'.clean)
    BY <1>2, <2>1 DEF Excuse, Confirmed, RunType
  <2>5. \A c \in Calls \ {lock} : NoMore(c, server')
    BY <2>2 DEF NoMore
  <2> QED BY <1>1, <2>2, <2>3, <2>4, <2>5, CleanUpTidies, SMTT(30)
<1> QED BY <1>3, <1>4

LEMMA RemoveTidies ==
  ASSUME Tidy, NEW x,
         \/ CancelUpload(x) /\ x \in Names
         \/ DeleteFile(x) /\ x \in run.owned
  PROVE  TidyInv'
<1>1. run.pc = "cleanup" /\ UNCHANGED <<lock, state>>
  BY DEF CancelUpload, DeleteFile, Fails, serviceVars
<1>2. /\ run \in RunType /\ lock \in Calls /\ server \in ServerType
      /\ lock \notin excused => run.clean
      /\ \A f \in run.owned : f[1] = lock
  BY <1>1, TidyRun DEF Good, Knows
<1>3. excused \subseteq excused' /\ (lock \notin excused' => excused' = excused)
  BY DEF CancelUpload, DeleteFile, Fails, Excuse, historyVars
<1>4. CASE CancelUpload(x)
  <2>1. /\ run'.pc = "cleanup" /\ run'.pending = run.pending \ {x} /\ run'.owned = run.owned
        /\ run'.job = run.job /\ run'.outcome = run.outcome /\ run'.clean = run.clean
    BY <1>2, <1>4 DEF CancelUpload, RunType
  <2>2. /\ server'.files = server.files /\ server'.jobs = server.jobs
        /\ server'.uploads \subseteq server.uploads
        /\ lock \notin excused' => <<lock, x>> \notin server'.uploads
    BY <1>2, <1>4 DEF CancelUpload, Fails, Excuse, ServerType
  <2>3. \A c \in Calls : NoMore(c, server')
    BY <2>2 DEF NoMore
  <2> QED BY <1>1, <1>2, <1>3, <2>1, <2>2, <2>3, CleanUpTidies
<1>5. CASE DeleteFile(x) /\ x \in run.owned
  <2>1. /\ run'.pc = "cleanup" /\ run'.pending = run.pending /\ run'.owned = run.owned \ {x}
        /\ run'.job = run.job /\ run'.outcome = run.outcome /\ run'.clean = run.clean
    BY <1>1, <1>2, <1>5 DEF DeleteFile, RunType
  <2>2. /\ server'.uploads = server.uploads /\ server'.jobs = server.jobs
        /\ server'.files \subseteq server.files
        /\ lock \notin excused' => x \notin server'.files
    BY <1>2, <1>5 DEF DeleteFile, Fails, Excuse, ServerType
  <2>3. \A c \in Calls : NoMore(c, server')
    BY <2>2 DEF NoMore
  <2> QED BY <1>1, <1>2, <1>3, <2>1, <2>2, <2>3, CleanUpTidies
<1> QED BY <1>4, <1>5

LEMMA LeaveTidies ==
  ASSUME Tidy, Leave
  PROVE  TidyInv'
<1> USE DEF Leave, historyVars
<1>1. run.pc \in {"leave", "cleanup"}
  OBVIOUS
<1>2. /\ Good(run, server.files) /\ run \in RunType /\ lock \in Calls /\ Ordered(run)
      /\ lock \notin excused => Knows(run, server) /\ lock \notin orphaned
  BY <1>1, TidyRun DEF Good
<1>3. /\ UNCHANGED <<server, excused>> /\ lock' = Free
      /\ state'[lock] = run.outcome
      /\ \A c \in Calls \ {lock} : state'[c] = state[c]
  BY <1>2 DEF Tidy, JobIInv, JobTypeOK
<1>4. lock \notin excused => Bare(lock, server, run.outcome = "returned")
  <2>1. Files[lock] \subseteq Names
    BY <1>2, JobAssumption
  <2>2. lock \notin excused => run.owned = {} /\ run.pending = {}
    BY <1>2 DEF Ordered, Knows
  <2>3. lock \notin excused => server.jobs[lock] \notin Ongoing
    BY <1>2 DEF Good, Ordered, Knows
  <2> QED BY <1>2, <2>1, <2>2, <2>3 DEF Bare, Knows, Input, Output
<1>5. NothingIsLeftBehind'
  <2>1. ASSUME NEW c \in Calls \ {lock}, state[c] \in {"returned", "raised"}, c \notin excused
        PROVE  Bare(c, server, state[c] = "returned")
    BY <2>1, Pointwise DEF Tidy, TidyInv, NothingIsLeftBehind
  <2> QED BY <1>3, <1>4, <2>1, NothingLeft
<1>6. NewCallsHaveNothing'
  BY <1>2, <1>3 DEF Tidy, TidyInv, NewCallsHaveNothing, RunType
<1>7. RequestsInOrder' /\ HolderKnows'
  BY <1>3 DEF RequestsInOrder, HolderKnows, Idle
<1> QED BY <1>5, <1>6, <1>7 DEF TidyInv

LEMMA StartTidies ==
  ASSUME Tidy, StartApi \/ FailStart
  PROVE  TidyInv'
<1>1. run.pc = "ensure" /\ UNCHANGED <<lock, state, excused>> /\ server' = Empty
  BY DEF StartApi, FailStart, historyVars
<1>2. run \in RunType /\ lock \in Calls /\ Ordered(run)
  BY <1>1, TidyRun DEF Good
<1>3. /\ run'.pc \in {"upload", "leave"} /\ run'.pending = run.pending /\ run'.owned = run.owned
      /\ run'.job = run.job /\ run'.outcome = run.outcome
  BY <1>2 DEF StartApi, FailStart, Ensured, RunType
<1>4. \A c \in Calls : NoMore(c, server')
  BY <1>1 DEF NoMore, Empty, Ongoing
<1>5. Ordered(run') /\ Knows(run', server')
  BY <1>1, <1>2, <1>3 DEF Ordered, Knows, Empty
<1> QED BY <1>1, <1>4, <1>5, HolderTidies

LEMMA EnterTidies ==
  ASSUME Tidy, NEW c \in Calls, Enter(c)
  PROVE  TidyInv'
<1>1. /\ state[c] = "idle" /\ lock' = c /\ UNCHANGED excused
      /\ server' = server \/ server' = Empty
      /\ run'.pc \in {"upload", "ensure"} /\ run'.pending = {} /\ run'.owned = {}
      /\ run'.job = "none" /\ run'.outcome = "raised"
  BY DEF Enter, historyVars, Idle
<1>2. /\ state'[c] = "in" /\ \A d \in Calls \ {c} : state'[d] = state[d]
  BY DEF Enter, Tidy, JobIInv, JobTypeOK
<1>3. \A d \in Calls : NoMore(d, server')
  BY <1>1 DEF NoMore, Empty, Ongoing
<1>4. NothingIsLeftBehind'
  <2>1. ASSUME NEW d \in Calls, state[d] \in {"returned", "raised"}, d \notin excused
        PROVE  Bare(d, server, state[d] = "returned")
    BY <2>1, Pointwise DEF Tidy, TidyInv, NothingIsLeftBehind
  <2>2. ASSUME NEW d \in Calls PROVE Files[d] \subseteq Names
    BY JobAssumption
  <2>3. ASSUME NEW d \in Calls, state'[d] \in {"returned", "raised"}, d \notin excused'
        PROVE  Bare(d, server', state'[d] = "returned")
    <3>1. d # c /\ Bare(d, server, state'[d] = "returned")
      BY <1>1, <1>2, <2>1, <2>3
    <3> QED BY <1>3, <2>2, <3>1 DEF Bare, NoMore
  <2> QED BY <2>3, NothingLeft
<1>5. NewCallsHaveNothing'
  BY <1>2, <1>3 DEF Tidy, TidyInv, NewCallsHaveNothing, NoMore
<1>6. RequestsInOrder'
  BY <1>1 DEF RequestsInOrder
<1>7. HolderKnows'
  <2>1. Files[c] \subseteq Names
    BY JobAssumption
  <2>2. \A n \in Names : /\ <<c, n>> \notin server'.uploads
                         /\ <<c, "input", n>> \notin server'.files
                         /\ <<c, "output", n>> \notin server'.files
    BY <1>1, <1>3 DEF Tidy, TidyInv, NewCallsHaveNothing, NoMore
  <2> QED BY <1>1, <2>1, <2>2 DEF HolderKnows, Input, Output
<1> QED BY <1>4, <1>5, <1>6, <1>7 DEF TidyInv

\* The server works: only on jobs of calls that are not yet over, or excused.
LEMMA WorkTidies ==
  ASSUME Tidy, NEW c \in Calls, Work(c)
  PROVE  TidyInv'
<1>1. UNCHANGED <<lock, state, run, excused>>
  <2>1. UNCHANGED <<serviceVars, run, late, cancelled, historyVars, mishaps>>
    BY Zenon DEF Work
  <2> QED BY <2>1 DEF serviceVars, historyVars
<1>2. server \in ServerType /\ server.jobs[c] \in Ongoing
  <2>1. server.jobs[c] = "queued" \/ server.jobs[c] = "running" \/ server.jobs[c] \in Ongoing
    BY Zenon DEF Work
  <2> QED BY <2>1, Typed DEF Tidy, JobIInv, Ongoing
<1>3. /\ server'.uploads = server.uploads
      /\ \A d \in Calls \ {c} : server'.jobs[d] = server.jobs[d]
      /\ \A d \in Calls, n \in Names :
           /\ <<d, "input", n>> \in server'.files => <<d, "input", n>> \in server.files
           /\ d # c /\ <<d, "output", n>> \in server'.files => <<d, "output", n>> \in server.files
  <2>1. CASE \E status : server' = [server EXCEPT !.jobs[c] = status]
    BY <1>2, <2>1 DEF ServerType
  <2>2. CASE \E status : \E parsed \in SUBSET Files[c] : server' = [server EXCEPT
               !.files = @ \cup {<<c, "output", n>> : n \in parsed}, !.jobs[c] = status]
    <3>1. PICK status : \E parsed \in SUBSET Files[c] : server' = [server EXCEPT
               !.files = @ \cup {<<c, "output", n>> : n \in parsed}, !.jobs[c] = status]
      BY <2>2, Zenon
    <3>2. PICK parsed \in SUBSET Files[c] : server' = [server EXCEPT
               !.files = @ \cup {<<c, "output", n>> : n \in parsed}, !.jobs[c] = status]
      BY <3>1, Zenon
    <3>3. \A d, n : /\ <<d, "input", n>> \notin {<<c, "output", m>> : m \in parsed}
                     /\ d # c => <<d, "output", n>> \notin {<<c, "output", m>> : m \in parsed}
      OBVIOUS
    <3>4. PICK outputs :
            /\ server' = [server EXCEPT !.files = @ \cup outputs, !.jobs[c] = status]
            /\ \A d, n : /\ <<d, "input", n>> \notin outputs
                         /\ d # c => <<d, "output", n>> \notin outputs
      BY <3>2, <3>3, Zenon
    <3> QED BY <1>2, <3>4 DEF ServerType
  <2>3. Work(c) => \/ \E status : server' = [server EXCEPT !.jobs[c] = status]
                   \/ \E status : \E parsed \in SUBSET Files[c] : server' = [server EXCEPT
                        !.files = @ \cup {<<c, "output", n>> : n \in parsed},
                        !.jobs[c] = status]
    <3>1. ASSUME NEW parsed \in SUBSET {n \in Files[c] : <<c, "input", n>> \in server.files},
                 server' = [server EXCEPT
                   !.files = @ \cup {<<c, "output", n>> : n \in parsed},
                   !.jobs[c] = IF parsed = Files[c] THEN "completed"
                               ELSE IF parsed = {} THEN "failed" ELSE "partial"]
          PROVE  \E status : \E some \in SUBSET Files[c] : server' = [server EXCEPT
                   !.files = @ \cup {<<c, "output", n>> : n \in some},
                   !.jobs[c] = status]
      <4>1. parsed \in SUBSET Files[c]
        OBVIOUS
      <4> QED BY <3>1, <4>1, Zenon
    <3> QED BY <3>1, Zenon DEF Work
  <2> QED BY <2>1, <2>2, <2>3
<1>4. \A d \in Calls \ {c} : NoMore(d, server')
  BY <1>3 DEF NoMore
<1>5. state[c] # "idle" /\ (state[c] \in {"returned", "raised"} => c \in excused)
  BY <1>2 DEF Tidy, TidyInv, NothingIsLeftBehind, JobIInv, HolderAlone, Ongoing
<1>6. NewCallsHaveNothing'
  BY <1>1, <1>4, <1>5, BareStays DEF NewCallsHaveNothing
<1>7. NothingIsLeftBehind'
  BY <1>1, <1>4, <1>5, BareStays, NothingLeft
<1>8. RequestsInOrder'
  BY <1>1 DEF Tidy, TidyInv, RequestsInOrder
<1>9. HolderKnows'
  <2>1. lock # Free => lock \in Calls /\ Files[lock] \subseteq Names
    BY Typed, JobAssumption DEF Tidy, JobIInv
  <2>2. c = lock /\ lock \notin excused => run.job = "open"
    BY <1>2, JobAssumption DEF Tidy, JobIInv, CleanupIsSafe, JobTypeOK
  <2>3. c = lock /\ lock \notin excused => run.pc # "results" /\ run.outcome # "returned"
    BY <2>2 DEF Tidy, TidyInv, RequestsInOrder
  <2>4. lock # Free /\ lock \notin excused => \A n \in Files[lock] :
          /\ Input(n) \in server'.files => Input(n) \in server.files
          /\ c # lock /\ Output(n) \in server'.files => Output(n) \in server.files
    BY <1>3, <2>1 DEF Input, Output
  <2> QED BY <1>1, <1>3, <2>1, <2>3, <2>4 DEF Tidy, TidyInv, HolderKnows, Input, Output
<1> QED BY <1>6, <1>7, <1>8, <1>9 DEF TidyInv

LEMMA EnvironmentTidies ==
  ASSUME Tidy, (\E c \in Calls : RequestCancel(c)) \/ Expire \/ BreakDown \/ UNCHANGED jobVars
  PROVE  TidyInv'
<1>1. UNCHANGED <<lock, state, run, excused>> /\ (server' = server \/ server' = Empty)
  BY DEF RequestCancel, Expire, BreakDown, jobVars, serviceVars, historyVars
<1>2. \A d \in Calls : NoMore(d, server')
  BY <1>1 DEF NoMore, Empty, Ongoing
<1>3. NewCallsHaveNothing' /\ NothingIsLeftBehind'
  BY <1>1, <1>2, BareStays, NothingLeft DEF NewCallsHaveNothing
<1>4. RequestsInOrder' /\ HolderKnows'
  BY <1>1 DEF Tidy, TidyInv, RequestsInOrder, HolderKnows, Empty, Input, Output
<1> QED BY <1>3, <1>4 DEF TidyInv

LEMMA StepTidies == Tidy /\ [JobNext]_jobVars => TidyInv'
<1> SUFFICES ASSUME Tidy, [JobNext]_jobVars PROVE TidyInv'
  OBVIOUS
<1>1. CASE FindRunning \/ StartApi \/ FailStart
  BY <1>1, ReturnTidies, StartTidies
<1>2. CASE Parse
  BY <1>2, UploadTidies, CreateTidies, PollTidies, ResultTidies, ReturnTidies DEF Parse
<1>3. CASE CleanUp
  BY <1>3, StopTidies, RemoveTidies, LeaveTidies DEF CleanUp
<1>4. ASSUME NEW c \in Calls, Enter(c) \/ Work(c) \/ RequestCancel(c)
      PROVE  TidyInv'
  BY <1>4, EnterTidies, WorkTidies, EnvironmentTidies
<1>5. CASE Expire \/ BreakDown \/ UNCHANGED jobVars
  BY <1>5, EnvironmentTidies
<1> QED BY <1>1, <1>2, <1>3, <1>4, <1>5 DEF JobNext, Holder

\* However requests get lost and servers fail: a call that is over, and was told of all
\* it made, has left neither upload, input nor running job, and no output it returned.
THEOREM CallsCleanUp == JobSpec => []NothingIsLeftBehind
<1>1. JobInit => Tidy
  <2>1. JobInit => TidyInv
    BY DEF JobInit, TidyInv, NewCallsHaveNothing, RequestsInOrder, HolderKnows,
       NothingIsLeftBehind, Idle, Empty
  <2> QED BY <2>1, InitWhole DEF Tidy
<1>2. Tidy /\ [JobNext]_jobVars => Tidy'
  BY StepWhole, StepTidies DEF Tidy
<1>3. JobSpec => []Tidy
  BY <1>1, <1>2, PTL DEF JobSpec
<1>4. Tidy => NothingIsLeftBehind
  BY DEF Tidy, TidyInv
<1> QED BY <1>3, <1>4, PTL

=============================================================================
