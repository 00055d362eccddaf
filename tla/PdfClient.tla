------------------------------ MODULE PdfClient -------------------------------
(***************************************************************************)
(* The client of the PDF child process (pdf_backend_client.py) and the        *)
(* adapter that owns it (supervisor/pdf/adapter.py).  The client starts the   *)
(* child with the first call and again when it has died, and keeps an HTTP    *)
(* client for each thread.  The service calls from its event loop; a stream   *)
(* runs on another thread.  A child is named by its number; its address is    *)
(* new with every start.                                                      *)
(***************************************************************************)
EXTENDS Naturals, FiniteSets

CONSTANTS Callers,     \* the threads that call
          MaxChildren, \* bound on the starts of a child
          MaxCalls     \* bound on the calls of a thread

ASSUME ClientAssumption == {MaxChildren, MaxCalls} \subseteq Nat

VARIABLES child,    \* the process the client knows, 0 for none
          up,       \* the child processes that live
          url,      \* the child that _base_url leads to
          started,  \* _started
          lock,     \* the holder of _lock: {} or one thread
          clients,  \* _http_clients: the child that each thread's client leads to
          call,     \* each thread in _ensure_started, and the client it has built
          owned,    \* the adapter has the client
          closed,   \* the service has shut down
          raced     \* history: threads that built a client around a restart

client == <<child, up, url, started, lock, clients, call, owned, closed, raced>>

None == 0
Idle == [pc |-> "idle", built |-> None, calls |-> 0, ok |-> TRUE]

ClientInit ==
  /\ child = None /\ up = {} /\ url = None /\ started = FALSE /\ lock = {}
  /\ clients = [t \in Callers |-> None] /\ call = [t \in Callers |-> Idle]
  /\ owned = FALSE /\ closed = FALSE /\ raced = {}

Goes(t, pc) == call' = [call EXCEPT ![t].pc = pc]
Alive == child \in up

-----------------------------------------------------------------------------
\* A call through the adapter, which has its client started the first time.
\* A stream may begin after the shutdown.
Call(t) ==
  /\ call[t].pc = "idle" /\ call[t].calls < MaxCalls
  /\ call' = [call EXCEPT ![t].pc = IF owned THEN "check" ELSE "start",
                          ![t].calls = @ + 1, ![t].ok = FALSE]
  /\ owned' = TRUE
  /\ UNCHANGED <<child, up, url, started, lock, clients, closed, raced>>

\* _ensure_started: what is there is looked at without the lock.
Check(t) ==
  /\ call[t].pc = "check"
  /\ Goes(t, IF ~started \/ ~Alive THEN "start"
             ELSE IF clients[t] # None THEN "use" ELSE "build")
  /\ UNCHANGED <<child, up, url, started, lock, clients, owned, closed, raced>>

\* start and _stop_locked: the old child is killed, all HTTP clients are closed,
\* and a new child gets a new address.
Begin_KeepsClients(t) ==
  /\ call[t].pc = "start" /\ lock = {}
  /\ IF started /\ Alive
     THEN Goes(t, "build") /\ UNCHANGED <<child, up, url, started, lock, clients, raced>>
     ELSE /\ url < MaxChildren
          /\ url' = url + 1 /\ child' = url + 1
          /\ up' = (up \ {child}) \cup {url + 1}
          /\ started' = FALSE /\ lock' = {t}
          /\ raced' = raced \cup {s \in Callers : call[s].pc \in {"build", "store"}}
          /\ Goes(t, "wait")
          /\ UNCHANGED clients
  /\ UNCHANGED <<owned, closed>>

Begin(t) ==
  /\ call[t].pc = "start" /\ lock = {}
  /\ IF started /\ Alive
     THEN Goes(t, "build") /\ UNCHANGED <<child, up, url, started, lock, clients, raced>>
     ELSE /\ url < MaxChildren
          /\ url' = url + 1 /\ child' = url + 1
          /\ up' = (up \ {child}) \cup {url + 1}
          /\ started' = FALSE /\ lock' = {t}
          /\ clients' = [s \in Callers |-> None]
          /\ raced' = raced \cup {s \in Callers : call[s].pc \in {"build", "store"}}
          /\ Goes(t, "wait")
  /\ UNCHANGED <<owned, closed>>

\* _wait_ready
Ready(t) ==
  /\ call[t].pc = "wait" /\ Alive
  /\ started' = TRUE /\ lock' = {}
  /\ Goes(t, "build")
  /\ UNCHANGED <<child, up, url, clients, owned, closed, raced>>

\* It exits, or takes too long: then it is left to the next start.
NotReady(t) ==
  /\ call[t].pc = "wait"
  /\ lock' = {}
  /\ Goes(t, "idle")
  /\ UNCHANGED <<child, up, url, started, clients, owned, closed, raced>>

\* The HTTP client is built and kept without the lock: a restart may come
\* between the two, and then the client leads to the old child for good.
Build(t) ==
  /\ call[t].pc = "build"
  /\ call' = [call EXCEPT ![t].pc = "store", ![t].built = url]
  /\ UNCHANGED <<child, up, url, started, lock, clients, owned, closed, raced>>

Store(t) ==
  /\ call[t].pc = "store"
  /\ clients' = [clients EXCEPT ![t] = call[t].built]
  /\ Goes(t, "use")
  /\ UNCHANGED <<child, up, url, started, lock, owned, closed, raced>>

\* The request itself; a closed client, or one that leads to a dead child, raises.
Use(t) ==
  /\ call[t].pc = "use"
  /\ call' = [call EXCEPT ![t].pc = "idle", ![t].ok = clients[t] \in up]
  /\ UNCHANGED <<child, up, url, started, lock, clients, owned, closed, raced>>

-----------------------------------------------------------------------------
Dies ==
  /\ Alive /\ up' = up \ {child}
  /\ UNCHANGED <<child, url, started, lock, clients, call, owned, closed, raced>>

\* The shutdown of the service stops the child.
Stop ==
  /\ ~closed /\ lock = {}
  /\ closed' = TRUE /\ owned' = FALSE
  /\ IF owned THEN /\ up' = up \ {child} /\ child' = None /\ started' = FALSE
                   /\ clients' = [s \in Callers |-> None]
                   /\ raced' = raced \cup {s \in Callers : call[s].pc \in {"build", "store"}}
              ELSE UNCHANGED <<child, up, started, clients, raced>>
  /\ UNCHANGED <<url, lock, call>>

ClientNext ==
  \/ Dies \/ Stop
  \/ \E t \in Callers :
       \/ Call(t) \/ Check(t) \/ Begin(t) \/ Ready(t) \/ NotReady(t)
       \/ Build(t) \/ Store(t) \/ Use(t)

ClientSpec == ClientInit /\ [][ClientNext]_client

-----------------------------------------------------------------------------
ClientTypeOK ==
  /\ child \in 0 .. MaxChildren /\ url \in 0 .. MaxChildren /\ up \subseteq 1 .. MaxChildren
  /\ started \in BOOLEAN /\ owned \in BOOLEAN /\ closed \in BOOLEAN
  /\ lock \subseteq Callers /\ raced \subseteq Callers
  /\ clients \in [Callers -> 0 .. MaxChildren]
  /\ call \in [Callers -> [pc : {"idle", "start", "check", "wait", "build", "store", "use"},
                           built : 0 .. MaxChildren, calls : 0 .. MaxCalls, ok : BOOLEAN]]

\* There is one child at a time, whatever dies or fails to start.  While it
\* serves, every client kept leads to it, unless it was built around a restart.
ClientsReachTheChild ==
  /\ Cardinality(up) <= 1
  /\ started /\ Alive =>
       \A t \in Callers \ raced : clients[t] \in {None, child}

\* What makes it inductive (the proof is in PdfProofs): what lives is the child
\* known, which was started last, and that is where clients lead or will.
ClientInv ==
  /\ ClientTypeOK
  /\ up \subseteq {child} /\ child \in {None, url}
  /\ \A t \in Callers \ raced : /\ clients[t] \in {None, url}
                                /\ call[t].pc = "store" => call[t].built = url
=============================================================================
