----------------------------- MODULE MineruJob -----------------------------
(***************************************************************************)
(* A parse on a MinerU server: MinerUService takes its lock, makes the     *)
(* local mineru-api run with the language and tier of the call, and        *)
(* MineruApiClient.parse uploads the files, creates a job, polls it,       *)
(* downloads the documents and removes what it left on the server.         *)
(*                                                                         *)
(* The server is external: it works on its jobs when it likes, may be      *)
(* cancelled from elsewhere, or break down; requests and replies get lost. *)
(***************************************************************************)
EXTENDS Naturals

CONSTANTS
    Calls,     \* calls of _call_api, by jobs and preloads
    Free,
    Names,
    Files,     \* the names of each call's files
    Modes,     \* languages and server tiers
    Wants,     \* and what each call needs
    Default,   \* the class attributes' first values
    MaxMishaps \* bound of lost requests, breakdowns and the like

ASSUME JobAssumption ==
    /\ Free \notin Calls /\ Files \in [Calls -> SUBSET Names \ {{}}]
    /\ Wants \in [Calls -> Modes] /\ Default \in Modes /\ MaxMishaps \in Nat

VARIABLES
    remote,    \* current_connection().mode: a self-hosted server, never restarted
    lock,      \* MinerUService._lock
    mode,      \* _language and _server_tier
    local,     \* the local process, "known" if it answers at _api_url
    server,    \* what is on the server
    state,     \* each call: idle, in, returned, raised
    run,       \* the locals of the call that has the lock
    late,      \* its deadline is over
    cancelled, \* the calls whose caller has cancelled
    orphaned,  \* history: calls whose job was created and the reply lost
    excused,   \* history: calls that could not know of, or not remove, something
    mishaps

serviceVars == <<remote, lock, mode, local, state>>
historyVars == <<orphaned, excused>>
jobVars == <<serviceVars, server, run, late, cancelled, historyVars, mishaps>>

Terminal == {"completed", "partial", "failed", "canceled"}
Ongoing == {"queued", "running"}

Ids == Calls \X Names
Input(n) == <<lock, "input", n>>
Output(n) == <<lock, "output", n>>
FilesOf(c, kind) == {<<c, kind, n>> : n \in Files[c]}

Empty == [uploads |-> {}, files |-> {}, jobs |-> [c \in Calls |-> "none"]]
Dead == [at |-> "none", serves |-> Default]
Idle == [pc |-> "idle", todo |-> {}, pending |-> {}, owned |-> {}, job |-> "none",
         clean |-> FALSE, outcome |-> "raised"]

Reachable == remote \/ local.at = "known"

Mishap == mishaps < MaxMishaps /\ mishaps' = mishaps + 1
Excuse(yes) == excused' = IF yes THEN excused \cup {lock} ELSE excused

-----------------------------------------------------------------------------
(* MinerUService                                                             *)

\* _call_api: a call in another mode stops the server first.
Enter(c) ==
    /\ lock = Free /\ state[c] = "idle"
    /\ lock' = c
    /\ state' = [state EXCEPT ![c] = "in"]
    /\ IF remote
       THEN /\ run' = [Idle EXCEPT !.pc = "upload", !.todo = Files[c]]
            /\ UNCHANGED <<mode, local, server>>
       ELSE /\ run' = [Idle EXCEPT !.pc = "ensure"]
            /\ mode' = Wants[c]
            /\ IF mode = Wants[c] THEN UNCHANGED <<local, server>>
               ELSE local' = Dead /\ server' = Empty
    /\ late' = FALSE
    /\ UNCHANGED <<remote, cancelled, historyVars, mishaps>>

Ensured == run' = [run EXCEPT !.pc = "upload", !.todo = Files[lock]]

\* _ensure_api_running: the process answers its health check.
FindRunning ==
    /\ run.pc = "ensure" /\ local.at = "known"
    /\ Ensured
    /\ UNCHANGED <<serviceVars, server, late, cancelled, historyVars, mishaps>>

\* It does not, or not within 3 s: it is killed and another one started, which may
\* end or not answer in time, and is then left as it is.
StartApi ==
    /\ run.pc = "ensure"
    /\ IF local.at = "known" THEN Mishap ELSE UNCHANGED mishaps
    /\ server' = Empty
    /\ local' = [at |-> "known", serves |-> mode]
    /\ Ensured
    /\ UNCHANGED <<remote, lock, mode, state, late, cancelled, historyVars>>

FailStart ==
    /\ run.pc = "ensure" /\ local.at # "known"
    /\ Mishap
    /\ server' = Empty
    /\ local' = [at |-> "unknown", serves |-> mode]
    /\ run' = [run EXCEPT !.pc = "leave"]
    /\ UNCHANGED <<remote, lock, mode, state, late, cancelled, historyVars>>

-----------------------------------------------------------------------------
(* MineruApiClient.parse: its requests.  An answered one has its effect, an  *)
(* unanswered one may have it; either way the call goes on with its cleanup  *)
(* when it raises.                                                           *)

Raised(r) == [r EXCEPT !.pc = "stop", !.outcome = "raised"]

Overdue_Never == FALSE
Overdue == late

Cancelling == lock \in cancelled

\* check_cancelled, and the deadline before a request.
GiveUp(r) ==
    /\ run' = Raised(r)
    /\ UNCHANGED <<serviceVars, server, late, cancelled, historyVars, mishaps>>

Answered(effect, r) ==
    /\ ~Overdue /\ Reachable
    /\ server' = effect
    /\ run' = r
    /\ UNCHANGED <<serviceVars, late, cancelled, historyVars, mishaps>>

\* A server that cannot be reached needs no further mishap.
Unanswered(effect, r) ==
    /\ ~Overdue
    /\ IF Reachable
       THEN Mishap /\ server' \in {server, effect}
       ELSE UNCHANGED <<mishaps, server>>
    /\ run' = Raised(r)
    /\ Excuse(server' # server)
    /\ orphaned' = IF server'.jobs # server.jobs THEN orphaned \cup {lock} ELSE orphaned
    /\ UNCHANGED <<serviceVars, late, cancelled>>

Request(effect, r) ==
    \/ Answered(effect, r)
    \/ Unanswered(effect, run)
    \/ Overdue /\ GiveUp(run)

Upload(n) ==
    /\ run.pc = "upload" /\ n \in run.todo
    /\ IF Cancelling THEN GiveUp(run)
       ELSE Request([server EXCEPT !.uploads = @ \cup {<<lock, n>>}],
                    [run EXCEPT !.pc = "content", !.pending = {n}])

Content(n) ==
    /\ run.pc = "content" /\ n \in run.pending
    /\ Request(server, [run EXCEPT !.pc = "complete"])

\* A file that is no PDF is refused after its upload if the call has a page range.
Complete(n) ==
    LET done == [run EXCEPT !.pc = IF run.todo = {n} THEN "create" ELSE "upload",
                            !.todo = @ \ {n}, !.pending = {},
                            !.owned = @ \cup {Input(n)}]
    IN
    /\ run.pc = "complete" /\ n \in run.pending
    /\ \E next \in {done, Raised(done)} :
         Request([server EXCEPT !.uploads = @ \ {<<lock, n>>},
                                !.files = @ \cup {Input(n)}], next)

Create ==
    /\ run.pc = "create"
    /\ IF Cancelling THEN GiveUp(run)
       ELSE Request([server EXCEPT !.jobs[lock] = "queued"],
                    [run EXCEPT !.pc = "poll", !.job = "open"])

\* A terminal job has its results read, unless it was cancelled upstream, or is not
\* of the tier that was asked for.
Poll ==
    LET ended == [run EXCEPT !.pc = "results", !.job = "terminal", !.todo = Files[lock]] IN
    /\ run.pc = "poll"
    /\ IF Cancelling THEN GiveUp(run)
       ELSE IF server.jobs[lock] \in Ongoing THEN Request(server, run)
       ELSE IF server.jobs[lock] = "canceled" THEN Request(server, Raised(ended))
       ELSE Request(server, ended) \/ Request(server, Raised(ended))

\* The outputs of a file are noted, then downloaded, each after a look for a cancel.
Result(n) ==
    LET noted == [run EXCEPT !.owned = @ \cup ({Output(n)} \cap server.files)]
        done == [noted EXCEPT !.todo = @ \ {n}]
    IN
    /\ run.pc = "results" /\ n \in run.todo
    /\ IF Output(n) \notin server.files
       THEN run' = done /\ UNCHANGED <<serviceVars, server, late, cancelled,
                                       historyVars, mishaps>>
       ELSE \/ Cancelling /\ GiveUp(noted)
            \/ ~Cancelling /\ Answered(server, done)
            \/ ~Cancelling /\ Unanswered(server, noted)
            \/ ~Cancelling /\ Overdue /\ GiveUp(noted)

Return ==
    /\ run.pc = "results" /\ run.todo = {}
    /\ run' = [run EXCEPT !.pc = "stop", !.outcome = "returned"]
    /\ UNCHANGED <<serviceVars, server, late, cancelled, historyVars, mishaps>>

-----------------------------------------------------------------------------
(* The finally clause: it asks once for everything, without a deadline.      *)

Confirmed_Assumed(status) == TRUE
Confirmed(status) == status \in Terminal

NothingRuns == run.job \in {"none", "terminal"}

CleanupFiles_Terminal == run.job = "terminal"
CleanupFiles == NothingRuns

NoJobToStop ==
    /\ run.pc = "stop" /\ NothingRuns
    /\ run' = [run EXCEPT !.pc = "cleanup", !.clean = CleanupFiles]
    /\ UNCHANGED <<serviceVars, server, late, cancelled, historyVars, mishaps>>

\* What a cancelled job may become: a running one may go on for a while.
Cancelled(status) ==
    CASE status = "queued" -> {"canceled"}
      [] status = "running" -> {"canceled", "running"}
      [] OTHER -> {status}

StopJob ==
    /\ run.pc = "stop" /\ ~NothingRuns /\ Reachable
    /\ \E status \in Cancelled(server.jobs[lock]) :
         /\ server' = [server EXCEPT !.jobs[lock] = status]
         /\ run' = [run EXCEPT !.pc = "cleanup", !.clean = Confirmed(status)]
         /\ Excuse(status \notin Terminal)
    /\ UNCHANGED <<serviceVars, late, cancelled, orphaned, mishaps>>

Fails ==
    /\ IF Reachable THEN Mishap ELSE UNCHANGED mishaps
    /\ Excuse(TRUE)
    /\ UNCHANGED <<serviceVars, late, cancelled, orphaned>>

StopJobFails ==
    /\ run.pc = "stop" /\ ~NothingRuns
    /\ Fails
    /\ run' = [run EXCEPT !.pc = "cleanup"]
    /\ \E status \in Cancelled(server.jobs[lock]) \cup {server.jobs[lock]} :
         server' = [server EXCEPT !.jobs[lock] = status]

CancelUpload(n) ==
    /\ run.pc = "cleanup" /\ n \in run.pending
    /\ run' = [run EXCEPT !.pending = @ \ {n}]
    /\ \/ /\ Reachable
          /\ server' = [server EXCEPT !.uploads = @ \ {<<lock, n>>}]
          /\ UNCHANGED <<serviceVars, late, cancelled, historyVars, mishaps>>
       \/ Fails /\ UNCHANGED server

DeleteFile(f) ==
    /\ run.pc = "cleanup" /\ run.pending = {} /\ run.clean /\ f \in run.owned
    /\ run' = [run EXCEPT !.owned = @ \ {f}]
    /\ \/ /\ Reachable
          /\ server' = [server EXCEPT !.files = @ \ {f}]
          /\ UNCHANGED <<serviceVars, late, cancelled, historyVars, mishaps>>
       \/ Fails /\ UNCHANGED server

Leave ==
    /\ \/ run.pc = "leave"
       \/ run.pc = "cleanup" /\ run.pending = {} /\ (run.clean => run.owned = {})
    /\ state' = [state EXCEPT ![lock] = run.outcome]
    /\ lock' = Free
    /\ run' = Idle
    /\ UNCHANGED <<remote, mode, local, server, late, cancelled, historyVars, mishaps>>

-----------------------------------------------------------------------------
(* The environment                                                           *)

RequestCancel(c) ==
    /\ c \notin cancelled /\ state[c] \in {"idle", "in"}
    /\ cancelled' = cancelled \cup {c}
    /\ UNCHANGED <<serviceVars, server, run, late, historyVars, mishaps>>

Expire ==
    /\ run.pc \in {"upload", "content", "complete", "create", "poll", "results"} /\ ~late
    /\ late' = TRUE
    /\ UNCHANGED <<serviceVars, server, run, cancelled, historyVars, mishaps>>

\* The server takes up a job, finishes it with the outputs of the files it could
\* parse, or has it cancelled.
Work(c) ==
    /\ \/ /\ server.jobs[c] = "queued"
          /\ server' = [server EXCEPT !.jobs[c] = "running"]
       \/ /\ server.jobs[c] = "running"
          /\ \E parsed \in SUBSET {n \in Files[c] : <<c, "input", n>> \in server.files} :
               server' = [server EXCEPT
                 !.files = @ \cup {<<c, "output", n>> : n \in parsed},
                 !.jobs[c] = IF parsed = Files[c] THEN "completed"
                             ELSE IF parsed = {} THEN "failed" ELSE "partial"]
       \/ /\ server.jobs[c] \in Ongoing
          /\ server' = [server EXCEPT !.jobs[c] = "canceled"]
    /\ UNCHANGED <<serviceVars, run, late, cancelled, historyVars, mishaps>>

\* The local server breaks down; nothing of what it held is reachable any more.
BreakDown ==
    /\ local.at = "known" /\ Mishap
    /\ local' = [local EXCEPT !.at = "unknown"]
    /\ server' = Empty
    /\ UNCHANGED <<remote, lock, mode, state, run, late, cancelled, historyVars>>

-----------------------------------------------------------------------------
\* The construction of the service has started a local server, unless it failed.
JobInit ==
    /\ remote \in BOOLEAN
    /\ local \in IF remote THEN {Dead} ELSE {Dead, [at |-> "known", serves |-> Default]}
    /\ lock = Free /\ mode = Default /\ server = Empty
    /\ state = [c \in Calls |-> "idle"]
    /\ run = Idle /\ late = FALSE
    /\ cancelled = {} /\ orphaned = {} /\ excused = {}
    /\ mishaps = 0

Parse ==
    \/ \E n \in Names : Upload(n) \/ Content(n) \/ Complete(n) \/ Result(n)
    \/ Create \/ Poll \/ Return

CleanUp ==
    \/ NoJobToStop \/ StopJob \/ StopJobFails
    \/ \E n \in Names : CancelUpload(n)
    \/ \E f \in run.owned : DeleteFile(f)
    \/ Leave

Holder == FindRunning \/ StartApi \/ FailStart \/ Parse \/ CleanUp

JobNext ==
    \/ Holder \/ Expire \/ BreakDown
    \/ \E c \in Calls : Enter(c) \/ RequestCancel(c) \/ Work(c)

\* The thread that has the lock runs, every request has a timeout, and time passes;
\* the server owes nothing.
JobSpec == JobInit /\ [][JobNext]_jobVars /\ WF_jobVars(Holder) /\ WF_jobVars(Expire)

-----------------------------------------------------------------------------
JobTypeOK ==
    /\ remote \in BOOLEAN /\ lock \in Calls \cup {Free} /\ mode \in Modes
    /\ local \in [at : {"none", "known", "unknown"}, serves : Modes]
    /\ server \in [uploads : SUBSET Ids, files : SUBSET (Calls \X {"input", "output"} \X Names),
                   jobs : [Calls -> {"none"} \cup Ongoing \cup Terminal]]
    /\ state \in [Calls -> {"idle", "in", "returned", "raised"}]
    /\ run.job \in {"none", "open", "terminal"} /\ run.pending \subseteq Names
    /\ late \in BOOLEAN /\ cancelled \subseteq Calls
    /\ orphaned \subseteq excused /\ excused \subseteq Calls

\* "Pending cancellation must retain inputs while the worker runs" (mineru_api.py): a
\* job that may still run has the files it works on and the language and tier it was
\* asked for, whatever became of the call that made it.  Only a job whose creation
\* was never confirmed can lose them.
RunningJobsAreWhole ==
    \A c \in Calls : server.jobs[c] \in Ongoing =>
      /\ c \in orphaned \/ FilesOf(c, "input") \subseteq server.files
      /\ remote \/ local.serves = Wants[c]

\* A call that is over has nothing on the server: no open upload, no input and no
\* running job, and no output if it returned.  Exempt are calls that lost the reply
\* to a creation, or whose cleanup was refused or not confirmed.
NothingIsLeftBehind ==
    \A c \in Calls : state[c] \in {"returned", "raised"} /\ c \notin excused =>
      /\ server.uploads \cap ({c} \X Names) = {}
      /\ server.files \cap FilesOf(c, "input") = {} /\ server.jobs[c] \notin Ongoing
      /\ state[c] = "returned" => server.files \cap FilesOf(c, "output") = {}

\* A call that has the service's lock gives it back, also if the server never finishes
\* its job and nobody cancels.
EveryParseEnds == \A c \in Calls : state[c] = "in" ~> state[c] \in {"returned", "raised"}

-----------------------------------------------------------------------------
(* What makes RunningJobsAreWhole inductive (the proof is in MineruProofs).  *)

Uploading == {"upload", "content", "complete", "create"}

RunType ==
    [pc : {"idle", "ensure", "poll", "results", "stop", "cleanup", "leave"} \cup Uploading,
     todo : SUBSET Names, pending : SUBSET Names,
     owned : SUBSET (Calls \X {"input", "output"} \X Names),
     job : {"none", "open", "terminal"}, clean : BOOLEAN, outcome : {"raised", "returned"}]

\* Only the call that has the lock has locals, and no job was made for one yet to come.
HolderAlone ==
    /\ run \in RunType
    /\ lock = Free <=> run.pc = "idle"
    /\ lock # Free => state[lock] = "in"
    /\ \A c \in Calls : state[c] = "idle" => server.jobs[c] = "none"

\* A local server that can be reached serves what the service is set to, and this is
\* what the call with the lock needs.
ModeServed ==
    /\ remote => local.at = "none" /\ run.pc # "ensure"
    /\ ~remote /\ local.at = "known" => local.serves = mode
    /\ ~remote /\ lock # Free => mode = Wants[lock]

\* The uploads of a call are on the server until its job can be created.
UploadsStand ==
    /\ run.pc \in Uploading /\ Reachable =>
         \A n \in Files[lock] \ run.todo : Input(n) \in server.files
    /\ run.pc = "create" => run.todo = {}

\* A call deletes its own files, and not while its job may run, unless it never knew.
CleanupIsSafe ==
    /\ \A f \in run.owned : f[1] = lock
    /\ run.pc \in Uploading \cup {"ensure"} => run.job = "none"
    /\ run.clean => run.pc = "cleanup"
    /\ lock # Free /\ server.jobs[lock] \in Ongoing /\ lock \notin orphaned =>
         run.job = "open" /\ ~run.clean

JobIInv == JobTypeOK /\ HolderAlone /\ ModeServed /\ UploadsStand /\ CleanupIsSafe
          /\ RunningJobsAreWhole

-----------------------------------------------------------------------------
(* What makes NothingIsLeftBehind inductive, together with JobIInv.          *)

\* Nothing on the server is of a call yet to come.
NewCallsHaveNothing ==
    \A c \in Calls : state[c] = "idle" =>
      \A n \in Names : /\ <<c, n>> \notin server.uploads
                       /\ \A kind \in {"input", "output"} : <<c, kind, n>> \notin server.files

\* One upload at a time; the results are those of an ended job.
RequestsInOrder ==
    /\ \A m, n \in run.pending : m = n
    /\ run.pending # {} => run.pc \in {"content", "complete", "stop", "cleanup"}
    /\ run.pc \in {"ensure", "leave"} => run.owned = {} /\ run.job = "none"
    /\ run.pc = "results" \/ run.outcome = "returned" => run.job = "terminal"
    /\ run.outcome = "returned" => run.pc \in {"stop", "cleanup"}

\* Without an excuse, a call knows what it has on the server and will remove it.
HolderKnows ==
    lock # Free /\ lock \notin excused =>
      /\ \A n \in Names : <<lock, n>> \in server.uploads => n \in run.pending
      /\ \A n \in Files[lock] :
           /\ Input(n) \in server.files => Input(n) \in run.owned
           /\ Output(n) \in server.files =>
                /\ run.pc = "results" => n \in run.todo \/ Output(n) \in run.owned
                /\ run.outcome = "returned" => Output(n) \in run.owned
      /\ run.pc = "cleanup" => run.clean

TidyInv == NewCallsHaveNothing /\ RequestsInOrder /\ HolderKnows /\ NothingIsLeftBehind

=============================================================================
