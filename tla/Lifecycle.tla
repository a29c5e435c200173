----------------------------- MODULE Lifecycle -----------------------------
(***************************************************************************)
(* The life of the process, run() of cmd/shortener/main.go: it opens what  *)
(* the configuration asks for, each opening deferring its closing, starts  *)
(* both servers, waits for a signal or a failing server, shuts the servers *)
(* down within five seconds shared by both, and on its way out closes in   *)
(* reverse order what it has opened.  A step of the start that fails       *)
(* returns at once and closes what was opened so far.                      *)
(*                                                                         *)
(* Handlers are the calls in progress.  Of the delete worker and the audit *)
(* only what run() waits for is kept here: DeleteWorker and Audit have the *)
(* rest.  The process may be killed at any time: by SIGKILL, or by one of  *)
(* the three signals before NotifyContext and again after its stop.        *)
(***************************************************************************)
EXTENDS Config, FiniteSets

CONSTANTS
    HttpCalls, GrpcCalls,  \* the calls clients make, over all starts
    Sources,               \* configurations the process may be started with
    LaterSources,          \* bound: those of them it is started with again
    MaxBoots               \* bound: how often it is started

Calls == HttpCalls \cup GrpcCalls

ASSUME LifeAssumption ==
    /\ HttpCalls \cap GrpcCalls = {}
    /\ MaxBoots \in Nat \ {0}

VARIABLES
    src,       \* what Parse reads; Nothing once it has
    cfg,       \* the configuration
    step,      \* where run() is
    deferred,  \* what run() closes when it returns
    res,       \* the audit observers, the database and the gRPC listener
    worker,    \* the delete worker
    tasks,     \* calls whose delete task is in deleteCh
    pending,   \* calls whose task the worker has taken and not carried out
    refused,   \* history: those of them the last flush has failed for
    server,    \* the two servers
    err,       \* the channels httpErr and grpcErr
    call,      \* how far a call has come
    expired,   \* shutdownCtx is over
    failed,    \* runErr # nil: the process will exit with status 1
    boots

conf  == <<src, cfg>>
owned == <<deferred, res>>
work  == <<worker, tasks, pending, refused>>
net   == <<server, err, call>>
end   == <<expired, failed>>
lifeVars == <<conf, step, owned, work, net, end, boots>>

\* In the order run() opens them.
Deferrable == <<"auditor", "db", "worker", "listener">>
Resources  == {"auditor", "db", "listener"}
Servers    == {"http", "grpc"}

StartSteps == {"parse", "audit", "storage", "worker", "tls", "listen", "serve"}
EndSteps   == {"stopping", "http", "grpc", "return"}
Over       == {"exited", "killed"}

Nothing == Source(Silent, Silent, Silent, Absent, Absent)

LifeTypeOK ==
    /\ step     \in StartSteps \cup {"wait"} \cup EndSteps \cup Over
    /\ deferred \subseteq {"auditor", "db", "worker", "listener"}
    /\ res      \in [Resources -> {"none", "open", "closed"}]
    /\ worker   \in {"off", "running", "cancelled", "flushing", "stopped"}
    /\ tasks    \subseteq Calls
    /\ pending  \subseteq Calls
    /\ refused  \subseteq Calls
    /\ server   \in [Servers -> {"off", "starting", "serving", "closing"}]
    /\ err      \in [Servers -> {"none", "error"}]
    /\ call     \in [Calls -> {"none", "running", "queued", "cut", "ended"}]
    /\ expired  \in BOOLEAN
    /\ failed   \in BOOLEAN
    /\ boots    \in 1..MaxBoots

LifeInit ==
    /\ src      \in Sources
    /\ cfg      = Defaults
    /\ step     = "parse"
    /\ deferred = {}
    /\ res      = [r \in Resources |-> "none"]
    /\ worker   = "off"
    /\ tasks    = {}
    /\ pending  = {}
    /\ refused  = {}
    /\ server   = [s \in Servers |-> "off"]
    /\ err      = [s \in Servers |-> "none"]
    /\ call     = [c \in Calls |-> "none"]
    /\ expired  = FALSE
    /\ failed   = FALSE
    /\ boots    = 1

-----------------------------------------------------------------------------
(* The start *)

go(from, to) == step = from /\ step' = to

\* run() comes to its next step and changes nothing on the way, or has noted
\* an error and nothing else.
goes(from, to) == go(from, to) /\ UNCHANGED <<conf, owned, work, net, end, boots>>
errs(from, to) == go(from, to) /\ failed' = TRUE /\ UNCHANGED <<conf, owned, work, net, expired, boots>>

ParseConfig ==
    /\ go("parse", "audit")
    /\ cfg' = Parse(src)
    /\ src' = Nothing
    /\ UNCHANGED <<owned, work, net, end, boots>>

opens(r) ==
    /\ res' = [res EXCEPT ![r] = "open"]
    /\ deferred' = deferred \cup {r}

\* run() returns an error; what was opened so far is closed.
fails(from) == errs(from, "return")

\* The notifier is made, and its Close deferred, even with no observer.
OpenAudit ==
    /\ go("audit", "storage")
    /\ opens("auditor")
    /\ UNCHANGED <<conf, work, net, end, boots>>

OpenAuditErrs == cfg.AuditFile # "" /\ fails("audit")

\* DATABASE_DSN first, then the files, else memory.  Only the database has
\* something to close.
OpenStorage ==
    /\ go("storage", "worker")
    /\ IF cfg.DatabaseDSN # "" THEN opens("db") ELSE UNCHANGED <<res, deferred>>
    /\ UNCHANGED <<conf, work, net, end, boots>>

\* NewPostgresStorage closes the database itself when the ping or a migration
\* fails; NewFileRepository refuses a file it cannot parse.
OpenStorageErrs ==
    /\ cfg.DatabaseDSN # "" \/ cfg.FileStoragePath # ""
    /\ fails("storage")

StartDeleteWorker ==
    /\ go("worker", "tls")
    /\ worker' = "running"
    /\ deferred' = deferred \cup {"worker"}
    /\ UNCHANGED <<conf, res, tasks, pending, refused, net, end, boots>>

MakeTLS == goes("tls", "listen")

MakeTLSErrs == cfg.EnableHTTPS = "true" /\ fails("tls")

Listen ==
    /\ go("listen", "serve")
    /\ opens("listener")
    /\ UNCHANGED <<conf, work, net, end, boots>>

\* Mutant: log.Fatal in place of the return.
ListenFatal == errs("listen", "exited")

\* The address is in use.
ListenErrs == fails("listen")

\* The two goroutines are started, and the signals are listened to.
Serve ==
    /\ go("serve", "wait")
    /\ server' = [s \in Servers |-> "starting"]
    /\ UNCHANGED <<conf, owned, work, err, call, end, boots>>

-----------------------------------------------------------------------------
(* The servers and their calls, while the process lives *)

alive == step \notin Over

ServerOf(c) == IF c \in HttpCalls THEN "http" ELSE "grpc"

Accepts(s) ==
    /\ alive /\ server[s] = "starting" /\ err[s] = "none"
    /\ server' = [server EXCEPT ![s] = "serving"]
    /\ UNCHANGED <<conf, step, owned, work, err, call, end, boots>>

\* The goroutine of a server reports an error: it could not listen, or Accept
\* failed, and then the connections it has are served on.  What a goroutine
\* reports after the select of run() nobody reads.
ServeErrs(s) ==
    /\ step = "wait" /\ server[s] \in {"starting", "serving"} /\ err[s] = "none"
    /\ err' = [err EXCEPT ![s] = "error"]
    /\ UNCHANGED <<conf, step, owned, work, server, call, end, boots>>

moves(c, to) == call' = [call EXCEPT ![c] = to]

BeginCall(c) ==
    /\ alive /\ call[c] = "none" /\ server[ServerOf(c)] = "serving"
    /\ moves(c, "running")
    /\ UNCHANGED <<conf, step, owned, work, server, err, end, boots>>

\* A handler of DELETE /api/user/urls has put its task into deleteCh, which
\* has room and no reader that must be there.
EnqueueDelete(c) ==
    /\ alive /\ c \in HttpCalls /\ call[c] = "running"
    /\ tasks' = tasks \cup {c}
    /\ moves(c, "queued")
    /\ UNCHANGED <<conf, step, owned, worker, pending, refused, server, err, end, boots>>

\* The handler has returned and its answer is sent.
EndCall(c) ==
    /\ alive /\ call[c] \in {"running", "queued", "cut"}
    /\ moves(c, "ended")
    /\ UNCHANGED <<conf, step, owned, work, server, err, end, boots>>

-----------------------------------------------------------------------------
(* The delete worker *)

TakeTask(c) ==
    /\ alive /\ worker \in {"running", "cancelled"} /\ c \in tasks
    /\ tasks' = tasks \ {c}
    /\ pending' = pending \cup {c}
    /\ UNCHANGED <<conf, step, owned, worker, refused, net, end, boots>>

\* MarkDeleted is called for each user; the ids of those it fails for stay.
flushes ==
    \E kept \in SUBSET pending :
        /\ pending' = kept
        /\ refused' = kept

Flush ==
    /\ alive /\ worker \in {"running", "cancelled"} /\ pending # {}
    /\ flushes
    /\ UNCHANGED <<conf, step, owned, worker, tasks, net, end, boots>>

\* The drain has found the channel empty; the last flush follows.
Drained ==
    /\ alive /\ worker = "cancelled" /\ tasks = {}
    /\ worker' = "flushing"
    /\ UNCHANGED <<conf, step, owned, tasks, pending, refused, net, end, boots>>

\* What is kept now goes with the worker: its error is logged, and run() does
\* not hear of it.
LastFlush ==
    /\ alive /\ worker = "flushing"
    /\ worker' = "stopped"
    /\ flushes
    /\ UNCHANGED <<conf, step, owned, tasks, net, end, boots>>

-----------------------------------------------------------------------------
(* The shutdown *)

Signal == goes("wait", "stopping")

\* select picks at random when a signal has come as well.
SeeServeErr(s) ==
    /\ go("wait", "stopping") /\ err[s] = "error"
    /\ err' = [err EXCEPT ![s] = "none"]
    /\ failed' = TRUE
    /\ UNCHANGED <<conf, owned, work, server, call, expired, boots>>

quiet(s) == \A c \in Calls : ServerOf(c) = s => call[c] \in {"none", "ended"}

closing(s) == server' = [server EXCEPT ![s] = "closing"]

\* httpSrv.Shutdown lets nobody in any more and waits for the calls in progress.
ShutdownHttp ==
    /\ go("stopping", "http")
    /\ closing("http")
    /\ UNCHANGED <<conf, owned, work, err, call, end, boots>>

HttpDown == quiet("http") /\ goes("http", "grpc")

\* The five seconds of shutdownCtx, made before the first of the two shutdowns.
Expire ==
    /\ step \in {"http", "grpc"} /\ ~expired
    /\ expired' = TRUE
    /\ UNCHANGED <<conf, step, owned, work, net, failed, boots>>

\* Mutant: the error is logged and forgotten.
HttpTimesOutLogged == expired /\ goes("http", "grpc")

\* Shutdown returns an error and leaves the calls in progress alone.
HttpTimesOut == expired /\ errs("http", "grpc")

\* The goroutine of grpcSrv.GracefulStop starts.
GracefulStop ==
    /\ step = "grpc" /\ server["grpc"] # "closing"
    /\ closing("grpc")
    /\ UNCHANGED <<conf, step, owned, work, err, call, end, boots>>

GrpcDown == server["grpc"] = "closing" /\ quiet("grpc") /\ goes("grpc", "return")

\* Mutant: the select waits for the graceful stop only.
GrpcTimesOutNever == FALSE /\ UNCHANGED lifeVars

\* grpcSrv.Stop cancels the calls in progress and does not wait for their
\* handlers; when the graceful stop is done as well, select picks at random.
GrpcTimesOut ==
    /\ go("grpc", "return") /\ expired
    /\ closing("grpc")
    /\ call' = [c \in Calls |-> IF c \in GrpcCalls /\ call[c] = "running" THEN "cut" ELSE call[c]]
    /\ failed' = TRUE
    /\ UNCHANGED <<conf, owned, work, err, expired, boots>>

-----------------------------------------------------------------------------
(* The way out: the deferred calls, last in first out *)

rank(r) == CHOOSE k \in 1..4 : Deferrable[k] = r

\* r is the one to be closed next.
closes(r) ==
    /\ step = "return" /\ r \in deferred
    /\ \A q \in deferred : rank(q) <= rank(r)

\* grpcListener, the database or the audit, whose Close waits for its queue.
Close(r) ==
    /\ closes(r)
    /\ res' = [res EXCEPT ![r] = "closed"]
    /\ deferred' = deferred \ {r}
    /\ UNCHANGED <<conf, step, work, net, end, boots>>

CancelWorker ==
    /\ closes("worker") /\ worker = "running"
    /\ worker' = "cancelled"
    /\ UNCHANGED <<conf, step, owned, tasks, pending, refused, net, end, boots>>

\* Mutant: waitDeleteWorker is not called.
WaitDeleteWorkerNot ==
    /\ closes("worker") /\ worker # "running"
    /\ deferred' = deferred \ {"worker"}
    /\ UNCHANGED <<conf, step, res, work, net, end, boots>>

WaitDeleteWorker ==
    /\ closes("worker") /\ worker = "stopped"
    /\ deferred' = deferred \ {"worker"}
    /\ UNCHANGED <<conf, step, res, work, net, end, boots>>

Exit == deferred = {} /\ goes("return", "exited")

\* The process is gone and its memory with it.
memoryGone ==
    /\ cfg'      = Defaults
    /\ deferred' = {}
    /\ res'      = [r \in Resources |-> "none"]
    /\ worker'   = "off"
    /\ tasks'    = {}
    /\ pending'  = {}
    /\ refused'  = {}
    /\ server'   = [s \in Servers |-> "off"]
    /\ err'      = [s \in Servers |-> "none"]
    /\ call'     = [c \in Calls |-> IF call[c] = "none" THEN "none" ELSE "ended"]
    /\ expired'  = FALSE
    /\ failed'   = FALSE

Kill ==
    /\ alive
    /\ step' = "killed"
    /\ src' = Nothing
    /\ memoryGone
    /\ UNCHANGED boots

\* The operator starts the process again.
Restart(source) ==
    /\ ~alive /\ boots < MaxBoots
    /\ step' = "parse"
    /\ src' = source
    /\ memoryGone
    /\ boots' = boots + 1

-----------------------------------------------------------------------------
Start ==
    \/ ParseConfig
    \/ OpenAudit \/ OpenAuditErrs
    \/ OpenStorage \/ OpenStorageErrs
    \/ StartDeleteWorker
    \/ MakeTLS \/ MakeTLSErrs
    \/ Listen \/ ListenErrs
    \/ Serve

Shutdown ==
    \/ ShutdownHttp \/ HttpDown \/ HttpTimesOut
    \/ GracefulStop \/ GrpcDown \/ GrpcTimesOut
    \/ (\E r \in Resources : Close(r)) \/ CancelWorker \/ WaitDeleteWorker \/ Exit

Worker == (\E c \in HttpCalls : TakeTask(c)) \/ Flush \/ Drained \/ LastFlush

Wake == Signal \/ \E s \in Servers : SeeServeErr(s)

Handlers == \E c \in Calls : BeginCall(c) \/ EnqueueDelete(c) \/ EndCall(c)

LifeNext ==
    \/ Start \/ Wake \/ Shutdown \/ Expire \/ Worker
    \/ \E s \in Servers : Accepts(s) \/ ServeErrs(s)
    \/ Handlers
    \/ Kill
    \/ \E source \in LaterSources : Restart(source)

LifeSpec == LifeInit /\ [][LifeNext]_lifeVars

-----------------------------------------------------------------------------
(* Properties *)

\* The configuration run() works with follows the documented order of the
\* sources, setting by setting, whatever each of them says.
ByPriority ==
    [][step = "parse" /\ step' = "audit" =>
         \A s \in Settings : cfg'[s] = Effective(src, s)]_lifeVars

\* However run() returns, after a failed step of the start or after a shutdown,
\* nothing it has opened is left open, and the worker is no longer running.
ReleasedAtExit ==
    step = "exited" =>
        /\ \A r \in Resources : res[r] # "open"
        /\ worker \in {"off", "stopped"}

\* The database is never closed under the delete worker, nor under a handler,
\* unless the five seconds of the shutdown were over.
StoreOpenWhileUsed ==
    res["db"] = "closed" /\ alive =>
        /\ worker \in {"off", "stopped"}
        /\ ~expired => \A c \in Calls : call[c] \in {"none", "ended"}

\* A run that reports success has cut off no call it let in and has left no
\* deletion answered 202 in the channel: each was carried out, or the store has
\* refused it (what run() makes of that is nothing: the exit status does not
\* show it).
CleanExit ==
    step = "exited" /\ ~failed =>
        /\ tasks = {} /\ pending \subseteq refused
        /\ \A c \in Calls : call[c] \in {"none", "ended"}

\* Once run() has begun to stop, it ends, however long handlers take.
ShutsDown == step \in EndSteps ~> step \in Over
=============================================================================
