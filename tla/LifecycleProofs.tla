-------------------------- MODULE LifecycleProofs --------------------------
(***************************************************************************)
(* Proofs about Config and Lifecycle, for all configurations, all calls    *)
(* and any number of starts: the settings follow the documented order of   *)
(* the sources, and however run() comes to its end, it closes what it has  *)
(* opened, the database and the audit after their users, and reports       *)
(* success only if nothing was cut off.                                    *)
(***************************************************************************)
EXTENDS Lifecycle, TLAPS

(***************************************************************************)
(* The configuration.                                                      *)
(***************************************************************************)

\* For every setting and whatever the sources say, Parse arrives at the value
\* of the first source in the documented order that says something.
LEMMA ParseIsEffective ==
    ASSUME NEW source, NEW s \in Settings
    PROVE  Parse(source)[s] = Effective(source, s)
<1> DEFINE says(k) == Says(source, Priority[k], s)
           First(k) == /\ says(k)
                       /\ \A j \in 1..4 : says(j) => k <= j
<1>1. /\ Priority[1] = "env" /\ Priority[2] = "flag" /\ Priority[3] = "file"
      /\ Priority[4] = "default"
  BY DEF Priority
<1>2. /\ says(1) <=> source.env[s] \notin {Absent, "junk"}
      /\ says(2) <=> source.flags[s] # Absent
      /\ says(3) <=> source.file[s] \notin {Absent, ""} /\ configPath(source) = "readable"
      /\ says(4)
  BY <1>1 DEF Says, configPath, Absent
<1>3. Parse(source)[s] =
        IF says(1) THEN source.env[s]
        ELSE IF says(2) THEN source.flags[s]
        ELSE IF says(3) THEN source.file[s]
        ELSE Defaults[s]
  BY <1>2 DEF Parse, applyEnv, applyFlags, applyFileConfig, Defaults
<1>4. ASSUME NEW k \in 1..4, First(k)
      PROVE  Effective(source, s) = ValueOf(source, Priority[k], s)
  <2>1. \A j \in 1..4 : First(j) => j = k
    BY <1>4
  <2>2. (CHOOSE j \in 1..4 : First(j)) = k
    BY <1>4, <2>1
  <2> QED BY <2>2 DEF Effective
<1>5. /\ ValueOf(source, Priority[1], s) = source.env[s]
      /\ ValueOf(source, Priority[2], s) = source.flags[s]
      /\ ValueOf(source, Priority[3], s) = source.file[s]
      /\ ValueOf(source, Priority[4], s) = Defaults[s]
  BY <1>1 DEF ValueOf
<1>6. says(4)
  BY <1>2
<1> HIDE DEF says
<1>7. /\ says(1) => First(1)
      /\ ~says(1) /\ says(2) => First(2)
      /\ ~says(1) /\ ~says(2) /\ says(3) => First(3)
      /\ ~says(1) /\ ~says(2) /\ ~says(3) => First(4)
  <2>1. \A j \in 1..4 : j = 1 \/ j = 2 \/ j = 3 \/ j = 4
    OBVIOUS
  <2>2. says(1) => First(1)
    OBVIOUS
  <2>3. ~says(1) /\ says(2) => First(2)
    BY <2>1
  <2>4. ~says(1) /\ ~says(2) /\ says(3) => First(3)
    BY <2>1
  <2>5. ~says(1) /\ ~says(2) /\ ~says(3) => First(4)
    BY <1>6, <2>1
  <2> QED BY <2>2, <2>3, <2>4, <2>5
<1> HIDE DEF First
<1>8. CASE says(1)
  BY <1>3, <1>4, <1>5, <1>7, <1>8
<1>9. CASE ~says(1) /\ says(2)
  BY <1>3, <1>4, <1>5, <1>7, <1>9
<1>10. CASE ~says(1) /\ ~says(2) /\ says(3)
  BY <1>3, <1>4, <1>5, <1>7, <1>10
<1>11. CASE ~says(1) /\ ~says(2) /\ ~says(3)
  BY <1>3, <1>4, <1>5, <1>7, <1>11
<1> QED BY <1>8, <1>9, <1>10, <1>11

\* The configuration run() works with is the documented one.
THEOREM ParsesByPriority == LifeSpec => ByPriority
<1>1. ASSUME LifeNext, step = "parse", step' = "audit"
      PROVE  cfg' = Parse(src)
  BY <1>1 DEF LifeNext, Start, ParseConfig, OpenAudit, OpenAuditErrs, OpenStorage, OpenStorageErrs,
    StartDeleteWorker, MakeTLS, MakeTLSErrs, Listen, ListenErrs, Serve, Wake, Signal, SeeServeErr,
    Shutdown, ShutdownHttp, HttpDown, HttpTimesOut, GracefulStop, GrpcDown, GrpcTimesOut, Close,
    CancelWorker, WaitDeleteWorker, Exit, Expire, Worker, TakeTask, Flush, Drained, LastFlush,
    Accepts, ServeErrs, Handlers, BeginCall, EnqueueDelete, EndCall, Kill, Restart, go, goes, errs,
    fails
<1>2. [LifeNext]_lifeVars => [step = "parse" /\ step' = "audit" =>
                                 \A s \in Settings : cfg'[s] = Effective(src, s)]_lifeVars
  BY <1>1, ParseIsEffective
<1> QED BY <1>2, PTL DEF LifeSpec, ByPriority

-----------------------------------------------------------------------------
(***************************************************************************)
(* The inductive invariant.  What is open is deferred, and so is the wait  *)
(* for a worker that runs.  The order of the deferred calls is what puts   *)
(* the end of the worker before that of the database.  The first shutdown  *)
(* leaves no HTTP call behind, and the second no gRPC call, unless the     *)
(* five seconds were over and the failure is noted.                        *)
(***************************************************************************)
OwnedOK ==
    /\ \A r \in Resources : res[r] = "open" => r \in deferred
    /\ worker \notin {"off", "stopped"} => "worker" \in deferred
    /\ \A r \in Resources : res[r] = "closed" => step \in {"return"} \cup Over
    /\ res["db"] = "closed" => "worker" \notin deferred
    /\ step \in Over => deferred = {}

WorkerOK ==
    /\ step \in {"tls", "listen", "serve", "wait", "stopping", "http", "grpc"} => worker = "running"
    /\ worker \in {"cancelled", "flushing", "stopped"} => step \in {"return", "exited"}
    /\ worker = "stopped" => pending \subseteq refused
    /\ worker \in {"flushing", "stopped"} /\ ~failed => tasks = {}

\* Server s lets nobody in, and nobody is in.
idle(s) == server[s] \in {"off", "closing"} /\ quiet(s)

\* Before the servers are started, and in a run that never had a worker.
StartOK ==
    step \in StartSteps \/ worker = "off" =>
        /\ \A s \in Servers : server[s] = "off" /\ quiet(s)
        /\ tasks = {} /\ pending = {}

InTime == ~expired \/ ~failed

IdleOK ==
    /\ step = "http" => server["http"] = "closing"
    /\ step \in {"grpc", "return", "exited"} /\ InTime => idle("http")
    /\ step \in {"return", "exited"} /\ InTime => idle("grpc")

LifeInv == LifeTypeOK /\ OwnedOK /\ WorkerOK /\ StartOK /\ IdleOK

USE DEF Resources, Servers, StartSteps, EndSteps, Over

LEMMA Ranks ==
    rank("auditor") = 1 /\ rank("db") = 2 /\ rank("worker") = 3 /\ rank("listener") = 4
<1>1. /\ Deferrable[1] = "auditor" /\ Deferrable[2] = "db" /\ Deferrable[3] = "worker"
      /\ Deferrable[4] = "listener"
  BY DEF Deferrable
<1>2. \A k \in 1..4 : k = 1 \/ k = 2 \/ k = 3 \/ k = 4
  OBVIOUS
<1>3. rank("auditor") = 1
  BY <1>1, <1>2 DEF rank
<1>4. rank("db") = 2
  BY <1>1, <1>2 DEF rank
<1>5. rank("worker") = 3
  BY <1>1, <1>2 DEF rank
<1>6. rank("listener") = 4
  BY <1>1, <1>2 DEF rank
<1> QED BY <1>3, <1>4, <1>5, <1>6

LEMMA LifeInitially == LifeInit => LifeInv
<1> SUFFICES ASSUME LifeInit PROVE LifeInv
  OBVIOUS
<1> USE DEF LifeInit
<1>1. LifeTypeOK
  <2>1. boots \in 1..MaxBoots
    BY LifeAssumption
  <2>2. /\ server \in [Servers -> {"off", "starting", "serving", "closing"}]
        /\ err \in [Servers -> {"none", "error"}]
        /\ call \in [Calls -> {"none", "running", "queued", "cut", "ended"}]
    OBVIOUS
  <2> QED BY <2>1, <2>2 DEF LifeTypeOK
<1>2. OwnedOK /\ WorkerOK
  BY DEF OwnedOK, WorkerOK
<1>3. \A s \in Servers : server[s] = "off" /\ quiet(s)
  BY DEF quiet
<1> QED BY <1>1, <1>2, <1>3 DEF LifeInv, StartOK, IdleOK

\* A step of the start fails before the servers have let anybody in.
LEMMA StartKeeps == LifeInv /\ Start => LifeInv'
<1> SUFFICES ASSUME LifeInv, Start PROVE LifeInv'
  OBVIOUS
<1> USE DEF LifeInv, LifeTypeOK, OwnedOK, WorkerOK, StartOK, IdleOK, InTime, idle, quiet, go, goes, errs,
            fails, conf, owned, work, net, end
<1>1. CASE ParseConfig
  BY <1>1 DEF ParseConfig
<1>2. CASE OpenAudit
  BY <1>2 DEF OpenAudit, opens
<1>3. CASE OpenAuditErrs
  BY <1>3 DEF OpenAuditErrs
<1>4. CASE OpenStorage
  <2>1. go("storage", "worker") /\ UNCHANGED <<work, net, end, boots>>
    BY <1>4 DEF OpenStorage
  <2>2. opens("db") \/ UNCHANGED <<res, deferred>>
    BY <1>4 DEF OpenStorage
  <2>3. CASE opens("db")
    BY <2>1, <2>3 DEF opens
  <2>4. CASE UNCHANGED <<res, deferred>>
    BY <2>1, <2>4
  <2> QED BY <2>2, <2>3, <2>4
<1>5. CASE OpenStorageErrs
  BY <1>5 DEF OpenStorageErrs
<1>6. CASE StartDeleteWorker
  BY <1>6 DEF StartDeleteWorker
<1>7. CASE MakeTLS
  BY <1>7 DEF MakeTLS
<1>8. CASE MakeTLSErrs
  BY <1>8 DEF MakeTLSErrs
<1>9. CASE Listen
  BY <1>9 DEF Listen, opens
<1>10. CASE ListenErrs
  BY <1>10 DEF ListenErrs
<1>11. CASE Serve
  BY <1>11 DEF Serve
<1> QED
  BY <1>1, <1>2, <1>3, <1>4, <1>5, <1>6, <1>7, <1>8, <1>9, <1>10, <1>11 DEF Start

\* Calls begin at servers that serve, hence not at idle ones.
LEMMA CallsKeep ==
    /\ LifeInv /\ (\E s \in Servers : Accepts(s) \/ ServeErrs(s)) => LifeInv'
    /\ LifeInv /\ Handlers => LifeInv'
<1> USE DEF LifeInv, LifeTypeOK, OwnedOK, WorkerOK, StartOK, IdleOK, InTime, idle, quiet, alive, moves,
            conf, owned, work, net, end
<1>1. ASSUME LifeInv, NEW s \in Servers, Accepts(s) PROVE LifeInv'
  BY <1>1 DEF Accepts
<1>2. ASSUME LifeInv, NEW s \in Servers, ServeErrs(s) PROVE LifeInv'
  BY <1>2 DEF ServeErrs
<1>3. ASSUME LifeInv, NEW c \in Calls, BeginCall(c) PROVE LifeInv'
  BY <1>3 DEF BeginCall, ServerOf
<1>4. ASSUME LifeInv, NEW c \in Calls, EnqueueDelete(c) PROVE LifeInv'
  BY <1>4 DEF EnqueueDelete, ServerOf
<1>5. ASSUME LifeInv, NEW c \in Calls, EndCall(c) PROVE LifeInv'
  BY <1>5 DEF EndCall
<1> QED BY <1>1, <1>2, <1>3, <1>4, <1>5 DEF Handlers

LEMMA WorkerKeeps == LifeInv /\ Worker => LifeInv'
<1> SUFFICES ASSUME LifeInv, Worker PROVE LifeInv'
  OBVIOUS
<1> USE DEF LifeInv, LifeTypeOK, OwnedOK, WorkerOK, StartOK, IdleOK, InTime, idle, quiet, alive,
            conf, owned, work, net, end
<1>1. ASSUME NEW c \in HttpCalls, TakeTask(c) PROVE LifeInv'
  BY <1>1 DEF TakeTask, Calls
<1>2. CASE Flush
  BY <1>2 DEF Flush, flushes
<1>3. CASE Drained
  BY <1>3 DEF Drained
<1>4. CASE LastFlush
  BY <1>4 DEF LastFlush, flushes
<1> QED BY <1>1, <1>2, <1>3, <1>4 DEF Worker

\* The two shutdowns: each leaves its server idle, or the time is over and the
\* failure noted.
LEMMA StopKeeps == LifeInv /\ (Wake \/ Shutdown \/ Expire) => LifeInv'
<1> SUFFICES ASSUME LifeInv, Wake \/ Shutdown \/ Expire PROVE LifeInv'
  OBVIOUS
<1> USE DEF LifeInv, LifeTypeOK, OwnedOK, WorkerOK, StartOK, IdleOK, InTime, idle, quiet, go, goes, errs,
            conf, owned, work, net, end
<1>1. CASE Signal
  BY <1>1 DEF Signal
<1>2. ASSUME NEW s \in Servers, SeeServeErr(s) PROVE LifeInv'
  BY <1>2 DEF SeeServeErr
<1>3. CASE ShutdownHttp
  BY <1>3 DEF ShutdownHttp, closing
<1>4. CASE HttpDown
  BY <1>4 DEF HttpDown
<1>5. CASE HttpTimesOut
  BY <1>5 DEF HttpTimesOut
<1>6. CASE GracefulStop
  BY <1>6 DEF GracefulStop, closing
<1>7. CASE GrpcDown
  BY <1>7 DEF GrpcDown
<1>8. CASE GrpcTimesOut
  BY <1>8 DEF GrpcTimesOut, closing
<1>9. CASE Expire
  BY <1>9 DEF Expire
<1>10. ASSUME NEW r \in Resources, Close(r) PROVE LifeInv'
  BY <1>10, Ranks DEF Close, closes
<1>11. CASE CancelWorker
  BY <1>11 DEF CancelWorker, closes
<1>12. CASE WaitDeleteWorker
  BY <1>12 DEF WaitDeleteWorker, closes
<1>13. CASE Exit
  BY <1>13 DEF Exit
<1> QED
  BY <1>1, <1>2, <1>3, <1>4, <1>5, <1>6, <1>7, <1>8, <1>9, <1>10, <1>11, <1>12, <1>13
  DEF Wake, Shutdown

LEMMA RestartKeeps == LifeInv /\ (Kill \/ \E source \in LaterSources : Restart(source)) => LifeInv'
<1> SUFFICES ASSUME LifeInv, Kill \/ \E source \in LaterSources : Restart(source) PROVE LifeInv'
  OBVIOUS
<1> USE DEF LifeInv, LifeTypeOK, OwnedOK, WorkerOK, StartOK, IdleOK, InTime, idle, quiet, memoryGone
<1>1. CASE Kill
  BY <1>1 DEF Kill
<1>2. ASSUME NEW source \in LaterSources, Restart(source) PROVE LifeInv'
  <2>1. memoryGone /\ step' = "parse"
    BY <1>2 DEF Restart
  <2>2. boots' \in 1..MaxBoots
    BY <1>2, LifeAssumption DEF Restart
  <2>3. LifeTypeOK'
    BY <2>1, <2>2
  <2>4. (OwnedOK /\ WorkerOK /\ StartOK /\ IdleOK)'
    BY <2>1, <2>3
  <2> QED BY <2>3, <2>4
<1> QED BY <1>1, <1>2

LEMMA LifeInductive == LifeInv /\ [LifeNext]_lifeVars => LifeInv'
<1>1. ASSUME LifeInv, UNCHANGED lifeVars PROVE LifeInv'
  BY <1>1 DEF LifeInv, LifeTypeOK, OwnedOK, WorkerOK, StartOK, IdleOK, InTime, idle, quiet,
              lifeVars, conf, owned, work, net, end
<1> QED BY <1>1, StartKeeps, CallsKeep, WorkerKeeps, StopKeeps, RestartKeeps DEF LifeNext

-----------------------------------------------------------------------------
\* The invariant holds in every reachable state of every life of the process.
THEOREM LifeInvariant == LifeSpec => []LifeInv
BY LifeInitially, LifeInductive, PTL DEF LifeSpec

\* Type correctness.
THEOREM LifeTypesAlwaysOK == LifeSpec => []LifeTypeOK
<1>1. LifeInv => LifeTypeOK
  BY DEF LifeInv
<1> QED BY <1>1, LifeInvariant, PTL

\* However run() returns, nothing it has opened is left open.
THEOREM AlwaysReleasedAtExit == LifeSpec => []ReleasedAtExit
<1>1. LifeInv => ReleasedAtExit
  BY DEF LifeInv, LifeTypeOK, OwnedOK, ReleasedAtExit
<1> QED BY <1>1, LifeInvariant, PTL

\* The database outlives the delete worker, and the handlers unless the five
\* seconds were over.
THEOREM StoreAlwaysOpenWhileUsed == LifeSpec => []StoreOpenWhileUsed
<1>1. LifeInv => StoreOpenWhileUsed
  BY DEF LifeInv, OwnedOK, IdleOK, InTime, idle, quiet, ServerOf, StoreOpenWhileUsed, alive
<1> QED BY <1>1, LifeInvariant, PTL

\* The audit is closed only when every call that could report to it has come to
\* its end, unless the five seconds were over: an Enqueue that finds the channel
\* closed takes a shutdown that timed out.
THEOREM AuditOutlivesCalls ==
    LifeSpec => [](res["auditor"] = "closed" /\ alive /\ ~expired =>
                       \A c \in Calls : call[c] \in {"none", "ended"})
<1>1. LifeInv => (res["auditor"] = "closed" /\ alive /\ ~expired =>
                      \A c \in Calls : call[c] \in {"none", "ended"})
  BY DEF LifeInv, OwnedOK, IdleOK, InTime, idle, quiet, ServerOf, alive
<1> QED BY <1>1, LifeInvariant, PTL

\* Status 0 means that no call was cut off and no accepted deletion was left in
\* the channel: what was not carried out the store has refused.
THEOREM ExitsClean == LifeSpec => []CleanExit
<1>1. LifeInv => CleanExit
  BY DEF LifeInv, LifeTypeOK, OwnedOK, WorkerOK, StartOK, IdleOK, InTime, idle, quiet, ServerOf,
         CleanExit
<1> QED BY <1>1, LifeInvariant, PTL
=============================================================================
