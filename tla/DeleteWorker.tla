---------------------------- MODULE DeleteWorker ----------------------------
(***************************************************************************)
(* Asynchronous deletion, internal/service/shortener.go: EnqueueDelete,    *)
(* called by the handlers of DELETE /api/user/urls, puts tasks into the    *)
(* bounded channel deleteCh, and the one goroutine of StartDeleteWorker    *)
(* collects them in `pending` and flushes them with MarkDeleted when a     *)
(* batch is full, when the ticker fires, and a last time when the context  *)
(* is cancelled.                                                           *)
(*                                                                         *)
(* A task keeps what the worker uses of DeleteTask.IDs: the set of ids and *)
(* their number, repetitions counted, which is what `count` grows by.      *)
(***************************************************************************)
EXTENDS MemoryRepository, Sequences

CONSTANTS
    BlankId,    \* an id that is empty after TrimSpace
    QueueCap,   \* capacity of deleteCh (1024 in the code)
    BatchSize,  \* flush at this count (128 in cmd/shortener)
    MaxDelete,  \* bound: ids in one delete request
    MarkFails,  \* MarkDeleted may return an error
    MaxLate     \* delete handlers that outlive the servers (the HTTP shutdown timed out)

Lists == UNION {[1..n -> Ids \cup {BlankId}] : n \in 0..MaxDelete}

ASSUME DeleteAssumption ==
    /\ BlankId \notin Ids
    /\ QueueCap \in Nat \ {0} /\ BatchSize \in Nat \ {0} /\ MaxDelete \in Nat
    /\ MarkFails \in BOOLEAN /\ MaxLate \in Nat

VARIABLES
    deleteCh,   \* the channel
    wpc,        \* where the worker is
    pending,    \* user -> ids collected for the next flush
    count,      \* the worker's count of them
    remaining,  \* flush's count of what it could not mark
    toFlush,    \* the users flush has not come to yet
    ctxDone,    \* the worker's context is cancelled
    late,       \* tasks enqueued since then
    accepted,   \* history: <<user, id>> whose deletion was answered "202 Accepted"
    owed        \* history: those of them that were linked to the user by then

history    == <<accepted, owed>>
workerVars == <<deleteCh, wpc, pending, count, remaining, toFlush, ctxDone, late, history>>
delVars    == <<store, workerVars>>

Tasks == [user : Users, ids : SUBSET Ids, n : Nat]

\* "select": the worker's select;  "flush": in a flush, back to select;
\* "drain": emptying the channel;  "lastFlush": the flush after it.
WorkerStages == {"select", "flush", "drain", "lastFlush", "stopped"}

DelTypeOK ==
    /\ deleteCh  \in Seq(Tasks) /\ Len(deleteCh) <= QueueCap
    /\ wpc       \in WorkerStages
    /\ pending   \in [Users -> SUBSET Ids]
    /\ count     \in Nat
    /\ remaining \in Nat
    /\ toFlush   \subseteq Users
    /\ ctxDone   \in BOOLEAN
    /\ late      \in 0..MaxLate
    /\ accepted  \subseteq Users \X Ids
    /\ owed      \subseteq accepted

DelInit ==
    /\ StoreInit
    /\ deleteCh  = <<>>
    /\ wpc       = "select"
    /\ pending   = [w \in Users |-> {}]
    /\ count     = 0
    /\ remaining = 0
    /\ toFlush   = {}
    /\ ctxDone   = FALSE
    /\ late      = 0
    /\ accepted  = {}
    /\ owed      = {}

-----------------------------------------------------------------------------
(* Handlers *)

kept(list) == {k \in DOMAIN list : list[k] # BlankId}

\* Mutant: the capacity is not looked at.
EnqueueUnbounded(w, list) ==
    /\ ctxDone => late < MaxLate
    /\ late' = IF ctxDone THEN late + 1 ELSE late
    /\ kept(list) # {}
    /\ LET ids == {list[k] : k \in kept(list)}
       IN  /\ deleteCh' = Append(deleteCh, [user |-> w, ids |-> ids,
                                            n |-> Cardinality(kept(list))])
           /\ accepted' = accepted \cup ({w} \X ids)
           /\ owed' = owed \cup ({w} \X (ids \cap user[w]))
    /\ UNCHANGED <<wpc, pending, count, remaining, toFlush, ctxDone, store>>

\* The channel has room: the handler answers 202.  A full channel is an error,
\* an empty list is ignored: neither changes anything.
EnqueueDelete(w, list) ==
    /\ ctxDone => late < MaxLate
    /\ late' = IF ctxDone THEN late + 1 ELSE late
    /\ kept(list) # {}
    /\ Len(deleteCh) < QueueCap
    /\ LET ids == {list[k] : k \in kept(list)}
       IN  /\ deleteCh' = Append(deleteCh, [user |-> w, ids |-> ids,
                                            n |-> Cardinality(kept(list))])
           /\ accepted' = accepted \cup ({w} \X ids)
           /\ owed' = owed \cup ({w} \X (ids \cap user[w]))
    /\ UNCHANGED <<wpc, pending, count, remaining, toFlush, ctxDone, store>>

\* run() cancels the worker's context once both servers are shut down.
Cancel ==
    /\ ~ctxDone
    /\ ctxDone' = TRUE
    /\ UNCHANGED <<deleteCh, wpc, pending, count, remaining, toFlush, late, history, store>>

-----------------------------------------------------------------------------
(* The worker *)

addTask ==
    LET task == Head(deleteCh)
    IN  /\ deleteCh' = Tail(deleteCh)
        /\ pending' = [pending EXCEPT ![task.user] = @ \cup task.ids]
        /\ count' = count + task.n

startFlush == toFlush' = {w \in Users : pending'[w] # {}} /\ remaining' = 0

\* select: a task has come.
ReceiveTask ==
    /\ wpc = "select" /\ deleteCh # <<>>
    /\ addTask
    /\ IF count' >= BatchSize
       THEN wpc' = "flush" /\ startFlush
       ELSE UNCHANGED <<wpc, toFlush, remaining>>
    /\ UNCHANGED <<ctxDone, late, history, store>>

\* Mutant: the ticker flushes full batches only.
TickFull ==
    /\ wpc = "select" /\ count >= BatchSize
    /\ wpc' = "flush"
    /\ UNCHANGED pending /\ startFlush
    /\ UNCHANGED <<deleteCh, count, ctxDone, late, history, store>>

\* select: the ticker has fired.
Tick ==
    /\ wpc = "select" /\ count > 0
    /\ wpc' = "flush"
    /\ UNCHANGED pending /\ startFlush
    /\ UNCHANGED <<deleteCh, count, ctxDone, late, history, store>>

\* Mutant: the channel is not emptied before the last flush.
SeeDoneNoDrain ==
    /\ wpc = "select" /\ ctxDone
    /\ wpc' = "lastFlush"
    /\ UNCHANGED pending /\ startFlush
    /\ UNCHANGED <<deleteCh, count, ctxDone, late, history, store>>

\* select: the context is cancelled.  select picks at random among the ready
\* cases, so the worker may take more tasks before it sees this.
SeeDone ==
    /\ wpc = "select" /\ ctxDone
    /\ wpc' = "drain"
    /\ UNCHANGED <<deleteCh, pending, count, remaining, toFlush, ctxDone, late, history, store>>

DrainTask ==
    /\ wpc = "drain" /\ deleteCh # <<>>
    /\ addTask
    /\ UNCHANGED <<wpc, remaining, toFlush, ctxDone, late, history, store>>

DrainEnd ==
    /\ wpc = "drain" /\ deleteCh = <<>>
    /\ wpc' = "lastFlush"
    /\ UNCHANGED pending /\ startFlush
    /\ UNCHANGED <<deleteCh, count, ctxDone, late, history, store>>

flushing == wpc \in {"flush", "lastFlush"}

\* MarkDeleted for one user of pending, in the map's random order.
FlushUser(w) ==
    /\ flushing /\ w \in toFlush
    /\ MarkDeleted(w, pending[w])
    /\ pending' = [pending EXCEPT ![w] = {}]
    /\ toFlush' = toFlush \ {w}
    /\ UNCHANGED <<deleteCh, wpc, count, remaining, ctxDone, late, history>>

\* Mutant: pending is emptied before the error is looked at.
FlushUserForgets(w) ==
    /\ MarkFails /\ flushing /\ w \in toFlush
    /\ MarkDeleted(w, pending[w]) \/ UNCHANGED store
    /\ pending' = [pending EXCEPT ![w] = {}]
    /\ remaining' = remaining + Cardinality(pending[w])
    /\ toFlush' = toFlush \ {w}
    /\ UNCHANGED <<deleteCh, wpc, count, ctxDone, late, history>>

\* MarkDeleted failed, with or without having taken effect: the ids stay.
FlushUserErrs(w) ==
    /\ MarkFails /\ flushing /\ w \in toFlush
    /\ MarkDeleted(w, pending[w]) \/ UNCHANGED store
    /\ remaining' = remaining + Cardinality(pending[w])
    /\ toFlush' = toFlush \ {w}
    /\ UNCHANGED <<deleteCh, wpc, pending, count, ctxDone, late, history>>

\* Mutants: the count starts again at 0; the worker does not return.
FlushEndZero ==
    /\ flushing /\ toFlush = {}
    /\ count' = 0
    /\ wpc' = IF wpc = "flush" THEN "select" ELSE "stopped"
    /\ UNCHANGED <<deleteCh, pending, remaining, toFlush, ctxDone, late, history, store>>

FlushEndSelect ==
    /\ flushing /\ toFlush = {}
    /\ count' = remaining
    /\ wpc' = "select"
    /\ UNCHANGED <<deleteCh, pending, remaining, toFlush, ctxDone, late, history, store>>

FlushEnd ==
    /\ flushing /\ toFlush = {}
    /\ count' = remaining
    /\ wpc' = IF wpc = "flush" THEN "select" ELSE "stopped"
    /\ UNCHANGED <<deleteCh, pending, remaining, toFlush, ctxDone, late, history, store>>

-----------------------------------------------------------------------------
Worker ==
    \/ ReceiveTask \/ Tick \/ SeeDone \/ DrainTask \/ DrainEnd
    \/ \E w \in Users : FlushUser(w) \/ FlushUserErrs(w)
    \/ FlushEnd

DelNext == (\E w \in Users, list \in Lists : EnqueueDelete(w, list)) \/ Cancel \/ Worker

\* What the handlers that create links do to the store meanwhile.
OthersLink ==
    \E w \in Users, ids \in SUBSET Ids : AddUserURLs(w, ids) /\ UNCHANGED workerVars

DelSpec == DelInit /\ [][DelNext \/ OthersLink]_delVars

\* The worker is one goroutine, which the scheduler serves.  A select with
\* several ready cases picks one at random, so the cancellation is seen in the
\* end; and a store that fails now and then also succeeds now and then.
DelFairness ==
    /\ WF_delVars(Worker)
    /\ SF_delVars(SeeDone)
    /\ \A w \in Users : SF_delVars(FlushUser(w))
DelFairSpec == DelSpec /\ DelFairness

-----------------------------------------------------------------------------
(* Properties *)

queuedFor(w) == UNION {deleteCh[k].ids : k \in {j \in 1..Len(deleteCh) : deleteCh[j].user = w}}

\* While the worker runs, a deletion that was accepted from an owner of the
\* link is in the channel, in pending or done: neither a failing flush nor a
\* flush in the middle of arriving tasks forgets it.
AcceptedNotLost ==
    wpc # "stopped" => \A t \in owed :
        t[2] \in deleted \cup pending[t[1]] \cup queuedFor(t[1])

\* The worker that has stopped left nothing behind: what was accepted is done.
StoppedDone == wpc = "stopped" => \A t \in owed : t[2] \in deleted

\* An id is only ever deleted on the request of a user it is linked to: what is
\* pending for one user never reaches MarkDeleted for another.
DeletedByOwner ==
    \A i \in deleted : \E w \in Users : <<w, i>> \in accepted /\ i \in user[w]

\* The worker never waits in select with count = 0 and something pending: the
\* ticker would pass it by for ever.
CountCoversPending ==
    wpc = "select" /\ count = 0 => \A w \in Users : pending[w] = {}

\* A deletion accepted from an owner is carried out in the end, or the worker stops.
AcceptedGetsDone ==
    \A w \in Users, i \in Ids :
        <<w, i>> \in owed ~> i \in deleted \/ wpc = "stopped"

\* After the cancellation the worker stops, whatever was queued or pending.
WorkerStops == ctxDone ~> wpc = "stopped"
=============================================================================
