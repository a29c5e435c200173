------------------------- MODULE DeleteWorkerProofs -------------------------
(***************************************************************************)
(* Proofs about DeleteWorker: what was accepted is not forgotten, only     *)
(* owners delete, and the worker never sleeps on pending ids, for every    *)
(* capacity, batch size and list of ids, with and without failing flushes. *)
(***************************************************************************)
EXTENDS DeleteWorker, FiniteSetTheorems, TLAPS

(***************************************************************************)
(* The handlers' part: the task of an accepted request.                    *)
(***************************************************************************)
idsOf(list) == {list[k] : k \in kept(list)}

\* What is left of a list after the blank ids are dropped is finite and, as
\* EnqueueDelete returns early otherwise, not empty.
LEMMA KeptFinite ==
    ASSUME NEW list \in Lists, kept(list) # {}
    PROVE  /\ idsOf(list) \in SUBSET Ids /\ IsFiniteSet(idsOf(list))
           /\ Cardinality(kept(list)) \in Nat \ {0}
<1>1. PICK n \in 0..MaxDelete : list \in [1..n -> Ids \cup {BlankId}]
  BY DEF Lists
<1>2. n \in Int /\ kept(list) \in SUBSET (1..n)
  BY <1>1, DeleteAssumption DEF kept
<1>3. IsFiniteSet(1..n)
  BY <1>2, FS_Interval
<1>4. IsFiniteSet(kept(list))
  BY <1>2, <1>3, FS_Subset
<1>5. Cardinality(kept(list)) \in Nat \ {0}
  BY <1>4, FS_CardinalityType, FS_EmptySet
<1>6. idsOf(list) \in SUBSET Ids
  BY <1>1 DEF idsOf, kept
<1>7. IsFiniteSet(idsOf(list))
  <2> DEFINE f == [k \in kept(list) |-> list[k]]
  <2>1. f \in Surjection(kept(list), idsOf(list))
    BY DEF Surjection, idsOf
  <2> HIDE DEF f
  <2> QED BY <2>1, <1>4, FS_Surjection
<1> QED BY <1>5, <1>6, <1>7

-----------------------------------------------------------------------------
(***************************************************************************)
(* The channel.                                                            *)
(***************************************************************************)
Queued(w, i) == \E k \in 1..Len(deleteCh) : deleteCh[k].user = w /\ i \in deleteCh[k].ids

LEMMA QueuedForDef ==
    ASSUME NEW w, NEW i
    PROVE  i \in queuedFor(w) <=> Queued(w, i)
BY DEF queuedFor, Queued

LEMMA QueuedAppend ==
    ASSUME deleteCh \in Seq(Tasks), NEW task \in Tasks, deleteCh' = Append(deleteCh, task)
    PROVE  /\ deleteCh' \in Seq(Tasks) /\ Len(deleteCh') = Len(deleteCh) + 1
           /\ \A w, i : Queued(w, i) => Queued(w, i)'
           /\ \A i \in task.ids : Queued(task.user, i)'
           /\ \A k \in 1..Len(deleteCh') :
                 deleteCh'[k] = task \/ \E j \in 1..Len(deleteCh) : deleteCh'[k] = deleteCh[j]
<1>1. /\ deleteCh' \in Seq(Tasks) /\ Len(deleteCh') = Len(deleteCh) + 1
      /\ \A k \in 1..Len(deleteCh) : deleteCh'[k] = deleteCh[k]
      /\ deleteCh'[Len(deleteCh) + 1] = task
  OBVIOUS
<1>2. Len(deleteCh) \in Nat
  OBVIOUS
<1>3. \A k \in 1..Len(deleteCh) : k \in 1..Len(deleteCh')
  BY <1>1, <1>2
<1>4. Len(deleteCh) + 1 \in 1..Len(deleteCh')
  BY <1>1, <1>2
<1>5. \A w, i : Queued(w, i) => Queued(w, i)'
  BY <1>1, <1>3 DEF Queued
<1>6. \A i \in task.ids : Queued(task.user, i)'
  BY <1>1, <1>4 DEF Queued
<1>7. \A k \in 1..Len(deleteCh') : k \in 1..Len(deleteCh) \/ k = Len(deleteCh) + 1
  BY <1>1, <1>2
<1> QED BY <1>1, <1>5, <1>6, <1>7

LEMMA QueuedTail ==
    ASSUME deleteCh \in Seq(Tasks), deleteCh # <<>>, deleteCh' = Tail(deleteCh)
    PROVE  /\ deleteCh' \in Seq(Tasks) /\ Len(deleteCh') <= Len(deleteCh)
           /\ Head(deleteCh) \in Tasks /\ 1 \in 1..Len(deleteCh) /\ deleteCh[1] = Head(deleteCh)
           /\ \A w, i : Queued(w, i) =>
                 Queued(w, i)' \/ (w = Head(deleteCh).user /\ i \in Head(deleteCh).ids)
           /\ \A k \in 1..Len(deleteCh') : \E j \in 1..Len(deleteCh) : deleteCh'[k] = deleteCh[j]
<1>1. /\ deleteCh' \in Seq(Tasks) /\ Len(deleteCh') = Len(deleteCh) - 1
      /\ Head(deleteCh) \in Tasks /\ Head(deleteCh) = deleteCh[1]
      /\ Len(deleteCh) \in Nat \ {0}
      /\ \A k \in 1..Len(deleteCh') : deleteCh'[k] = deleteCh[k + 1]
  OBVIOUS
<1>2. \A k \in 1..Len(deleteCh') : k + 1 \in 1..Len(deleteCh)
  BY <1>1
<1>3. \A k \in 1..Len(deleteCh) : k = 1 \/ (k - 1 \in 1..Len(deleteCh') /\ deleteCh'[k - 1] = deleteCh[k])
  BY <1>1
<1>4. \A w, i : Queued(w, i) =>
          Queued(w, i)' \/ (w = Head(deleteCh).user /\ i \in Head(deleteCh).ids)
  BY <1>1, <1>3 DEF Queued
<1> QED BY <1>1, <1>2, <1>4

-----------------------------------------------------------------------------
(***************************************************************************)
(* The inductive invariant.  A link that is owed is deleted, pending or in *)
(* the channel, and still linked to the user, without which MarkDeleted    *)
(* would pass it by.  Ids travel to MarkDeleted with the user who was      *)
(* answered 202 for them.  During a flush remaining = 0 means that the     *)
(* users already visited have nothing left, which is why the new count may *)
(* be 0 only if nothing is pending.                                        *)
(***************************************************************************)
TaskOK(task) ==
    /\ task.n > 0 /\ IsFiniteSet(task.ids)
    /\ \A i \in task.ids : <<task.user, i>> \in accepted

TasksOK == \A k \in 1..Len(deleteCh) : TaskOK(deleteCh[k])

PendingOK ==
    \A w \in Users : IsFiniteSet(pending[w]) /\ \A i \in pending[w] : <<w, i>> \in accepted

OwedOK ==
    \A w \in Users, i \in Ids : <<w, i>> \in owed =>
        i \in user[w] /\ (i \in deleted \/ i \in pending[w] \/ Queued(w, i))

FlushOK ==
    flushing /\ remaining = 0 => \A w \in Users \ toFlush : pending[w] = {}

DelInv ==
    /\ StoreTypeOK /\ DelTypeOK
    /\ TasksOK /\ PendingOK /\ OwedOK
    /\ DeletedByOwner
    /\ CountCoversPending /\ FlushOK

\* A handler that is answered 202.
LEMMA EnqueueInv ==
    ASSUME DelInv, NEW w \in Users, NEW list \in Lists, EnqueueDelete(w, list)
    PROVE  DelInv'
<1> DEFINE ids  == idsOf(list)
           task == [user |-> w, ids |-> ids, n |-> Cardinality(kept(list))]
<1>1. StoreTypeOK /\ DelTypeOK /\ TasksOK /\ PendingOK /\ OwedOK /\ DeletedByOwner
      /\ CountCoversPending /\ FlushOK
  BY DEF DelInv
<1>2. /\ deleteCh' = Append(deleteCh, task) /\ Len(deleteCh) < QueueCap
      /\ accepted' = accepted \cup ({w} \X ids)
      /\ owed' = owed \cup ({w} \X (ids \cap user[w]))
      /\ late' = IF ctxDone THEN late + 1 ELSE late
      /\ ctxDone => late < MaxLate
      /\ UNCHANGED <<wpc, pending, count, remaining, toFlush, ctxDone>>
      /\ UNCHANGED <<data, original, user, known, deleted>>
  BY DEF EnqueueDelete, idsOf, store
<1>3. ids \in SUBSET Ids /\ IsFiniteSet(ids) /\ Cardinality(kept(list)) \in Nat \ {0}
  BY KeptFinite DEF EnqueueDelete
<1>4. task \in Tasks /\ deleteCh \in Seq(Tasks)
  BY <1>1, <1>3 DEF Tasks, DelTypeOK
<1>5. task.user = w /\ task.ids = ids /\ task.n > 0
  BY <1>3
<1> HIDE DEF task, ids
<1>6. /\ deleteCh' \in Seq(Tasks) /\ Len(deleteCh') = Len(deleteCh) + 1
      /\ \A v, i : Queued(v, i) => Queued(v, i)'
      /\ \A i \in ids : Queued(w, i)'
      /\ \A k \in 1..Len(deleteCh') :
            deleteCh'[k] = task \/ \E j \in 1..Len(deleteCh) : deleteCh'[k] = deleteCh[j]
  BY <1>2, <1>4, <1>5, QueuedAppend
<1>7. StoreTypeOK'
  BY <1>1, <1>2 DEF StoreTypeOK
<1>8. DelTypeOK'
  BY <1>1, <1>2, <1>3, <1>4, <1>6, DeleteAssumption DEF DelTypeOK
<1>9. TasksOK'
  BY <1>1, <1>2, <1>3, <1>5, <1>6 DEF TasksOK, TaskOK
<1>10. PendingOK'
  BY <1>1, <1>2 DEF PendingOK
<1>11. OwedOK'
  <2>1. ASSUME NEW v \in Users, NEW i \in Ids, <<v, i>> \in owed'
        PROVE  i \in user[v] /\ (i \in deleted \/ i \in pending[v] \/ Queued(v, i)')
    <3>1. CASE <<v, i>> \in owed
      BY <3>1, <1>1, <1>6 DEF OwedOK
    <3>2. CASE v = w /\ i \in ids /\ i \in user[w]
      BY <3>2, <1>6
    <3> QED BY <2>1, <3>1, <3>2, <1>2
  <2> QED BY <2>1, <1>2 DEF OwedOK
<1>12. DeletedByOwner'
  BY <1>1, <1>2 DEF DeletedByOwner
<1>13. CountCoversPending' /\ FlushOK'
  BY <1>1, <1>2 DEF CountCoversPending, FlushOK, flushing
<1> QED BY <1>7, <1>8, <1>9, <1>10, <1>11, <1>12, <1>13 DEF DelInv

\* The worker takes a task from the channel, in the select or while draining.
LEMMA AddTaskInv ==
    ASSUME DelInv, deleteCh # <<>>, addTask, UNCHANGED <<ctxDone, late, history, store>>,
           \/ wpc' = "flush" /\ startFlush
           \/ wpc' \in {"select", "drain"} /\ UNCHANGED <<toFlush, remaining>>
    PROVE  DelInv'
<1> DEFINE task == Head(deleteCh)
<1>1. StoreTypeOK /\ DelTypeOK /\ TasksOK /\ PendingOK /\ OwedOK /\ DeletedByOwner
  BY DEF DelInv
<1>2. /\ deleteCh' = Tail(deleteCh)
      /\ pending' = [pending EXCEPT ![task.user] = @ \cup task.ids]
      /\ count' = count + task.n
      /\ UNCHANGED <<ctxDone, late, accepted, owed, data, original, user, known, deleted>>
  BY DEF addTask, history, store
<1>3. deleteCh \in Seq(Tasks)
  BY <1>1 DEF DelTypeOK
<1>4. /\ deleteCh' \in Seq(Tasks) /\ Len(deleteCh') <= Len(deleteCh)
      /\ task \in Tasks /\ TaskOK(task)
      /\ \A w, i : Queued(w, i) => Queued(w, i)' \/ (w = task.user /\ i \in task.ids)
      /\ \A k \in 1..Len(deleteCh') : \E j \in 1..Len(deleteCh) : deleteCh'[k] = deleteCh[j]
  BY <1>1, <1>2, <1>3, QueuedTail DEF TasksOK
<1>5. task.user \in Users /\ task.ids \in SUBSET Ids /\ task.n \in Nat /\ task.n > 0
  BY <1>4 DEF Tasks, TaskOK
<1> HIDE DEF task
<1>6. pending \in [Users -> SUBSET Ids] /\ count \in Nat
  BY <1>1 DEF DelTypeOK
<1>7. /\ pending'[task.user] = pending[task.user] \cup task.ids
      /\ \A w \in Users \ {task.user} : pending'[w] = pending[w]
      /\ pending' \in [Users -> SUBSET Ids]
  BY <1>2, <1>5, <1>6
<1>8. StoreTypeOK'
  BY <1>1, <1>2 DEF StoreTypeOK
<1>9. count' \in Nat /\ count' # 0
  BY <1>2, <1>5, <1>6
<1>10. remaining' \in Nat /\ toFlush' \subseteq Users /\ wpc' \in {"select", "flush", "drain"}
  BY <1>1 DEF DelTypeOK, startFlush
<1>11. Len(deleteCh') <= QueueCap
  <2>1. Len(deleteCh) <= QueueCap /\ Len(deleteCh) \in Nat /\ Len(deleteCh') \in Nat
    BY <1>1, <1>3, <1>4 DEF DelTypeOK
  <2> QED BY <2>1, <1>4, DeleteAssumption
<1>12. DelTypeOK'
  BY <1>1, <1>2, <1>4, <1>7, <1>9, <1>10, <1>11 DEF DelTypeOK, WorkerStages
<1>13. TasksOK'
  BY <1>1, <1>2, <1>4 DEF TasksOK, TaskOK
<1>14. PendingOK'
  <2>1. IsFiniteSet(pending[task.user] \cup task.ids)
    BY <1>1, <1>4, <1>5, FS_Union DEF PendingOK, TaskOK
  <2> QED BY <2>1, <1>1, <1>2, <1>4, <1>5, <1>7 DEF PendingOK, TaskOK
<1>15. OwedOK'
  BY <1>1, <1>2, <1>4, <1>5, <1>7 DEF OwedOK
<1>16. DeletedByOwner'
  BY <1>1, <1>2 DEF DeletedByOwner
<1>17. CountCoversPending' /\ FlushOK'
  BY <1>7, <1>9, <1>10 DEF CountCoversPending, FlushOK, flushing, startFlush
<1> QED BY <1>8, <1>12, <1>13, <1>14, <1>15, <1>16, <1>17 DEF DelInv

\* A flush begins, on a tick or at the end of the drain.
LEMMA StartFlushInv ==
    ASSUME DelInv, startFlush, wpc' \in {"flush", "lastFlush"},
           UNCHANGED <<deleteCh, pending, count, ctxDone, late, history, store>>
    PROVE  DelInv'
<1>1. StoreTypeOK /\ DelTypeOK /\ TasksOK /\ PendingOK /\ OwedOK /\ DeletedByOwner
  BY DEF DelInv
<1>2. StoreTypeOK' /\ DeletedByOwner'
  BY <1>1 DEF StoreTypeOK, DeletedByOwner, store, history
<1>3. DelTypeOK'
  BY <1>1 DEF DelTypeOK, history, startFlush, WorkerStages
<1>4. TasksOK' /\ PendingOK'
  BY <1>1 DEF TasksOK, TaskOK, PendingOK, history
<1>5. OwedOK'
  BY <1>1 DEF OwedOK, Queued, history, store
<1>6. CountCoversPending' /\ FlushOK'
  BY DEF CountCoversPending, FlushOK, startFlush
<1> QED BY <1>2, <1>3, <1>4, <1>5, <1>6 DEF DelInv

\* The context is cancelled; the worker sees it.
LEMMA DoneInv ==
    ASSUME DelInv, Cancel \/ SeeDone
    PROVE  DelInv'
<1>1. StoreTypeOK /\ DelTypeOK /\ TasksOK /\ PendingOK /\ OwedOK /\ DeletedByOwner
      /\ CountCoversPending /\ FlushOK
  BY DEF DelInv
<1>2. /\ UNCHANGED <<deleteCh, pending, count, remaining, toFlush, late, accepted, owed>>
      /\ UNCHANGED <<data, original, user, known, deleted>>
      /\ ctxDone' \in BOOLEAN
      /\ UNCHANGED wpc \/ wpc' = "drain"
  BY <1>1 DEF Cancel, SeeDone, history, store, DelTypeOK
<1>3. StoreTypeOK' /\ DeletedByOwner'
  BY <1>1, <1>2 DEF StoreTypeOK, DeletedByOwner
<1>4. DelTypeOK'
  BY <1>1, <1>2 DEF DelTypeOK, WorkerStages
<1>5. TasksOK' /\ PendingOK'
  BY <1>1, <1>2 DEF TasksOK, TaskOK, PendingOK
<1>6. OwedOK'
  BY <1>1, <1>2 DEF OwedOK, Queued
<1>7. CountCoversPending' /\ FlushOK'
  BY <1>1, <1>2 DEF CountCoversPending, FlushOK, flushing
<1> QED BY <1>3, <1>4, <1>5, <1>6, <1>7 DEF DelInv

\* What MarkDeleted does for the pending ids of w, or nothing if it failed.
LEMMA MarkStep ==
    ASSUME DelInv, NEW w \in Users, MarkDeleted(w, pending[w]) \/ UNCHANGED store,
           UNCHANGED history
    PROVE  StoreTypeOK' /\ DeletedByOwner' /\ UNCHANGED user /\ deleted \subseteq deleted'
<1>1. StoreTypeOK /\ DelTypeOK /\ PendingOK /\ DeletedByOwner
  BY DEF DelInv
<1>2. /\ deleted' \subseteq deleted \cup (pending[w] \cap user[w])
      /\ deleted \subseteq deleted'
      /\ UNCHANGED <<data, original, user, known, accepted>>
  BY DEF MarkDeleted, store, history
<1>3. StoreTypeOK'
  <2>1. pending[w] \subseteq Ids
    BY <1>1 DEF DelTypeOK
  <2> QED BY <2>1, <1>1, <1>2 DEF StoreTypeOK
<1>4. DeletedByOwner'
  BY <1>1, <1>2 DEF DeletedByOwner, PendingOK
<1> QED BY <1>2, <1>3, <1>4

\* A user is flushed.
LEMMA FlushUserInv ==
    ASSUME DelInv, NEW w \in Users, FlushUser(w)
    PROVE  DelInv'
<1>1. StoreTypeOK /\ DelTypeOK /\ TasksOK /\ PendingOK /\ OwedOK /\ FlushOK
  BY DEF DelInv
<1>2. /\ UNCHANGED <<deleteCh, wpc, count, remaining, ctxDone, late, accepted, owed>>
      /\ toFlush' = toFlush \ {w}
      /\ pending' = [pending EXCEPT ![w] = {}]
      /\ deleted' = deleted \cup (pending[w] \cap user[w]) /\ UNCHANGED user
      /\ flushing
  BY DEF FlushUser, MarkDeleted, history
<1>3. StoreTypeOK' /\ DeletedByOwner'
  BY MarkStep DEF FlushUser
<1>4. /\ pending \in [Users -> SUBSET Ids] /\ pending' \in [Users -> SUBSET Ids]
      /\ pending'[w] = {} /\ \A v \in Users \ {w} : pending'[v] = pending[v]
  BY <1>1, <1>2 DEF DelTypeOK
<1>5. DelTypeOK'
  BY <1>1, <1>2, <1>4 DEF DelTypeOK
<1>6. TasksOK'
  BY <1>1, <1>2 DEF TasksOK, TaskOK
<1>7. PendingOK'
  BY <1>1, <1>2, <1>4, FS_EmptySet DEF PendingOK
<1>8. OwedOK'
  BY <1>1, <1>2, <1>4 DEF OwedOK, Queued
<1>9. CountCoversPending' /\ FlushOK'
  BY <1>1, <1>2, <1>4 DEF CountCoversPending, FlushOK, flushing
<1> QED BY <1>3, <1>5, <1>6, <1>7, <1>8, <1>9 DEF DelInv

\* Flushing a user fails: the ids stay pending and are counted again.
LEMMA FlushUserErrsInv ==
    ASSUME DelInv, NEW w \in Users, FlushUserErrs(w)
    PROVE  DelInv'
<1>1. StoreTypeOK /\ DelTypeOK /\ TasksOK /\ PendingOK /\ OwedOK /\ FlushOK
  BY DEF DelInv
<1>2. /\ UNCHANGED <<deleteCh, wpc, pending, count, ctxDone, late, accepted, owed>>
      /\ toFlush' = toFlush \ {w}
      /\ remaining' = remaining + Cardinality(pending[w])
      /\ flushing
  BY DEF FlushUserErrs, history
<1>3. StoreTypeOK' /\ DeletedByOwner' /\ UNCHANGED user /\ deleted \subseteq deleted'
  BY MarkStep DEF FlushUserErrs
<1>4. Cardinality(pending[w]) \in Nat /\ (Cardinality(pending[w]) = 0 <=> pending[w] = {})
  BY <1>1, FS_CardinalityType, FS_EmptySet DEF PendingOK
<1>5. remaining \in Nat /\ remaining' \in Nat
      /\ (remaining' = 0 => remaining = 0 /\ pending[w] = {})
  BY <1>1, <1>2, <1>4 DEF DelTypeOK
<1>6. DelTypeOK'
  BY <1>1, <1>2, <1>5 DEF DelTypeOK
<1>7. TasksOK' /\ PendingOK'
  BY <1>1, <1>2 DEF TasksOK, TaskOK, PendingOK
<1>8. OwedOK'
  BY <1>1, <1>2, <1>3 DEF OwedOK, Queued
<1>9. CountCoversPending' /\ FlushOK'
  BY <1>1, <1>2, <1>5 DEF CountCoversPending, FlushOK, flushing
<1> QED BY <1>3, <1>6, <1>7, <1>8, <1>9 DEF DelInv

\* All users are visited: FlushOK becomes CountCoversPending.
LEMMA FlushEndInv ==
    ASSUME DelInv, FlushEnd
    PROVE  DelInv'
<1>1. StoreTypeOK /\ DelTypeOK /\ TasksOK /\ PendingOK /\ OwedOK /\ DeletedByOwner /\ FlushOK
  BY DEF DelInv
<1>2. /\ UNCHANGED <<deleteCh, pending, remaining, toFlush, ctxDone, late, accepted, owed>>
      /\ UNCHANGED <<data, original, user, known, deleted>>
      /\ flushing /\ toFlush = {} /\ count' = remaining /\ wpc' \in {"select", "stopped"}
  BY DEF FlushEnd, history, store
<1>3. StoreTypeOK' /\ DeletedByOwner'
  BY <1>1, <1>2 DEF StoreTypeOK, DeletedByOwner
<1>4. DelTypeOK'
  BY <1>1, <1>2 DEF DelTypeOK, WorkerStages
<1>5. TasksOK' /\ PendingOK'
  BY <1>1, <1>2 DEF TasksOK, TaskOK, PendingOK
<1>6. OwedOK'
  BY <1>1, <1>2 DEF OwedOK, Queued
<1>7. CountCoversPending' /\ FlushOK'
  BY <1>1, <1>2 DEF CountCoversPending, FlushOK, flushing
<1> QED BY <1>3, <1>4, <1>5, <1>6, <1>7 DEF DelInv

\* Handlers only add links, so nobody stops being the owner of what is owed.
LEMMA OthersLinkInv ==
    ASSUME DelInv, OthersLink
    PROVE  DelInv'
<1>1. StoreTypeOK /\ DelTypeOK /\ TasksOK /\ PendingOK /\ OwedOK /\ DeletedByOwner
      /\ CountCoversPending /\ FlushOK
  BY DEF DelInv
<1>2. PICK w \in Users, ids \in SUBSET Ids : AddUserURLs(w, ids) /\ UNCHANGED workerVars
  BY DEF OthersLink
<1>3. /\ UNCHANGED <<deleteCh, wpc, pending, count, remaining, toFlush, ctxDone, late>>
      /\ UNCHANGED <<accepted, owed, data, original, deleted>>
      /\ user' \in [Users -> SUBSET Ids] /\ known' \subseteq Users
      /\ \A v \in Users : user[v] \subseteq user'[v]
  BY <1>1, <1>2 DEF workerVars, history, AddUserURLs, StoreTypeOK
<1>4. StoreTypeOK' /\ DeletedByOwner'
  BY <1>1, <1>3 DEF StoreTypeOK, DeletedByOwner
<1>5. DelTypeOK'
  BY <1>1, <1>3 DEF DelTypeOK
<1>6. TasksOK' /\ PendingOK'
  BY <1>1, <1>3 DEF TasksOK, TaskOK, PendingOK
<1>7. OwedOK'
  BY <1>1, <1>3 DEF OwedOK, Queued
<1>8. CountCoversPending' /\ FlushOK'
  BY <1>1, <1>3 DEF CountCoversPending, FlushOK, flushing
<1> QED BY <1>4, <1>5, <1>6, <1>7, <1>8 DEF DelInv

LEMMA DelStutterInv ==
    ASSUME DelInv, UNCHANGED delVars
    PROVE  DelInv'
<1>1. StoreTypeOK /\ DelTypeOK /\ TasksOK /\ PendingOK /\ OwedOK /\ DeletedByOwner
      /\ CountCoversPending /\ FlushOK
  BY DEF DelInv
<1>2. /\ UNCHANGED <<deleteCh, wpc, pending, count, remaining, toFlush, ctxDone, late>>
      /\ UNCHANGED <<accepted, owed, data, original, user, known, deleted>>
  BY DEF delVars, workerVars, history, store
<1>3. StoreTypeOK' /\ DelTypeOK'
  BY <1>1, <1>2 DEF StoreTypeOK, DelTypeOK
<1>4. TasksOK' /\ PendingOK' /\ OwedOK' /\ DeletedByOwner'
  BY <1>1, <1>2 DEF TasksOK, TaskOK, PendingOK, OwedOK, Queued, DeletedByOwner
<1>5. CountCoversPending' /\ FlushOK'
  BY <1>1, <1>2 DEF CountCoversPending, FlushOK, flushing
<1> QED BY <1>3, <1>4, <1>5 DEF DelInv

LEMMA DelInitInv ==
    ASSUME DelInit
    PROVE  DelInv
<1>1. StoreTypeOK /\ DelTypeOK
  <2>1. <<>> \in Seq(Tasks) /\ Len(<<>>) = 0
    OBVIOUS
  <2>2. StoreTypeOK
    BY DEF DelInit, StoreInit, StoreTypeOK
  <2>3. 0 <= QueueCap /\ 0 \in 0..MaxLate
    BY DeleteAssumption
  <2>4. pending \in [Users -> SUBSET Ids] /\ wpc \in WorkerStages
    BY DEF DelInit, WorkerStages
  <2>5. /\ deleteCh = <<>> /\ count = 0 /\ remaining = 0 /\ late = 0
        /\ toFlush = {} /\ ctxDone = FALSE /\ accepted = {} /\ owed = {}
    BY DEF DelInit
  <2>6. deleteCh \in Seq(Tasks) /\ Len(deleteCh) <= QueueCap
    BY <2>1, <2>3, <2>5
  <2> QED BY <2>2, <2>3, <2>4, <2>5, <2>6 DEF DelTypeOK
<1>2. TasksOK /\ OwedOK /\ DeletedByOwner
  BY DEF StoreInit, DelInit, TasksOK, OwedOK, DeletedByOwner
<1>3. PendingOK
  BY FS_EmptySet DEF DelInit, PendingOK
<1>4. CountCoversPending /\ FlushOK
  BY DEF DelInit, CountCoversPending, FlushOK, flushing
<1> QED BY <1>1, <1>2, <1>3, <1>4 DEF DelInv

LEMMA DelNextInv ==
    ASSUME DelInv, DelNext \/ OthersLink
    PROVE  DelInv'
<1>1. CASE \E w \in Users, list \in Lists : EnqueueDelete(w, list)
  BY <1>1, EnqueueInv
<1>2. CASE Cancel \/ SeeDone
  BY <1>2, DoneInv
<1>3. CASE ReceiveTask
  <2>1. /\ deleteCh # <<>> /\ addTask /\ UNCHANGED <<ctxDone, late, history, store>>
        /\ \/ wpc' = "flush" /\ startFlush
           \/ wpc' = "select" /\ UNCHANGED <<toFlush, remaining>>
    BY <1>3 DEF ReceiveTask
  <2> QED BY <2>1, AddTaskInv
<1>4. CASE DrainTask
  <2>1. /\ deleteCh # <<>> /\ addTask /\ UNCHANGED <<ctxDone, late, history, store>>
        /\ wpc' = "drain" /\ UNCHANGED <<toFlush, remaining>>
    BY <1>4 DEF DrainTask
  <2> QED BY <2>1, AddTaskInv
<1>5. CASE Tick \/ DrainEnd
  <2>1. /\ startFlush /\ wpc' \in {"flush", "lastFlush"}
        /\ UNCHANGED <<deleteCh, pending, count, ctxDone, late, history, store>>
    BY <1>5 DEF Tick, DrainEnd
  <2> QED BY <2>1, StartFlushInv
<1>6. CASE \E w \in Users : FlushUser(w) \/ FlushUserErrs(w)
  BY <1>6, FlushUserInv, FlushUserErrsInv
<1>7. CASE FlushEnd
  BY <1>7, FlushEndInv
<1>8. CASE OthersLink
  BY <1>8, OthersLinkInv
<1> QED
  BY <1>1, <1>2, <1>3, <1>4, <1>5, <1>6, <1>7, <1>8 DEF DelNext, Worker

\* The inductive invariant holds in every reachable state.
THEOREM DelInvariant == DelSpec => []DelInv
<1>1. DelInv /\ [DelNext \/ OthersLink]_delVars => DelInv'
  BY DelNextInv, DelStutterInv
<1> QED BY <1>1, DelInitInv, PTL DEF DelSpec

-----------------------------------------------------------------------------
(***************************************************************************)
(* What the answer "202 Accepted" rests on.                                *)
(***************************************************************************)

\* The channel never exceeds its capacity, the counts stay numbers.
THEOREM DelTypesAlwaysOK == DelSpec => []DelTypeOK
<1>1. DelInv => DelTypeOK
  BY DEF DelInv
<1> QED BY <1>1, DelInvariant, PTL

\* While the worker of StartDeleteWorker runs, no interleaving of handlers,
\* ticks, failing flushes and the cancellation loses an accepted deletion.
THEOREM AcceptedNeverLost == DelSpec => []AcceptedNotLost
<1>1. DelInv => AcceptedNotLost
  <2>1. SUFFICES ASSUME DelInv, NEW t \in owed
                 PROVE  t[2] \in deleted \cup pending[t[1]] \cup queuedFor(t[1])
    BY DEF AcceptedNotLost
  <2>2. t = <<t[1], t[2]>> /\ t[1] \in Users /\ t[2] \in Ids
    BY <2>1 DEF DelInv, DelTypeOK
  <2>3. t[2] \in deleted \/ t[2] \in pending[t[1]] \/ Queued(t[1], t[2])
    BY <2>1, <2>2 DEF DelInv, OwedOK
  <2> QED BY <2>3, QueuedForDef
<1> QED BY <1>1, DelInvariant, PTL

\* MarkDeleted is called for an id only on behalf of a user who asked for it
\* and is linked to it.
THEOREM AlwaysDeletedByOwner == DelSpec => []DeletedByOwner
<1>1. DelInv => DeletedByOwner
  BY DEF DelInv
<1> QED BY <1>1, DelInvariant, PTL

\* The ticker, which does nothing at count = 0, never passes pending ids by.
THEOREM CountAlwaysCoversPending == DelSpec => []CountCoversPending
<1>1. DelInv => CountCoversPending
  BY DEF DelInv
<1> QED BY <1>1, DelInvariant, PTL

-----------------------------------------------------------------------------
(***************************************************************************)
(* The shutdown.  When no flush fails and no handler outlives the servers, *)
(* the drain ends with an empty channel that stays empty, and the flush    *)
(* after it leaves nothing pending.                                        *)
(***************************************************************************)
DrainedInv ==
    /\ wpc \in {"drain", "lastFlush", "stopped"} => ctxDone
    /\ wpc \in {"lastFlush", "stopped"} => deleteCh = <<>>
    /\ flushing => \A w \in Users \ toFlush : pending[w] = {}
    /\ wpc = "stopped" => \A w \in Users : pending[w] = {}

LEMMA DrainedStep ==
    ASSUME ~MarkFails, MaxLate = 0, DelInv, DrainedInv, DelNext
    PROVE  DrainedInv'
<1> USE DEF DrainedInv, flushing, startFlush
<1>1. DelTypeOK
  BY DEF DelInv
<1>2. ASSUME NEW w \in Users, NEW list \in Lists, EnqueueDelete(w, list) PROVE DrainedInv'
  <2>1. ~ctxDone
    BY <1>1, <1>2 DEF EnqueueDelete, DelTypeOK
  <2> QED BY <1>2, <2>1 DEF EnqueueDelete
<1>3. CASE Cancel \/ SeeDone
  BY <1>3 DEF Cancel, SeeDone
<1>4. CASE ReceiveTask
  BY <1>4 DEF ReceiveTask
<1>5. CASE Tick \/ DrainEnd
  BY <1>5 DEF Tick, DrainEnd
<1>6. CASE DrainTask
  BY <1>6 DEF DrainTask
<1>7. ASSUME NEW w \in Users, FlushUser(w) PROVE DrainedInv'
  BY <1>1, <1>7 DEF FlushUser, DelTypeOK
<1>8. ASSUME NEW w \in Users, FlushUserErrs(w) PROVE FALSE
  BY <1>8 DEF FlushUserErrs
<1>9. CASE FlushEnd
  BY <1>9 DEF FlushEnd
<1> QED BY <1>2, <1>3, <1>4, <1>5, <1>6, <1>7, <1>8, <1>9 DEF DelNext, Worker

LEMMA DrainedKept ==
    ASSUME DrainedInv, UNCHANGED workerVars
    PROVE  DrainedInv'
BY DEF DrainedInv, flushing, workerVars

LEMMA DrainedInitially == DelInit => DrainedInv
BY DEF DelInit, DrainedInv, flushing

LEMMA DrainedIsDone ==
    ASSUME DelInv, DrainedInv
    PROVE  StoppedDone
<1>1. SUFFICES ASSUME wpc = "stopped", NEW t \in owed PROVE t[2] \in deleted
  BY DEF StoppedDone
<1>2. t = <<t[1], t[2]>> /\ t[1] \in Users /\ t[2] \in Ids
  BY <1>1 DEF DelInv, DelTypeOK
<1>3. t[2] \in deleted \/ t[2] \in pending[t[1]] \/ Queued(t[1], t[2])
  BY <1>1, <1>2 DEF DelInv, OwedOK
<1>4. ~Queued(t[1], t[2]) /\ pending[t[1]] = {}
  BY <1>1, <1>2 DEF DrainedInv, Queued
<1> QED BY <1>3, <1>4

\* With a store that does not fail and servers that stop in time, the shutdown
\* carries out whatever was answered 202.
THEOREM ShutdownCompletesDeletions ==
    ASSUME ~MarkFails, MaxLate = 0
    PROVE  DelSpec => []StoppedDone
<1>1. DelInit => DelInv /\ DrainedInv
  BY DelInitInv, DrainedInitially
<1>2. DelInv /\ DrainedInv /\ [DelNext \/ OthersLink]_delVars => DelInv' /\ DrainedInv'
  BY DelNextInv, DelStutterInv, DrainedStep, DrainedKept DEF OthersLink, delVars
<1> QED BY <1>1, <1>2, DrainedIsDone, PTL DEF DelSpec
=============================================================================
