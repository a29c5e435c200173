-------------------------- MODULE ShortenerProofs --------------------------
(***************************************************************************)
(* Proofs about Shortener: the invariants of the handlers and of the       *)
(* delete worker hold side by side over the one repository, and together   *)
(* they implement the abstract short links of ShortLinks, for all          *)
(* constants, with failing repository calls and without.                   *)
(***************************************************************************)
EXTENDS Shortener, ShortenRequestsProofs, DeleteWorkerProofs

(***************************************************************************)
(* What a handler does to the store, in one of four ways, and what it      *)
(* knows at that moment.                                                   *)
(***************************************************************************)
InsertsOne(r) == pc[r] = "put" /\ \E i \in Ids : PutIfAbsent(i, url[r])
InsertsBatch(r) == pc[r] = "putBatch" /\ PutBatchIfAbsent(fresh[r], ids[r])
LinksIds(r) == pc[r] = "link" /\ owner[r] # NoUser /\ AddUserURLs(owner[r], shortIDs(r))

LEMMA HandlerStep ==
    ASSUME NEW r \in Reqs, Arrive(r) \/ Step(r)
    PROVE  UNCHANGED store \/ InsertsOne(r) \/ InsertsBatch(r) \/ LinksIds(r)
<1>1. CASE Arrive(r)
  BY <1>1 DEF Arrive, Receive, ReceiveBatch
<1>2. ASSUME NEW i \in Ids, PutCreates(r, i) \/ PutCollides(r, i) \/ PutErrs(r, i)
      PROVE  UNCHANGED store \/ InsertsOne(r)
  BY <1>2 DEF PutCreates, PutCollides, PutErrs, InsertsOne
<1>3. CASE LookupHit(r) \/ LookupMiss(r) \/ RecheckHit(r) \/ RecheckMiss(r)
  BY <1>3 DEF LookupHit, LookupMiss, RecheckHit, RecheckMiss
<1>4. CASE NextItem(r) \/ LookupItemHit(r) \/ LookupItemMiss(r) \/ EndOfItems(r)
  BY <1>4 DEF NextItem, LookupItemHit, LookupItemMiss, EndOfItems
<1>5. ASSUME NEW i \in Ids, GenerateID(r, i) \/ GenerateCollides(r, i)
      PROVE  UNCHANGED store
  BY <1>5 DEF GenerateID, GenerateCollides
<1>6. CASE PutBatch(r) \/ PutBatchErrs(r)
  BY <1>6 DEF PutBatch, PutBatchErrs, InsertsBatch
<1>7. ASSUME NEW u \in Urls, VerifyOurs(r, u) \/ VerifyOther(r, u)
      PROVE  UNCHANGED store
  BY <1>7 DEF VerifyOurs, VerifyOther
<1>8. CASE RegetHit(r) \/ RegetMiss(r)
  BY <1>8 DEF RegetHit, RegetMiss
<1>9. CASE Link(r) \/ LinkErrs(r)
  BY <1>9 DEF Link, LinkErrs, LinksIds
<1> QED
  BY <1>1, <1>2, <1>3, <1>4, <1>5, <1>6, <1>7, <1>8, <1>9 DEF Step

\* Handlers never touch the set of deleted ids.
LEMMA HandlersDeleteNothing ==
    ASSUME NEW r \in Reqs, Arrive(r) \/ Step(r)
    PROVE  UNCHANGED deleted
BY HandlerStep DEF InsertsOne, InsertsBatch, LinksIds, PutIfAbsent, PutBatchIfAbsent, AddUserURLs, store

\* What the delete worker and its handlers do to the store.
LEMMA WorkerStep ==
    ASSUME \/ \E w \in Users, list \in Lists : EnqueueDelete(w, list)
           \/ Cancel \/ Worker
    PROVE  UNCHANGED store \/ \E w \in Users : MarkDeleted(w, pending[w])
<1>1. ASSUME NEW w \in Users, NEW list \in Lists, EnqueueDelete(w, list) PROVE UNCHANGED store
  BY <1>1 DEF EnqueueDelete
<1>2. CASE Cancel \/ ReceiveTask \/ Tick \/ SeeDone \/ DrainTask \/ DrainEnd \/ FlushEnd
  BY <1>2 DEF Cancel, ReceiveTask, Tick, SeeDone, DrainTask, DrainEnd, FlushEnd
<1>3. ASSUME NEW w \in Users, FlushUser(w) \/ FlushUserErrs(w)
      PROVE  UNCHANGED store \/ MarkDeleted(w, pending[w])
  BY <1>3 DEF FlushUser, FlushUserErrs
<1> QED BY <1>1, <1>2, <1>3 DEF Worker

-----------------------------------------------------------------------------
(***************************************************************************)
(* Each part keeps the invariant of the other.  The worker's survives      *)
(* because users only ever get more links, the handlers' because deleting  *)
(* is a mark that takes no record and no link away.                        *)
(***************************************************************************)
ServiceInv == ReqInv /\ DelInv

LEMMA WorkerUndisturbed ==
    ASSUME DelInv, StoreTypeOK', Grows, UNCHANGED <<deleted, workerVars>>
    PROVE  DelInv'
<1>1. /\ DelTypeOK /\ TasksOK /\ PendingOK /\ OwedOK /\ DeletedByOwner
      /\ CountCoversPending /\ FlushOK
  BY DEF DelInv
<1>2. /\ UNCHANGED <<deleteCh, wpc, pending, count, remaining, toFlush, ctxDone, late>>
      /\ UNCHANGED <<accepted, owed, deleted>>
      /\ \A v \in Users : user[v] \subseteq user'[v]
  BY DEF workerVars, history, Grows
<1>3. DelTypeOK'
  BY <1>1, <1>2 DEF DelTypeOK
<1>4. TasksOK' /\ PendingOK'
  BY <1>1, <1>2 DEF TasksOK, TaskOK, PendingOK
<1>5. OwedOK' /\ DeletedByOwner'
  BY <1>1, <1>2 DEF OwedOK, Queued, DeletedByOwner
<1>6. CountCoversPending' /\ FlushOK'
  BY <1>1, <1>2 DEF CountCoversPending, FlushOK, flushing
<1> QED BY <1>3, <1>4, <1>5, <1>6 DEF DelInv

LEMMA HandlersUndisturbed ==
    ASSUME ReqInv, StoreTypeOK', UNCHANGED <<data, original, user, known, locals>>
    PROVE  ReqInv'
<1>1. TypeOK /\ IndexesAgree /\ LinksResolve /\ CreatedOnce
  BY DEF ReqInv
<1>2. /\ UNCHANGED <<pc, owner, url, tries, asked, ids, created, todo, fresh>>
      /\ UNCHANGED <<data, original, user>>
  BY DEF locals
<1>3. StoreStep
  BY <1>1, <1>2 DEF StoreStep, IndexesAgree, Grows
<1>4. ASSUME NEW r \in Reqs PROVE RequestOK(r)'
  <2>1. RequestOK(r) /\ SameLocals(r)
    BY <1>2 DEF ReqInv, SameLocals
  <2> QED BY <1>1, <1>3, <2>1, OthersKeep
<1>5. TypeOK'
  BY <1>1, <1>2 DEF TypeOK, ReqTypeOK
<1>6. IndexesAgree' /\ LinksResolve' /\ CreatedOnce'
  BY <1>1, <1>2 DEF IndexesAgree, LinksResolve, Exists, CreatedOnce
<1> QED BY <1>4, <1>5, <1>6 DEF ReqInv

LEMMA ServiceInitially == Init => ServiceInv
BY InitInv, DelInitInv DEF Init, ServiceInv

LEMMA ServiceInductive == ServiceInv /\ [Next]_vars => ServiceInv'
<1>1. ASSUME ServiceInv, NEW r \in Reqs, Arrive(r) \/ Step(r), UNCHANGED workerVars
      PROVE  ServiceInv'
  <2>1. ReqInv' /\ Grows
    BY <1>1, NextInv DEF ServiceInv, ReqNext
  <2>2. StoreTypeOK' /\ UNCHANGED deleted
    BY <1>1, <2>1, HandlersDeleteNothing DEF ReqInv, TypeOK
  <2>3. DelInv'
    BY <1>1, <2>1, <2>2, WorkerUndisturbed DEF ServiceInv
  <2> QED BY <2>1, <2>3 DEF ServiceInv
<1>2. ASSUME ServiceInv, UNCHANGED locals,
             \/ \E w \in Users, list \in Lists : EnqueueDelete(w, list)
             \/ Cancel \/ Worker
      PROVE  ServiceInv'
  <2>1. DelInv'
    BY <1>2, DelNextInv DEF ServiceInv, DelNext
  <2>2. UNCHANGED <<data, original, user, known>>
    BY <1>2, WorkerStep DEF store, MarkDeleted
  <2>3. ReqInv'
    BY <1>2, <2>1, <2>2, HandlersUndisturbed DEF ServiceInv, DelInv
  <2> QED BY <2>1, <2>3 DEF ServiceInv
<1>3. ASSUME ServiceInv, UNCHANGED vars PROVE ServiceInv'
  <2>1. UNCHANGED reqVars /\ UNCHANGED delVars
    BY <1>3 DEF vars, reqVars, delVars
  <2> QED BY <1>3, <2>1, StutterInv, DelStutterInv DEF ServiceInv
<1> QED BY <1>1, <1>2, <1>3 DEF Next, Requests, DeleteRequests, StopWorker, DeleteWorkerStep

-----------------------------------------------------------------------------
\* Handlers and worker keep each other's invariants.
THEOREM ServiceInvariant == Spec => []ServiceInv
BY ServiceInitially, ServiceInductive, PTL DEF Spec

\* A mark of deletion always belongs to a stored short link.
THEOREM DeletedAlwaysExist == Spec => []DeletedExist
<1>1. ServiceInv => DeletedExist
  BY DEF ServiceInv, ReqInv, DelInv, DeletedByOwner, LinksResolve, DeletedExist
<1> QED BY <1>1, ServiceInvariant, PTL

\* The composition keeps what the worker promises of the shutdown.
THEOREM ServiceShutdownCompletes ==
    ASSUME ~MarkFails, MaxLate = 0
    PROVE  Spec => []StoppedDone
<1>1. Init => DrainedInv
  BY DrainedInitially DEF Init
<1>2. ServiceInv /\ DrainedInv /\ [Next]_vars => DrainedInv'
  <2>1. ASSUME ServiceInv, DrainedInv, Requests \/ UNCHANGED vars PROVE DrainedInv'
    BY <2>1, DrainedKept DEF Requests, vars
  <2>2. ASSUME ServiceInv, DrainedInv, DeleteRequests \/ StopWorker \/ DeleteWorkerStep
        PROVE  DrainedInv'
    BY <2>2, DrainedStep DEF ServiceInv, DeleteRequests, StopWorker, DeleteWorkerStep, DelNext
  <2> QED BY <2>1, <2>2 DEF Next
<1>3. ServiceInv /\ DrainedInv => StoppedDone
  BY DrainedIsDone DEF ServiceInv
<1> QED BY <1>1, <1>2, <1>3, ServiceInvariant, PTL DEF Spec

-----------------------------------------------------------------------------
(***************************************************************************)
(* The refinement.  An insert, of one or of a batch, assigns the URLs that *)
(* were absent ids that were; a link owns ids its request knows to be      *)
(* stored; a MarkDeleted removes those ids its user is linked to.          *)
(***************************************************************************)
LEMMA AssignedAreStored ==
    ASSUME IndexesAgree, StoreTypeOK
    PROVE  \A i \in Ids : Exists(i) <=> i \in Links!Assigned
BY SentinelsAssumption DEF IndexesAgree, StoreTypeOK, Exists, Links!Assigned

LEMMA InsertAssigns ==
    ASSUME IndexesAgree, StoreTypeOK,
           NEW i \in Ids, NEW u \in Urls, PutIfAbsent(i, u)
    PROVE  Links!Next
<1> DEFINE new == [v \in {u} |-> i]
<1>1. new \in [{u} -> Ids] /\ DOMAIN new = {u} /\ new[u] = i /\ {u} \in SUBSET Urls
  OBVIOUS
<1>2. original[u] = NoId /\ i \notin Links!Assigned
  BY AssignedAreStored DEF PutIfAbsent, Fresh, Known
<1>3. original' = [v \in Urls |-> IF v \in {u} THEN i ELSE original[v]]
  BY DEF PutIfAbsent, StoreTypeOK
<1>4. UNCHANGED <<user, deleted>>
  BY DEF PutIfAbsent
<1>5. Links!Assign(new)
  BY <1>1, <1>2, <1>3, <1>4 DEF Links!Assign
<1> HIDE DEF new
<1> QED BY <1>1, <1>5 DEF Links!Next

LEMMA InsertBatchAssigns ==
    ASSUME IndexesAgree, StoreTypeOK,
           NEW batch \in SUBSET Urls, NEW m \in [Urls -> Ids \cup {NoId}],
           \A u \in batch : m[u] \in Ids,
           \A u, v \in batch : m[u] = m[v] => u = v,
           PutBatchIfAbsent(batch, m)
    PROVE  Links!Next
<1> DEFINE stored == {u \in batch : Fresh(m[u], u)}
           new    == [u \in stored |-> m[u]]
<1>1. stored \in SUBSET Urls /\ new \in [stored -> Ids] /\ DOMAIN new = stored
  OBVIOUS
<1>2. \A u \in stored : original[u] = NoId /\ new[u] = m[u] /\ new[u] \notin Links!Assigned
  BY AssignedAreStored DEF Fresh, Known
<1>3. \A u, v \in stored : new[u] = new[v] => u = v
  OBVIOUS
<1>4. /\ original' = [u \in Urls |-> IF u \in stored THEN m[u] ELSE original[u]]
      /\ UNCHANGED <<user, deleted>>
  BY DEF PutBatchIfAbsent
<1> HIDE DEF stored
<1>5. original' = [u \in Urls |-> IF u \in DOMAIN new THEN new[u] ELSE original[u]]
  BY <1>1, <1>4
<1> HIDE DEF new
<1>6. Links!Assign(new)
  BY <1>1, <1>2, <1>3, <1>4, <1>5 DEF Links!Assign
<1> QED BY <1>1, <1>6 DEF Links!Next

LEMMA HandlerRefines ==
    ASSUME ReqInv, NEW r \in Reqs, Arrive(r) \/ Step(r)
    PROVE  [Links!Next]_Links!links
<1>1. IndexesAgree /\ StoreTypeOK /\ ReqTypeOK /\ RequestOK(r)
  BY DEF ReqInv, TypeOK
<1>2. CASE UNCHANGED store
  BY <1>2 DEF store, Links!links
<1>3. CASE InsertsOne(r)
  <2>1. url[r] \in Urls
    BY <1>1, <1>3 DEF InsertsOne, RequestOK, StageOK
  <2> QED BY <1>1, <1>3, <2>1, InsertAssigns DEF InsertsOne
<1>4. CASE InsertsBatch(r)
  <2>1. fresh[r] \in SUBSET Urls /\ ids[r] \in [Urls -> Ids \cup {NoId}]
    BY <1>1 DEF ReqTypeOK
  <2>2. /\ \A u \in fresh[r] : ids[r][u] \in Ids
        /\ \A u, v \in fresh[r] : ids[r][u] = ids[r][v] => u = v
    BY <1>1 DEF RequestOK, FreshOK
  <2> QED BY <1>1, <1>4, <2>1, <2>2, InsertBatchAssigns DEF InsertsBatch
<1>5. CASE LinksIds(r)
  <2>1. owner[r] \in Users /\ asked[r] \subseteq Urls
    BY <1>1, <1>5 DEF LinksIds, ReqTypeOK, Owners
  <2>2. fresh[r] = {}
    BY <1>1, <1>5 DEF LinksIds, RequestOK, StageOK
  <2>3. \A u \in asked[r] : ids[r][u] \in Ids /\ Exists(ids[r][u])
    BY <1>1, <2>1, <2>2, SentinelsAssumption DEF RequestOK, LearnedOK, Exists
  <2>4. shortIDs(r) \in SUBSET Ids /\ shortIDs(r) \subseteq Links!Assigned
    BY <1>1, <2>3, AssignedAreStored DEF shortIDs
  <2>5. Links!Own(owner[r], shortIDs(r))
    BY <1>5, <2>4 DEF LinksIds, AddUserURLs, Links!Own
  <2> QED BY <2>1, <2>4, <2>5 DEF Links!Next
<1> QED BY <1>2, <1>3, <1>4, <1>5, HandlerStep

LEMMA WorkerRefines ==
    ASSUME DelInv,
           \/ \E w \in Users, list \in Lists : EnqueueDelete(w, list)
           \/ Cancel \/ Worker
    PROVE  [Links!Next]_Links!links
<1>1. CASE UNCHANGED store
  BY <1>1 DEF store, Links!links
<1>2. ASSUME NEW w \in Users, MarkDeleted(w, pending[w]) PROVE Links!Next
  <2>1. pending[w] \cap user[w] \in SUBSET Ids
    BY DEF DelInv, DelTypeOK
  <2>2. Links!Remove(w, pending[w] \cap user[w])
    BY <1>2 DEF MarkDeleted, Links!Remove
  <2> QED BY <2>1, <2>2 DEF Links!Next
<1> QED BY <1>1, <1>2, WorkerStep

\* Whatever the handlers and the worker do, seen from outside they assign,
\* link and remove short links as ShortLinks says, and nothing else.
THEOREM ImplementsShortLinks == Spec => RefinesShortLinks
<1>1. Init => Links!Init
  BY DEF Init, ReqInit, StoreInit, Links!Init
<1>2. ServiceInv /\ [Next]_vars => [Links!Next]_Links!links
  <2>1. ASSUME UNCHANGED vars PROVE UNCHANGED Links!links
    BY <2>1 DEF vars, store, Links!links
  <2>2. ASSUME ServiceInv, Next PROVE [Links!Next]_Links!links
    BY <2>2, HandlerRefines, WorkerRefines
    DEF ServiceInv, Next, Requests, DeleteRequests, StopWorker, DeleteWorkerStep
  <2> QED BY <2>1, <2>2
<1> QED BY <1>1, <1>2, ServiceInvariant, PTL DEF Spec, RefinesShortLinks, Links!Spec
=============================================================================
