------------------------ MODULE ShortenRequestsProofs ------------------------
(***************************************************************************)
(* Proofs about ShortenRequests, for every set of requests, ids, URLs and  *)
(* users, with and without failing repository calls.                       *)
(***************************************************************************)
EXTENDS ShortenRequests, FiniteSetTheorems, TLAPS

(***************************************************************************)
(* What every step of every request does to the store: it keeps its type   *)
(* and its two indexes inverse, and adds records and links without ever    *)
(* taking one away.                                                        *)
(***************************************************************************)
Grows ==
    /\ \A i \in Ids  : Exists(i) => data'[i] = data[i]
    /\ \A u \in Urls : Known(u) => original'[u] = original[u]
    /\ \A w \in Users : user[w] \subseteq user'[w]

StoreStep == StoreTypeOK' /\ IndexesAgree' /\ Grows

\* A single insert of memory.go or of PostgreSQL is such a step.
LEMMA PutStep ==
    ASSUME StoreTypeOK, IndexesAgree, NEW i \in Ids, NEW u \in Urls, PutIfAbsent(i, u)
    PROVE  StoreStep
BY SentinelsAssumption
   DEF StoreTypeOK, IndexesAgree, PutIfAbsent, Fresh, Exists, Known, StoreStep, Grows

\* So is the insert of a batch, if its ids differ from one another.
LEMMA PutBatchStep ==
    ASSUME StoreTypeOK, IndexesAgree,
           NEW batch \in SUBSET Urls, NEW m \in [Urls -> Ids \cup {NoId}],
           \A u \in batch : m[u] \in Ids,
           \A u, v \in batch : m[u] = m[v] => u = v,
           PutBatchIfAbsent(batch, m)
    PROVE  StoreStep
<1> DEFINE stored == {u \in batch : Fresh(m[u], u)}
<1>1. /\ data' = [i \in Ids |-> IF \E u \in stored : m[u] = i
                                THEN CHOOSE u \in stored : m[u] = i ELSE data[i]]
      /\ original' = [u \in Urls |-> IF u \in stored THEN m[u] ELSE original[u]]
      /\ UNCHANGED <<user, known, deleted>>
  BY DEF PutBatchIfAbsent
<1>2. \A u \in stored : u \in Urls /\ m[u] \in Ids /\ data[m[u]] = NoUrl /\ original[u] = NoId
  BY DEF Fresh, Exists, Known
<1>3. \A u \in stored : data'[m[u]] = u
  <2>1. SUFFICES ASSUME NEW u \in stored PROVE data'[m[u]] = u
    OBVIOUS
  <2>2. \A v \in stored : m[v] = m[u] => v = u
    OBVIOUS
  <2>3. (CHOOSE v \in stored : m[v] = m[u]) = u
    BY <2>2
  <2> QED BY <1>1, <1>2, <2>3
<1>4. \A i \in Ids : (\A u \in stored : m[u] # i) => data'[i] = data[i]
  BY <1>1
<1>5. \A i \in Ids : data'[i] \in Urls \cup {NoUrl}
  BY <1>2, <1>3, <1>4 DEF StoreTypeOK
<1>6. StoreTypeOK'
  BY <1>1, <1>2, <1>5 DEF StoreTypeOK
<1>7. \A u \in Urls : original'[u] = IF u \in stored THEN m[u] ELSE original[u]
  BY <1>1
<1> HIDE DEF stored
<1>8. ASSUME NEW i \in Ids, NEW u \in Urls PROVE data'[i] = u <=> original'[u] = i
  <2>1. CASE u \in stored
    <3>1. data'[i] = u => m[u] = i
      <4>1. SUFFICES ASSUME data'[i] = u PROVE m[u] = i
        OBVIOUS
      <4>2. CASE \E v \in stored : m[v] = i
        BY <4>1, <4>2, <1>3
      <4>3. CASE \A v \in stored : m[v] # i
        BY <4>1, <4>3, <2>1, <1>2, <1>4, SentinelsAssumption DEF IndexesAgree
      <4> QED BY <4>2, <4>3
    <3> QED BY <3>1, <2>1, <1>3, <1>7
  <2>2. CASE u \notin stored
    <3>1. CASE \E v \in stored : m[v] = i
      BY <3>1, <2>2, <1>2, <1>3, <1>7, SentinelsAssumption DEF IndexesAgree
    <3>2. CASE \A v \in stored : m[v] # i
      BY <3>2, <2>2, <1>4, <1>7 DEF IndexesAgree
    <3> QED BY <3>1, <3>2
  <2> QED BY <2>1, <2>2
<1>9. Grows
  BY <1>1, <1>2, <1>4, <1>7 DEF Grows, Exists, Known
<1> QED BY <1>6, <1>8, <1>9 DEF StoreStep, IndexesAgree

\* Linking ids to a user touches neither index.
LEMMA LinkStep ==
    ASSUME StoreTypeOK, IndexesAgree, NEW w \in Users, NEW s \in SUBSET Ids, AddUserURLs(w, s)
    PROVE  StoreStep /\ UNCHANGED data
BY DEF StoreTypeOK, IndexesAgree, AddUserURLs, StoreStep, Grows

LEMMA IdleStep ==
    ASSUME StoreTypeOK, IndexesAgree, UNCHANGED store
    PROVE  StoreStep
BY DEF store, StoreTypeOK, IndexesAgree, StoreStep, Grows

-----------------------------------------------------------------------------
(***************************************************************************)
(* The invariant of one request.  An id is known to be right (stored under *)
(* its URL) exactly when the URL is in asked[r] but no longer in fresh[r]; *)
(* this is what an answer rests on, and it survives the steps of the other *)
(* requests because the store only grows.                                  *)
(***************************************************************************)
StageOK(r) ==
    /\ pc[r] \in {"new", "lookup", "put", "recheck", "link", "answered"} => fresh[r] = {}
    /\ pc[r] \in {"lookup", "put", "recheck", "lookupItem", "generate", "reget"} => url[r] \in Urls
    /\ pc[r] \in {"lookupItem", "generate"} => url[r] \notin asked[r] /\ todo[r] # <<>>
    /\ pc[r] \in {"new", "lookup"} => tries[r] = 0
    /\ pc[r] \in {"put", "generate"} => tries[r] < Tries
    /\ pc[r] = "reget" => url[r] \in fresh[r]
    /\ pc[r] = "lookup" => r \in Singles

LearnedOK(r) == \A u \in asked[r] \ fresh[r] : ids[r][u] \in Ids /\ data[ids[r][u]] = u

FreshOK(r) ==
    /\ \A u \in fresh[r] : u \in asked[r] /\ ids[r][u] \in Ids
    /\ \A u, v \in fresh[r] : ids[r][u] = ids[r][v] => u = v

ListedOK(r) == pc[r] = "answered" /\ owner[r] # NoUser => shortIDs(r) \subseteq user[owner[r]]

CreatedOK(r) ==
    created[r] => pc[r] \in {"link", "answered", "failed"} /\ url[r] \in Urls /\ Known(url[r])

RequestOK(r) == StageOK(r) /\ LearnedOK(r) /\ FreshOK(r) /\ ListedOK(r) /\ CreatedOK(r)

ReqInv ==
    /\ TypeOK
    /\ IndexesAgree
    /\ LinksResolve
    /\ CreatedOnce
    /\ \A r \in Reqs : RequestOK(r)

SameLocals(r) ==
    /\ pc'[r] = pc[r] /\ owner'[r] = owner[r] /\ url'[r] = url[r] /\ tries'[r] = tries[r]
    /\ asked'[r] = asked[r] /\ ids'[r] = ids[r] /\ created'[r] = created[r]
    /\ todo'[r] = todo[r] /\ fresh'[r] = fresh[r]

\* A step that leaves the locals of a request alone and lets the store grow
\* keeps the invariant of the request.
LEMMA OthersKeep ==
    ASSUME TypeOK, NEW r \in Reqs, RequestOK(r), StoreStep, SameLocals(r)
    PROVE  RequestOK(r)'
<1> USE DEF SameLocals, StoreStep, Grows
<1>1. StageOK(r)' BY DEF RequestOK, StageOK
<1>2. LearnedOK(r)'
  <2>1. asked[r] \subseteq Urls
    BY DEF TypeOK, ReqTypeOK
  <2>2. ASSUME NEW u \in asked[r] \ fresh[r]
        PROVE  ids[r][u] \in Ids /\ data[ids[r][u]] = u /\ data[ids[r][u]] # NoUrl
    BY <2>1, SentinelsAssumption DEF RequestOK, LearnedOK
  <2> QED BY <2>2 DEF LearnedOK, Exists
<1>3. FreshOK(r)' BY DEF RequestOK, FreshOK
<1>4. ListedOK(r)'
  <2>1. shortIDs(r)' = shortIDs(r)
    BY DEF shortIDs
  <2>2. owner[r] # NoUser => owner[r] \in Users
    BY DEF TypeOK, ReqTypeOK, Owners
  <2> QED BY <2>1, <2>2 DEF RequestOK, ListedOK
<1>5. CreatedOK(r)'
  BY SentinelsAssumption DEF RequestOK, CreatedOK, Known
<1> QED BY <1>1, <1>2, <1>3, <1>4, <1>5 DEF RequestOK

Kept(r) == \A s \in Reqs \ {r} : SameLocals(s)

\* What is left to show of a step of r, the other requests being left alone.
LEMMA OneMoves ==
    ASSUME ReqInv, NEW r \in Reqs, StoreStep, ReqTypeOK', Kept(r), RequestOK(r)',
           LinksResolve', CreatedOnce'
    PROVE  ReqInv' /\ Grows
<1>1. ASSUME NEW s \in Reqs PROVE RequestOK(s)'
  <2>1. CASE s = r
    BY <2>1
  <2>2. CASE s # r
    <3>1. SameLocals(s)
      BY <2>2 DEF Kept
    <3>2. RequestOK(s) /\ TypeOK
      BY DEF ReqInv
    <3> QED BY <3>1, <3>2, OthersKeep
  <2> QED BY <2>1, <2>2
<1> QED BY <1>1 DEF ReqInv, TypeOK, StoreStep

\* Links stay resolved as long as no user gets a new one.
LEMMA LinksKept ==
    ASSUME TypeOK, LinksResolve, StoreStep, UNCHANGED user
    PROVE  LinksResolve'
BY SentinelsAssumption
   DEF TypeOK, StoreTypeOK, LinksResolve, StoreStep, Grows, Exists

\* A request that is not among the creators has not changed them either.
LEMMA CreatedKept ==
    ASSUME CreatedOnce, NEW r \in Reqs, Kept(r), created'[r] = created[r],
           created[r] => url'[r] = url[r]
    PROVE  CreatedOnce'
<1>1. \A s \in Reqs : created'[s] = created[s] /\ (created[s] => url'[s] = url[s])
  BY DEF Kept, SameLocals
<1> QED BY <1>1 DEF CreatedOnce, Reqs

\* Steps in which the request learns nothing, with or without a write.
LEMMA ControlStep ==
    ASSUME ReqInv, NEW r \in Reqs, StoreStep, UNCHANGED user, ReqTypeOK', Kept(r),
           pc[r] \notin {"link", "answered", "failed"}, pc'[r] # "answered",
           UNCHANGED <<asked, ids, created, fresh>>, StageOK(r)'
    PROVE  ReqInv' /\ Grows
<1>1. RequestOK(r) /\ TypeOK /\ LinksResolve /\ CreatedOnce
  BY DEF ReqInv
<1>2. ~created[r]
  BY <1>1 DEF RequestOK, CreatedOK
<1>3. LearnedOK(r)'
  <2>1. ASSUME NEW u \in asked[r] \ fresh[r]
        PROVE  ids[r][u] \in Ids /\ data[ids[r][u]] = u /\ data[ids[r][u]] # NoUrl
    BY <1>1, SentinelsAssumption DEF TypeOK, ReqTypeOK, RequestOK, LearnedOK
  <2> QED BY <2>1 DEF LearnedOK, StoreStep, Grows, Exists
<1>4. FreshOK(r)'
  BY <1>1 DEF RequestOK, FreshOK
<1>5. ListedOK(r)' /\ CreatedOK(r)'
  BY <1>2 DEF ListedOK, CreatedOK
<1>6. LinksResolve' /\ CreatedOnce'
  BY <1>1, <1>2, LinksKept, CreatedKept
<1> QED BY <1>3, <1>4, <1>5, <1>6, OneMoves DEF RequestOK

\* Steps in which it reads the id the URL under consideration is stored with.
LEMMA LearnStep ==
    ASSUME ReqInv, NEW r \in Reqs, UNCHANGED <<store, url, created>>, ReqTypeOK', Kept(r),
           pc[r] \notin {"link", "answered", "failed"}, pc'[r] # "answered",
           url[r] \in Urls, Known(url[r]), learn(r, url[r], original[url[r]]),
           fresh'[r] = fresh[r] \ {url[r]}, StageOK(r)'
    PROVE  ReqInv' /\ Grows
<1>1. RequestOK(r) /\ TypeOK /\ LinksResolve /\ CreatedOnce /\ IndexesAgree
  BY DEF ReqInv
<1>2. ~created[r]
  BY <1>1 DEF RequestOK, CreatedOK
<1>3. StoreStep /\ UNCHANGED user
  BY <1>1, IdleStep DEF TypeOK, store
<1> DEFINE i == original[url[r]]
<1>4. i \in Ids /\ data[i] = url[r] /\ data' = data
  BY <1>1 DEF TypeOK, StoreTypeOK, Known, IndexesAgree, store
<1>5. /\ asked'[r] = asked[r] \cup {url[r]}
      /\ ids'[r] = [ids[r] EXCEPT ![url[r]] = i]
  BY <1>1 DEF TypeOK, ReqTypeOK, learn
<1>6. /\ ids'[r][url[r]] = i
      /\ \A u \in Urls \ {url[r]} : ids'[r][u] = ids[r][u]
  BY <1>1, <1>5 DEF TypeOK, ReqTypeOK
<1>7. asked[r] \subseteq Urls /\ fresh[r] \subseteq Urls
  BY <1>1 DEF TypeOK, ReqTypeOK
<1> HIDE DEF i
<1>8. LearnedOK(r)'
  BY <1>1, <1>4, <1>5, <1>6, <1>7 DEF RequestOK, LearnedOK
<1>9. FreshOK(r)'
  BY <1>1, <1>5, <1>6, <1>7 DEF RequestOK, FreshOK
<1>10. ListedOK(r)' /\ CreatedOK(r)'
  BY <1>2 DEF ListedOK, CreatedOK
<1>11. LinksResolve' /\ CreatedOnce'
  BY <1>1, <1>2, <1>3, LinksKept, CreatedKept
<1> QED BY <1>3, <1>8, <1>9, <1>10, <1>11, OneMoves DEF RequestOK

-----------------------------------------------------------------------------
(***************************************************************************)
(* The actions of a single request.                                        *)
(***************************************************************************)
LEMMA ReceiveInv ==
    ASSUME ReqInv, NEW r \in Reqs, NEW w \in Owners, NEW raw \in Raws, Receive(r, w, raw)
    PROVE  ReqInv' /\ Grows
<1>1. RequestOK(r) /\ TypeOK /\ IndexesAgree
  BY DEF ReqInv
<1>2. StoreStep
  BY <1>1, IdleStep DEF TypeOK, Receive
<1>3. ReqTypeOK'
  BY <1>1, RequestsAssumption DEF TypeOK, ReqTypeOK, Receive, goto, Stages
<1>4. Kept(r)
  BY <1>1 DEF TypeOK, ReqTypeOK, Kept, SameLocals, Receive, goto
<1>5. StageOK(r)'
  BY <1>1, RequestsAssumption DEF TypeOK, ReqTypeOK, RequestOK, StageOK, Receive, goto
<1>6. pc[r] \notin {"link", "answered", "failed"} /\ pc'[r] # "answered"
  BY <1>1 DEF TypeOK, ReqTypeOK, Receive, goto
<1> QED BY <1>2, <1>3, <1>4, <1>5, <1>6, ControlStep DEF Receive, store

LEMMA LookupHitInv ==
    ASSUME ReqInv, NEW r \in Reqs, LookupHit(r)
    PROVE  ReqInv' /\ Grows
<1>1. RequestOK(r) /\ TypeOK /\ IndexesAgree
  BY DEF ReqInv
<1>2. url[r] \in Urls /\ fresh[r] = {}
  BY <1>1 DEF RequestOK, StageOK, LookupHit
<1>3. original[url[r]] \in Ids
  BY <1>1, <1>2 DEF TypeOK, StoreTypeOK, LookupHit, Known
<1>4. ReqTypeOK'
  BY <1>1, <1>2, <1>3 DEF TypeOK, ReqTypeOK, LookupHit, learn, goto, Stages
<1>5. Kept(r)
  BY <1>1 DEF TypeOK, ReqTypeOK, Kept, SameLocals, LookupHit, learn, goto
<1>6. StageOK(r)'
  BY <1>1, <1>2 DEF TypeOK, ReqTypeOK, RequestOK, StageOK, LookupHit, goto
<1>7. /\ pc[r] \notin {"link", "answered", "failed"} /\ pc'[r] # "answered"
      /\ fresh'[r] = fresh[r] \ {url[r]}
  BY <1>1, <1>2 DEF TypeOK, ReqTypeOK, LookupHit, goto
<1> QED BY <1>2, <1>4, <1>5, <1>6, <1>7, LearnStep DEF LookupHit

LEMMA LookupMissInv ==
    ASSUME ReqInv, NEW r \in Reqs, LookupMiss(r)
    PROVE  ReqInv' /\ Grows
<1>1. RequestOK(r) /\ TypeOK /\ IndexesAgree
  BY DEF ReqInv
<1>2. StoreStep
  BY <1>1, IdleStep DEF TypeOK, LookupMiss
<1>3. ReqTypeOK'
  BY <1>1 DEF TypeOK, ReqTypeOK, LookupMiss, goto, Stages
<1>4. Kept(r)
  BY <1>1 DEF TypeOK, ReqTypeOK, Kept, SameLocals, LookupMiss, goto
<1>5. StageOK(r)'
  BY <1>1, RequestsAssumption DEF TypeOK, ReqTypeOK, RequestOK, StageOK, LookupMiss, goto
<1>6. pc[r] \notin {"link", "answered", "failed"} /\ pc'[r] # "answered"
  BY <1>1 DEF TypeOK, ReqTypeOK, LookupMiss, goto
<1> QED BY <1>2, <1>3, <1>4, <1>5, <1>6, ControlStep DEF LookupMiss, store

LEMMA PutCollidesInv ==
    ASSUME ReqInv, NEW r \in Reqs, NEW i \in Ids, PutCollides(r, i)
    PROVE  ReqInv' /\ Grows
<1>1. RequestOK(r) /\ TypeOK /\ IndexesAgree
  BY DEF ReqInv
<1>2. StoreStep
  BY <1>1, IdleStep DEF TypeOK, PutCollides
<1>3. tries[r] < Tries /\ tries[r] \in Nat /\ Tries \in Nat
  BY <1>1, RequestsAssumption DEF TypeOK, ReqTypeOK, RequestOK, StageOK, PutCollides
<1>4. ReqTypeOK'
  BY <1>1, <1>3 DEF TypeOK, ReqTypeOK, PutCollides, goto, Stages
<1>5. Kept(r)
  BY <1>1 DEF TypeOK, ReqTypeOK, Kept, SameLocals, PutCollides, goto
<1>6. StageOK(r)'
  BY <1>1, <1>3 DEF TypeOK, ReqTypeOK, RequestOK, StageOK, PutCollides, goto
<1>7. pc[r] \notin {"link", "answered", "failed"} /\ pc'[r] # "answered"
  BY <1>1 DEF TypeOK, ReqTypeOK, PutCollides, goto
<1> QED BY <1>2, <1>4, <1>5, <1>6, <1>7, ControlStep DEF PutCollides, store

LEMMA PutErrsInv ==
    ASSUME ReqInv, NEW r \in Reqs, NEW i \in Ids, PutErrs(r, i)
    PROVE  ReqInv' /\ Grows
<1>1. RequestOK(r) /\ TypeOK /\ IndexesAgree
  BY DEF ReqInv
<1>2. url[r] \in Urls
  BY <1>1 DEF RequestOK, StageOK, PutErrs
<1>3. StoreStep
  BY <1>1, <1>2, IdleStep, PutStep DEF TypeOK, PutErrs
<1>4. UNCHANGED user
  BY DEF PutErrs, PutIfAbsent, store
<1>5. ReqTypeOK'
  BY <1>1 DEF TypeOK, ReqTypeOK, PutErrs, goto, Stages
<1>6. Kept(r)
  BY <1>1 DEF TypeOK, ReqTypeOK, Kept, SameLocals, PutErrs, goto
<1>7. StageOK(r)'
  BY <1>1, <1>2 DEF TypeOK, ReqTypeOK, RequestOK, StageOK, PutErrs, goto
<1>8. pc[r] \notin {"link", "answered", "failed"} /\ pc'[r] # "answered"
  BY <1>1 DEF TypeOK, ReqTypeOK, PutErrs, goto
<1> QED BY <1>3, <1>4, <1>5, <1>6, <1>7, <1>8, ControlStep DEF PutErrs

LEMMA RecheckHitInv ==
    ASSUME ReqInv, NEW r \in Reqs, RecheckHit(r)
    PROVE  ReqInv' /\ Grows
<1>1. RequestOK(r) /\ TypeOK /\ IndexesAgree
  BY DEF ReqInv
<1>2. url[r] \in Urls /\ fresh[r] = {}
  BY <1>1 DEF RequestOK, StageOK, RecheckHit
<1>3. original[url[r]] \in Ids
  BY <1>1, <1>2 DEF TypeOK, StoreTypeOK, RecheckHit, Known
<1>4. ReqTypeOK'
  BY <1>1, <1>2, <1>3 DEF TypeOK, ReqTypeOK, RecheckHit, learn, goto, Stages
<1>5. Kept(r)
  BY <1>1 DEF TypeOK, ReqTypeOK, Kept, SameLocals, RecheckHit, learn, goto
<1>6. StageOK(r)'
  BY <1>1, <1>2 DEF TypeOK, ReqTypeOK, RequestOK, StageOK, RecheckHit, goto
<1>7. /\ pc[r] \notin {"link", "answered", "failed"} /\ pc'[r] # "answered"
      /\ fresh'[r] = fresh[r] \ {url[r]}
  BY <1>1, <1>2 DEF TypeOK, ReqTypeOK, RecheckHit, goto
<1> QED BY <1>2, <1>4, <1>5, <1>6, <1>7, LearnStep DEF RecheckHit

LEMMA RecheckMissInv ==
    ASSUME ReqInv, NEW r \in Reqs, RecheckMiss(r)
    PROVE  ReqInv' /\ Grows
<1>1. RequestOK(r) /\ TypeOK /\ IndexesAgree
  BY DEF ReqInv
<1>2. StoreStep
  BY <1>1, IdleStep DEF TypeOK, RecheckMiss
<1>3. ReqTypeOK'
  BY <1>1 DEF TypeOK, ReqTypeOK, RecheckMiss, goto, Stages
<1>4. Kept(r)
  BY <1>1 DEF TypeOK, ReqTypeOK, Kept, SameLocals, RecheckMiss, goto
<1>5. StageOK(r)'
  BY <1>1 DEF TypeOK, ReqTypeOK, RequestOK, StageOK, RecheckMiss, goto
<1>6. pc[r] \notin {"link", "answered", "failed"} /\ pc'[r] # "answered"
  BY <1>1 DEF TypeOK, ReqTypeOK, RecheckMiss, goto
<1> QED BY <1>2, <1>3, <1>4, <1>5, <1>6, ControlStep DEF RecheckMiss, store

\* The one step that makes a request the creator of its URL: nobody can have
\* been told "created" for it before, for then it would be in the store.
LEMMA PutCreatesInv ==
    ASSUME ReqInv, NEW r \in Reqs, NEW i \in Ids, PutCreates(r, i)
    PROVE  ReqInv' /\ Grows
<1>1. RequestOK(r) /\ TypeOK /\ IndexesAgree /\ LinksResolve /\ CreatedOnce
  BY DEF ReqInv
<1>2. url[r] \in Urls /\ fresh[r] = {}
  BY <1>1 DEF RequestOK, StageOK, PutCreates
<1>3. StoreStep
  BY <1>1, <1>2, PutStep DEF TypeOK, PutCreates
<1>4. ReqTypeOK'
  BY <1>1, <1>2 DEF TypeOK, ReqTypeOK, PutCreates, learn, goto, Stages
<1>5. Kept(r)
  BY <1>1 DEF TypeOK, ReqTypeOK, Kept, SameLocals, PutCreates, learn, goto
<1>6. /\ pc'[r] = "link" /\ created'[r] = TRUE /\ url' = url /\ fresh'[r] = {}
      /\ data'[i] = url[r] /\ original'[url[r]] = i
      /\ asked'[r] = asked[r] \cup {url[r]}
      /\ ids'[r] = [ids[r] EXCEPT ![url[r]] = i]
  BY <1>1, <1>2 DEF TypeOK, StoreTypeOK, ReqTypeOK, PutCreates, PutIfAbsent, learn, goto
<1>7. StageOK(r)'
  BY <1>1, <1>2, <1>6 DEF RequestOK, StageOK
<1>8. LearnedOK(r)'
  <2>1. asked[r] \subseteq Urls
    BY <1>1 DEF TypeOK, ReqTypeOK
  <2>2. \A u \in asked[r] : ids[r][u] \in Ids /\ data[ids[r][u]] = u /\ data[ids[r][u]] # NoUrl
    BY <1>1, <1>2, <2>1, SentinelsAssumption DEF RequestOK, LearnedOK
  <2>3. \A u \in asked[r] : data'[ids[r][u]] = u
    BY <1>3, <2>2 DEF StoreStep, Grows, Exists
  <2>4. /\ ids'[r][url[r]] = i
        /\ \A u \in asked[r] \ {url[r]} : ids'[r][u] = ids[r][u]
    BY <1>1, <1>2, <1>6, <2>1 DEF TypeOK, ReqTypeOK
  <2> QED BY <1>6, <2>2, <2>3, <2>4 DEF LearnedOK
<1>9. FreshOK(r)' /\ ListedOK(r)'
  BY <1>6 DEF FreshOK, ListedOK
<1>10. CreatedOK(r)'
  BY <1>2, <1>6, SentinelsAssumption DEF CreatedOK, Known
<1>11. LinksResolve'
  BY <1>1, <1>3, LinksKept DEF PutCreates, PutIfAbsent
<1>12. CreatedOnce'
  <2>1. \A s \in Reqs : created[s] => Known(url[s])
    BY DEF ReqInv, RequestOK, CreatedOK
  <2>2. ~Known(url[r])
    BY DEF PutCreates, PutIfAbsent, Fresh
  <2>3. \A s \in Reqs \ {r} : created'[s] = created[s]
    BY <1>5 DEF Kept, SameLocals
  <2> QED BY <1>1, <1>6, <2>1, <2>2, <2>3 DEF CreatedOnce, Reqs
<1> QED BY <1>3, <1>4, <1>5, <1>7, <1>8, <1>9, <1>10, <1>11, <1>12, OneMoves DEF RequestOK

-----------------------------------------------------------------------------
(***************************************************************************)
(* The actions of a batch request.                                         *)
(***************************************************************************)
LEMMA ReceiveBatchInv ==
    ASSUME ReqInv, NEW r \in Reqs, NEW w \in Owners, NEW items \in Inputs,
           ReceiveBatch(r, w, items)
    PROVE  ReqInv' /\ Grows
<1>1. RequestOK(r) /\ TypeOK /\ IndexesAgree
  BY DEF ReqInv
<1>2. StoreStep
  BY <1>1, IdleStep DEF TypeOK, ReceiveBatch
<1>3. items \in Seq(Raws)
  <2>1. PICK n \in 1..MaxItems : items \in [1..n -> Raws]
    BY DEF Inputs
  <2> QED BY <2>1, RequestsAssumption
<1>4. ReqTypeOK'
  BY <1>1, <1>3 DEF TypeOK, ReqTypeOK, ReceiveBatch, goto, Stages
<1>5. Kept(r)
  BY <1>1 DEF TypeOK, ReqTypeOK, Kept, SameLocals, ReceiveBatch, goto
<1>6. StageOK(r)'
  BY <1>1 DEF TypeOK, ReqTypeOK, RequestOK, StageOK, ReceiveBatch, goto
<1>7. pc[r] \notin {"link", "answered", "failed"} /\ pc'[r] # "answered"
  BY <1>1 DEF TypeOK, ReqTypeOK, ReceiveBatch, goto
<1> QED BY <1>2, <1>4, <1>5, <1>6, <1>7, ControlStep DEF ReceiveBatch, store

LEMMA NextItemInv ==
    ASSUME ReqInv, NEW r \in Reqs, NextItem(r)
    PROVE  ReqInv' /\ Grows
<1>1. RequestOK(r) /\ TypeOK /\ IndexesAgree
  BY DEF ReqInv
<1>2. StoreStep
  BY <1>1, IdleStep DEF TypeOK, NextItem
<1>3. todo[r] \in Seq(Raws) /\ todo[r] # <<>> /\ Tail(todo[r]) \in Seq(Raws)
  BY <1>1 DEF TypeOK, ReqTypeOK, NextItem
<1>4. ReqTypeOK'
  BY <1>1, <1>3 DEF TypeOK, ReqTypeOK, NextItem, popItem, goto, Stages
<1>5. Kept(r)
  BY <1>1 DEF TypeOK, ReqTypeOK, Kept, SameLocals, NextItem, popItem, goto
<1>6. StageOK(r)'
  BY <1>1, <1>3 DEF TypeOK, ReqTypeOK, RequestOK, StageOK, NextItem, popItem, goto
<1>7. pc[r] \notin {"link", "answered", "failed"} /\ pc'[r] # "answered"
  BY <1>1 DEF TypeOK, ReqTypeOK, NextItem, goto
<1> QED BY <1>2, <1>4, <1>5, <1>6, <1>7, ControlStep DEF NextItem, store

LEMMA LookupItemHitInv ==
    ASSUME ReqInv, NEW r \in Reqs, LookupItemHit(r)
    PROVE  ReqInv' /\ Grows
<1>1. RequestOK(r) /\ TypeOK /\ IndexesAgree
  BY DEF ReqInv
<1>2. url[r] \in Urls /\ url[r] \notin fresh[r] /\ todo[r] # <<>>
  BY <1>1 DEF RequestOK, StageOK, FreshOK, LookupItemHit
<1>3. original[url[r]] \in Ids
  BY <1>1, <1>2 DEF TypeOK, StoreTypeOK, LookupItemHit, Known
<1>4. Tail(todo[r]) \in Seq(Raws)
  BY <1>1, <1>2 DEF TypeOK, ReqTypeOK
<1>5. ReqTypeOK'
  BY <1>1, <1>2, <1>3, <1>4 DEF TypeOK, ReqTypeOK, LookupItemHit, learn, popItem, goto, Stages
<1>6. Kept(r)
  BY <1>1 DEF TypeOK, ReqTypeOK, Kept, SameLocals, LookupItemHit, learn, popItem, goto
<1>7. StageOK(r)'
  BY <1>1, <1>2 DEF TypeOK, ReqTypeOK, RequestOK, StageOK, LookupItemHit, goto
<1>8. /\ pc[r] \notin {"link", "answered", "failed"} /\ pc'[r] # "answered"
      /\ fresh'[r] = fresh[r] \ {url[r]}
  BY <1>1, <1>2 DEF TypeOK, ReqTypeOK, LookupItemHit, goto
<1> QED BY <1>2, <1>5, <1>6, <1>7, <1>8, LearnStep DEF LookupItemHit

LEMMA LookupItemMissInv ==
    ASSUME ReqInv, NEW r \in Reqs, LookupItemMiss(r)
    PROVE  ReqInv' /\ Grows
<1>1. RequestOK(r) /\ TypeOK /\ IndexesAgree
  BY DEF ReqInv
<1>2. StoreStep
  BY <1>1, IdleStep DEF TypeOK, LookupItemMiss
<1>3. ReqTypeOK'
  BY <1>1, RequestsAssumption DEF TypeOK, ReqTypeOK, LookupItemMiss, goto, Stages
<1>4. Kept(r)
  BY <1>1 DEF TypeOK, ReqTypeOK, Kept, SameLocals, LookupItemMiss, goto
<1>5. StageOK(r)'
  BY <1>1, RequestsAssumption
     DEF TypeOK, ReqTypeOK, RequestOK, StageOK, LookupItemMiss, goto
<1>6. pc[r] \notin {"link", "answered", "failed"} /\ pc'[r] # "answered"
  BY <1>1 DEF TypeOK, ReqTypeOK, LookupItemMiss, goto
<1> QED BY <1>2, <1>3, <1>4, <1>5, <1>6, ControlStep DEF LookupItemMiss, store

\* The generated id is not among usedIDs, so the ids of toCreate stay distinct.
LEMMA GenerateIDInv ==
    ASSUME ReqInv, NEW r \in Reqs, NEW i \in Ids, GenerateID(r, i)
    PROVE  ReqInv' /\ Grows
<1>1. RequestOK(r) /\ TypeOK /\ IndexesAgree /\ LinksResolve /\ CreatedOnce
  BY DEF ReqInv
<1>2. /\ url[r] \in Urls /\ url[r] \notin asked[r] /\ url[r] \notin fresh[r]
      /\ todo[r] # <<>> /\ ~created[r]
  BY <1>1 DEF RequestOK, StageOK, FreshOK, CreatedOK, GenerateID
<1>3. StoreStep /\ UNCHANGED <<user, data>>
  BY <1>1, IdleStep DEF TypeOK, GenerateID, store
<1>4. Tail(todo[r]) \in Seq(Raws)
  BY <1>1, <1>2 DEF TypeOK, ReqTypeOK
<1>5. ReqTypeOK'
  BY <1>1, <1>2, <1>4 DEF TypeOK, ReqTypeOK, GenerateID, learn, popItem, goto, Stages
<1>6. Kept(r)
  BY <1>1 DEF TypeOK, ReqTypeOK, Kept, SameLocals, GenerateID, learn, popItem, goto
<1>7. /\ pc'[r] = "item" /\ created' = created /\ url' = url
      /\ fresh'[r] = fresh[r] \cup {url[r]}
      /\ asked'[r] = asked[r] \cup {url[r]}
      /\ ids'[r][url[r]] = i
      /\ \A u \in Urls \ {url[r]} : ids'[r][u] = ids[r][u]
  BY <1>1, <1>2 DEF TypeOK, ReqTypeOK, GenerateID, learn, goto
<1>8. asked[r] \subseteq Urls /\ fresh[r] \subseteq Urls
  BY <1>1 DEF TypeOK, ReqTypeOK
<1>9. StageOK(r)'
  BY <1>7 DEF StageOK
<1>10. LearnedOK(r)'
  BY <1>1, <1>2, <1>3, <1>7, <1>8 DEF RequestOK, LearnedOK
<1>11. FreshOK(r)'
  <2>1. \A u \in fresh[r] : ids[r][u] # i
    BY DEF GenerateID, usedIDs
  <2> QED BY <1>1, <1>2, <1>7, <1>8, <2>1 DEF RequestOK, FreshOK
<1>12. ListedOK(r)' /\ CreatedOK(r)'
  BY <1>2, <1>7 DEF ListedOK, CreatedOK
<1>13. LinksResolve' /\ CreatedOnce'
  BY <1>1, <1>3, <1>6, <1>7, LinksKept, CreatedKept
<1> QED BY <1>3, <1>5, <1>6, <1>9, <1>10, <1>11, <1>12, <1>13, OneMoves DEF RequestOK

LEMMA GenerateCollidesInv ==
    ASSUME ReqInv, NEW r \in Reqs, NEW i \in Ids, GenerateCollides(r, i)
    PROVE  ReqInv' /\ Grows
<1>1. RequestOK(r) /\ TypeOK /\ IndexesAgree
  BY DEF ReqInv
<1>2. StoreStep
  BY <1>1, IdleStep DEF TypeOK, GenerateCollides
<1>3. tries[r] < Tries /\ tries[r] \in Nat /\ Tries \in Nat
  BY <1>1, RequestsAssumption DEF TypeOK, ReqTypeOK, RequestOK, StageOK, GenerateCollides
<1>4. ReqTypeOK'
  BY <1>1, <1>3 DEF TypeOK, ReqTypeOK, GenerateCollides, goto, Stages
<1>5. Kept(r)
  BY <1>1 DEF TypeOK, ReqTypeOK, Kept, SameLocals, GenerateCollides, goto
<1>6. StageOK(r)'
  BY <1>1, <1>3 DEF TypeOK, ReqTypeOK, RequestOK, StageOK, GenerateCollides, goto
<1>7. pc[r] \notin {"link", "answered", "failed"} /\ pc'[r] # "answered"
  BY <1>1 DEF TypeOK, ReqTypeOK, GenerateCollides, goto
<1> QED BY <1>2, <1>4, <1>5, <1>6, <1>7, ControlStep DEF GenerateCollides, store

LEMMA EndOfItemsInv ==
    ASSUME ReqInv, NEW r \in Reqs, EndOfItems(r)
    PROVE  ReqInv' /\ Grows
<1>1. RequestOK(r) /\ TypeOK /\ IndexesAgree
  BY DEF ReqInv
<1>2. StoreStep
  BY <1>1, IdleStep DEF TypeOK, EndOfItems
<1>3. ReqTypeOK'
  BY <1>1 DEF TypeOK, ReqTypeOK, EndOfItems, goto, Stages
<1>4. Kept(r)
  BY <1>1 DEF TypeOK, ReqTypeOK, Kept, SameLocals, EndOfItems, goto
<1>5. StageOK(r)'
  BY <1>1 DEF TypeOK, ReqTypeOK, RequestOK, StageOK, EndOfItems, goto
<1>6. pc[r] \notin {"link", "answered", "failed"} /\ pc'[r] # "answered"
  BY <1>1 DEF TypeOK, ReqTypeOK, EndOfItems, goto
<1> QED BY <1>2, <1>3, <1>4, <1>5, <1>6, ControlStep DEF EndOfItems, store

\* FreshOK is what PutBatchStep needs to store the items independently.
LEMMA PutBatchInv ==
    ASSUME ReqInv, NEW r \in Reqs, PutBatch(r) \/ PutBatchErrs(r)
    PROVE  ReqInv' /\ Grows
<1> USE DEF PutBatch, PutBatchErrs
<1>1. RequestOK(r) /\ TypeOK /\ IndexesAgree
  BY DEF ReqInv
<1>2. fresh[r] \in SUBSET Urls /\ ids[r] \in [Urls -> Ids \cup {NoId}]
  BY <1>1 DEF TypeOK, ReqTypeOK
<1>3. /\ \A u \in fresh[r] : ids[r][u] \in Ids
      /\ \A u, v \in fresh[r] : ids[r][u] = ids[r][v] => u = v
  BY <1>1 DEF RequestOK, FreshOK
<1>4. StoreStep
  BY <1>1, <1>2, <1>3, PutBatchStep, IdleStep DEF TypeOK
<1>5. UNCHANGED user
  BY DEF PutBatchIfAbsent, store
<1>6. ReqTypeOK'
  BY <1>1 DEF TypeOK, ReqTypeOK, goto, Stages
<1>7. Kept(r)
  BY <1>1 DEF TypeOK, ReqTypeOK, Kept, SameLocals, goto
<1>8. StageOK(r)'
  BY <1>1 DEF TypeOK, ReqTypeOK, RequestOK, StageOK, goto
<1>9. pc[r] \notin {"link", "answered", "failed"} /\ pc'[r] # "answered"
  BY <1>1 DEF TypeOK, ReqTypeOK, goto
<1> QED BY <1>4, <1>5, <1>6, <1>7, <1>8, <1>9, ControlStep

\* Reading our URL back is what moves it from "generated" to "known right".
LEMMA VerifyOursInv ==
    ASSUME ReqInv, NEW r \in Reqs, NEW u \in Urls, VerifyOurs(r, u)
    PROVE  ReqInv' /\ Grows
<1>1. RequestOK(r) /\ TypeOK /\ IndexesAgree /\ LinksResolve /\ CreatedOnce
  BY DEF ReqInv
<1>2. ~created[r]
  BY <1>1 DEF RequestOK, CreatedOK, VerifyOurs
<1>3. StoreStep /\ UNCHANGED <<user, data>>
  BY <1>1, IdleStep DEF TypeOK, VerifyOurs, store
<1>4. ReqTypeOK'
  BY <1>1 DEF TypeOK, ReqTypeOK, VerifyOurs, verified, goto, Stages
<1>5. Kept(r)
  BY <1>1 DEF TypeOK, ReqTypeOK, Kept, SameLocals, VerifyOurs, verified, goto
<1>6. /\ pc'[r] = IF fresh[r] \subseteq {u} THEN "link" ELSE "verify"
      /\ fresh'[r] = fresh[r] \ {u}
      /\ UNCHANGED <<created, url, asked, ids>>
  BY <1>1 DEF TypeOK, ReqTypeOK, VerifyOurs, verified, goto
<1>7. StageOK(r)'
  BY <1>6 DEF StageOK
<1>8. LearnedOK(r)'
  BY <1>1, <1>3, <1>6 DEF RequestOK, LearnedOK, FreshOK, VerifyOurs
<1>9. FreshOK(r)'
  BY <1>1, <1>6 DEF RequestOK, FreshOK
<1>10. ListedOK(r)' /\ CreatedOK(r)'
  BY <1>2, <1>6 DEF ListedOK, CreatedOK
<1>11. LinksResolve' /\ CreatedOnce'
  BY <1>1, <1>3, <1>5, <1>6, LinksKept, CreatedKept
<1> QED BY <1>3, <1>4, <1>5, <1>7, <1>8, <1>9, <1>10, <1>11, OneMoves DEF RequestOK

LEMMA VerifyOtherInv ==
    ASSUME ReqInv, NEW r \in Reqs, NEW u \in Urls, VerifyOther(r, u)
    PROVE  ReqInv' /\ Grows
<1>1. RequestOK(r) /\ TypeOK /\ IndexesAgree
  BY DEF ReqInv
<1>2. StoreStep
  BY <1>1, IdleStep DEF TypeOK, VerifyOther
<1>3. ReqTypeOK'
  BY <1>1 DEF TypeOK, ReqTypeOK, VerifyOther, goto, Stages
<1>4. Kept(r)
  BY <1>1 DEF TypeOK, ReqTypeOK, Kept, SameLocals, VerifyOther, goto
<1>5. StageOK(r)'
  BY <1>1 DEF TypeOK, ReqTypeOK, RequestOK, StageOK, VerifyOther, goto
<1>6. pc[r] \notin {"link", "answered", "failed"} /\ pc'[r] # "answered"
  BY <1>1 DEF TypeOK, ReqTypeOK, VerifyOther, goto
<1> QED BY <1>2, <1>3, <1>4, <1>5, <1>6, ControlStep DEF VerifyOther, store

LEMMA RegetHitInv ==
    ASSUME ReqInv, NEW r \in Reqs, RegetHit(r)
    PROVE  ReqInv' /\ Grows
<1>1. RequestOK(r) /\ TypeOK /\ IndexesAgree
  BY DEF ReqInv
<1>2. url[r] \in Urls /\ Known(url[r]) /\ UNCHANGED <<store, url, created>>
  BY <1>1 DEF RequestOK, StageOK, RegetHit
<1>3. original[url[r]] \in Ids
  BY <1>1, <1>2 DEF TypeOK, StoreTypeOK, Known
<1>4. learn(r, url[r], original[url[r]]) /\ verified(r, url[r]) /\ pc[r] = "reget"
  BY DEF RegetHit
<1>5. ReqTypeOK'
  BY <1>1, <1>2, <1>3 DEF TypeOK, ReqTypeOK, RegetHit, verified, learn, goto, Stages
<1>6. Kept(r)
  BY <1>1 DEF TypeOK, ReqTypeOK, Kept, SameLocals, RegetHit, verified, learn, goto
<1>7. /\ pc'[r] = IF fresh[r] \subseteq {url[r]} THEN "link" ELSE "verify"
      /\ fresh'[r] = fresh[r] \ {url[r]}
  BY <1>1, <1>4 DEF TypeOK, ReqTypeOK, verified, goto
<1>8. StageOK(r)'
  BY <1>7 DEF StageOK
<1> QED BY <1>2, <1>4, <1>5, <1>6, <1>7, <1>8, LearnStep

LEMMA RegetMissInv ==
    ASSUME ReqInv, NEW r \in Reqs, RegetMiss(r)
    PROVE  ReqInv' /\ Grows
<1>1. RequestOK(r) /\ TypeOK /\ IndexesAgree
  BY DEF ReqInv
<1>2. StoreStep
  BY <1>1, IdleStep DEF TypeOK, RegetMiss
<1>3. ReqTypeOK'
  BY <1>1 DEF TypeOK, ReqTypeOK, RegetMiss, goto, Stages
<1>4. Kept(r)
  BY <1>1 DEF TypeOK, ReqTypeOK, Kept, SameLocals, RegetMiss, goto
<1>5. StageOK(r)'
  BY <1>1 DEF TypeOK, ReqTypeOK, RequestOK, StageOK, RegetMiss, goto
<1>6. pc[r] \notin {"link", "answered", "failed"} /\ pc'[r] # "answered"
  BY <1>1 DEF TypeOK, ReqTypeOK, RegetMiss, goto
<1> QED BY <1>2, <1>3, <1>4, <1>5, <1>6, ControlStep DEF RegetMiss, store

-----------------------------------------------------------------------------
(***************************************************************************)
(* Linking and answering.  At "link" nothing is left to verify, so that    *)
(* every id linked leads to a stored URL.                                  *)
(***************************************************************************)
LEMMA LinkInv ==
    ASSUME ReqInv, NEW r \in Reqs, Link(r) \/ LinkErrs(r)
    PROVE  ReqInv' /\ Grows
<1> USE DEF Link, LinkErrs
<1>1. RequestOK(r) /\ TypeOK /\ IndexesAgree /\ LinksResolve /\ CreatedOnce
  BY DEF ReqInv
<1>2. fresh[r] = {} /\ asked[r] \subseteq Urls /\ ids[r] \in [Urls -> Ids \cup {NoId}]
  BY <1>1 DEF RequestOK, StageOK, TypeOK, ReqTypeOK
<1>3. \A u \in asked[r] : ids[r][u] \in Ids /\ data[ids[r][u]] \in Urls
  BY <1>1, <1>2 DEF RequestOK, LearnedOK
<1>4. shortIDs(r) \in SUBSET Ids /\ \A i \in shortIDs(r) : Exists(i)
  BY <1>3, SentinelsAssumption DEF shortIDs, Exists
<1>5. /\ \/ UNCHANGED store
         \/ owner[r] # NoUser /\ AddUserURLs(owner[r], shortIDs(r))
      /\ pc'[r] = "answered" => (owner[r] # NoUser => AddUserURLs(owner[r], shortIDs(r)))
      /\ pc'[r] \in {"answered", "failed"}
      /\ pc' \in [Reqs -> Stages] /\ \A s \in Reqs \ {r} : pc'[s] = pc[s]
      /\ UNCHANGED <<owner, url, tries, asked, ids, created, todo, fresh>>
  BY <1>1 DEF TypeOK, ReqTypeOK, goto, Stages
<1>6. owner[r] # NoUser => owner[r] \in Users
  BY <1>1 DEF TypeOK, ReqTypeOK, Owners
<1>7. StoreStep /\ UNCHANGED data
  <2>1. CASE UNCHANGED store
    BY <2>1, <1>1, IdleStep DEF TypeOK, store
  <2>2. CASE owner[r] # NoUser /\ AddUserURLs(owner[r], shortIDs(r))
    BY <2>2, <1>1, <1>4, <1>6, LinkStep DEF TypeOK
  <2> QED BY <1>5, <2>1, <2>2
<1>8. ReqTypeOK' /\ Kept(r)
  BY <1>1, <1>5 DEF TypeOK, ReqTypeOK, Kept, SameLocals
<1>9. StageOK(r)' /\ LearnedOK(r)' /\ FreshOK(r)'
  BY <1>1, <1>2, <1>5, <1>7 DEF RequestOK, StageOK, LearnedOK, FreshOK
<1>10. CreatedOK(r)'
  BY <1>1, <1>5, <1>7, SentinelsAssumption DEF RequestOK, CreatedOK, Known, StoreStep, Grows
<1>11. ListedOK(r)'
  <2>1. shortIDs(r)' = shortIDs(r)
    BY <1>5 DEF shortIDs
  <2> QED BY <2>1, <1>1, <1>5, <1>6 DEF TypeOK, StoreTypeOK, ListedOK, AddUserURLs
<1>12. LinksResolve'
  <2>1. CASE UNCHANGED store
    BY <2>1, <1>1 DEF store, LinksResolve, Exists
  <2>2. CASE owner[r] # NoUser /\ AddUserURLs(owner[r], shortIDs(r))
    BY <2>2, <1>1, <1>4, <1>6, <1>7
       DEF TypeOK, StoreTypeOK, AddUserURLs, LinksResolve, Exists
  <2> QED BY <1>5, <2>1, <2>2
<1>13. CreatedOnce'
  BY <1>1, <1>5, <1>8, CreatedKept
<1> QED BY <1>7, <1>8, <1>9, <1>10, <1>11, <1>12, <1>13, OneMoves DEF RequestOK

-----------------------------------------------------------------------------
(***************************************************************************)
(* The invariant holds at the start and is kept by every step.             *)
(***************************************************************************)
LEMMA InitInv ==
    ASSUME ReqInit
    PROVE  ReqInv
<1>1. TypeOK
  BY RequestsAssumption
     DEF StoreInit, ReqInit, TypeOK, StoreTypeOK, ReqTypeOK, Stages, Owners
<1>2. IndexesAgree /\ LinksResolve /\ CreatedOnce
  BY SentinelsAssumption DEF StoreInit, ReqInit, IndexesAgree, LinksResolve, CreatedOnce, Reqs
<1>3. ASSUME NEW r \in Reqs PROVE RequestOK(r)
  BY DEF ReqInit, RequestOK, StageOK, LearnedOK, FreshOK, ListedOK, CreatedOK
<1> QED BY <1>1, <1>2, <1>3 DEF ReqInv

LEMMA StutterInv ==
    ASSUME ReqInv, UNCHANGED reqVars
    PROVE  ReqInv' /\ Grows
<1>1. StoreStep /\ UNCHANGED user
  BY IdleStep DEF ReqInv, TypeOK, reqVars, store
<1>2. ASSUME NEW r \in Reqs PROVE RequestOK(r)'
  <2>1. SameLocals(r)
    BY DEF SameLocals, reqVars, locals
  <2> QED BY <1>1, <2>1, OthersKeep DEF ReqInv
<1>3. ReqTypeOK' /\ CreatedOnce'
  BY DEF ReqInv, TypeOK, ReqTypeOK, CreatedOnce, reqVars, locals
<1>4. LinksResolve'
  BY <1>1, LinksKept DEF ReqInv
<1> QED BY <1>1, <1>2, <1>3, <1>4 DEF ReqInv, TypeOK, StoreStep

LEMMA NextInv ==
    ASSUME ReqInv, ReqNext
    PROVE  ReqInv' /\ Grows
<1>1. PICK r \in Reqs : Arrive(r) \/ Step(r)
  BY DEF ReqNext
<1>2. CASE Arrive(r)
  BY <1>2, ReceiveInv, ReceiveBatchInv DEF Arrive
<1>3. CASE LookupHit(r) \/ LookupMiss(r)
  BY <1>3, LookupHitInv, LookupMissInv
<1>4. CASE \E i \in Ids : PutCreates(r, i) \/ PutCollides(r, i) \/ PutErrs(r, i)
  BY <1>4, PutCreatesInv, PutCollidesInv, PutErrsInv
<1>5. CASE RecheckHit(r) \/ RecheckMiss(r)
  BY <1>5, RecheckHitInv, RecheckMissInv
<1>6. CASE NextItem(r) \/ LookupItemHit(r) \/ LookupItemMiss(r)
  BY <1>6, NextItemInv, LookupItemHitInv, LookupItemMissInv
<1>7. CASE \E i \in Ids : GenerateID(r, i) \/ GenerateCollides(r, i)
  BY <1>7, GenerateIDInv, GenerateCollidesInv
<1>8. CASE EndOfItems(r) \/ PutBatch(r) \/ PutBatchErrs(r)
  BY <1>8, EndOfItemsInv, PutBatchInv
<1>9. CASE \E u \in Urls : VerifyOurs(r, u) \/ VerifyOther(r, u)
  BY <1>9, VerifyOursInv, VerifyOtherInv
<1>10. CASE RegetHit(r) \/ RegetMiss(r)
  BY <1>10, RegetHitInv, RegetMissInv
<1>11. CASE Link(r) \/ LinkErrs(r)
  BY <1>11, LinkInv
<1> QED
  BY <1>1, <1>2, <1>3, <1>4, <1>5, <1>6, <1>7, <1>8, <1>9, <1>10, <1>11 DEF Step

\* The inductive invariant holds in every reachable state.
THEOREM ReqInvariant == ReqSpec => []ReqInv
<1>1. ReqInv /\ [ReqNext]_reqVars => ReqInv'
  BY NextInv, StutterInv
<1> QED BY <1>1, InitInv, PTL DEF ReqSpec

-----------------------------------------------------------------------------
(***************************************************************************)
(* What a client or an operator relies on.                                 *)
(***************************************************************************)

\* The two maps of the store, and the PRIMARY KEY and the UNIQUE column of
\* the table, stay inverse to each other whatever requests interleave.
THEOREM IndexesAlwaysAgree == ReqSpec => []IndexesAgree
<1>1. ReqInv => IndexesAgree
  BY DEF ReqInv
<1> QED BY <1>1, ReqInvariant, PTL

\* The handlers keep the types of the store and of their locals.
THEOREM TypesAlwaysOK == ReqSpec => []TypeOK
<1>1. ReqInv => TypeOK
  BY DEF ReqInv
<1> QED BY <1>1, ReqInvariant, PTL

\* No request answers with an id that leads elsewhere, or nowhere: the races
\* of ShortenWithExistingContext and ShortenBatchContext, and failing
\* repository calls, end in the right id or in an error.
THEOREM AnswersAlwaysStored == ReqSpec => []AnswersStored
<1>1. ReqInv => AnswersStored
  BY DEF ReqInv, RequestOK, StageOK, LearnedOK, AnswersStored
<1> QED BY <1>1, ReqInvariant, PTL

\* "201 Created" is told to one single request per URL at the most.
THEOREM AlwaysCreatedOnce == ReqSpec => []CreatedOnce
<1>1. ReqInv => CreatedOnce
  BY DEF ReqInv
<1> QED BY <1>1, ReqInvariant, PTL

\* The ids of a user all lead to a URL.
THEOREM LinksAlwaysResolve == ReqSpec => []LinksResolve
<1>1. ReqInv => LinksResolve
  BY DEF ReqInv
<1> QED BY <1>1, ReqInvariant, PTL

\* The ids a known user was answered with stay in the list of the user.
THEOREM AnsweredAlwaysListed == ReqSpec => []AnsweredListed
<1>1. ReqInv => AnsweredListed
  BY DEF ReqInv, RequestOK, ListedOK, AnsweredListed
<1> QED BY <1>1, ReqInvariant, PTL

\* generateBatchID never gives one id to two URLs of a batch.
THEOREM BatchIdsAlwaysDistinct == ReqSpec => []BatchIdsDistinct
<1>1. ReqInv => BatchIdsDistinct
  BY DEF ReqInv, RequestOK, FreshOK, BatchIdsDistinct, Reqs
<1> QED BY <1>1, ReqInvariant, PTL

\* Short links never move and are never taken from a user.
THEOREM LinksStayPut == ReqSpec => LinksNeverMove
<1>1. ReqInv /\ [ReqNext]_reqVars => [Grows]_store
  BY NextInv, StutterInv
<1>2. ReqSpec => [][Grows]_store
  BY <1>1, ReqInvariant, PTL DEF ReqSpec
<1> QED BY <1>2, PTL DEF LinksNeverMove, Grows

-----------------------------------------------------------------------------
(***************************************************************************)
(* What "storage error" means when no call fails: an insert has been tried *)
(* for every URL of toCreate, so its URL or its id is in the store, and    *)
(* both stay there until the request reads them back.                      *)
(***************************************************************************)
TriedOK(r) ==
    /\ pc[r] \in {"verify", "reget"} => \A u \in fresh[r] : Known(u) \/ Exists(ids[r][u])
    /\ pc[r] = "reget" => Known(url[r]) \/ data[ids[r][url[r]]] # url[r]

TriedInv == ReqInv /\ \A r \in Reqs : TriedOK(r)

\* Only four steps of a request lead to where it reads its ids back.
ReadsBack(r) ==
    \/ PutBatch(r) \/ RegetHit(r)
    \/ \E u \in Urls : VerifyOurs(r, u) \/ VerifyOther(r, u)

LEMMA OwnMove ==
    ASSUME TypeOK, ~Faults, NEW r \in Reqs, Arrive(r) \/ Step(r)
    PROVE  Kept(r) /\ (ReadsBack(r) \/ pc'[r] \notin {"verify", "reget"})
<1> USE DEF TypeOK, ReqTypeOK, Kept, SameLocals, goto
<1>1. CASE Arrive(r)
  BY <1>1 DEF Arrive, Receive, ReceiveBatch
<1>2. CASE LookupHit(r) \/ LookupMiss(r) \/ RecheckHit(r) \/ RecheckMiss(r)
  BY <1>2 DEF LookupHit, LookupMiss, RecheckHit, RecheckMiss, learn
<1>3. ASSUME NEW i \in Ids, PutCreates(r, i) \/ PutCollides(r, i) \/ PutErrs(r, i)
      PROVE  Kept(r) /\ pc'[r] \notin {"verify", "reget"}
  BY <1>3 DEF PutCreates, PutCollides, PutErrs, learn
<1>4. CASE NextItem(r)
  BY <1>4 DEF NextItem, popItem
<1>5. CASE LookupItemHit(r) \/ LookupItemMiss(r) \/ EndOfItems(r)
  BY <1>5 DEF LookupItemHit, LookupItemMiss, EndOfItems, learn, popItem
<1>6. ASSUME NEW i \in Ids, GenerateID(r, i) \/ GenerateCollides(r, i)
      PROVE  Kept(r) /\ pc'[r] \notin {"verify", "reget"}
  BY <1>6 DEF GenerateID, GenerateCollides, learn, popItem
<1>7. CASE PutBatch(r) \/ PutBatchErrs(r)
  BY <1>7 DEF PutBatch, PutBatchErrs, ReadsBack
<1>8. ASSUME NEW u \in Urls, VerifyOurs(r, u) \/ VerifyOther(r, u)
      PROVE  Kept(r) /\ ReadsBack(r)
  BY <1>8 DEF VerifyOurs, VerifyOther, verified, ReadsBack
<1>9. CASE RegetHit(r) \/ RegetMiss(r)
  BY <1>9 DEF RegetHit, RegetMiss, learn, verified, ReadsBack
<1>10. CASE Link(r) \/ LinkErrs(r)
  BY <1>10 DEF Link, LinkErrs
<1> QED
  BY <1>1, <1>2, <1>3, <1>4, <1>5, <1>6, <1>7, <1>8, <1>9, <1>10 DEF Step

\* The insert of the batch has been tried for every item.
LEMMA BatchTried ==
    ASSUME ReqInv, NEW r \in Reqs, PutBatch(r)
    PROVE  TriedOK(r)'
<1>1. RequestOK(r) /\ TypeOK /\ IndexesAgree
  BY DEF ReqInv
<1>2. fresh[r] \in SUBSET Urls /\ ids[r] \in [Urls -> Ids \cup {NoId}]
  BY <1>1 DEF TypeOK, ReqTypeOK
<1>3. \A u \in fresh[r] : ids[r][u] \in Ids
  BY <1>1 DEF RequestOK, FreshOK
<1>4. Grows
  BY PutBatchInv
<1>5. ASSUME NEW u \in fresh[r] PROVE Known(u)' \/ Exists(ids[r][u])'
  <2>1. CASE Known(u)
    BY <2>1, <1>2, <1>4 DEF Grows, Known
  <2>2. CASE Exists(ids[r][u])
    <3>1. Exists(ids[r][u]) => data'[ids[r][u]] = data[ids[r][u]]
      BY <1>3, <1>4 DEF Grows
    <3>2. UNCHANGED ids
      BY DEF PutBatch
    <3> QED BY <2>2, <3>1, <3>2 DEF Exists
  <2>3. CASE Fresh(ids[r][u], u)
    <3>1. original' = [v \in Urls |-> IF v \in {x \in fresh[r] : Fresh(ids[r][x], x)}
                                      THEN ids[r][v] ELSE original[v]]
      BY DEF PutBatch, PutBatchIfAbsent
    <3>2. original'[u] = ids[r][u]
      BY <2>3, <3>1, <1>2
    <3> QED BY <3>2, <1>3, SentinelsAssumption DEF Known
  <2> QED BY <2>1, <2>2, <2>3 DEF Fresh
<1>6. pc'[r] = "verify" /\ UNCHANGED <<fresh, ids>>
  BY <1>1 DEF PutBatch, goto, TypeOK, ReqTypeOK
<1> QED BY <1>5, <1>6 DEF TriedOK, Known, Exists

LEMMA ReadBackTried ==
    ASSUME ReqInv, ~Faults, NEW r \in Reqs, TriedOK(r), ReadsBack(r)
    PROVE  TriedOK(r)'
<1>1. RequestOK(r) /\ ReqTypeOK
  BY DEF ReqInv, TypeOK
<1>2. CASE PutBatch(r)
  BY <1>2, BatchTried
<1>3. ASSUME NEW u \in Urls, VerifyOurs(r, u) PROVE TriedOK(r)'
  BY <1>1, <1>3 DEF VerifyOurs, verified, goto, store, ReqTypeOK, TriedOK, Known, Exists
<1>4. ASSUME NEW u \in Urls, VerifyOther(r, u) PROVE TriedOK(r)'
  BY <1>1, <1>4 DEF VerifyOther, goto, store, ReqTypeOK, TriedOK, Known, Exists
<1>5. CASE RegetHit(r)
  <2>1. /\ fresh'[r] = fresh[r] \ {url[r]}
        /\ pc'[r] \in {"link", "verify"}
        /\ \A u \in Urls \ {url[r]} : ids'[r][u] = ids[r][u]
        /\ UNCHANGED <<data, original>>
    BY <1>1, <1>5 DEF RegetHit, learn, verified, goto, store, ReqTypeOK
  <2>2. pc[r] = "reget" /\ fresh[r] \subseteq Urls
    BY <1>1, <1>5 DEF RegetHit, ReqTypeOK
  <2> QED BY <2>1, <2>2 DEF TriedOK, Known, Exists
<1> QED BY <1>2, <1>3, <1>4, <1>5 DEF ReadsBack

LEMMA OthersTried ==
    ASSUME ReqInv, NEW s \in Reqs, TriedOK(s), Grows, SameLocals(s)
    PROVE  TriedOK(s)'
<1>1. RequestOK(s) /\ ReqTypeOK
  BY DEF ReqInv, TypeOK
<1>2. \A u \in fresh[s] : u \in Urls /\ ids[s][u] \in Ids
  BY <1>1 DEF RequestOK, FreshOK, ReqTypeOK
<1>3. pc[s] = "reget" => url[s] \in fresh[s]
  BY <1>1 DEF RequestOK, StageOK
<1>4. \A u \in fresh[s] : Known(u) \/ Exists(ids[s][u]) =>
                             (Known(u) \/ Exists(ids[s][u]))'
  BY <1>2 DEF Grows, Known, Exists, SameLocals
<1> QED BY <1>2, <1>3, <1>4 DEF TriedOK, SameLocals, Grows, Known, Exists

\* A batch request fails in two places: its draws are used up, or the store has
\* neither its URL nor its URL under its id.
FailedOK(r) ==
    r \in Batches => /\ pc[r] \notin {"lookup", "put", "recheck"}
                     /\ pc[r] = "failed" => tries[r] = Tries \/ lostItsId(r)

LEMMA RegetLost ==
    ASSUME ReqInv, NEW r \in Reqs, TriedOK(r), pc[r] = "reget", ~Known(url[r])
    PROVE  url[r] \in Urls /\ lostItsId(r)
<1>1. RequestOK(r) /\ url[r] \in fresh[r] /\ url[r] \in Urls
  BY DEF ReqInv, RequestOK, StageOK
<1>2. ids[r][url[r]] \in Ids
  BY <1>1 DEF RequestOK, FreshOK
<1> QED BY <1>1, <1>2 DEF TriedOK, Exists, lostItsId

LEMMA OwnFailure ==
    ASSUME ReqInv, ~Faults, NEW r \in Reqs, TriedOK(r), FailedOK(r), Arrive(r) \/ Step(r)
    PROVE  FailedOK(r)'
<1>1. RequestOK(r) /\ ReqTypeOK /\ Singles \cap Batches = {}
  BY RequestsAssumption DEF ReqInv, TypeOK
<1>2. \A stage : goto(r, stage) => pc'[r] = stage
  BY <1>1 DEF ReqTypeOK, goto
<1>3. CASE r \notin Batches \/ pc'[r] \notin {"lookup", "put", "recheck", "failed"}
  BY <1>3 DEF FailedOK
<1>4. ASSUME r \in Batches, pc'[r] \in {"lookup", "put", "recheck", "failed"}
      PROVE  \/ pc'[r] = "failed" /\ tries'[r] = Tries
             \/ RegetMiss(r)
  <2>1. pc[r] \notin {"lookup", "put", "recheck"} /\ r \notin Singles
    BY <1>1, <1>4 DEF FailedOK
  <2>2. ~Arrive(r)
    BY <1>2, <1>4, <2>1 DEF Arrive, Receive, ReceiveBatch
  <2>3. /\ ~LookupHit(r) /\ ~LookupMiss(r) /\ ~RecheckHit(r) /\ ~RecheckMiss(r)
        /\ \A i \in Ids : ~PutCreates(r, i) /\ ~PutCollides(r, i) /\ ~PutErrs(r, i)
    BY <2>1 DEF LookupHit, LookupMiss, RecheckHit, RecheckMiss, PutCreates, PutCollides, PutErrs
  <2>4. ~NextItem(r) /\ ~LookupItemHit(r) /\ ~LookupItemMiss(r) /\ ~EndOfItems(r)
    BY <1>2, <1>4 DEF NextItem, LookupItemHit, LookupItemMiss, EndOfItems
  <2>5. \A i \in Ids : ~GenerateID(r, i)
    BY <1>2, <1>4 DEF GenerateID
  <2>6. ~PutBatch(r) /\ ~PutBatchErrs(r) /\ ~RegetHit(r) /\ ~Link(r) /\ ~LinkErrs(r)
    BY <1>2, <1>4 DEF PutBatch, PutBatchErrs, RegetHit, verified, Link, LinkErrs
  <2>7. \A u \in Urls : ~VerifyOurs(r, u) /\ ~VerifyOther(r, u)
    BY <1>2, <1>4 DEF VerifyOurs, verified, VerifyOther
  <2>8. ASSUME NEW i \in Ids, GenerateCollides(r, i)
        PROVE  pc'[r] = "failed" /\ tries'[r] = Tries
    BY <1>1, <1>2, <1>4, <2>8 DEF GenerateCollides, ReqTypeOK
  <2> QED BY <2>2, <2>3, <2>4, <2>5, <2>6, <2>7, <2>8 DEF Step
<1>5. CASE RegetMiss(r)
  <2>1. pc[r] = "reget" /\ ~Known(url[r]) /\ pc'[r] = "failed" /\ UNCHANGED <<url, ids, data>>
    BY <1>2, <1>5 DEF RegetMiss, store
  <2>2. lostItsId(r)
    BY <2>1, RegetLost
  <2>3. lostItsId(r)'
    BY <2>1, <2>2 DEF lostItsId
  <2> QED BY <2>1, <2>3 DEF FailedOK
<1>6. CASE pc'[r] = "failed" /\ tries'[r] = Tries
  BY <1>6 DEF FailedOK
<1> QED BY <1>3, <1>4, <1>5, <1>6

LEMMA OthersFailure ==
    ASSUME NEW s \in Reqs, FailedOK(s), Grows, SameLocals(s)
    PROVE  FailedOK(s)'
<1>1. lostItsId(s) => lostItsId(s)'
  BY DEF lostItsId, Grows, Exists, SameLocals
<1> QED BY <1>1 DEF FailedOK, SameLocals

\* Without failing calls, an item that is not stored under its generated id was
\* lost to the same URL of another request or to an id that was taken; and a
\* batch that fails has used up its draws or lost an id it had drawn.
THEOREM AlwaysLostToAnother ==
    ASSUME ~Faults
    PROVE  ReqSpec => []LostToAnother
<1> DEFINE FailInv == TriedInv /\ \A r \in Reqs : FailedOK(r)
<1>1. ReqInit => FailInv
  BY InitInv DEF TriedInv, TriedOK, FailedOK, ReqInit
<1>2. ASSUME FailInv, ReqNext PROVE FailInv'
  <2>1. ReqInv' /\ Grows
    BY <1>2, NextInv DEF TriedInv
  <2>2. PICK r \in Reqs : Arrive(r) \/ Step(r)
    BY <1>2 DEF ReqNext
  <2>3. Kept(r) /\ (ReadsBack(r) \/ pc'[r] \notin {"verify", "reget"})
    BY <1>2, <2>2, OwnMove DEF TriedInv, ReqInv
  <2>4. ASSUME NEW s \in Reqs, s # r PROVE TriedOK(s)' /\ FailedOK(s)'
    BY <1>2, <2>1, <2>3, <2>4, OthersTried, OthersFailure DEF TriedInv, Kept
  <2>5. TriedOK(r)'
    BY <1>2, <2>3, ReadBackTried DEF TriedInv, TriedOK
  <2>6. FailedOK(r)'
    BY <1>2, <2>2, OwnFailure DEF TriedInv
  <2> QED BY <2>1, <2>4, <2>5, <2>6 DEF TriedInv
<1>3. ASSUME FailInv, UNCHANGED reqVars PROVE FailInv'
  <2>1. ReqInv' /\ Grows /\ \A s \in Reqs : SameLocals(s)
    BY <1>3, StutterInv DEF TriedInv, SameLocals, reqVars, locals
  <2> QED BY <1>3, <2>1, OthersTried, OthersFailure DEF TriedInv
<1>4. FailInv => LostToAnother
  <2> SUFFICES ASSUME FailInv, NEW r \in Batches
               PROVE  /\ pc[r] = "reget"  => Known(url[r]) \/ lostItsId(r)
                      /\ pc[r] = "failed" => tries[r] = Tries \/ lostItsId(r)
    BY DEF LostToAnother
  <2> QED BY RegetLost DEF TriedInv, FailedOK, Reqs
<1> QED BY <1>1, <1>2, <1>3, <1>4, PTL DEF ReqSpec

-----------------------------------------------------------------------------
(***************************************************************************)
(* No request runs for ever.  effort(r) bounds the repository calls and    *)
(* draws that are still ahead of request r, whatever the others do: what   *)
(* an item of a batch may cost, twice for every URL still to be verified,  *)
(* and the draws left for the id under way.                                *)
(***************************************************************************)
perItem == Tries + 6

rest(r) == Len(todo[r]) * perItem

unverified(r) == Cardinality(fresh[r])

effort(r) ==
    CASE pc[r] = "lookup"     -> Tries + 4
      [] pc[r] = "put"        -> Tries + 3 - tries[r]
      [] pc[r] = "recheck"    -> 2
      [] pc[r] = "item"       -> rest(r) + 3 * unverified(r) + 4
      [] pc[r] = "lookupItem" -> rest(r) + 3 * unverified(r) + 3
      [] pc[r] = "generate"   -> rest(r) + 3 * unverified(r) + 2 - tries[r]
      [] pc[r] = "putBatch"   -> 3 * unverified(r) + 3
      [] pc[r] = "verify"     -> 3 * unverified(r) + 2
      [] pc[r] = "reget"      -> 3 * unverified(r) + 1
      [] pc[r] = "link"       -> 1
      [] OTHER                -> 0

FreshFinite == \A r \in Reqs : IsFiniteSet(fresh[r])

EffortInv == ReqInv /\ FreshFinite

LEMMA OneItemLess ==
    ASSUME NEW n \in Nat, n # 0, NEW k \in Nat
    PROVE  (n - 1) * k \in Nat /\ n * k = (n - 1) * k + k
OBVIOUS

LEMMA ProductIsNat ==
    ASSUME NEW n \in Nat, NEW k \in Nat
    PROVE  n * k \in Nat
OBVIOUS

LEMMA EffortFacts ==
    ASSUME EffortInv, NEW r \in Reqs
    PROVE  /\ Tries \in Nat /\ Tries >= 1 /\ perItem = Tries + 6 /\ perItem \in Nat
           /\ tries[r] \in 0..Tries /\ unverified(r) \in Nat /\ rest(r) \in Nat
           /\ pc[r] \in Stages /\ todo[r] \in Seq(Raws)
           /\ todo[r] # <<>> => /\ Tail(todo[r]) \in Seq(Raws)
                                /\ Len(Tail(todo[r])) * perItem = rest(r) - perItem
                                /\ rest(r) - perItem \in Nat
<1>1. /\ Tries \in Nat /\ Tries >= 1 /\ perItem = Tries + 6 /\ perItem \in Nat
  BY RequestsAssumption DEF perItem
<1>2. tries[r] \in 0..Tries /\ pc[r] \in Stages /\ todo[r] \in Seq(Raws)
  BY DEF EffortInv, ReqInv, TypeOK, ReqTypeOK
<1>3. unverified(r) \in Nat
  BY FS_CardinalityType DEF EffortInv, FreshFinite, unverified
<1>4. Len(todo[r]) \in Nat
  BY <1>2
<1>5. rest(r) \in Nat
  BY <1>1, <1>4, ProductIsNat DEF rest
<1>6. ASSUME todo[r] # <<>>
      PROVE  /\ Tail(todo[r]) \in Seq(Raws)
             /\ Len(Tail(todo[r])) * perItem = rest(r) - perItem
             /\ rest(r) - perItem \in Nat
  <2>1. /\ Tail(todo[r]) \in Seq(Raws) /\ Len(todo[r]) # 0
        /\ Len(Tail(todo[r])) = Len(todo[r]) - 1
    BY <1>2, <1>6
  <2> DEFINE n == Len(todo[r])
  <2>2. (n - 1) * perItem \in Nat /\ n * perItem = (n - 1) * perItem + perItem
    BY <1>1, <1>4, <2>1, OneItemLess
  <2> HIDE DEF n
  <2>3. rest(r) = n * perItem
    BY DEF n, rest
  <2>4. Len(Tail(todo[r])) * perItem = (n - 1) * perItem
    BY <2>1 DEF n
  <2>5. /\ (n - 1) * perItem = rest(r) - perItem
        /\ rest(r) - perItem \in Nat
    BY <1>1, <2>2, <2>3
  <2> QED BY <2>1, <2>4, <2>5
<1> QED BY <1>1, <1>2, <1>3, <1>5, <1>6

\* A step of one request costs the others nothing.
LEMMA OthersEffort ==
    ASSUME NEW s, SameLocals(s)
    PROVE  effort(s)' = effort(s)
<1>1. rest(s)' = rest(s) /\ unverified(s)' = unverified(s)
  BY DEF SameLocals, rest, unverified
<1> QED BY <1>1 DEF SameLocals, effort

LEMMA StepKeepsOthers ==
    ASSUME TypeOK, NEW r \in Reqs, Step(r)
    PROVE  Kept(r)
<1> USE DEF TypeOK, ReqTypeOK, Kept, SameLocals, goto
<1>1. CASE LookupHit(r) \/ LookupMiss(r) \/ RecheckHit(r) \/ RecheckMiss(r)
  BY <1>1 DEF LookupHit, LookupMiss, RecheckHit, RecheckMiss, learn
<1>2. CASE \E i \in Ids : PutCreates(r, i) \/ PutCollides(r, i) \/ PutErrs(r, i)
  BY <1>2 DEF PutCreates, PutCollides, PutErrs, learn
<1>3. CASE NextItem(r)
  BY <1>3 DEF NextItem, popItem
<1>4. CASE LookupItemHit(r) \/ LookupItemMiss(r)
  BY <1>4 DEF LookupItemHit, LookupItemMiss, popItem, learn
<1>5. CASE \E i \in Ids : GenerateID(r, i) \/ GenerateCollides(r, i)
  BY <1>5 DEF GenerateID, GenerateCollides, popItem, learn
<1>6. CASE EndOfItems(r) \/ PutBatch(r) \/ PutBatchErrs(r)
  BY <1>6 DEF EndOfItems, PutBatch, PutBatchErrs
<1>7. CASE \E u \in Urls : VerifyOurs(r, u) \/ VerifyOther(r, u)
  BY <1>7 DEF VerifyOurs, VerifyOther, verified
<1>8. CASE RegetHit(r) \/ RegetMiss(r)
  BY <1>8 DEF RegetHit, RegetMiss, verified, learn
<1>9. CASE Link(r) \/ LinkErrs(r)
  BY <1>9 DEF Link, LinkErrs
<1> QED BY <1>1, <1>2, <1>3, <1>4, <1>5, <1>6, <1>7, <1>8, <1>9 DEF Step

\* Single requests, and the end of both kinds.
LEMMA SingleStepCosts ==
    ASSUME EffortInv, NEW r \in Reqs,
           \/ LookupHit(r) \/ LookupMiss(r) \/ RecheckHit(r) \/ RecheckMiss(r)
           \/ \E i \in Ids : PutCreates(r, i) \/ PutCollides(r, i) \/ PutErrs(r, i)
           \/ Link(r) \/ LinkErrs(r)
    PROVE  effort(r)' < effort(r) /\ UNCHANGED fresh
<1>1. /\ pc \in [Reqs -> Stages] /\ tries \in [Reqs -> 0..Tries]
      /\ pc[r] = "lookup" => tries[r] = 0
      /\ pc[r] = "put" => tries[r] < Tries
  BY DEF EffortInv, ReqInv, TypeOK, ReqTypeOK, RequestOK, StageOK
<1>2. tries[r] \in Nat /\ Tries \in Nat /\ Tries >= 1
  BY EffortFacts
<1>3. CASE LookupHit(r) \/ LookupMiss(r)
  <2>1. /\ pc[r] = "lookup" /\ pc'[r] \in {"link", "put"} /\ tries'[r] = tries[r]
        /\ UNCHANGED fresh
    BY <1>1, <1>3 DEF LookupHit, LookupMiss, goto
  <2> QED BY <1>1, <1>2, <2>1 DEF effort
<1>4. CASE \E i \in Ids : PutCreates(r, i) \/ PutErrs(r, i)
  <2>1. pc[r] = "put" /\ pc'[r] \in {"link", "recheck"} /\ UNCHANGED fresh
    BY <1>1, <1>4 DEF PutCreates, PutErrs, goto
  <2> QED BY <1>1, <1>2, <2>1 DEF effort
<1>5. CASE \E i \in Ids : PutCollides(r, i)
  <2>1. /\ pc[r] = "put" /\ pc'[r] \in {"put", "recheck"} /\ tries'[r] = tries[r] + 1
        /\ UNCHANGED fresh
    BY <1>1, <1>5 DEF PutCollides, goto
  <2> QED BY <1>1, <1>2, <2>1 DEF effort
<1>6. CASE RecheckHit(r) \/ RecheckMiss(r)
  <2>1. pc[r] = "recheck" /\ pc'[r] \in {"link", "failed"} /\ UNCHANGED fresh
    BY <1>1, <1>6 DEF RecheckHit, RecheckMiss, goto
  <2> QED BY <2>1 DEF effort
<1>7. CASE Link(r) \/ LinkErrs(r)
  <2>1. pc[r] = "link" /\ pc'[r] \in {"answered", "failed"} /\ UNCHANGED fresh
    BY <1>1, <1>7 DEF Link, LinkErrs, goto
  <2> QED BY <2>1 DEF effort
<1> QED BY <1>3, <1>4, <1>5, <1>6, <1>7

\* The items of a batch, one by one.
LEMMA ItemStepCosts ==
    ASSUME EffortInv, NEW r \in Reqs,
           \/ NextItem(r) \/ LookupItemHit(r) \/ LookupItemMiss(r) \/ EndOfItems(r)
           \/ \E i \in Ids : GenerateID(r, i) \/ GenerateCollides(r, i)
    PROVE  /\ effort(r)' < effort(r)
           /\ IsFiniteSet(fresh'[r])
<1>1. /\ pc \in [Reqs -> Stages] /\ tries \in [Reqs -> 0..Tries] /\ todo \in [Reqs -> Seq(Raws)]
      /\ fresh \in [Reqs -> SUBSET Urls]
      /\ pc[r] \in {"lookupItem", "generate"} => todo[r] # <<>>
      /\ pc[r] = "generate" => tries[r] < Tries
      /\ IsFiniteSet(fresh[r])
  BY DEF EffortInv, ReqInv, TypeOK, ReqTypeOK, RequestOK, StageOK, FreshFinite
<1>2. /\ tries[r] \in Nat /\ Tries \in Nat /\ Tries >= 1 /\ perItem = Tries + 6
      /\ unverified(r) \in Nat /\ rest(r) \in Nat
  BY EffortFacts
<1>3. ASSUME todo[r] # <<>>, todo'[r] = Tail(todo[r])
      PROVE  rest(r)' = rest(r) - perItem
  BY <1>3, EffortFacts DEF rest, perItem
<1>4. fresh'[r] = fresh[r] => unverified(r)' = unverified(r) /\ IsFiniteSet(fresh'[r])
  BY <1>1 DEF unverified
<1>5. CASE NextItem(r)
  <2>1. /\ pc[r] = "item" /\ todo[r] # <<>> /\ fresh'[r] = fresh[r]
        /\ \/ pc'[r] = "rejected"
           \/ pc'[r] = "item" /\ todo'[r] = Tail(todo[r])
           \/ pc'[r] = "lookupItem" /\ todo'[r] = todo[r]
    BY <1>1, <1>5 DEF NextItem, popItem, goto
  <2>2. CASE pc'[r] = "rejected"
    BY <1>2, <1>4, <2>1, <2>2 DEF effort
  <2>3. CASE pc'[r] = "item" /\ todo'[r] = Tail(todo[r])
    <3>1. rest(r)' = rest(r) - perItem
      BY <1>3, <2>1, <2>3
    <3> QED BY <1>2, <1>4, <2>1, <2>3, <3>1 DEF effort
  <2>4. CASE pc'[r] = "lookupItem" /\ todo'[r] = todo[r]
    <3>1. rest(r)' = rest(r)
      BY <2>4 DEF rest, perItem
    <3> QED BY <1>2, <1>4, <2>1, <2>4, <3>1 DEF effort
  <2> QED BY <2>1, <2>2, <2>3, <2>4
<1>6. CASE LookupItemHit(r)
  <2>1. /\ pc[r] = "lookupItem" /\ pc'[r] = "item" /\ fresh'[r] = fresh[r]
        /\ todo[r] # <<>> /\ todo'[r] = Tail(todo[r])
    BY <1>1, <1>6 DEF LookupItemHit, popItem, goto
  <2>2. rest(r)' = rest(r) - perItem
    BY <1>3, <2>1
  <2> QED BY <1>2, <1>4, <2>1, <2>2 DEF effort
<1>7. CASE LookupItemMiss(r)
  <2>1. /\ pc[r] = "lookupItem" /\ pc'[r] = "generate" /\ fresh'[r] = fresh[r]
        /\ tries'[r] = 0 /\ todo'[r] = todo[r]
    BY <1>1, <1>7 DEF LookupItemMiss, goto
  <2>2. rest(r)' = rest(r)
    BY <2>1 DEF rest, perItem
  <2> QED BY <1>2, <1>4, <2>1, <2>2 DEF effort
<1>8. CASE \E i \in Ids : GenerateID(r, i)
  <2>1. /\ pc[r] = "generate" /\ pc'[r] = "item" /\ fresh'[r] = fresh[r] \cup {url[r]}
        /\ todo[r] # <<>> /\ todo'[r] = Tail(todo[r]) /\ tries[r] < Tries
    BY <1>1, <1>8 DEF GenerateID, popItem, goto
  <2>2. rest(r)' = rest(r) - perItem
    BY <1>3, <2>1
  <2>3. /\ IsFiniteSet(fresh'[r]) /\ Cardinality(fresh'[r]) \in Nat
        /\ Cardinality(fresh'[r]) <= Cardinality(fresh[r]) + 1
    <3>1. CASE url[r] \in fresh[r]
      <4>1. fresh'[r] = fresh[r]
        BY <2>1, <3>1
      <4>2. Cardinality(fresh[r]) \in Nat
        BY <1>1, FS_CardinalityType
      <4> QED BY <1>1, <4>1, <4>2
    <3>2. CASE url[r] \notin fresh[r]
      <4>0. /\ IsFiniteSet(fresh[r] \cup {url[r]})
            /\ Cardinality(fresh[r] \cup {url[r]}) = Cardinality(fresh[r]) + 1
        BY <1>1, <3>2, FS_AddElement
      <4>1. /\ IsFiniteSet(fresh'[r])
            /\ Cardinality(fresh'[r]) = Cardinality(fresh[r]) + 1
        BY <2>1, <4>0
      <4>2. Cardinality(fresh[r]) \in Nat
        BY <1>1, FS_CardinalityType
      <4> QED BY <4>1, <4>2
    <3> QED BY <3>1, <3>2
  <2>4. unverified(r)' \in Nat /\ unverified(r)' <= unverified(r) + 1
    BY <2>3 DEF unverified
  <2>5. /\ effort(r) = rest(r) + 3 * unverified(r) + 2 - tries[r]
        /\ effort(r)' = rest(r)' + 3 * unverified(r)' + 4
    BY <2>1 DEF effort
  <2> DEFINE n == unverified(r)
            m == unverified(r)'
            k == rest(r)
            t == tries[r]
  <2>6. n \in Nat /\ m \in Nat /\ m <= n + 1 /\ k \in Nat /\ t \in Nat /\ t < Tries
    BY <1>2, <2>1, <2>4
  <2>7. effort(r) = k + 3 * n + 2 - t /\ effort(r)' = k - perItem + 3 * m + 4
    BY <2>2, <2>5
  <2> HIDE DEF n, m, k, t
  <2>8. k - perItem + 3 * m + 4 < k + 3 * n + 2 - t
    BY <1>2, <2>6
  <2>9. effort(r)' < effort(r)
    BY <2>7, <2>8
  <2> QED BY <2>3, <2>9
<1>9. CASE \E i \in Ids : GenerateCollides(r, i)
  <2>1. /\ pc[r] = "generate" /\ pc'[r] \in {"generate", "failed"} /\ fresh'[r] = fresh[r]
        /\ todo'[r] = todo[r] /\ todo[r] # <<>> /\ tries[r] < Tries /\ tries'[r] = tries[r] + 1
    BY <1>1, <1>9 DEF GenerateCollides, goto
  <2>2. rest(r)' = rest(r)
    BY <2>1 DEF rest, perItem
  <2>3. rest(r) >= perItem
    <3>1. rest(r) - perItem \in Nat
      BY <2>1, EffortFacts
    <3> QED BY <1>2, <3>1
  <2> QED BY <1>2, <1>4, <2>1, <2>2, <2>3 DEF effort
<1>10. CASE EndOfItems(r)
  <2>1. pc[r] = "item" /\ pc'[r] \in {"link", "putBatch"} /\ fresh'[r] = fresh[r]
    BY <1>1, <1>10 DEF EndOfItems, goto
  <2> QED BY <1>2, <1>4, <2>1 DEF effort
<1> QED BY <1>5, <1>6, <1>7, <1>8, <1>9, <1>10

\* The insert of a batch, and the verification of its items.
LEMMA VerifyStepCosts ==
    ASSUME EffortInv, NEW r \in Reqs,
           \/ PutBatch(r) \/ PutBatchErrs(r)
           \/ \E u \in Urls : VerifyOurs(r, u) \/ VerifyOther(r, u)
           \/ RegetHit(r) \/ RegetMiss(r)
    PROVE  /\ effort(r)' < effort(r)
           /\ IsFiniteSet(fresh'[r])
<1>1. /\ pc \in [Reqs -> Stages] /\ fresh \in [Reqs -> SUBSET Urls]
      /\ pc[r] = "reget" => url[r] \in fresh[r]
      /\ IsFiniteSet(fresh[r])
  BY DEF EffortInv, ReqInv, TypeOK, ReqTypeOK, RequestOK, StageOK, FreshFinite
<1>2. unverified(r) \in Nat
  BY EffortFacts
<1>3. fresh'[r] = fresh[r] => unverified(r)' = unverified(r) /\ IsFiniteSet(fresh'[r])
  BY <1>1 DEF unverified
<1>4. ASSUME NEW u \in fresh[r], fresh'[r] = fresh[r] \ {u}
      PROVE  /\ IsFiniteSet(fresh'[r])
             /\ unverified(r)' \in Nat /\ unverified(r)' = unverified(r) - 1
  <2>1. /\ IsFiniteSet(fresh[r] \ {u}) /\ Cardinality(fresh[r] \ {u}) = Cardinality(fresh[r]) - 1
    BY <1>1, FS_RemoveElement
  <2>2. Cardinality(fresh[r] \ {u}) \in Nat
    BY <2>1, FS_CardinalityType
  <2> QED BY <1>4, <2>1, <2>2 DEF unverified
<1>5. CASE PutBatch(r) \/ PutBatchErrs(r)
  <2>1. pc[r] = "putBatch" /\ pc'[r] \in {"verify", "failed"} /\ fresh'[r] = fresh[r]
    BY <1>1, <1>5 DEF PutBatch, PutBatchErrs, goto
  <2> QED BY <1>2, <1>3, <2>1 DEF effort
<1>6. CASE \E u \in Urls : VerifyOurs(r, u)
  <2>1. PICK u \in fresh[r] : /\ fresh'[r] = fresh[r] \ {u}
                              /\ pc[r] = "verify" /\ pc'[r] \in {"link", "verify"}
    BY <1>1, <1>6 DEF VerifyOurs, verified, goto
  <2>2. /\ IsFiniteSet(fresh'[r])
        /\ unverified(r)' \in Nat /\ unverified(r)' = unverified(r) - 1
    BY <1>4, <2>1
  <2> QED BY <1>2, <2>1, <2>2 DEF effort
<1>7. CASE \E u \in Urls : VerifyOther(r, u)
  <2>1. pc[r] = "verify" /\ pc'[r] = "reget" /\ fresh'[r] = fresh[r]
    BY <1>1, <1>7 DEF VerifyOther, goto
  <2> QED BY <1>2, <1>3, <2>1 DEF effort
<1>8. CASE RegetHit(r)
  <2>1. /\ fresh'[r] = fresh[r] \ {url[r]} /\ url[r] \in fresh[r]
        /\ pc[r] = "reget" /\ pc'[r] \in {"link", "verify"}
    BY <1>1, <1>8 DEF RegetHit, verified, goto
  <2>2. /\ IsFiniteSet(fresh'[r])
        /\ unverified(r)' \in Nat /\ unverified(r)' = unverified(r) - 1
    BY <1>4, <2>1
  <2> QED BY <1>2, <2>1, <2>2 DEF effort
<1>9. CASE RegetMiss(r)
  <2>1. pc[r] = "reget" /\ pc'[r] = "failed" /\ fresh'[r] = fresh[r]
    BY <1>1, <1>9 DEF RegetMiss, goto
  <2> QED BY <1>2, <1>3, <2>1 DEF effort
<1> QED BY <1>5, <1>6, <1>7, <1>8, <1>9

LEMMA StepCosts ==
    ASSUME EffortInv, NEW r \in Reqs, Step(r)
    PROVE  /\ effort(r)' < effort(r)
           /\ \A s \in Reqs \ {r} : effort(s)' = effort(s)
           /\ FreshFinite'
<1>1. effort(r)' < effort(r) /\ IsFiniteSet(fresh'[r])
  <2>1. IsFiniteSet(fresh[r])
    BY DEF EffortInv, FreshFinite
  <2> QED BY <2>1, SingleStepCosts, ItemStepCosts, VerifyStepCosts DEF Step
<1>2. Kept(r)
  BY StepKeepsOthers DEF EffortInv, ReqInv
<1>3. \A s \in Reqs \ {r} : effort(s)' = effort(s)
  BY <1>2, OthersEffort DEF Kept
<1>4. \A s \in Reqs \ {r} : fresh'[s] = fresh[s]
  BY <1>2 DEF Kept, SameLocals
<1>5. FreshFinite'
  BY <1>1, <1>4 DEF EffortInv, FreshFinite
<1> QED BY <1>1, <1>3, <1>5

LEMMA ProductGrows ==
    ASSUME NEW n \in Nat, NEW m \in Nat, n <= m, NEW k \in Nat
    PROVE  n * k <= m * k
OBVIOUS

LEMMA EffortIsNat ==
    ASSUME EffortInv, NEW r \in Reqs
    PROVE  effort(r) \in Nat
<1>1. /\ Tries \in Nat /\ tries[r] \in 0..Tries
      /\ unverified(r) \in Nat /\ rest(r) \in Nat
  BY EffortFacts
<1>2. pc[r] = "generate" => rest(r) - Tries \in Nat
  <2>1. ASSUME pc[r] = "generate" PROVE rest(r) - perItem \in Nat
    BY <2>1, EffortFacts DEF EffortInv, ReqInv, RequestOK, StageOK
  <2>2. perItem = Tries + 6
    BY EffortFacts
  <2> QED BY <1>1, <2>1, <2>2
<1> QED BY <1>1, <1>2 DEF effort

LEMMA EffortIsNatNext == EffortInv' => \A r \in Reqs : effort(r)' \in Nat
<1>1. EffortInv => \A r \in Reqs : effort(r) \in Nat
  BY EffortIsNat
<1>2. EffortInv' => (\A r \in Reqs : effort(r) \in Nat)'
  BY <1>1, PTL
<1> QED BY <1>2

\* What a request may cost when it arrives.
maxEffort == MaxItems * perItem + 4

LEMMA ArriveCosts ==
    ASSUME EffortInv, NEW r \in Reqs, Arrive(r)
    PROVE  /\ pc[r] = "new" /\ effort(r)' <= maxEffort
           /\ \A s \in Reqs \ {r} : effort(s)' = effort(s)
           /\ FreshFinite'
<1>1. /\ pc \in [Reqs -> Stages] /\ todo \in [Reqs -> Seq(Raws)]
      /\ pc[r] = "new" => fresh[r] = {}
  BY DEF EffortInv, ReqInv, TypeOK, ReqTypeOK, RequestOK, StageOK
<1>2. /\ Tries \in Nat /\ perItem = Tries + 6 /\ perItem \in Nat
      /\ MaxItems \in Nat /\ MaxItems >= 1
  BY EffortFacts, RequestsAssumption
<1> DEFINE whole == MaxItems * perItem
<1>3. whole \in Nat /\ perItem <= whole /\ maxEffort = whole + 4
  <2>1. 1 * perItem <= MaxItems * perItem
    BY <1>2, ProductGrows
  <2>2. 1 * perItem = perItem
    BY <1>2
  <2> QED BY <1>2, <2>1, <2>2, ProductIsNat DEF maxEffort
<1> HIDE DEF whole
<1>4. Kept(r) /\ UNCHANGED fresh /\ pc[r] = "new"
  BY DEF EffortInv, ReqInv, TypeOK, ReqTypeOK, Kept, SameLocals, goto, Arrive, Receive, ReceiveBatch
<1>5. unverified(r)' = 0
  BY <1>1, <1>4, FS_EmptySet DEF unverified
<1>6. ASSUME \E w \in Owners, raw \in Raws : Receive(r, w, raw)
      PROVE  effort(r)' <= maxEffort
  <2>1. pc'[r] \in {"lookup", "rejected"}
    BY <1>1, <1>6 DEF Receive, goto
  <2>2. effort(r)' \in {0, Tries + 4}
    BY <2>1 DEF effort
  <2>3. effort(r)' \in Nat /\ effort(r)' <= perItem + 4
    BY <1>2, <2>2
  <2> QED BY <1>2, <1>3, <2>3
<1>7. ASSUME \E w \in Owners, items \in Inputs : ReceiveBatch(r, w, items)
      PROVE  effort(r)' <= maxEffort
  <2>1. PICK w \in Owners, items \in Inputs : ReceiveBatch(r, w, items)
    BY <1>7
  <2>2. pc'[r] = "item" /\ todo'[r] = items
    BY <1>1, <2>1 DEF ReceiveBatch, goto
  <2>3. Len(items) \in Nat /\ Len(items) <= MaxItems
    BY <1>2 DEF Inputs
  <2>4. rest(r)' = Len(items) * perItem
    BY <2>2 DEF rest, perItem
  <2>5. rest(r)' \in Nat /\ rest(r)' <= whole
    BY <1>2, <2>3, <2>4, ProductGrows, ProductIsNat DEF whole
  <2>6. effort(r)' = rest(r)' + 3 * unverified(r)' + 4
    BY <2>2 DEF effort
  <2> QED BY <1>3, <1>5, <2>5, <2>6
<1>8. effort(r)' <= maxEffort
  BY <1>6, <1>7 DEF Arrive
<1>9. \A s \in Reqs \ {r} : effort(s)' = effort(s)
  BY <1>4, OthersEffort DEF Kept
<1>10. FreshFinite'
  BY <1>4 DEF EffortInv, FreshFinite
<1> QED BY <1>4, <1>8, <1>9, <1>10

EffortBound == \A r \in Reqs : effort(r) <= maxEffort

LEMMA EffortInitially ==
    ASSUME ReqInit
    PROVE  EffortInv /\ EffortBound
<1>1. ReqInv
  BY InitInv
<1>2. FreshFinite
  BY FS_EmptySet DEF ReqInit, FreshFinite
<1>3. ASSUME NEW r \in Reqs PROVE effort(r) = 0
  BY DEF ReqInit, effort
<1>4. maxEffort \in Nat
  <2>1. perItem \in Nat /\ MaxItems \in Nat
    BY RequestsAssumption DEF perItem
  <2> QED BY <2>1, ProductIsNat DEF maxEffort
<1> QED BY <1>1, <1>2, <1>3, <1>4 DEF EffortInv, EffortBound

\* Every step, of whatever request, costs nobody anything but the request
\* whose step it is, and that one at least one.
LEMMA NextCosts ==
    ASSUME EffortInv, [ReqNext]_reqVars
    PROVE  /\ EffortInv'
           /\ EffortBound => EffortBound'
           /\ \A r \in Reqs : /\ Step(r) => effort(r)' < effort(r)
                              /\ pc[r] # "new" => effort(r)' <= effort(r)
<1>1. \A r \in Reqs : effort(r) \in Nat
  BY EffortIsNat
<1>2. ReqInv'
  BY NextInv, StutterInv DEF EffortInv
<1>3. \A r \in Reqs : Step(r) => effort(r)' < effort(r)
  BY StepCosts
<1>4. CASE UNCHANGED reqVars
  <2>1. \A s \in Reqs : effort(s)' = effort(s)
    <3>1. \A s \in Reqs : SameLocals(s)
      BY <1>4 DEF SameLocals, reqVars, locals
    <3> QED BY <3>1, OthersEffort
  <2>2. FreshFinite'
    BY <1>4 DEF EffortInv, FreshFinite, reqVars, locals
  <2>3. EffortBound => EffortBound'
    BY <2>1 DEF EffortBound, maxEffort, perItem
  <2>4. \A s \in Reqs : effort(s)' <= effort(s)
    BY <1>1, <2>1
  <2> QED BY <1>2, <1>3, <2>2, <2>3, <2>4 DEF EffortInv
<1>5. ASSUME NEW r \in Reqs, Arrive(r) \/ Step(r)
      PROVE  /\ \A s \in Reqs \ {r} : effort(s)' = effort(s)
             /\ pc[r] # "new" => effort(r)' <= effort(r)
             /\ EffortBound => effort(r)' <= maxEffort
             /\ FreshFinite'
  <2>1. CASE Arrive(r)
    BY <2>1, ArriveCosts
  <2>2. CASE Step(r)
    <3>1. /\ effort(r)' < effort(r) /\ FreshFinite'
          /\ \A s \in Reqs \ {r} : effort(s)' = effort(s)
      BY <2>2, StepCosts
    <3>2. maxEffort \in Nat
      <4>1. perItem \in Nat /\ MaxItems \in Nat
        BY RequestsAssumption DEF perItem
      <4> QED BY <4>1, ProductIsNat DEF maxEffort
    <3>3. effort(r)' \in Nat
      <4>1. EffortInv'
        BY <1>2, <3>1 DEF EffortInv
      <4> QED BY <4>1, EffortIsNatNext
    <3>4. EffortBound => effort(r) <= maxEffort
      BY DEF EffortBound
    <3>5. /\ effort(r)' <= effort(r)
          /\ effort(r) <= maxEffort => effort(r)' <= maxEffort
      BY <1>1, <3>1, <3>2, <3>3
    <3> QED BY <3>1, <3>4, <3>5
  <2> QED BY <1>5, <2>1, <2>2
<1>6. CASE ReqNext
  <2>1. PICK r \in Reqs : Arrive(r) \/ Step(r)
    BY <1>6 DEF ReqNext
  <2>2. /\ \A s \in Reqs \ {r} : effort(s)' = effort(s)
        /\ pc[r] # "new" => effort(r)' <= effort(r)
        /\ EffortBound => effort(r)' <= maxEffort
        /\ FreshFinite'
    BY <1>5, <2>1
  <2>3. \A s \in Reqs : pc[s] # "new" => effort(s)' <= effort(s)
    <3>1. \A s \in Reqs \ {r} : effort(s)' <= effort(s)
      BY <1>1, <2>2
    <3> QED BY <2>2, <3>1
  <2>4. EffortBound => EffortBound'
    BY <2>2 DEF EffortBound, maxEffort, perItem
  <2> QED BY <1>2, <1>3, <2>2, <2>3, <2>4 DEF EffortInv
<1> QED BY <1>4, <1>6

-----------------------------------------------------------------------------
\* Whatever the other requests do, each repository call or draw of a request
\* leaves it less to do than before, and no step of another request, no
\* collision and no failing call ever gives it more to do.
THEOREM EveryStepCounts ==
    ReqSpec => [][\A r \in Reqs : /\ Step(r) => effort(r)' < effort(r)
                                  /\ pc[r] # "new" => effort(r)' <= effort(r)]_reqVars
<1>1. ReqInit => EffortInv
  BY EffortInitially
<1>2. EffortInv /\ [ReqNext]_reqVars => EffortInv'
  BY NextCosts
<1>3. EffortInv /\ [ReqNext]_reqVars =>
          \A r \in Reqs : /\ Step(r) => effort(r)' < effort(r)
                          /\ pc[r] # "new" => effort(r)' <= effort(r)
  BY NextCosts
<1> QED BY <1>1, <1>2, <1>3, PTL DEF ReqSpec

\* So a request is over after at most MaxItems * (Tries + 6) + 4 calls and
\* draws: the race for an id or a URL cannot be lost more often than that.
THEOREM EffortAlwaysBounded ==
    ReqSpec => [](\A r \in Reqs : effort(r) \in 0 .. (MaxItems * (Tries + 6) + 4))
<1>1. ReqInit => EffortInv /\ EffortBound
  BY EffortInitially
<1>2. EffortInv /\ EffortBound /\ [ReqNext]_reqVars => EffortInv' /\ EffortBound'
  BY NextCosts
<1>3. EffortInv /\ EffortBound =>
          \A r \in Reqs : effort(r) \in 0 .. (MaxItems * (Tries + 6) + 4)
  <2>1. SUFFICES ASSUME EffortInv, EffortBound, NEW r \in Reqs
                 PROVE  effort(r) \in 0 .. (MaxItems * (Tries + 6) + 4)
    OBVIOUS
  <2>2. effort(r) \in Nat /\ effort(r) <= maxEffort
    BY <2>1, EffortIsNat DEF EffortBound
  <2>3. maxEffort = MaxItems * (Tries + 6) + 4
    BY DEF maxEffort, perItem
  <2>4. maxEffort \in Nat
    <3>1. perItem \in Nat /\ MaxItems \in Nat
      BY RequestsAssumption DEF perItem
    <3> QED BY <3>1, ProductIsNat DEF maxEffort
  <2>5. effort(r) \in 0 .. maxEffort
    BY <2>2, <2>4
  <2> QED BY <2>3, <2>5
<1> QED BY <1>1, <1>2, <1>3, PTL DEF ReqSpec
=============================================================================
