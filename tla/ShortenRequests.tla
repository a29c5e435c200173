-------------------------- MODULE ShortenRequests --------------------------
(***************************************************************************)
(* The handlers that create short links, each in its own goroutine: single *)
(* requests (POST /, POST /api/shorten, gRPC ShortenURL) run               *)
(* ShortenForUserContext, batch requests (POST /api/shorten/batch) run     *)
(* ShortenBatchContext.  Nothing but the repository is shared and nothing  *)
(* is held from one repository call to the next, so every call is a step   *)
(* of its own and the steps of different requests interleave.              *)
(*                                                                         *)
(* A request's locals are functions from the request: ids[r] is            *)
(* idByOriginal, todo[r] the items of a batch not yet looked at, fresh[r]  *)
(* the URLs of toCreate not yet verified.  The id generated for a URL of   *)
(* toCreate is the one idByOriginal has for it, and usedIDs are these ids. *)
(*                                                                         *)
(* A draw of an id does not fail: randomstringbase is called with a        *)
(* positive constant length, and crypto/rand.Read of the Go version that   *)
(* go.mod asks for never returns an error.                                 *)
(***************************************************************************)
EXTENDS MemoryRepository, Sequences

CONSTANTS
    Singles, Batches,  \* the requests that will arrive
    Raws, Normalize,   \* submitted URLs; normalizeURL as a function on them
    BadUrl,            \* what Normalize gives for a URL the service refuses
    NoUser,            \* the blank user id
    Tries,             \* draws of an id before giving up (10 in the code)
    MaxItems,          \* bound: items in a batch
    Faults             \* repository calls may fail (PostgreSQL)

Reqs    == Singles \cup Batches
Owners  == Users \cup {NoUser}
Inputs  == UNION {[1..n -> Raws] : n \in 1..MaxItems}

ASSUME RequestsAssumption ==
    /\ Singles \cap Batches = {}
    /\ Tries \in Nat \ {0}
    /\ MaxItems \in Nat \ {0}
    /\ Faults \in BOOLEAN
    /\ NoUser \notin Users
    /\ BadUrl \notin Urls
    /\ Normalize \in [Raws -> Urls \cup {BadUrl}]

VARIABLES
    pc,       \* the repository call the request makes next, or how it ended
    owner,    \* the user the request acts for
    url,      \* the URL under consideration
    tries,    \* ids drawn for it so far
    asked,    \* the URLs that idByOriginal has an id for
    ids,      \* idByOriginal
    created,  \* the answer is "201 Created" of a single request, not "409 Conflict"
    todo,     \* batch items left
    fresh     \* batch URLs under a generated id that is not verified yet

locals  == <<pc, owner, url, tries, asked, ids, created, todo, fresh>>
reqVars == <<store, locals>>

Stages == {"new", "lookup", "put", "recheck",
           "item", "lookupItem", "generate", "putBatch", "verify", "reget",
           "link", "answered", "failed", "rejected"}
Ended == {"answered", "failed", "rejected"}

ReqTypeOK ==
    /\ pc      \in [Reqs -> Stages]
    /\ owner   \in [Reqs -> Owners]
    /\ url     \in [Reqs -> Urls \cup {NoUrl}]
    /\ tries   \in [Reqs -> 0..Tries]
    /\ asked   \in [Reqs -> SUBSET Urls]
    /\ ids     \in [Reqs -> [Urls -> Ids \cup {NoId}]]
    /\ created \in [Reqs -> BOOLEAN]
    /\ todo    \in [Reqs -> Seq(Raws)]
    /\ fresh   \in [Reqs -> SUBSET Urls]

TypeOK == StoreTypeOK /\ ReqTypeOK

ReqInit ==
    /\ StoreInit
    /\ pc      = [r \in Reqs |-> "new"]
    /\ owner   = [r \in Reqs |-> NoUser]
    /\ url     = [r \in Reqs |-> NoUrl]
    /\ tries   = [r \in Reqs |-> 0]
    /\ asked   = [r \in Reqs |-> {}]
    /\ ids     = [r \in Reqs |-> [u \in Urls |-> NoId]]
    /\ created = [r \in Reqs |-> FALSE]
    /\ todo    = [r \in Reqs |-> <<>>]
    /\ fresh   = [r \in Reqs |-> {}]

goto(r, stage) == pc' = [pc EXCEPT ![r] = stage]

\* The request learns (or, for a batch item, decides) the id of u.
learn(r, u, i) ==
    /\ ids' = [ids EXCEPT ![r][u] = i]
    /\ asked' = [asked EXCEPT ![r] = @ \cup {u}]

-----------------------------------------------------------------------------
(* Single requests *)

\* The handler has the body and the user id; normalizeURL refuses or accepts.
Receive(r, w, raw) ==
    /\ r \in Singles /\ pc[r] = "new"
    /\ owner' = [owner EXCEPT ![r] = w]
    /\ IF Normalize[raw] = BadUrl
       THEN goto(r, "rejected") /\ UNCHANGED url
       ELSE goto(r, "lookup") /\ url' = [url EXCEPT ![r] = Normalize[raw]]
    /\ UNCHANGED <<tries, asked, ids, created, todo, fresh, store>>

\* GetByOriginal before anything is stored.
LookupHit(r) ==
    /\ pc[r] = "lookup" /\ Known(url[r])
    /\ learn(r, url[r], original[url[r]])
    /\ goto(r, "link")
    /\ UNCHANGED <<owner, url, tries, created, todo, fresh, store>>

\* PostgreSQL's Get and GetByOriginal report any error as "not found".
LookupMiss(r) ==
    /\ pc[r] = "lookup" /\ (~Known(url[r]) \/ Faults)
    /\ goto(r, "put")
    /\ UNCHANGED <<owner, url, tries, asked, ids, created, todo, fresh, store>>

\* The drawn id and the URL were both absent: created.
PutCreates(r, i) ==
    /\ pc[r] = "put"
    /\ PutIfAbsent(i, url[r])
    /\ learn(r, url[r], i)
    /\ created' = [created EXCEPT ![r] = TRUE]
    /\ goto(r, "link")
    /\ UNCHANGED <<owner, url, tries, todo, fresh>>

\* Mutants: one draw too many; looking up and drawing without end.
PutCollidesOnceMore(r, i) ==
    /\ pc[r] = "put" /\ ~Fresh(i, url[r])
    /\ tries' = [tries EXCEPT ![r] = @ + 1]
    /\ goto(r, IF tries[r] = Tries THEN "recheck" ELSE "put")
    /\ UNCHANGED <<owner, url, asked, ids, created, todo, fresh, store>>

PutCollidesForEver(r, i) ==
    /\ pc[r] = "put" /\ ~Fresh(i, url[r])
    /\ goto(r, "lookup")
    /\ UNCHANGED <<owner, url, tries, asked, ids, created, todo, fresh, store>>

\* The id or the URL is taken: draw again, or give up after Tries draws.
PutCollides(r, i) ==
    /\ pc[r] = "put" /\ ~Fresh(i, url[r])
    /\ tries' = [tries EXCEPT ![r] = @ + 1]
    /\ goto(r, IF tries[r] + 1 = Tries THEN "recheck" ELSE "put")
    /\ UNCHANGED <<owner, url, asked, ids, created, todo, fresh, store>>

\* Mutant: the error is ignored and the drawn id answered.
PutErrsIgnored(r, i) ==
    /\ Faults /\ pc[r] = "put"
    /\ PutIfAbsent(i, url[r]) \/ UNCHANGED store
    /\ learn(r, url[r], i)
    /\ goto(r, "link")
    /\ UNCHANGED <<owner, url, tries, created, todo, fresh>>

\* PutIfAbsent returned an error; the row may have been inserted all the same.
PutErrs(r, i) ==
    /\ Faults /\ pc[r] = "put"
    /\ PutIfAbsent(i, url[r]) \/ UNCHANGED store
    /\ goto(r, "recheck")
    /\ UNCHANGED <<owner, url, tries, asked, ids, created, todo, fresh>>

\* The GetByOriginal that follows an error or the last draw.
RecheckHit(r) ==
    /\ pc[r] = "recheck" /\ Known(url[r])
    /\ learn(r, url[r], original[url[r]])
    /\ goto(r, "link")
    /\ UNCHANGED <<owner, url, tries, created, todo, fresh, store>>

RecheckMiss(r) ==
    /\ pc[r] = "recheck" /\ (~Known(url[r]) \/ Faults)
    /\ goto(r, "failed")
    /\ UNCHANGED <<owner, url, tries, asked, ids, created, todo, fresh, store>>

-----------------------------------------------------------------------------
(* Batch requests *)

ReceiveBatch(r, w, items) ==
    /\ r \in Batches /\ pc[r] = "new"
    /\ owner' = [owner EXCEPT ![r] = w]
    /\ todo' = [todo EXCEPT ![r] = items]
    /\ goto(r, "item")
    /\ UNCHANGED <<url, tries, asked, ids, created, fresh, store>>

popItem(r) == todo' = [todo EXCEPT ![r] = Tail(@)]

\* A refused URL ends the request; one seen earlier in the batch is skipped.
NextItem(r) ==
    /\ pc[r] = "item" /\ todo[r] # <<>>
    /\ LET u == Normalize[Head(todo[r])]
       IN  \/ /\ u = BadUrl
              /\ goto(r, "rejected") /\ UNCHANGED <<url, todo>>
           \/ /\ u \in asked[r]
              /\ popItem(r) /\ UNCHANGED <<pc, url>>
           \/ /\ u \in Urls \ asked[r]
              /\ url' = [url EXCEPT ![r] = u]
              /\ goto(r, "lookupItem") /\ UNCHANGED todo
    /\ UNCHANGED <<owner, tries, asked, ids, created, fresh, store>>

LookupItemHit(r) ==
    /\ pc[r] = "lookupItem" /\ Known(url[r])
    /\ learn(r, url[r], original[url[r]])
    /\ popItem(r)
    /\ goto(r, "item")
    /\ UNCHANGED <<owner, url, tries, created, fresh, store>>

LookupItemMiss(r) ==
    /\ pc[r] = "lookupItem" /\ (~Known(url[r]) \/ Faults)
    /\ tries' = [tries EXCEPT ![r] = 0]
    /\ goto(r, "generate")
    /\ UNCHANGED <<owner, url, asked, ids, created, todo, fresh, store>>

usedIDs(r) == {ids[r][u] : u \in fresh[r]}

\* Mutant: the ids used in this batch are not looked at.
GenerateIDUsed(r, i) ==
    /\ pc[r] = "generate" /\ ~Exists(i)
    /\ learn(r, url[r], i)
    /\ fresh' = [fresh EXCEPT ![r] = @ \cup {url[r]}]
    /\ popItem(r)
    /\ goto(r, "item")
    /\ UNCHANGED <<owner, url, tries, created, store>>

\* generateBatchID only reads: the id is not reserved until PutBatchIfAbsent.
GenerateID(r, i) ==
    /\ pc[r] = "generate"
    /\ i \notin usedIDs(r) /\ (~Exists(i) \/ Faults)
    /\ learn(r, url[r], i)
    /\ fresh' = [fresh EXCEPT ![r] = @ \cup {url[r]}]
    /\ popItem(r)
    /\ goto(r, "item")
    /\ UNCHANGED <<owner, url, tries, created, store>>

GenerateCollides(r, i) ==
    /\ pc[r] = "generate"
    /\ i \in usedIDs(r) \/ Exists(i)
    /\ tries' = [tries EXCEPT ![r] = @ + 1]
    /\ goto(r, IF tries[r] + 1 = Tries THEN "failed" ELSE "generate")
    /\ UNCHANGED <<owner, url, asked, ids, created, todo, fresh, store>>

EndOfItems(r) ==
    /\ pc[r] = "item" /\ todo[r] = <<>>
    /\ goto(r, IF fresh[r] = {} THEN "link" ELSE "putBatch")
    /\ UNCHANGED <<owner, url, tries, asked, ids, created, todo, fresh, store>>

PutBatch(r) ==
    /\ pc[r] = "putBatch"
    /\ PutBatchIfAbsent(fresh[r], ids[r])
    /\ goto(r, "verify")
    /\ UNCHANGED <<owner, url, tries, asked, ids, created, todo, fresh>>

PutBatchErrs(r) ==
    /\ Faults /\ pc[r] = "putBatch"
    /\ PutBatchIfAbsent(fresh[r], ids[r]) \/ UNCHANGED store
    /\ goto(r, "failed")
    /\ UNCHANGED <<owner, url, tries, asked, ids, created, todo, fresh>>

verified(r, u) ==
    /\ fresh' = [fresh EXCEPT ![r] = @ \ {u}]
    /\ goto(r, IF fresh[r] \subseteq {u} THEN "link" ELSE "verify")

\* Mutant: any record under the generated id passes for ours, even none.
VerifyNothing(r, u) ==
    /\ pc[r] = "verify" /\ u \in fresh[r]
    /\ verified(r, u)
    /\ UNCHANGED <<owner, url, tries, asked, ids, created, todo, store>>

\* Get of the generated id: is it our URL that is stored under it?
VerifyOurs(r, u) ==
    /\ pc[r] = "verify" /\ u \in fresh[r]
    /\ data[ids[r][u]] = u
    /\ verified(r, u)
    /\ UNCHANGED <<owner, url, tries, asked, ids, created, todo, store>>

VerifyOther(r, u) ==
    /\ pc[r] = "verify" /\ u \in fresh[r]
    /\ data[ids[r][u]] # u \/ Faults
    /\ url' = [url EXCEPT ![r] = u]
    /\ goto(r, "reget")
    /\ UNCHANGED <<owner, tries, asked, ids, created, todo, fresh, store>>

\* Somebody else stored the URL first: answer with their id.
RegetHit(r) ==
    /\ pc[r] = "reget" /\ Known(url[r])
    /\ learn(r, url[r], original[url[r]])
    /\ verified(r, url[r])
    /\ UNCHANGED <<owner, url, tries, created, todo, store>>

RegetMiss(r) ==
    /\ pc[r] = "reget" /\ (~Known(url[r]) \/ Faults)
    /\ goto(r, "failed")
    /\ UNCHANGED <<owner, url, tries, asked, ids, created, todo, fresh, store>>

-----------------------------------------------------------------------------
(* Both: addUserURLs, then the answer *)

shortIDs(r) == {ids[r][u] : u \in asked[r]}

Link(r) ==
    /\ pc[r] = "link"
    /\ IF owner[r] = NoUser THEN UNCHANGED store ELSE AddUserURLs(owner[r], shortIDs(r))
    /\ goto(r, "answered")
    /\ UNCHANGED <<owner, url, tries, asked, ids, created, todo, fresh>>

LinkErrs(r) ==
    /\ Faults /\ pc[r] = "link" /\ owner[r] # NoUser
    /\ AddUserURLs(owner[r], shortIDs(r)) \/ UNCHANGED store
    /\ goto(r, "failed")
    /\ UNCHANGED <<owner, url, tries, asked, ids, created, todo, fresh>>

-----------------------------------------------------------------------------
\* What a request does once it has arrived.
Step(r) ==
    \/ LookupHit(r) \/ LookupMiss(r)
    \/ \E i \in Ids : PutCreates(r, i) \/ PutCollides(r, i) \/ PutErrs(r, i)
    \/ RecheckHit(r) \/ RecheckMiss(r)
    \/ NextItem(r) \/ LookupItemHit(r) \/ LookupItemMiss(r)
    \/ \E i \in Ids : GenerateID(r, i) \/ GenerateCollides(r, i)
    \/ EndOfItems(r) \/ PutBatch(r) \/ PutBatchErrs(r)
    \/ \E u \in Urls : VerifyOurs(r, u) \/ VerifyOther(r, u)
    \/ RegetHit(r) \/ RegetMiss(r)
    \/ Link(r) \/ LinkErrs(r)

Arrive(r) ==
    \E w \in Owners :
        \/ \E raw \in Raws : Receive(r, w, raw)
        \/ \E items \in Inputs : ReceiveBatch(r, w, items)

ReqNext == \E r \in Reqs : Arrive(r) \/ Step(r)

ReqSpec == ReqInit /\ [][ReqNext]_reqVars

\* Each handler runs in a goroutine of its own, which the scheduler serves.
\* Whether a request arrives at all is up to the clients.
ReqFairness == \A r \in Reqs : WF_reqVars(Step(r))
ReqFairSpec == ReqSpec /\ ReqFairness

-----------------------------------------------------------------------------
(* Properties *)

\* The two maps of the store are inverse to each other, so that a lookup by
\* URL and a redirect by id always tell the same story.
IndexesAgree == \A i \in Ids, u \in Urls : data[i] = u <=> original[u] = i

\* Every id a request is about to link or has answered with is stored, under
\* the very URL it was asked for, whoever won the race to create it.
AnswersStored ==
    \A r \in Reqs : pc[r] \in {"link", "answered"} =>
        \A u \in asked[r] : ids[r][u] \in Ids /\ data[ids[r][u]] = u

\* At most one single request is told "201 Created" for a URL, whatever the
\* interleaving and whatever repository calls fail on the way.
CreatedOnce ==
    \A r, s \in Singles : created[r] /\ created[s] /\ url[r] = url[s] => r = s

\* A link of a user always leads to a stored URL: handlers store first and
\* link after (no foreign key in the schema says so).
LinksResolve == \A w \in Users : \A i \in user[w] : Exists(i)

\* An answered request of a known user has all its ids in the user's list.
AnsweredListed ==
    \A r \in Reqs : pc[r] = "answered" /\ owner[r] # NoUser =>
        shortIDs(r) \subseteq user[owner[r]]

\* generateBatchID never gives one id to two URLs of a batch, which is what
\* lets PutBatchIfAbsent store the items of a batch independently.
BatchIdsDistinct ==
    \A r \in Batches : \A u, v \in fresh[r] : ids[r][u] = ids[r][v] => u = v

\* Another record has the id drawn for the URL the request looked at last.
lostItsId(r) ==
    ids[r][url[r]] \in Ids /\ data[ids[r][url[r]]] \notin {NoUrl, url[r]}

\* Without failing calls a batch item that was not stored under its generated
\* id lost either to a request that stored the same URL, whose id it then
\* finds, or to one that took the id; and a batch fails for want of an id only:
\* its draws were used up, or another record took an id it had drawn.
LostToAnother ==
    \A r \in Batches :
        /\ pc[r] = "reget"  => Known(url[r]) \/ lostItsId(r)
        /\ pc[r] = "failed" => tries[r] = Tries \/ lostItsId(r)

\* A short link never changes its target, is never given up, and a URL never
\* changes its short link: what was answered once stays right.
LinksNeverMove ==
    [][/\ \A i \in Ids  : Exists(i) => data'[i] = data[i]
       /\ \A u \in Urls : Known(u) => original'[u] = original[u]
       /\ \A w \in Users : user[w] \subseteq user'[w]]_store

\* A request that was let in is answered or refused in the end: no race makes
\* it draw ids or re-read for ever.
RequestsEnd == \A r \in Reqs : pc[r] \notin {"new"} ~> pc[r] \in Ended
=============================================================================
