------------------------------ MODULE Shortener ------------------------------
(***************************************************************************)
(* The service as cmd/shortener runs it: request handlers and the delete   *)
(* worker over one repository.  A step of a request leaves the worker's    *)
(* state alone and the other way round; they meet in the repository.       *)
(***************************************************************************)
EXTENDS ShortenRequests, DeleteWorker

vars == <<store, locals, workerVars>>

Init == ReqInit /\ DelInit

InProgress == {r \in Reqs : pc[r] \notin {"new"} \cup Ended}

\* Both servers stop before the worker does.  Only when the HTTP shutdown
\* times out are handlers still running when the worker's context is cancelled.
Requests ==
    \E r \in Reqs : /\ (ctxDone /\ MaxLate = 0 => pc[r] # "new") /\ (Arrive(r) \/ Step(r))
                    /\ UNCHANGED workerVars

DeleteRequests ==
    \E w \in Users, list \in Lists : EnqueueDelete(w, list) /\ UNCHANGED locals

StopWorker == (InProgress = {} \/ MaxLate > 0) /\ Cancel /\ UNCHANGED locals

DeleteWorkerStep == Worker /\ UNCHANGED locals

Next == Requests \/ DeleteRequests \/ StopWorker \/ DeleteWorkerStep

Spec == Init /\ [][Next]_vars

-----------------------------------------------------------------------------
(* Properties *)

\* The short links the repository holds are those of the abstract service:
\* every step of a handler or of the worker assigns, links or removes short
\* links the way ShortLinks allows, or changes none.
Links == INSTANCE ShortLinks WITH link <- original, owned <- user, gone <- deleted

RefinesShortLinks == Links!Spec

\* Nothing but a stored short link is ever marked deleted, so the redirect of
\* a marked id is "410 Gone" and never "not found".
DeletedExist == \A i \in deleted : Exists(i)
=============================================================================
