------------------------------ MODULE Process ------------------------------
(***************************************************************************)
(* The process with its clients: every call begins in an authentication    *)
(* step (the middleware, or the first line of a gRPC method), deletions    *)
(* need its user id, and a restart may bring another COOKIE_SECRET.        *)
(***************************************************************************)
EXTENDS Lifecycle, Sessions

ASSUME ProcessAssumption ==
    /\ WebCalls = HttpCalls
    /\ ClientOf \in [Calls -> Clients]
    /\ NoUser \notin Calls

vars == <<lifeVars, sessionVars>>

Init == LifeInit /\ SessionInit

Begin == \E c \in Calls : BeginCall(c) /\ Identify(c)

Delete == \E c \in Calls : Authorized(c) /\ EnqueueDelete(c) /\ UNCHANGED sessionVars

End == \E c \in Calls : EndCall(c) /\ Answer(c)

Run ==
    /\ \/ Start \/ Wake \/ Shutdown \/ Expire \/ Worker \/ Kill
       \/ \E s \in Servers : Accepts(s) \/ ServeErrs(s)
    /\ UNCHANGED sessionVars

Next == Begin \/ Delete \/ End \/ Run \/ \E source \in LaterSources : Restart(source) /\ Rekey

\* run() and the delete worker are goroutines the scheduler serves, the store
\* answers, and five seconds pass.  Handlers need not return, servers need not
\* come up, and nobody need send a signal.
Fairness ==
    /\ WF_vars(Shutdown /\ UNCHANGED sessionVars)
    /\ WF_vars(Worker /\ UNCHANGED sessionVars)
    /\ WF_vars(Expire /\ UNCHANGED sessionVars)

Spec == Init /\ [][Next]_vars /\ Fairness

-----------------------------------------------------------------------------
(* Properties *)

\* "If there is no correct cookie, the server creates a new user id and
\* returns a cookie": every HTTP call has a user id.
AlwaysIdentified ==
    \A c \in HttpCalls : call[c] \in {"running", "queued"} => Authorized(c)
=============================================================================
