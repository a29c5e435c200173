------------------------------ MODULE Sessions ------------------------------
(***************************************************************************)
(* Who a call is from.  Over HTTP, middleware.Auth: a client without the   *)
(* cookie user_id gets a new id and a signed cookie for it, one whose      *)
(* cookie verifies acts for its id, and one whose cookie is empty or does  *)
(* not verify is let through without an id and without a new cookie.  Over *)
(* gRPC, UserIDFromAuthMeta: the same token, verified and never issued.    *)
(*                                                                         *)
(* A client begins without a cookie, or with one of the name user_id that  *)
(* is empty or malformed.  It keeps that of the last answer that carried   *)
(* one, and sends it with every call.  A signature is a record of the key  *)
(* it was made with, and verifies under no other.                          *)
(***************************************************************************)
EXTENDS Naturals

CONSTANTS
    Clients,
    ClientOf,      \* call -> the client that makes it
    WebCalls,      \* those of them that come over HTTP
    Marred,        \* clients that may hold an empty or malformed cookie from the start
    NoUser

ASSUME SessionAssumption == Marred \subseteq Clients

VARIABLES
    secret,     \* the key of this process; keys are numbered as they come into use
    cookie,     \* client -> its cookie
    user,       \* call -> the user id in its context
    setCookie   \* call -> the Set-Cookie header of its answer

sessionVars == <<secret, cookie, user, setCookie>>

SessionCalls == DOMAIN ClientOf

\* A new user id is 16 random bytes, unlike any other: it is named after the
\* call it was drawn for.
UserIds == WebCalls

NoCookie    == [state |-> "none", uid |-> NoUser, key |-> 0]
BlankCookie == [state |-> "blank", uid |-> NoUser, key |-> 0]

SessionInit ==
    /\ secret = 1
    /\ cookie \in {f \in [Clients -> {NoCookie, BlankCookie}] :
                     \A w \in Clients \ Marred : f[w] = NoCookie}
    /\ user = [c \in SessionCalls |-> NoUser]
    /\ setCookie = [c \in SessionCalls |-> NoCookie]

-----------------------------------------------------------------------------
Sign(uid, key) == [state |-> "signed", uid |-> uid, key |-> key]

\* A malformed value verifies under no key.
Verify(token, key) ==
    IF token.state = "signed" /\ token.key = key THEN token.uid ELSE NoUser

\* A client that sends no cookie gets one for the id new.
welcomes(c, new) ==
    /\ cookie[ClientOf[c]].state = "none"
    /\ user' = [user EXCEPT ![c] = new]
    /\ setCookie' = [setCookie EXCEPT ![c] = Sign(new, secret)]
    /\ UNCHANGED <<secret, cookie>>

\* An empty value is not even verified and a malformed one does not verify: the
\* request goes on without an id, and the cookie stays as it is.
passes(c) ==
    /\ cookie[ClientOf[c]].state = "blank"
    /\ user' = [user EXCEPT ![c] = NoUser]
    /\ UNCHANGED <<secret, cookie, setCookie>>

\* So does a request whose cookie was signed with another key.
verifies(c) ==
    /\ cookie[ClientOf[c]].state = "signed"
    /\ user' = [user EXCEPT ![c] = Verify(cookie[ClientOf[c]], secret)]
    /\ UNCHANGED <<secret, cookie, setCookie>>

\* Mutant: the new id is drawn once, beside the secret, for the whole process.
AuthOnce(c) == welcomes(c, CHOOSE uid \in UserIds : TRUE) \/ passes(c) \/ verifies(c)

Auth(c) == welcomes(c, c) \/ passes(c) \/ verifies(c)

\* A call without an id is refused or, ExpandURL, needs none.
UserIDFromAuthMeta(c) ==
    /\ user' = [user EXCEPT ![c] = Verify(cookie[ClientOf[c]], secret)]
    /\ UNCHANGED <<secret, cookie, setCookie>>

Identify(c) == IF c \in WebCalls THEN Auth(c) ELSE UserIDFromAuthMeta(c)

\* The answer has reached the client, or was lost on the way.
Answer(c) ==
    /\ cookie' \in {cookie} \cup (IF setCookie[c] # NoCookie
                                 THEN {[cookie EXCEPT ![ClientOf[c]] = setCookie[c]]} ELSE {})
    /\ UNCHANGED <<secret, user, setCookie>>

\* The handlers of /api/user/urls answer 401 to a call without an id.
Authorized(c) == user[c] # NoUser

\* A process reads COOKIE_SECRET at its start: a new value or one used before.
Rekey == secret' \in 1 .. secret + 1 /\ UNCHANGED <<cookie, user, setCookie>>

-----------------------------------------------------------------------------
(* Properties *)

\* A call acts for no id but one that was issued to its own client, over
\* either protocol and however first calls, lost answers, restarts and changes
\* of the secret interleave.
ActsForOwnId ==
    \A c \in SessionCalls : user[c] # NoUser => ClientOf[user[c]] = ClientOf[c]
=============================================================================
