--------------------------- MODULE ProcessProofs ---------------------------
(***************************************************************************)
(* Proofs about Process: with its clients it still lives the life that     *)
(* Lifecycle describes, no call ever acts for another client, and under    *)
(* one secret only an empty or malformed cookie keeps a call without an    *)
(* id, for all clients and calls and any number of starts.                 *)
(***************************************************************************)
EXTENDS Process, LifecycleProofs

\* The process with its clients implements Lifecycle: every step is a step of
\* run(), of a server, of the worker or of a call, or leaves these alone.
THEOREM RunsLifecycle == Spec => LifeSpec
<1>1. Init => LifeInit
  BY DEF Init
<1>2. Next => LifeNext
  BY DEF Next, Begin, Delete, End, Run, LifeNext, Handlers
<1>3. [Next]_vars => [LifeNext]_lifeVars
  BY <1>2 DEF vars
<1> QED BY <1>1, <1>3, PTL DEF Spec, LifeSpec

-----------------------------------------------------------------------------
(***************************************************************************)
(* Ids and tokens.  A signed token names an id that was drawn in a call of *)
(* the client that has it or is about to get it; hence so does the user of *)
(* a call, which is taken from such a token or drawn in the call.          *)
(***************************************************************************)
OwnId(uid, w) == uid \in WebCalls /\ ClientOf[uid] = w

OwnToken(token, w) == token.state = "signed" => OwnId(token.uid, w)

SessionInv ==
    /\ DOMAIN cookie = Clients /\ DOMAIN user = Calls /\ DOMAIN setCookie = Calls
    /\ \A w \in Clients : OwnToken(cookie[w], w)
    /\ \A c \in Calls : /\ OwnToken(setCookie[c], ClientOf[c])
                        /\ user[c] # NoUser => OwnId(user[c], ClientOf[c])

LEMMA Domains ==
    /\ SessionCalls = Calls /\ WebCalls \subseteq Calls
    /\ \A c \in Calls : ClientOf[c] \in Clients
    /\ NoCookie.state = "none" /\ BlankCookie.state = "blank"
    /\ \A uid, key : /\ Sign(uid, key).state = "signed"
                     /\ Sign(uid, key).uid = uid /\ Sign(uid, key).key = key
BY ProcessAssumption DEF SessionCalls, Calls, NoCookie, BlankCookie, Sign

LEMMA SessionInitially == SessionInit => SessionInv
<1> SUFFICES ASSUME SessionInit PROVE SessionInv
  OBVIOUS
<1>1. DOMAIN cookie = Clients /\ \A w \in Clients : cookie[w] \in {NoCookie, BlankCookie}
  BY DEF SessionInit
<1> QED BY <1>1, Domains DEF SessionInit, SessionInv, OwnToken

\* A token that verifies names an id of the client that sent it.
LEMMA VerifiedIsOwn ==
    ASSUME SessionInv, NEW c \in Calls
    PROVE  LET uid == Verify(cookie[ClientOf[c]], secret)
           IN  uid # NoUser => OwnId(uid, ClientOf[c])
BY Domains DEF SessionInv, Verify, OwnToken

LEMMA IdentifyKeeps ==
    ASSUME SessionInv, NEW c \in Calls, Identify(c)
    PROVE  SessionInv'
<1> DEFINE sent == cookie[ClientOf[c]]
<1>1. CASE c \in WebCalls /\ welcomes(c, c)
  <2>1. /\ user' = [user EXCEPT ![c] = c]
        /\ setCookie' = [setCookie EXCEPT ![c] = Sign(c, secret)]
        /\ UNCHANGED cookie
    BY <1>1 DEF welcomes
  <2>2. OwnId(c, ClientOf[c]) /\ OwnToken(Sign(c, secret), ClientOf[c])
    BY <1>1, Domains DEF OwnId, OwnToken
  <2> QED BY <2>1, <2>2 DEF SessionInv, OwnToken, OwnId
<1>2. CASE passes(c)
  BY <1>2 DEF passes, SessionInv, OwnToken, OwnId
<1>3. CASE verifies(c) \/ UserIDFromAuthMeta(c)
  <2>1. user' = [user EXCEPT ![c] = Verify(sent, secret)] /\ UNCHANGED <<cookie, setCookie>>
    BY <1>3 DEF verifies, UserIDFromAuthMeta
  <2> QED BY <2>1, VerifiedIsOwn DEF SessionInv, OwnToken, OwnId
<1> QED BY <1>1, <1>2, <1>3 DEF Identify, Auth

LEMMA AnswerKeeps ==
    ASSUME SessionInv, NEW c \in Calls, Answer(c)
    PROVE  SessionInv'
<1>1. \/ UNCHANGED cookie
      \/ cookie' = [cookie EXCEPT ![ClientOf[c]] = setCookie[c]]
  BY DEF Answer
<1>2. UNCHANGED <<user, setCookie>>
  BY DEF Answer
<1> QED BY <1>1, <1>2, Domains DEF SessionInv, OwnToken, OwnId

LEMMA SessionInductive == SessionInv /\ [Next]_vars => SessionInv'
<1>1. ASSUME SessionInv, UNCHANGED <<cookie, user, setCookie>> PROVE SessionInv'
  BY <1>1 DEF SessionInv, OwnToken, OwnId
<1>2. ASSUME SessionInv, Next PROVE SessionInv'
  <2>1. CASE Begin
    BY <1>2, <2>1, IdentifyKeeps DEF Begin
  <2>2. CASE End
    BY <1>2, <2>2, AnswerKeeps DEF End
  <2>3. CASE Delete \/ Run \/ \E source \in LaterSources : Restart(source) /\ Rekey
    BY <1>1, <1>2, <2>3 DEF Delete, Run, Rekey, sessionVars
  <2> QED BY <1>2, <2>1, <2>2, <2>3 DEF Next
<1> QED BY <1>1, <1>2 DEF vars, sessionVars

\* No call acts for an id that was issued to another client.
THEOREM AlwaysActsForOwnId == Spec => []ActsForOwnId
<1>1. Init => SessionInv
  BY SessionInitially DEF Init
<1>2. SessionInv => ActsForOwnId
  BY Domains DEF SessionInv, OwnId, ActsForOwnId
<1> QED BY <1>1, <1>2, SessionInductive, PTL DEF Spec

-----------------------------------------------------------------------------
(***************************************************************************)
(* Empty and malformed cookies.  An answer carries a cookie only if the    *)
(* call came with none, so a client that sends such a one never gets       *)
(* another.                                                                *)
(***************************************************************************)
BlankInv ==
    /\ DOMAIN cookie = Clients /\ DOMAIN setCookie = Calls
    /\ \A w \in Clients : cookie[w].state \in {"none", "blank", "signed"}
    /\ \A c \in Calls :
          /\ setCookie[c].state \in {"none", "signed"}
          /\ cookie[ClientOf[c]].state = "blank" => setCookie[c] = NoCookie

LEMMA BlankInitially == SessionInit => BlankInv
<1> SUFFICES ASSUME SessionInit PROVE BlankInv
  OBVIOUS
<1>1. DOMAIN cookie = Clients /\ \A w \in Clients : cookie[w] \in {NoCookie, BlankCookie}
  BY DEF SessionInit
<1> QED BY <1>1, Domains DEF SessionInit, BlankInv

LEMMA BlankInductive ==
    ASSUME BlankInv, [Next]_vars
    PROVE  /\ BlankInv'
           /\ \A w \in Clients : cookie[w].state = "blank" => cookie'[w] = cookie[w]
<1>1. CASE UNCHANGED <<cookie, setCookie>>
  BY <1>1 DEF BlankInv
<1>2. ASSUME NEW c \in Calls, Identify(c), ~UNCHANGED <<cookie, setCookie>>
      PROVE  /\ UNCHANGED cookie /\ cookie[ClientOf[c]].state = "none"
             /\ setCookie' = [setCookie EXCEPT ![c] = Sign(c, secret)]
  BY <1>2 DEF Identify, Auth, welcomes, passes, verifies, UserIDFromAuthMeta
<1>3. CASE (\E c \in Calls : Identify(c)) /\ ~UNCHANGED <<cookie, setCookie>>
  <2>1. PICK c \in Calls : /\ UNCHANGED cookie /\ cookie[ClientOf[c]].state = "none"
                           /\ setCookie' = [setCookie EXCEPT ![c] = Sign(c, secret)]
    BY <1>2, <1>3
  <2> QED BY <2>1, Domains DEF BlankInv
<1>4. CASE \E c \in Calls : Answer(c)
  <2>1. PICK c \in Calls : Answer(c)
    BY <1>4
  <2>2. UNCHANGED setCookie
    BY <2>1 DEF Answer
  <2>3. CASE UNCHANGED cookie
    BY <1>1, <2>2, <2>3
  <2>4. CASE setCookie[c] # NoCookie /\ cookie' = [cookie EXCEPT ![ClientOf[c]] = setCookie[c]]
    <3>1. cookie[ClientOf[c]].state # "blank"
      BY <2>4 DEF BlankInv
    <3>2. setCookie[c].state \in {"none", "signed"}
      BY DEF BlankInv
    <3> QED BY <2>2, <2>4, <3>1, <3>2, Domains DEF BlankInv
  <2> QED BY <2>1, <2>3, <2>4 DEF Answer
<1> QED BY <1>1, <1>3, <1>4 DEF Next, Begin, Delete, End, Run, Rekey, vars, sessionVars

THEOREM BlankInvariant == Spec => []BlankInv
<1>1. BlankInv /\ [Next]_vars => BlankInv'
  BY BlankInductive
<1>2. Init => BlankInv
  BY BlankInitially DEF Init
<1> QED BY <1>1, <1>2, PTL DEF Spec

\* A client whose cookie is empty or malformed keeps it, through any number of
\* calls, restarts and changes of the secret: the service never replaces it, and
\* so never gives this client an id.
THEOREM BlankStaysBlank ==
    Spec => [][\A w \in Clients : cookie[w].state = "blank" => cookie'[w] = cookie[w]]_vars
<1>1. BlankInv /\ [Next]_vars =>
          [\A w \in Clients : cookie[w].state = "blank" => cookie'[w] = cookie[w]]_vars
  BY BlankInductive
<1> QED BY <1>1, BlankInvariant, PTL DEF Spec

-----------------------------------------------------------------------------
(***************************************************************************)
(* Under one secret.  Every signed cookie verifies, so that a call without *)
(* an id can only be one that came with an empty or malformed cookie.      *)
(***************************************************************************)
Verifies(token) == token.state = "signed" => token.key = secret /\ token.uid # NoUser

\* A call in progress has an id, or its client sent a cookie of no use.
NamelessOnlyBlank ==
    \A c \in HttpCalls :
        call[c] \in {"running", "queued"} /\ ~Authorized(c) => cookie[ClientOf[c]].state = "blank"

NamelessInv ==
    /\ DOMAIN user = Calls /\ DOMAIN call = Calls
    /\ \A w \in Clients : Verifies(cookie[w])
    /\ \A c \in Calls : Verifies(setCookie[c])
    /\ NamelessOnlyBlank

LEMMA NamelessInitially == Init => NamelessInv
<1> SUFFICES ASSUME Init PROVE NamelessInv
  OBVIOUS
<1>1. /\ DOMAIN user = Calls
      /\ \A w \in Clients : cookie[w] \in {NoCookie, BlankCookie}
      /\ \A c \in Calls : setCookie[c] = NoCookie
  BY Domains DEF Init, SessionInit
<1>2. DOMAIN call = Calls /\ \A c \in Calls : call[c] = "none"
  BY DEF Init, LifeInit
<1>3. NamelessOnlyBlank
  BY <1>2 DEF NamelessOnlyBlank, Calls
<1> QED BY <1>1, <1>2, <1>3, Domains DEF NamelessInv, Verifies

LEMMA BeginKeepsNameless ==
    ASSUME BlankInv, NamelessInv, NEW c \in Calls, BeginCall(c), Identify(c)
    PROVE  NamelessInv'
<1> DEFINE sent == cookie[ClientOf[c]]
<1>1. Verifies(sent) /\ ClientOf[c] \in Clients /\ (c \in HttpCalls <=> c \in WebCalls)
  BY Domains, ProcessAssumption DEF NamelessInv
<1>2. call' = [call EXCEPT ![c] = "running"]
  BY DEF BeginCall, moves
<1>3. UNCHANGED <<secret, cookie>>
  BY DEF Identify, Auth, welcomes, passes, verifies, UserIDFromAuthMeta
<1>4. CASE welcomes(c, c)
  <2>1. /\ user' = [user EXCEPT ![c] = c]
        /\ setCookie' = [setCookie EXCEPT ![c] = Sign(c, secret)]
    BY <1>4 DEF welcomes
  <2>2. c # NoUser
    BY ProcessAssumption
  <2>3. Verifies(Sign(c, secret))
    BY <2>2, Domains DEF Verifies
  <2>4. NamelessOnlyBlank'
    BY <1>2, <1>3, <2>1, <2>2 DEF NamelessInv, NamelessOnlyBlank, Authorized, Calls
  <2>5. \A d \in Calls : setCookie'[d] \in {setCookie[d], Sign(c, secret)}
    BY <2>1 DEF BlankInv
  <2> QED BY <1>2, <1>3, <2>1, <2>3, <2>4, <2>5 DEF NamelessInv, Verifies
<1>5. CASE \/ c \in WebCalls /\ (passes(c) \/ verifies(c))
           \/ c \notin WebCalls /\ UserIDFromAuthMeta(c)
  <2>1. \E uid : user' = [user EXCEPT ![c] = uid]
    BY <1>5 DEF passes, verifies, UserIDFromAuthMeta
  <2>2. UNCHANGED setCookie
    BY <1>5 DEF passes, verifies, UserIDFromAuthMeta
  <2>3. ASSUME c \in HttpCalls PROVE user'[c] # NoUser \/ sent.state = "blank"
    <3>1. DOMAIN user = Calls
      BY DEF NamelessInv
    <3>2. passes(c) \/ verifies(c)
      BY <1>1, <1>5, <2>3
    <3>3. CASE passes(c)
      BY <3>3 DEF passes
    <3>4. CASE verifies(c)
      <4>1. sent.state = "signed" => sent.uid # NoUser /\ sent.key = secret
        BY <1>1 DEF Verifies
      <4>2. user'[c] = sent.uid
        BY <3>1, <3>4, <4>1 DEF verifies, Verify
      <4> QED BY <3>4, <4>1, <4>2 DEF verifies
    <3> QED BY <3>2, <3>3, <3>4
  <2>4. NamelessOnlyBlank'
    BY <1>2, <1>3, <2>1, <2>3 DEF NamelessInv, NamelessOnlyBlank, Authorized, Calls
  <2> QED BY <1>2, <1>3, <2>1, <2>2, <2>4 DEF NamelessInv, Verifies
<1> QED BY <1>4, <1>5 DEF Identify, Auth

\* An answer brings the client a cookie that verifies; a blank one it leaves.
LEMMA EndKeepsNameless ==
    ASSUME BlankInv, NamelessInv, NEW c \in Calls, EndCall(c), Answer(c),
           \A w \in Clients : cookie[w].state = "blank" => cookie'[w] = cookie[w]
    PROVE  NamelessInv'
<1>1. \/ UNCHANGED cookie
      \/ cookie' = [cookie EXCEPT ![ClientOf[c]] = setCookie[c]]
  BY DEF Answer
<1>2. UNCHANGED <<user, setCookie, secret>> /\ call' = [call EXCEPT ![c] = "ended"]
  BY DEF Answer, EndCall, moves
<1>3. NamelessOnlyBlank'
  BY <1>2, Domains DEF NamelessInv, NamelessOnlyBlank, Authorized, Calls
<1>4. \A w \in Clients : cookie'[w] \in {cookie[w], setCookie[c]}
  BY <1>1 DEF BlankInv
<1>5. \A w \in Clients : Verifies(cookie[w]) /\ Verifies(setCookie[c])
  BY DEF NamelessInv
<1>6. \A w \in Clients : Verifies(cookie[w])'
  BY <1>2, <1>4, <1>5 DEF Verifies
<1> QED BY <1>2, <1>3, <1>6 DEF NamelessInv, Verifies

\* A step of the process itself lets no call in.
LEMMA RunKeepsNameless ==
    ASSUME NamelessInv, Run \/ \E source \in LaterSources : Restart(source),
           UNCHANGED <<secret, cookie, user, setCookie>>
    PROVE  NamelessInv'
<1>1. /\ DOMAIN call' = Calls
      /\ \A c \in Calls : call'[c] \in {"running", "queued"} => call'[c] = call[c]
  <2>1. CASE Start \/ Wake \/ Expire \/ Worker \/ (\E s \in Servers : Accepts(s) \/ ServeErrs(s))
    <3>1. CASE Start
      BY <3>1 DEF NamelessInv, Start, ParseConfig, OpenAudit, OpenAuditErrs, OpenStorage,
                  OpenStorageErrs, StartDeleteWorker, MakeTLS, MakeTLSErrs, Listen, ListenErrs,
                  Serve, goes, errs, fails, net
    <3>2. CASE ~Start
      BY <2>1, <3>2 DEF NamelessInv, Wake, Signal, SeeServeErr, Expire, Worker, TakeTask, Flush,
                 Drained, LastFlush, Accepts, ServeErrs, goes, net
    <3> QED BY <3>1, <3>2
  <2>2. CASE Shutdown
    <3>1. CASE GrpcTimesOut
      BY <3>1 DEF GrpcTimesOut
    <3>2. CASE ~GrpcTimesOut
      BY <2>2, <3>2 DEF NamelessInv, Shutdown, ShutdownHttp, HttpDown, HttpTimesOut,
                 GracefulStop, GrpcDown, Close, CancelWorker, WaitDeleteWorker, Exit, goes, errs, net
    <3> QED BY <3>1, <3>2
  <2>3. CASE Kill \/ \E source \in LaterSources : Restart(source)
    BY <2>3 DEF Kill, Restart, memoryGone
  <2> QED BY <2>1, <2>2, <2>3 DEF Run
<1>2. NamelessOnlyBlank'
  BY <1>1 DEF NamelessInv, NamelessOnlyBlank, Authorized, Calls
<1> QED BY <1>1, <1>2 DEF NamelessInv, Verifies

LEMMA NamelessInductive ==
    BlankInv /\ NamelessInv /\ [Next]_vars /\ [secret' = secret]_vars => NamelessInv'
<1> SUFFICES ASSUME BlankInv, NamelessInv, [Next]_vars, [secret' = secret]_vars
             PROVE  NamelessInv'
  OBVIOUS
<1>1. secret' = secret
  BY DEF vars, sessionVars
<1>2. CASE Begin
  BY <1>2, BeginKeepsNameless DEF Begin
<1>3. CASE End
  BY <1>3, BlankInductive, EndKeepsNameless DEF End
<1>4. CASE Delete
  <2>1. PICK c \in Calls : Authorized(c) /\ EnqueueDelete(c) /\ UNCHANGED sessionVars
    BY <1>4 DEF Delete
  <2>2. call' = [call EXCEPT ![c] = "queued"] /\ call[c] = "running"
    BY <2>1 DEF EnqueueDelete, moves
  <2>3. UNCHANGED <<secret, cookie, user, setCookie>>
    BY <2>1 DEF sessionVars
  <2>4. NamelessOnlyBlank'
    BY <2>1, <2>2, <2>3 DEF NamelessInv, NamelessOnlyBlank, Authorized, Calls
  <2> QED BY <2>2, <2>3, <2>4 DEF NamelessInv, Verifies
<1>5. CASE Run \/ \E source \in LaterSources : Restart(source) /\ Rekey
  BY <1>1, <1>5, RunKeepsNameless DEF Run, Rekey, sessionVars
<1>6. CASE UNCHANGED vars
  BY <1>6 DEF vars, sessionVars, lifeVars, net, NamelessInv, Verifies, NamelessOnlyBlank, Authorized
<1> QED BY <1>2, <1>3, <1>4, <1>5, <1>6 DEF Next

\* As long as COOKIE_SECRET stays the same, over any number of restarts, kills
\* and lost answers, an HTTP call is without a user id only if its client sent
\* an empty or malformed cookie: what README says of the cookie fails in this
\* case, and otherwise only by a change of the secret.
THEOREM NamelessUnderOneSecret == Spec /\ [][secret' = secret]_vars => []NamelessOnlyBlank
<1>1. NamelessInv => NamelessOnlyBlank
  BY DEF NamelessInv
<1> QED BY <1>1, NamelessInitially, NamelessInductive, BlankInvariant, PTL DEF Spec

\* With its clients as well the configuration follows the documented order.
THEOREM ProcessParsesByPriority == Spec => ByPriority
BY RunsLifecycle, ParsesByPriority, PTL
=============================================================================
