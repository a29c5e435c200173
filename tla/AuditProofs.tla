---------------------------- MODULE AuditProofs ----------------------------
(***************************************************************************)
(* Proofs about Audit, for any number of events, any capacity, any number  *)
(* of retries, and with or without late handlers: Close leaves nothing     *)
(* behind, closes the file last and waits for a bounded number of steps,   *)
(* the file lists what was queued, and the endpoint gets every event whose *)
(* posts were answered once and in its turn, and none too often.           *)
(***************************************************************************)
EXTENDS Audit, FiniteSetTheorems, TLAPS

(***************************************************************************)
(* The goroutine and Close.                                                *)
(***************************************************************************)
busy == run \in {"file", "post", "sleep"}

ControlOK ==
    /\ busy <=> event # NoEvent
    /\ ~busy => attempt = 0
    /\ closed <=> closer # "notCalled"
    /\ run = "ended" => closed /\ queue = <<>>
    /\ closer = "returned" => run = "ended"
    /\ fileOpen \/ closer = "returned"

ControlInv == AuditTypeOK /\ ControlOK

LEMMA AppendEvent ==
    ASSUME NEW s \in Seq(Events), NEW e \in Events
    PROVE  /\ Append(s, e) \in Seq(Events) /\ Len(Append(s, e)) = Len(s) + 1
           /\ Append(s, e)[Len(s) + 1] = e
           /\ \A k \in 1..Len(s) : Append(s, e)[k] = s[k]
OBVIOUS

LEMMA ControlInitially == AuditInit => ControlInv
<1> SUFFICES ASSUME AuditInit PROVE ControlInv
  OBVIOUS
<1>1. queue = <<>> /\ Len(queue) = 0 /\ queue \in Seq(Events)
  BY DEF AuditInit
<1>2. /\ lines \in Seq(Events) /\ received \in Seq(Events) /\ accepted \in Seq(Events)
      /\ 0 \in 0 .. RetryCount - 1 /\ 0 <= QueueSize
  BY AuditAssumption DEF AuditInit
<1>3. AuditTypeOK
  BY <1>1, <1>2 DEF AuditInit, AuditTypeOK
<1>4. ControlOK
  BY AuditAssumption DEF AuditInit, ControlOK, busy
<1> QED BY <1>3, <1>4 DEF ControlInv

\* The handlers' part of the channel.
LEMMA EnqueueKeepsControl ==
    ASSUME ControlInv, NEW e \in Events, EnqueueOk(e) \/ EnqueueFull(e) \/ EnqueueClosed(e)
    PROVE  ControlInv'
<1> USE DEF ControlInv, AuditTypeOK, ControlOK, busy, reports, ends, goroutine, history, endpoint
<1>1. CASE EnqueueOk(e)
  <2>1. /\ queue' \in Seq(Events) /\ Len(queue') = Len(queue) + 1
        /\ accepted' \in Seq(Events)
    BY <1>1 DEF EnqueueOk
  <2>2. Len(queue') <= QueueSize
    BY <1>1, <2>1, AuditAssumption DEF EnqueueOk
  <2> QED BY <1>1, <2>1, <2>2 DEF EnqueueOk
<1>2. CASE EnqueueFull(e) \/ EnqueueClosed(e)
  <2>1. handler' \in [Events -> {"working", "queued", "refused", "panicked"}]
    BY <1>2 DEF EnqueueFull, EnqueueClosed
  <2>2. UNCHANGED <<queue, closed, run, event, attempt, expired, closer, fileOpen, lines, received,
                    underway, accepted, unwritten, unanswered>>
    BY <1>2 DEF EnqueueFull, EnqueueClosed
  <2> QED BY <2>1, <2>2
<1> QED BY <1>1, <1>2

LEMMA RunKeepsControl ==
    ASSUME ControlInv, Run \/ Expire \/ \E e \in Events : ReceivesLate(e)
    PROVE  ControlInv'
<1> USE DEF ControlInv, AuditTypeOK, ControlOK, busy, goroutine, history, finish, endpoint
<1>0. 0 \in 0 .. RetryCount - 1
  BY AuditAssumption
<1>1. CASE Receive
  <2>1. /\ Head(queue) \in Events /\ queue' \in Seq(Events) /\ Len(queue') = Len(queue) - 1
        /\ Len(queue) \in Nat
    BY <1>1 DEF Receive
  <2>2. Len(queue') <= QueueSize
    BY <2>1, AuditAssumption
  <2> QED BY <1>1, <2>1, <2>2, AuditAssumption DEF Receive
<1>2. CASE RunEnds
  BY <1>2 DEF RunEnds
<1>3. CASE WriteLine \/ WriteErrs
  <2>1. event \in Events
    BY <1>3 DEF WriteLine, WriteErrs
  <2>2. lines' \in Seq(Events) /\ unwritten' \subseteq Events
    <3>1. CASE WriteLine
      BY <2>1, <3>1, AppendEvent DEF WriteLine
    <3>2. CASE WriteErrs
      BY <2>1, <3>2 DEF WriteErrs
    <3> QED BY <1>3, <3>1, <3>2
  <2>3. /\ run = "file" /\ run' = "post"
        /\ UNCHANGED <<handler, queue, closed, event, attempt, expired, closer, fileOpen,
                       received, underway, accepted, unanswered>>
    BY <1>3 DEF WriteLine, WriteErrs
  <2> QED BY <2>2, <2>3
<1>4. CASE PostOk
  <2>1. event \in Events
    BY <1>4 DEF PostOk
  <2>2. received' \in Seq(Events)
    BY <1>4, <2>1 DEF PostOk
  <2> QED BY <1>0, <1>4, <2>2 DEF PostOk
<1>5. CASE PostErrs
  <2>1. event \in Events
    BY <1>5 DEF PostErrs
  <2>2. /\ received' \in Seq(Events) /\ underway' \in [Events -> Nat]
        /\ unanswered' \subseteq Events
    <3>1. /\ received' = received \/ received' = Append(received, event)
          /\ underway' = underway \/ underway' = [underway EXCEPT ![event] = @ + 1]
          /\ unanswered' = unanswered \cup {event}
      BY <1>5 DEF PostErrs, fails
    <3>2. received \in Seq(Events) /\ underway \in [Events -> Nat] /\ underway[event] + 1 \in Nat
      BY <2>1
    <3>3. Append(received, event) \in Seq(Events)
      BY <2>1, <3>2, AppendEvent
    <3> QED BY <2>1, <3>1, <3>2, <3>3
  <2>3. CASE attempt + 1 = RetryCount
    BY <1>0, <1>5, <2>2, <2>3 DEF PostErrs
  <2>4. CASE attempt + 1 # RetryCount
    <3>1. attempt + 1 \in 0 .. RetryCount - 1
      BY <2>4, AuditAssumption
    <3> QED BY <1>5, <2>2, <2>4, <3>1 DEF PostErrs
  <2> QED BY <2>3, <2>4
<1>6. CASE SleepEnds
  BY <1>6 DEF SleepEnds
<1>7. CASE SleepExpires
  BY <1>0, <1>7 DEF SleepExpires
<1>8. CASE Expire
  BY <1>8 DEF Expire
<1>9. CASE \E e \in Events : ReceivesLate(e)
  <2>1. PICK e \in Events : ReceivesLate(e)
    BY <1>9
  <2>2. received' \in Seq(Events)
    BY <2>1, AppendEvent DEF ReceivesLate
  <2>3. underway[e] \in Nat /\ underway[e] > 0
    BY <2>1 DEF ReceivesLate
  <2>4. underway[e] - 1 \in Nat
    BY <2>3
  <2>5. underway' \in [Events -> Nat]
    BY <2>1, <2>4 DEF ReceivesLate
  <2> QED BY <2>1, <2>2, <2>5 DEF ReceivesLate
<1> QED BY <1>1, <1>2, <1>3, <1>4, <1>5, <1>6, <1>7, <1>8, <1>9 DEF Run

LEMMA ControlInductive == ControlInv /\ [AuditNext]_auditVars => ControlInv'
<1>1. ASSUME ControlInv, Close \/ CloseObservers PROVE ControlInv'
  BY <1>1 DEF ControlInv, AuditTypeOK, ControlOK, busy, Close, CloseObservers,
             goroutine, history, endpoint
<1>2. ASSUME ControlInv, UNCHANGED auditVars PROVE ControlInv'
  BY <1>2 DEF ControlInv, AuditTypeOK, ControlOK, busy, auditVars, goroutine, history, endpoint
<1> QED BY <1>1, <1>2, EnqueueKeepsControl, RunKeepsControl DEF AuditNext

THEOREM AuditControl == AuditSpec => []ControlInv
BY ControlInitially, ControlInductive, PTL DEF AuditSpec

\* Type correctness: the channel never exceeds its capacity, the attempts not RetryCount.
THEOREM AuditTypesAlwaysOK == AuditSpec => []AuditTypeOK
<1>1. ControlInv => AuditTypeOK
  BY DEF ControlInv
<1> QED BY <1>1, AuditControl, PTL

\* Close closes the file after the last line.
THEOREM AlwaysWritesToOpenFile == AuditSpec => []WritesToOpenFile
<1>1. ControlInv => WritesToOpenFile
  BY DEF ControlInv, ControlOK, WritesToOpenFile
<1> QED BY <1>1, AuditControl, PTL

\* Close returns only when the channel is empty and the last event is done with.
THEOREM NothingEverLeftBehind == AuditSpec => []NothingLeftBehind
<1>1. ControlInv => NothingLeftBehind
  BY DEF ControlInv, ControlOK, busy, NothingLeftBehind
<1> QED BY <1>1, AuditControl, PTL

-----------------------------------------------------------------------------
(***************************************************************************)
(* The order of delivery.  The channel holds the last of the accepted      *)
(* events, the one in delivery is the one before them, and whatever the    *)
(* endpoint has received, or may still receive, comes no later than that.  *)
(* Between two attempts of one event no other is sent, so its receipts     *)
(* and the posts of it still under way are no more than its attempts.      *)
(***************************************************************************)
taken == Len(accepted) - Len(queue)

QueueOK ==
    /\ Len(queue) <= Len(accepted)
    /\ \A k \in 1..Len(queue) : queue[k] = accepted[taken + k]

AcceptedOK ==
    /\ \A j, k \in 1..Len(accepted) : accepted[j] = accepted[k] => j = k
    /\ \A k \in 1..Len(accepted) : handler[accepted[k]] = "queued"

EventOK == busy => taken >= 1 /\ event = accepted[taken]

ReceivedOK ==
    /\ \A j \in 1..Len(received) : \E p \in 1..taken : accepted[p] = received[j]
    /\ \A j, k \in 1..Len(received) : \A p, q \in 1..Len(accepted) :
          j <= k /\ accepted[p] = received[j] /\ accepted[q] = received[k]
              => p <= q \/ received[k] \in unanswered

UnansweredOK ==
    /\ \A e \in unanswered : \E p \in 1..taken : accepted[p] = e
    /\ \A e \in Events : underway[e] > 0 => e \in unanswered
    /\ run = "sleep" => event \in unanswered

got(e) == {k \in 1..Len(received) : received[k] = e}

gotten(e) == Cardinality(got(e))

CountOK ==
    \A e \in Events :
        /\ IsFiniteSet(got(e))
        /\ gotten(e) + underway[e] <= IF e = event THEN attempt ELSE RetryCount

\* The events delivered, in the order of the queue, are the first delivered of the accepted.
delivered == IF busy THEN taken - 1 ELSE taken

ExactOK ==
    \A p \in 1..Len(accepted) :
        accepted[p] \notin unanswered => gotten(accepted[p]) = IF p <= delivered THEN 1 ELSE 0

OrderInv == QueueOK /\ AcceptedOK /\ EventOK /\ ReceivedOK /\ UnansweredOK /\ CountOK /\ ExactOK

LEMMA Lengths ==
    ASSUME ControlInv, OrderInv
    PROVE  /\ Len(queue) \in Nat /\ Len(accepted) \in Nat /\ Len(received) \in Nat
           /\ taken \in Nat /\ taken <= Len(accepted) /\ taken + Len(queue) = Len(accepted)
           /\ attempt \in Nat /\ attempt + 1 <= RetryCount /\ RetryCount \in Nat
<1>1. queue \in Seq(Events) /\ accepted \in Seq(Events) /\ received \in Seq(Events)
      /\ attempt \in 0 .. RetryCount - 1
  BY DEF ControlInv, AuditTypeOK
<1>2. Len(queue) \in Nat /\ Len(accepted) \in Nat /\ Len(received) \in Nat
      /\ Len(queue) <= Len(accepted)
  BY <1>1 DEF OrderInv, QueueOK
<1> QED BY <1>1, <1>2, AuditAssumption DEF taken

LEMMA GotFacts ==
    ASSUME ControlInv, OrderInv, NEW e \in Events
    PROVE  /\ IsFiniteSet(got(e)) /\ gotten(e) \in Nat /\ underway[e] \in Nat
           /\ gotten(e) + underway[e] <= IF e = event THEN attempt ELSE RetryCount
           /\ gotten(e) + underway[e] <= RetryCount
<1>1. /\ IsFiniteSet(got(e))
      /\ gotten(e) + underway[e] <= IF e = event THEN attempt ELSE RetryCount
  BY DEF OrderInv, CountOK
<1>2. gotten(e) \in Nat
  BY <1>1, FS_CardinalityType DEF gotten
<1>3. underway[e] \in Nat
  BY DEF ControlInv, AuditTypeOK
<1> QED BY <1>1, <1>2, <1>3, Lengths

\* What is accepted is in the hands of the goroutine up to taken, and what is
\* not has reached nobody.
LEMMA NotYetGot ==
    ASSUME ControlInv, OrderInv, NEW e \in Events,
           \A p \in 1..taken : accepted[p] # e
    PROVE  got(e) = {} /\ gotten(e) = 0 /\ e \notin unanswered /\ underway[e] = 0
<1>1. \A j \in 1..Len(received) : received[j] # e
  BY DEF OrderInv, ReceivedOK
<1>2. got(e) = {}
  BY <1>1 DEF got
<1>3. e \notin unanswered
  BY DEF OrderInv, UnansweredOK
<1>4. underway[e] = 0
  BY <1>3, GotFacts DEF OrderInv, UnansweredOK
<1> QED BY <1>2, <1>3, <1>4, FS_EmptySet DEF gotten

LEMMA EnqueueKeepsOrder ==
    ASSUME ControlInv, OrderInv, NEW e \in Events,
           EnqueueOk(e) \/ EnqueueFull(e) \/ EnqueueClosed(e)
    PROVE  OrderInv'
<1>1. QueueOK /\ AcceptedOK /\ EventOK /\ ReceivedOK /\ UnansweredOK /\ CountOK /\ ExactOK
  BY DEF OrderInv
<1>2. /\ queue \in Seq(Events) /\ accepted \in Seq(Events)
      /\ handler \in [Events -> {"working", "queued", "refused", "panicked"}]
  BY DEF ControlInv, AuditTypeOK
<1>3. /\ handler[e] = "working"
      /\ UNCHANGED <<run, event, attempt, received, underway, unanswered>>
      /\ \A d \in Events \ {e} : handler'[d] = handler[d]
  BY <1>2 DEF EnqueueOk, EnqueueFull, EnqueueClosed, reports, ends, goroutine, endpoint, history
<1>4. \A k \in 1..Len(accepted) : accepted[k] \in Events /\ accepted[k] # e
  BY <1>1, <1>2, <1>3 DEF AcceptedOK
<1>5. CountOK' /\ \A d : gotten(d)' = gotten(d)
  BY <1>1, <1>3 DEF CountOK, got, gotten
<1>6. CASE EnqueueOk(e)
  <2>1. /\ accepted' = Append(accepted, e) /\ queue' = Append(queue, e) /\ handler'[e] = "queued"
    BY <1>2, <1>6 DEF EnqueueOk, ends
  <2>2. /\ Len(accepted') = Len(accepted) + 1 /\ accepted'[Len(accepted) + 1] = e
        /\ \A k \in 1..Len(accepted) : accepted'[k] = accepted[k]
    BY <1>2, <2>1, AppendEvent
  <2>3. /\ Len(queue') = Len(queue) + 1 /\ queue'[Len(queue) + 1] = e
        /\ \A k \in 1..Len(queue) : queue'[k] = queue[k]
    BY <1>2, <2>1, AppendEvent
  <2>4. taken' = taken
    BY <2>2, <2>3, Lengths DEF taken
  <2>5. /\ \A k \in 1..Len(accepted') : k \in 1..Len(accepted) \/ k = Len(accepted) + 1
        /\ \A k \in 1..Len(queue') : k \in 1..Len(queue) \/ k = Len(queue) + 1
        /\ \A k \in 1..Len(queue) : taken + k \in 1..Len(accepted)
        /\ taken + (Len(queue) + 1) = Len(accepted) + 1
        /\ \A k \in 1..taken : k \in 1..Len(accepted)
    BY <2>2, <2>3, Lengths
  <2>6. QueueOK'
    <3>1. Len(queue') <= Len(accepted')
      BY <2>2, <2>3, Lengths
    <3>2. ASSUME NEW k \in 1..Len(queue') PROVE queue'[k] = accepted'[taken + k]
      <4>1. CASE k \in 1..Len(queue)
        BY <4>1, <1>1, <2>2, <2>3, <2>5 DEF QueueOK
      <4>2. CASE k = Len(queue) + 1
        BY <4>2, <2>2, <2>3, <2>5
      <4> QED BY <2>5, <4>1, <4>2
    <3> QED BY <2>4, <3>1, <3>2 DEF QueueOK
  <2>7. AcceptedOK'
    BY <1>1, <1>3, <1>4, <2>1, <2>2, <2>5 DEF AcceptedOK
  <2>8. EventOK'
    BY <1>1, <1>3, <2>2, <2>4, <2>5, Lengths DEF EventOK, busy
  <2>9. ReceivedOK'
    <3>1. \A j \in 1..Len(received) : received[j] # e
      BY <1>1, <1>4, <2>5 DEF ReceivedOK
    <3>2. \A j \in 1..Len(received) : \E p \in 1..taken : accepted'[p] = received[j]
      BY <1>1, <2>2, <2>5 DEF ReceivedOK
    <3>3. ASSUME NEW j \in 1..Len(received), NEW k \in 1..Len(received),
                 NEW p \in 1..Len(accepted'), NEW q \in 1..Len(accepted'),
                 j <= k, accepted'[p] = received[j], accepted'[q] = received[k]
          PROVE  p <= q \/ received[k] \in unanswered
      <4>1. p \in 1..Len(accepted) /\ q \in 1..Len(accepted)
        BY <2>2, <2>5, <3>1, <3>3
      <4>2. accepted[p] = received[j] /\ accepted[q] = received[k]
        BY <2>2, <3>3, <4>1
      <4> QED BY <1>1, <3>3, <4>1, <4>2 DEF ReceivedOK
    <3>4. \A j, k \in 1..Len(received) : \A p, q \in 1..Len(accepted') :
              j <= k /\ accepted'[p] = received[j] /\ accepted'[q] = received[k]
                  => p <= q \/ received[k] \in unanswered
      BY <3>3
    <3>5. \A j \in 1..Len(received') : \E p \in 1..taken' : accepted'[p] = received'[j]
      BY <1>3, <2>4, <3>2
    <3>6. \A j, k \in 1..Len(received') : \A p, q \in 1..Len(accepted') :
              j <= k /\ accepted'[p] = received'[j] /\ accepted'[q] = received'[k]
                  => p <= q \/ received'[k] \in unanswered'
      BY <1>3, <3>4
    <3> QED BY <3>5, <3>6 DEF ReceivedOK
  <2>10. \A p \in 1..taken : accepted'[p] = accepted[p] /\ accepted[p] # e
    BY <1>4, <2>2, <2>5
  <2>11. UnansweredOK'
    BY <1>1, <1>3, <2>4, <2>10 DEF UnansweredOK
  <2>12. ExactOK'
    <3>1. delivered' = delivered /\ delivered <= Len(accepted)
      BY <1>3, <2>4, Lengths DEF delivered, busy
    <3>2. ASSUME NEW p \in 1..Len(accepted'), accepted'[p] \notin unanswered
          PROVE  gotten(accepted'[p]) = IF p <= delivered THEN 1 ELSE 0
      <4>1. CASE p \in 1..Len(accepted)
        BY <1>1, <2>2, <3>2, <4>1 DEF ExactOK
      <4>2. CASE p = Len(accepted) + 1
        <5>1. accepted'[p] = e /\ gotten(e) = 0
          BY <2>2, <2>10, <4>2, NotYetGot
        <5>2. ~(p <= delivered)
          BY <3>1, <4>2, Lengths DEF delivered
        <5> QED BY <5>1, <5>2
      <4> QED BY <2>5, <4>1, <4>2
    <3> QED BY <1>3, <1>5, <3>1, <3>2 DEF ExactOK
  <2> QED BY <1>5, <2>6, <2>7, <2>8, <2>9, <2>11, <2>12 DEF OrderInv
<1>7. CASE EnqueueFull(e) \/ EnqueueClosed(e)
  <2>1. UNCHANGED <<queue, accepted>>
    BY <1>7 DEF EnqueueFull, EnqueueClosed, history
  <2>2. AcceptedOK'
    BY <1>1, <1>3, <1>4, <2>1 DEF AcceptedOK
  <2>3. UnansweredOK' /\ ExactOK'
    BY <1>1, <1>3, <1>5, <2>1 DEF UnansweredOK, ExactOK, delivered, taken, busy
  <2> QED BY <1>1, <1>3, <1>5, <2>1, <2>2, <2>3
          DEF OrderInv, QueueOK, EventOK, ReceivedOK, taken, busy
<1> QED BY <1>6, <1>7

\* The next event is taken: the endpoint has not had it.
LEMMA ReceiveKeepsOrder ==
    ASSUME ControlInv, OrderInv, Receive
    PROVE  OrderInv'
<1>1. QueueOK /\ AcceptedOK /\ ReceivedOK /\ UnansweredOK /\ CountOK /\ ExactOK
  BY DEF OrderInv
<1>2. /\ queue \in Seq(Events) /\ queue # <<>>
      /\ queue' = Tail(queue) /\ event' = Head(queue) /\ run' = "file"
      /\ UNCHANGED <<handler, accepted, received, underway, unanswered, attempt>>
      /\ attempt = 0 /\ event = NoEvent /\ run = "idle"
  BY DEF Receive, history, endpoint, ControlInv, AuditTypeOK, ControlOK, busy
<1>3. /\ Len(queue') = Len(queue) - 1 /\ 1 \in 1..Len(queue) /\ event' = queue[1]
      /\ event' \in Events
      /\ \A k \in 1..Len(queue') : queue'[k] = queue[k + 1]
  BY <1>2
<1>4. /\ taken' = taken + 1 /\ taken + 1 \in 1..Len(accepted)
      /\ \A k \in 1..Len(queue') : k + 1 \in 1..Len(queue) /\ taken + (k + 1) = (taken + 1) + k
      /\ \A p \in 1..taken : p \in 1 .. taken + 1 /\ p \in 1..Len(accepted) /\ p # taken + 1
  BY <1>2, <1>3, Lengths DEF taken
<1>5. event' = accepted[taken + 1]
  BY <1>1, <1>3 DEF QueueOK
<1>6. QueueOK'
  <2>1. Len(queue') <= Len(accepted)
    BY <1>3, Lengths
  <2>2. \A k \in 1..Len(queue') : queue'[k] = accepted[(taken + 1) + k]
    BY <1>1, <1>3, <1>4 DEF QueueOK
  <2> QED BY <1>2, <1>4, <2>1, <2>2 DEF QueueOK
<1>7. EventOK'
  BY <1>2, <1>4, <1>5, Lengths DEF EventOK
<1>8. AcceptedOK'
  BY <1>1, <1>2 DEF AcceptedOK
<1>9. ReceivedOK'
  BY <1>1, <1>2, <1>4 DEF ReceivedOK
<1>10. event' \in Events /\ \A p \in 1..taken : accepted[p] # event'
  BY <1>1, <1>3, <1>4, <1>5 DEF AcceptedOK
<1>11. CountOK'
  <2>1. \A e \in Events : got(e)' = got(e) /\ gotten(e)' = gotten(e)
    BY <1>2 DEF got, gotten
  <2>2. gotten(event') + underway[event'] <= attempt
    BY <1>2, <1>10, NotYetGot
  <2>3. \A e \in Events : IsFiniteSet(got(e)) /\ gotten(e) + underway[e] <= RetryCount
    BY GotFacts
  <2> QED BY <1>2, <2>1, <2>2, <2>3 DEF CountOK
<1>12. UnansweredOK'
  BY <1>1, <1>2, <1>4 DEF UnansweredOK
<1>13. ExactOK'
  <2>1. delivered' = delivered
    BY <1>2, <1>4, Lengths DEF delivered, busy
  <2>2. \A e : gotten(e)' = gotten(e)
    BY <1>2 DEF got, gotten
  <2> QED BY <1>1, <1>2, <2>1, <2>2 DEF ExactOK
<1> QED BY <1>6, <1>7, <1>8, <1>9, <1>11, <1>12, <1>13 DEF OrderInv

\* The endpoint receives an event once more.
LEMMA OneMore ==
    ASSUME ControlInv, OrderInv, NEW e \in Events, received' = Append(received, e)
    PROVE  /\ Len(received') = Len(received) + 1 /\ received'[Len(received) + 1] = e
           /\ \A k \in 1..Len(received) : received'[k] = received[k]
           /\ \A k \in 1..Len(received') : k \in 1..Len(received) \/ k = Len(received) + 1
           /\ \A d \in Events : IsFiniteSet(got(d)')
           /\ \A d \in Events \ {e} : gotten(d)' = gotten(d)
           /\ gotten(e)' = gotten(e) + 1
<1>1. received \in Seq(Events)
  BY DEF ControlInv, AuditTypeOK
<1>2. /\ Len(received') = Len(received) + 1 /\ received'[Len(received) + 1] = e
      /\ \A k \in 1..Len(received) : received'[k] = received[k]
  BY <1>1, AppendEvent
<1>3. /\ \A k \in 1..Len(received') : k \in 1..Len(received) \/ k = Len(received) + 1
      /\ \A k \in 1..Len(received) : k \in 1..Len(received')
      /\ Len(received) + 1 \in 1..Len(received')
      /\ Len(received) + 1 \notin 1..Len(received)
  BY <1>2, Lengths
<1>4. \A d \in Events \ {e} : got(d)' = got(d)
  BY <1>2, <1>3 DEF got
<1>5. got(e)' = got(e) \cup {Len(received) + 1} /\ Len(received) + 1 \notin got(e)
  BY <1>2, <1>3 DEF got
<1>6. IsFiniteSet(got(e)') /\ Cardinality(got(e)') = Cardinality(got(e)) + 1
  BY <1>5, GotFacts, FS_AddElement
<1> QED BY <1>2, <1>3, <1>4, <1>6, GotFacts DEF gotten

\* It comes in its turn, being the event in delivery, or it is one whose client
\* gave up on it.
LEMMA ReceiptInOrder ==
    ASSUME ControlInv, OrderInv, NEW e \in Events, received' = Append(received, e),
           UNCHANGED <<accepted, queue>>, unanswered \subseteq unanswered',
           \/ busy /\ e = event
           \/ e \in unanswered
    PROVE  ReceivedOK'
<1>1. AcceptedOK /\ EventOK /\ ReceivedOK /\ UnansweredOK
  BY DEF OrderInv
<1>2. taken' = taken /\ \A p \in 1..taken : p \in 1..Len(accepted) /\ p <= taken
  BY Lengths DEF taken
<1>3. busy /\ e = event => e = accepted[taken] /\ taken \in 1..taken
  BY <1>1, Lengths DEF EventOK
<1>4. \E p \in 1..taken : accepted[p] = e
  BY <1>1, <1>3 DEF UnansweredOK
<1>5. \A j \in 1..Len(received') : \E p \in 1..taken : accepted[p] = received'[j]
  BY <1>1, <1>4, OneMore DEF ReceivedOK
<1>6. ASSUME NEW j \in 1..Len(received'), NEW p \in 1..Len(accepted),
             accepted[p] = received'[j]
      PROVE  p \in 1..taken
  BY <1>1, <1>2, <1>5, <1>6 DEF AcceptedOK
<1>7. ASSUME NEW j \in 1..Len(received'), NEW k \in 1..Len(received'),
             NEW p \in 1..Len(accepted), NEW q \in 1..Len(accepted),
             j <= k, accepted[p] = received'[j], accepted[q] = received'[k]
      PROVE  p <= q \/ received'[k] \in unanswered'
  <2>1. CASE k \in 1..Len(received)
    <3>1. j \in 1..Len(received)
      BY <1>7, <2>1, OneMore, Lengths
    <3>2. received'[j] = received[j] /\ received'[k] = received[k]
      BY <2>1, <3>1, OneMore
    <3> QED BY <1>1, <1>7, <2>1, <3>1, <3>2 DEF ReceivedOK
  <2>2. CASE k = Len(received) + 1 /\ e \in unanswered
    BY <2>2, OneMore
  <2>3. CASE k = Len(received) + 1 /\ busy /\ e = event
    <3>1. received'[k] = accepted[taken] /\ taken \in 1..Len(accepted)
      BY <1>2, <1>3, <2>3, OneMore
    <3>2. q = taken
      BY <1>1, <1>7, <3>1 DEF AcceptedOK
    <3>3. p \in 1..taken
      BY <1>6, <1>7
    <3> QED BY <1>2, <3>2, <3>3
  <2> QED BY <2>1, <2>2, <2>3, OneMore
<1>8. \A j, k \in 1..Len(received') : \A p, q \in 1..Len(accepted) :
          j <= k /\ accepted[p] = received'[j] /\ accepted[q] = received'[k]
              => p <= q \/ received'[k] \in unanswered'
  BY <1>7
<1>9. \A j \in 1..Len(received') : \E p \in 1..taken' : accepted'[p] = received'[j]
  BY <1>2, <1>5
<1>10. \A j, k \in 1..Len(received') : \A p, q \in 1..Len(accepted') :
          j <= k /\ accepted'[p] = received'[j] /\ accepted'[q] = received'[k]
              => p <= q \/ received'[k] \in unanswered'
  BY <1>8
<1> QED BY <1>9, <1>10 DEF ReceivedOK

\* A post succeeds: the one receipt of an event none of whose posts failed.
LEMMA PostOkKeepsOrder ==
    ASSUME ControlInv, OrderInv, PostOk
    PROVE  OrderInv'
<1>1. /\ QueueOK /\ AcceptedOK /\ EventOK /\ ReceivedOK /\ UnansweredOK /\ CountOK /\ ExactOK
  BY DEF OrderInv
<1>2. /\ busy /\ received' = Append(received, event)
      /\ UNCHANGED <<handler, accepted, queue, underway, unanswered>>
      /\ event' = NoEvent /\ run' = "idle"
  BY DEF PostOk, finish, busy, history
<1>3. PICK d \in Events : d = event
  BY <1>2 DEF ControlInv, ControlOK, AuditTypeOK
<1>4. /\ taken' = taken /\ taken \in 1..Len(accepted) /\ event = accepted[taken]
      /\ delivered = taken - 1 /\ delivered' = taken
  BY <1>1, <1>2, Lengths DEF EventOK, taken, delivered, busy
<1>5. ReceivedOK'
  BY <1>2, <1>3, ReceiptInOrder
<1>6. /\ \A e \in Events : IsFiniteSet(got(e)')
      /\ \A e \in Events \ {d} : gotten(e)' = gotten(e)
      /\ gotten(d)' = gotten(d) + 1
  <2>1. received' = Append(received, d)
    BY <1>2, <1>3
  <2> QED BY <2>1, OneMore
<1>7. CountOK'
  <2>1. \A e \in Events : e # event' /\ IsFiniteSet(got(e)')
    BY <1>2, <1>6, AuditAssumption
  <2>2. ASSUME NEW e \in Events PROVE gotten(e)' + underway[e] <= RetryCount
    <3>1. CASE e = d
      <4>1. gotten(d) + underway[d] <= attempt
        BY <1>3, GotFacts
      <4>2. gotten(d) \in Nat /\ underway[d] \in Nat
        BY GotFacts
      <4> QED BY <1>6, <3>1, <4>1, <4>2, Lengths
    <3>2. CASE e # d
      BY <1>6, <3>2, GotFacts
    <3> QED BY <3>1, <3>2
  <2> QED BY <1>2, <2>1, <2>2 DEF CountOK
<1>8. QueueOK' /\ AcceptedOK' /\ EventOK' /\ UnansweredOK'
  BY <1>1, <1>2, <1>4 DEF QueueOK, AcceptedOK, EventOK, UnansweredOK, busy
<1>9. ExactOK'
  <2>1. ASSUME NEW p \in 1..Len(accepted), accepted[p] \notin unanswered, NEW e \in Events,
               e = accepted[p]
        PROVE  gotten(e)' = IF p <= taken THEN 1 ELSE 0
    <3>1. gotten(e) = IF p <= taken - 1 THEN 1 ELSE 0
      BY <1>1, <1>4, <2>1 DEF ExactOK
    <3>2. CASE p = taken
      <4>1. e = d
        BY <1>3, <1>4, <2>1, <3>2
      <4> QED BY <1>6, <3>1, <3>2, <4>1, Lengths
    <3>3. CASE p # taken
      <4>1. e # d
        BY <1>1, <1>3, <1>4, <2>1, <3>3 DEF AcceptedOK
      <4>2. p <= taken - 1 <=> p <= taken
        BY <3>3, Lengths
      <4> QED BY <1>6, <3>1, <4>1, <4>2
    <3> QED BY <3>2, <3>3
  <2>2. \A p \in 1..Len(accepted) : accepted[p] \in Events
    BY DEF ControlInv, AuditTypeOK
  <2>3. UNCHANGED <<accepted, unanswered>>
    BY <1>2
  <2> QED BY <1>4, <2>1, <2>2, <2>3 DEF ExactOK
<1> QED BY <1>5, <1>7, <1>8, <1>9 DEF OrderInv

\* A post fails: it has been received, is under way, or is lost.
LEMMA PostErrsKeepsOrder ==
    ASSUME ControlInv, OrderInv, PostErrs
    PROVE  OrderInv'
<1>1. /\ QueueOK /\ AcceptedOK /\ EventOK /\ ReceivedOK /\ UnansweredOK /\ CountOK /\ ExactOK
  BY DEF OrderInv
<1>2. /\ busy /\ UNCHANGED <<handler, accepted, queue>>
      /\ unanswered' = unanswered \cup {event}
      /\ \/ received' = Append(received, event) /\ underway' = underway
         \/ received' = received /\ underway' = [underway EXCEPT ![event] = @ + 1]
         \/ received' = received /\ underway' = underway
  BY DEF PostErrs, fails, busy, endpoint
<1>3. PICK d \in Events : d = event
  BY <1>2 DEF ControlInv, ControlOK, AuditTypeOK
<1>4. \/ event' = NoEvent /\ run' = "idle"
      \/ event' = event /\ attempt' = attempt + 1 /\ run' = "sleep"
  BY DEF PostErrs, finish
<1>5. /\ taken' = taken /\ taken \in 1..Len(accepted) /\ event = accepted[taken]
      /\ delivered = taken - 1 /\ delivered' \in {taken - 1, taken}
  BY <1>1, <1>2, <1>4, Lengths DEF EventOK, taken, delivered
<1>6. ReceivedOK'
  <2>1. CASE received' = Append(received, event)
    BY <1>2, <1>3, <2>1, ReceiptInOrder
  <2>2. CASE received' = received
    BY <1>1, <1>2, <1>5, <2>2 DEF ReceivedOK
  <2> QED BY <1>2, <2>1, <2>2
<1>7. /\ \A e \in Events : IsFiniteSet(got(e)')
      /\ \A e \in Events \ {d} : gotten(e)' = gotten(e) /\ underway'[e] = underway[e]
      /\ gotten(d)' + underway'[d] <= (gotten(d) + underway[d]) + 1
      /\ gotten(d)' + underway'[d] \in Nat
  <2>1. gotten(d) \in Nat /\ underway[d] \in Nat /\ underway \in [Events -> Nat]
    BY GotFacts DEF ControlInv, AuditTypeOK
  <2>2. CASE received' = Append(received, d) /\ underway' = underway
    <3>1. /\ \A e \in Events : IsFiniteSet(got(e)')
          /\ \A e \in Events \ {d} : gotten(e)' = gotten(e)
          /\ gotten(d)' = gotten(d) + 1
      BY <2>2, OneMore
    <3> QED BY <2>1, <2>2, <3>1
  <2>3. CASE /\ received' = received
             /\ underway' \in {underway, [underway EXCEPT ![d] = @ + 1]}
    <3>1. \A e \in Events : got(e)' = got(e) /\ gotten(e)' = gotten(e)
      BY <2>3 DEF got, gotten
    <3>2. \A e \in Events : IsFiniteSet(got(e)')
      BY <3>1, GotFacts
    <3>3. /\ \A e \in Events \ {d} : underway'[e] = underway[e]
          /\ underway'[d] \in {underway[d], underway[d] + 1}
      BY <2>1, <2>3
    <3>4. gotten(d)' = gotten(d)
      BY <3>1
    <3> QED BY <2>1, <3>1, <3>2, <3>3, <3>4
  <2> QED BY <1>2, <1>3, <2>2, <2>3
<1>8. CountOK'
  <2>1. gotten(d)' + underway'[d] <= attempt + 1 /\ attempt + 1 <= RetryCount
    <3>1. gotten(d) + underway[d] <= attempt /\ gotten(d) + underway[d] \in Nat
      BY <1>3, GotFacts
    <3> QED BY <1>7, <3>1, Lengths
  <2>2. \A e \in Events \ {d} : gotten(e)' + underway'[e] <= RetryCount
    BY <1>7, GotFacts
  <2>3. CASE event' = NoEvent
    <3>1. \A e \in Events : IsFiniteSet(got(e)') /\ e # event'
      BY <1>7, <2>3, AuditAssumption
    <3>2. gotten(d)' + underway'[d] <= RetryCount
      BY <1>7, <2>1, Lengths
    <3>3. \A e \in Events : gotten(e)' + underway'[e] <= RetryCount
      BY <2>2, <3>2
    <3> QED BY <3>1, <3>3 DEF CountOK
  <2>4. CASE event' = event /\ attempt' = attempt + 1
    <3>1. ASSUME NEW e \in Events
          PROVE  gotten(e)' + underway'[e] <= IF e = event' THEN attempt' ELSE RetryCount
      BY <1>3, <2>1, <2>2, <2>4
    <3> QED BY <1>7, <3>1 DEF CountOK
  <2> QED BY <1>4, <2>3, <2>4
<1>9. QueueOK' /\ AcceptedOK' /\ EventOK'
  BY <1>1, <1>2, <1>4, <1>5 DEF QueueOK, AcceptedOK, EventOK, busy
<1>10. UnansweredOK'
  <2>1. \A e \in unanswered' : \E p \in 1..taken : accepted[p] = e
    <3>1. taken \in 1..taken
      BY <1>5, Lengths
    <3> QED BY <1>1, <1>2, <1>5, <3>1 DEF UnansweredOK
  <2>2. \A e \in Events : underway'[e] > 0 => e \in unanswered'
    BY <1>1, <1>2, <1>3, <1>7 DEF UnansweredOK
  <2> QED BY <1>2, <1>4, <1>5, <2>1, <2>2 DEF UnansweredOK
<1>11. ExactOK'
  <2>1. ASSUME NEW p \in 1..Len(accepted), accepted[p] \notin unanswered', NEW e \in Events,
               e = accepted[p]
        PROVE  gotten(e)' = IF p <= delivered' THEN 1 ELSE 0
    <3>1. gotten(e) = IF p <= taken - 1 THEN 1 ELSE 0
      BY <1>1, <1>2, <1>5, <2>1 DEF ExactOK
    <3>2. e # d /\ p # taken
      BY <1>2, <1>3, <1>5, <2>1
    <3>3. gotten(e)' = gotten(e)
      BY <1>7, <3>2
    <3>4. p <= taken - 1 <=> p <= taken
      BY <3>2, Lengths
    <3> QED BY <1>5, <3>1, <3>3, <3>4
  <2>2. \A p \in 1..Len(accepted) : accepted[p] \in Events
    BY DEF ControlInv, AuditTypeOK
  <2> QED BY <1>2, <2>1, <2>2 DEF ExactOK
<1> QED BY <1>6, <1>8, <1>9, <1>10, <1>11 DEF OrderInv

\* A receipt that was under way.
LEMMA LateKeepsOrder ==
    ASSUME ControlInv, OrderInv, NEW e \in Events, ReceivesLate(e)
    PROVE  OrderInv'
<1>1. /\ QueueOK /\ AcceptedOK /\ EventOK /\ ReceivedOK /\ UnansweredOK /\ CountOK /\ ExactOK
  BY DEF OrderInv
<1>2. /\ underway[e] > 0 /\ received' = Append(received, e)
      /\ underway' = [underway EXCEPT ![e] = @ - 1]
      /\ UNCHANGED <<handler, accepted, queue, unanswered, run, event, attempt>>
  BY DEF ReceivesLate, goroutine, history
<1>3. underway \in [Events -> Nat] /\ e \in unanswered
  BY <1>1, <1>2 DEF ControlInv, AuditTypeOK, UnansweredOK
<1>4. taken' = taken /\ delivered' = delivered
  BY <1>2 DEF taken, delivered, busy
<1>5. ReceivedOK'
  BY <1>2, <1>3, ReceiptInOrder
<1>6. CountOK'
  <2>1. ASSUME NEW d \in Events PROVE gotten(d)' + underway'[d] = gotten(d) + underway[d]
    <3>1. gotten(d) \in Nat /\ underway[d] \in Nat
      BY GotFacts
    <3>2. CASE d = e
      BY <1>2, <1>3, <3>1, <3>2, OneMore
    <3>3. CASE d # e
      BY <1>2, <1>3, <3>3, OneMore
    <3> QED BY <3>2, <3>3
  <2> QED BY <1>1, <1>2, <2>1, OneMore DEF CountOK, gotten, got
<1>7. QueueOK' /\ AcceptedOK' /\ EventOK'
  BY <1>1, <1>2, <1>4 DEF QueueOK, AcceptedOK, EventOK, busy
<1>8. UnansweredOK'
  BY <1>1, <1>2, <1>3, <1>4 DEF UnansweredOK
<1>9. ExactOK'
  <2>1. ASSUME NEW p \in 1..Len(accepted), accepted[p] \notin unanswered
        PROVE  gotten(accepted[p])' = IF p <= delivered THEN 1 ELSE 0
    <3>1. accepted[p] \in Events \ {e}
      BY <1>3, <2>1 DEF ControlInv, AuditTypeOK
    <3>2. gotten(accepted[p])' = gotten(accepted[p])
      BY <1>2, <3>1, OneMore
    <3> QED BY <1>1, <2>1, <3>2 DEF ExactOK
  <2> QED BY <1>2, <1>4, <2>1 DEF ExactOK, gotten, got
<1> QED BY <1>5, <1>6, <1>7, <1>8, <1>9 DEF OrderInv

\* Any other step leaves the events where they are.
LEMMA OthersKeepOrder ==
    ASSUME ControlInv, OrderInv,
           UNCHANGED <<handler, accepted, queue, received, underway, unanswered>>,
           \/ event' = event /\ attempt' = attempt /\ busy' = busy /\ (run' = "sleep" => run = "sleep")
           \/ event' = NoEvent /\ run' = "idle" /\ event \in unanswered
    PROVE  OrderInv'
<1>1. /\ QueueOK /\ AcceptedOK /\ EventOK /\ ReceivedOK /\ UnansweredOK /\ CountOK /\ ExactOK
  BY DEF OrderInv
<1>2. taken' = taken
  BY DEF taken
<1>3. QueueOK' /\ AcceptedOK' /\ ReceivedOK' /\ EventOK' /\ UnansweredOK'
  <2>1. QueueOK' /\ AcceptedOK'
    BY <1>1, <1>2 DEF QueueOK, AcceptedOK
  <2>2. ReceivedOK'
    BY <1>1, <1>2 DEF ReceivedOK
  <2>3. EventOK'
    BY <1>1, <1>2 DEF EventOK, busy
  <2>4. UnansweredOK'
    BY <1>1, <1>2 DEF UnansweredOK, busy
  <2> QED BY <2>1, <2>2, <2>3, <2>4
<1>4. \A e : got(e)' = got(e) /\ gotten(e)' = gotten(e)
  BY DEF got, gotten
<1>5. CountOK'
  <2>1. CASE event' = event /\ attempt' = attempt
    BY <1>1, <1>4, <2>1 DEF CountOK
  <2>2. CASE event' = NoEvent
    BY <1>4, <2>2, AuditAssumption, GotFacts DEF CountOK
  <2> QED BY <2>1, <2>2
<1>6. ExactOK'
  <2>1. ASSUME NEW p \in 1..Len(accepted), accepted[p] \notin unanswered
        PROVE  p <= delivered' <=> p <= delivered
    <3>1. CASE busy' = busy
      BY <1>2, <3>1 DEF delivered
    <3>2. CASE run' = "idle" /\ event \in unanswered /\ busy
      <4>1. event = accepted[taken] /\ p # taken
        BY <1>1, <2>1, <3>2 DEF EventOK
      <4>2. delivered = taken - 1 /\ delivered' = taken
        BY <1>2, <3>2 DEF delivered, busy
      <4> QED BY <4>1, <4>2, Lengths
    <3>3. CASE run' = "idle" /\ ~busy
      BY <1>2, <3>3 DEF delivered, busy
    <3> QED BY <3>1, <3>2, <3>3
  <2>2. \A p \in 1..Len(accepted) : accepted[p] \notin unanswered
            => gotten(accepted[p]) = IF p <= delivered' THEN 1 ELSE 0
    BY <1>1, <2>1 DEF ExactOK
  <2> QED BY <1>4, <2>2 DEF ExactOK
<1> QED BY <1>3, <1>5, <1>6 DEF OrderInv

LEMMA OrderInductive == ControlInv /\ OrderInv /\ [AuditNext]_auditVars => OrderInv'
<1> SUFFICES ASSUME ControlInv, OrderInv, [AuditNext]_auditVars PROVE OrderInv'
  OBVIOUS
<1>1. CASE RunEnds \/ WriteLine \/ WriteErrs \/ SleepEnds \/ SleepExpires \/ Expire
           \/ Close \/ CloseObservers \/ UNCHANGED auditVars
  <2>1. UNCHANGED <<handler, accepted, queue, received, underway, unanswered>>
    BY <1>1 DEF RunEnds, WriteLine, WriteErrs, SleepEnds, SleepExpires, Expire, Close,
                CloseObservers, auditVars, history, endpoint
  <2>2. run = "sleep" => event \in unanswered
    BY DEF OrderInv, UnansweredOK
  <2>3. \/ event' = event /\ attempt' = attempt /\ busy' = busy /\ (run' = "sleep" => run = "sleep")
        \/ event' = NoEvent /\ run' = "idle" /\ event \in unanswered
    BY <1>1, <2>2 DEF RunEnds, WriteLine, WriteErrs, SleepEnds, SleepExpires, Expire, Close,
                CloseObservers, auditVars, goroutine, finish, busy
  <2> QED BY <2>1, <2>3, OthersKeepOrder
<1>2. CASE Receive
  BY <1>2, ReceiveKeepsOrder
<1>3. CASE PostOk \/ PostErrs
  BY <1>3, PostOkKeepsOrder, PostErrsKeepsOrder
<1>4. CASE \E e \in Events : EnqueueOk(e) \/ EnqueueFull(e) \/ EnqueueClosed(e)
  BY <1>4, EnqueueKeepsOrder
<1>5. CASE \E e \in Events : ReceivesLate(e)
  BY <1>5, LateKeepsOrder
<1> QED BY <1>1, <1>2, <1>3, <1>4, <1>5 DEF AuditNext, Run

LEMMA OrderInitially == AuditInit => OrderInv
<1> SUFFICES ASSUME AuditInit PROVE OrderInv
  OBVIOUS
<1>1. /\ queue = <<>> /\ accepted = <<>> /\ received = <<>> /\ run = "idle" /\ event = NoEvent
      /\ Len(queue) = 0 /\ Len(accepted) = 0 /\ Len(received) = 0
      /\ unanswered = {} /\ \A e \in Events : underway[e] = 0
  BY DEF AuditInit
<1>2. \A e : got(e) = {}
  BY <1>1 DEF got
<1>3. IsFiniteSet({}) /\ Cardinality({}) = 0
  BY FS_EmptySet
<1>4. \A e \in Events : e # event
  BY <1>1, AuditAssumption
<1>5. CountOK
  <2>1. \A e \in Events : gotten(e) = 0 /\ underway[e] = 0 /\ IsFiniteSet(got(e))
    BY <1>1, <1>2, <1>3 DEF gotten
  <2>2. 0 + 0 <= RetryCount
    BY AuditAssumption
  <2> QED BY <1>4, <2>1, <2>2 DEF CountOK
<1>6. QueueOK /\ AcceptedOK /\ EventOK /\ ReceivedOK
  BY <1>1 DEF QueueOK, AcceptedOK, EventOK, ReceivedOK, busy
<1>7. UnansweredOK /\ ExactOK
  BY <1>1 DEF UnansweredOK, ExactOK
<1> QED BY <1>5, <1>6, <1>7 DEF OrderInv

\* An accepted event is queued at one place only.
LEMMA PlaceIs ==
    ASSUME ControlInv, OrderInv, NEW p \in 1..Len(accepted)
    PROVE  place(accepted[p]) = p
<1>1. \A q \in 1..Len(accepted) : accepted[q] = accepted[p] => q = p
  BY DEF OrderInv, AcceptedOK
<1> QED BY <1>1 DEF place

\* No event reaches the endpoint more often than RetryCount times, and one of
\* which no post failed reaches it exactly once and in its turn, whichever
\* posts fail, whenever those that were given up arrive, and however the two
\* seconds of an event run out.
THEOREM EndpointAlwaysServed == AuditSpec => []EndpointReceipts
<1>1. ControlInv /\ OrderInv => EndpointReceipts
  <2> SUFFICES ASSUME ControlInv, OrderInv PROVE EndpointReceipts
    OBVIOUS
  <2>1. QueueOK /\ AcceptedOK /\ EventOK /\ ReceivedOK /\ ExactOK
    BY DEF OrderInv
  <2>2. \A e \in Events : receipts(e) + underway[e] <= RetryCount
    BY GotFacts DEF receipts, gotten, got
  <2>3. ASSUME NEW e \in elements(accepted) \ unanswered
        PROVE  receipts(e) = IF e = event \/ e \in elements(queue) THEN 0 ELSE 1
    <3>1. PICK p \in 1..Len(accepted) : accepted[p] = e
      BY DEF elements
    <3>2. receipts(e) = IF p <= delivered THEN 1 ELSE 0
      BY <2>1, <2>3, <3>1 DEF ExactOK, receipts, gotten, got
    <3>3. e \in Events
      BY <3>1 DEF ControlInv, AuditTypeOK
    <3>4. e = event <=> busy /\ p = taken
      <4>1. ~busy => event = NoEvent
        BY DEF ControlInv, ControlOK
      <4>2. busy => taken \in 1..Len(accepted) /\ event = accepted[taken]
        BY <2>1, Lengths DEF EventOK
      <4> QED BY <2>1, <3>1, <3>3, <4>1, <4>2, AuditAssumption DEF AcceptedOK
    <3>5. e \in elements(queue) <=> p > taken
      <4>1. ASSUME e \in elements(queue) PROVE p > taken
        <5>1. PICK k \in 1..Len(queue) : queue[k] = e
          BY <4>1 DEF elements
        <5>2. taken + k \in 1..Len(accepted) /\ taken + k > taken
          BY Lengths
        <5>3. accepted[taken + k] = e
          BY <2>1, <5>1 DEF QueueOK
        <5>4. taken + k = p
          BY <2>1, <3>1, <5>2, <5>3 DEF AcceptedOK
        <5> QED BY <5>2, <5>4
      <4>2. ASSUME p > taken PROVE e \in elements(queue)
        <5>1. p - taken \in 1..Len(queue) /\ taken + (p - taken) = p
          BY <4>2, Lengths
        <5>2. queue[p - taken] = e
          BY <2>1, <3>1, <5>1 DEF QueueOK
        <5> QED BY <5>1, <5>2 DEF elements
      <4> QED BY <4>1, <4>2
    <3>6. p <= delivered <=> ~(busy /\ p = taken) /\ ~(p > taken)
      BY Lengths DEF delivered
    <3> QED BY <3>2, <3>4, <3>5, <3>6
  <2>4. ASSUME NEW j \in 1..Len(received), NEW k \in 1..Len(received),
               j < k, place(received[k]) < place(received[j])
        PROVE  received[k] \in unanswered
    <3>1. PICK p \in 1..taken, q \in 1..taken :
              accepted[p] = received[j] /\ accepted[q] = received[k]
      BY <2>1 DEF ReceivedOK
    <3>2. p \in 1..Len(accepted) /\ q \in 1..Len(accepted)
      BY <3>1, Lengths
    <3>3. place(received[j]) = p /\ place(received[k]) = q
      BY <3>1, <3>2, PlaceIs
    <3>4. ~(p <= q)
      BY <2>4, <3>3
    <3>5. j <= k
      BY <2>4
    <3> QED BY <2>1, <3>1, <3>2, <3>4, <3>5 DEF ReceivedOK
  <2> QED BY <2>2, <2>3, <2>4 DEF EndpointReceipts
<1> QED BY <1>1, OrderInitially, OrderInductive, AuditControl, PTL DEF AuditSpec

-----------------------------------------------------------------------------
(***************************************************************************)
(* The audit file.  The accepted events up to done are those the file      *)
(* observer is through with: each has a line or has failed, and the lines  *)
(* come in the order of the queue.                                         *)
(***************************************************************************)
done == IF run = "file" THEN taken - 1 ELSE taken

LinesOK ==
    /\ \A j \in 1..Len(lines) : \E p \in 1..done : accepted[p] = lines[j]
    /\ \A j, k \in 1..Len(lines) : \A p, q \in 1..Len(accepted) :
          j < k /\ accepted[p] = lines[j] /\ accepted[q] = lines[k] => p < q
    /\ \A p \in 1..done :
          accepted[p] \in unwritten <=> \A j \in 1..Len(lines) : lines[j] # accepted[p]
    /\ \A e \in unwritten : \E p \in 1..done : accepted[p] = e

LEMMA Through ==
    ASSUME ControlInv, OrderInv
    PROVE  /\ done \in Nat /\ done <= taken
           /\ run = "file" => done + 1 = taken /\ event = accepted[done + 1] /\ event \in Events
           /\ \A p \in 1..done : p \in 1..Len(accepted)
           /\ lines \in Seq(Events) /\ Len(lines) \in Nat
<1>1. busy => taken >= 1 /\ event = accepted[taken]
  BY DEF OrderInv, EventOK
<1>2. run = "file" => event \in Events
  BY DEF ControlInv, ControlOK, busy, AuditTypeOK
<1>3. lines \in Seq(Events)
  BY DEF ControlInv, AuditTypeOK
<1> QED BY <1>1, <1>2, <1>3, Lengths DEF done, busy

LEMMA LinesInitially == AuditInit => LinesOK
<1> SUFFICES ASSUME AuditInit PROVE LinesOK
  OBVIOUS
<1>1. /\ lines = <<>> /\ unwritten = {} /\ Len(lines) = 0 /\ done = 0
  BY DEF AuditInit, done, taken
<1> QED BY <1>1 DEF LinesOK

\* A handler adds to the accepted events behind those the observer is through with.
LEMMA EnqueueKeepsLines ==
    ASSUME ControlInv, OrderInv, LinesOK, NEW e \in Events,
           EnqueueOk(e) \/ EnqueueFull(e) \/ EnqueueClosed(e)
    PROVE  LinesOK'
<1>1. /\ queue \in Seq(Events) /\ accepted \in Seq(Events)
      /\ UNCHANGED <<run, lines, unwritten>> /\ handler[e] = "working"
  BY DEF ControlInv, AuditTypeOK, EnqueueOk, EnqueueFull, EnqueueClosed, reports, goroutine, history
<1>2. CASE EnqueueOk(e)
  <2>1. accepted' = Append(accepted, e) /\ queue' = Append(queue, e)
    BY <1>2 DEF EnqueueOk
  <2>2. /\ Len(accepted') = Len(accepted) + 1 /\ accepted'[Len(accepted) + 1] = e
        /\ \A k \in 1..Len(accepted) : accepted'[k] = accepted[k]
    BY <1>1, <2>1, AppendEvent
  <2>3. Len(queue') = Len(queue) + 1
    BY <1>1, <2>1, AppendEvent
  <2>4. done' = done
    BY <1>1, <2>2, <2>3, Lengths DEF done, taken
  <2>5. \A k \in 1..Len(accepted') : k \in 1..Len(accepted) \/ k = Len(accepted) + 1
    BY <2>2, Lengths
  <2>6. \A k \in 1..Len(accepted) : accepted[k] # e
    BY <1>1 DEF OrderInv, AcceptedOK
  <2>7. \A p \in 1..done : p \in 1..Len(accepted) /\ accepted'[p] = accepted[p]
    BY <2>2, Through
  <2>8. ASSUME NEW j \in 1..Len(lines), NEW k \in 1..Len(lines),
               NEW p \in 1..Len(accepted'), NEW q \in 1..Len(accepted'),
               j < k, accepted'[p] = lines[j], accepted'[q] = lines[k]
        PROVE  p < q
    <3>1. lines[j] # e /\ lines[k] # e
      BY <2>6, <2>7 DEF LinesOK
    <3>2. p \in 1..Len(accepted) /\ q \in 1..Len(accepted)
      BY <2>2, <2>5, <2>8, <3>1
    <3>3. accepted[p] = lines[j] /\ accepted[q] = lines[k]
      BY <2>2, <2>8, <3>2
    <3> QED BY <2>8, <3>2, <3>3 DEF LinesOK
  <2>9. /\ \A j \in 1..Len(lines) : \E p \in 1..done : accepted'[p] = lines[j]
        /\ \A x \in unwritten : \E p \in 1..done : accepted'[p] = x
        /\ \A p \in 1..done :
              accepted'[p] \in unwritten <=> \A j \in 1..Len(lines) : lines[j] # accepted'[p]
    BY <2>7 DEF LinesOK
  <2>10. \A j, k \in 1..Len(lines) : \A p, q \in 1..Len(accepted') :
            j < k /\ accepted'[p] = lines[j] /\ accepted'[q] = lines[k] => p < q
    BY <2>8
  <2> QED BY <1>1, <2>4, <2>9, <2>10 DEF LinesOK
<1>3. CASE EnqueueFull(e) \/ EnqueueClosed(e)
  <2>1. UNCHANGED <<queue, accepted>>
    BY <1>3 DEF EnqueueFull, EnqueueClosed, history
  <2> QED BY <1>1, <2>1 DEF LinesOK, done, taken
<1> QED BY <1>2, <1>3

\* The event in hand gets the next line, or its write fails.
LEMMA WriteKeepsLines ==
    ASSUME ControlInv, OrderInv, LinesOK, WriteLine \/ WriteErrs
    PROVE  LinesOK'
<1>1. /\ run = "file" /\ run' = "post" /\ UNCHANGED <<queue, accepted>>
  BY DEF WriteLine, WriteErrs, history
<1>2. /\ done' = done + 1 /\ done + 1 \in 1..Len(accepted)
      /\ event = accepted[done + 1] /\ event \in Events
      /\ done \in Nat /\ lines \in Seq(Events) /\ Len(lines) \in Nat
  BY <1>1, Through, Lengths DEF done, taken
<1>3. /\ \A p \in 1 .. done + 1 : p \in 1..done \/ p = done + 1
      /\ \A p \in 1..done : p \in 1 .. done + 1 /\ p \in 1..Len(accepted) /\ p < done + 1
      /\ done + 1 \in 1 .. done + 1
  BY <1>2, Through
<1>4. \A p, q \in 1..Len(accepted) : accepted[p] = accepted[q] => p = q
  BY DEF OrderInv, AcceptedOK
<1>5. \A p \in 1..done : accepted[p] # event
  BY <1>2, <1>3, <1>4
<1>6. event \notin unwritten /\ \A j \in 1..Len(lines) : lines[j] # event
  BY <1>5 DEF LinesOK
<1>7. CASE WriteLine
  <2>1. lines' = Append(lines, event) /\ UNCHANGED unwritten
    BY <1>7 DEF WriteLine, history
  <2>2. /\ Len(lines') = Len(lines) + 1 /\ lines'[Len(lines) + 1] = event
        /\ \A k \in 1..Len(lines) : lines'[k] = lines[k]
    BY <1>2, <2>1, AppendEvent
  <2>3. /\ \A k \in 1..Len(lines') : k \in 1..Len(lines) \/ k = Len(lines) + 1
        /\ \A k \in 1..Len(lines) : k \in 1..Len(lines') /\ ~(Len(lines) + 1 < k)
        /\ Len(lines) + 1 \in 1..Len(lines')
    BY <1>2, <2>2
  <2>4. \A j \in 1..Len(lines') : \E p \in 1 .. done + 1 : accepted[p] = lines'[j]
    BY <1>2, <1>3, <2>2, <2>3 DEF LinesOK
  <2>5. ASSUME NEW j \in 1..Len(lines'), NEW k \in 1..Len(lines'),
               NEW p \in 1..Len(accepted), NEW q \in 1..Len(accepted),
               j < k, accepted[p] = lines'[j], accepted[q] = lines'[k]
        PROVE  p < q
    <3>1. j \in 1..Len(lines)
      BY <1>2, <2>2, <2>3, <2>5
    <3>2. PICK r \in 1..done : accepted[r] = lines[j]
      BY <3>1 DEF LinesOK
    <3>3. p = r
      BY <1>3, <1>4, <2>2, <2>5, <3>1, <3>2
    <3>4. CASE k = Len(lines) + 1
      <4>1. q = done + 1
        BY <1>2, <1>4, <2>2, <2>5, <3>4
      <4> QED BY <1>3, <3>3, <4>1
    <3>5. CASE k \in 1..Len(lines)
      BY <2>2, <2>5, <3>1, <3>5 DEF LinesOK
    <3> QED BY <2>3, <3>4, <3>5
  <2>6. ASSUME NEW p \in 1 .. done + 1
        PROVE  accepted[p] \in unwritten <=> \A j \in 1..Len(lines') : lines'[j] # accepted[p]
    <3>1. CASE p = done + 1
      BY <1>2, <1>6, <2>2, <2>3, <3>1
    <3>2. CASE p \in 1..done
      BY <1>5, <2>2, <2>3, <3>2 DEF LinesOK
    <3> QED BY <1>3, <3>1, <3>2
  <2>7. \A e \in unwritten : \E p \in 1 .. done + 1 : accepted[p] = e
    BY <1>3 DEF LinesOK
  <2>8. done' = done + 1 /\ accepted' = accepted /\ unwritten' = unwritten
    BY <1>1, <1>2, <2>1
  <2> QED BY <2>4, <2>5, <2>6, <2>7, <2>8 DEF LinesOK
<1>8. CASE WriteErrs
  <2>1. unwritten' = unwritten \cup {event} /\ UNCHANGED lines
    BY <1>8 DEF WriteErrs
  <2>2. ASSUME NEW p \in 1 .. done + 1
        PROVE  accepted[p] \in unwritten' <=> \A j \in 1..Len(lines) : lines[j] # accepted[p]
    <3>1. CASE p = done + 1
      BY <1>2, <1>6, <2>1, <3>1
    <3>2. CASE p \in 1..done
      BY <1>5, <2>1, <3>2 DEF LinesOK
    <3> QED BY <1>3, <3>1, <3>2
  <2>3. /\ \A e \in unwritten' : \E p \in 1 .. done + 1 : accepted[p] = e
        /\ \A j \in 1..Len(lines) : \E p \in 1 .. done + 1 : accepted[p] = lines[j]
    BY <1>2, <1>3, <2>1 DEF LinesOK
  <2> QED BY <1>1, <1>2, <2>1, <2>2, <2>3 DEF LinesOK
<1> QED BY <1>7, <1>8

LEMMA LinesInductive ==
    ControlInv /\ OrderInv /\ LinesOK /\ [AuditNext]_auditVars => LinesOK'
<1> SUFFICES ASSUME ControlInv, OrderInv, LinesOK, [AuditNext]_auditVars PROVE LinesOK'
  OBVIOUS
<1>1. CASE \/ Receive \/ RunEnds \/ PostOk \/ PostErrs \/ SleepEnds \/ SleepExpires \/ Expire
           \/ Close \/ CloseObservers \/ (\E e \in Events : ReceivesLate(e)) \/ UNCHANGED auditVars
  <2>1. lines' = lines /\ accepted' = accepted /\ unwritten' = unwritten
    BY <1>1 DEF Receive, RunEnds, PostOk, PostErrs, SleepEnds, SleepExpires, Expire, Close,
                CloseObservers, ReceivesLate, auditVars, history
  <2>2. done' = done
    <3>1. CASE Receive
      <4>1. Len(queue') = Len(queue) - 1 /\ Len(queue) \in Nat
        BY <3>1 DEF Receive, ControlInv, AuditTypeOK
      <4> QED BY <2>1, <3>1, <4>1, Lengths DEF Receive, done, taken
    <3>2. CASE ~Receive
      BY <1>1, <2>1, <3>2 DEF RunEnds, PostOk, PostErrs, SleepEnds, SleepExpires, Expire, Close,
                 CloseObservers, ReceivesLate, auditVars, goroutine, finish, done, taken
    <3> QED BY <3>1, <3>2
  <2>3. /\ \A j \in 1..Len(lines) : \E p \in 1..done : accepted[p] = lines[j]
        /\ \A e \in unwritten : \E p \in 1..done : accepted[p] = e
    BY DEF LinesOK
  <2>4. \A j, k \in 1..Len(lines) : \A p, q \in 1..Len(accepted) :
           j < k /\ accepted[p] = lines[j] /\ accepted[q] = lines[k] => p < q
    BY DEF LinesOK
  <2>5. \A p \in 1..done :
           accepted[p] \in unwritten <=> \A j \in 1..Len(lines) : lines[j] # accepted[p]
    BY DEF LinesOK
  <2> QED BY <2>1, <2>2, <2>3, <2>4, <2>5 DEF LinesOK
<1>2. CASE WriteLine \/ WriteErrs
  BY <1>2, WriteKeepsLines
<1>3. CASE \E e \in Events : EnqueueOk(e) \/ EnqueueFull(e) \/ EnqueueClosed(e)
  BY <1>3, EnqueueKeepsLines
<1> QED BY <1>1, <1>2, <1>3 DEF AuditNext, Run

\* The lines, the event in hand and the channel, one after the other.
inHand == IF run = "file" THEN <<event>> ELSE <<>>
listed == lines \o inHand \o queue

\* What the concatenation of two sequences of events holds.
LEMMA ConcatEvents ==
    ASSUME NEW s \in Seq(Events), NEW t \in Seq(Events)
    PROVE  /\ s \o t \in Seq(Events) /\ Len(s \o t) = Len(s) + Len(t)
           /\ \A k \in 1..Len(s) : (s \o t)[k] = s[k]
           /\ \A k \in 1..Len(t) : (s \o t)[Len(s) + k] = t[k]
<1>1. s \o t \in Seq(Events) /\ Len(s \o t) = Len(s) + Len(t)
  OBVIOUS
<1>2. ASSUME NEW k \in 1..Len(s) PROVE (s \o t)[k] = s[k]
  OBVIOUS
<1>3. ASSUME NEW k \in 1..Len(t) PROVE (s \o t)[Len(s) + k] = t[k]
  OBVIOUS
<1> QED BY <1>1, <1>2, <1>3

\* Behind the lines come the accepted events the observer is not through with.
LEMMA ListedIs ==
    ASSUME ControlInv, OrderInv
    PROVE  /\ Len(listed) = Len(lines) + (Len(accepted) - done)
           /\ \A k \in 1..Len(lines) : listed[k] = lines[k]
           /\ \A p \in done + 1 .. Len(accepted) :
                 listed[Len(lines) + (p - done)] = accepted[p]
<1>1. /\ lines \in Seq(Events) /\ queue \in Seq(Events) /\ Len(queue) \in Nat
      /\ Len(lines) \in Nat /\ done \in Nat /\ Len(accepted) \in Nat
      /\ taken + Len(queue) = Len(accepted) /\ taken \in Nat
  BY Through, Lengths DEF ControlInv, AuditTypeOK
<1> DEFINE front == lines \o inHand
<1>0. listed = front \o queue
  BY DEF listed
<1>2. \A m \in 1..Len(queue) : queue[m] = accepted[taken + m]
  BY DEF OrderInv, QueueOK
<1>3. CASE run = "file"
  <2>1. inHand = <<event>> /\ event \in Events /\ event = accepted[done + 1] /\ done + 1 = taken
    BY <1>3, Through DEF inHand
  <2>2. inHand \in Seq(Events) /\ Len(inHand) = 1 /\ inHand[1] = event /\ 1 \in 1..Len(inHand)
    BY <2>1
  <2>3. /\ front \in Seq(Events) /\ Len(front) = Len(lines) + 1
        /\ \A k \in 1..Len(lines) : front[k] = lines[k]
        /\ front[Len(lines) + 1] = event
    <3>1. /\ lines \o inHand \in Seq(Events)
          /\ Len(lines \o inHand) = Len(lines) + Len(inHand)
          /\ \A k \in 1..Len(lines) : (lines \o inHand)[k] = lines[k]
          /\ \A k \in 1..Len(inHand) : (lines \o inHand)[Len(lines) + k] = inHand[k]
      BY <1>1, <2>2, ConcatEvents
    <3>2. (lines \o inHand)[Len(lines) + 1] = inHand[1]
      BY <2>2, <3>1
    <3> QED BY <2>2, <3>1, <3>2
  <2>4. /\ \A k \in 1..Len(lines) : k \in 1 .. Len(lines) + 1
        /\ Len(lines) + 1 \in 1 .. Len(lines) + 1
    BY <1>1
  <2> HIDE DEF front
  <2>5. /\ Len(listed) = Len(lines) + 1 + Len(queue)
        /\ \A k \in 1 .. Len(lines) + 1 : listed[k] = front[k]
        /\ \A m \in 1..Len(queue) : listed[Len(lines) + 1 + m] = queue[m]
    <3>1. /\ Len(front \o queue) = Len(front) + Len(queue)
          /\ \A k \in 1..Len(front) : (front \o queue)[k] = front[k]
          /\ \A m \in 1..Len(queue) : (front \o queue)[Len(front) + m] = queue[m]
      BY <1>1, <2>3, ConcatEvents
    <3> QED BY <1>0, <2>3, <3>1
  <2>6. /\ \A k \in 1..Len(lines) : listed[k] = lines[k]
        /\ listed[Len(lines) + 1] = event
    BY <2>3, <2>4, <2>5
  <2>7. Len(listed) = Len(lines) + (Len(accepted) - done)
    <3>1. Len(lines) + 1 + Len(queue) = Len(lines) + (Len(accepted) - done)
      BY <1>1, <2>1
    <3> QED BY <2>5, <3>1
  <2>8. ASSUME NEW p \in done + 1 .. Len(accepted)
        PROVE  listed[Len(lines) + (p - done)] = accepted[p]
    <3>1. CASE p = done + 1
      <4>1. Len(lines) + (p - done) = Len(lines) + 1
        BY <1>1, <3>1
      <4> QED BY <2>1, <2>6, <3>1, <4>1
    <3>2. CASE p # done + 1
      <4>1. /\ p - taken \in 1..Len(queue) /\ taken + (p - taken) = p
            /\ Len(lines) + 1 + (p - taken) = Len(lines) + (p - done)
        BY <1>1, <2>1, <2>8, <3>2
      <4>2. queue[p - taken] = accepted[taken + (p - taken)]
        BY <1>2, <4>1
      <4>3. listed[Len(lines) + 1 + (p - taken)] = queue[p - taken]
        BY <2>5, <4>1
      <4> QED BY <4>1, <4>2, <4>3
    <3> QED BY <3>1, <3>2
  <2> QED BY <2>6, <2>7, <2>8
<1>4. CASE run # "file"
  <2>1. inHand = <<>> /\ done = taken
    BY <1>4 DEF inHand, done
  <2>2. front = lines
    BY <1>1, <2>1
  <2>3. /\ Len(listed) = Len(lines) + Len(queue)
        /\ \A k \in 1..Len(lines) : listed[k] = lines[k]
        /\ \A m \in 1..Len(queue) : listed[Len(lines) + m] = queue[m]
    BY <1>0, <1>1, <2>2, ConcatEvents
  <2>4. Len(listed) = Len(lines) + (Len(accepted) - done)
    <3>1. Len(lines) + Len(queue) = Len(lines) + (Len(accepted) - done)
      BY <1>1, <2>1
    <3> QED BY <2>3, <3>1
  <2>5. ASSUME NEW p \in done + 1 .. Len(accepted)
        PROVE  listed[Len(lines) + (p - done)] = accepted[p]
    <3>1. p - done \in 1..Len(queue) /\ taken + (p - done) = p
      BY <1>1, <2>1, <2>5
    <3>2. queue[p - done] = accepted[taken + (p - done)]
      BY <1>2, <3>1
    <3> QED BY <2>3, <3>1, <3>2
  <2> QED BY <2>3, <2>4, <2>5
<1> QED BY <1>3, <1>4

\* A listed event is an accepted one: a line, of an event the observer is
\* through with, or one it is not through with.
LEMMA ListedAt ==
    ASSUME ControlInv, OrderInv, LinesOK, NEW k \in 1..Len(listed)
    PROVE  \/ k \in 1..Len(lines) /\ \E p \in 1..done : listed[k] = accepted[p]
           \/ /\ k > Len(lines) /\ done + (k - Len(lines)) \in done + 1 .. Len(accepted)
              /\ listed[k] = accepted[done + (k - Len(lines))]
<1>1. /\ Len(lines) \in Nat /\ done \in Nat /\ Len(accepted) \in Nat
      /\ Len(listed) = Len(lines) + (Len(accepted) - done)
  BY Through, Lengths, ListedIs
<1>2. CASE k \in 1..Len(lines)
  <2>1. listed[k] = lines[k]
    BY <1>2, ListedIs
  <2> QED BY <1>2, <2>1 DEF LinesOK
<1>3. CASE k \notin 1..Len(lines)
  <2>1. /\ k > Len(lines) /\ done + (k - Len(lines)) \in done + 1 .. Len(accepted)
        /\ Len(lines) + ((done + (k - Len(lines))) - done) = k
    BY <1>1, <1>3
  <2>2. listed[Len(lines) + ((done + (k - Len(lines))) - done)] = accepted[done + (k - Len(lines))]
    BY <2>1, ListedIs
  <2> QED BY <2>1, <2>2
<1> QED BY <1>2, <1>3

LEMMA ListedInOrder ==
    ASSUME ControlInv, OrderInv, LinesOK,
           NEW j \in 1..Len(listed), NEW k \in 1..Len(listed), j < k
    PROVE  place(listed[j]) < place(listed[k])
<1>1. Len(lines) \in Nat /\ done \in Nat /\ \A p \in 1..done : p \in 1..Len(accepted) /\ p <= done
  BY Through
<1>2. \A p \in done + 1 .. Len(accepted) : p \in 1..Len(accepted)
  BY <1>1, Lengths
<1>3. CASE j \in 1..Len(lines) /\ k \in 1..Len(lines)
  <2>1. listed[j] = lines[j] /\ listed[k] = lines[k]
    BY <1>3, ListedIs
  <2>2. PICK p \in 1..done, q \in 1..done : accepted[p] = lines[j] /\ accepted[q] = lines[k]
    BY <1>3 DEF LinesOK
  <2>3. p \in 1..Len(accepted) /\ q \in 1..Len(accepted)
    BY <1>1
  <2>4. p < q
    BY <1>3, <2>2, <2>3 DEF LinesOK
  <2> QED BY <2>1, <2>2, <2>3, <2>4, PlaceIs
<1>4. CASE j \in 1..Len(lines) /\ k \notin 1..Len(lines)
  <2>1. PICK p \in 1..done : listed[j] = accepted[p]
    BY <1>4, ListedAt
  <2>2. /\ done + (k - Len(lines)) \in done + 1 .. Len(accepted)
        /\ listed[k] = accepted[done + (k - Len(lines))]
    BY <1>4, ListedAt
  <2>3. place(listed[j]) = p /\ place(listed[k]) = done + (k - Len(lines))
    BY <1>1, <1>2, <2>1, <2>2, PlaceIs
  <2>4. p <= done /\ done < done + (k - Len(lines))
    BY <1>1, <2>2
  <2> QED BY <1>1, <2>3, <2>4
<1>5. CASE j \notin 1..Len(lines)
  <2>1. k \notin 1..Len(lines)
    BY <1>1, <1>5
  <2>2. /\ done + (k - Len(lines)) \in done + 1 .. Len(accepted)
        /\ listed[k] = accepted[done + (k - Len(lines))]
        /\ done + (j - Len(lines)) \in done + 1 .. Len(accepted)
        /\ listed[j] = accepted[done + (j - Len(lines))]
    BY <1>5, <2>1, ListedAt
  <2>3. /\ place(listed[j]) = done + (j - Len(lines))
        /\ place(listed[k]) = done + (k - Len(lines))
    BY <1>2, <2>2, PlaceIs
  <2>4. done + (j - Len(lines)) < done + (k - Len(lines))
    BY <1>1
  <2> QED BY <2>3, <2>4
<1> QED BY <1>3, <1>4, <1>5

LEMMA ListedAre ==
    ASSUME ControlInv, OrderInv, LinesOK
    PROVE  elements(listed) = elements(accepted) \ unwritten
<1>1. /\ Len(lines) \in Nat /\ done \in Nat /\ Len(accepted) \in Nat
      /\ \A p \in 1..done : p \in 1..Len(accepted) /\ p < done + 1
      /\ Len(listed) = Len(lines) + (Len(accepted) - done)
      /\ done <= Len(accepted)
  BY Through, Lengths, ListedIs
<1>2. \A p, q \in 1..Len(accepted) : accepted[p] = accepted[q] => p = q
  BY DEF OrderInv, AcceptedOK
<1>3. \A p \in done + 1 .. Len(accepted) : p \in 1..Len(accepted) /\ accepted[p] \notin unwritten
  <2> SUFFICES ASSUME NEW p \in done + 1 .. Len(accepted)
               PROVE  p \in 1..Len(accepted) /\ accepted[p] \notin unwritten
    OBVIOUS
  <2>1. p \in 1..Len(accepted) /\ p \notin 1..done
    BY <1>1
  <2>2. ASSUME accepted[p] \in unwritten PROVE FALSE
    <3>1. PICK q \in 1..done : accepted[q] = accepted[p]
      BY <2>2 DEF LinesOK
    <3> QED BY <1>1, <1>2, <2>1, <3>1
  <2> QED BY <2>1, <2>2
<1>4. ASSUME NEW k \in 1..Len(listed)
      PROVE  /\ \E p \in 1..Len(accepted) : listed[k] = accepted[p]
             /\ listed[k] \notin unwritten
  <2>1. CASE k \in 1..Len(lines)
    <3>1. listed[k] = lines[k]
      BY <2>1, ListedIs
    <3>2. PICK p \in 1..done : accepted[p] = lines[k]
      BY <2>1 DEF LinesOK
    <3>3. accepted[p] \notin unwritten
      BY <2>1, <3>2 DEF LinesOK
    <3> QED BY <1>1, <3>1, <3>2, <3>3
  <2>2. CASE k \notin 1..Len(lines)
    BY <1>3, <2>2, ListedAt
  <2> QED BY <2>1, <2>2
<1>5. ASSUME NEW p \in 1..Len(accepted), accepted[p] \notin unwritten
      PROVE  \E k \in 1..Len(listed) : listed[k] = accepted[p]
  <2>1. CASE p \in 1..done
    <3>1. PICK j \in 1..Len(lines) : lines[j] = accepted[p]
      BY <1>5, <2>1 DEF LinesOK
    <3>2. j \in 1..Len(listed) /\ listed[j] = lines[j]
      BY <1>1, ListedIs
    <3> QED BY <3>1, <3>2
  <2>2. CASE p \notin 1..done
    <3>1. p \in done + 1 .. Len(accepted) /\ Len(lines) + (p - done) \in 1..Len(listed)
      BY <1>1, <2>2
    <3>2. listed[Len(lines) + (p - done)] = accepted[p]
      BY <3>1, ListedIs
    <3> QED BY <3>1, <3>2
  <2> QED BY <2>1, <2>2
<1> QED BY <1>4, <1>5 DEF elements

\* The file lists the queued events in the order of the queue, each once, but
\* for those whose write failed; failed posts, retries and expired contexts
\* leave no trace in it.
THEOREM FileAlwaysFollowsQueue == AuditSpec => []FileFollowsQueue
<1>1. ControlInv /\ OrderInv /\ LinesOK => FileFollowsQueue
  <2> SUFFICES ASSUME ControlInv, OrderInv, LinesOK PROVE FileFollowsQueue
    OBVIOUS
  <2>1. elements(listed) = elements(accepted) \ unwritten
    BY ListedAre
  <2>2. \A j, k \in 1..Len(listed) : j < k => place(listed[j]) < place(listed[k])
    BY ListedInOrder
  <2> QED BY <2>1, <2>2 DEF FileFollowsQueue, listed, inHand
<1> QED BY <1>1, OrderInitially, OrderInductive, LinesInitially, LinesInductive, AuditControl,
           PTL DEF AuditSpec

-----------------------------------------------------------------------------
(***************************************************************************)
(* Close waits for a bounded number of steps of the goroutine.  left       *)
(* counts them: what each queued event may still cost, what the event in   *)
(* delivery may, and the end of the loop.                                  *)
(***************************************************************************)
perEvent == 2 * RetryCount + 2

waiting == Len(queue) * perEvent

delivery ==
    CASE run = "file"  -> 2 * RetryCount + 1
      [] run = "post"  -> 2 * (RetryCount - attempt)
      [] run = "sleep" -> 2 * (RetryCount - attempt) + 1
      [] OTHER         -> 0

left == IF run = "ended" THEN 0 ELSE waiting + delivery + 1

LEMMA ProductIsNat ==
    ASSUME NEW n \in Nat, NEW k \in Nat
    PROVE  n * k \in Nat
OBVIOUS

LEMMA ProductGrows ==
    ASSUME NEW n \in Nat, NEW m \in Nat, n <= m, NEW k \in Nat
    PROVE  n * k <= m * k
OBVIOUS

LEMMA OneEventLess ==
    ASSUME NEW n \in Nat, n # 0, NEW k \in Nat
    PROVE  n * k = (n - 1) * k + k
OBVIOUS

LEMMA DeliveryFacts ==
    ASSUME ControlInv
    PROVE  /\ RetryCount \in Nat /\ attempt \in Nat /\ attempt < RetryCount
           /\ perEvent = 2 * RetryCount + 2 /\ perEvent \in Nat
           /\ waiting \in Nat /\ waiting <= QueueSize * perEvent
           /\ delivery \in 0 .. 2 * RetryCount + 1
           /\ QueueSize * perEvent \in Nat
<1>1. RetryCount \in Nat /\ attempt \in Nat /\ attempt < RetryCount
  BY AuditAssumption DEF ControlInv, AuditTypeOK
<1>2. perEvent = 2 * RetryCount + 2 /\ perEvent \in Nat
  BY <1>1 DEF perEvent
<1>3. Len(queue) \in Nat /\ QueueSize \in Nat /\ Len(queue) <= QueueSize
  BY AuditAssumption DEF ControlInv, AuditTypeOK
<1>4. /\ waiting \in Nat /\ waiting <= QueueSize * perEvent
      /\ QueueSize * perEvent \in Nat
  BY <1>2, <1>3, ProductIsNat, ProductGrows DEF waiting
<1>5. delivery \in 0 .. 2 * RetryCount + 1
  BY <1>1 DEF delivery
<1> QED BY <1>1, <1>2, <1>4, <1>5

LEMMA LeftBounded ==
    ASSUME ControlInv
    PROVE  left \in 0 .. (QueueSize * perEvent + perEvent)
<1> DEFINE most == QueueSize * perEvent
<1>1. /\ RetryCount \in Nat /\ perEvent = 2 * RetryCount + 2
      /\ waiting \in Nat /\ waiting <= most /\ most \in Nat
      /\ delivery \in 0 .. 2 * RetryCount + 1
  BY DeliveryFacts
<1> HIDE DEF most
<1>2. left \in 0 .. (most + perEvent)
  BY <1>1 DEF left
<1> QED BY <1>2 DEF most

\* Only taking an event out of the channel or adding one changes what waits.
LEMMA SameWaiting ==
    ASSUME UNCHANGED queue
    PROVE  waiting' = waiting
BY DEF waiting, perEvent

LEMMA RunCosts ==
    ASSUME ControlInv, Run
    PROVE  left' < left
<1>1. /\ RetryCount \in Nat /\ attempt \in Nat /\ attempt < RetryCount
      /\ perEvent = 2 * RetryCount + 2 /\ waiting \in Nat
      /\ delivery \in 0 .. 2 * RetryCount + 1
  BY DeliveryFacts
<1>2. ~busy => attempt = 0
  BY DEF ControlInv, ControlOK
<1>3. CASE Receive
  <2>1. run = "idle" /\ run' = "file"
    BY <1>3 DEF Receive
  <2>2. Len(queue) \in Nat /\ Len(queue) # 0 /\ Len(queue') = Len(queue) - 1
    BY <1>3 DEF Receive, ControlInv, AuditTypeOK
  <2>3. waiting = waiting' + perEvent /\ waiting' \in Nat
    <3> DEFINE n == Len(queue)
    <3>1. waiting = n * perEvent /\ waiting' = (n - 1) * perEvent /\ n \in Nat /\ n # 0
      BY <2>2 DEF waiting, perEvent
    <3> HIDE DEF n
    <3>2. n - 1 \in Nat /\ perEvent \in Nat
      BY <1>1, <3>1
    <3> QED BY <3>1, <3>2, OneEventLess, ProductIsNat
  <2>4. delivery = 0 /\ delivery' = 2 * RetryCount + 1
    BY <2>1 DEF delivery
  <2>5. left = waiting + delivery + 1 /\ left' = waiting' + delivery' + 1
    BY <2>1 DEF left
  <2>6. left = waiting' + perEvent + 1 /\ left' = waiting' + (2 * RetryCount + 1) + 1
    BY <1>1, <2>3, <2>4, <2>5
  <2>7. perEvent = 2 * RetryCount + 2 /\ RetryCount \in Nat /\ waiting' \in Nat
    BY <1>1, <2>3
  <2> DEFINE n == waiting'
  <2> HIDE DEF n
  <2>8. n \in Nat
    BY <2>7 DEF n
  <2>9. n + (2 * RetryCount + 1) + 1 < n + perEvent + 1
    BY <2>7, <2>8
  <2> QED BY <2>6, <2>9 DEF n
<1>4. ASSUME Run, ~Receive
      PROVE  waiting' = waiting /\ run # "ended"
  <2>1. UNCHANGED queue /\ run # "ended"
    BY <1>4 DEF Run, RunEnds, WriteLine, WriteErrs, PostOk, PostErrs, SleepEnds, SleepExpires
  <2> QED BY <2>1, SameWaiting
<1>5. CASE RunEnds
  <2>1. run = "idle" /\ run' = "ended"
    BY <1>5 DEF RunEnds
  <2> QED BY <1>1, <2>1 DEF left
<1>6. ASSUME waiting' = waiting, run # "ended", run' # "ended",
             delivery' \in Nat, delivery' < delivery
      PROVE  left' < left
  <2>1. left = waiting + delivery + 1 /\ left' = waiting + delivery' + 1
    BY <1>6 DEF left
  <2>2. waiting \in Nat /\ delivery \in Nat
    BY <1>1
  <2> DEFINE n == delivery'
  <2> HIDE DEF n
  <2>3. n \in Nat /\ n < delivery
    BY <1>6 DEF n
  <2>4. waiting + n + 1 < waiting + delivery + 1
    BY <2>2, <2>3
  <2> QED BY <2>1, <2>4 DEF n
<1>7. CASE WriteLine \/ WriteErrs
  <2>1. run = "file" /\ run' = "post" /\ attempt' = attempt /\ UNCHANGED queue
    BY <1>7 DEF WriteLine, WriteErrs
  <2>2. delivery' \in Nat /\ delivery' < delivery
    BY <1>1, <2>1 DEF delivery
  <2>3. waiting' = waiting
    BY <2>1, SameWaiting
  <2> QED BY <1>6, <2>1, <2>2, <2>3
<1>8. CASE PostOk \/ SleepExpires \/ PostErrs \/ SleepEnds
  <2>1. /\ UNCHANGED queue
        /\ \/ run \in {"post", "sleep"} /\ run' = "idle"
           \/ run = "post" /\ run' = "sleep" /\ attempt' = attempt + 1
                           /\ attempt + 1 # RetryCount
           \/ run = "sleep" /\ run' = "post" /\ attempt' = attempt
    BY <1>8 DEF PostOk, SleepExpires, PostErrs, SleepEnds, finish
  <2>2. delivery' \in Nat /\ delivery' < delivery
    BY <1>1, <2>1 DEF delivery
  <2>3. waiting' = waiting
    BY <2>1, SameWaiting
  <2> QED BY <1>6, <2>1, <2>2, <2>3
<1> QED BY <1>3, <1>5, <1>7, <1>8 DEF Run

\* Once the channel is closed nothing adds to what the goroutine has to do:
\* no late handler, no answer of the endpoint, no time that runs out.
LEMMA OthersLeave ==
    ASSUME ControlInv, closed, [AuditNext]_auditVars, ~Run
    PROVE  left' = left
<1>1. UNCHANGED <<queue, run, attempt>>
  BY DEF AuditNext, EnqueueOk, EnqueueFull, EnqueueClosed, ReceivesLate, Expire, Close,
         CloseObservers, goroutine, auditVars
<1>2. waiting' = waiting
  BY <1>1, SameWaiting
<1>3. delivery' = delivery
  BY <1>1 DEF delivery
<1> QED BY <1>1, <1>2, <1>3 DEF left

LEMMA LeftIsIntNext == ControlInv' => left' \in Int
<1>1. ControlInv => left \in Int
  <2>1. ASSUME ControlInv PROVE left \in Int
    <3> DEFINE most == QueueSize * perEvent + perEvent
    <3>1. left \in 0 .. most
      BY <2>1, LeftBounded
    <3> QED BY <3>1
  <2> QED BY <2>1
<1>2. ControlInv' => (left \in Int)'
  BY <1>1, PTL
<1> QED BY <1>2

\* Every step of the goroutine brings it nearer to its end, and after the
\* channel was closed nothing takes it further away again.
THEOREM EveryRunStepCounts ==
    AuditSpec => [][/\ Run => left' < left
                    /\ closed => left' <= left]_auditVars
<1>1. ControlInv /\ [AuditNext]_auditVars => /\ Run => left' < left
                                             /\ closed => left' <= left
  <2> SUFFICES ASSUME ControlInv, [AuditNext]_auditVars
               PROVE  /\ Run => left' < left
                      /\ closed => left' <= left
    OBVIOUS
  <2>1. Run => left' < left
    BY RunCosts
  <2>2. left \in Int
    BY LeftBounded
  <2>3. left' \in Int
    BY ControlInductive, LeftIsIntNext
  <2>4. closed /\ ~Run => left' = left
    BY OthersLeave
  <2> QED BY <2>1, <2>2, <2>3, <2>4
<1> QED BY <1>1, AuditControl, PTL DEF AuditSpec

\* Close therefore waits for at most (QueueSize + 1) * (2 * RetryCount + 2)
\* steps, whatever is queued and however the endpoint answers.
THEOREM CloseWaitsBounded ==
    AuditSpec => [](left \in 0 .. (QueueSize + 1) * (2 * RetryCount + 2))
<1>1. ControlInv => left \in 0 .. (QueueSize + 1) * (2 * RetryCount + 2)
  <2> SUFFICES ASSUME ControlInv
               PROVE  left \in 0 .. (QueueSize + 1) * (2 * RetryCount + 2)
    OBVIOUS
  <2>1. QueueSize \in Nat /\ perEvent \in Nat /\ perEvent = 2 * RetryCount + 2
    BY DeliveryFacts, AuditAssumption
  <2>2. (QueueSize + 1) * perEvent = QueueSize * perEvent + perEvent
    BY <2>1, OneEventLess
  <2> QED BY <2>1, <2>2, LeftBounded
<1> QED BY <1>1, AuditControl, PTL
=============================================================================
