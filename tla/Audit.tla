------------------------------- MODULE Audit -------------------------------
(***************************************************************************)
(* The audit of internal/audit: handlers Enqueue events into a bounded     *)
(* channel without ever waiting, one goroutine (Notifier.run) takes them   *)
(* out and gives each to the file observer and then to the HTTP observer,  *)
(* and Close, which run() calls last, closes the channel, waits for the    *)
(* goroutine and closes the file.                                          *)
(***************************************************************************)
EXTENDS Naturals, Sequences, FiniteSets

CONSTANTS
    Events,      \* the events handlers will report, one Enqueue each
    NoEvent,
    QueueSize,   \* capacity of the channel (1024 in the code)
    RetryCount,  \* posts of one event before giving up (3 in the code)
    Late         \* handlers may outlive the servers (the HTTP shutdown timed out)

ASSUME AuditAssumption ==
    /\ NoEvent \notin Events
    /\ QueueSize \in Nat \ {0} /\ RetryCount \in Nat \ {0}
    /\ Late \in BOOLEAN

VARIABLES
    handler,   \* event -> what has become of its Enqueue
    queue,     \* the channel
    closed,    \* and whether it is closed
    run,       \* where the goroutine is
    event,     \* the event it delivers
    attempt,   \* failed posts of it
    expired,   \* the two seconds for it are over
    closer,    \* where Close is
    fileOpen,  \* the audit file is open
    lines,     \* the lines of the file
    received,  \* what the endpoint has received
    underway,  \* event -> posts of it given up on, which may still get there
    accepted,  \* history: the events queued, in this order
    unwritten, \* history: the events whose write failed
    unanswered \* history: the events of which a post failed

goroutine == <<run, event, attempt, expired>>
endpoint  == <<received, underway>>
history   == <<accepted, unwritten, unanswered>>
auditVars == <<handler, queue, closed, goroutine, closer, fileOpen, lines, endpoint, history>>

AuditTypeOK ==
    /\ handler  \in [Events -> {"working", "queued", "refused", "panicked"}]
    /\ queue    \in Seq(Events) /\ Len(queue) <= QueueSize
    /\ closed   \in BOOLEAN
    /\ run      \in {"idle", "file", "post", "sleep", "ended"}
    /\ event    \in Events \cup {NoEvent}
    /\ attempt  \in 0 .. RetryCount - 1
    /\ expired  \in BOOLEAN
    /\ closer   \in {"notCalled", "waiting", "returned"}
    /\ fileOpen \in BOOLEAN
    /\ lines    \in Seq(Events)
    /\ received \in Seq(Events)
    /\ accepted \in Seq(Events)
    /\ underway \in [Events -> Nat]
    /\ unwritten \subseteq Events /\ unanswered \subseteq Events

AuditInit ==
    /\ handler  = [e \in Events |-> "working"]
    /\ queue    = <<>>
    /\ closed   = FALSE
    /\ run      = "idle"
    /\ event    = NoEvent
    /\ attempt  = 0
    /\ expired  = FALSE
    /\ closer   = "notCalled"
    /\ fileOpen = TRUE
    /\ lines    = <<>>
    /\ received = <<>>
    /\ accepted = <<>>
    /\ underway = [e \in Events |-> 0]
    /\ unwritten = {} /\ unanswered = {}

-----------------------------------------------------------------------------
(* Handlers: notifyAudit, before the answer is written *)

\* The handler has come to its Enqueue.  Once Close was called only handlers
\* that outlived the servers still can.
reports(e) == handler[e] = "working" /\ (closer = "notCalled" \/ Late)

ends(e, how) == handler' = [handler EXCEPT ![e] = how]

\* Mutant: the capacity is not looked at.
EnqueueUnbounded(e) ==
    /\ reports(e) /\ ~closed
    /\ queue' = Append(queue, e)
    /\ accepted' = Append(accepted, e)
    /\ ends(e, "queued")
    /\ UNCHANGED <<closed, goroutine, closer, fileOpen, lines, endpoint, unwritten,
                   unanswered>>

EnqueueOk(e) ==
    /\ reports(e) /\ ~closed /\ Len(queue) < QueueSize
    /\ queue' = Append(queue, e)
    /\ accepted' = Append(accepted, e)
    /\ ends(e, "queued")
    /\ UNCHANGED <<closed, goroutine, closer, fileOpen, lines, endpoint, unwritten,
                   unanswered>>

\* ErrQueueFull is logged and the request goes on.
EnqueueFull(e) ==
    /\ reports(e) /\ ~closed /\ Len(queue) = QueueSize
    /\ ends(e, "refused")
    /\ UNCHANGED <<queue, closed, goroutine, closer, fileOpen, lines, endpoint, history>>

\* Sending on a closed channel panics, in a select with a default as well.
EnqueueClosed(e) ==
    /\ reports(e) /\ closed
    /\ ends(e, "panicked")
    /\ UNCHANGED <<queue, closed, goroutine, closer, fileOpen, lines, endpoint, history>>

-----------------------------------------------------------------------------
(* The goroutine *)

Receive ==
    /\ run = "idle" /\ queue # <<>>
    /\ event' = Head(queue)
    /\ queue' = Tail(queue)
    /\ run' = "file"
    /\ UNCHANGED <<handler, closed, attempt, expired, closer, fileOpen, lines, endpoint, history>>

\* Mutant: the loop ends with the close, not with the last event.
RunEndsEarly ==
    /\ run = "idle" /\ closed
    /\ run' = "ended"
    /\ UNCHANGED <<handler, queue, closed, event, attempt, expired, closer, fileOpen, lines,
                   endpoint, history>>

\* "range" over a closed channel ends when it is empty.
RunEnds ==
    /\ run = "idle" /\ queue = <<>> /\ closed
    /\ run' = "ended"
    /\ UNCHANGED <<handler, queue, closed, event, attempt, expired, closer, fileOpen, lines,
                   endpoint, history>>

\* FileObserver.Notify; an error of it does not keep the event from the endpoint.
WriteLine ==
    /\ run = "file"
    /\ lines' = Append(lines, event)
    /\ run' = "post"
    /\ UNCHANGED <<handler, queue, closed, event, attempt, expired, closer, fileOpen, endpoint,
                   history>>

WriteErrs ==
    /\ run = "file"
    /\ unwritten' = unwritten \cup {event}
    /\ run' = "post"
    /\ UNCHANGED <<handler, queue, closed, event, attempt, expired, closer, fileOpen, lines,
                   endpoint, accepted, unanswered>>

\* The event is done with, delivered or not.
finish ==
    /\ run' = "idle" /\ event' = NoEvent
    /\ attempt' = 0 /\ expired' = FALSE

\* HTTPObserver.post: the endpoint receives the event and says so.
PostOk ==
    /\ run = "post" /\ ~expired
    /\ received' = Append(received, event)
    /\ finish
    /\ UNCHANGED <<handler, queue, closed, closer, fileOpen, lines, underway, history>>

\* A post fails: with a status of 300 and more, so that the endpoint has
\* received the event, or because the client gave up waiting (its timeout, or
\* the end of the two seconds), when the endpoint may have received it, may
\* receive it later, or never.  Nothing is sent once the two seconds are over;
\* a post they cut off fails before they end.
fails ==
    /\ unanswered' = unanswered \cup {event}
    /\ \/ ~expired /\ received' = Append(received, event) /\ UNCHANGED underway
       \/ ~expired /\ underway' = [underway EXCEPT ![event] = @ + 1] /\ UNCHANGED received
       \/ UNCHANGED endpoint

\* Mutants: one retry too many; retries are not counted; the error puts the
\* event back into the channel.
PostErrsOnceMore ==
    /\ run = "post"
    /\ fails
    /\ IF attempt + 1 > RetryCount THEN finish
       ELSE run' = "sleep" /\ attempt' = attempt + 1 /\ UNCHANGED <<event, expired>>
    /\ UNCHANGED <<handler, queue, closed, closer, fileOpen, lines, accepted, unwritten>>

PostErrsForEver ==
    /\ run = "post"
    /\ fails
    /\ run' = "sleep"
    /\ UNCHANGED <<handler, queue, closed, event, attempt, expired, closer, fileOpen, lines, accepted, unwritten>>

PostErrsRequeue ==
    /\ run = "post"
    /\ fails
    /\ queue' = Append(queue, event)
    /\ finish
    /\ UNCHANGED <<handler, closed, closer, fileOpen, lines, accepted, unwritten>>

\* The post is repeated, RetryCount times in all.
PostErrs ==
    /\ run = "post"
    /\ fails
    /\ IF attempt + 1 = RetryCount THEN finish
       ELSE run' = "sleep" /\ attempt' = attempt + 1 /\ UNCHANGED <<event, expired>>
    /\ UNCHANGED <<handler, queue, closed, closer, fileOpen, lines, accepted, unwritten>>

\* sleepBeforeRetry: the timer fires, or the two seconds are over.
SleepEnds ==
    /\ run = "sleep"
    /\ run' = "post"
    /\ UNCHANGED <<handler, queue, closed, event, attempt, expired, closer, fileOpen, lines,
                   endpoint, history>>

SleepExpires ==
    /\ run = "sleep" /\ expired
    /\ finish
    /\ UNCHANGED <<handler, queue, closed, closer, fileOpen, lines, endpoint, history>>

\* The context of the event times out.
Expire ==
    /\ run \in {"file", "post", "sleep"} /\ ~expired
    /\ expired' = TRUE
    /\ UNCHANGED <<handler, queue, closed, run, event, attempt, closer, fileOpen, lines, endpoint,
                   history>>

\* The endpoint takes a request its client no longer waits for, at any later
\* moment: after the next attempt, the next event or the end of the process.
ReceivesLate(e) ==
    /\ underway[e] > 0
    /\ underway' = [underway EXCEPT ![e] = @ - 1]
    /\ received' = Append(received, e)
    /\ UNCHANGED <<handler, queue, closed, goroutine, closer, fileOpen, lines, history>>

-----------------------------------------------------------------------------
(* Close *)

Close ==
    /\ closer = "notCalled"
    /\ closed' = TRUE
    /\ closer' = "waiting"
    /\ UNCHANGED <<handler, queue, goroutine, fileOpen, lines, endpoint, history>>

\* Mutant: the goroutine is not waited for.
CloseObserversAtOnce ==
    /\ closer = "waiting"
    /\ fileOpen' = FALSE
    /\ closer' = "returned"
    /\ UNCHANGED <<handler, queue, closed, goroutine, lines, endpoint, history>>

CloseObservers ==
    /\ closer = "waiting" /\ run = "ended"
    /\ fileOpen' = FALSE
    /\ closer' = "returned"
    /\ UNCHANGED <<handler, queue, closed, goroutine, lines, endpoint, history>>

-----------------------------------------------------------------------------
Run ==
    \/ Receive \/ RunEnds
    \/ WriteLine \/ WriteErrs
    \/ PostOk \/ PostErrs \/ SleepEnds \/ SleepExpires

AuditNext ==
    \/ \E e \in Events : EnqueueOk(e) \/ EnqueueFull(e) \/ EnqueueClosed(e)
    \/ \E e \in Events : ReceivesLate(e)
    \/ Run \/ Expire
    \/ Close \/ CloseObservers

AuditSpec == AuditInit /\ [][AuditNext]_auditVars

\* The goroutine and run() are served by the scheduler, and no post hangs: the
\* client has a timeout.  The number of retries is what ends a delivery; the
\* two seconds need not pass.
AuditFairSpec == AuditSpec /\ WF_auditVars(Run) /\ WF_auditVars(CloseObservers)

-----------------------------------------------------------------------------
(* Properties *)

place(e) == CHOOSE k \in 1..Len(accepted) : accepted[k] = e

elements(s) == {s[k] : k \in 1..Len(s)}

\* The file has every event that was queued, once and in this order, up to
\* the one being delivered, save for those whose write failed: whatever the
\* endpoint does, it neither drops, repeats nor reorders lines of the file.
FileFollowsQueue ==
    LET inHand == IF run = "file" THEN <<event>> ELSE <<>>
        listed == lines \o inHand \o queue
    IN  /\ elements(listed) = elements(accepted) \ unwritten
        /\ \A j, k \in 1..Len(listed) : j < k => place(listed[j]) < place(listed[k])

receipts(e) == Cardinality({k \in 1..Len(received) : received[k] = e})

\* What the endpoint gets.  No event reaches it more often than RetryCount
\* times, now or later.  An event of which no post failed reaches it exactly
\* once, when its turn has come, and never behind a later event: only an event
\* whose client gave up on it can be repeated, be missing or arrive out of order.
EndpointReceipts ==
    /\ \A e \in Events : receipts(e) + underway[e] <= RetryCount
    /\ \A e \in elements(accepted) \ unanswered :
          receipts(e) = IF e = event \/ e \in elements(queue) THEN 0 ELSE 1
    /\ \A j, k \in 1..Len(received) :
          j < k /\ place(received[k]) < place(received[j]) => received[k] \in unanswered

\* The file is open whenever the goroutine is about to write to it.
WritesToOpenFile == run # "ended" => fileOpen

\* When Close has returned, every event that was queued has been delivered.
NothingLeftBehind == closer = "returned" => queue = <<>> /\ event = NoEvent

\* "ErrQueueFull is returned when an audit event cannot be queued": Enqueue
\* never fails in another way.
NeverPanics == \A e \in Events : handler[e] # "panicked"

\* Close returns, whatever is queued and however the endpoint fails.
CloseReturns == closer = "waiting" ~> closer = "returned"

\* A queued event is written in the end, or its write has failed.
QueuedGetsWritten ==
    \A e \in Events :
        handler[e] = "queued" ~> (\E k \in 1..Len(lines) : lines[k] = e) \/ e \in unwritten
=============================================================================
