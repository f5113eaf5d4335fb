--------------------------- MODULE AuthProcessor ---------------------------
(***************************************************************************)
(* The authentication core of linux-daemon: a verification handler per     *)
(* client connection (verification_handler.rs), the one AuthProcessor task *)
(* that serves their requests in turn (auth_processor.rs), and the GATT    *)
(* handlers it meets (characteristics/). They share the current challenge, *)
(* the session, the two ready flags and the channels made in main.rs.      *)
(*                                                                         *)
(* The tasks run on a multi-threaded executor: an action is what a task    *)
(* does between two accesses to shared state. The poll of a biased select! *)
(* looks at its branches in order, one access each: an earlier branch that *)
(* becomes ready after it was looked at does not win. The select! of a     *)
(* verification handler is one step: a client that leaves between its two  *)
(* looks is as good as one that leaves after its answer.                   *)
(***************************************************************************)
EXTENDS AuthSession, CurrentChallenge, Sequences, FiniteSets

CONSTANTS
    Requests,           \* one element per client connection
    NoRequest,          \* no request in hand
    Identity,           \* the AuthIdentity (uid, tty, service) each one sends
    RootPeers,          \* the connections whose peer credential is root
    Writes,             \* writes to the response characteristic (bound)
    AddQueueCapacity,   \* main.rs:99
    ResultCapacity,     \* main.rs:100
    CancelCapacity,     \* main.rs:101
    MaxHandlers,        \* bound: notify handlers alive per characteristic
    MaxReads,           \* bound: reads of the challenge characteristic
    ClockSteps          \* whether somebody sets the wall clock

ASSUME ProcessorAssumption ==
    /\ NoRequest \notin Requests
    /\ RootPeers \subseteq Requests
    /\ AddQueueCapacity \in Nat \ {0}
    /\ ResultCapacity \in Nat \ {0}
    /\ CancelCapacity \in Nat \ {0}
    /\ MaxHandlers \in Nat \ {0}
    /\ MaxReads \in Nat
    /\ ClockSteps \in BOOLEAN

VARIABLES
    task,           \* per request: how far its verification handler is
    left,           \* per request: the client wrote a byte, or hung up
    result,         \* per request: its result channel, filled once or closed
    reply,          \* per request: the byte the client was answered with
    addQueue,       \* the add_queue channel
    results,        \* the wrist_result channel
    cancelQueue,    \* the cancel_notify channel
    notifyReady,    \* notify_ready, set and cleared by NotifyReadyGuard
    cancelReady,    \* cancel_notify_ready
    notifyHandlers, \* handle_challenge_notify tasks alive
    cancelHandlers, \* handle_cancel_notify tasks alive
    startPermit,    \* the permit stored in wrist_start_notify
    queue,          \* AuthProcessorContext.queue
    pc,             \* where the processor task is
    cur,            \* the request it has in hand
    verdict,        \* handle_verification's Some(_), not yet sent
    held,           \* the message it took from a channel, or will send to one
    unused,         \* writes the watch has not made
    sending,        \* per write: the AuthResult its handler is sending
    reads,          \* reads of the challenge characteristic so far
    told,           \* challenges the watch has been sent
    approved,       \* challenges the user approved, and the watch signed
    started,        \* history: the challenge a request was started with
    grant,          \* history: the challenge that granted a request
    basis,          \* history: what decided a request
    spent,          \* history: challenges consumed by take_if_matches
    late            \* history: requests that queued behind one of their identity

handlerVars == <<task, left, reply>>
notifyVars == <<notifyReady, notifyHandlers>>
cancelVars == <<cancelReady, cancelHandlers>>
processorVars == <<queue, pc, cur, verdict, held>>
writeVars == <<unused, sending>>
watchVars == <<reads, told, approved>>
historyVars == <<started, grant, basis, spent>>
sharedVars == <<sessionVars, challengeVars, addQueue, results, cancelQueue, startPermit>>

vars == <<sharedVars, handlerVars, result, notifyVars, cancelVars, processorVars,
          writeVars, watchVars, historyVars, late>>

AuthResult == [kind : {"Success", "Denied"}, challenge : Nat]
NoResult == [kind |-> "None", challenge |-> NoChallenge]
CancelNotice == [kind : {"Cancel"}, challenge : Nat]

Success(c) == [kind |-> "Success", challenge |-> c]
Denied(c) == [kind |-> "Denied", challenge |-> c]
Cancel(c) == [kind |-> "Cancel", challenge |-> c]

TypeOK ==
    /\ SessionTypeOK
    /\ ChallengeTypeOK
    /\ task \in [Requests -> {"absent", "reading", "sending", "selecting", "done"}]
    /\ left \in [Requests -> BOOLEAN]
    /\ result \in [Requests -> {"none", "true", "false", "dropped"}]
    /\ reply \in [Requests -> {"none", "success", "failure"}]
    /\ addQueue \in Seq(Requests)
    /\ results \in Seq(AuthResult)
    /\ cancelQueue \in Seq(Nat)
    /\ notifyReady \in BOOLEAN
    /\ cancelReady \in BOOLEAN
    /\ notifyHandlers \in 0 .. MaxHandlers
    /\ cancelHandlers \in 0 .. MaxHandlers
    /\ startPermit \in BOOLEAN
    /\ queue \in Seq(Requests)
    /\ pc \in {"idle", "popped", "session", "ready", "cancelReady", "drain",
               "refresh", "trigger", "wait", "poll", "sendCancel", "judge", "answer"}
    /\ cur \in Requests \cup {NoRequest}
    /\ cur = NoRequest <=> pc = "idle"
    /\ verdict \in BOOLEAN
    /\ held \in AuthResult \cup CancelNotice \cup {NoResult}
    /\ unused \subseteq Writes
    /\ sending \in [Writes -> AuthResult \cup {NoResult}]
    /\ reads \in 0 .. MaxReads
    /\ told \subseteq 1 .. issued
    /\ approved \subseteq told
    /\ started \in [Requests -> 0 .. issued]
    /\ grant \in [Requests -> 0 .. issued]
    /\ basis \in [Requests -> {"none", "cache", "grant", "denied", "mismatch",
                               "clock", "timeout", "notReady", "duplicate"}]
    /\ spent \subseteq 1 .. issued
    /\ late \subseteq Requests

Init ==
    /\ SessionInit
    /\ ChallengeInit
    /\ task = [r \in Requests |-> "absent"]
    /\ left = [r \in Requests |-> FALSE]
    /\ result = [r \in Requests |-> "none"]
    /\ reply = [r \in Requests |-> "none"]
    /\ addQueue = <<>>
    /\ results = <<>>
    /\ cancelQueue = <<>>
    /\ notifyReady = FALSE
    /\ cancelReady = FALSE
    /\ notifyHandlers = 0
    /\ cancelHandlers = 0
    /\ startPermit = FALSE
    /\ queue = <<>>
    /\ pc = "idle"
    /\ cur = NoRequest
    /\ verdict = FALSE
    /\ held = NoResult
    /\ unused = Writes
    /\ sending = [w \in Writes |-> NoResult]
    /\ reads = 0
    /\ told = {}
    /\ approved = {}
    /\ started = [r \in Requests |-> NoChallenge]
    /\ grant = [r \in Requests |-> NoChallenge]
    /\ basis = [r \in Requests |-> "none"]
    /\ spent = {}
    /\ late = {}

-----------------------------------------------------------------------------
(***************************************************************************)
(* Verification handlers: one task per connection.                         *)
(***************************************************************************)
HandlerElsewhere ==
    UNCHANGED <<sessionVars, challengeVars, results, cancelQueue, startPermit, notifyVars,
                cancelVars, result, processorVars, writeVars, watchVars, historyVars>>

\* A connection is accepted; one whose peer is not root is closed at once.
Accept(r) ==
    /\ task[r] = "absent"
    /\ task' = [task EXCEPT ![r] = IF r \in RootPeers THEN "reading" ELSE "done"]
    /\ UNCHANGED <<left, reply, addQueue, late>>
    /\ HandlerElsewhere

\* The identity arrives whole and is read.
ReceiveIdentity(r) ==
    /\ task[r] = "reading"
    /\ task' = [task EXCEPT ![r] = "sending"]
    /\ UNCHANGED <<left, reply, addQueue, late>>
    /\ HandlerElsewhere

\* The client hangs up first: read_exact fails and the handler returns.
LoseIdentity(r) ==
    /\ task[r] = "reading"
    /\ task' = [task EXCEPT ![r] = "done"]
    /\ UNCHANGED <<left, reply, addQueue, late>>
    /\ HandlerElsewhere

\* The requests that wait their turn.
Waiting == {addQueue[i] : i \in 1 .. Len(addQueue)} \cup
           {queue[i] : i \in 1 .. Len(queue)}

\* add_queue_tx.send(AuthRequest { .. }).await, which waits for a free slot.
Enqueue(r) ==
    /\ task[r] = "sending"
    /\ Len(addQueue) < AddQueueCapacity
    /\ addQueue' = Append(addQueue, r)
    /\ task' = [task EXCEPT ![r] = "selecting"]
    /\ late' = IF \E q \in Waiting : Identity[q] = Identity[r]
                 THEN late \cup {r} ELSE late
    /\ UNCHANGED <<left, reply>>
    /\ HandlerElsewhere

\* The client writes AUTH_MSG_PAM_CANCELLED or closes the socket.
ClientLeaves(r) ==
    /\ task[r] \in {"sending", "selecting"}
    /\ ~left[r]
    /\ left' = [left EXCEPT ![r] = TRUE]
    /\ UNCHANGED <<task, reply, addQueue, late>>
    /\ HandlerElsewhere

\* Mutant of HandleClientMessage: the select! polls the result first.
HandleClientMessage_AfterResult(r) ==
    /\ task[r] = "selecting"
    /\ left[r]
    /\ result[r] # "none"
    /\ task' = [task EXCEPT ![r] = "done"]
    /\ UNCHANGED <<left, reply, addQueue, late>>
    /\ HandlerElsewhere

\* The first branch of the select!: any byte, or the end of the stream, ends the
\* handler. Its end sends to cancel_tx or drops it; see Cancelled.
HandleClientMessage(r) ==
    /\ task[r] = "selecting"
    /\ left[r]
    /\ task' = [task EXCEPT ![r] = "done"]
    /\ UNCHANGED <<left, reply, addQueue, late>>
    /\ HandlerElsewhere

\* The second branch: the result, or the processor having dropped the sender.
DeliverResult(r) ==
    /\ task[r] = "selecting"
    /\ ~left[r]
    /\ result[r] # "none"
    /\ reply' = [reply EXCEPT ![r] = IF result[r] = "true" THEN "success" ELSE "failure"]
    /\ task' = [task EXCEPT ![r] = "done"]
    /\ UNCHANGED <<left, addQueue, late>>
    /\ HandlerElsewhere

\* cancel_rx is ready: Ok(()) and Closed are treated alike by the processor.
Cancelled(r) == task[r] = "done"

HandlerStep(r) ==
    \/ Enqueue(r)
    \/ HandleClientMessage(r)
    \/ DeliverResult(r)

-----------------------------------------------------------------------------
(***************************************************************************)
(* The AuthProcessor task: the loop of spawn() around handle_verification. *)
(***************************************************************************)
ProcessorElsewhere ==
    UNCHANGED <<handlerVars, notifyVars, cancelVars, writeVars, watchVars, late>>

\* A request in the queue already asks for the same identity.
IsDuplicate(r) == \E i \in 1 .. Len(queue) : Identity[queue[i]] = Identity[r]

\* The request in hand is dropped, and its result channel with it.
Drop ==
    /\ result' = [result EXCEPT ![cur] = "dropped"]
    /\ pc' = "idle"
    /\ cur' = NoRequest

\* handle_verification returns Some(v), decided by why.
Decide(v, why) ==
    /\ verdict' = v
    /\ basis' = [basis EXCEPT ![cur] = why]
    /\ pc' = "answer"

\* The head of the loop: recv() when the queue is empty and try_recv() otherwise,
\* the duplicate check, push_back and pop_front.
Receive ==
    /\ pc = "idle"
    /\ queue = <<>> => addQueue # <<>>
    /\ addQueue' = IF addQueue = <<>> THEN <<>> ELSE Tail(addQueue)
    /\ IF addQueue # <<>> /\ IsDuplicate(Head(addQueue))
         THEN /\ result' = [result EXCEPT ![Head(addQueue)] = "false"]
              /\ basis' = [basis EXCEPT ![Head(addQueue)] = "duplicate"]
              /\ UNCHANGED <<queue, pc, cur>>
         ELSE LET waiting == IF addQueue = <<>> THEN queue
                                                ELSE Append(queue, Head(addQueue))
              IN  /\ cur' = Head(waiting)
                  /\ queue' = Tail(waiting)
                  /\ pc' = "popped"
                  /\ UNCHANGED <<result, basis>>
    /\ UNCHANGED <<sessionVars, challengeVars, results, cancelQueue, startPermit,
                   verdict, held, started, grant, spent>>
    /\ ProcessorElsewhere

\* cancel_rx.try_recv(): a request cancelled while it waited is skipped.
CheckCancelled ==
    /\ pc = "popped"
    /\ IF Cancelled(cur) THEN Drop
                         ELSE pc' = "session" /\ UNCHANGED <<result, cur>>
    /\ UNCHANGED <<sharedVars, queue, verdict, held, historyVars>>
    /\ ProcessorElsewhere

\* auth_session.is_verified()
CheckSession ==
    /\ pc = "session"
    /\ IF IsVerified THEN Decide(TRUE, "cache")
                     ELSE pc' = "ready" /\ UNCHANGED <<verdict, basis>>
    /\ UNCHANGED <<sharedVars, result, queue, cur, held, started, grant, spent>>
    /\ ProcessorElsewhere

\* notify_ready.load() and cancel_notify_ready.load(): a request is refused when
\* no watch can be told of it.
CheckReady(here, ready, next) ==
    /\ pc = here
    /\ IF ready THEN pc' = next /\ UNCHANGED <<verdict, basis>>
                ELSE Decide(FALSE, "notReady")
    /\ UNCHANGED <<sharedVars, result, queue, cur, held, started, grant, spent>>
    /\ ProcessorElsewhere

\* One try_recv() of drain_stale_wrist_results. A handler that waits to send can
\* put its result into the slot that this frees.
Drain ==
    /\ pc = "drain"
    /\ IF results = <<>> THEN pc' = "refresh" /\ UNCHANGED results
                         ELSE results' = Tail(results) /\ UNCHANGED pc
    /\ UNCHANGED <<sessionVars, challengeVars, result, addQueue, cancelQueue,
                   startPermit, queue, cur, verdict, held, historyVars>>
    /\ ProcessorElsewhere

\* Mutant of RefreshChallenge: a challenge that is still there is used again.
RefreshChallenge_Reuses ==
    /\ pc = "refresh"
    /\ IF CanPeek THEN UNCHANGED challengeVars ELSE Refresh
    /\ started' = [started EXCEPT ![cur] = challenge']
    /\ pc' = "trigger"
    /\ UNCHANGED <<sessionVars, result, addQueue, results, cancelQueue, startPermit,
                   queue, cur, verdict, held, grant, basis, spent>>
    /\ ProcessorElsewhere

\* current_challenge.refresh()
RefreshChallenge ==
    /\ pc = "refresh"
    /\ Refresh
    /\ started' = [started EXCEPT ![cur] = issued + 1]
    /\ pc' = "trigger"
    /\ UNCHANGED <<sessionVars, result, addQueue, results, cancelQueue, startPermit,
                   queue, cur, verdict, held, grant, basis, spent>>
    /\ ProcessorElsewhere

\* wrist_start_notify.notify_one()
Trigger ==
    /\ pc = "trigger"
    /\ startPermit' = TRUE
    /\ pc' = "wait"
    /\ UNCHANGED <<sessionVars, challengeVars, result, addQueue, results, cancelQueue,
                   queue, cur, verdict, held, historyVars>>
    /\ ProcessorElsewhere

\* The first branch of the select!: the cancel signal, and the copy of the
\* challenge that the watch is to forget.
WaitCancelled ==
    /\ pc = "wait"
    /\ Cancelled(cur)
    /\ IF CanPeek THEN /\ held' = Cancel(challenge)
                       /\ pc' = "sendCancel"
                       /\ UNCHANGED <<result, cur>>
                  ELSE Drop /\ UNCHANGED held
    /\ UNCHANGED <<sharedVars, queue, verdict, historyVars>>
    /\ ProcessorElsewhere

\* cancel_notify_tx.send(challenge).await, outside the timeout; then None.
SendCancel ==
    /\ pc = "sendCancel"
    /\ Len(cancelQueue) < CancelCapacity
    /\ cancelQueue' = Append(cancelQueue, held.challenge)
    /\ held' = NoResult
    /\ Drop
    /\ UNCHANGED <<sessionVars, challengeVars, addQueue, results, startPermit, queue,
                   verdict, historyVars>>
    /\ ProcessorElsewhere

\* The select! is polled, at first or when it was woken: cancel_rx is looked at
\* first, and has nothing yet.
PollCancel ==
    /\ pc = "wait"
    /\ ~Cancelled(cur)
    /\ pc' = "poll"
    /\ UNCHANGED <<sharedVars, result, queue, cur, verdict, held, historyVars>>
    /\ ProcessorElsewhere

\* The poll finds neither branch ready.
PollPending ==
    /\ pc = "poll"
    /\ results = <<>>
    /\ pc' = "wait"
    /\ UNCHANGED <<sharedVars, result, queue, cur, verdict, held, historyVars>>
    /\ ProcessorElsewhere

\* Mutant of WaitResult: the select! is not biased, and may poll recv() first.
WaitResult_Unbiased ==
    /\ pc \in {"wait", "poll"}
    /\ results # <<>>
    /\ held' = Head(results)
    /\ results' = Tail(results)
    /\ pc' = "judge"
    /\ UNCHANGED <<sessionVars, challengeVars, result, addQueue, cancelQueue,
                   startPermit, queue, cur, verdict, historyVars>>
    /\ ProcessorElsewhere

\* The second branch: wrist_result_rx.recv() completes in time, also when the
\* cancellation has come since cancel_rx was polled.
WaitResult ==
    /\ pc = "poll"
    /\ results # <<>>
    /\ held' = Head(results)
    /\ results' = Tail(results)
    /\ pc' = "judge"
    /\ UNCHANGED <<sessionVars, challengeVars, result, addQueue, cancelQueue,
                   startPermit, queue, cur, verdict, historyVars>>
    /\ ProcessorElsewhere

\* Mutant of WaitTimeout: the timeout is treated as the cancellation is.
WaitTimeout_Drops ==
    /\ pc = "poll"
    /\ results = <<>>
    /\ Drop
    /\ UNCHANGED <<sharedVars, queue, verdict, held, historyVars>>
    /\ ProcessorElsewhere

\* Mutant of WaitTimeout: recv() is awaited without the timeout.
WaitTimeout_Missing == FALSE /\ UNCHANGED vars

\* AUTH_TIMEOUT_SECONDS pass. timeout() polls recv() first: the channel is empty.
WaitTimeout ==
    /\ pc = "poll"
    /\ results = <<>>
    /\ Decide(FALSE, "timeout")
    /\ UNCHANGED <<sharedVars, result, queue, cur, held, started, grant, spent>>
    /\ ProcessorElsewhere

\* Mutant of Basis: a denial of the current challenge passes for a success.
Basis_AnyKind ==
    IF ~Matches(held.challenge) THEN "mismatch"
    ELSE IF ClockReadable THEN "grant" ELSE "clock"

\* What handle_wrist_result makes of the message in hand.
Basis ==
    IF ~Matches(held.challenge) THEN "mismatch"
    ELSE IF held.kind = "Denied" THEN "denied"
    ELSE IF ClockReadable THEN "grant" ELSE "clock"

\* handle_wrist_result: a matching message consumes the challenge, a matching
\* Success opens the session, and everything else is a failure.
Judge ==
    /\ pc = "judge"
    /\ Decide(Basis = "grant", Basis)
    /\ TakeIfMatches(held.challenge)
    /\ IF Basis \in {"grant", "clock"} THEN MarkVerified ELSE UNCHANGED sessionVars
    /\ grant' = IF Basis = "grant" THEN [grant EXCEPT ![cur] = held.challenge] ELSE grant
    /\ spent' = IF Basis = "mismatch" THEN spent ELSE spent \cup {held.challenge}
    /\ held' = NoResult
    /\ UNCHANGED <<result, addQueue, results, cancelQueue, startPermit, queue, cur,
                   started>>
    /\ ProcessorElsewhere

\* Mutant of Answer: only a success is sent, and the sender kept.
Answer_SuccessOnly ==
    /\ pc = "answer"
    /\ result' = [result EXCEPT ![cur] = IF Cancelled(cur) THEN "dropped"
                                         ELSE IF verdict THEN "true" ELSE "none"]
    /\ verdict' = FALSE
    /\ pc' = "idle"
    /\ cur' = NoRequest
    /\ UNCHANGED <<sharedVars, queue, held, historyVars>>
    /\ ProcessorElsewhere

\* result_tx.send(verified): lost when the handler has returned.
Answer ==
    /\ pc = "answer"
    /\ result' = [result EXCEPT ![cur] = IF Cancelled(cur) THEN "dropped"
                                         ELSE IF verdict THEN "true" ELSE "false"]
    /\ verdict' = FALSE
    /\ pc' = "idle"
    /\ cur' = NoRequest
    /\ UNCHANGED <<sharedVars, queue, held, historyVars>>
    /\ ProcessorElsewhere

\* Every step but the one the timer takes.
PromptStep ==
    \/ Receive
    \/ CheckCancelled
    \/ CheckSession
    \/ CheckReady("ready", notifyReady, "cancelReady")
    \/ CheckReady("cancelReady", cancelReady, "drain")
    \/ Drain
    \/ RefreshChallenge
    \/ Trigger
    \/ WaitCancelled
    \/ SendCancel
    \/ PollCancel
    \/ PollPending
    \/ WaitResult
    \/ Judge
    \/ Answer

-----------------------------------------------------------------------------
(***************************************************************************)
(* The GATT handlers.                                                      *)
(***************************************************************************)
GattElsewhere ==
    UNCHANGED <<sessionVars, handlerVars, result, addQueue, processorVars, historyVars, late>>

WriteElsewhere ==
    /\ UNCHANGED <<challengeVars, cancelQueue, notifyVars, cancelVars, startPermit, watchVars>>
    /\ GattElsewhere

NotifyElsewhere ==
    /\ UNCHANGED <<challengeVars, results, reads, approved, writeVars>>
    /\ GattElsewhere

\* A deny response names its challenge. It is forwarded as it is, unchecked.
WriteDenied(w, c) ==
    /\ w \in unused
    /\ c \in told
    /\ unused' = unused \ {w}
    /\ sending' = [sending EXCEPT ![w] = Denied(c)]
    /\ UNCHANGED results
    /\ WriteElsewhere

\* Mutant of WriteSignature: the signature is not verified.
WriteSignature_Unverified(w, c) ==
    /\ w \in unused
    /\ c \in approved
    /\ unused' = unused \ {w}
    /\ sending' = [sending EXCEPT ![w] = IF CanPeek THEN Success(challenge) ELSE NoResult]
    /\ UNCHANGED results
    /\ WriteElsewhere

\* A signature, of some challenge c, is verified against the current challenge
\* and vouches for that one; any other signature is an error of the write.
WriteSignature(w, c) ==
    /\ w \in unused
    /\ c \in approved
    /\ unused' = unused \ {w}
    /\ sending' = [sending EXCEPT ![w] =
                     IF CanPeek /\ c = challenge THEN Success(challenge) ELSE NoResult]
    /\ UNCHANGED results
    /\ WriteElsewhere

\* wrist_result_tx.send(..).await, which waits for a free slot.
SendResult(w) ==
    /\ sending[w] # NoResult
    /\ Len(results) < ResultCapacity
    /\ results' = Append(results, sending[w])
    /\ sending' = [sending EXCEPT ![w] = NoResult]
    /\ UNCHANGED unused
    /\ WriteElsewhere

\* handle_challenge_read: every read draws a new challenge.
ReadChallenge ==
    /\ reads < MaxReads
    /\ Refresh
    /\ reads' = reads + 1
    /\ told' = told \cup {issued + 1}
    /\ UNCHANGED <<approved, results, cancelQueue, notifyVars, cancelVars, startPermit,
                   writeVars>>
    /\ GattElsewhere

\* The watch subscribes to the challenges: a handler starts, with its guard.
SubscribeChallenge ==
    /\ notifyHandlers < MaxHandlers
    /\ notifyHandlers' = notifyHandlers + 1
    /\ notifyReady' = TRUE
    /\ UNCHANGED <<cancelVars, cancelQueue, startPermit, told>>
    /\ NotifyElsewhere

\* The watch subscribes to the cancellations.
SubscribeCancel ==
    /\ cancelHandlers < MaxHandlers
    /\ cancelHandlers' = cancelHandlers + 1
    /\ cancelReady' = TRUE
    /\ UNCHANGED <<notifyVars, cancelQueue, startPermit, told>>
    /\ NotifyElsewhere

\* A handler returns, and drops its guard.
NotifyHandlerEnds == notifyReady' = FALSE /\ notifyHandlers' = notifyHandlers - 1

\* notified().await, peek() and notify(): the watch is told the challenge of that
\* moment. The handler returns when there is none.
NotifyChallenge ==
    /\ startPermit
    /\ notifyHandlers > 0
    /\ startPermit' = FALSE
    /\ IF CanPeek
         THEN told' = told \cup {challenge} /\ UNCHANGED notifyVars
         ELSE NotifyHandlerEnds /\ UNCHANGED told
    /\ UNCHANGED <<cancelVars, cancelQueue>>
    /\ NotifyElsewhere

\* The same with a link that is gone: notify() fails and the handler returns.
LoseChallenge ==
    /\ startPermit
    /\ notifyHandlers > 0
    /\ startPermit' = FALSE
    /\ NotifyHandlerEnds
    /\ UNCHANGED <<cancelVars, cancelQueue, told>>
    /\ NotifyElsewhere

\* recv() and notify() of handle_cancel_notify.
NotifyCancel ==
    /\ cancelQueue # <<>>
    /\ cancelHandlers > 0
    /\ cancelQueue' = Tail(cancelQueue)
    /\ UNCHANGED <<notifyVars, cancelVars, startPermit, told>>
    /\ NotifyElsewhere

\* The same with a link that is gone: the handler returns.
LoseCancel ==
    /\ cancelQueue # <<>>
    /\ cancelHandlers > 0
    /\ cancelQueue' = Tail(cancelQueue)
    /\ cancelReady' = FALSE
    /\ cancelHandlers' = cancelHandlers - 1
    /\ UNCHANGED <<notifyVars, startPermit, told>>
    /\ NotifyElsewhere

\* The watch: its user approves a challenge it was told, and it is signed.
Approve(c) ==
    /\ c \in told \ approved
    /\ approved' = approved \cup {c}
    /\ UNCHANGED <<challengeVars, results, cancelQueue, notifyVars, cancelVars, startPermit,
                   writeVars, reads, told>>
    /\ GattElsewhere

\* The wall clock.
Clock ==
    /\ \/ Tick
       \/ ClockSteps /\ \E t \in BeforeEpoch .. MaxTime : SetClock(t)
    /\ UNCHANGED <<challengeVars, handlerVars, result, addQueue, results, cancelQueue,
                   notifyVars, cancelVars, startPermit, processorVars, writeVars,
                   watchVars, historyVars, late>>

-----------------------------------------------------------------------------
ClientStep(r) == Accept(r) \/ ReceiveIdentity(r) \/ LoseIdentity(r) \/ ClientLeaves(r)

WriteStep(w) ==
    \/ \E c \in told : WriteDenied(w, c) \/ WriteSignature(w, c)
    \/ SendResult(w)

WatchStep ==
    \/ \E c \in told : Approve(c)
    \/ ReadChallenge
    \/ SubscribeChallenge
    \/ SubscribeCancel

NotifyStep == NotifyChallenge \/ LoseChallenge \/ NotifyCancel \/ LoseCancel

Next ==
    \/ \E r \in Requests : ClientStep(r) \/ HandlerStep(r)
    \/ PromptStep
    \/ WaitTimeout
    \/ \E w \in Writes : WriteStep(w)
    \/ WatchStep
    \/ NotifyStep
    \/ Clock

Spec == Init /\ [][Next]_vars

(***************************************************************************)
(* Fairness. The executor runs every task that can make progress; a        *)
(* handler takes the cancellations from their channel; and a watch that    *)
(* went away subscribes again. Nothing is assumed of clients, of the       *)
(* user, of what the watch writes or of the clock. TimerFairness is the    *)
(* timer of the 30 s timeout: it wakes the select!, and once it has run    *)
(* out every later poll finds that it has.                                 *)
(***************************************************************************)
Fairness ==
    /\ \A r \in Requests : WF_vars(HandlerStep(r))
    /\ WF_vars(PromptStep)
    /\ WF_vars(NotifyCancel \/ LoseCancel)
    /\ WF_vars(SubscribeCancel)

TimerFairness == SF_vars(WaitTimeout)

FairSpec == Spec /\ Fairness

-----------------------------------------------------------------------------
\* The user approved, on the watch, a challenge that was drawn for r or after it.
GrantedByUser(r) ==
    /\ grant[r] \in approved
    /\ started[r] # NoChallenge
    /\ started[r] <= grant[r]

\* A client is answered with success only if the user approved a challenge no
\* older than its request, or if the session of another request that the user
\* approved in that way was still open (auth_processor.rs:125-128, 191-205).
SuccessIsJustified ==
    \A r \in Requests : reply[r] = "success" =>
        \/ GrantedByUser(r)
        \/ basis[r] = "cache" /\ \E q \in Requests \ {r} : GrantedByUser(q)

\* A challenge decides one request: once taken it is never current again, and no
\* two requests are granted by one approval (current_challenge.rs:31-45).
ChallengeDecidesOnce ==
    /\ challenge \notin spent
    /\ \A r \in Requests : grant[r] # NoChallenge =>
         /\ grant[r] \in spent
         /\ \A q \in Requests \ {r} : grant[q] # grant[r]

\* The processor never drops a request whose client still waits for its answer:
\* the warning at verification_handler.rs:55-58 is never reached.
NoRequestDropped ==
    \A r \in Requests : task[r] = "selecting" => result[r] # "dropped"

\* A request whose client waits is somewhere: in line, in the processor's hand, or
\* its answer is in the channel of the client. None is lost between the channel, the
\* local queue and the loop, whatever ends it (auth_processor.rs:62-105).
NoRequestLost ==
    \A r \in Requests : task[r] = "selecting" =>
        r \in Waiting \/ r = cur \/ result[r] # "none"

\* A challenge whose cancellation the watch has yet to be told decides nothing, not
\* even a later request that finds it in the slot, and the answer of a watch that
\* heard of neither (auth_processor.rs:139-142, 152-163).
CancelledDecidesNothing ==
    \A i \in 1 .. Len(cancelQueue) : cancelQueue[i] \notin spent

\* A client that is gone before the processor polls again is given up: neither an
\* answer of the watch that is there already nor the timeout ever decides its
\* request (the biased select!, auth_processor.rs:147-175).
GoneClientDecidesNothing ==
    \A r \in Requests :
        [](cur = r /\ pc = "wait" /\ Cancelled(r) => [](basis[r] = "none"))

\* The processor never waits for the watch with an old challenge: what a watch is
\* told while it waits was drawn for the request in hand (auth_processor.rs:139-145).
WaitsOnFreshChallenge ==
    pc \in {"trigger", "wait", "poll"} =>
        /\ started[cur] # NoChallenge
        /\ started[cur] <= challenge

\* A request that was read is answered, unless its client leaves first: no wait
\* of the daemon is forever, if its timer runs (auth_processor.rs:168-173).
RequestsAreAnswered ==
    TimerFairness => \A r \in Requests :
        task[r] = "sending" ~> (reply[r] # "none" \/ (left[r] /\ task[r] = "done"))

\* A client that leaves frees the processor without the timeout: it does not go on
\* waiting for the watch (docs/authentication-ja.md:35).
CancelFreesProcessor ==
    \A r \in Requests :
        (cur = r /\ left[r] /\ pc \in {"wait", "poll"}) ~> cur # r

-----------------------------------------------------------------------------
\* What docs/authentication-ja.md:57 promises, but for the cache of :59: a request
\* that queues behind one of the same identity fails, and asks the user nothing;
\* here with clients that all wait for their answers.
DuplicatesAreRefused ==
    (\A q \in Requests : ~left[q]) =>
        \A r \in late : reply[r] = "success" => basis[r] = "cache"

\* What docs/authentication-ja.md:88 promises: an answer to another challenge than
\* the current one decides nothing.
OnlyCurrentChallengeDecides ==
    \A r \in Requests : basis[r] # "mismatch"

-----------------------------------------------------------------------------
(***************************************************************************)
(* The contract of AuthContract, which this module implements.             *)
(***************************************************************************)
Contract == INSTANCE AuthContract WITH
    begun <- started,
    cached <- {r \in Requests : basis[r] = "cache"}

ImplementsContract == Contract!Spec
=============================================================================
