-------------------------- MODULE AuthProcessorInv --------------------------
(***************************************************************************)
(* The inductive invariant of AuthProcessor: what has to be said of the    *)
(* channels, of the request in hand and of the requests in line for the    *)
(* safety properties of AuthProcessor to survive every step.               *)
(***************************************************************************)
EXTENDS AuthProcessor

\* A Success names a challenge whose approval the watch signed, wherever it is
\* on its way from the write handler to the processor.
Vouched(m) == m.kind = "Success" => m.challenge \in approved

MessagesVouched ==
    /\ \A i \in 1 .. Len(results) : Vouched(results[i])
    /\ \A w \in Writes : Vouched(sending[w])
    /\ Vouched(held)

\* What grants a request: its own approval, or the session of another request.
Justified(r) ==
    \/ GrantedByUser(r)
    \/ basis[r] = "cache" /\ \E q \in Requests \ {r} : GrantedByUser(q)

\* A request that no step of the processor has touched.
Untouched(r) ==
    /\ result[r] = "none"
    /\ basis[r] = "none"
    /\ started[r] = NoChallenge
    /\ grant[r] = NoChallenge

\* Requests are in line once, untouched, and not in hand; the local queue is
\* empty whenever the loop is at its head, so the duplicate check finds nothing.
LineIsFresh ==
    /\ queue = <<>>
    /\ \A r \in Requests :
         task[r] \in {"absent", "reading", "sending"} => Untouched(r) /\ r # cur
    /\ \A i \in 1 .. Len(addQueue) :
         /\ task[addQueue[i]] \in {"selecting", "done"}
         /\ Untouched(addQueue[i])
         /\ addQueue[i] # cur
         /\ \A j \in 1 .. Len(addQueue) : i # j => addQueue[i] # addQueue[j]

\* The request in hand: untouched until its challenge is drawn, undecided until
\* its verdict is reached, cancelled when a cancellation is being sent.
InHand ==
    /\ pc \in {"popped", "session", "ready", "cancelReady", "drain", "refresh"} =>
         Untouched(cur)
    /\ pc \in {"trigger", "wait", "poll", "sendCancel", "judge"} =>
         /\ result[cur] = "none"
         /\ basis[cur] = "none"
         /\ grant[cur] = NoChallenge
    /\ pc \in {"trigger", "wait", "poll", "judge"} =>
         started[cur] # NoChallenge /\ started[cur] <= challenge
    /\ pc = "sendCancel" => Cancelled(cur) /\ held \in CancelNotice
    /\ pc = "judge" <=> held \in AuthResult

\* Challenges are drawn in order, spent once, and every grant is the user's.
GrantsSound ==
    /\ challenge \notin spent
    /\ \A r \in Requests : grant[r] # NoChallenge =>
         /\ basis[r] = "grant"
         /\ GrantedByUser(r)
         /\ grant[r] \in spent
         /\ \A q \in Requests \ {r} : grant[q] # grant[r]
    /\ verifiedAt > 0 => \E r \in Requests : grant[r] # NoChallenge

\* A favourable verdict is justified on its whole way to the client, and a result
\* channel is closed empty only after the handler has returned. A reply is the last step.
VerdictsSound ==
    /\ pc = "answer" /\ verdict => Justified(cur)
    /\ \A r \in Requests :
         /\ result[r] = "true" => Justified(r)
         /\ reply[r] = "success" => Justified(r)
         /\ result[r] = "dropped" => task[r] = "done"
         /\ reply[r] # "none" => task[r] = "done" /\ result[r] # "none"

\* The challenge of a cancellation was taken by nobody, and is older than that of a
\* request that waits for the watch.
CancelsAreOld ==
    /\ pc = "sendCancel" => held.challenge \in (1 .. issued) \ spent
    /\ \A i \in 1 .. Len(cancelQueue) :
         /\ cancelQueue[i] \in (1 .. issued) \ spent
         /\ pc \in {"trigger", "wait", "poll", "judge"} => cancelQueue[i] < started[cur]

\* The inductive invariant.
IInv ==
    /\ TypeOK
    /\ MessagesVouched
    /\ LineIsFresh
    /\ InHand
    /\ GrantsSound
    /\ VerdictsSound
=============================================================================
