--------------------------- MODULE WatchApproval ---------------------------
(***************************************************************************)
(* What the watch does with a challenge: the approval part of BleManager.kt *)
(* and the notice and its intents of ForegroundService.kt.                  *)
(*                                                                         *)
(* Three threads share pendingApproval, which nothing guards: the coroutine *)
(* of each challenge (Dispatchers.IO), the main thread, which is given the  *)
(* intents of the notice, and the binder thread, which is given the         *)
(* notifications of the daemon one after the other. An action is what one   *)
(* of them does between two accesses the others can see.                    *)
(*                                                                         *)
(* The notice has one id for all challenges, and its intents name none.     *)
(***************************************************************************)
EXTENDS Naturals, Sequences

CONSTANTS
    MaxTasks,       \* bound: notifications of a challenge the watch is given
    MaxChallenges,  \* bound: challenges the daemon draws
    MaxTaps         \* bound: taps on Approve or Deny

ASSUME ApprovalAssumption ==
    MaxTasks \in Nat /\ MaxChallenges \in Nat /\ MaxTaps \in Nat

VARIABLES
    task,       \* per coroutine: where its handleChallenge is
    challenge,  \* per coroutine: the challenge it was launched for
    result,     \* per coroutine: its CompletableDeferred
    timedOut,   \* the coroutines that stopped waiting for theirs
    pending,    \* pendingApproval: the coroutine it names, or 0
    answered,   \* per coroutine: what it gave to writeResponse
    notice,     \* the notice on the screen: the coroutine that posted it, or 0
    intents,    \* the intents of the notice that wait for onStartCommand
    main,       \* where onStartCommand is
    target,     \* the coroutine its intent is for, or 0
    binder,     \* where onCharacteristicChanged is
    told,       \* the last challenge the daemon notified
    cancels,    \* the cancellations it notified
    taps,       \* history: the taps made, oldest first
    approvedBy, \* history: per coroutine, the tap that approved it, or 0
    rival,      \* history: the coroutines that met another at pendingApproval
    stopped,    \* history: the undecided coroutines whose challenge was cancelled
    early       \* history: the coroutines decided before they had posted the notice

taskVars == <<task, challenge, result, timedOut, answered>>
mainVars == <<intents, main, target, taps, approvedBy>>
binderVars == <<binder, told, cancels, stopped>>
vars == <<taskVars, pending, notice, mainVars, binderVars, rival, early>>

Tasks == 1 .. MaxTasks
Challenges == 1 .. MaxChallenges
Decisions == {"Approved", "Denied"}

TapsTypeOK ==
    /\ taps \in Seq(Decisions) /\ Len(taps) <= MaxTaps
    /\ approvedBy \in [Tasks -> 0 .. Len(taps)]

TypeOK ==
    /\ task \in [Tasks -> {"none", "launched", "posting", "waiting", "clearing", "answering",
                           "done"}]
    /\ challenge \in [Tasks -> 0 .. MaxChallenges]
    /\ result \in [Tasks -> Decisions \cup {"none", "Cancelled"}]
    /\ timedOut \subseteq Tasks
    /\ answered \in [Tasks -> {"nothing", "signature", "deny"}]
    /\ pending \in 0 .. MaxTasks
    /\ pending # 0 => task[pending] \in {"posting", "waiting", "clearing"}
    /\ notice \in 0 .. MaxTasks
    /\ intents \in Seq(Decisions)
    /\ main \in Decisions \cup {"idle", "closing"}
    /\ target \in 0 .. MaxTasks
    /\ binder \in {"idle", "closing"}
    /\ told \in 0 .. MaxChallenges
    /\ cancels \subseteq Challenges
    /\ TapsTypeOK
    /\ rival \subseteq Tasks /\ stopped \subseteq Tasks /\ early \subseteq Tasks

Init ==
    /\ task = [t \in Tasks |-> "none"]
    /\ challenge = [t \in Tasks |-> 0]
    /\ result = [t \in Tasks |-> "none"]
    /\ timedOut = {}
    /\ answered = [t \in Tasks |-> "nothing"]
    /\ pending = 0
    /\ notice = 0
    /\ intents = <<>> /\ main = "idle" /\ target = 0 /\ taps = <<>>
    /\ approvedBy = [t \in Tasks |-> 0]
    /\ binder = "idle" /\ told = 0 /\ cancels = {} /\ stopped = {}
    /\ rival = {}
    /\ early = {}

Move(t, from, to) == task[t] = from /\ task' = [task EXCEPT ![t] = to]

\* Mutant of Complete: the last decision wins.
Complete_Last(t, decision) ==
    /\ result' = IF t # 0 THEN [result EXCEPT ![t] = decision] ELSE result
    /\ early' = IF t # 0 /\ task[t] = "posting" THEN early \cup {t} ELSE early

\* complete() on the CompletableDeferred of a coroutine: the first decision stands.
Complete(t, decision) ==
    IF t # 0 /\ result[t] = "none"
      THEN /\ result' = [result EXCEPT ![t] = decision]
           /\ early' = IF task[t] = "posting" THEN early \cup {t} ELSE early
      ELSE UNCHANGED <<result, early>>

-----------------------------------------------------------------------------
(***************************************************************************)
(* The binder thread: onCharacteristicChanged.                             *)
(***************************************************************************)
\* A challenge: its coroutine is launched. A stored permit of the daemon's can
\* have it notified twice.
ReceiveChallenge ==
    /\ binder = "idle"
    /\ \E t \in Tasks, c \in Challenges :
         /\ \A u \in Tasks : task[u] = "none" <=> u >= t
         /\ c \in {told, told + 1}
         /\ told' = c
         /\ challenge' = [challenge EXCEPT ![t] = c]
         /\ Move(t, "none", "launched")
    /\ UNCHANGED <<result, timedOut, answered, pending, notice, mainVars, binder, cancels,
                   stopped, rival, early>>

\* A cancellation, which can overtake its challenge: it is compared with the
\* pending approval, and forgotten if it is for another.
ReceiveCancel ==
    /\ binder = "idle"
    /\ \E c \in Challenges \ cancels :
         /\ c <= told + 1
         /\ cancels' = cancels \cup {c}
         /\ IF pending # 0 /\ challenge[pending] = c
              THEN /\ Complete(pending, "Cancelled")
                   /\ binder' = "closing"
                   /\ stopped' = stopped \cup {t \in Tasks : /\ challenge[t] = c
                                                             /\ task[t] \notin {"launched", "done"}
                                                             /\ result[t] = "none"}
              ELSE UNCHANGED <<result, early, binder, stopped>>
    /\ UNCHANGED <<task, challenge, timedOut, answered, pending, notice, mainVars, told, rival>>

\* Mutant of CloseOnCancel: no onCancelReceived is given.
CloseOnCancel_Never ==
    /\ binder = "closing"
    /\ binder' = "idle"
    /\ UNCHANGED <<taskVars, pending, notice, mainVars, told, cancels, stopped, rival, early>>

\* onCancelReceived: cancelChallengeNotification().
CloseOnCancel ==
    /\ binder = "closing"
    /\ binder' = "idle"
    /\ notice' = 0
    /\ UNCHANGED <<taskVars, pending, mainVars, told, cancels, stopped, rival, early>>

-----------------------------------------------------------------------------
(***************************************************************************)
(* The coroutines: handleChallenge.                                        *)
(***************************************************************************)
\* The coroutines that another one displaces, or that are about to displace it.
Contending == {u \in Tasks : \/ task[u] \in {"posting", "waiting"} /\ result[u] = "none"
                             \/ task[u] = "clearing"}

\* Coroutines start in any order.
Start(t) ==
    /\ Move(t, "launched", "posting")
    /\ pending' = t
    /\ rival' = IF Contending = {} THEN rival ELSE rival \cup Contending \cup {t}
    /\ UNCHANGED <<challenge, result, timedOut, answered, notice, mainVars, binderVars, early>>

\* onChallengeReceived: showChallengeNotification() replaces the notice.
PostNotice(t) ==
    /\ Move(t, "posting", "waiting")
    /\ notice' = t
    /\ UNCHANGED <<challenge, result, timedOut, answered, pending, mainVars, binderVars, rival,
                   early>>

\* Mutant of Forget: pendingApproval is cleared whomever it names.
Forget_Any(t) ==
    /\ task[t] = "waiting"
    /\ task' = [task EXCEPT ![t] = "clearing"]

\* pendingApproval is looked at, and cleared in a step of its own, if it names this one.
Forget(t) ==
    /\ task[t] = "waiting"
    /\ task' = [task EXCEPT ![t] = IF pending = t THEN "clearing" ELSE "answering"]

\* await() returns.
Resume(t) ==
    /\ result[t] # "none"
    /\ Forget(t)
    /\ UNCHANGED <<challenge, result, timedOut, answered, pending, notice, mainVars, binderVars,
                   rival, early>>

\* Mutant of TimeOut: await() without withTimeoutOrNull.
TimeOut_Never(t) == FALSE /\ Forget(t)

\* The timeout is first, though the result may be there; the notice stays.
TimeOut(t) ==
    /\ Forget(t)
    /\ timedOut' = timedOut \cup {t}
    /\ UNCHANGED <<challenge, result, answered, pending, notice, mainVars, binderVars, rival,
                   early>>

\* Mutant of ClearPending: the field is left as it is.
ClearPending_Skipped(t) ==
    /\ Move(t, "clearing", "answering")
    /\ UNCHANGED <<challenge, result, timedOut, answered, pending, notice, mainVars, binderVars,
                   rival, early>>

ClearPending(t) ==
    /\ Move(t, "clearing", "answering")
    /\ pending' = 0
    /\ UNCHANGED <<challenge, result, timedOut, answered, notice, mainVars, binderVars, rival,
                   early>>

\* Mutant of Answer: a timeout approves.
Answer_TimeoutSigns(t) ==
    /\ Move(t, "answering", "done")
    /\ answered' = [answered EXCEPT ![t] = IF t \in timedOut \/ result[t] = "Approved"
                                            THEN "signature" ELSE "deny"]
    /\ UNCHANGED <<challenge, result, timedOut, pending, notice, mainVars, binderVars, rival,
                   early>>

\* The response is written, unless the key cannot sign.
Answer(t) ==
    /\ Move(t, "answering", "done")
    /\ \/ /\ t \in timedOut \/ result[t] = "Denied"
          /\ answered' = [answered EXCEPT ![t] = "deny"]
       \/ /\ t \notin timedOut /\ result[t] = "Approved"
          /\ \E response \in {"nothing", "signature"} :
               answered' = [answered EXCEPT ![t] = response]
       \/ /\ t \notin timedOut /\ result[t] = "Cancelled"
          /\ UNCHANGED answered
    /\ UNCHANGED <<challenge, result, timedOut, pending, notice, mainVars, binderVars, rival,
                   early>>

Handle(t) ==
    Start(t) \/ PostNotice(t) \/ Resume(t) \/ TimeOut(t) \/ ClearPending(t) \/ Answer(t)

-----------------------------------------------------------------------------
(***************************************************************************)
(* The user, and the main thread.                                          *)
(***************************************************************************)
\* The number of the tap whose intent was handled last, or is.
Handled == Len(taps) - Len(intents)

\* Approve or Deny is tapped: the notice stays until its intent is handled.
Tap ==
    /\ notice # 0
    /\ Len(taps) < MaxTaps
    /\ \E decision \in Decisions :
         intents' = Append(intents, decision) /\ taps' = Append(taps, decision)
    /\ UNCHANGED <<taskVars, pending, notice, main, target, approvedBy, binderVars, rival, early>>

\* The notice is swiped away.
Dismiss ==
    /\ notice # 0
    /\ notice' = 0
    /\ UNCHANGED <<taskVars, pending, mainVars, binderVars, rival, early>>

\* onStartCommand, approvePendingChallenge() or denyPendingChallenge(): whatever is
\* pending now.
HandleIntent ==
    /\ main = "idle"
    /\ intents # <<>>
    /\ main' = Head(intents)
    /\ intents' = Tail(intents)
    /\ target' = pending
    /\ UNCHANGED <<taskVars, pending, notice, taps, approvedBy, binderVars, rival, early>>

DecidePending ==
    /\ main \in Decisions
    /\ Complete(target, main)
    /\ approvedBy' = IF main = "Approved" /\ target # 0 /\ result[target] = "none"
                       THEN [approvedBy EXCEPT ![target] = Handled] ELSE approvedBy
    /\ main' = "closing"
    /\ target' = 0
    /\ UNCHANGED <<task, challenge, timedOut, answered, pending, notice, intents, taps,
                   binderVars, rival>>

\* cancelChallengeNotification()
CloseOnIntent ==
    /\ main = "closing"
    /\ main' = "idle"
    /\ notice' = 0
    /\ UNCHANGED <<taskVars, pending, intents, target, taps, approvedBy, binderVars, rival,
                   early>>

\* The process ends, with its coroutines, and the service is started again. The
\* notice stays, and its intents are given to the new process.
ServiceRestarts ==
    /\ task' = [t \in Tasks |-> IF task[t] = "none" THEN "none" ELSE "done"]
    /\ challenge' = [t \in Tasks |-> 0]
    /\ result' = [t \in Tasks |-> "none"]
    /\ timedOut' = {}
    /\ answered' = [t \in Tasks |-> "nothing"]
    /\ pending' = 0
    /\ main' = "idle" /\ target' = 0
    /\ binder' = "idle"
    /\ rival' = {} /\ stopped' = {} /\ early' = {}
    /\ UNCHANGED <<notice, intents, told, cancels, taps, approvedBy>>

Next ==
    \/ ReceiveChallenge \/ ReceiveCancel \/ CloseOnCancel
    \/ \E t \in Tasks : Handle(t)
    \/ Tap \/ Dismiss
    \/ HandleIntent \/ DecidePending \/ CloseOnIntent
    \/ ServiceRestarts

Spec == Init /\ [][Next]_vars

\* Coroutines run, and their timers with them.
Fairness == \A t \in Tasks : WF_vars(Handle(t))

FairSpec == Spec /\ Fairness

-----------------------------------------------------------------------------
\* A challenge that no other one met is the one a tap or a cancellation finds as
\* long as it waits (BleManager.kt:106-112, 185, 237, 245-247).
ApprovalReachable ==
    \A t \in Tasks \ rival : task[t] = "waiting" /\ result[t] = "none" => pending = t

\* No challenge is signed without an Approve of its own: a tap answers one challenge at
\* most, though its intent outlive the coroutine, or the process, it was made for, and
\* is then given to another (BleManager.kt:106-108, 249-255, ForegroundService.kt:99-102).
SignedByItsOwnTap ==
    /\ \A t \in Tasks : answered[t] = "signature" =>
         approvedBy[t] # 0 /\ taps[approvedBy[t]] = "Approved"
    /\ \A t, u \in Tasks : approvedBy[t] = approvedBy[u] /\ approvedBy[t] # 0 => t = u

\* A challenge cancelled before it was decided is not signed, though its Approve be
\* on the way; unless the challenge was there twice (BleManager.kt:186-188, 241-255).
CancelledIsNotSigned ==
    \A t \in stopped \ rival : answered[t] # "signature"

\* The notice of a challenge that was decided or cancelled is closed, or about to
\* be; unless it was posted after the decision (BleManager.kt:237-239,
\* ForegroundService.kt:99-107).
NoticeOfDecidedCloses ==
    notice # 0 /\ result[notice] # "none" =>
        main # "idle" \/ binder = "closing" \/ notice \in early

\* The challenges the watch was given are answered, cancelled, or forgotten with
\* its process, whatever the user does (BleManager.kt:241-243).
ChallengesEnd == <>[](\A t \in Tasks : task[t] \in {"none", "done"})
=============================================================================
