----------------------------- MODULE GattNotify -----------------------------
(***************************************************************************)
(* How a challenge and its cancellation reach the watch: the notify        *)
(* handlers of challenge_char.rs and cancel_characteristic.rs, one of each *)
(* per link on which the watch subscribes, the guards that keep the ready  *)
(* flags (notify_ready_guard.rs), and the part of auth_processor.rs that   *)
(* reads the flags, draws the challenge and triggers them.                 *)
(*                                                                         *)
(* A handler does not see its link go: it stays until a notification of    *)
(* its own fails, so that the handlers of two links can be alive at once.  *)
(* They then share one tokio Notify, which holds at most one permit and    *)
(* wakes its waiters in the order they came, and one receiver behind a     *)
(* tokio Mutex, which is handed over in that order.                        *)
(***************************************************************************)
EXTENDS CurrentChallenge, Sequences

CONSTANTS
    MaxLinks,       \* bound: links the watch makes, one after the other
    MaxChallenges,  \* bound: challenges drawn
    CancelCapacity  \* main.rs:101

ASSUME NotifyAssumption ==
    /\ MaxLinks \in Nat
    /\ MaxChallenges \in Nat
    /\ CancelCapacity \in Nat \ {0}

VARIABLES
    link,           \* the number of the latest link
    up,             \* that link is there
    teller,         \* per link: where its handle_challenge_notify is
    telling,        \* per link: the challenge that handler peeked
    notifyReady,    \* notify_ready
    permit,         \* wrist_start_notify: the stored permit
    waiters,        \* wrist_start_notify: the handlers that wait, oldest first
    canceller,      \* per link: where its handle_cancel_notify is
    cancelling,     \* per link: the cancellation that handler received
    cancelReady,    \* cancel_notify_ready
    receivers,      \* cancel_notify_rx: the holder of its mutex, then who waits
    cancelQueue,    \* the cancel_notify channel
    pc,             \* where handle_verification is
    peeked,         \* the challenge whose cancellation it sends
    known,          \* the challenges the watch was told, or has read
    toldLast,       \* history: the last challenge the watch was told
    cancelledLast,  \* history: the last cancellation the watch was told
    triggered,      \* history: the challenge drawn for the last trigger
    overlap         \* history: handlers of two links were alive at once

linkVars == <<link, up>>
tellerVars == <<teller, telling, notifyReady, permit, waiters, known, toldLast>>
cancellerVars == <<canceller, cancelling, cancelReady, receivers, cancelQueue, cancelledLast>>
processorVars == <<pc, peeked, triggered>>
vars == <<challengeVars, linkVars, tellerVars, cancellerVars, processorVars, overlap>>

Links == 1 .. MaxLinks

TypeOK ==
    /\ ChallengeTypeOK
    /\ issued <= MaxChallenges
    /\ link \in 0 .. MaxLinks
    /\ up \in BOOLEAN
    /\ teller \in [Links -> {"none", "looping", "waiting", "woken", "telling", "ending",
                             "ended"}]
    /\ telling \in [Links -> 0 .. issued]
    /\ notifyReady \in BOOLEAN
    /\ permit \in BOOLEAN
    /\ waiters \in Seq(Links)
    /\ canceller \in [Links -> {"none", "looping", "receiving", "telling", "ending", "ended"}]
    /\ cancelling \in [Links -> 0 .. issued]
    /\ cancelReady \in BOOLEAN
    /\ receivers \in Seq(Links)
    /\ cancelQueue \in Seq(1 .. issued)
    /\ pc \in {"idle", "ready", "cancelReady", "refresh", "trigger", "wait", "sendCancel"}
    /\ peeked \in 0 .. issued
    /\ known \subseteq 1 .. issued
    /\ toldLast \in 0 .. issued
    /\ cancelledLast \in 0 .. issued
    /\ triggered \in 0 .. issued
    /\ overlap \in BOOLEAN

Init ==
    /\ ChallengeInit
    /\ link = 0 /\ up = FALSE
    /\ teller = [g \in Links |-> "none"]
    /\ telling = [g \in Links |-> NoChallenge]
    /\ notifyReady = FALSE
    /\ permit = FALSE
    /\ waiters = <<>>
    /\ canceller = [g \in Links |-> "none"]
    /\ cancelling = [g \in Links |-> NoChallenge]
    /\ cancelReady = FALSE
    /\ receivers = <<>>
    /\ cancelQueue = <<>>
    /\ pc = "idle"
    /\ peeked = NoChallenge
    /\ known = {}
    /\ toldLast = NoChallenge
    /\ cancelledLast = NoChallenge
    /\ triggered = NoChallenge
    /\ overlap = FALSE

TellerAlive(g) == teller[g] \notin {"none", "ended"}
CancellerAlive(g) == canceller[g] \notin {"none", "ended"}

\* The stop channel of a notifier is open: notify() reaches the watch.
Reaches(g) == up /\ g = link

-----------------------------------------------------------------------------
(***************************************************************************)
(* The watch. It subscribes to the challenges, then to the cancellations.  *)
(***************************************************************************)
WatchConnects ==
    /\ ~up
    /\ link < MaxLinks
    /\ link' = link + 1
    /\ up' = TRUE
    /\ UNCHANGED <<challengeVars, tellerVars, cancellerVars, processorVars, overlap>>

WatchLeaves ==
    /\ up
    /\ up' = FALSE
    /\ UNCHANGED <<challengeVars, link, tellerVars, cancellerVars, processorVars, overlap>>

\* A handler starts, and NotifyReadyGuard::new() sets the flag.
SubscribeChallenge ==
    /\ up
    /\ teller[link] = "none"
    /\ teller' = [teller EXCEPT ![link] = "looping"]
    /\ notifyReady' = TRUE
    /\ overlap' = (overlap \/ \E g \in Links : TellerAlive(g))
    /\ UNCHANGED <<challengeVars, linkVars, telling, permit, waiters, known, toldLast,
                   cancellerVars, processorVars>>

\* Mutant of SubscribeCancel: main.rs gives both guards the same flag.
SubscribeCancel_OneFlag ==
    /\ up
    /\ teller[link] # "none" /\ canceller[link] = "none"
    /\ canceller' = [canceller EXCEPT ![link] = "looping"]
    /\ notifyReady' = TRUE
    /\ overlap' = (overlap \/ \E g \in Links : CancellerAlive(g))
    /\ UNCHANGED <<challengeVars, linkVars, teller, telling, permit, waiters, known, toldLast,
                   cancelReady, cancelling, receivers, cancelQueue, cancelledLast,
                   processorVars>>

SubscribeCancel ==
    /\ up
    /\ teller[link] # "none" /\ canceller[link] = "none"
    /\ canceller' = [canceller EXCEPT ![link] = "looping"]
    /\ cancelReady' = TRUE
    /\ overlap' = (overlap \/ \E g \in Links : CancellerAlive(g))
    /\ UNCHANGED <<challengeVars, linkVars, tellerVars, cancelling, receivers, cancelQueue,
                   cancelledLast, processorVars>>

\* handle_challenge_read: every read draws a new challenge.
ReadChallenge ==
    /\ up
    /\ issued < MaxChallenges
    /\ Refresh
    /\ known' = known \cup {issued + 1}
    /\ UNCHANGED <<linkVars, teller, telling, notifyReady, permit, waiters, toldLast,
                   cancellerVars, processorVars, overlap>>

-----------------------------------------------------------------------------
(***************************************************************************)
(* handle_challenge_notify                                                 *)
(***************************************************************************)
TellerElsewhere ==
    UNCHANGED <<challengeVars, linkVars, cancellerVars, processorVars, overlap>>

\* The first poll of notified(): it takes the permit, or queues.
AwaitStart(g) ==
    /\ teller[g] = "looping"
    /\ permit' = FALSE
    /\ IF permit
         THEN teller' = [teller EXCEPT ![g] = "woken"] /\ UNCHANGED waiters
         ELSE /\ teller' = [teller EXCEPT ![g] = "waiting"]
              /\ waiters' = Append(waiters, g)
    /\ UNCHANGED <<telling, notifyReady, known, toldLast>>
    /\ TellerElsewhere

\* Mutant of PeekChallenge: the peek is hoisted out of the loop.
PeekChallenge_Once(g) ==
    /\ teller[g] = "woken"
    /\ teller' = [teller EXCEPT ![g] = IF CanPeek THEN "telling" ELSE "ending"]
    /\ telling' = [telling EXCEPT ![g] = IF telling[g] = NoChallenge THEN challenge ELSE telling[g]]
    /\ UNCHANGED <<notifyReady, permit, waiters, known, toldLast>>
    /\ TellerElsewhere

\* peek(): the handler returns when the slot is empty.
PeekChallenge(g) ==
    /\ teller[g] = "woken"
    /\ teller' = [teller EXCEPT ![g] = IF CanPeek THEN "telling" ELSE "ending"]
    /\ telling' = [telling EXCEPT ![g] = challenge]
    /\ UNCHANGED <<notifyReady, permit, waiters, known, toldLast>>
    /\ TellerElsewhere

\* Mutant of TellChallenge: the link that is there is told, whoever tells.
TellChallenge_AnyLink(g) ==
    /\ teller[g] = "telling"
    /\ IF up
         THEN /\ teller' = [teller EXCEPT ![g] = "looping"]
              /\ toldLast' = telling[g]
              /\ known' = known \cup {telling[g]}
         ELSE /\ teller' = [teller EXCEPT ![g] = "ending"]
              /\ UNCHANGED <<known, toldLast>>
    /\ UNCHANGED <<telling, notifyReady, permit, waiters>>
    /\ TellerElsewhere

\* notify(), and the break on its error.
TellChallenge(g) ==
    /\ teller[g] = "telling"
    /\ IF Reaches(g)
         THEN /\ teller' = [teller EXCEPT ![g] = "looping"]
              /\ toldLast' = telling[g]
              /\ known' = known \cup {telling[g]}
         ELSE /\ teller' = [teller EXCEPT ![g] = "ending"]
              /\ UNCHANGED <<known, toldLast>>
    /\ UNCHANGED <<telling, notifyReady, permit, waiters>>
    /\ TellerElsewhere

\* Mutant of DropTeller: the guard's drop leaves the flag alone.
DropTeller_KeepsFlag(g) ==
    /\ teller[g] = "ending"
    /\ teller' = [teller EXCEPT ![g] = "ended"]
    /\ UNCHANGED <<telling, notifyReady, permit, waiters, known, toldLast>>
    /\ TellerElsewhere

\* The guard is dropped: it clears the flag, whichever handler set it last.
DropTeller(g) ==
    /\ teller[g] = "ending"
    /\ teller' = [teller EXCEPT ![g] = "ended"]
    /\ notifyReady' = FALSE
    /\ UNCHANGED <<telling, permit, waiters, known, toldLast>>
    /\ TellerElsewhere

TellerStep(g) == AwaitStart(g) \/ PeekChallenge(g) \/ TellChallenge(g) \/ DropTeller(g)

-----------------------------------------------------------------------------
(***************************************************************************)
(* handle_cancel_notify                                                    *)
(***************************************************************************)
CancellerElsewhere ==
    UNCHANGED <<challengeVars, linkVars, tellerVars, processorVars, overlap>>

\* lock() of the receiver: the handler queues behind those that came before.
LockReceiver(g) ==
    /\ canceller[g] = "looping"
    /\ canceller' = [canceller EXCEPT ![g] = "receiving"]
    /\ receivers' = Append(receivers, g)
    /\ UNCHANGED <<cancelling, cancelReady, cancelQueue, cancelledLast>>
    /\ CancellerElsewhere

\* Mutant of ReceiveCancel: a handler whose link is gone takes nothing.
ReceiveCancel_LiveOnly(g) ==
    /\ canceller[g] = "receiving"
    /\ receivers # <<>> /\ g = Head(receivers)
    /\ Reaches(g)
    /\ cancelQueue # <<>>
    /\ canceller' = [canceller EXCEPT ![g] = "telling"]
    /\ cancelling' = [cancelling EXCEPT ![g] = Head(cancelQueue)]
    /\ cancelQueue' = Tail(cancelQueue)
    /\ receivers' = Tail(receivers)
    /\ UNCHANGED <<cancelReady, cancelledLast>>
    /\ CancellerElsewhere

\* recv() by the holder of the mutex, which it then releases.
ReceiveCancel(g) ==
    /\ canceller[g] = "receiving"
    /\ receivers # <<>> /\ g = Head(receivers)
    /\ cancelQueue # <<>>
    /\ canceller' = [canceller EXCEPT ![g] = "telling"]
    /\ cancelling' = [cancelling EXCEPT ![g] = Head(cancelQueue)]
    /\ cancelQueue' = Tail(cancelQueue)
    /\ receivers' = Tail(receivers)
    /\ UNCHANGED <<cancelReady, cancelledLast>>
    /\ CancellerElsewhere

\* notify(), and the break on its error.
TellCancel(g) ==
    /\ canceller[g] = "telling"
    /\ IF Reaches(g)
         THEN /\ canceller' = [canceller EXCEPT ![g] = "looping"]
              /\ cancelledLast' = cancelling[g]
         ELSE /\ canceller' = [canceller EXCEPT ![g] = "ending"]
              /\ UNCHANGED cancelledLast
    /\ UNCHANGED <<cancelling, cancelReady, receivers, cancelQueue>>
    /\ CancellerElsewhere

DropCanceller(g) ==
    /\ canceller[g] = "ending"
    /\ canceller' = [canceller EXCEPT ![g] = "ended"]
    /\ cancelReady' = FALSE
    /\ UNCHANGED <<cancelling, receivers, cancelQueue, cancelledLast>>
    /\ CancellerElsewhere

CancellerStep(g) ==
    LockReceiver(g) \/ ReceiveCancel(g) \/ TellCancel(g) \/ DropCanceller(g)

-----------------------------------------------------------------------------
(***************************************************************************)
(* handle_verification, from the flags to the end of the wait.             *)
(***************************************************************************)
ProcessorElsewhere == UNCHANGED <<linkVars, overlap>>

\* A request that no session answers.
Begin ==
    /\ pc = "idle"
    /\ issued < MaxChallenges
    /\ pc' = "ready"
    /\ UNCHANGED <<challengeVars, tellerVars, cancellerVars, peeked, triggered>>
    /\ ProcessorElsewhere

\* The two loads of the flags: the request fails unless both are set.
CheckReady ==
    /\ \/ /\ pc = "ready"
          /\ pc' = IF notifyReady THEN "cancelReady" ELSE "idle"
       \/ /\ pc = "cancelReady"
          /\ pc' = IF cancelReady THEN "refresh" ELSE "idle"
    /\ UNCHANGED <<challengeVars, tellerVars, cancellerVars, peeked, triggered>>
    /\ ProcessorElsewhere

DrawChallenge ==
    /\ pc = "refresh"
    /\ issued < MaxChallenges
    /\ pc' = "trigger"
    /\ Refresh
    /\ triggered' = issued + 1
    /\ UNCHANGED <<tellerVars, cancellerVars, peeked>>
    /\ ProcessorElsewhere

\* Mutant of NotifyOne: notify_waiters(), which stores no permit.
NotifyOne_NoPermit ==
    IF waiters = <<>>
      THEN UNCHANGED <<permit, waiters, teller>>
      ELSE /\ teller' = [teller EXCEPT ![Head(waiters)] = "woken"]
           /\ waiters' = Tail(waiters)
           /\ UNCHANGED permit

\* notify_one(): the oldest waiter is woken, or a permit stored.
NotifyOne ==
    IF waiters = <<>>
      THEN permit' = TRUE /\ UNCHANGED <<waiters, teller>>
      ELSE /\ teller' = [teller EXCEPT ![Head(waiters)] = "woken"]
           /\ waiters' = Tail(waiters)
           /\ UNCHANGED permit

Trigger ==
    /\ pc = "trigger"
    /\ pc' = "wait"
    /\ NotifyOne
    /\ UNCHANGED <<challengeVars, telling, notifyReady, known, toldLast, cancellerVars,
                   peeked, triggered>>
    /\ ProcessorElsewhere

\* A result for a challenge the watch knows, or the timeout, ends the wait.
WaitEnds ==
    /\ pc = "wait"
    /\ pc' = "idle"
    /\ \/ UNCHANGED challengeVars
       \/ \E c \in known : TakeIfMatches(c)
    /\ UNCHANGED <<tellerVars, cancellerVars, peeked, triggered>>
    /\ ProcessorElsewhere

\* Mutant of WaitCancelled: the cancellation is of the challenge last told, if any.
WaitCancelled_LastTold ==
    /\ pc = "wait"
    /\ pc' = IF toldLast # NoChallenge THEN "sendCancel" ELSE "idle"
    /\ peeked' = IF toldLast # NoChallenge THEN toldLast ELSE peeked
    /\ UNCHANGED <<challengeVars, tellerVars, cancellerVars, triggered>>
    /\ ProcessorElsewhere

\* The client leaves: the cancellation is of the challenge of that moment.
WaitCancelled ==
    /\ pc = "wait"
    /\ pc' = IF CanPeek THEN "sendCancel" ELSE "idle"
    /\ peeked' = IF CanPeek THEN challenge ELSE peeked
    /\ UNCHANGED <<challengeVars, tellerVars, cancellerVars, triggered>>
    /\ ProcessorElsewhere

\* cancel_notify_tx.send(..).await, which waits for a free slot.
SendCancel ==
    /\ pc = "sendCancel"
    /\ Len(cancelQueue) < CancelCapacity
    /\ pc' = "idle"
    /\ cancelQueue' = Append(cancelQueue, peeked)
    /\ UNCHANGED <<challengeVars, tellerVars, canceller, cancelling, cancelReady, receivers,
                   cancelledLast, peeked, triggered>>
    /\ ProcessorElsewhere

ProcessorStep ==
    \/ Begin \/ CheckReady \/ DrawChallenge \/ Trigger \/ WaitEnds \/ WaitCancelled
    \/ SendCancel

Next ==
    \/ WatchConnects \/ WatchLeaves \/ SubscribeChallenge \/ SubscribeCancel \/ ReadChallenge
    \/ \E g \in Links : TellerStep(g) \/ CancellerStep(g)
    \/ ProcessorStep

Spec == Init /\ [][Next]_vars

\* The executor runs every handler that can go on, and the processor up to its
\* wait and once its send has a slot. Nothing is assumed of the watch or of the
\* requests.
Fairness ==
    /\ \A g \in Links : WF_vars(TellerStep(g)) /\ WF_vars(CancellerStep(g))
    /\ WF_vars(Trigger) /\ WF_vars(SendCancel)

FairSpec == Spec /\ Fairness

-----------------------------------------------------------------------------
\* A flag that is set has a handler behind it, that of the latest subscription: no
\* request waits 30 s on a handler that has ended, and whose guard would have to
\* have been dropped (notify_ready_guard.rs:17-21).
ReadyHasHandler ==
    /\ notifyReady => \E g \in Links :
         TellerAlive(g) /\ \A h \in Links : h > g => teller[h] = "none"
    /\ cancelReady => \E g \in Links :
         CancellerAlive(g) /\ \A h \in Links : h > g => canceller[h] = "none"

\* Only the handlers of two links make a flag wrong: while at most one is alive at a
\* time, the flag is set exactly when there is one.
FlagExactWithoutOverlap ==
    ~overlap => /\ notifyReady <=> \E g \in Links : TellerAlive(g)
                /\ cancelReady <=> \E g \in Links : CancellerAlive(g)

\* A trigger is never lost, whatever links come and go and reads replace the challenge:
\* while the request waits, the watch was told its challenge or a newer one, or a
\* handler is woken and will peek, or tells it, or has failed to; or the permit is kept
\* for the next handler and none sleeps on it (auth_processor.rs:145,
\* challenge_char.rs:76-86).
NoTriggerLost ==
    pc = "wait" =>
        \/ toldLast >= triggered
        \/ \E g \in Links : teller[g] = "woken"
        \/ \E g \in Links : teller[g] \in {"telling", "ending", "ended"} /\ telling[g] >= triggered
        \/ permit /\ \A g \in Links : teller[g] # "waiting"

\* The watch is never told an older challenge after a newer one, on whatever links
\* and by whatever handlers: the last it was told is the newest it can answer
\* (challenge_char.rs:77-86).
ToldInOrder == [][toldLast' >= toldLast]_vars

\* A cancellation reaches the watch at most once, and in the order of the requests
\* that were cancelled, however many handlers share the receiver
\* (cancel_characteristic.rs:45-57).
CancelsInOrder ==
    [][\A g \in Links :
         canceller[g] = "telling" /\ canceller'[g] = "looping" => cancelling[g] > cancelledLast]_vars

\* A trigger is not lost between two polls of its handler: if that of the link that
\* is there is the only one, the watch is told the challenge it is waited for with
\* (auth_processor.rs:145, challenge_char.rs:76).
TriggerReachesWatch ==
    \A c \in 1 .. MaxChallenges :
        (/\ pc = "trigger" /\ triggered = c
         /\ up /\ teller[link] \in {"looping", "waiting", "woken", "telling"}
         /\ \A g \in Links \ {link} : ~TellerAlive(g))
            ~> (toldLast >= c \/ pc \notin {"trigger", "wait"} \/ ~up)

\* The processor is not held in the send of a cancellation while a handler of the
\* cancellations is alive, be it one whose link is gone and which holds the
\* receiver (auth_processor.rs:161, cancel_characteristic.rs:45-54).
SendCancelReturns ==
    pc = "sendCancel" ~> (pc # "sendCancel" \/ \A g \in Links : ~CancellerAlive(g))

-----------------------------------------------------------------------------
\* The flag stands for the subscription ("Notify not ready", auth_processor.rs:133):
\* while the watch is there and its handler waits to tell it the next challenge,
\* requests are passed to it (docs/authentication-ja.md:86).
SubscribedIsReady == up /\ link > 0 /\ teller[link] = "waiting" => notifyReady
=============================================================================
