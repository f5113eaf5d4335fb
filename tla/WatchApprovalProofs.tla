------------------------- MODULE WatchApprovalProofs -------------------------
(***************************************************************************)
(* For any number of challenges, coroutines and taps: what a tap or a      *)
(* cancellation finds pending, what is never signed, and which notices     *)
(* are closed.                                                             *)
(***************************************************************************)
EXTENDS WatchApproval, TLAPS

USE ApprovalAssumption
USE DEF Tasks, Challenges, Decisions

\* What is known of a coroutine by the place it has reached.
StagesSound ==
    \A t \in Tasks :
        /\ task[t] = "none" => challenge[t] = 0
        /\ task[t] \in {"none", "launched"} => result[t] = "none"
        /\ task[t] = "posting" /\ result[t] # "none" => t \in early
        /\ task[t] \in {"clearing", "answering"} /\ result[t] = "none" => t \in timedOut
        /\ task[t] # "done" => answered[t] = "nothing"

\* An intent is for a coroutine that has started.
TargetSound == target # 0 => task[target] \notin {"none", "launched"}

\* A coroutine that waits, or will, is pending; one that is about to clear the field
\* has not been displaced; unless they met another one.
PendingSound ==
    /\ \A t \in Tasks \ rival :
         task[t] \in {"posting", "waiting"} /\ result[t] = "none" => pending = t
    /\ \A t \in Tasks : task[t] = "clearing" => pending \in {0, t} \cup rival

\* A coroutine whose challenge was cancelled has its cancellation, or denies.
StoppedSound ==
    \A t \in stopped \ rival :
        answered[t] # "signature" /\ (result[t] = "Cancelled" \/ t \in timedOut)

\* The intents that wait are those of the taps made last, in their order, and the one
\* in hand is that of the tap before them.
IntentsSound ==
    /\ Handled \in Nat
    /\ main \in Decisions => Handled # 0 /\ taps[Handled] = main
    /\ \A i \in 1 .. Len(intents) : intents[i] = taps[Handled + i]

\* A coroutine was approved by a tap on Approve that was handled, and by which no other
\* one was; the tap in hand has approved none.
ApprovedSound ==
    \A t \in Tasks : approvedBy[t] # 0 =>
        /\ approvedBy[t] \in 1 .. Handled /\ taps[approvedBy[t]] = "Approved"
        /\ main \in Decisions => approvedBy[t] # Handled
        /\ \A u \in Tasks : approvedBy[t] = approvedBy[u] => t = u

\* What is approved, and what is signed, was approved by a tap.
SignedSound ==
    \A t \in Tasks : result[t] = "Approved" \/ answered[t] = "signature" => approvedBy[t] # 0

ApprovalInv ==
    /\ TypeOK /\ StagesSound /\ TargetSound /\ PendingSound /\ StoppedSound
    /\ NoticeOfDecidedCloses

TapsInv == IntentsSound /\ ApprovedSound /\ SignedSound

WatchInv == ApprovalInv /\ TapsInv

LEMMA ApprovalInvInit == Init => ApprovalInv
<1> SUFFICES ASSUME Init PROVE ApprovalInv
  OBVIOUS
<1>1. TypeOK
  <2>1. TapsTypeOK
    BY DEF Init, TapsTypeOK
  <2> QED BY <2>1 DEF Init, TypeOK
<1>2. StagesSound /\ TargetSound
  BY DEF Init, StagesSound, TargetSound
<1>3. PendingSound /\ StoppedSound /\ NoticeOfDecidedCloses
  BY DEF Init, PendingSound, StoppedSound, NoticeOfDecidedCloses
<1> QED BY <1>1, <1>2, <1>3 DEF ApprovalInv

\* What the user did is nothing to the coroutines and the binder.
LEMMA TapsStay ==
    ASSUME TapsTypeOK, UNCHANGED <<taps, approvedBy>>
    PROVE  TapsTypeOK'
  BY DEF TapsTypeOK

-----------------------------------------------------------------------------
(***************************************************************************)
(* The binder thread.                                                      *)
(***************************************************************************)
\* What a decision does to the results.
LEMMA CompleteDecides ==
    ASSUME TypeOK, NEW t \in 0 .. MaxTasks, NEW decision \in Decisions \cup {"Cancelled"},
           Complete(t, decision)
    PROVE  /\ result' \in [Tasks -> Decisions \cup {"none", "Cancelled"}] /\ early' \subseteq Tasks
           /\ \A u \in Tasks : u # t => result'[u] = result[u]
           /\ \A u \in Tasks : result[u] # "none" => result'[u] = result[u]
           /\ t # 0 => result'[t] # "none" /\ (result[t] = "none" => result'[t] = decision)
           /\ early \subseteq early'
           /\ t # 0 /\ task[t] = "posting" /\ result[t] = "none" => t \in early'
<1>1. CASE t # 0 /\ result[t] = "none"
  <2>1. /\ result' = [result EXCEPT ![t] = decision] /\ t \in Tasks
        /\ result \in [Tasks -> Decisions \cup {"none", "Cancelled"}]
        /\ early' = IF task[t] = "posting" THEN early \cup {t} ELSE early
        /\ early \subseteq Tasks
    BY <1>1 DEF Complete, TypeOK
  <2>2. /\ result' \in [Tasks -> Decisions \cup {"none", "Cancelled"}]
        /\ result'[t] = decision /\ \A u \in Tasks : u # t => result'[u] = result[u]
    BY <2>1
  <2>3. early' \subseteq Tasks /\ early \subseteq early'
        /\ (task[t] = "posting" => t \in early')
    BY <2>1
  <2> QED BY <1>1, <2>2, <2>3
<1>2. CASE ~(t # 0 /\ result[t] = "none")
  BY <1>2 DEF Complete, TypeOK
<1> QED BY <1>1, <1>2

LEMMA ChallengeReceived ==
    ASSUME ApprovalInv, ReceiveChallenge
    PROVE  ApprovalInv'
<1> USE DEF ApprovalInv, mainVars
<1>1. PICK t \in Tasks, c \in Challenges :
        /\ told' = c /\ challenge' = [challenge EXCEPT ![t] = c] /\ Move(t, "none", "launched")
  BY DEF ReceiveChallenge
<1>2. TypeOK'
  <2>1. TapsTypeOK'
    BY TapsStay DEF ReceiveChallenge, TypeOK
  <2> QED BY <1>1, <2>1 DEF ReceiveChallenge, TypeOK, Move
<1>3. \A u \in Tasks : u # t => task'[u] = task[u] /\ challenge'[u] = challenge[u]
  BY <1>1 DEF TypeOK, Move
<1>4. task'[t] = "launched" /\ challenge'[t] = c /\ task[t] = "none"
  BY <1>1 DEF TypeOK, Move
<1>5. StagesSound'
  BY <1>3, <1>4 DEF ReceiveChallenge, StagesSound
<1>6. TargetSound'
  BY <1>3, <1>4 DEF ReceiveChallenge, TargetSound, TypeOK
<1>7. PendingSound'
  BY <1>3, <1>4 DEF ReceiveChallenge, PendingSound
<1>8. StoppedSound' /\ NoticeOfDecidedCloses'
  BY DEF ReceiveChallenge, StoppedSound, NoticeOfDecidedCloses
<1> QED BY <1>2, <1>5, <1>6, <1>7, <1>8

LEMMA CancelReceived ==
    ASSUME ApprovalInv, ReceiveCancel
    PROVE  ApprovalInv'
<1> USE DEF ApprovalInv, mainVars
<1>1. PICK c \in Challenges :
        /\ cancels' = cancels \cup {c}
        /\ IF pending # 0 /\ challenge[pending] = c
             THEN /\ Complete(pending, "Cancelled")
                  /\ binder' = "closing"
                  /\ stopped' = stopped \cup {t \in Tasks : /\ challenge[t] = c
                                                            /\ task[t] \notin {"launched", "done"}
                                                            /\ result[t] = "none"}
             ELSE UNCHANGED <<result, early, binder, stopped>>
  BY DEF ReceiveCancel
<1>2. UNCHANGED <<task, challenge, timedOut, answered, pending, notice, intents, main, target,
                  taps, approvedBy, told, rival>>
  BY DEF ReceiveCancel
<1>3. CASE pending # 0 /\ challenge[pending] = c
  <2>1. pending \in Tasks /\ task[pending] \in {"posting", "waiting", "clearing"}
    BY <1>3 DEF TypeOK
  <2>2. /\ result' \in [Tasks -> Decisions \cup {"none", "Cancelled"}] /\ early' \subseteq Tasks
        /\ \A u \in Tasks : u # pending => result'[u] = result[u]
        /\ \A u \in Tasks : result[u] # "none" => result'[u] = result[u]
        /\ result'[pending] # "none" /\ (result[pending] = "none" => result'[pending] = "Cancelled")
        /\ early \subseteq early'
        /\ task[pending] = "posting" /\ result[pending] = "none" => pending \in early'
    BY <1>1, <1>3, <2>1, CompleteDecides
  <2>3. TypeOK'
    BY <1>1, <1>2, <1>3, <2>2, TapsStay DEF TypeOK
  <2>4. StagesSound' /\ TargetSound'
    BY <1>2, <2>1, <2>2 DEF StagesSound, TargetSound
  <2>5. PendingSound'
    BY <1>2, <2>2 DEF PendingSound
  <2>6. StoppedSound'
    <3>1. ASSUME NEW t \in stopped', t \notin rival, t \notin stopped
          PROVE  answered[t] # "signature" /\ (result'[t] = "Cancelled" \/ t \in timedOut)
      <4>1. t \in Tasks /\ challenge[t] = c /\ task[t] \notin {"launched", "done"}
            /\ result[t] = "none"
        BY <1>1, <1>3, <3>1
      <4>2. task[t] \in {"posting", "waiting", "clearing", "answering"}
        BY <4>1 DEF TypeOK, StagesSound
      <4>3. answered[t] = "nothing"
        BY <4>1, <4>2 DEF StagesSound
      <4>4. CASE t = pending
        BY <2>2, <4>1, <4>3, <4>4
      <4>5. CASE t # pending
        BY <3>1, <4>1, <4>2, <4>3, <4>5 DEF StagesSound, PendingSound
      <4> QED BY <4>4, <4>5
    <3>2. ASSUME NEW t \in stopped \ rival
          PROVE  answered[t] # "signature" /\ (result'[t] = "Cancelled" \/ t \in timedOut)
      BY <2>2 DEF StoppedSound, TypeOK
    <3> QED BY <1>2, <3>1, <3>2 DEF StoppedSound
  <2>7. NoticeOfDecidedCloses'
    BY <1>1, <1>3 DEF NoticeOfDecidedCloses
  <2> QED BY <2>3, <2>4, <2>5, <2>6, <2>7
<1>4. CASE ~(pending # 0 /\ challenge[pending] = c)
  <2>1. UNCHANGED <<result, early, binder, stopped>>
    BY <1>1, <1>4
  <2>2. TypeOK'
    BY <1>1, <1>2, <2>1, TapsStay DEF TypeOK
  <2> QED BY <1>2, <2>1, <2>2
          DEF StagesSound, TargetSound, PendingSound, StoppedSound, NoticeOfDecidedCloses
<1> QED BY <1>3, <1>4
LEMMA CancelCloses ==
    ASSUME ApprovalInv, CloseOnCancel
    PROVE  ApprovalInv'
BY TapsStay DEF ApprovalInv, CloseOnCancel, taskVars, mainVars, TypeOK, StagesSound, TargetSound,
       PendingSound, StoppedSound, NoticeOfDecidedCloses

-----------------------------------------------------------------------------
(***************************************************************************)
(* The coroutines.                                                         *)
(***************************************************************************)
\* A coroutine moves on; the others stay where they are.
LEMMA MoveOn ==
    ASSUME TypeOK, NEW t \in Tasks, NEW from, NEW to, Move(t, from, to)
    PROVE  /\ task[t] = from /\ task'[t] = to
           /\ \A u \in Tasks : u # t => task'[u] = task[u]
  BY DEF Move, TypeOK

\* A coroutine that had started still has.
LEMMA TargetStays ==
    ASSUME TypeOK, TargetSound, target' = target,
           \A u \in Tasks : task[u] \notin {"none", "launched"} =>
                            task'[u] \notin {"none", "launched"}
    PROVE  TargetSound'
  BY DEF TargetSound, TypeOK

LEMMA TaskStarts ==
    ASSUME ApprovalInv, NEW t \in Tasks, Start(t)
    PROVE  ApprovalInv'
<1> USE DEF ApprovalInv, mainVars, binderVars
<1>1. /\ task[t] = "launched" /\ task'[t] = "posting"
      /\ \A u \in Tasks : u # t => task'[u] = task[u]
  BY MoveOn DEF Start
<1>2. /\ pending' = t
      /\ UNCHANGED <<challenge, result, timedOut, answered, notice, intents, main, target, taps,
                     approvedBy, binder, told, cancels, stopped, early>>
  BY DEF Start
<1>3. rival \subseteq rival' /\ rival' \subseteq Tasks
  BY DEF Start, TypeOK, Contending
<1>4. TypeOK'
  <2>1. task' \in [Tasks -> {"none", "launched", "posting", "waiting", "clearing", "answering",
                             "done"}]
    BY DEF Start, Move, TypeOK
  <2>3. TapsTypeOK'
    BY <1>2, TapsStay DEF TypeOK
  <2> QED BY <1>1, <1>2, <1>3, <2>1, <2>3 DEF TypeOK
<1>5. StagesSound' /\ TargetSound' /\ NoticeOfDecidedCloses'
  <2>1. StagesSound' /\ NoticeOfDecidedCloses'
    BY <1>1, <1>2 DEF StagesSound, NoticeOfDecidedCloses
  <2> QED BY <1>1, <1>2, <2>1, TargetStays
<1>6. StoppedSound'
  BY <1>2, <1>3 DEF StoppedSound
<1>7. PendingSound'
  <2>1. ASSUME NEW u \in Tasks, u \notin rival', task'[u] \in {"posting", "waiting"},
               result'[u] = "none", u # t
        PROVE  FALSE
    <3>1. u \in Contending
      BY <1>1, <1>2, <2>1 DEF Contending
    <3> QED BY <2>1, <3>1 DEF Start
  <2>2. ASSUME NEW u \in Tasks, task'[u] = "clearing" PROVE t \in rival'
    <3>1. u \in Contending
      BY <1>1, <2>2 DEF Contending
    <3> QED BY <3>1 DEF Start
  <2> QED BY <1>2, <2>1, <2>2 DEF PendingSound
<1> QED BY <1>4, <1>5, <1>6, <1>7

LEMMA TaskPosts ==
    ASSUME ApprovalInv, NEW t \in Tasks, PostNotice(t)
    PROVE  ApprovalInv'
<1> USE DEF ApprovalInv, mainVars, binderVars
<1>1. /\ task[t] = "posting" /\ task'[t] = "waiting"
      /\ \A u \in Tasks : u # t => task'[u] = task[u]
  BY MoveOn DEF PostNotice
<1>2. /\ notice' = t
      /\ UNCHANGED <<challenge, result, timedOut, answered, pending, intents, main, target, taps,
                     approvedBy, binder, told, cancels, stopped, rival, early>>
  BY DEF PostNotice
<1>3. TypeOK'
  <2>1. task' \in [Tasks -> {"none", "launched", "posting", "waiting", "clearing", "answering",
                             "done"}]
    BY DEF PostNotice, Move, TypeOK
  <2>3. TapsTypeOK'
    BY <1>2, TapsStay DEF TypeOK
  <2> QED BY <1>1, <1>2, <2>1, <2>3 DEF TypeOK
<1>4. StagesSound' /\ TargetSound' /\ PendingSound' /\ StoppedSound'
  <2>1. StagesSound' /\ PendingSound' /\ StoppedSound'
    BY <1>1, <1>2 DEF StagesSound, PendingSound, StoppedSound
  <2> QED BY <1>1, <1>2, <2>1, TargetStays
<1>5. NoticeOfDecidedCloses'
  BY <1>1, <1>2 DEF StagesSound, NoticeOfDecidedCloses
<1> QED BY <1>3, <1>4, <1>5

\* await() returns, or its time is up: who is decided or timed out forgets.
LEMMA TaskForgets ==
    ASSUME ApprovalInv, NEW t \in Tasks, Resume(t) \/ TimeOut(t)
    PROVE  ApprovalInv'
<1> USE DEF ApprovalInv, mainVars, binderVars
<1>1. /\ task[t] = "waiting" /\ task'[t] = (IF pending = t THEN "clearing" ELSE "answering")
      /\ \A u \in Tasks : u # t => task'[u] = task[u]
      /\ task' \in [Tasks -> {"none", "launched", "posting", "waiting", "clearing", "answering",
                              "done"}]
  BY DEF Resume, TimeOut, Forget, TypeOK
<1>2. UNCHANGED <<challenge, result, answered, pending, notice, intents, main, target, taps,
                  approvedBy, binder, told, cancels, stopped, rival, early>>
  BY DEF Resume, TimeOut
<1>3. /\ timedOut \subseteq timedOut' /\ timedOut' \subseteq Tasks
      /\ result[t] # "none" \/ t \in timedOut'
  BY DEF Resume, TimeOut, TypeOK
<1>4. TypeOK'
  <2>1. TapsTypeOK'
    BY <1>2, TapsStay DEF TypeOK
  <2>2. pending' # 0 => task'[pending'] \in {"posting", "waiting", "clearing"}
    <3>1. pending' = pending /\ pending \in 0 .. MaxTasks
          /\ (pending # 0 => task[pending] \in {"posting", "waiting", "clearing"})
      BY <1>2 DEF TypeOK
    <3>2. CASE pending = t
      BY <1>1, <3>1, <3>2
    <3>3. CASE pending # t
      BY <1>1, <3>1, <3>3
    <3> QED BY <3>2, <3>3
  <2>3. timedOut' \subseteq Tasks
    BY <1>3
  <2> QED BY <1>1, <1>2, <2>1, <2>2, <2>3 DEF TypeOK
<1>5. StagesSound'
  BY <1>1, <1>2, <1>3 DEF StagesSound
<1>6. TargetSound' /\ PendingSound'
  <2>1. PendingSound'
    BY <1>1, <1>2 DEF PendingSound
  <2> QED BY <1>1, <1>2, <2>1, TargetStays
<1>7. StoppedSound' /\ NoticeOfDecidedCloses'
  BY <1>2, <1>3 DEF StoppedSound, NoticeOfDecidedCloses
<1> QED BY <1>4, <1>5, <1>6, <1>7

LEMMA TaskClears ==
    ASSUME ApprovalInv, NEW t \in Tasks, ClearPending(t)
    PROVE  ApprovalInv'
<1> USE DEF ApprovalInv, mainVars, binderVars
<1>1. /\ task[t] = "clearing" /\ task'[t] = "answering"
      /\ \A u \in Tasks : u # t => task'[u] = task[u]
  BY MoveOn DEF ClearPending
<1>2. /\ pending' = 0
      /\ UNCHANGED <<challenge, result, timedOut, answered, notice, intents, main, target, taps,
                     approvedBy, binder, told, cancels, stopped, rival, early>>
  BY DEF ClearPending
<1>3. TypeOK'
  <2>1. task' \in [Tasks -> {"none", "launched", "posting", "waiting", "clearing", "answering",
                             "done"}]
    BY DEF ClearPending, Move, TypeOK
  <2>3. TapsTypeOK'
    BY <1>2, TapsStay DEF TypeOK
  <2> QED BY <1>1, <1>2, <2>1, <2>3 DEF TypeOK
<1>4. StagesSound' /\ TargetSound' /\ StoppedSound' /\ NoticeOfDecidedCloses'
  <2>1. StagesSound' /\ StoppedSound' /\ NoticeOfDecidedCloses'
    BY <1>1, <1>2 DEF StagesSound, StoppedSound, NoticeOfDecidedCloses
  <2> QED BY <1>1, <1>2, <2>1, TargetStays
<1>5. PendingSound'
  BY <1>1, <1>2 DEF PendingSound
<1> QED BY <1>3, <1>4, <1>5

LEMMA TaskAnswers ==
    ASSUME ApprovalInv, NEW t \in Tasks, Answer(t)
    PROVE  ApprovalInv'
<1> USE DEF ApprovalInv, mainVars, binderVars
<1>1. /\ task[t] = "answering" /\ task'[t] = "done"
      /\ \A u \in Tasks : u # t => task'[u] = task[u]
  BY MoveOn DEF Answer
<1>2. UNCHANGED <<challenge, result, timedOut, pending, notice, intents, main, target, taps,
                  approvedBy, binder, told, cancels, stopped, rival, early>>
  BY DEF Answer
<1>3. /\ answered' \in [Tasks -> {"nothing", "signature", "deny"}]
      /\ \A u \in Tasks : u # t => answered'[u] = answered[u]
      /\ result[t] = "Cancelled" \/ t \in timedOut =>
           answered'[t] # "signature" \/ answered'[t] = answered[t]
  BY DEF Answer, TypeOK
<1>4. TypeOK'
  <2>1. task' \in [Tasks -> {"none", "launched", "posting", "waiting", "clearing", "answering",
                             "done"}]
    BY DEF Answer, Move, TypeOK
  <2>2. pending' # 0 => task'[pending'] \in {"posting", "waiting", "clearing"}
    <3>1. pending \in 0 .. MaxTasks
          /\ (pending # 0 => task[pending] \in {"posting", "waiting", "clearing"})
      BY DEF TypeOK
    <3> QED BY <1>1, <1>2, <3>1
  <2>3. TapsTypeOK'
    BY <1>2, TapsStay DEF TypeOK
  <2> QED BY <1>2, <1>3, <2>1, <2>2, <2>3 DEF TypeOK
<1>5. StagesSound' /\ TargetSound' /\ PendingSound' /\ NoticeOfDecidedCloses'
  <2>1. StagesSound'
    BY <1>1, <1>2, <1>3 DEF StagesSound
  <2>2. PendingSound' /\ NoticeOfDecidedCloses'
    BY <1>1, <1>2 DEF PendingSound, NoticeOfDecidedCloses
  <2> QED BY <1>1, <1>2, <2>1, <2>2, TargetStays
<1>6. StoppedSound'
  BY <1>2, <1>3 DEF StoppedSound, TypeOK
<1> QED BY <1>4, <1>5, <1>6

-----------------------------------------------------------------------------
(***************************************************************************)
(* The user, the main thread, and the whole.                               *)
(***************************************************************************)
LEMMA UserActs ==
    ASSUME ApprovalInv, Tap \/ Dismiss
    PROVE  ApprovalInv'
<1> USE DEF ApprovalInv, taskVars, mainVars, binderVars
<1>1. UNCHANGED <<taskVars, pending, main, target, approvedBy, binderVars, rival, early>>
      /\ notice' \in {notice, 0}
  BY DEF Tap, Dismiss
<1>2. intents' \in Seq(Decisions) /\ TapsTypeOK'
  <2>1. CASE Tap
    <3>1. /\ intents \in Seq(Decisions) /\ taps \in Seq(Decisions) /\ MaxTaps \in Nat
          /\ approvedBy \in [Tasks -> 0 .. Len(taps)] /\ Len(taps) < MaxTaps
      BY <2>1 DEF Tap, TypeOK, TapsTypeOK
    <3>2. PICK d \in Decisions : intents' = Append(intents, d) /\ taps' = Append(taps, d)
      BY <2>1 DEF Tap
    <3>3. /\ intents' \in Seq(Decisions) /\ taps' \in Seq(Decisions)
          /\ Len(taps') = Len(taps) + 1 /\ Len(taps) \in Nat
      BY <3>1, <3>2
    <3>4. Len(taps') <= MaxTaps /\ 0 .. Len(taps) \subseteq 0 .. Len(taps')
      BY <3>1, <3>3
    <3> QED BY <1>1, <3>1, <3>3, <3>4 DEF TapsTypeOK
  <2>2. CASE Dismiss
    BY <2>2, TapsStay DEF Dismiss, mainVars, TypeOK
  <2> QED BY <2>1, <2>2
<1>3. TypeOK'
  BY <1>1, <1>2 DEF TypeOK
<1> QED BY <1>1, <1>3
        DEF StagesSound, TargetSound, PendingSound, StoppedSound, NoticeOfDecidedCloses

\* The tap in hand is one that was made.
LEMMA HandledInTaps ==
    ASSUME TypeOK, IntentsSound
    PROVE  Handled \in 0 .. Len(taps)
<1>1. Len(intents) \in Nat /\ Len(taps) \in Nat
  BY DEF TypeOK, TapsTypeOK
<1> QED BY <1>1 DEF IntentsSound, Handled

LEMMA MainActs ==
    ASSUME ApprovalInv, IntentsSound, HandleIntent \/ DecidePending \/ CloseOnIntent
    PROVE  ApprovalInv'
<1> USE DEF ApprovalInv
<1>1. CASE HandleIntent
  <2>1. /\ UNCHANGED <<task, challenge, result, timedOut, answered, pending, notice, taps,
                       approvedBy, binder, told, cancels, stopped, rival, early>>
        /\ main' = Head(intents) /\ intents' = Tail(intents) /\ target' = pending
        /\ intents # <<>>
    BY <1>1 DEF HandleIntent, taskVars, binderVars
  <2>2. main' \in Decisions /\ intents' \in Seq(Decisions)
    BY <2>1 DEF TypeOK
  <2>3. TypeOK' /\ TargetSound'
    BY <2>1, <2>2, TapsStay DEF TypeOK, TargetSound
  <2>4. StagesSound' /\ PendingSound' /\ StoppedSound'
    BY <2>1 DEF StagesSound, PendingSound, StoppedSound
  <2>5. NoticeOfDecidedCloses'
    BY <2>2 DEF NoticeOfDecidedCloses
  <2> QED BY <2>3, <2>4, <2>5
<1>2. CASE DecidePending
  <2>1. /\ UNCHANGED <<task, challenge, timedOut, answered, pending, notice, intents, taps,
                       binder, told, cancels, stopped, rival>>
        /\ main' = "closing" /\ target' = 0 /\ target \in 0 .. MaxTasks
        /\ main \in Decisions /\ Complete(target, main)
    BY <1>2 DEF DecidePending, binderVars, TypeOK
  <2>2. /\ result' \in [Tasks -> Decisions \cup {"none", "Cancelled"}] /\ early' \subseteq Tasks
        /\ \A u \in Tasks : u # target => result'[u] = result[u]
        /\ \A u \in Tasks : result[u] # "none" => result'[u] = result[u]
        /\ early \subseteq early'
        /\ target # 0 /\ task[target] = "posting" /\ result[target] = "none" => target \in early'
    <3>1. main \in Decisions \cup {"Cancelled"}
      BY <2>1
    <3> QED BY <2>1, <3>1, CompleteDecides
  <2>3. TypeOK' /\ TargetSound' /\ NoticeOfDecidedCloses'
    <3>1. TapsTypeOK'
      BY <1>2, HandledInTaps DEF DecidePending, TypeOK, TapsTypeOK
    <3> QED BY <2>1, <2>2, <3>1 DEF TypeOK, TargetSound, NoticeOfDecidedCloses
  <2>4. StagesSound'
    BY <2>1, <2>2 DEF StagesSound, TargetSound
  <2>5. PendingSound' /\ StoppedSound'
    BY <2>1, <2>2 DEF PendingSound, StoppedSound, TypeOK
  <2> QED BY <2>3, <2>4, <2>5
<1>3. CASE CloseOnIntent
  BY <1>3, TapsStay DEF CloseOnIntent, taskVars, binderVars, TypeOK, StagesSound, TargetSound,
              PendingSound, StoppedSound, NoticeOfDecidedCloses
<1> QED BY <1>1, <1>2, <1>3

LEMMA ProcessEnds ==
    ASSUME ApprovalInv, ServiceRestarts
    PROVE  ApprovalInv'
<1>1. TypeOK'
  BY TapsStay DEF ApprovalInv, ServiceRestarts, TypeOK
<1>2. StagesSound' /\ TargetSound' /\ PendingSound'
  BY DEF ApprovalInv, ServiceRestarts, TypeOK, StagesSound, TargetSound, PendingSound
<1>3. StoppedSound' /\ NoticeOfDecidedCloses'
  BY <1>1 DEF ServiceRestarts, StoppedSound, NoticeOfDecidedCloses, TypeOK
<1> QED BY <1>1, <1>2, <1>3 DEF ApprovalInv

-----------------------------------------------------------------------------
(***************************************************************************)
(* The taps.                                                               *)
(***************************************************************************)
\* A tap is made, and its intent waits behind the others.
LEMMA TapWaits ==
    ASSUME TypeOK, TapsInv, Tap
    PROVE  TapsInv'
<1>1. PICK d \in Decisions : intents' = Append(intents, d) /\ taps' = Append(taps, d)
  BY DEF Tap
<1>2. /\ intents \in Seq(Decisions) /\ taps \in Seq(Decisions)
      /\ approvedBy \in [Tasks -> 0 .. Len(taps)]
      /\ Len(intents) \in Nat /\ Len(taps) \in Nat
      /\ UNCHANGED <<main, approvedBy, result, answered>>
  BY DEF Tap, TypeOK, TapsTypeOK, taskVars
<1>3. /\ Len(intents') = Len(intents) + 1 /\ Len(taps') = Len(taps) + 1
      /\ \A i \in 1 .. Len(intents) : intents'[i] = intents[i]
      /\ \A i \in 1 .. Len(taps) : taps'[i] = taps[i]
      /\ intents'[Len(intents) + 1] = d /\ taps'[Len(taps) + 1] = d
  BY <1>1, <1>2
<1>4. Handled' = Handled /\ Handled \in 0 .. Len(taps) /\ Len(taps) = Handled + Len(intents)
  BY <1>2, <1>3 DEF TapsInv, IntentsSound, Handled
<1>5. \A i \in 1 .. Handled : taps'[i] = taps[i]
  BY <1>2, <1>3, <1>4
<1>6. IntentsSound'
  <2>1. ASSUME NEW i \in 1 .. Len(intents') PROVE intents'[i] = taps'[Handled + i]
    <3>1. CASE i \in 1 .. Len(intents)
      <4>1. Handled + i \in 1 .. Len(taps)
        BY <1>2, <1>4, <3>1
      <4> QED BY <1>3, <3>1, <4>1 DEF TapsInv, IntentsSound
    <3>2. CASE i = Len(intents) + 1
      <4>1. Handled + i = Len(taps) + 1
        BY <1>2, <1>4, <3>2
      <4> QED BY <1>3, <3>2, <4>1
    <3>3. i \in 1 .. Len(intents) \/ i = Len(intents) + 1
      BY <1>2, <1>3
    <3> QED BY <3>1, <3>2, <3>3
  <2>2. main' \in Decisions => Handled' # 0 /\ taps'[Handled'] = main'
    BY <1>2, <1>4, <1>5 DEF TapsInv, IntentsSound
  <2> QED BY <1>4, <2>1, <2>2 DEF IntentsSound
<1>7. ApprovedSound'
  BY <1>2, <1>4, <1>5 DEF TapsInv, ApprovedSound
<1>8. SignedSound'
  BY <1>2 DEF TapsInv, SignedSound
<1> QED BY <1>6, <1>7, <1>8 DEF TapsInv

\* The oldest intent is taken: no coroutine has its tap yet.
LEMMA IntentTaken ==
    ASSUME TypeOK, TapsInv, HandleIntent
    PROVE  TapsInv'
<1>1. /\ intents # <<>> /\ main' = Head(intents) /\ intents' = Tail(intents)
      /\ UNCHANGED <<taps, approvedBy, result, answered>>
      /\ intents \in Seq(Decisions) /\ Len(taps) \in Nat
      /\ approvedBy \in [Tasks -> 0 .. Len(taps)]
  BY DEF HandleIntent, TypeOK, TapsTypeOK, taskVars
<1>2. /\ Len(intents) \in Nat \ {0} /\ Len(intents') = Len(intents) - 1
      /\ main' = intents[1]
      /\ \A i \in 1 .. Len(intents') : intents'[i] = intents[i + 1]
  BY <1>1
<1>3. Handled \in Nat /\ Handled' = Handled + 1
  BY <1>1, <1>2 DEF TapsInv, IntentsSound, Handled
<1>4. IntentsSound'
  <2>1. taps'[Handled'] = main'
    BY <1>1, <1>2, <1>3 DEF TapsInv, IntentsSound
  <2>2. ASSUME NEW i \in 1 .. Len(intents') PROVE intents'[i] = taps'[Handled' + i]
    <3>1. i + 1 \in 1 .. Len(intents) /\ Handled' + i = Handled + (i + 1)
      BY <1>2, <1>3
    <3> QED BY <1>1, <1>2, <3>1 DEF TapsInv, IntentsSound
  <2> QED BY <1>3, <2>1, <2>2 DEF IntentsSound
<1>5. ApprovedSound'
  BY <1>1, <1>3 DEF TapsInv, ApprovedSound
<1>6. SignedSound'
  BY <1>1 DEF TapsInv, SignedSound
<1> QED BY <1>4, <1>5, <1>6 DEF TapsInv

\* The tap in hand approves the coroutine that was pending, or nothing.
LEMMA TapDecides ==
    ASSUME TypeOK, TapsInv, DecidePending
    PROVE  TapsInv'
<1>1. /\ main \in Decisions /\ main' = "closing" /\ Complete(target, main)
      /\ UNCHANGED <<intents, taps, answered>>
      /\ approvedBy' = IF main = "Approved" /\ target # 0 /\ result[target] = "none"
                         THEN [approvedBy EXCEPT ![target] = Handled] ELSE approvedBy
      /\ target \in 0 .. MaxTasks /\ approvedBy \in [Tasks -> 0 .. Len(taps)]
      /\ result \in [Tasks -> Decisions \cup {"none", "Cancelled"}]
  BY DEF DecidePending, TypeOK, TapsTypeOK
<1>2. Handled' = Handled /\ Handled \in Nat \ {0} /\ taps[Handled] = main
  BY <1>1 DEF TapsInv, IntentsSound, Handled
<1>3. IntentsSound'
  BY <1>1, <1>2 DEF TapsInv, IntentsSound
<1>4. CASE main = "Approved" /\ target # 0 /\ result[target] = "none"
  <2>1. /\ target \in Tasks /\ approvedBy'[target] = Handled
        /\ result' = [result EXCEPT ![target] = "Approved"]
        /\ \A t \in Tasks : t # target => approvedBy'[t] = approvedBy[t]
    BY <1>1, <1>4 DEF Complete
  <2>2. \A t \in Tasks : approvedBy[t] # Handled
    BY <1>1, <1>2 DEF TapsInv, ApprovedSound
  <2>3. ApprovedSound'
    <3>1. ASSUME NEW t \in Tasks, approvedBy'[t] # 0
          PROVE  /\ approvedBy'[t] \in 1 .. Handled /\ taps[approvedBy'[t]] = "Approved"
                 /\ \A u \in Tasks : approvedBy'[t] = approvedBy'[u] => t = u
      <4>1. CASE t = target
        BY <1>2, <1>4, <2>1, <2>2, <4>1
      <4>2. CASE t # target
        BY <1>2, <2>1, <2>2, <3>1, <4>2 DEF TapsInv, ApprovedSound
      <4> QED BY <4>1, <4>2
    <3> QED BY <1>1, <1>2, <3>1 DEF ApprovedSound
  <2>4. SignedSound'
    BY <1>1, <1>2, <2>1 DEF TapsInv, SignedSound
  <2> QED BY <1>3, <2>3, <2>4 DEF TapsInv
<1>5. CASE ~(main = "Approved" /\ target # 0 /\ result[target] = "none")
  <2>1. approvedBy' = approvedBy
    BY <1>1, <1>5
  <2>2. \A t \in Tasks : result'[t] = "Approved" => result[t] = "Approved"
    <3>1. CASE target # 0 /\ result[target] = "none"
      BY <1>1, <1>5, <3>1 DEF Complete
    <3>2. CASE ~(target # 0 /\ result[target] = "none")
      BY <1>1, <3>2 DEF Complete
    <3> QED BY <3>1, <3>2
  <2>3. ApprovedSound'
    BY <1>1, <1>2, <2>1 DEF TapsInv, ApprovedSound
  <2>4. SignedSound'
    BY <1>1, <2>1, <2>2 DEF TapsInv, SignedSound
  <2> QED BY <1>3, <2>3, <2>4 DEF TapsInv
<1> QED BY <1>4, <1>5

\* What neither takes an intent nor approves or signs leaves the taps as they are.
LEMMA TapsElsewhere ==
    ASSUME TapsInv, UNCHANGED <<intents, taps, approvedBy>>, main' \in {main, "idle"},
           \A t \in Tasks : /\ result'[t] = "Approved" => result[t] = "Approved"
                            /\ answered'[t] = "signature" =>
                                 answered[t] = "signature" \/ result[t] = "Approved"
    PROVE  TapsInv'
<1>1. Handled' = Handled
  BY DEF Handled
<1> QED BY <1>1 DEF TapsInv, IntentsSound, ApprovedSound, SignedSound

LEMMA TapsInductive ==
    ASSUME TypeOK, TapsInv, [Next]_vars
    PROVE  TapsInv'
<1>1. CASE ReceiveCancel
  <2>1. UNCHANGED <<answered, intents, taps, approvedBy, main>>
    BY <1>1 DEF ReceiveCancel, mainVars
  <2>2. \A t \in Tasks : result'[t] = "Approved" => result[t] = "Approved"
    BY <1>1 DEF ReceiveCancel, Complete, TypeOK
  <2> QED BY <2>1, <2>2, TapsElsewhere
<1>2. ASSUME NEW t \in Tasks, Answer(t) PROVE TapsInv'
  <2>1. UNCHANGED <<result, intents, taps, approvedBy, main>>
    BY <1>2 DEF Answer, mainVars
  <2>2. \A u \in Tasks : answered'[u] = "signature" =>
          answered[u] = "signature" \/ result[u] = "Approved"
    BY <1>2 DEF Answer, TypeOK
  <2> QED BY <2>1, <2>2, TapsElsewhere
<1>3. CASE ServiceRestarts
  BY <1>3, TapsElsewhere DEF ServiceRestarts
<1>4. CASE CloseOnIntent
  BY <1>4, TapsElsewhere DEF CloseOnIntent, taskVars
<1>5. CASE UNCHANGED <<mainVars, result, answered>>
  BY <1>5, TapsElsewhere DEF mainVars
<1>6. ReceiveChallenge \/ CloseOnCancel \/ Dismiss \/ UNCHANGED vars
        => UNCHANGED <<mainVars, result, answered>>
  BY DEF ReceiveChallenge, CloseOnCancel, Dismiss, vars, taskVars
<1>7. ASSUME NEW t \in Tasks,
             Start(t) \/ PostNotice(t) \/ Resume(t) \/ TimeOut(t) \/ ClearPending(t)
      PROVE  UNCHANGED <<mainVars, result, answered>>
  BY <1>7 DEF Start, PostNotice, Resume, TimeOut, ClearPending
<1> QED BY <1>1, <1>2, <1>3, <1>4, <1>5, <1>6, <1>7, TapWaits, IntentTaken, TapDecides
        DEF Next, Handle

LEMMA WatchInvHolds == Spec => []WatchInv
<1>1. Init => WatchInv
  <2>1. Init => TapsInv
    BY DEF Init, TapsInv, IntentsSound, ApprovedSound, SignedSound, Handled
  <2> QED BY <2>1, ApprovalInvInit DEF WatchInv
<1>2. WatchInv /\ [Next]_vars => WatchInv'
  <2> SUFFICES ASSUME WatchInv, [Next]_vars PROVE WatchInv'
    OBVIOUS
  <2> USE DEF WatchInv
  <2>1. ASSUME NEW t \in Tasks, Handle(t) PROVE ApprovalInv'
    BY <2>1, TaskStarts, TaskPosts, TaskForgets, TaskClears, TaskAnswers DEF Handle
  <2>2. ASSUME UNCHANGED vars PROVE ApprovalInv'
    BY <2>2, TapsStay DEF vars, taskVars, mainVars, binderVars, ApprovalInv, TypeOK,
                StagesSound, TargetSound, PendingSound, StoppedSound, NoticeOfDecidedCloses
  <2>3. HandleIntent \/ DecidePending \/ CloseOnIntent => ApprovalInv'
    BY MainActs DEF TapsInv
  <2>4. ApprovalInv'
    BY <2>1, <2>2, <2>3, ChallengeReceived, CancelReceived, CancelCloses, UserActs,
       ProcessEnds DEF Next
  <2>5. TapsInv'
    BY TapsInductive DEF ApprovalInv
  <2> QED BY <2>4, <2>5
<1> QED BY <1>1, <1>2, PTL DEF Spec

LEMMA ApprovalInvHolds == Spec => []ApprovalInv
<1>1. WatchInv => ApprovalInv
  BY DEF WatchInv
<1> QED BY <1>1, WatchInvHolds, PTL

-----------------------------------------------------------------------------
\* The coroutines, the field, the notice and the intents keep their types, and the field
\* names a coroutine that is at work.
THEOREM ApprovalTypeCorrect == Spec => []TypeOK
<1>1. ApprovalInv => TypeOK
  BY DEF ApprovalInv
<1> QED BY <1>1, ApprovalInvHolds, PTL

\* A challenge that no other one met is the one a tap or a cancellation finds.
THEOREM WaitingIsReachable == Spec => []ApprovalReachable
<1>1. ApprovalInv => ApprovalReachable
  BY DEF ApprovalInv, PendingSound, ApprovalReachable
<1> QED BY <1>1, ApprovalInvHolds, PTL

\* No challenge is signed without an Approve of its own, across restarts of the process.
THEOREM SignaturesHaveTaps == Spec => []SignedByItsOwnTap
<1>1. WatchInv => SignedByItsOwnTap
  BY DEF WatchInv, TapsInv, ApprovedSound, SignedSound, SignedByItsOwnTap
<1> QED BY <1>1, WatchInvHolds, PTL

\* A challenge cancelled before it was decided is not signed.
THEOREM StoppedIsNotSigned == Spec => []CancelledIsNotSigned
<1>1. ApprovalInv => CancelledIsNotSigned
  BY DEF ApprovalInv, StoppedSound, CancelledIsNotSigned
<1> QED BY <1>1, ApprovalInvHolds, PTL

\* The notice of a challenge that was decided or cancelled is closed, or about to be.
THEOREM DecidedNoticeCloses == Spec => []NoticeOfDecidedCloses
<1>1. ApprovalInv => NoticeOfDecidedCloses
  BY DEF ApprovalInv
<1> QED BY <1>1, ApprovalInvHolds, PTL
=============================================================================
